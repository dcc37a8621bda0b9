---------------------------- MODULE FtpDownloads ----------------------------
(***************************************************************************)
(* Downloads in the background: the page that starts one, polls it and     *)
(* fetches the data, the server's table of downloads, and the tasks that   *)
(* read the files, one at a time for a target.                             *)
(*                                                                         *)
(*   web page, tabs/mavftp.rs    Click, Started, Poll, PollReturns, Fetch, *)
(*                               FetchReturns, Dismiss, List, ListReturns  *)
(*   routes/v1/mavftp.rs and     StartDownload, AnswerPoll, TakeData,      *)
(*   mavftp/mod.rs               RemoveEntry                               *)
(*   the spawned task            Queue, Acquire, ReadEnds, Report, Settle  *)
(*                                                                         *)
(* What happens during a read is in FtpBurst and FtpSession: it ends well  *)
(* or it does not (FtpBurst!ReadEnds).  Requests of the page may get lost, *)
(* and are answered in any order; time is not modelled, so a poll may      *)
(* follow the last one at any distance.                                    *)
(***************************************************************************)
EXTENDS Integers, Sequences, FiniteSets

CONSTANTS
  Downloads,  \* the ids that may be given out
  Listings,   \* requests of the page to list a directory of the same target
  None        \* no download on the page

ASSUME DownloadsAssumption ==
  /\ IsFiniteSet(Downloads)
  /\ None \notin Downloads
  /\ Downloads \cap Listings = {}

VARIABLES
  \* the server
  entry,      \* entry[d]: none, listed in ACTIVE_DOWNLOADS, or removed
  status,     \* status[d]: what a poll is told
  data,       \* data[d]: none, held or taken
  reason,     \* reason[d]: an error text is there
  task,       \* task[d]: how far the task of d is
  lock,       \* the target's lock: its holder and those who wait
  \* the page
  active,     \* active_download: the id and the status shown
  polling,    \* download_poll_in_flight
  fetching,   \* download_data_in_flight
  saved,      \* saved[d]: how often the browser was given the file
  entries,    \* the directory: idle, loading, done or error
  \* requests of the page
  starts,     \* starts[d]: the POST that starts d
  polls,      \* polls[d]: a GET of its progress
  fetches,    \* fetches[f]: a GET of the data of download f[1]
  lists       \* lists[l]: a GET of a directory

tableVars == <<entry, status, data, reason>>
taskVars == <<task, lock>>
barVars == <<active, polling, fetching, saved>>
pageVars == <<barVars, entries>>
requestVars == <<starts, polls, fetches, lists>>
vars == <<tableVars, taskVars, pageVars, requestVars>>

Statuses == {"downloading", "complete", "error"}

(* The page may fetch a download several times at a time (see Fetch), but  *)
(* not more often than it has started downloads.                           *)
Slots == 1..Cardinality(Downloads)
Fetches == Downloads \X Slots

Init ==
  /\ entry = [d \in Downloads |-> "none"]
  /\ status = [d \in Downloads |-> "downloading"]
  /\ data = [d \in Downloads |-> "none"]
  /\ reason = [d \in Downloads |-> FALSE]
  /\ task = [d \in Downloads |-> "none"]
  /\ lock = <<>>
  /\ active = None
  /\ polling = FALSE
  /\ fetching = FALSE
  /\ saved = [d \in Downloads |-> 0]
  /\ starts = [d \in Downloads |-> "none"]
  /\ polls = [d \in Downloads |-> "none"]
  /\ fetches = [f \in Fetches |-> "none"]
  /\ entries = "idle"
  /\ lists = [l \in Listings |-> "none"]

-----------------------------------------------------------------------------
(* The server: mavftp::start_download and its task                         *)

StartDownload(d) ==
  /\ starts[d] = "sent"
  /\ starts' = [starts EXCEPT ![d] = "answered"]
  /\ entry' = [entry EXCEPT ![d] = "listed"]
  /\ task' = [task EXCEPT ![d] = "spawned"]
  /\ UNCHANGED <<status, data, reason, lock, pageVars, polls, fetches, lists>>

(* burst_read_file_inner waits for target_lock.                            *)
Queue(d) ==
  /\ task[d] = "spawned"
  /\ task' = [task EXCEPT ![d] = "queued"]
  /\ lock' = Append(lock, d)
  /\ UNCHANGED <<tableVars, pageVars, requestVars>>

(* Mutant: the guard is not dropped when a read fails.                     *)
ReadEndsHolding(d) ==
  /\ task[d] = "queued"
  /\ Head(lock) = d
  /\ \/ /\ task' = [task EXCEPT ![d] = "read"]
        /\ lock' = Tail(lock)
     \/ /\ task' = [task EXCEPT ![d] = "failed"]
        /\ UNCHANGED lock
  /\ UNCHANGED <<tableVars, pageVars, requestVars>>

ReadEnds(d) ==
  /\ task[d] = "queued"
  /\ Head(lock) = d
  /\ \E how \in {"read", "failed"} : task' = [task EXCEPT ![d] = how]
  /\ lock' = Tail(lock)
  /\ UNCHANGED <<tableVars, pageVars, requestVars>>

(* The data, or the error, are there ...                                   *)
Report(d) ==
  /\ \/ /\ task[d] = "read"
        /\ data' = [data EXCEPT ![d] = "held"]
        /\ task' = [task EXCEPT ![d] = "stored"]
        /\ UNCHANGED reason
     \/ /\ task[d] = "failed"
        /\ reason' = [reason EXCEPT ![d] = TRUE]
        /\ task' = [task EXCEPT ![d] = "explained"]
        /\ UNCHANGED data
  /\ UNCHANGED <<entry, status, lock, pageVars, requestVars>>

(* ... before the status says so.                                          *)
Settle(d) ==
  /\ \/ /\ task[d] = "stored"
        /\ status' = [status EXCEPT ![d] = "complete"]
     \/ /\ task[d] = "explained"
        /\ status' = [status EXCEPT ![d] = "error"]
  /\ task' = [task EXCEPT ![d] = "over"]
  /\ UNCHANGED <<entry, data, reason, lock, pageVars, requestVars>>

(* list_directory_entries waits for the same lock, and ends.               *)
ListQueue(l) ==
  /\ lists[l] = "sent"
  /\ lists' = [lists EXCEPT ![l] = "queued"]
  /\ lock' = Append(lock, l)
  /\ UNCHANGED <<tableVars, task, pageVars, starts, polls, fetches>>

ListEnds(l) ==
  /\ lists[l] = "queued"
  /\ Head(lock) = l
  /\ \E how \in {"done", "error"} : lists' = [lists EXCEPT ![l] = how]
  /\ lock' = Tail(lock)
  /\ UNCHANGED <<tableVars, task, pageVars, starts, polls, fetches>>

-----------------------------------------------------------------------------
(* The server: get_download_progress, take_download_data                   *)

AnswerPoll(d) ==
  /\ polls[d] = "sent"
  /\ polls' = [polls EXCEPT ![d] =
                 IF entry[d] = "listed" THEN status[d] ELSE "missing"]
  /\ UNCHANGED <<tableVars, taskVars, pageVars, starts, fetches, lists>>

(* Mutant: the data stay in the table.                                     *)
CopyData(f) ==
  LET d == f[1] IN
    /\ fetches[f] = "sent"
    /\ IF entry[d] = "listed" /\ status[d] = "complete" /\ data[d] = "held"
         THEN fetches' = [fetches EXCEPT ![f] = "taken"]
         ELSE fetches' = [fetches EXCEPT ![f] = "missing"]
    /\ UNCHANGED <<tableVars, taskVars, pageVars, starts, polls, lists>>

(* Under the read guard of the table: the data are taken once.             *)
TakeData(f) ==
  LET d == f[1] IN
    /\ fetches[f] = "sent"
    /\ IF entry[d] = "listed" /\ status[d] = "complete" /\ data[d] = "held"
         THEN /\ data' = [data EXCEPT ![d] = "taken"]
              /\ fetches' = [fetches EXCEPT ![f] = "taken"]
         ELSE /\ fetches' = [fetches EXCEPT ![f] = "missing"]
              /\ UNCHANGED data
    /\ UNCHANGED <<entry, status, reason, taskVars, pageVars, starts, polls, lists>>

(* The read guard is dropped before the write guard is asked for.          *)
RemoveEntry(f) ==
  /\ fetches[f] = "taken"
  /\ entry' = [entry EXCEPT ![f[1]] = "removed"]
  /\ fetches' = [fetches EXCEPT ![f] = "data"]
  /\ UNCHANGED <<status, data, reason, taskVars, pageVars, starts, polls, lists>>

-----------------------------------------------------------------------------
(* The page                                                                *)

Shows(s) == active # None /\ active.status = s

(* The button; the page does not know yet of a POST under way.             *)
Click(d) ==
  /\ active = None
  /\ starts[d] = "none"
  /\ starts' = [starts EXCEPT ![d] = "sent"]
  /\ UNCHANGED <<tableVars, taskVars, pageVars, polls, fetches, lists>>

Started(d) ==
  /\ starts[d] = "answered"
  /\ starts' = [starts EXCEPT ![d] = "over"]
  /\ active' = [id |-> d, status |-> "downloading"]
  /\ polling' = FALSE
  /\ fetching' = FALSE
  /\ UNCHANGED <<tableVars, taskVars, saved, entries, polls, fetches, lists>>

(* Only a message is shown.                                                *)
StartFails(d) ==
  /\ starts[d] \in {"sent", "answered"}
  /\ starts' = [starts EXCEPT ![d] = "over"]
  /\ UNCHANGED <<tableVars, taskVars, pageVars, polls, fetches, lists>>

(* Mutant: the page polls while a poll is under way.                       *)
PollAgain ==
  /\ Shows("downloading")
  /\ polls' = [polls EXCEPT ![active.id] = "sent"]
  /\ UNCHANGED <<tableVars, taskVars, pageVars, starts, fetches, lists>>

(* render_download_bar at each repaint.                                    *)
Poll ==
  /\ Shows("downloading")
  /\ ~polling
  /\ polling' = TRUE
  /\ polls' = [polls EXCEPT ![active.id] = "sent"]
  /\ UNCHANGED <<tableVars, taskVars, active, fetching, saved, entries, starts,
                 fetches, lists>>

(* The answer replaces whatever download the page shows.                   *)
PollReturns(d) ==
  /\ polls[d] \notin {"none", "sent"}
  /\ polls' = [polls EXCEPT ![d] = "none"]
  /\ polling' = FALSE
  /\ active' = IF active = None THEN None
               ELSE IF polls[d] = "missing" THEN [active EXCEPT !.status = "error"]
               ELSE [id |-> d, status |-> polls[d]]
  /\ UNCHANGED <<tableVars, taskVars, fetching, saved, entries, starts, fetches,
                 lists>>

(* fail_active_download.                                                   *)
PollFails(d) ==
  /\ polls[d] # "none"
  /\ polls' = [polls EXCEPT ![d] = "none"]
  /\ polling' = FALSE
  /\ active' = IF active = None THEN None ELSE [active EXCEPT !.status = "error"]
  /\ UNCHANGED <<tableVars, taskVars, fetching, saved, entries, starts, fetches,
                 lists>>

(* The flag is the page's, not the download's: when a second download has  *)
(* taken the place of the first, the end of the first one's fetch lets the *)
(* next repaint fetch the second one's data again.                         *)
Fetch ==
  /\ Shows("complete")
  /\ ~fetching
  /\ fetching' = TRUE
  /\ \E i \in Slots :
       /\ fetches[<<active.id, i>>] = "none"
       /\ fetches' = [fetches EXCEPT ![<<active.id, i>>] = "sent"]
  /\ UNCHANGED <<tableVars, taskVars, active, polling, saved, entries, starts,
                 polls, lists>>

(* clear_active_download_if_matches, which the end of every fetch calls.   *)
FetchOver(f) ==
  /\ fetches' = [fetches EXCEPT ![f] = "none"]
  /\ fetching' = FALSE
  /\ active' = IF active # None /\ active.id = f[1] THEN None ELSE active
  /\ UNCHANGED <<tableVars, taskVars, polling, entries, starts, polls, lists>>

FetchReturns(f) ==
  /\ fetches[f] \in {"data", "missing"}
  /\ saved' = IF fetches[f] = "data" THEN [saved EXCEPT ![f[1]] = @ + 1] ELSE saved
  /\ FetchOver(f)

(* The request, or its answer, is lost.                                    *)
FetchFails(f) ==
  /\ fetches[f] \in {"sent", "data", "missing"}
  /\ FetchOver(f)
  /\ UNCHANGED saved

Dismiss ==
  /\ Shows("error")
  /\ active' = None
  /\ UNCHANGED <<tableVars, taskVars, polling, fetching, saved, entries,
                 requestVars>>

(* fetch_listing, when a directory is entered or changed.  Nothing tells   *)
(* its answer from that of the listing before.                             *)
List(l) ==
  /\ lists[l] = "none"
  /\ lists' = [lists EXCEPT ![l] = "sent"]
  /\ entries' = "loading"
  /\ UNCHANGED <<tableVars, taskVars, barVars, starts, polls, fetches>>

ListReturns(l) ==
  /\ lists[l] \in {"done", "error"}
  /\ lists' = [lists EXCEPT ![l] = "none"]
  /\ entries' = lists[l]
  /\ UNCHANGED <<tableVars, taskVars, barVars, starts, polls, fetches>>

-----------------------------------------------------------------------------
Server(d) ==
  \/ StartDownload(d) \/ Queue(d) \/ ReadEnds(d) \/ Report(d) \/ Settle(d)
  \/ AnswerPoll(d)

Page(d) ==
  \/ Click(d) \/ Started(d) \/ StartFails(d)
  \/ PollReturns(d) \/ PollFails(d)

Transfer(f) ==
  TakeData(f) \/ RemoveEntry(f) \/ FetchReturns(f) \/ FetchFails(f)

Next ==
  \/ \E d \in Downloads : Server(d) \/ Page(d)
  \/ \E f \in Fetches : Transfer(f)
  \/ \E l \in Listings : List(l) \/ ListQueue(l) \/ ListEnds(l) \/ ListReturns(l)
  \/ Poll \/ Fetch \/ Dismiss

Spec == Init /\ [][Next]_vars

(* The server's tasks are polled and its reads end, the page is repainted  *)
(* while it shows a download, and its requests come back one way or the    *)
(* other.                                                                  *)
FairSpec ==
  /\ Spec
  /\ WF_vars(Poll) /\ WF_vars(Fetch)
  /\ \A d \in Downloads :
       /\ WF_vars(Queue(d)) /\ WF_vars(ReadEnds(d))
       /\ WF_vars(Report(d)) /\ WF_vars(Settle(d))
       /\ WF_vars(AnswerPoll(d)) /\ WF_vars(PollReturns(d) \/ PollFails(d))
  /\ \A f \in Fetches : WF_vars(Transfer(f))
  /\ \A l \in Listings :
       WF_vars(ListQueue(l)) /\ WF_vars(ListEnds(l)) /\ WF_vars(ListReturns(l))

-----------------------------------------------------------------------------
(* Properties                                                              *)

(* Every variable keeps its type; a progress request is never made while   *)
(* one for the same download is under way, and a fetch finds a place,      *)
(* which is why that many states of requests are enough.                   *)
TypeOK ==
  /\ entry \in [Downloads -> {"none", "listed", "removed"}]
  /\ status \in [Downloads -> Statuses]
  /\ data \in [Downloads -> {"none", "held", "taken"}]
  /\ reason \in [Downloads -> BOOLEAN]
  /\ task \in [Downloads -> {"none", "spawned", "queued", "read", "failed",
                             "stored", "explained", "over"}]
  /\ lock \in Seq(Downloads \cup Listings)
  /\ active = None \/ active \in [id : Downloads, status : Statuses]
  /\ polling \in BOOLEAN
  /\ fetching \in BOOLEAN
  /\ saved \in [Downloads -> Nat]
  /\ entries \in {"idle", "loading", "done", "error"}
  /\ lists \in [Listings -> {"none", "sent", "queued", "done", "error"}]
  /\ starts \in [Downloads -> {"none", "sent", "answered", "over"}]
  /\ polls \in [Downloads -> Statuses \cup {"none", "sent", "missing"}]
  /\ fetches \in [Fetches -> {"none", "sent", "taken", "data", "missing"}]
  /\ Shows("downloading") /\ ~polling => polls[active.id] = "none"
  /\ Shows("complete") /\ ~fetching =>
       \E i \in Slots : fetches[<<active.id, i>>] = "none"

(* What the page was told holds, however polls, repaints, second clicks and*)
(* fetches interleave (mod.rs:165-175, 207-219).  The browser is given a   *)
(* file at most once, and then the server has dropped it; a fetch, which is*)
(* only made of a download that a poll found complete, comes away empty    *)
(* only when another one has the data; a poll that tells of an error tells *)
(* the reason.                                                             *)
AnswersHold ==
  /\ \A d \in Downloads :
       /\ saved[d] <= 1
       /\ saved[d] = 1 => entry[d] = "removed"
       /\ polls[d] = "error" => reason[d]
  /\ \A f \in Fetches : fetches[f] = "missing" => data[f[1]] = "taken"

(* Neither a download nor a directory stays under way on the page for ever,*)
(* although they wait for each other at the target, answers overtake each  *)
(* other, and a second download may have taken the place of the first.     *)
PageSettles ==
  /\ Shows("downloading") ~> ~Shows("downloading")
  /\ entries = "loading" ~> entries # "loading"
=============================================================================
