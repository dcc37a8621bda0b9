----------------------------- MODULE StatsProofs ----------------------------
(***************************************************************************)
(* Proofs about Stats, for any number of messages, resets and replacements,*)
(* any clients with channels of any capacity, and any width of the counters*)
(* that holds twice the messages.                                          *)
(*                                                                         *)
(* NothingFromBeforeReset says nothing while a guard is held, and a reset  *)
(* takes many steps.  The inductive invariant follows each kind through    *)
(* them: between the hub's clearing of its counter and the clearing of its *)
(* last value a kind is stale, and then nobody can read it and no updater  *)
(* can publish it; otherwise its last value, what its updater fetched and  *)
(* what is shown follow one another and the counter, but where the history *)
(* says that the driver was replaced in between.                           *)
(*                                                                         *)
(* The last part is about who waits for whom: the deadlock that a reset    *)
(* can run into is the only one, and is for ever.                          *)
(***************************************************************************)
EXTENDS Stats, TLAPS

-----------------------------------------------------------------------------
(* The orders in which the reset goes through the kinds                    *)

LEMMA Orders ==
  /\ Len(GuardOrder) = 3 /\ Len(HubOrder) = 3 /\ Len(ClearOrder) = 3
  /\ GuardOrder[1] = "hub" /\ GuardOrder[2] = "drivers"
  /\ GuardOrder[3] = "messages"
  /\ HubOrder[1] = "drivers" /\ HubOrder[2] = "hub"
  /\ HubOrder[3] = "messages"
  /\ ClearOrder[1] = "drivers" /\ ClearOrder[2] = "messages"
  /\ ClearOrder[3] = "hub"
  /\ AskingHub = 4 /\ Clearing = 5
  BY DEF GuardOrder, HubOrder, ClearOrder, AskingHub, Clearing

(* The hub may have cleared the counter of k, and the reset, which is at   *)
(* step r, has not yet cleared what goes with it.                          *)
StaleAt(k, r) ==
  /\ r >= Clearing
  /\ \E i \in 1..Len(ClearOrder) : ClearOrder[i] = k /\ i > r - Clearing

Stale(k) == StaleAt(k, reset)

(* From the moment the hub is asked until the end every kind is guarded.   *)
LEMMA ClearingIsGuarded ==
  ASSUME NEW k \in Kinds, reset \in Int, reset >= 4
  PROVE  Guarded(k)
<1>1. CASE k = "hub"
  <2>1. 1 \in 1..Len(GuardOrder) /\ GuardOrder[1] = k /\ 1 < reset
    BY <1>1, Orders
  <2> QED
    BY <2>1 DEF Guarded
<1>2. CASE k = "drivers"
  <2>1. 2 \in 1..Len(GuardOrder) /\ GuardOrder[2] = k /\ 2 < reset
    BY <1>2, Orders
  <2> QED
    BY <2>1 DEF Guarded
<1>3. CASE k = "messages"
  <2>1. 3 \in 1..Len(GuardOrder) /\ GuardOrder[3] = k /\ 3 < reset
    BY <1>3, Orders
  <2> QED
    BY <2>1 DEF Guarded
<1> QED
  BY <1>1, <1>2, <1>3 DEF Kinds

(* What is stale at each step of the clearing.                             *)
LEMMA StaleSteps ==
  ASSUME NEW k \in Kinds, NEW r \in 0..7
  PROVE  StaleAt(k, r) <=> \/ r = 5
                           \/ r = 6 /\ k # "drivers"
                           \/ r = 7 /\ k = "hub"
<1>1. StaleAt(k, r) <=> /\ r >= 5
                        /\ \/ k = "drivers" /\ 1 > r - 5
                           \/ k = "messages" /\ 2 > r - 5
                           \/ k = "hub" /\ 3 > r - 5
  <2>1. 1..Len(ClearOrder) = {1, 2, 3}
    BY Orders
  <2> QED
    BY <2>1, Orders DEF StaleAt
<1>2. k \in {"drivers", "hub", "messages"}
  BY DEF Kinds
<1> QED
  BY <1>1, <1>2

(* Unless a reset is at its end, its next step makes nothing fresh.        *)
LEMMA StaleGrows ==
  ASSUME NEW k \in Kinds, reset \in 0..7, reset' \in 0..7, ~Stale(k)',
         reset' = reset \/ reset < 5
  PROVE  ~Stale(k)
<1>1. CASE reset' = reset
  BY <1>1 DEF Stale
<1>2. CASE reset < 5
  BY <1>2, StaleSteps DEF Stale
<1> QED
  BY <1>1, <1>2

-----------------------------------------------------------------------------
(* The invariant                                                           *)

(* What is counted has arrived.                                            *)
CountsBounded ==
  /\ acc["drivers"] <= heard
  /\ heard <= arrived
  /\ 2 * acc["hub"] <= counted + 1
  /\ 2 * acc["messages"] <= counted

(* A replacement lies before this value of kind k.                         *)
Anew(k, value) == k = "drivers" /\ value \in anew

(* What was shown, remembered and fetched of kind k, in the order in which *)
(* it was counted.                                                         *)
InStep(k) ==
  ~Stale(k) =>
    /\ shown[k].total <= Since(k)
    /\ updater[k] # "fetched" => last[k] <= acc[k] \/ Anew(k, "counter")
    /\ updater[k] = "fetched" =>
         /\ fetched[k] <= Since(k)
         /\ fetched[k] <= acc[k] \/ Anew(k, "counter")
         /\ last[k] <= fetched[k] \/ Anew(k, "fetched")

NoWrap(k) == shown[k].recent <= shown[k].total \/ Anew(k, "shown")

IInv ==
  /\ TypeOK
  /\ CountsBounded
  /\ hubReset # 0 => reset = Clearing
  /\ \A k \in Kinds : InStep(k) /\ NoWrap(k)

(* The types of the parts, for the steps below.                            *)
LEMMA Typed ==
  ASSUME TypeOK
  PROVE  /\ arrived \in Nat /\ counted \in Nat /\ counted <= 2 * arrived
         /\ arrived <= MaxMessages /\ heard \in Nat
         /\ reset \in 0..7 /\ hubReset \in 0..3
         /\ \A k \in Kinds :
              /\ acc[k] \in Nat /\ last[k] \in Nat /\ fetched[k] \in Nat
              /\ Since(k) \in Nat
              /\ shown[k].total \in Nat /\ shown[k].recent \in Nat
              /\ last[k] <= MaxMessages /\ fetched[k] <= MaxMessages
              /\ acc[k] <= MaxMessages
<1>1. MaxMessages \in Nat /\ Width \in Nat
  BY StatsAssumption
<1>2. reset \in 0..7 /\ hubReset \in 0..3
  BY Orders DEF TypeOK
<1>3. arrived \in Nat /\ arrived <= MaxMessages /\ heard \in Nat
  BY <1>1 DEF TypeOK
<1>4. counted \in Nat /\ counted <= 2 * arrived
  BY <1>3 DEF TypeOK
<1>5. ASSUME NEW k \in Kinds
      PROVE  /\ acc[k] \in 0..MaxMessages /\ last[k] \in 0..MaxMessages
             /\ fetched[k] \in 0..MaxMessages
             /\ shown[k].total \in 0..MaxMessages
             /\ shown[k].recent \in 0..(Width - 1)
  BY <1>5 DEF TypeOK
<1> QED
  BY <1>1, <1>2, <1>3, <1>4, <1>5 DEF Since

(* A step that touches neither the values of kind k nor ends its staleness,*)
(* and only raises its counter, keeps it in step.                          *)
LEMMA KindUntouched ==
  ASSUME TypeOK, TypeOK', NEW k \in Kinds, InStep(k) /\ NoWrap(k),
         shown'[k] = shown[k], last'[k] = last[k], fetched'[k] = fetched[k],
         updater'[k] = updater[k], acc[k] <= acc'[k], heard <= heard',
         anew' = anew \/ k # "drivers", ~Stale(k)' => ~Stale(k)
  PROVE  InStep(k)' /\ NoWrap(k)'
<1>1. /\ acc[k] \in Nat
      /\ last[k] \in Nat /\ fetched[k] \in Nat /\ shown[k].total \in Nat
      /\ heard \in Nat
  BY Typed
<1>0. acc'[k] \in Nat /\ heard' \in Nat
  <2>1. acc'[k] \in 0..MaxMessages /\ heard' \in 0..MaxMessages
    BY DEF TypeOK
  <2> QED
    BY <2>1
<1>2. NoWrap(k)'
  BY DEF NoWrap, Anew
<1>3. InStep(k)'
  <2>1. CASE k = "drivers"
    BY <1>0, <1>1, <2>1 DEF InStep, Since, Anew
  <2>2. CASE k # "drivers"
    BY <1>0, <1>1, <2>2 DEF InStep, Since, Anew
  <2> QED
    BY <2>1, <2>2
<1> QED
  BY <1>2, <1>3

-----------------------------------------------------------------------------
(* The steps                                                               *)

(* The counters only grow while messages are counted.                      *)
LEMMA CountKeeps ==
  ASSUME IInv, Count
  PROVE  IInv'
<1>1. /\ UNCHANGED <<hubReset, last, shown, updater, fetched, anew, resetVars,
                     streamVars>>
      /\ UNCHANGED reset
  BY DEF Count, Arrive, CountHub, CountMessages, resetVars, historyVars
<1>2. /\ arrived' \in 0..MaxMessages
      /\ heard' \in 0..MaxMessages /\ heard <= heard'
      /\ counted' \in 0..(2 * arrived')
      /\ acc' \in [Kinds -> 0..MaxMessages]
      /\ CountsBounded'
      /\ \A k \in Kinds : acc[k] <= acc'[k]
  <2>1. /\ arrived \in Nat /\ counted \in Nat /\ counted <= 2 * arrived
        /\ arrived <= MaxMessages /\ MaxMessages \in Nat /\ heard \in Nat
        /\ \A k \in Kinds : acc[k] \in Nat
    BY Typed, StatsAssumption DEF IInv
  <2>2. /\ acc["drivers"] \in Nat /\ acc["hub"] \in Nat
        /\ acc["messages"] \in Nat
    BY <2>1 DEF Kinds
  <2>3. /\ acc["drivers"] <= heard /\ heard <= arrived
        /\ 2 * acc["hub"] <= counted + 1
        /\ 2 * acc["messages"] <= counted
    BY DEF IInv, CountsBounded
  <2>4. acc \in [Kinds -> 0..MaxMessages]
    BY DEF IInv, TypeOK
  <2>5. CASE Arrive
    <3>0. load.messages \in 0..MaxMessages
      BY StatsAssumption DEF IInv, TypeOK
    <3>1. /\ arrived < MaxMessages /\ arrived' = arrived + 1
          /\ counted' = counted /\ heard' = heard + 1
          /\ acc' = [acc EXCEPT !["drivers"] = acc["drivers"] + 1]
      BY <2>1, <2>5, <3>0 DEF Arrive, Kinds
    <3>2. acc["drivers"] + 1 \in 0..MaxMessages
      BY <2>1, <2>2, <2>3, <3>1
    <3>3. acc' \in [Kinds -> 0..MaxMessages]
      BY <2>4, <3>1, <3>2
    <3>4. /\ acc'["drivers"] = acc["drivers"] + 1
          /\ acc'["hub"] = acc["hub"] /\ acc'["messages"] = acc["messages"]
      BY <2>4, <3>1 DEF Kinds
    <3>5. CountsBounded'
      BY <2>1, <2>2, <2>3, <3>1, <3>4 DEF CountsBounded
    <3>6. \A k \in Kinds : acc[k] <= acc'[k]
      BY <2>2, <3>4 DEF Kinds
    <3>7. /\ arrived' \in 0..MaxMessages /\ counted' \in 0..(2 * arrived')
          /\ heard' \in 0..MaxMessages /\ heard <= heard'
      BY <2>1, <2>3, <3>1
    <3> QED
      BY <3>3, <3>5, <3>6, <3>7
  <2>6. CASE CountHub
    <3>1. /\ arrived' = arrived /\ counted' = counted + 1
          /\ heard' = heard
          /\ counted < 2 * arrived /\ counted % 2 = 0
          /\ acc' = [acc EXCEPT !["hub"] = acc["hub"] + 1]
      BY <2>6 DEF CountHub, Kinds, historyVars
    <3>2. 2 * acc["hub"] <= counted
      BY <2>1, <2>2, <2>3, <3>1
    <3>3. acc["hub"] + 1 \in 0..MaxMessages
      BY <2>1, <2>2, <3>1, <3>2
    <3>4. acc' \in [Kinds -> 0..MaxMessages]
      BY <2>4, <3>1, <3>3
    <3>5. /\ acc'["hub"] = acc["hub"] + 1
          /\ acc'["drivers"] = acc["drivers"]
          /\ acc'["messages"] = acc["messages"]
      BY <2>4, <3>1 DEF Kinds
    <3>6. CountsBounded'
      BY <2>1, <2>2, <2>3, <3>1, <3>2, <3>5 DEF CountsBounded
    <3>7. \A k \in Kinds : acc[k] <= acc'[k]
      BY <2>2, <3>5 DEF Kinds
    <3>8. /\ arrived' \in 0..MaxMessages /\ counted' \in 0..(2 * arrived')
          /\ heard' \in 0..MaxMessages /\ heard <= heard'
      BY <2>1, <2>3, <3>1
    <3> QED
      BY <3>4, <3>6, <3>7, <3>8
  <2>7. CASE CountMessages
    <3>1. /\ arrived' = arrived /\ counted' = counted + 1
          /\ heard' = heard
          /\ counted % 2 = 1
          /\ acc' = [acc EXCEPT !["messages"] = acc["messages"] + 1]
      BY <2>7 DEF CountMessages, Kinds, historyVars
    <3>2. counted < 2 * arrived /\ 2 * acc["messages"] < counted
      BY <2>1, <2>2, <2>3, <3>1
    <3>3. acc["messages"] + 1 \in 0..MaxMessages
      BY <2>1, <2>2, <3>2
    <3>4. acc' \in [Kinds -> 0..MaxMessages]
      BY <2>4, <3>1, <3>3
    <3>5. /\ acc'["messages"] = acc["messages"] + 1
          /\ acc'["drivers"] = acc["drivers"] /\ acc'["hub"] = acc["hub"]
      BY <2>4, <3>1 DEF Kinds
    <3>6. CountsBounded'
      BY <2>1, <2>2, <2>3, <3>1, <3>2, <3>5 DEF CountsBounded
    <3>7. \A k \in Kinds : acc[k] <= acc'[k]
      BY <2>2, <3>5 DEF Kinds
    <3>8. /\ arrived' \in 0..MaxMessages /\ counted' \in 0..(2 * arrived')
          /\ heard' \in 0..MaxMessages /\ heard <= heard'
      BY <2>1, <2>3, <3>1, <3>2
    <3> QED
      BY <3>4, <3>6, <3>7, <3>8
  <2> QED
    BY <2>5, <2>6, <2>7 DEF Count
<1>3. TypeOK'
  BY <1>1, <1>2 DEF IInv, TypeOK, resetVars, streamVars
<1>4. \A k \in Kinds : ~Stale(k)' => ~Stale(k)
  BY <1>1 DEF Stale
<1>5. \A k \in Kinds : InStep(k)' /\ NoWrap(k)'
  BY <1>1, <1>2, <1>3, <1>4, KindUntouched DEF IInv
<1> QED
  BY <1>1, <1>2, <1>3, <1>5 DEF IInv

(* The hub clears its counters while all the kinds are stale.              *)
LEMMA HubClearsKeeps ==
  ASSUME IInv, HubClears
  PROVE  IInv'
<1>1. hubReset \in 1..3 /\ reset = 5
  BY Typed, Orders DEF IInv, HubClears
<1>2. HubOrder[hubReset] \in Kinds
  BY <1>1, Orders DEF Kinds
<1>3. acc' = [acc EXCEPT ![HubOrder[hubReset]] = 0]
  BY DEF HubClears
<1>4. acc \in [Kinds -> 0..MaxMessages] /\ 0 \in 0..MaxMessages
  BY StatsAssumption DEF IInv, TypeOK
<1>5. acc' \in [Kinds -> 0..MaxMessages]
  BY <1>2, <1>3, <1>4
<1>6. hubReset' \in 0..3 /\ heard' \in {0, heard}
  BY <1>1, Orders DEF HubClears
<1>7. TypeOK'
  <2>1. heard' \in 0..MaxMessages
    BY <1>6, StatsAssumption DEF IInv, TypeOK
  <2> QED
    BY <1>5, <1>6, <2>1, Orders DEF IInv, TypeOK, HubClears, resetVars, streamVars
<1>8. \A k \in Kinds : acc'[k] \in {0, acc[k]}
  BY <1>3, <1>4
<1>9. CountsBounded'
  <2>1. /\ acc'["drivers"] \in {0, acc["drivers"]}
        /\ acc'["hub"] \in {0, acc["hub"]}
        /\ acc'["messages"] \in {0, acc["messages"]}
    BY <1>8 DEF Kinds
  <2>2. arrived \in Nat /\ counted \in Nat /\ heard \in Nat
    BY Typed DEF IInv
  <2>3. acc'["drivers"] <= heard' /\ heard' <= arrived
    <3>1. CASE HubOrder[hubReset] = "drivers"
      BY <1>3, <1>4, <2>2, <3>1 DEF HubClears, Kinds
    <3>2. CASE HubOrder[hubReset] # "drivers"
      <4>1. heard' = heard /\ acc'["drivers"] = acc["drivers"]
        BY <1>3, <1>4, <3>2 DEF HubClears, Kinds
      <4> QED
        BY <4>1 DEF IInv, CountsBounded
    <3> QED
      BY <3>1, <3>2
  <2> QED
    BY <2>1, <2>2, <2>3 DEF IInv, CountsBounded, HubClears
<1>10. reset' = 5 /\ shown' = shown /\ anew' = anew
  BY <1>1 DEF HubClears, resetVars
<1>11. \A k \in Kinds : Stale(k)'
  BY <1>10, StaleSteps DEF Stale
<1>12. \A k \in Kinds : InStep(k)' /\ NoWrap(k)'
  BY <1>10, <1>11 DEF IInv, InStep, NoWrap, Anew
<1> QED
  BY <1>7, <1>9, <1>10, <1>12, Orders DEF IInv

(* A replaced driver has counted nothing, and that is in the history.      *)
LEMMA ReplaceKeeps ==
  ASSUME IInv, Replace
  PROVE  IInv'
<1>1. /\ UNCHANGED <<arrived, counted, hubReset, last, shown, updater, fetched,
                     heard, reset, resets, load, stream, queue, client>>
      /\ acc' = [acc EXCEPT !["drivers"] = 0]
      /\ anew' = anew \cup {"counter"}
  BY DEF Replace, resetVars, streamVars
<1>2. 0 \in 0..MaxMessages /\ "drivers" \in Kinds
  BY StatsAssumption DEF Kinds
<1>3. /\ acc'["drivers"] = 0
      /\ \A k \in Kinds \ {"drivers"} : acc'[k] = acc[k]
  BY <1>1, <1>2 DEF IInv, TypeOK
<1>4. TypeOK'
  <2>1. acc' \in [Kinds -> 0..MaxMessages]
    BY <1>1, <1>2 DEF IInv, TypeOK
  <2> QED
    BY <1>1, <2>1 DEF IInv, TypeOK
<1>5. CountsBounded'
  <2>1. acc'["hub"] = acc["hub"] /\ acc'["messages"] = acc["messages"]
    BY <1>3 DEF Kinds
  <2>2. heard \in Nat
    BY Typed DEF IInv
  <2> QED
    BY <1>1, <1>3, <2>1, <2>2 DEF IInv, CountsBounded
<1>6. ASSUME NEW k \in Kinds PROVE Stale(k)' <=> Stale(k)
  BY <1>1 DEF Stale
<1>7. ASSUME NEW k \in Kinds PROVE InStep(k)' /\ NoWrap(k)'
  <2>1. InStep(k) /\ NoWrap(k)
    BY DEF IInv
  <2>2. CASE k = "drivers"
    BY <1>1, <1>6, <2>1, <2>2 DEF InStep, NoWrap, Anew, Since
  <2>3. CASE k # "drivers"
    BY <1>1, <1>3, <1>6, <2>1, <2>3 DEF InStep, NoWrap, Anew, Since
  <2> QED
    BY <2>2, <2>3
<1> QED
  BY <1>1, <1>4, <1>5, <1>7 DEF IInv

(* An updater's steps change only its own kind.                            *)
LEMMA UpdateKeeps ==
  ASSUME IInv, NEW k \in Kinds, Update(k)
  PROVE  IInv'
<1>1. /\ UNCHANGED <<arrived, counted, acc, hubReset, heard, reset, resets,
                     load, queue, client>>
      /\ anew' = anew \/ k = "drivers"
      /\ \A j \in Kinds \ {k} :
           /\ shown'[j] = shown[j] /\ last'[j] = last[j]
           /\ updater'[j] = updater[j] /\ fetched'[j] = fetched[j]
  BY DEF Update, Lock, Fetch, Publish, Passes, countVars, historyVars,
         resetVars, streamVars, IInv, TypeOK
<1>2. fetched[k] \in 0..MaxMessages /\ acc[k] \in 0..MaxMessages
  BY DEF IInv, TypeOK
<1>3. Recent(k) \in 0..(Width - 1)
  <2>1. fetched[k] - last[k] \in Int /\ Width \in Nat \ {0}
    BY <1>2, Typed, StatsAssumption DEF IInv
  <2>2. Subtract(fetched[k], last[k]) \in 0..(Width - 1)
    BY <2>1 DEF Subtract
  <2> QED
    BY <2>1, <2>2 DEF Recent
<1>4. shown' \in [Kinds -> [total : 0..MaxMessages, recent : 0..(Width - 1)]]
  <2>1. [total |-> fetched[k], recent |-> Recent(k)]
          \in [total : 0..MaxMessages, recent : 0..(Width - 1)]
    BY <1>2, <1>3
  <2>2. \/ shown' = shown
        \/ shown' = [shown EXCEPT ![k] =
             [total |-> fetched[k], recent |-> Recent(k)]]
    BY DEF Update, Lock, Fetch, Publish
  <2>3. shown \in [Kinds -> [total : 0..MaxMessages, recent : 0..(Width - 1)]]
    BY DEF IInv, TypeOK
  <2> QED
    BY <2>1, <2>2, <2>3
<1>5. /\ last' \in [Kinds -> 0..MaxMessages]
      /\ fetched' \in [Kinds -> 0..MaxMessages]
  <2>1. 0 \in 0..MaxMessages
    BY StatsAssumption
  <2>2. /\ \/ last' = last \/ last' = [last EXCEPT ![k] = fetched[k]]
        /\ \/ fetched' = fetched
           \/ fetched' = [fetched EXCEPT ![k] = acc[k]]
           \/ fetched' = [fetched EXCEPT ![k] = 0]
    BY DEF Update, Lock, Fetch, Publish
  <2>3. last \in [Kinds -> 0..MaxMessages] /\ fetched \in [Kinds -> 0..MaxMessages]
    BY DEF IInv, TypeOK
  <2> QED
    BY <1>2, <2>1, <2>2, <2>3
<1>6. /\ updater' \in [Kinds -> {"asleep", "locked", "fetched"}]
      /\ stream' \in [Clients -> {"none", "waiting", "notified", "sending"}]
      /\ anew' \subseteq {"counter", "fetched", "shown"}
  <2>1. PICK p \in {"asleep", "locked", "fetched"} :
          updater' = [updater EXCEPT ![k] = p]
    BY DEF Update, Lock, Fetch, Publish
  <2>2. \/ stream' = stream
        \/ stream' = [c \in Clients |->
             IF Follows[c] = k /\ stream[c] = "waiting" THEN "notified"
             ELSE stream[c]]
    BY DEF Update, Lock, Fetch, Publish, streamVars
  <2>3. /\ updater \in [Kinds -> {"asleep", "locked", "fetched"}]
        /\ stream \in [Clients -> {"none", "waiting", "notified", "sending"}]
        /\ anew \subseteq {"counter", "fetched", "shown"}
    BY DEF IInv, TypeOK
  <2>4. updater' \in [Kinds -> {"asleep", "locked", "fetched"}]
    BY <2>1, <2>3
  <2>5. stream' \in [Clients -> {"none", "waiting", "notified", "sending"}]
    BY <2>2, <2>3
  <2>6. anew' \subseteq {"counter", "fetched", "shown"}
    <3>1. \E from \in {"counter", "fetched"}, to \in {"fetched", "shown"} :
            anew' \in {anew, (anew \ {from}) \cup {to}, anew \ {to}}
      BY DEF Update, Lock, Fetch, Publish, Passes, historyVars
    <3> QED
      BY <2>3, <3>1
  <2> QED
    BY <2>4, <2>5, <2>6
<1>7. TypeOK'
  BY <1>1, <1>4, <1>5, <1>6 DEF IInv, TypeOK
<1>8. \A j \in Kinds : Stale(j)' <=> Stale(j)
  BY <1>1 DEF Stale
<1>9. ASSUME NEW j \in Kinds \ {k}
      PROVE  InStep(j)' /\ NoWrap(j)'
  <2>1. /\ InStep(j) /\ NoWrap(j) /\ acc[j] <= acc'[j] /\ heard <= heard'
        /\ anew' = anew \/ j # "drivers"
    BY <1>1, Typed DEF IInv
  <2> QED
    BY <1>1, <1>7, <1>8, <2>1, KindUntouched DEF IInv
<1>10. InStep(k)' /\ NoWrap(k)'
  <2>1. InStep(k) /\ NoWrap(k)
    BY DEF IInv
  <2>2. /\ acc[k] \in Nat /\ last[k] \in Nat /\ fetched[k] \in Nat
        /\ last[k] <= MaxMessages /\ fetched[k] <= MaxMessages
        /\ reset \in 0..7 /\ Since(k) \in Nat
    BY Typed DEF IInv
  <2>3. Since(k)' = Since(k) /\ acc'[k] = acc[k]
    BY <1>1 DEF Since
  <2>4. CASE Lock(k)
    <3>1. /\ updater[k] = "asleep" /\ updater'[k] = "locked"
          /\ shown' = shown /\ last' = last /\ anew' = anew
      BY <2>4 DEF Lock, historyVars, IInv, TypeOK
    <3> QED
      BY <1>8, <2>1, <2>3, <3>1 DEF InStep, NoWrap, Anew
  <2>5. CASE Fetch(k)
    <3>1. /\ fetched'[k] = acc[k] /\ shown' = shown /\ last' = last
          /\ updater[k] = "locked" /\ updater'[k] = "fetched"
      BY <2>5 DEF Fetch, IInv, TypeOK
    <3>2. /\ Anew(k, "counter") => Anew(k, "fetched")'
          /\ Anew(k, "shown") => Anew(k, "shown")'
      BY <2>5 DEF Fetch, Passes, Anew
    <3>3. acc[k] <= Since(k) /\ acc[k] <= acc[k]
      BY <2>2 DEF Since, IInv, CountsBounded
    <3>4. NoWrap(k)'
      BY <2>1, <3>1, <3>2 DEF NoWrap
    <3>5. ASSUME ~Stale(k)'
          PROVE  /\ shown[k].total <= Since(k)
                 /\ last[k] <= acc[k] \/ Anew(k, "fetched")'
      BY <1>8, <2>1, <3>1, <3>2, <3>5 DEF InStep
    <3>6. InStep(k)'
      BY <2>3, <3>1, <3>3, <3>5 DEF InStep
    <3> QED
      BY <3>4, <3>6
  <2>6. CASE Publish(k)
    <3>1. /\ updater[k] = "fetched" /\ updater'[k] = "asleep"
          /\ shown'[k] = [total |-> fetched[k], recent |-> Recent(k)]
          /\ last'[k] = fetched[k]
      BY <2>6 DEF Publish, IInv, TypeOK
    <3>2. ~Stale(k)
      <4>1. ~Guarded(k)
        BY <2>6 DEF Publish
      <4>2. ~(reset >= 4)
        BY <2>2, <4>1, ClearingIsGuarded
      <4> QED
        BY <2>2, <4>2, Orders DEF Stale, StaleAt
    <3>3. /\ fetched[k] <= Since(k)
          /\ fetched[k] <= acc[k] \/ Anew(k, "counter")
          /\ last[k] <= fetched[k] \/ Anew(k, "fetched")
      BY <2>1, <3>1, <3>2 DEF InStep
    <3>4. /\ Anew(k, "counter") => Anew(k, "counter")'
          /\ Anew(k, "fetched") => Anew(k, "shown")'
      BY <2>6 DEF Publish, Passes, Anew
    <3>5. Recent(k) <= fetched[k] \/ Anew(k, "fetched")
      <4>1. CASE last[k] <= fetched[k]
        <5>1. MaxMessages \in Nat /\ Width \in Nat /\ Width > 2 * MaxMessages
          BY StatsAssumption
        <5>2. fetched[k] - last[k] \in 0..(Width - 1) /\ Width \in Nat \ {0}
          BY <2>2, <4>1, <5>1
        <5>3. Subtract(fetched[k], last[k]) = fetched[k] - last[k]
          BY <5>2 DEF Subtract
        <5> QED
          BY <2>2, <5>3 DEF Recent
      <4> QED
        BY <3>3, <4>1
    <3>6. shown'[k].total = fetched[k] /\ shown'[k].recent = Recent(k)
      BY <3>1
    <3>7. NoWrap(k)'
      BY <3>4, <3>5, <3>6 DEF NoWrap
    <3>8. InStep(k)'
      BY <2>3, <3>1, <3>3, <3>4, <3>6 DEF InStep
    <3> QED
      BY <3>7, <3>8
  <2> QED
    BY <2>4, <2>5, <2>6 DEF Update
<1>11. \A j \in Kinds : InStep(j)' /\ NoWrap(j)'
  BY <1>9, <1>10
<1>12. CountsBounded' /\ (hubReset' # 0 => reset' = Clearing)
  BY <1>1 DEF IInv, CountsBounded
<1> QED
  BY <1>7, <1>11, <1>12 DEF IInv

(* Streams and their clients change no statistics.                         *)
LEMMA StreamKeeps ==
  ASSUME IInv, NEW c \in Clients,
         OpenStream(c) \/ Stream(c) \/ ClientTakes(c) \/ ClientLeaves(c)
  PROVE  IInv'
<1>1. UNCHANGED <<arrived, counted, acc, hubReset, last, shown, updater,
                  fetched, heard, anew, reset, resets, load>>
  BY DEF OpenStream, Stream, StreamReads, StreamSends, StreamEnds,
         ClientTakes, ClientLeaves, countVars, historyVars, resetVars,
         streamVars
<1>2. StreamCap \in Nat \ {0}
  BY StatsAssumption
<1>3. queue[c] \in 0..StreamCap
  BY DEF IInv, TypeOK
<1>4. stream' \in [Clients -> {"none", "waiting", "notified", "sending"}]
  BY DEF OpenStream, Stream, StreamReads, StreamSends, StreamEnds,
         ClientTakes, ClientLeaves, IInv, TypeOK
<1>5. client' \in [Clients -> BOOLEAN]
  BY DEF OpenStream, Stream, StreamReads, StreamSends, StreamEnds,
         ClientTakes, ClientLeaves, IInv, TypeOK
<1>6. queue' \in [Clients -> 0..StreamCap]
  <2>1. \/ queue' = queue
        \/ queue[c] < StreamCap /\ queue' = [queue EXCEPT ![c] = queue[c] + 1]
        \/ queue[c] > 0 /\ queue' = [queue EXCEPT ![c] = queue[c] - 1]
        \/ queue' = [queue EXCEPT ![c] = 0]
    BY DEF OpenStream, Stream, StreamReads, StreamSends, StreamEnds,
           ClientTakes, ClientLeaves, streamVars, IInv, TypeOK
  <2>2. queue \in [Clients -> 0..StreamCap]
    BY DEF IInv, TypeOK
  <2>3. /\ queue[c] < StreamCap => queue[c] + 1 \in 0..StreamCap
        /\ queue[c] > 0 => queue[c] - 1 \in 0..StreamCap
        /\ 0 \in 0..StreamCap
    BY <1>2, <1>3
  <2> QED
    BY <2>1, <2>2, <2>3
<1>7. \A j \in Clients : queue'[j] > 0 => client'[j]
  <2>1. CASE OpenStream(c) \/ StreamReads(c) \/ StreamEnds(c)
    BY <2>1 DEF OpenStream, StreamReads, StreamEnds, IInv, TypeOK
  <2>2. CASE StreamSends(c)
    BY <2>2 DEF StreamSends, IInv, TypeOK
  <2>3. CASE ClientTakes(c)
    BY <1>3, <2>3 DEF ClientTakes, IInv, TypeOK
  <2>4. CASE ClientLeaves(c)
    BY <2>4 DEF ClientLeaves, IInv, TypeOK
  <2> QED
    BY <2>1, <2>2, <2>3, <2>4 DEF Stream
<1>8. TypeOK'
  BY <1>1, <1>4, <1>5, <1>6, <1>7 DEF IInv, TypeOK
<1> QED
  BY <1>1, <1>8 DEF IInv, CountsBounded, InStep, NoWrap, Stale, Since, Anew

(* A reset goes on until the hub is asked: nothing becomes fresh.          *)
LEMMA ResetStartsKeeps ==
  ASSUME IInv, AskReset \/ TakeGuard \/ AskHub
  PROVE  IInv'
<1>1. UNCHANGED <<arrived, counted, acc, last, shown, updater, fetched,
                  heard, anew, load, stream, queue, client>>
  BY DEF AskReset, TakeGuard, AskHub, countVars, historyVars, streamVars
<1>2. reset \in 0..7 /\ hubReset \in 0..3 /\ (hubReset # 0 => reset = 5)
  BY Typed, Orders DEF IInv
<1>3. reset < 5 /\ reset' \in 1..5 /\ hubReset' \in 0..3
      /\ (hubReset' # 0 => reset' = 5)
  BY <1>2, Orders DEF AskReset, TakeGuard, AskHub
<1>4. resets' \in 0..MaxResets
  BY StatsAssumption DEF AskReset, TakeGuard, AskHub, IInv, TypeOK
<1>5. TypeOK'
  BY <1>1, <1>3, <1>4, Orders DEF IInv, TypeOK
<1>6. \A k \in Kinds : ~Stale(k)' => ~Stale(k)
  BY <1>2, <1>3, StaleGrows
<1>7. heard <= heard' /\ \A k \in Kinds : acc[k] <= acc'[k]
  BY <1>1, Typed DEF IInv
<1>8. \A k \in Kinds : InStep(k)' /\ NoWrap(k)'
  BY <1>1, <1>5, <1>6, <1>7, KindUntouched DEF IInv
<1>9. CountsBounded'
  BY <1>1 DEF IInv, CountsBounded
<1> QED
  BY <1>3, <1>5, <1>8, <1>9, Orders DEF IInv

(* A kind becomes fresh when its last value is cleared, and its updater is *)
(* asleep then: nothing that was fetched before can be published after.    *)
LEMMA ClearLastKeeps ==
  ASSUME IInv, ClearLast
  PROVE  IInv'
<1>1. reset \in 5..7 /\ hubReset = 0
  BY Typed, Orders DEF IInv, ClearLast
<1>0. PICK k \in Kinds : k = ClearOrder[reset - Clearing + 1]
  BY <1>1, Orders DEF Kinds
<1>2. /\ reset = 5 => k = "drivers"
      /\ reset = 6 => k = "messages"
      /\ reset = 7 => k = "hub"
  BY <1>0, <1>1, Orders
<1>4. /\ ~MutexHeld(k)
      /\ last' = [last EXCEPT ![k] = 0]
      /\ shown' = [shown EXCEPT ![k] = [total |-> 0, recent |-> 0]]
      /\ UNCHANGED <<arrived, counted, acc, hubReset, updater, fetched, heard,
                     resets, load, stream, queue, client>>
      /\ anew' = IF k = "drivers" THEN {} ELSE anew
  BY <1>0 DEF ClearLast, countVars, streamVars
<1>5. reset' = IF reset < 7 THEN reset + 1 ELSE 0
  BY <1>1, Orders DEF ClearLast
<1>6. TypeOK'
  <2>1. reset' \in 0..7
    BY <1>1, <1>5
  <2>2. 0 \in 0..MaxMessages /\ 0 \in 0..(Width - 1)
    BY StatsAssumption
  <2>3. last' \in [Kinds -> 0..MaxMessages]
    BY <1>4, <2>2 DEF IInv, TypeOK
  <2>4. shown' \in [Kinds -> [total : 0..MaxMessages, recent : 0..(Width - 1)]]
    BY <1>4, <2>2 DEF IInv, TypeOK
  <2>5. anew' \subseteq {"counter", "fetched", "shown"}
    BY <1>4 DEF IInv, TypeOK
  <2> QED
    BY <1>4, <2>1, <2>3, <2>4, <2>5, Orders DEF IInv, TypeOK
<1>7. InStep(k)' /\ NoWrap(k)'
  <2>1. last'[k] = 0 /\ shown'[k] = [total |-> 0, recent |-> 0]
    BY <1>4 DEF IInv, TypeOK
  <2>2. shown'[k].total = 0 /\ shown'[k].recent = 0
    BY <2>1
  <2>3. updater'[k] # "fetched"
    BY <1>4 DEF MutexHeld
  <2>4. acc'[k] \in Nat /\ Since(k)' \in Nat
    BY <1>4, Typed DEF IInv, Since
  <2> QED
    BY <2>1, <2>2, <2>3, <2>4 DEF InStep, NoWrap
<1>8. ASSUME NEW j \in Kinds, j # k
      PROVE  InStep(j)' /\ NoWrap(j)'
  <2>1. ~Stale(j)' => ~Stale(j)
    <3>1. Stale(j) <=> \/ reset = 5
                       \/ reset = 6 /\ j # "drivers"
                       \/ reset = 7 /\ j = "hub"
      BY <1>1, StaleSteps DEF Stale
    <3>2. Stale(j)' <=> \/ reset' = 5
                        \/ reset' = 6 /\ j # "drivers"
                        \/ reset' = 7 /\ j = "hub"
      <4>1. reset' \in 0..7
        BY <1>1, <1>5
      <4> QED
        BY <4>1, StaleSteps DEF Stale
    <3>3. j \in {"drivers", "hub", "messages"}
      BY DEF Kinds
    <3> QED
      BY <1>1, <1>2, <1>5, <1>8, <3>1, <3>2, <3>3
  <2>2. /\ shown'[j] = shown[j] /\ last'[j] = last[j]
        /\ fetched'[j] = fetched[j] /\ updater'[j] = updater[j]
    BY <1>4, <1>8 DEF IInv, TypeOK
  <2>3. acc[j] <= acc'[j] /\ heard <= heard' /\ (anew' = anew \/ j # "drivers")
    BY <1>4, <1>8, Typed DEF IInv
  <2> QED
    BY <1>6, <2>1, <2>2, <2>3, KindUntouched DEF IInv
<1>9. \A j \in Kinds : InStep(j)' /\ NoWrap(j)'
  <2>1. ASSUME NEW j \in Kinds
        PROVE  InStep(j)' /\ NoWrap(j)'
    <3>1. CASE j = k
      BY <1>7, <3>1
    <3>2. CASE j # k
      BY <1>8, <3>2
    <3> QED
      BY <3>1, <3>2
  <2> QED
    BY <2>1
<1>10. CountsBounded' /\ hubReset' = 0
  BY <1>1, <1>4 DEF IInv, CountsBounded
<1> QED
  BY <1>6, <1>9, <1>10 DEF IInv

(* Every step preserves the invariant.                                     *)
LEMMA Step ==
  ASSUME IInv, [Next]_vars
  PROVE  IInv'
<1>1. CASE Count
  BY <1>1, CountKeeps
<1>2. CASE HubClears
  BY <1>2, HubClearsKeeps
<1>3. CASE \E k \in Kinds : Update(k)
  BY <1>3, UpdateKeeps
<1>4. CASE \E c \in Clients :
             OpenStream(c) \/ Stream(c) \/ ClientTakes(c) \/ ClientLeaves(c)
  BY <1>4, StreamKeeps
<1>5. CASE AskReset \/ TakeGuard \/ AskHub
  BY <1>5, ResetStartsKeeps
<1>6. CASE ClearLast
  BY <1>6, ClearLastKeeps
<1>7. CASE UNCHANGED vars
  <2>1. UNCHANGED <<arrived, counted, acc, hubReset, last, shown, updater,
                    fetched, heard, anew, reset, resets, load, stream, queue,
                    client>>
    BY <1>7 DEF vars, countVars, historyVars, resetVars, streamVars
  <2>2. TypeOK'
    BY <2>1 DEF IInv, TypeOK
  <2> QED
    BY <2>1, <2>2 DEF IInv, CountsBounded, InStep, NoWrap, Stale, Since, Anew
<1>8. CASE Replace
  BY <1>8, ReplaceKeeps
<1> QED
  BY <1>1, <1>2, <1>3, <1>4, <1>5, <1>6, <1>7, <1>8 DEF Next, Reset

(* Everything is zero.                                                     *)
LEMMA Start == Init => IInv
<1> SUFFICES ASSUME Init PROVE IInv
  OBVIOUS
<1>1. /\ 0 \in 0..MaxMessages /\ 0 \in 0..MaxResets /\ 0 \in 0..StreamCap
      /\ 0 \in 0..(Width - 1)
  BY StatsAssumption
<1>2. TypeOK
  BY <1>1, Orders DEF Init, TypeOK
<1>3. CountsBounded
  BY DEF Init, CountsBounded, Kinds
<1>4. \A k \in Kinds : InStep(k) /\ NoWrap(k)
  BY DEF Init, InStep, NoWrap, Since
<1> QED
  BY <1>2, <1>3, <1>4 DEF IInv, Init

LEMMA Invariant == Spec => []IInv
  BY Start, Step, PTL DEF Spec

(* StatsActor: every variable keeps its type; the counters of the hub never*)
(* exceed what has arrived, and no rate leaves the width of its integer.   *)
THEOREM StatsTypeCorrect == Spec => []TypeOK
<1>1. IInv => TypeOK
  BY DEF IInv
<1> QED
  BY <1>1, Invariant, PTL

(* StatsActor::reset and the updaters: wherever a reset begins and whatever*)
(* the updaters have fetched by then, what can be read counts nothing from *)
(* before it; and a rate comes from a counter that went back only in the   *)
(* update that follows the replacement of a driver under its uuid.         *)
THEOREM ResetLeavesNothing == Spec => []NothingFromBeforeReset
<1>1. ASSUME IInv
      PROVE  NothingFromBeforeReset
  <2>1. ASSUME NEW k \in Kinds, ~Guarded(k)
        PROVE  shown[k].total <= Since(k)
    <3>1. reset \in 0..7
      BY <1>1, Typed DEF IInv
    <3>2. ~(reset >= 4)
      BY <2>1, <3>1, ClearingIsGuarded
    <3>3. ~Stale(k)
      BY <3>1, <3>2, Orders DEF Stale, StaleAt
    <3> QED
      BY <1>1, <3>3 DEF IInv, InStep
  <2> QED
    BY <1>1, <2>1 DEF IInv, NoWrap, Anew, NothingFromBeforeReset
<1> QED
  BY <1>1, Invariant, PTL

-----------------------------------------------------------------------------
(* Where a reset may stop                                                  *)

(* The reset, with all the guards, waits for the mutex of a kind whose     *)
(* updater waits for the guard.                                            *)
Deadlocked ==
  /\ reset >= Clearing
  /\ hubReset = 0
  /\ updater[ClearOrder[reset - Clearing + 1]] = "fetched"

(* The next step of the reset can be made.                                 *)
ResetGoes ==
  \/ reset \in 1..Len(GuardOrder) /\ ~Reading(GuardOrder[reset])
  \/ reset = AskingHub
  \/ /\ reset >= Clearing /\ hubReset = 0
     /\ ~MutexHeld(ClearOrder[reset - Clearing + 1])

(* The next step of the updater of kind k can be made.                     *)
UpdateGoes(k) ==
  \/ updater[k] = "asleep"
  \/ updater[k] = "locked" /\ hubReset = 0
  \/ updater[k] = "fetched" /\ ~Guarded(k) /\ ~Reading(k)

(* A stream that keeps the read guard of kind k waits for a client that    *)
(* neither reads nor leaves.                                               *)
Stuck(k) ==
  \E c \in Clients :
    /\ Follows[c] = k /\ stream[c] = "sending"
    /\ client[c] /\ queue[c] = StreamCap

(* A stream that keeps the read guard of kind k gets rid of its update.    *)
StreamGoes(k) ==
  \E c \in Clients :
    /\ Follows[c] = k /\ stream[c] = "sending"
    /\ ~client[c] \/ queue[c] < StreamCap

LEMMA StreamsGoOn ==
  ASSUME TypeOK, NEW k \in Kinds, Reading(k)
  PROVE  StreamGoes(k) \/ Stuck(k)
<1>1. PICK c \in Clients : Follows[c] = k /\ stream[c] = "sending"
  BY DEF Reading
<1>2. queue[c] \in 0..StreamCap /\ StreamCap \in Nat \ {0}
  BY StatsAssumption DEF TypeOK
<1>. QED BY <1>1, <1>2 DEF StreamGoes, Stuck

(* Who a reset may wait for.                                               *)
LEMMA ResetGoesOn ==
  ASSUME IInv, reset # 0, ~Deadlocked
  PROVE  \/ ResetGoes
         \/ hubReset # 0
         \/ \E k \in Kinds : StreamGoes(k) \/ Stuck(k)
         \/ \E k \in Kinds : updater[k] = "locked" /\ UpdateGoes(k)
<1>1. reset \in 1..7
  BY Typed DEF IInv
<1>2. CASE reset \in 1..3
  <2>1. GuardOrder[reset] \in Kinds /\ reset \in 1..Len(GuardOrder)
    BY <1>2, Orders DEF Kinds
  <2>. QED BY <2>1, StreamsGoOn DEF ResetGoes, IInv
<1>3. CASE reset = 4
  BY <1>3, Orders DEF ResetGoes
<1>4. CASE reset \in 5..7
  <2>1. PICK k \in Kinds : k = ClearOrder[reset - Clearing + 1]
    BY <1>4, Orders DEF Kinds
  <2>2. reset >= Clearing
    BY <1>4, Orders
  <2>3. CASE hubReset = 0
    <3>1. updater[k] # "fetched"
      BY <2>1, <2>2, <2>3 DEF Deadlocked
    <3>2. CASE updater[k] = "locked"
      BY <2>3, <3>2 DEF UpdateGoes
    <3>3. CASE updater[k] # "locked"
      BY <2>1, <2>2, <2>3, <3>1, <3>3 DEF ResetGoes, MutexHeld
    <3>. QED BY <3>2, <3>3
  <2>. QED BY <2>3
<1>. QED BY <1>1, <1>2, <1>3, <1>4

(* Without a reset no updater waits for anything but a stream.             *)
LEMMA UpdatersGoOn ==
  ASSUME IInv, reset = 0, NEW k \in Kinds
  PROVE  UpdateGoes(k) \/ StreamGoes(k) \/ Stuck(k)
<1>1. hubReset = 0
  BY Orders DEF IInv
<1>2. ~Guarded(k)
  <2>1. \A i \in 1..Len(GuardOrder) : ~(i < reset)
    BY Orders
  <2>. QED BY <2>1 DEF Guarded
<1>3. updater[k] \in {"asleep", "locked", "fetched"}
  BY DEF IInv, TypeOK
<1>. QED BY <1>1, <1>2, <1>3, StreamsGoOn DEF UpdateGoes, IInv

(* The deadlock is for ever, and all is guarded in it.                     *)
LEMMA DeadlockStays ==
  ASSUME IInv, Deadlocked, [Next]_vars
  PROVE  Deadlocked' /\ UNCHANGED <<reset, shown, last>>
<1>1. reset \in 5..7 /\ hubReset = 0
  BY Typed, Orders DEF IInv, Deadlocked
<1>2. PICK k \in Kinds : k = ClearOrder[reset - Clearing + 1]
  BY <1>1, Orders DEF Kinds
<1>3. updater[k] = "fetched"
  BY <1>2 DEF Deadlocked
<1>4. \A j \in Kinds : Guarded(j)
  BY <1>1, ClearingIsGuarded
<1>5. /\ ~HubClears /\ ~AskReset /\ ~ClearLast
      /\ ~\E j \in Kinds : Publish(j)
      /\ ~\E c \in Clients : OpenStream(c)
  <2>1. ~ClearLast
    BY <1>2, <1>3 DEF ClearLast, MutexHeld
  <2>. QED BY <1>1, <1>4, <2>1 DEF HubClears, AskReset, Publish, OpenStream
<1>6. ~TakeGuard /\ ~AskHub
  BY <1>1, Orders DEF TakeGuard, AskHub
<1>7. UNCHANGED <<reset, shown, last, hubReset>> /\ updater'[k] = "fetched"
  <2>1. ASSUME NEW j \in Kinds, Lock(j) \/ Fetch(j)
        PROVE  UNCHANGED <<reset, shown, last, hubReset>> /\ updater'[k] = "fetched"
    <3>1. j # k
      BY <1>3, <2>1 DEF Lock, Fetch
    <3>2. /\ UNCHANGED <<reset, shown, last, hubReset>>
          /\ \E x : updater' = [updater EXCEPT ![j] = x]
      BY <2>1 DEF Lock, Fetch, resetVars
    <3>. QED BY <1>3, <3>1, <3>2 DEF IInv, TypeOK
  <2>2. CASE UNCHANGED <<reset, shown, last, hubReset, updater>>
    BY <1>3, <2>2
  <2>. QED
    BY <1>5, <1>6, <2>1, <2>2
    DEF Next, Count, Update, Stream, Reset, Arrive, CountHub, CountMessages,
      Replace,
      StreamReads, StreamSends, StreamEnds, ClientTakes, ClientLeaves,
      resetVars, vars
<1>. QED BY <1>1, <1>2, <1>7 DEF Deadlocked

(* StatsActor::reset: there is one way in which it never finishes, and only*)
(* one: it holds all the guards and waits for the mutex of an updater that *)
(* has fetched and waits for the guard. That is for ever, and nothing is   *)
(* published or served any more. In any other state of a reset somebody    *)
(* whom it waits for can go on, unless it is a client that neither reads   *)
(* nor leaves; and while there is none every updater can go on, or the     *)
(* stream that it waits for, but for such a client of its own kind.        *)
THEOREM OneWayToStop ==
  Spec =>
    /\ [][Deadlocked => Deadlocked' /\ UNCHANGED <<reset, shown, last>>]_vars
    /\ [](reset # 0 /\ ~Deadlocked =>
            \/ ResetGoes
            \/ hubReset # 0
            \/ \E k \in Kinds : StreamGoes(k) \/ Stuck(k)
            \/ \E k \in Kinds : updater[k] = "locked" /\ UpdateGoes(k))
    /\ [](reset = 0 =>
            \A k \in Kinds : UpdateGoes(k) \/ StreamGoes(k) \/ Stuck(k))
<1>1. IInv /\ [Next]_vars =>
        [Deadlocked => Deadlocked' /\ UNCHANGED <<reset, shown, last>>]_vars
  BY DeadlockStays
<1>2. IInv => (reset # 0 /\ ~Deadlocked =>
                 \/ ResetGoes
                 \/ hubReset # 0
                 \/ \E k \in Kinds : StreamGoes(k) \/ Stuck(k)
                 \/ \E k \in Kinds : updater[k] = "locked" /\ UpdateGoes(k))
  BY ResetGoesOn
<1>3. IInv => (reset = 0 =>
            \A k \in Kinds : UpdateGoes(k) \/ StreamGoes(k) \/ Stuck(k))
  BY UpdatersGoOn
<1>. QED BY <1>1, <1>2, <1>3, Invariant, PTL DEF Spec
=============================================================================
