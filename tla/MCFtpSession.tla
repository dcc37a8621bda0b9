---------------------------- MODULE MCFtpSession ----------------------------
(* Two operations on one FTP target, for TLC: a read beside an upload,     *)
(* listings beside an upload and a single request, and two uploads.        *)
EXTENDS FtpSession, TLC

CONSTANTS t1, t2

Pairs(S) == {(t1 :> m[1]) @@ (t2 :> m[2]) : m \in S}

MCMixes ==
  Pairs({<<"read", "write">>, <<"write", "write">>,
         <<"list", "write">>, <<"list", "change">>})
=============================================================================
