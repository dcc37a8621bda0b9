----------------------------- MODULE MCFtpBurst -----------------------------
(* Instances of FtpBurst for TLC.                                          *)
EXTENDS FtpBurst
=============================================================================
