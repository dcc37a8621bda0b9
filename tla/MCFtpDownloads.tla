--------------------------- MODULE MCFtpDownloads ---------------------------
(* One page, two downloads and a listing of the same target, for TLC.      *)
EXTENDS FtpDownloads
=============================================================================
