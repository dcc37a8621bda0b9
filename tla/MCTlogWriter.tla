---------------------------- MODULE MCTlogWriter ----------------------------
(* Two vehicles, a queue of two and numbers up to two, for TLC.            *)
EXTENDS TlogWriter
=============================================================================
