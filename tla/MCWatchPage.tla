----------------------------- MODULE MCWatchPage -----------------------------
(* Small instances of WatchPage for TLC.                                   *)
EXTENDS WatchPage
=============================================================================
