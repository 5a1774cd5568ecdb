----------------------------- MODULE MCWatchdog -----------------------------
(* Model-checking instance of Watchdog with the values of the release build. *)
EXTENDS Watchdog
=============================================================================
