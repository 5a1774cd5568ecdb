----------------------------- MODULE MCInFlight -----------------------------
(* Model-checking instance of InFlight: more callers than slots. *)
EXTENDS InFlight, TLC

CONSTANTS c1, c2, c3, c4

MCCaller == {c1, c2, c3, c4}
=============================================================================
