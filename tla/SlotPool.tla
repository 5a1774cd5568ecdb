------------------------------ MODULE SlotPool ------------------------------
(***************************************************************************)
(* What the in-flight limiter of config fetches promises: a pool of Max    *)
(* slots.  A caller is granted a slot only when one is free, and is turned *)
(* away only when none is.  Both decisions are atomic.  InFlight.tla, the  *)
(* compare-and-exchange loop of src/src/reload.rs, implements this.        *)
(***************************************************************************)
EXTENDS Naturals, FiniteSets

CONSTANTS Caller,  \* the threads and tasks that ask for a slot
          Max      \* InFlightFetches::max

VARIABLE state     \* state[c]: "idle", "held" or "refused"

Holders == {c \in Caller : state[c] = "held"}

Init == state = [c \in Caller |-> "idle"]

\* The pool gives c a slot.
Grant(c) ==
    /\ state[c] = "idle"
    /\ Cardinality(Holders) < Max
    /\ state' = [state EXCEPT ![c] = "held"]

\* The pool turns c away: every slot is taken at this moment.
Refuse(c) ==
    /\ state[c] = "idle"
    /\ Cardinality(Holders) >= Max
    /\ state' = [state EXCEPT ![c] = "refused"]

\* A caller that was turned away goes on without a slot.
GiveUp(c) ==
    /\ state[c] = "refused"
    /\ state' = [state EXCEPT ![c] = "idle"]

\* The holder gives its slot back.
Release(c) ==
    /\ state[c] = "held"
    /\ state' = [state EXCEPT ![c] = "idle"]

Next == \E c \in Caller : Grant(c) \/ Refuse(c) \/ GiveUp(c) \/ Release(c)

Spec == Init /\ [][Next]_state
=============================================================================
