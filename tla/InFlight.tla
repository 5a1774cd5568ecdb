------------------------------ MODULE InFlight ------------------------------
(***************************************************************************)
(* InFlightFetches and InFlightGuard of src/src/reload.rs: an atomic       *)
(* counter, a load / compare_exchange loop that takes a slot, and a guard  *)
(* whose Drop gives it back.  Every load, every compare_exchange and every *)
(* fetch_sub is a step of its own (all are SeqCst), so the callers and the *)
(* fetch threads that drop their guards interleave in every order.         *)
(***************************************************************************)
EXTENDS Naturals, FiniteSets

CONSTANTS Caller,  \* whoever calls try_acquire: start-up, reload loop
          Max      \* InFlightFetches::max (MAX_IN_FLIGHT_FETCHES = 2)

ASSUME CallerAssumption == IsFiniteSet(Caller)
ASSUME MaxAssumption == Max \in Nat

VARIABLES current, \* InFlightFetches::current
          pc,      \* where each caller stands
          cur      \* the caller's local copy of the counter

vars == <<current, pc, cur>>

PC == {"idle", "load", "cas", "held", "refused"}

\* The callers that own an InFlightGuard.
Guards == {c \in Caller : pc[c] = "held"}

Init ==
    /\ current = 0
    /\ pc = [c \in Caller |-> "idle"]
    /\ cur = [c \in Caller |-> 0]

\* try_acquire is called.
TryAcquire(c) ==
    /\ pc[c] = "idle"
    /\ pc' = [pc EXCEPT ![c] = "load"]
    /\ UNCHANGED <<current, cur>>

\* let cur = current.load(); if cur >= max { return None }
Load(c) ==
    /\ pc[c] = "load"
    /\ cur' = [cur EXCEPT ![c] = current]
    /\ pc' = [pc EXCEPT ![c] = IF current >= Max THEN "refused" ELSE "cas"]
    /\ UNCHANGED current

\* Mutant of CompareExchange: a plain store of cur + 1.
BlindStore(c) ==
    /\ pc[c] = "cas"
    /\ current' = cur[c] + 1
    /\ pc' = [pc EXCEPT ![c] = "held"]
    /\ UNCHANGED cur

\* compare_exchange(cur, cur + 1): the guard on success, else load again.
CompareExchange(c) ==
    /\ pc[c] = "cas"
    /\ \/ /\ current = cur[c]
          /\ current' = cur[c] + 1
          /\ pc' = [pc EXCEPT ![c] = "held"]
       \/ /\ current # cur[c]
          /\ pc' = [pc EXCEPT ![c] = "load"]
          /\ UNCHANGED current
    /\ UNCHANGED cur

\* Mutant of DropGuard: the slot is never given back.
DropLeaks(c) ==
    /\ pc[c] = "held"
    /\ pc' = [pc EXCEPT ![c] = "idle"]
    /\ UNCHANGED <<current, cur>>

\* impl Drop for InFlightGuard: current.fetch_sub(1).
DropGuard(c) ==
    /\ pc[c] = "held"
    /\ current' = current - 1
    /\ pc' = [pc EXCEPT ![c] = "idle"]
    /\ UNCHANGED cur

\* The caller turns None into FetchError::InFlight and is done.
ReturnInFlight(c) ==
    /\ pc[c] = "refused"
    /\ pc' = [pc EXCEPT ![c] = "idle"]
    /\ UNCHANGED <<current, cur>>

Next ==
    \E c \in Caller :
        \/ TryAcquire(c)
        \/ Load(c)
        \/ CompareExchange(c)
        \/ DropGuard(c)
        \/ ReturnInFlight(c)

Spec == Init /\ [][Next]_vars

-----------------------------------------------------------------------------
(***************************************************************************)
(* Properties.                                                             *)
(***************************************************************************)

\* The counter never drops below zero (fetch_sub on a usize would wrap) and
\* every caller is at a step of the loop.
TypeOK ==
    /\ current \in Nat
    /\ pc \in [Caller -> PC]
    /\ cur \in [Caller -> Nat]

\* The counter is the number of live guards at every step of the race
\* between compare_exchange and fetch_sub: no slot leaks, none is counted twice.
CountIsGuards == current = Cardinality(Guards)

\* However the callers interleave, no more than Max of them own a guard.
CapHolds == Cardinality(Guards) <= Max

\* A caller about to compare_exchange read a value below the limit.
CasBelowMax == \A c \in Caller : pc[c] = "cas" => cur[c] < Max

\* The strengthening that makes CapHolds inductive.
IInv == TypeOK /\ CountIsGuards /\ CapHolds /\ CasBelowMax

\* Loading and retrying are invisible to the pool: until a guard is returned
\* or None is, the caller is idle.
Pool == INSTANCE SlotPool WITH
    state <- [c \in Caller |-> IF pc[c] \in {"load", "cas"} THEN "idle" ELSE pc[c]]

\* The loop implements the atomic pool: a slot is granted only when one is
\* free, and None is returned only when the pool really was full.
ImplementsPool == Pool!Spec
=============================================================================
