--------------------------- MODULE InFlightProofs ---------------------------
(***************************************************************************)
(* Proofs about module InFlight: the counter is the number of guards, the  *)
(* limit holds, and the compare-and-exchange loop implements the atomic    *)
(* pool of module SlotPool, for any finite set of callers and any limit.   *)
(***************************************************************************)
EXTENDS InFlight, TLAPS, FiniteSetTheorems

\* The guards are a finite set, so they can be counted.
LEMMA GuardsFinite == IsFiniteSet(Guards) /\ Cardinality(Guards) \in Nat
<1>1. IsFiniteSet(Guards)
  BY CallerAssumption, FS_Subset DEF Guards
<1> QED BY <1>1, FS_CardinalityType

\* A caller that gets a guard makes their number one larger.
LEMMA GuardAdded ==
    ASSUME NEW c \in Caller, pc \in [Caller -> PC], pc[c] # "held",
           pc' = [pc EXCEPT ![c] = "held"]
    PROVE  Cardinality(Guards') = Cardinality(Guards) + 1
<1>1. Guards' = Guards \cup {c} /\ c \notin Guards
  BY DEF Guards, PC
<1> QED BY <1>1, GuardsFinite, FS_AddElement

\* A caller that drops its guard makes their number one smaller.
LEMMA GuardRemoved ==
    ASSUME NEW c \in Caller, NEW s \in PC, s # "held", pc \in [Caller -> PC],
           pc[c] = "held", pc' = [pc EXCEPT ![c] = s]
    PROVE  Cardinality(Guards') = Cardinality(Guards) - 1
<1>1. Guards' = Guards \ {c} /\ c \in Guards
  BY DEF Guards, PC
<1> QED BY <1>1, GuardsFinite, FS_RemoveElement

\* A step between states without a guard leaves their number alone.
LEMMA GuardsKept ==
    ASSUME NEW c \in Caller, NEW s \in PC, s # "held", pc \in [Caller -> PC],
           pc[c] # "held", pc' = [pc EXCEPT ![c] = s]
    PROVE  Guards' = Guards
BY DEF Guards, PC

\* The inductive invariant holds at first ...
LEMMA InitIInv == Init => IInv
<1> SUFFICES ASSUME Init PROVE IInv
  OBVIOUS
<1>1. TypeOK
  BY DEF Init, TypeOK, PC
<1>2. Guards = {}
  BY DEF Init, Guards
<1>3. Cardinality(Guards) = 0
  BY <1>2, FS_EmptySet
<1> QED
  BY <1>1, <1>3, MaxAssumption DEF Init, IInv, CountIsGuards, CapHolds, CasBelowMax

\* ... and every load, exchange and drop keeps it.
LEMMA NextIInv == IInv /\ [Next]_vars => IInv'
<1> SUFFICES ASSUME IInv, [Next]_vars PROVE IInv'
  OBVIOUS
<1> USE MaxAssumption, GuardsFinite DEF IInv, TypeOK, CountIsGuards, CapHolds, CasBelowMax
<1>1. ASSUME NEW c \in Caller, TryAcquire(c) PROVE IInv'
  <2>1. Guards' = Guards
    BY <1>1, GuardsKept DEF TryAcquire, PC
  <2> QED BY <1>1, <2>1 DEF TryAcquire, PC
<1>2. ASSUME NEW c \in Caller, Load(c) PROVE IInv'
  <2>1. Guards' = Guards
    BY <1>2, GuardsKept DEF Load, PC
  <2> QED BY <1>2, <2>1 DEF Load, PC
<1>3. ASSUME NEW c \in Caller, CompareExchange(c) PROVE IInv'
  <2>1. CASE current = cur[c]
    <3>1. Cardinality(Guards') = Cardinality(Guards) + 1
      BY <1>3, <2>1, GuardAdded DEF CompareExchange
    <3>2. cur[c] < Max /\ cur[c] \in Nat
      BY <1>3 DEF CompareExchange
    <3>3. TypeOK'
      BY <1>3, <2>1, <3>2 DEF CompareExchange, PC
    <3>4. current' = current + 1
      BY <1>3, <2>1 DEF CompareExchange
    <3>5. current < Max
      BY <2>1, <3>2
    <3>6. CountIsGuards' /\ CapHolds'
      BY <3>1, <3>4, <3>5
    <3>7. CasBelowMax'
      BY <1>3, <2>1 DEF CompareExchange
    <3> QED BY <3>3, <3>6, <3>7
  <2>2. CASE current # cur[c]
    <3>1. Guards' = Guards
      BY <1>3, <2>2, GuardsKept DEF CompareExchange, PC
    <3> QED BY <1>3, <2>2, <3>1 DEF CompareExchange, PC
  <2> QED BY <2>1, <2>2
<1>4. ASSUME NEW c \in Caller, DropGuard(c) PROVE IInv'
  <2>1. Cardinality(Guards') = Cardinality(Guards) - 1
    BY <1>4, GuardRemoved DEF DropGuard, PC
  <2>2. Cardinality(Guards') \in Nat
    BY <1>4, CallerAssumption, FS_Subset, FS_CardinalityType DEF Guards
  <2> QED BY <1>4, <2>1, <2>2 DEF DropGuard, PC
<1>5. ASSUME NEW c \in Caller, ReturnInFlight(c) PROVE IInv'
  <2>1. Guards' = Guards
    BY <1>5, GuardsKept DEF ReturnInFlight, PC
  <2> QED BY <1>5, <2>1 DEF ReturnInFlight, PC
<1>6. CASE UNCHANGED vars
  BY <1>6 DEF vars, Guards
<1> QED BY <1>1, <1>2, <1>3, <1>4, <1>5, <1>6 DEF Next

\* At every step of the race between load, compare_exchange and fetch_sub the
\* types hold and the counter is at least 0 (fetch_sub never wraps).
THEOREM TypeCorrect == Spec => []TypeOK
<1>1. IInv => TypeOK
  BY DEF IInv
<1> QED BY <1>1, InitIInv, NextIInv, PTL DEF Spec

\* try_acquire and Drop together: no slot is lost, none is counted twice.
THEOREM CounterExact == Spec => []CountIsGuards
<1>1. IInv => CountIsGuards
  BY DEF IInv
<1> QED BY <1>1, InitIInv, NextIInv, PTL DEF Spec

\* However many callers race, no more than Max hold a guard.
THEOREM LimitHolds == Spec => []CapHolds
<1>1. IInv => CapHolds
  BY DEF IInv
<1> QED BY <1>1, InitIInv, NextIInv, PTL DEF Spec

-----------------------------------------------------------------------------
(***************************************************************************)
(* Refinement.                                                             *)
(***************************************************************************)

\* The state of the pool that a state of the loop stands for.
PoolState == [c \in Caller |-> IF pc[c] \in {"load", "cas"} THEN "idle" ELSE pc[c]]

\* The holders of the pool are the callers with a guard.
LEMMA HoldersAreGuards == Pool!Holders = Guards
BY DEF Pool!Holders, Guards

\* The pool counts as this module does.
LEMMA SameCardinality == ASSUME NEW S PROVE Pool!Cardinality(S) = Cardinality(S)
BY DEF Pool!Cardinality, Cardinality

\* Every step of the loop is a step of the pool, or none at all.
LEMMA StepImplements ==
    ASSUME IInv, [Next]_vars
    PROVE  [Pool!Next]_PoolState
<1> USE DEF IInv, TypeOK, CountIsGuards, CasBelowMax
<1>1. ASSUME NEW c \in Caller, TryAcquire(c) PROVE PoolState' = PoolState
  BY <1>1 DEF TryAcquire, PoolState, PC
<1>2. ASSUME NEW c \in Caller, Load(c) PROVE Pool!Next \/ PoolState' = PoolState
  <2>1. CASE current >= Max
    <3>1. Cardinality(Pool!Holders) >= Max
      BY <2>1, HoldersAreGuards
    <3>2. PoolState[c] = "idle"
      BY <1>2 DEF Load, PoolState
    <3>3. PoolState' = [PoolState EXCEPT ![c] = "refused"]
      BY <1>2, <2>1 DEF Load, PoolState, PC
    <3>4. Pool!Refuse(c)
      BY <3>1, <3>2, <3>3, SameCardinality DEF Pool!Refuse, PoolState
    <3> QED BY <3>4 DEF Pool!Next
  <2>2. CASE ~(current >= Max)
    BY <1>2, <2>2 DEF Load, PoolState, PC
  <2> QED BY <2>1, <2>2
<1>3. ASSUME NEW c \in Caller, CompareExchange(c) PROVE Pool!Next \/ PoolState' = PoolState
  <2>1. CASE current = cur[c]
    <3>1. current < Max
      BY <1>3, <2>1 DEF CompareExchange
    <3>2. Cardinality(Pool!Holders) < Max
      BY <3>1, HoldersAreGuards
    <3>3. PoolState[c] = "idle"
      BY <1>3 DEF CompareExchange, PoolState
    <3>4. PoolState' = [PoolState EXCEPT ![c] = "held"]
      BY <1>3, <2>1 DEF CompareExchange, PoolState, PC
    <3>5. Pool!Grant(c)
      BY <3>2, <3>3, <3>4, SameCardinality DEF Pool!Grant, PoolState
    <3> QED BY <3>5 DEF Pool!Next
  <2>2. CASE current # cur[c]
    BY <1>3, <2>2 DEF CompareExchange, PoolState, PC
  <2> QED BY <2>1, <2>2
<1>4. ASSUME NEW c \in Caller, DropGuard(c) PROVE Pool!Next
  <2>1. PoolState[c] = "held"
    BY <1>4 DEF DropGuard, PoolState
  <2>2. PoolState' = [PoolState EXCEPT ![c] = "idle"]
    BY <1>4 DEF DropGuard, PoolState, PC
  <2>3. Pool!Release(c)
    BY <2>1, <2>2 DEF Pool!Release, PoolState
  <2> QED BY <2>3 DEF Pool!Next
<1>5. ASSUME NEW c \in Caller, ReturnInFlight(c) PROVE Pool!Next
  <2>1. PoolState[c] = "refused"
    BY <1>5 DEF ReturnInFlight, PoolState
  <2>2. PoolState' = [PoolState EXCEPT ![c] = "idle"]
    BY <1>5 DEF ReturnInFlight, PoolState, PC
  <2>3. Pool!GiveUp(c)
    BY <2>1, <2>2 DEF Pool!GiveUp, PoolState
  <2> QED BY <2>3 DEF Pool!Next
<1>6. CASE UNCHANGED vars
  BY <1>6 DEF vars, PoolState
<1> QED BY <1>1, <1>2, <1>3, <1>4, <1>5, <1>6 DEF Next

\* The load / compare_exchange loop is an atomic pool: a slot is granted only
\* when one is free, and None is returned only when all are taken.
THEOREM LoopImplementsPool == Spec => ImplementsPool
<1>1. Init => Pool!Init
  BY DEF Init, Pool!Init
<1>2. IInv /\ [Next]_vars => [Pool!Next]_PoolState
  BY StepImplements
<1>3. IInv /\ [Next]_vars => [Pool!Next]_([c \in Caller |-> IF pc[c] \in {"load", "cas"} THEN "idle" ELSE pc[c]])
  BY <1>2 DEF PoolState
<1> QED BY <1>1, <1>3, InitIInv, NextIInv, PTL DEF Spec, ImplementsPool, Pool!Spec
=============================================================================
