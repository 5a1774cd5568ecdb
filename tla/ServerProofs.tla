---------------------------- MODULE ServerProofs ----------------------------
(***************************************************************************)
(* Proofs about modules Server and Watchdog, which together are what the   *)
(* task of main does once it accepts.  Server, for any finite set of       *)
(* connections, any limit and any tables: permits balance, and every       *)
(* connection is routed by one table.  Watchdog, for all time limits that  *)
(* TimeAssumption allows: how late a stall is noticed at most, and that a  *)
(* healthy process is spared.                                              *)
(***************************************************************************)
EXTENDS Server, Watchdog, TLAPS, FiniteSetTheorems, SequenceTheorems

\* A new handler has tried no hop yet.
NothingTried == \A c \in Conn : stage[c] = "reading" => tried[c] = <<>>

Inv == TypeOK /\ PermitsAccounted /\ NothingTried /\ OneTable

Running == {"reading", "connecting", "writing", "relaying"}

\* The running handlers can be counted.
LEMMA LiveFinite == IsFiniteSet(Live) /\ Cardinality(Live) \in Nat
<1>1. IsFiniteSet(Live)
  BY ConnAssumption, FS_Subset DEF Live
<1> QED BY <1>1, FS_CardinalityType

\* What a step of one connection does to their number.
LEMMA HandlerStarts ==
    ASSUME NEW c \in Conn, NEW s \in Running, stage \in [Conn -> Stage], stage[c] \notin Running,
           stage' = [stage EXCEPT ![c] = s]
    PROVE  Cardinality(Live') = Cardinality(Live) + 1
<1>1. Live' = Live \cup {c} /\ c \notin Live
  BY DEF Live, Stage, Running
<1> QED BY <1>1, LiveFinite, FS_AddElement

LEMMA HandlerEnds ==
    ASSUME NEW c \in Conn, stage \in [Conn -> Stage], stage[c] \in Running,
           stage' = [stage EXCEPT ![c] = "none"]
    PROVE  Cardinality(Live') = Cardinality(Live) - 1 /\ Cardinality(Live) > 0
<1>1. Live' = Live \ {c} /\ c \in Live
  BY DEF Live, Stage, Running
<1>2. Cardinality(Live') = Cardinality(Live) - 1
  BY <1>1, LiveFinite, FS_RemoveElement
<1>3. Cardinality(Live') \in Nat
  BY <1>1, LiveFinite, FS_Subset, FS_CardinalityType
<1> QED BY <1>2, <1>3, LiveFinite

LEMMA HandlerGoesOn ==
    ASSUME NEW c \in Conn, NEW s \in Stage, stage \in [Conn -> Stage],
           stage[c] \in Running <=> s \in Running, stage' = [stage EXCEPT ![c] = s]
    PROVE  Live' = Live
BY DEF Live, Stage, Running

\* A lookup gives a list of hops, from a rule or the default.
LEMMA LookupType == \A v \in DOMAIN Tables, h \in Host : Lookup(v, h) \in Seq(Hop)
BY TablesAssumption DEF Lookup

\* Moving the first hop over to those that were tried leaves their order.
LEMMA HopMoved ==
    ASSUME NEW s \in Seq(Hop), NEW t \in Seq(Hop), t # <<>>
    PROVE  /\ Append(s, Head(t)) \in Seq(Hop) /\ Tail(t) \in Seq(Hop)
           /\ Append(s, Head(t)) \o Tail(t) = s \o t
<1>1. Append(s, Head(t)) = s \o <<Head(t)>> /\ Head(t) \in Hop /\ Tail(t) \in Seq(Hop)
  BY AppendIsConcat, HeadTailProperties
<1>2. <<Head(t)>> \o Tail(t) = t
  BY HeadTailProperties, SequenceEmptyOrAppend
<1> QED BY <1>1, <1>2, ConcatAssociative, AppendProperties

\* The end of a handler, from any stage it runs in.
LEMMA EndKeepsInv ==
    ASSUME Inv, NEW c \in Conn, NEW s \in Running, End(c, s)
    PROVE  Inv'
<1> USE DEF Inv, TypeOK, End, Goto
<1>1. Cardinality(Live') = Cardinality(Live) - 1 /\ Cardinality(Live) > 0
  BY HandlerEnds
<1>2. PermitsAccounted' /\ permits' \in 0..MaxConnections
  BY <1>1, LiveFinite, MaxConnectionsAssumption DEF PermitsAccounted
<1>3. TypeOK'
  BY <1>2 DEF Stage
<1>4. NothingTried' /\ OneTable'
  BY DEF NothingTried, OneTable, Stage
<1> QED BY <1>2, <1>3, <1>4

\* A step from one stage to another that gives and takes no permit.
LEMMA GoingOn ==
    ASSUME Inv, NEW c \in Conn, NEW from \in Stage, NEW to \in Stage,
           from \in Running <=> to \in Running, Goto(c, from, to), permits' = permits
    PROVE  PermitsAccounted' /\ stage' \in [Conn -> Stage] /\ permits' \in 0..MaxConnections
<1>1. Live' = Live
  BY HandlerGoesOn DEF Inv, TypeOK, Goto
<1> QED BY <1>1 DEF Inv, TypeOK, PermitsAccounted, Goto, Stage

LEMMA InitInv == Init => Inv
<1> SUFFICES ASSUME Init PROVE Inv
  OBVIOUS
<1>1. Live = {}
  BY DEF Init, Live
<1>2. PermitsAccounted
  BY <1>1, FS_EmptySet, MaxConnectionsAssumption DEF Init, PermitsAccounted
<1>3. 1 \in DOMAIN Tables
  BY TablesAssumption
<1> QED BY <1>2, <1>3, MaxConnectionsAssumption DEF Init, Inv, TypeOK, NothingTried, OneTable, Stage

LEMMA NextInv == Inv /\ [Next]_vars => Inv'
<1> SUFFICES ASSUME Inv, [Next]_vars PROVE Inv'
  OBVIOUS
<1> USE DEF Inv
<1>1. ASSUME NEW c \in Conn, NEW h \in Host, Arrive(c, h) PROVE Inv'
  <2>1. PermitsAccounted' /\ stage' \in [Conn -> Stage]
    BY <1>1, GoingOn DEF Arrive, Stage, Running
  <2> QED BY <1>1, <2>1 DEF Arrive, Goto, TypeOK, NothingTried, OneTable, Stage
<1>2. ASSUME NEW c \in Conn, Accept(c) PROVE Inv'
  <2>1. Cardinality(Live') = Cardinality(Live) + 1
    BY <1>2, HandlerStarts DEF Accept, Goto, TypeOK, Running, Stage
  <2>2. PermitsAccounted' /\ permits' \in 0..MaxConnections
    BY <1>2, <2>1, LiveFinite, MaxConnectionsAssumption DEF Accept, PermitsAccounted, TypeOK
  <2>3. TypeOK'
    BY <1>2, <2>2 DEF Accept, Goto, TypeOK, Stage
  <2>4. NothingTried' /\ OneTable'
    BY <1>2 DEF Accept, Goto, TypeOK, NothingTried, OneTable, Stage
  <2> QED BY <2>2, <2>3, <2>4
<1>3. ASSUME NEW c \in Conn, AcceptFull(c) PROVE Inv'
  <2>1. PermitsAccounted' /\ stage' \in [Conn -> Stage]
    BY <1>3, GoingOn DEF AcceptFull, Stage, Running
  <2> QED BY <1>3, <2>1 DEF AcceptFull, Goto, TypeOK, NothingTried, OneTable, Stage
<1>4. ASSUME NEW c \in Conn, ReadTarget(c) PROVE Inv'
  <2>1. PermitsAccounted' /\ stage' \in [Conn -> Stage]
    BY <1>4, GoingOn DEF ReadTarget, Stage, Running
  <2>2. Lookup(table, host[c]) \in Seq(Hop) /\ tried[c] = <<>>
    BY <1>4, LookupType DEF ReadTarget, Goto, TypeOK, NothingTried
  <2>3. TypeOK'
    BY <1>4, <2>1, <2>2 DEF ReadTarget, Goto, TypeOK
  <2>4. <<>> \o Lookup(table, host[c]) = Lookup(table, host[c])
    BY <2>2, ConcatEmptySeq
  <2>5. NothingTried' /\ OneTable'
    BY <1>4, <2>2, <2>4 DEF ReadTarget, Goto, TypeOK, NothingTried, OneTable, Lookup, Stage
  <2> QED BY <2>1, <2>3, <2>5
<1>5. ASSUME NEW c \in Conn, ConnectOk(c) \/ WriteOk(c) PROVE Inv'
  <2>1. PermitsAccounted' /\ stage' \in [Conn -> Stage]
    BY <1>5, GoingOn DEF ConnectOk, WriteOk, Stage, Running
  <2> QED BY <1>5, <2>1 DEF ConnectOk, WriteOk, Goto, TypeOK, NothingTried, OneTable, Stage
<1>6. ASSUME NEW c \in Conn, ConnectFails(c) PROVE Inv'
  <2>1. Live' = Live
    BY <1>6 DEF ConnectFails, Live
  <2>2. /\ Append(tried[c], Head(hops[c])) \in Seq(Hop) /\ Tail(hops[c]) \in Seq(Hop)
        /\ Append(tried[c], Head(hops[c])) \o Tail(hops[c]) = tried[c] \o hops[c]
    BY <1>6, HopMoved DEF ConnectFails, TypeOK
  <2>3. TypeOK'
    BY <1>6, <2>2 DEF ConnectFails, TypeOK
  <2>4. NothingTried' /\ OneTable'
    BY <1>6, <2>2 DEF ConnectFails, TypeOK, NothingTried, OneTable
  <2> QED BY <1>6, <2>1, <2>3, <2>4 DEF ConnectFails, PermitsAccounted
<1>7. ASSUME NEW c \in Conn, ReadFails(c) \/ NoMoreHops(c) \/ WriteFails(c) \/ RelayEnds(c) PROVE Inv'
  BY <1>7, EndKeepsInv DEF ReadFails, NoMoreHops, WriteFails, RelayEnds, Running
<1>8. CASE AcceptError
  BY <1>8 DEF AcceptError, TypeOK, PermitsAccounted, NothingTried, OneTable, Live
<1>9. CASE Publish
  <2>1. table' \in DOMAIN Tables
    BY <1>9, TablesAssumption DEF Publish, TypeOK
  <2> QED BY <1>9, <2>1 DEF Publish, TypeOK, PermitsAccounted, NothingTried, OneTable, Live
<1>10. CASE UNCHANGED vars
  BY <1>10 DEF vars, TypeOK, PermitsAccounted, NothingTried, OneTable, Live
<1> QED BY <1>1, <1>2, <1>3, <1>4, <1>5, <1>6, <1>7, <1>8, <1>9, <1>10 DEF Next, Handler

\* Every way a handler ends, errors, timeouts and panics included, gives back
\* exactly the permit it took in accept_loop.
THEOREM PermitsBalance == Spec => []PermitsAccounted
<1>1. Inv => PermitsAccounted
  BY DEF Inv
<1> QED BY <1>1, InitInv, NextInv, PTL DEF Spec

\* connect_with_fallback works on the hops of the one table that was published
\* when the target was known, whatever the reload task publishes meanwhile.
THEOREM RoutedByOneTable == Spec => []OneTable
<1>1. Inv => OneTable
  BY DEF Inv
<1> QED BY <1>1, InitInv, NextInv, PTL DEF Spec

-----------------------------------------------------------------------------
(***************************************************************************)
(* The watchdog.                                                           *)
(***************************************************************************)

\* Every phase has a limit, and none is longer than Stall.
LEMMA LimitBounded == ASSUME NEW p \in StartUp \cup {"accept"} PROVE Limit(p) \in 1..Stall
BY TimeAssumption DEF Limit, StartUp

\* Each step of start-up is followed by a phase.
LEMMA AfterPhase == ASSUME NEW p \in StartUp PROVE After[p] \in StartUp \cup {"accept"}
BY DEF StartUp, After

\* The inductive invariant holds at first ...
LEMMA InitWatchdogInv == WatchdogInit => WatchdogInv
<1> SUFFICES ASSUME WatchdogInit PROVE WatchdogInv
  OBVIOUS
<1>1. WatchdogTypeOK
  <2>1. stuck \in BOOLEAN /\ exited \in BOOLEAN /\ phase \in StartUp \cup {"accept"}
    BY DEF WatchdogInit, StartUp
  <2>2. age \in Nat /\ busy \in Nat /\ stuckFor \in Nat /\ nap \in 0..Poll
    BY TimeAssumption DEF WatchdogInit
  <2> QED BY <2>1, <2>2 DEF WatchdogTypeOK
<1>2. Limit(phase) \in 1..Stall
  BY <1>1, LimitBounded DEF WatchdogTypeOK
<1> QED BY <1>1, <1>2, TimeAssumption DEF WatchdogInit, WatchdogInv

\* ... and every beat, wake-up and second keeps it.
LEMMA NextWatchdogInv == WatchdogInv /\ [WatchdogNext]_watchdogVars => WatchdogInv'
<1> SUFFICES ASSUME WatchdogInv, [WatchdogNext]_watchdogVars PROVE WatchdogInv'
  OBVIOUS
<1> USE TimeAssumption DEF WatchdogInv, WatchdogTypeOK
<1>1. Limit(phase) \in 1..Stall
  BY LimitBounded
<1>2. CASE StartUpBeat
  <2>1. phase' \in StartUp \cup {"accept"}
    BY <1>2, AfterPhase DEF StartUpBeat
  <2>2. Limit(phase') \in 1..Stall
    BY <2>1, LimitBounded
  <2>3. Limit(phase)' = Limit(phase')
    BY DEF Limit
  <2>4. WatchdogTypeOK'
    BY <1>2, <2>1 DEF StartUpBeat, DoBeat
  <2>5. Limit(phase)' \in Nat
    BY <2>2, <2>3
  <2> QED BY <1>2, <2>4, <2>5 DEF StartUpBeat, DoBeat
<1>3. CASE IntervalBeat
  <2>1. Limit(phase)' = Limit(phase)
    BY <1>3 DEF IntervalBeat, Limit
  <2> QED BY <1>1, <1>3, <2>1 DEF IntervalBeat, DoBeat
<1>4. CASE AcceptBeat
  <2>1. Limit(phase)' = Limit(phase)
    BY <1>4 DEF AcceptBeat, Limit
  <2> QED BY <1>1, <1>4, <2>1 DEF AcceptBeat, DoBeat
<1>5. CASE WatchdogWakes
  <2>1. Limit(phase)' = Limit(phase)
    BY <1>5 DEF WatchdogWakes, Limit
  <2>2. exited' <=> age > Stall
    BY <1>5 DEF WatchdogWakes
  <2>3. exited' \in BOOLEAN
    BY <1>5 DEF WatchdogWakes
  <2>4. /\ ~exited /\ nap' = 0
        /\ UNCHANGED <<phase, stuck, age, busy, stuckFor>>
    BY <1>5 DEF WatchdogWakes
  <2>5. WatchdogTypeOK'
    BY <2>3, <2>4
  <2> QED BY <1>1, <2>1, <2>2, <2>4, <2>5
<1>6. CASE Stick
  <2>1. Limit(phase)' = Limit(phase)
    BY <1>6 DEF Stick, Limit
  <2> QED BY <1>1, <1>6, <2>1 DEF Stick
<1>7. CASE Tick
  <2>1. Limit(phase)' = Limit(phase)
    BY <1>7 DEF Tick, Limit
  <2>2. WatchdogTypeOK'
    BY <1>7 DEF Tick
  <2>3. (~exited => age <= Stall + nap)' /\ (exited => age > Stall)'
    BY <1>7 DEF Tick
  <2>4. (~exited => age <= busy)'
    BY <1>7 DEF Tick
  <2>5. age' <= Limit(phase) + stuckFor'
    <3>1. CASE stuck
      BY <1>1, <1>7, <3>1 DEF Tick
    <3>2. CASE ~stuck
      BY <1>1, <1>7, <3>2 DEF Tick
    <3> QED BY <3>1, <3>2
  <2> QED BY <2>1, <2>2, <2>3, <2>4, <2>5
<1>8. CASE UNCHANGED watchdogVars
  <2>1. Limit(phase)' = Limit(phase)
    BY <1>8 DEF watchdogVars, Limit
  <2> QED BY <1>1, <1>8, <2>1 DEF watchdogVars
<1> QED BY <1>2, <1>3, <1>4, <1>5, <1>6, <1>7, <1>8 DEF WatchdogNext

\* The state has its types: the counters of the watchdog stay in range.
THEOREM WatchdogTypes == WatchdogSpec => []WatchdogTypeOK
<1>1. WatchdogInv => WatchdogTypeOK
  BY DEF WatchdogInv
<1> QED BY <1>1, InitWatchdogInv, NextWatchdogInv, PTL DEF WatchdogSpec

\* A stall is noticed Stall + Poll after the last beat at the latest: the 30 s
\* of README.md:75 become 31 s in the worst case, whatever the limits are.
THEOREM StallsDetected == WatchdogSpec => []DetectedInTime
<1>1. WatchdogInv => DetectedInTime
  BY TimeAssumption DEF WatchdogInv, WatchdogTypeOK, DetectedInTime
<1> QED BY <1>1, InitWatchdogInv, NextWatchdogInv, PTL DEF WatchdogSpec

\* watchdog_suicide is called only if the task of main was stuck for Stall,
\* less the one step it was in: no slow but healthy start-up is killed.
THEOREM HealthySpared == WatchdogSpec => []NoFalseAlarm
<1>1. WatchdogInv => NoFalseAlarm
  <2> SUFFICES ASSUME WatchdogInv, exited PROVE stuckFor + Limit(phase) > Stall
    BY DEF NoFalseAlarm
  <2>1. Limit(phase) \in 1..Stall
    BY LimitBounded DEF WatchdogInv, WatchdogTypeOK
  <2> QED BY <2>1, TimeAssumption DEF WatchdogInv, WatchdogTypeOK
<1> QED BY <1>1, InitWatchdogInv, NextWatchdogInv, PTL DEF WatchdogSpec
=============================================================================
