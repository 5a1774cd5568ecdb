------------------------------- MODULE Server -------------------------------
(***************************************************************************)
(* The accept loops and the connection handlers of src/src/main.rs, with   *)
(* Router::lookup and connect_with_fallback of src/src/router.rs.  Each    *)
(* accepted connection takes a permit of one semaphore and runs as a task  *)
(* of its own: read the first bytes, look the target up in the table that  *)
(* is published at that moment, try the hops in order, pass the first      *)
(* bytes on, relay.  Every step but the relay has a timeout.  Meanwhile    *)
(* the reload task publishes new tables.                                   *)
(***************************************************************************)
EXTENDS Naturals, Sequences, FiniteSets

CONSTANTS
    Conn,            \* connections, reused once they are closed
    MaxConnections,  \* MAX_CONNECTIONS
    Host,            \* targets clients ask for
    Tables,          \* the published tables, in order: [rules, default]
    Hop              \* upstream proxies

ASSUME ConnAssumption == IsFiniteSet(Conn)
ASSUME MaxConnectionsAssumption == MaxConnections \in Nat
ASSUME TablesAssumption ==
    /\ Len(Tables) \in Nat \ {0} /\ DOMAIN Tables = 1..Len(Tables)
    /\ \A v \in DOMAIN Tables :
          /\ DOMAIN Tables[v].rules \subseteq Host
          /\ \A h \in DOMAIN Tables[v].rules : Tables[v].rules[h] \in Seq(Hop)
          /\ Tables[v].default \in Seq(Hop) \ {<<>>}

VARIABLES
    up,       \* the accept loops are running
    table,    \* which table is published
    permits,  \* permits left in the semaphore
    stage,    \* stage[c]: where the handler of c stands
    host,     \* the target c asked for
    hops,     \* the hops the handler has not tried yet
    tried,    \* history: the hops it tried in vain
    snap      \* history: the table that was published when it looked up

vars == <<up, table, permits, stage, host, hops, tried, snap>>

Stage == {"none", "backlog", "reading", "connecting", "writing", "relaying"}

\* The connections whose handler is running.
Live == {c \in Conn : stage[c] \in {"reading", "connecting", "writing", "relaying"}}

\* Router::lookup.
Lookup(v, h) ==
    IF h \in DOMAIN Tables[v].rules THEN Tables[v].rules[h] ELSE Tables[v].default

Init ==
    /\ up = TRUE
    /\ table = 1
    /\ permits = MaxConnections
    /\ stage = [c \in Conn |-> "none"]
    /\ host \in [Conn -> Host]
    /\ hops = [c \in Conn |-> <<>>]
    /\ tried = [c \in Conn |-> <<>>]
    /\ snap = [c \in Conn |-> 1]

Goto(c, from, to) ==
    /\ up
    /\ stage[c] = from
    /\ stage' = [stage EXCEPT ![c] = to]

\* The task of c ends, by return or by panic, and drops its permit.
End(c, from) ==
    /\ Goto(c, from, "none")
    /\ permits' = permits + 1
    /\ UNCHANGED <<up, table, host, hops, tried, snap>>

-----------------------------------------------------------------------------
(***************************************************************************)
(* accept_loop.                                                            *)
(***************************************************************************)

\* A client connects; the connection waits to be accepted.
Arrive(c, h) ==
    /\ Goto(c, "none", "backlog")
    /\ host' = [host EXCEPT ![c] = h]
    /\ UNCHANGED <<up, table, permits, hops, tried, snap>>

\* accept, try_acquire_owned succeeds, the handler is spawned.
Accept(c) ==
    /\ permits > 0
    /\ Goto(c, "backlog", "reading")
    /\ permits' = permits - 1
    /\ hops' = [hops EXCEPT ![c] = <<>>]
    /\ tried' = [tried EXCEPT ![c] = <<>>]
    /\ UNCHANGED <<up, table, host, snap>>

\* Mutant of AcceptFull: the loop waits for a permit.
AcceptFullWaits(c) ==
    /\ permits = 0
    /\ up /\ stage[c] = "backlog"
    /\ UNCHANGED vars

\* accept, but no permit is left: the connection is dropped.
AcceptFull(c) ==
    /\ permits = 0
    /\ Goto(c, "backlog", "none")
    /\ UNCHANGED <<up, table, permits, host, hops, tried, snap>>

\* accept fails: the loop returns the error, main ends, and the process with it.
AcceptError ==
    /\ up
    /\ up' = FALSE
    /\ UNCHANGED <<table, permits, stage, host, hops, tried, snap>>

-----------------------------------------------------------------------------
(***************************************************************************)
(* handle_connection and connect_with_fallback.                            *)
(***************************************************************************)

\* The target is known: the hops are copied out of the published table.
ReadTarget(c) ==
    /\ Goto(c, "reading", "connecting")
    /\ hops' = [hops EXCEPT ![c] = Lookup(table, host[c])]
    /\ snap' = [snap EXCEPT ![c] = table]
    /\ UNCHANGED <<up, table, permits, host, tried>>

\* Mutant of ReadFails: the permit is not given back.
ReadFailsLeaks(c) ==
    /\ Goto(c, "reading", "none")
    /\ UNCHANGED <<up, table, permits, host, hops, tried, snap>>

\* Timeout, end of stream, or no target in what was read.
ReadFails(c) == End(c, "reading")

\* The next hop is connected.
ConnectOk(c) ==
    /\ hops[c] # <<>>
    /\ Goto(c, "connecting", "writing")
    /\ UNCHANGED <<up, table, permits, host, hops, tried, snap>>

\* Mutant of ConnectFails: the next hop is taken from the current table.
ConnectFailsRelooks(c) ==
    /\ up /\ stage[c] = "connecting" /\ hops[c] # <<>>
    /\ tried' = [tried EXCEPT ![c] = Append(@, Head(hops[c]))]
    /\ hops' = [hops EXCEPT ![c] =
            LET now == Lookup(table, host[c])
            IN  SubSeq(now, Len(tried[c]) + 2, Len(now))]
    /\ UNCHANGED <<up, table, permits, stage, host, snap>>

\* Mutant of ConnectFails: the same hop is tried again.
ConnectFailsRetries(c) ==
    /\ up /\ stage[c] = "connecting" /\ hops[c] # <<>>
    /\ UNCHANGED vars

\* The next hop fails or times out; the one after it is next.
ConnectFails(c) ==
    /\ up /\ stage[c] = "connecting" /\ hops[c] # <<>>
    /\ tried' = [tried EXCEPT ![c] = Append(@, Head(hops[c]))]
    /\ hops' = [hops EXCEPT ![c] = Tail(@)]
    /\ UNCHANGED <<up, table, permits, stage, host, snap>>

\* All hops failed, or there was none ("no proxy candidates").
NoMoreHops(c) == hops[c] = <<>> /\ End(c, "connecting")

\* write_all of the first bytes.
WriteOk(c) ==
    /\ Goto(c, "writing", "relaying")
    /\ UNCHANGED <<up, table, permits, host, hops, tried, snap>>

WriteFails(c) == End(c, "writing")

\* The relay returns, with or without an error.
RelayEnds(c) == End(c, "relaying")

\* runtime_tx.send of the reload task.
Publish ==
    /\ up /\ table < Len(Tables)
    /\ table' = table + 1
    /\ UNCHANGED <<up, permits, stage, host, hops, tried, snap>>

Handler(c) ==
    \/ ReadTarget(c) \/ ReadFails(c)
    \/ ConnectOk(c) \/ ConnectFails(c) \/ NoMoreHops(c)
    \/ WriteOk(c) \/ WriteFails(c) \/ RelayEnds(c)

Next ==
    \/ \E c \in Conn :
          \/ \E h \in Host : Arrive(c, h)
          \/ Accept(c) \/ AcceptFull(c) \/ Handler(c)
    \/ AcceptError \/ Publish

Spec == Init /\ [][Next]_vars

\* The accept loop is polled; the timeouts of handle_connection and of
\* ProxyConfig::connect fire.  Clients need not send, and relays need not end.
Fairness ==
    \A c \in Conn :
        /\ WF_vars(Accept(c) \/ AcceptFull(c))
        /\ WF_vars(ReadFails(c))
        /\ WF_vars(ConnectFails(c))
        /\ WF_vars(NoMoreHops(c))
        /\ WF_vars(WriteFails(c))

FairSpec == Spec /\ Fairness

-----------------------------------------------------------------------------
(***************************************************************************)
(* Properties.                                                             *)
(***************************************************************************)

\* Types of the state.
TypeOK ==
    /\ up \in BOOLEAN
    /\ table \in DOMAIN Tables
    /\ permits \in 0..MaxConnections
    /\ stage \in [Conn -> Stage]
    /\ host \in [Conn -> Host]
    /\ hops \in [Conn -> Seq(Hop)] /\ tried \in [Conn -> Seq(Hop)]
    /\ snap \in [Conn -> DOMAIN Tables]

\* Every way a handler ends gives its permit back: the permits that are not
\* in the semaphore are those of the running handlers.
PermitsAccounted == permits + Cardinality(Live) = MaxConnections

\* A connection is routed by one table, the one published when its target was
\* known, whatever is published while it falls back from hop to hop: its hops
\* are tried in the order of the rule, none twice and none left out.
OneTable ==
    \A c \in Conn :
        stage[c] \in {"connecting", "writing", "relaying"} =>
            tried[c] \o hops[c] = Lookup(snap[c], host[c])

\* A client is never kept waiting by the others: even with all permits taken
\* by relays that never end, it is accepted or turned away.
Answered == \A c \in Conn : (stage[c] = "backlog") ~> (stage[c] # "backlog" \/ ~up)

\* A handler does not hold its permit forever before it relays: silent
\* clients and dead proxies cost a bounded number of timeouts.
SetupEnds ==
    \A c \in Conn :
        (stage[c] \in {"reading", "connecting", "writing"})
            ~> (stage[c] \in {"none", "relaying"} \/ ~up)
=============================================================================
