------------------------------- MODULE Relay --------------------------------
(***************************************************************************)
(* copy_bidirectional_with_idle_timeout of src/src/main.rs: one task that  *)
(* moves bytes between two peers, half-closes in each direction and gives  *)
(* up after a time without traffic.  Everything it does after a select!,   *)
(* write_all and shutdown included, happens in that one task, so the other *)
(* direction and the idle timer wait meanwhile.                            *)
(*                                                                         *)
(* The two arms of the select! are the same code: here both are direction  *)
(* d, from the peer Src(d) to the peer Dst(d).                             *)
(***************************************************************************)
EXTENDS Naturals, Sequences

CONSTANTS
    Idle,         \* the idle timeout, in ticks
    MaxBytes,     \* bound: bytes a peer sends
    RecvWindow,   \* bound: bytes a socket buffers before the relay reads them
    SendWindow,   \* bound: bytes it buffers before the peer reads them
    BufSize,      \* a_buf, b_buf (16 KiB)
    SlowShutdown  \* directions whose shutdown must write (TLS close_notify)

ASSUME IdleAssumption == Idle \in Nat \ {0}
ASSUME WindowAssumption ==
    {RecvWindow, SendWindow, BufSize} \subseteq Nat \ {0} /\ MaxBytes \in Nat

Dir == {"ab", "ba"}
Peer == {"a", "b"}
Src(d) == IF d = "ab" THEN "a" ELSE "b"
Dst(d) == IF d = "ab" THEN "b" ELSE "a"

ASSUME SlowShutdownAssumption == SlowShutdown \subseteq Dir

VARIABLES
    pc,      \* "select", "write", "shutdown" or "closed"
    dir,     \* the arm taken by the last select!
    done,    \* a_done, b_done
    held,    \* the part of a_buf or b_buf that write_all still has to write
    n,       \* the result of the last read
    copied,  \* a_to_b, b_to_a
    age,     \* ticks since the idle timer was set, at most Idle
    result,  \* how the relay ended
    sent,    \* history: all that Src(d) sent
    inp,     \* bytes from Src(d) the relay has not read
    fin,     \* Src(d) closed its write side
    out,     \* bytes written to Dst(d) that it has not read
    finOut,  \* the write side towards Dst(d) is shut down
    rcvd,    \* what Dst(d) has read
    reset    \* peers that reset their connection

relayVars == <<pc, dir, done, held, n, copied, age, result>>
wireVars == <<sent, inp, fin, out, finOut, rcvd, reset>>
vars == <<relayVars, wireVars>>

Init ==
    /\ pc = "select" /\ dir = "ab"
    /\ done = [d \in Dir |-> FALSE]
    /\ held = [d \in Dir |-> <<>>]
    /\ n = 0
    /\ copied = [d \in Dir |-> 0]
    /\ age = 0
    /\ result = "none"
    /\ sent = [d \in Dir |-> <<>>]
    /\ inp = [d \in Dir |-> <<>>]
    /\ fin = [d \in Dir |-> FALSE]
    /\ out = [d \in Dir |-> <<>>]
    /\ finOut = [d \in Dir |-> FALSE]
    /\ rcvd = [d \in Dir |-> <<>>]
    /\ reset = {}

\* The first k elements of s, and the rest.
Front(s, k) == SubSeq(s, 1, k)
Rest(s, k) == SubSeq(s, k + 1, Len(s))

Close(how) == pc' = "closed" /\ result' = how

-----------------------------------------------------------------------------
(***************************************************************************)
(* The relay.                                                              *)
(***************************************************************************)

\* Both directions are done: Ok((a_to_b, b_to_a)).
Finish ==
    /\ pc = "select"
    /\ \A d \in Dir : done[d]
    /\ Close("ok")
    /\ UNCHANGED <<dir, done, held, n, copied, age, wireVars>>

\* Mutant of IdleTimeout: the timer runs only while both directions are open.
IdleWhileOpen ==
    /\ pc = "select"
    /\ \A d \in Dir : ~done[d]
    /\ age = Idle
    /\ Close("idle")
    /\ UNCHANGED <<dir, done, held, n, copied, age, wireVars>>

\* The idle timer wins the select!.
IdleTimeout ==
    /\ pc = "select"
    /\ \E d \in Dir : ~done[d]
    /\ age = Idle
    /\ Close("idle")
    /\ UNCHANGED <<dir, done, held, n, copied, age, wireVars>>

\* read returns k > 0 bytes: write_all begins.
Read(d) ==
    /\ pc = "select" /\ ~done[d]
    /\ Src(d) \notin reset
    /\ \E k \in 1..BufSize :
          /\ k <= Len(inp[d])
          /\ n' = k
          /\ held' = [held EXCEPT ![d] = Front(inp[d], k)]
          /\ inp' = [inp EXCEPT ![d] = Rest(inp[d], k)]
    /\ pc' = "write" /\ dir' = d
    /\ UNCHANGED <<done, copied, age, result, sent, fin, out, finOut, rcvd, reset>>

\* Mutant of ReadEof: the end of one direction ends the other too.
ReadEofBoth(d) ==
    /\ pc = "select" /\ ~done[d]
    /\ Src(d) \notin reset
    /\ fin[d] /\ inp[d] = <<>>
    /\ done' = [e \in Dir |-> TRUE]
    /\ pc' = "shutdown" /\ dir' = d
    /\ UNCHANGED <<held, n, copied, age, result, wireVars>>

\* Mutant of ReadEof: a FIN is seen before the bytes in front of it.
ReadEofEarly(d) ==
    /\ pc = "select" /\ ~done[d]
    /\ Src(d) \notin reset
    /\ fin[d]
    /\ done' = [done EXCEPT ![d] = TRUE]
    /\ pc' = "shutdown" /\ dir' = d
    /\ UNCHANGED <<held, n, copied, age, result, wireVars>>

\* read returns 0: the direction is done, the other side is shut down.
ReadEof(d) ==
    /\ pc = "select" /\ ~done[d]
    /\ Src(d) \notin reset
    /\ fin[d] /\ inp[d] = <<>>
    /\ done' = [done EXCEPT ![d] = TRUE]
    /\ pc' = "shutdown" /\ dir' = d
    /\ UNCHANGED <<held, n, copied, age, result, wireVars>>

\* read fails: the relay returns the error.
ReadError(d) ==
    /\ pc = "select" /\ ~done[d]
    /\ Src(d) \in reset
    /\ Close("error")
    /\ UNCHANGED <<dir, done, held, n, copied, age, wireVars>>

\* Mutant of WriteSome: write instead of write_all, the rest is dropped.
WriteOnce ==
    /\ pc = "write"
    /\ Dst(dir) \notin reset
    /\ \E k \in 1..SendWindow :
          /\ k <= Len(held[dir]) /\ Len(out[dir]) + k <= SendWindow
          /\ out' = [out EXCEPT ![dir] = @ \o Front(held[dir], k)]
          /\ held' = [held EXCEPT ![dir] = <<>>]
          /\ pc' = "select"
          /\ copied' = [copied EXCEPT ![dir] = @ + n]
          /\ age' = 0
    /\ UNCHANGED <<dir, done, n, result, sent, inp, fin, finOut, rcvd, reset>>

\* One write of write_all takes the k bytes there is room for; with the last
\* one the bytes are counted and the idle timer is set anew.
WriteSome ==
    /\ pc = "write"
    /\ Dst(dir) \notin reset
    /\ \E k \in 1..SendWindow :
          /\ k <= Len(held[dir]) /\ Len(out[dir]) + k <= SendWindow
          /\ out' = [out EXCEPT ![dir] = @ \o Front(held[dir], k)]
          /\ held' = [held EXCEPT ![dir] = Rest(@, k)]
          /\ IF k = Len(held[dir])
             THEN /\ pc' = "select"
                  /\ copied' = [copied EXCEPT ![dir] = @ + n]
                  /\ age' = 0
             ELSE UNCHANGED <<pc, copied, age>>
    /\ UNCHANGED <<dir, done, n, result, sent, inp, fin, finOut, rcvd, reset>>

\* shutdown of the write side; TLS has to write its close_notify first.
Shutdown ==
    /\ pc = "shutdown"
    /\ Dst(dir) \notin reset
    /\ dir \in SlowShutdown => Len(out[dir]) < SendWindow
    /\ finOut' = [finOut EXCEPT ![dir] = TRUE]
    /\ pc' = "select"
    /\ UNCHANGED <<dir, done, held, n, copied, age, result, sent, inp, fin, out, rcvd, reset>>

\* write_all or shutdown fails.
WriteError ==
    /\ pc \in {"write", "shutdown"}
    /\ Dst(dir) \in reset
    /\ Close("error")
    /\ UNCHANGED <<dir, done, held, n, copied, age, wireVars>>

-----------------------------------------------------------------------------
(***************************************************************************)
(* Time and the peers.                                                     *)
(***************************************************************************)

Tick ==
    /\ pc # "closed" /\ age < Idle
    /\ age' = age + 1
    /\ UNCHANGED <<pc, dir, done, held, n, copied, result, wireVars>>

PeerSend(d) ==
    /\ ~fin[d] /\ Src(d) \notin reset /\ pc # "closed"
    /\ Len(sent[d]) < MaxBytes /\ Len(inp[d]) < RecvWindow
    /\ sent' = [sent EXCEPT ![d] = Append(@, Len(@) + 1)]
    /\ inp' = [inp EXCEPT ![d] = Append(@, Len(sent[d]) + 1)]
    /\ UNCHANGED <<relayVars, fin, out, finOut, rcvd, reset>>

PeerFin(d) ==
    /\ ~fin[d] /\ Src(d) \notin reset /\ pc # "closed"
    /\ fin' = [fin EXCEPT ![d] = TRUE]
    /\ UNCHANGED <<relayVars, sent, inp, out, finOut, rcvd, reset>>

PeerRecv(d) ==
    /\ out[d] # <<>> /\ Dst(d) \notin reset
    /\ rcvd' = [rcvd EXCEPT ![d] = Append(@, Head(out[d]))]
    /\ out' = [out EXCEPT ![d] = Tail(@)]
    /\ UNCHANGED <<relayVars, sent, inp, fin, finOut, reset>>

PeerReset(p) ==
    /\ p \notin reset /\ pc # "closed"
    /\ reset' = reset \cup {p}
    /\ UNCHANGED <<relayVars, sent, inp, fin, out, finOut, rcvd>>

RelayStep ==
    \/ Finish \/ IdleTimeout \/ WriteSome \/ Shutdown \/ WriteError
    \/ \E d \in Dir : Read(d) \/ ReadEof(d) \/ ReadError(d)

Next ==
    \/ RelayStep \/ Tick
    \/ \E d \in Dir : PeerSend(d) \/ PeerFin(d) \/ PeerRecv(d)
    \/ \E p \in Peer : PeerReset(p)

Spec == Init /\ [][Next]_vars

\* The executor polls the task and its timer, time passes.  select! starts
\* with a branch chosen at random, so a branch that is ready again and again
\* is taken in the end.
Fairness ==
    /\ WF_vars(RelayStep)
    /\ WF_vars(Tick)
    /\ SF_vars(IdleTimeout)
    /\ \A d \in Dir : SF_vars(Read(d)) /\ SF_vars(ReadEof(d))

FairSpec == Spec /\ Fairness

\* Both peers go on reading what they are sent.
Draining == \A d \in Dir : WF_vars(PeerRecv(d))

DrainSpec == FairSpec /\ Draining

-----------------------------------------------------------------------------
(***************************************************************************)
(* Properties.                                                             *)
(***************************************************************************)

\* Types of the state.
TypeOK ==
    /\ pc \in {"select", "write", "shutdown", "closed"}
    /\ dir \in Dir
    /\ done \in [Dir -> BOOLEAN] /\ fin \in [Dir -> BOOLEAN] /\ finOut \in [Dir -> BOOLEAN]
    /\ held \in [Dir -> Seq(Nat)] /\ sent \in [Dir -> Seq(Nat)] /\ rcvd \in [Dir -> Seq(Nat)]
    /\ inp \in [Dir -> Seq(Nat)] /\ out \in [Dir -> Seq(Nat)]
    /\ n \in Nat /\ copied \in [Dir -> Nat]
    /\ age \in 0..Idle
    /\ result \in {"none", "ok", "idle", "error"}
    /\ reset \subseteq Peer
    /\ \A d \in Dir : Len(out[d]) <= SendWindow

\* No byte is lost, repeated or reordered by partial writes, half-closes or
\* the two directions sharing one task: what was sent is what was received,
\* what is under way, what write_all still holds and what waits to be read.
BytesConserved ==
    \A d \in Dir : sent[d] = rcvd[d] \o out[d] \o held[d] \o inp[d]

\* A peer is told of the end only after all the bytes before it, and the
\* relay returns Ok only when everything both peers sent has been passed on;
\* then it reports exactly the number of bytes.
EndAfterAllBytes ==
    /\ \A d \in Dir : finOut[d] => fin[d] /\ sent[d] = rcvd[d] \o out[d]
    /\ result = "ok" =>
          \A d \in Dir : /\ finOut[d]
                         /\ copied[d] = Len(sent[d])

\* A byte that was sent reaches the other peer, after a half-close of its own
\* and after the relay returned Ok too, unless the relay timed out or failed.
Delivered ==
    \A d \in Dir : \A k \in 1..MaxBytes :
        (Len(sent[d]) = k) ~> (Len(rcvd[d]) >= k \/ result \in {"idle", "error"} \/ Dst(d) \in reset)

\* The idle timeout ends a relay without traffic.
IdleCloses == (age = Idle) ~> (pc = "closed" \/ age < Idle)
=============================================================================
