----------------------------- MODULE RelayProofs -----------------------------
(***************************************************************************)
(* Proofs about module Relay, for any timeout, any sizes of buffers and    *)
(* windows, and any number of bytes: the relay loses, repeats and reorders *)
(* nothing, and passes the end on after the last byte.                     *)
(***************************************************************************)
EXTENDS Relay, TLAPS, SequenceTheorems

\* What write_all holds was read by the arm that was taken last.
HeldByArm ==
    \A d \in Dir : held[d] # <<>> => dir = d /\ pc \in {"write", "closed"} /\ ~done[d]

\* A direction is done once its source has ended and all of it is written; its
\* sink is shut down next, before anything else.
DoneAtEnd ==
    \A d \in Dir :
        /\ done[d] => fin[d] /\ inp[d] = <<>>
        /\ (done[d] /\ ~finOut[d]) => \/ pc = "shutdown" /\ dir = d
                                      \/ pc = "closed" /\ result # "ok"
        /\ finOut[d] => done[d]

\* a_to_b and b_to_a lag behind what was read by the block in write_all.
Counted ==
    \A d \in Dir :
        copied[d] + (IF pc = "write" /\ dir = d THEN n ELSE 0) + Len(inp[d]) = Len(sent[d])
            \/ (pc = "closed" /\ result # "ok")

Ended ==
    /\ pc = "closed" <=> result # "none"
    /\ result = "ok" => \A d \in Dir : done[d]
    /\ pc = "write" => ~done[dir]
    /\ pc = "shutdown" => done[dir]

\* s is r, then o, then h, then i.
Adds(s, r, o, h, i) == s = r \o o \o h \o i

Inv == TypeOK /\ HeldByArm /\ DoneAtEnd /\ Counted /\ Ended /\ BytesConserved

-----------------------------------------------------------------------------
(***************************************************************************)
(* Sequences of bytes.                                                     *)
(***************************************************************************)

\* f and g are the two parts of s.
LEMMA Joined ==
    ASSUME NEW s \in Seq(Nat), NEW f \in Seq(Nat), NEW g \in Seq(Nat), Len(s) = Len(f) + Len(g),
           \A i \in 1..Len(f) : f[i] = s[i],
           \A i \in 1..Len(g) : g[i] = s[Len(f) + i]
    PROVE  f \o g = s
<1>1. Len(f) \in Nat /\ Len(g) \in Nat
  OBVIOUS
<1>2. f \o g \in Seq(Nat) /\ Len(f \o g) = Len(s)
  OBVIOUS
<1>3. ASSUME NEW i \in 1..Len(s) PROVE (f \o g)[i] = s[i]
  <2>1. CASE i <= Len(f)
    <3>1. (f \o g)[i] = f[i]
      BY <1>1, <2>1
    <3> QED BY <1>1, <2>1, <3>1
  <2>2. CASE i > Len(f)
    <3>1. i - Len(f) \in 1..Len(g)
      BY <1>1, <2>2
    <3>2. (f \o g)[i] = g[i - Len(f)]
      BY <1>1, <2>2, <3>1
    <3>3. Len(f) + (i - Len(f)) = i
      BY <1>1
    <3>4. g[i - Len(f)] = s[Len(f) + (i - Len(f))]
      BY <3>1
    <3> QED BY <3>2, <3>3, <3>4
  <2> QED BY <1>1, <2>1, <2>2
<1> QED BY <1>2, <1>3, SeqEqual

LEMMA CutInTwo ==
    ASSUME NEW s \in Seq(Nat), NEW k \in Nat, k <= Len(s)
    PROVE  /\ Front(s, k) \in Seq(Nat) /\ Rest(s, k) \in Seq(Nat)
           /\ Len(Front(s, k)) = k /\ Len(Rest(s, k)) = Len(s) - k
           /\ Front(s, k) \o Rest(s, k) = s
<1> DEFINE f == Front(s, k)
           g == Rest(s, k)
<1>1. f \in Seq(Nat) /\ Len(f) = k
  BY DEF Front
<1>2. g \in Seq(Nat) /\ Len(g) = Len(s) - k
  BY DEF Rest
<1>3. \A i \in 1..k : f[i] = s[i]
  BY DEF Front
<1>4. \A i \in 1..(Len(s) - k) : g[i] = s[k + i]
  BY DEF Rest
<1> HIDE DEF f, g
<1>5. \A i \in 1..Len(f) : f[i] = s[i]
  BY <1>1, <1>3
<1>6. ASSUME NEW i \in 1..Len(g) PROVE g[i] = s[Len(f) + i]
  <2>1. i \in 1..(Len(s) - k) /\ Len(f) = k
    BY <1>1, <1>2
  <2>2. g[i] = s[k + i]
    BY <1>4, <2>1
  <2> QED BY <2>1, <2>2, Zenon
<1>7. Len(s) = Len(f) + Len(g)
  BY <1>1, <1>2
<1>8. f \o g = s
  BY <1>1, <1>2, <1>5, <1>6, <1>7, Joined, Zenon
<1> QED BY <1>1, <1>2, <1>8 DEF f, g

\* A block is read: from the input to the buffer, which was empty.
LEMMA BlockRead ==
    ASSUME NEW s \in Seq(Nat), NEW r \in Seq(Nat), NEW o \in Seq(Nat), NEW f \in Seq(Nat), NEW g \in Seq(Nat),
           Adds(s, r, o, <<>>, f \o g)
    PROVE  Adds(s, r, o, f, g)
<1> DEFINE x == r \o o
<1>1. x \in Seq(Nat)
  OBVIOUS
<1> HIDE DEF x
<1>2. x \o <<>> = x
  BY <1>1, ConcatEmptySeq
<1>3. x \o (f \o g) = x \o f \o g
  BY <1>1, SMTT(30)
<1> QED BY <1>2, <1>3, Zenon DEF x, Adds

\* A part of it is written: from the buffer to the output.
LEMMA PartWritten ==
    ASSUME NEW s \in Seq(Nat), NEW r \in Seq(Nat), NEW o \in Seq(Nat), NEW f \in Seq(Nat),
           NEW g \in Seq(Nat), NEW i \in Seq(Nat), Adds(s, r, o, f \o g, i)
    PROVE  Adds(s, r, o \o f, g, i)
<1>1. r \o (o \o f) \o g \o i = r \o o \o (f \o g) \o i
  OBVIOUS
<1> QED BY <1>1, Zenon DEF Adds

\* A peer reads: from the output to what it received.
LEMMA ByteReceived ==
    ASSUME NEW s \in Seq(Nat), NEW r \in Seq(Nat), NEW o \in Seq(Nat), NEW h \in Seq(Nat),
           NEW i \in Seq(Nat), Adds(s, r, o, h, i), o # <<>>
    PROVE  /\ Append(r, Head(o)) \in Seq(Nat) /\ Tail(o) \in Seq(Nat) /\ Len(Tail(o)) = Len(o) - 1
           /\ Adds(s, Append(r, Head(o)), Tail(o), h, i)
<1>1. /\ Append(r, Head(o)) \in Seq(Nat) /\ Tail(o) \in Seq(Nat) /\ Len(Tail(o)) = Len(o) - 1
      /\ Append(r, Head(o)) \o Tail(o) = r \o o
  OBVIOUS
<1> QED BY <1>1, Zenon DEF Adds

\* A peer sends: the new byte is the last of all and the last of the input.
LEMMA ByteSent ==
    ASSUME NEW s \in Seq(Nat), NEW r \in Seq(Nat), NEW o \in Seq(Nat), NEW h \in Seq(Nat),
           NEW i \in Seq(Nat), Adds(s, r, o, h, i), NEW b \in Nat
    PROVE  /\ Append(s, b) \in Seq(Nat) /\ Len(Append(s, b)) = Len(s) + 1
           /\ Append(i, b) \in Seq(Nat) /\ Len(Append(i, b)) = Len(i) + 1
           /\ Adds(Append(s, b), r, o, h, Append(i, b))
<1> DEFINE x == r \o o \o h
<1>1. x \in Seq(Nat)
  OBVIOUS
<1>2. s = x \o i
  BY DEF Adds
<1> HIDE DEF x
<1>3. Append(s, b) = s \o <<b>> /\ Append(i, b) = i \o <<b>>
  BY AppendIsConcat
<1>4. x \o (i \o <<b>>) = (x \o i) \o <<b>>
  BY <1>1
<1>5. Append(s, b) = x \o Append(i, b)
  BY <1>2, <1>3, <1>4, Zenon
<1> QED BY <1>5, AppendProperties DEF x, Adds

-----------------------------------------------------------------------------

LEMMA InitInv == Init => Inv
<1> SUFFICES ASSUME Init PROVE Inv
  OBVIOUS
<1>1. <<>> \in Seq(Nat) /\ Len(<<>>) = 0 /\ <<>> \o <<>> = <<>>
  BY EmptySeq, ConcatEmptySeq
<1>2. TypeOK
  BY <1>1, IdleAssumption, WindowAssumption DEF Init, TypeOK, Dir, Peer
<1>3. BytesConserved
  BY <1>1 DEF Init, BytesConserved
<1>4. HeldByArm /\ DoneAtEnd /\ Counted /\ Ended
  BY <1>1 DEF Init, HeldByArm, DoneAtEnd, Counted, Ended, Dir
<1> QED BY <1>2, <1>3, <1>4 DEF Inv

LEMMA NextInv == Inv /\ [Next]_vars => Inv'
<1> SUFFICES ASSUME Inv, [Next]_vars PROVE Inv'
  OBVIOUS
<1> USE IdleAssumption, WindowAssumption DEF Inv, wireVars, relayVars
<1>1. CASE Finish
  BY <1>1 DEF Finish, Close, TypeOK, HeldByArm, DoneAtEnd, Counted, Ended, BytesConserved
<1>2. CASE IdleTimeout
  BY <1>2 DEF IdleTimeout, Close, TypeOK, HeldByArm, DoneAtEnd, Counted, Ended, BytesConserved
<1>3. CASE WriteError
  BY <1>3 DEF WriteError, Close, TypeOK, HeldByArm, DoneAtEnd, Counted, Ended, BytesConserved
<1>4. ASSUME NEW d \in Dir, ReadError(d) PROVE Inv'
  BY <1>4 DEF ReadError, Close, TypeOK, HeldByArm, DoneAtEnd, Counted, Ended, BytesConserved
<1>5. ASSUME NEW d \in Dir, Read(d) PROVE Inv'
  <2>1. PICK k \in 1..BufSize : /\ k <= Len(inp[d]) /\ n' = k
                                /\ held' = [held EXCEPT ![d] = Front(inp[d], k)]
                                /\ inp' = [inp EXCEPT ![d] = Rest(inp[d], k)]
    BY <1>5 DEF Read
  <2>2. /\ inp[d] \in Seq(Nat) /\ Len(inp[d]) \in Nat /\ k \in Nat
        /\ rcvd[d] \in Seq(Nat) /\ out[d] \in Seq(Nat) /\ sent[d] \in Seq(Nat)
    BY LenProperties DEF TypeOK
  <2>3. /\ Front(inp[d], k) \in Seq(Nat) /\ Rest(inp[d], k) \in Seq(Nat)
        /\ Len(Front(inp[d], k)) = k /\ Len(Rest(inp[d], k)) = Len(inp[d]) - k
        /\ Front(inp[d], k) \o Rest(inp[d], k) = inp[d]
    BY <2>1, <2>2, CutInTwo
  <2>4. TypeOK'
    <3>1. held' \in [Dir -> Seq(Nat)] /\ inp' \in [Dir -> Seq(Nat)]
      BY <2>1, <2>3 DEF TypeOK
    <3>2. n' \in Nat /\ pc' = "write" /\ dir' \in Dir
      BY <1>5, <2>1, <2>2 DEF Read
    <3> QED BY <1>5, <3>1, <3>2, Zenon DEF Read, TypeOK
  <2>5. held[d] = <<>>
    BY <1>5 DEF HeldByArm, Read
  <2>6. /\ UNCHANGED <<sent, rcvd, out, fin, finOut, done, copied, result>>
        /\ pc = "select" /\ pc' = "write" /\ dir' = d /\ ~done[d]
        /\ held'[d] = Front(inp[d], k) /\ inp'[d] = Rest(inp[d], k)
        /\ \A e \in Dir \ {d} : held'[e] = held[e] /\ inp'[e] = inp[e]
    BY <1>5, <2>1 DEF Read, TypeOK
  <2>7. BytesConserved'
    <3>1. Adds(sent[d], rcvd[d], out[d], <<>>, Front(inp[d], k) \o Rest(inp[d], k))
      BY <2>3, <2>5, Zenon DEF BytesConserved, Adds
    <3>2. Adds(sent[d], rcvd[d], out[d], Front(inp[d], k), Rest(inp[d], k))
      BY <2>2, <2>3, <3>1, BlockRead
    <3> QED BY <2>6, <3>2, Zenon DEF BytesConserved, Adds
  <2>8. HeldByArm' /\ Ended' /\ DoneAtEnd'
    <3>1. \A e \in Dir \ {d} : held[e] = <<>>
      BY <2>6 DEF HeldByArm
    <3>2. HeldByArm'
      BY <2>6, <3>1 DEF HeldByArm
    <3>3. DoneAtEnd'
      BY <2>6 DEF DoneAtEnd
    <3> QED BY <2>6, <3>2, <3>3 DEF Ended
  <2>9. Counted'
    <3>1. \A e \in Dir : copied[e] \in Nat /\ copied[e] + 0 + Len(inp[e]) = Len(sent[e])
      BY <2>6 DEF Counted, TypeOK
    <3>2. Len(inp'[d]) = Len(inp[d]) - k
      BY <2>3, <2>6
    <3>3. copied[d] + k + Len(inp'[d]) = Len(sent[d])
      <4>1. copied[d] \in Nat /\ copied[d] + Len(inp[d]) = Len(sent[d])
        BY <2>2, <3>1
      <4> QED BY <2>2, <3>2, <4>1
    <3> QED BY <2>1, <2>6, <3>1, <3>3 DEF Counted
  <2> QED BY <2>4, <2>7, <2>8, <2>9
<1>6. ASSUME NEW d \in Dir, ReadEof(d) PROVE Inv'
  <2>1. TypeOK' /\ BytesConserved' /\ HeldByArm'
    BY <1>6 DEF ReadEof, TypeOK, BytesConserved, HeldByArm
  <2>2. DoneAtEnd' /\ Counted' /\ Ended'
    BY <1>6 DEF ReadEof, TypeOK, DoneAtEnd, Counted, Ended
  <2> QED BY <2>1, <2>2
<1>7. CASE WriteSome
  <2>1. PICK k \in 1..SendWindow :
            /\ k <= Len(held[dir]) /\ Len(out[dir]) + k <= SendWindow
            /\ out' = [out EXCEPT ![dir] = @ \o Front(held[dir], k)]
            /\ held' = [held EXCEPT ![dir] = Rest(@, k)]
            /\ IF k = Len(held[dir])
               THEN pc' = "select" /\ copied' = [copied EXCEPT ![dir] = @ + n] /\ age' = 0
               ELSE UNCHANGED <<pc, copied, age>>
    BY <1>7 DEF WriteSome
  <2>2. /\ dir \in Dir /\ k \in Nat /\ held[dir] \in Seq(Nat) /\ rcvd[dir] \in Seq(Nat)
        /\ out[dir] \in Seq(Nat) /\ inp[dir] \in Seq(Nat) /\ Len(out[dir]) \in Nat /\ sent[dir] \in Seq(Nat)
    BY LenProperties DEF TypeOK
  <2>3. /\ Front(held[dir], k) \in Seq(Nat) /\ Rest(held[dir], k) \in Seq(Nat)
        /\ Len(Front(held[dir], k)) = k /\ Len(Rest(held[dir], k)) = Len(held[dir]) - k
        /\ Front(held[dir], k) \o Rest(held[dir], k) = held[dir]
    BY <2>1, <2>2, CutInTwo
  <2>4. /\ out[dir] \o Front(held[dir], k) \in Seq(Nat)
        /\ Len(out[dir] \o Front(held[dir], k)) = Len(out[dir]) + k
    BY <2>2, <2>3, ConcatProperties
  <2>5. TypeOK'
    <3>1. held' \in [Dir -> Seq(Nat)] /\ out' \in [Dir -> Seq(Nat)]
      BY <2>1, <2>2, <2>3, <2>4 DEF TypeOK
    <3>2. \A d \in Dir : Len(out'[d]) <= SendWindow
      BY <2>1, <2>2, <2>4 DEF TypeOK
    <3>3. copied' \in [Dir -> Nat] /\ age' \in 0..Idle /\ pc' \in {"select", "write"}
      <4>1. pc = "write" /\ copied \in [Dir -> Nat] /\ n \in Nat /\ age \in 0..Idle /\ 0 \in 0..Idle
        BY <1>7 DEF TypeOK, WriteSome
      <4>2. CASE k = Len(held[dir])
        <5>1. pc' = "select" /\ age' = 0 /\ copied' = [copied EXCEPT ![dir] = copied[dir] + n]
          BY <2>1, <4>2
        <5>2. copied[dir] + n \in Nat
          BY <2>2, <4>1
        <5> QED BY <4>1, <5>1, <5>2
      <4>3. CASE k # Len(held[dir])
        BY <2>1, <4>1, <4>3
      <4> QED BY <4>2, <4>3
    <3> QED BY <1>7, <3>1, <3>2, <3>3, Zenon DEF TypeOK, WriteSome
  <2>6. /\ UNCHANGED <<sent, rcvd, inp, fin, finOut, done, n, dir, result>>
        /\ pc = "write" /\ ~done[dir]
        /\ out'[dir] = out[dir] \o Front(held[dir], k) /\ held'[dir] = Rest(held[dir], k)
        /\ \A e \in Dir \ {dir} : held'[e] = held[e] /\ out'[e] = out[e]
    BY <1>7, <2>1 DEF WriteSome, TypeOK, Ended
  <2>7. BytesConserved'
    <3>1. Adds(sent[dir], rcvd[dir], out[dir], Front(held[dir], k) \o Rest(held[dir], k), inp[dir])
      BY <2>2, <2>3, Zenon DEF BytesConserved, Adds
    <3>2. Adds(sent[dir], rcvd[dir], out[dir] \o Front(held[dir], k), Rest(held[dir], k), inp[dir])
      BY <2>2, <2>3, <3>1, PartWritten
    <3> QED BY <2>6, <3>2, Zenon DEF BytesConserved, Adds
  <2>8. CASE k = Len(held[dir])
    <3>1. /\ pc' = "select" /\ copied'[dir] = copied[dir] + n /\ held'[dir] = <<>>
          /\ \A e \in Dir \ {dir} : copied'[e] = copied[e] /\ held[e] = <<>>
      BY <2>1, <2>2, <2>3, <2>6, <2>8, EmptySeq DEF TypeOK, HeldByArm
    <3>2. HeldByArm' /\ DoneAtEnd' /\ Ended'
      BY <2>6, <3>1 DEF HeldByArm, DoneAtEnd, Ended
    <3>3. copied[dir] + n + Len(inp[dir]) = Len(sent[dir])
      BY <2>2, <2>6 DEF Counted
    <3>4. \A e \in Dir \ {dir} : copied[e] + 0 + Len(inp[e]) = Len(sent[e])
      BY <2>6 DEF Counted
    <3>5. copied'[dir] + 0 + Len(inp[dir]) = Len(sent[dir])
      BY <2>2, <3>1, <3>3, LenProperties DEF TypeOK
    <3>6. Counted'
      BY <2>6, <3>1, <3>4, <3>5 DEF Counted
    <3> QED BY <2>5, <2>7, <3>2, <3>6
  <2>9. CASE k # Len(held[dir])
    <3>1. UNCHANGED <<pc, copied>>
      BY <2>1, <2>9
    <3>2. HeldByArm' /\ DoneAtEnd' /\ Ended'
      BY <2>6, <3>1 DEF HeldByArm, DoneAtEnd, Ended
    <3>3. Counted'
      BY <2>6, <3>1 DEF Counted
    <3> QED BY <2>5, <2>7, <3>2, <3>3
  <2> QED BY <2>8, <2>9
<1>8. CASE Shutdown
  <2>1. TypeOK'
    BY <1>8 DEF Shutdown, TypeOK
  <2>2. HeldByArm' /\ Ended' /\ BytesConserved'
    BY <1>8 DEF Shutdown, HeldByArm, Ended, BytesConserved
  <2>3. Counted'
    BY <1>8 DEF Shutdown, Counted
  <2>4. DoneAtEnd'
    BY <1>8 DEF Shutdown, TypeOK, DoneAtEnd, Ended
  <2> QED BY <2>1, <2>2, <2>3, <2>4
<1>9. CASE Tick
  <2>1. age' \in 0..Idle
    BY <1>9 DEF Tick, TypeOK
  <2> QED BY <1>9, <2>1, Zenon DEF Tick, TypeOK, HeldByArm, DoneAtEnd, Counted, Ended, BytesConserved
<1>10. ASSUME NEW d \in Dir, PeerSend(d) PROVE Inv'
  <2> DEFINE b == Len(sent[d]) + 1
  <2>1. /\ sent[d] \in Seq(Nat) /\ inp[d] \in Seq(Nat) /\ rcvd[d] \in Seq(Nat) /\ out[d] \in Seq(Nat)
        /\ held[d] \in Seq(Nat) /\ b \in Nat
    BY LenProperties DEF TypeOK
  <2>2. Adds(sent[d], rcvd[d], out[d], held[d], inp[d])
    BY DEF BytesConserved, Adds
  <2>3. /\ sent' = [sent EXCEPT ![d] = Append(sent[d], b)] /\ inp' = [inp EXCEPT ![d] = Append(inp[d], b)]
        /\ UNCHANGED <<pc, dir, done, held, n, copied, age, result, fin, out, finOut, rcvd, reset>>
        /\ ~fin[d] /\ pc # "closed"
    BY <1>10 DEF PeerSend
  <2> HIDE DEF b
  <2>4. /\ Append(sent[d], b) \in Seq(Nat) /\ Len(Append(sent[d], b)) = Len(sent[d]) + 1
        /\ Append(inp[d], b) \in Seq(Nat) /\ Len(Append(inp[d], b)) = Len(inp[d]) + 1
    BY <2>1, AppendProperties
  <2>5. Adds(Append(sent[d], b), rcvd[d], out[d], held[d], Append(inp[d], b))
    BY <2>1, <2>2, ByteSent
  <2>6. TypeOK'
    <3>1. sent' \in [Dir -> Seq(Nat)] /\ inp' \in [Dir -> Seq(Nat)]
      BY <2>3, <2>4 DEF TypeOK
    <3> QED BY <2>3, <3>1, Zenon DEF TypeOK
  <2>7. BytesConserved'
    <3>1. /\ sent'[d] = Append(sent[d], b) /\ inp'[d] = Append(inp[d], b)
          /\ \A e \in Dir \ {d} : sent'[e] = sent[e] /\ inp'[e] = inp[e]
      BY <2>3 DEF TypeOK
    <3> QED BY <2>3, <2>5, <3>1, Zenon DEF BytesConserved, Adds
  <2>8. HeldByArm' /\ DoneAtEnd' /\ Ended'
    BY <2>3 DEF TypeOK, HeldByArm, DoneAtEnd, Ended
  <2>9. Counted'
    <3>1. ASSUME NEW e \in Dir
          PROVE  copied[e] + (IF pc = "write" /\ dir = e THEN n ELSE 0) + Len(inp'[e]) = Len(sent'[e])
      <4>1. /\ Len(inp[e]) \in Nat /\ Len(sent[e]) \in Nat /\ copied[e] \in Nat /\ n \in Nat
            /\ copied[e] + (IF pc = "write" /\ dir = e THEN n ELSE 0) + Len(inp[e]) = Len(sent[e])
        BY <2>3, LenProperties DEF TypeOK, Counted
      <4>2. CASE e = d
        <5>1. Len(inp'[e]) = Len(inp[e]) + 1 /\ Len(sent'[e]) = Len(sent[e]) + 1
          BY <2>3, <2>4, <4>2 DEF TypeOK
        <5> DEFINE w == IF pc = "write" /\ dir = e THEN n ELSE 0
        <5>2. /\ w \in Nat /\ copied[e] + w + Len(inp[e]) = Len(sent[e])
              /\ copied[e] \in Nat /\ Len(inp[e]) \in Nat /\ Len(sent[e]) \in Nat
          BY <4>1
        <5> HIDE DEF w
        <5>3. copied[e] + w + (Len(inp[e]) + 1) = Len(sent[e]) + 1
          BY ONLY <5>2
        <5> QED BY <5>1, <5>3 DEF w
      <4>3. CASE e # d
        BY <2>3, <4>1, <4>3 DEF TypeOK
      <4> QED BY <4>2, <4>3
    <3> QED BY <2>3, <3>1 DEF Counted
  <2> QED BY <2>6, <2>7, <2>8, <2>9
<1>11. ASSUME NEW d \in Dir, PeerFin(d) PROVE Inv'
  BY <1>11 DEF PeerFin, TypeOK, HeldByArm, DoneAtEnd, Counted, Ended, BytesConserved
<1>12. ASSUME NEW d \in Dir, PeerRecv(d) PROVE Inv'
  <2>1. /\ sent[d] \in Seq(Nat) /\ inp[d] \in Seq(Nat) /\ rcvd[d] \in Seq(Nat) /\ out[d] \in Seq(Nat)
        /\ held[d] \in Seq(Nat) /\ out[d] # <<>> /\ Len(out[d]) \in Nat
    BY <1>12, LenProperties DEF PeerRecv, TypeOK
  <2>2. Adds(sent[d], rcvd[d], out[d], held[d], inp[d])
    BY DEF BytesConserved, Adds
  <2>3. /\ Append(rcvd[d], Head(out[d])) \in Seq(Nat) /\ Tail(out[d]) \in Seq(Nat)
        /\ Len(Tail(out[d])) = Len(out[d]) - 1
        /\ Adds(sent[d], Append(rcvd[d], Head(out[d])), Tail(out[d]), held[d], inp[d])
    BY <2>1, <2>2, ByteReceived
  <2>4. /\ UNCHANGED <<sent, held, inp>>
        /\ rcvd'[d] = Append(rcvd[d], Head(out[d])) /\ out'[d] = Tail(out[d])
        /\ \A e \in Dir \ {d} : rcvd'[e] = rcvd[e] /\ out'[e] = out[e]
    BY <1>12 DEF PeerRecv, TypeOK
  <2>6. TypeOK'
    <3>1. rcvd' \in [Dir -> Seq(Nat)] /\ out' \in [Dir -> Seq(Nat)]
      BY <1>12, <2>3 DEF PeerRecv, TypeOK
    <3>2. \A e \in Dir : Len(out[e]) <= SendWindow
      BY DEF TypeOK
    <3>3. Len(out'[d]) <= SendWindow
      <4>1. Len(out'[d]) = Len(out[d]) - 1 /\ Len(out[d]) <= SendWindow /\ SendWindow \in Nat
        BY <2>3, <2>4, <3>2
      <4> QED BY <2>1, <4>1
    <3>4. \A e \in Dir : Len(out'[e]) <= SendWindow
      BY <2>4, <3>2, <3>3, Zenon
    <3> QED BY <1>12, <3>1, <3>4, Zenon DEF PeerRecv, TypeOK
  <2>7. BytesConserved'
    BY <2>3, <2>4, Zenon DEF BytesConserved, Adds
  <2>5. HeldByArm' /\ DoneAtEnd' /\ Counted' /\ Ended'
    BY <1>12 DEF PeerRecv, HeldByArm, DoneAtEnd, Counted, Ended
  <2> QED BY <2>5, <2>6, <2>7
<1>13. ASSUME NEW p \in Peer, PeerReset(p) PROVE Inv'
  BY <1>13 DEF PeerReset, TypeOK, HeldByArm, DoneAtEnd, Counted, Ended, BytesConserved
<1>14. CASE UNCHANGED vars
  BY <1>14 DEF vars, TypeOK, HeldByArm, DoneAtEnd, Counted, Ended, BytesConserved
<1> QED
  BY <1>1, <1>2, <1>3, <1>4, <1>5, <1>6, <1>7, <1>8, <1>9, <1>10, <1>11, <1>12, <1>13, <1>14
  DEF Next, RelayStep

LEMMA Invariance == Spec => []Inv
BY InitInv, NextInv, PTL DEF Spec

\* The state has its types: no window overflows and the timer stays in range.
THEOREM TypeCorrect == Spec => []TypeOK
<1>1. Inv => TypeOK
  BY DEF Inv
<1> QED BY <1>1, Invariance, PTL

\* Partial writes, half-closes and one task for both directions lose, repeat
\* and reorder no byte, whatever the sizes of the buffers and windows.
THEOREM NoByteLost == Spec => []BytesConserved
<1>1. Inv => BytesConserved
  BY DEF Inv
<1> QED BY <1>1, Invariance, PTL

\* The shutdown of a write side, and Ok with its two counts, come only after
\* everything that was sent has been written.
THEOREM EndIsLast == Spec => []EndAfterAllBytes
<1>1. Inv => EndAfterAllBytes
  <2> SUFFICES ASSUME Inv PROVE EndAfterAllBytes
    OBVIOUS
  <2>1. ASSUME NEW d \in Dir, finOut[d]
        PROVE  fin[d] /\ inp[d] = <<>> /\ sent[d] = rcvd[d] \o out[d]
    <3>1. fin[d] /\ inp[d] = <<>> /\ held[d] = <<>>
      BY <2>1 DEF Inv, DoneAtEnd, HeldByArm
    <3>2. rcvd[d] \o out[d] \in Seq(Nat)
      BY ConcatProperties DEF Inv, TypeOK
    <3>3. sent[d] = rcvd[d] \o out[d] \o <<>> \o <<>>
      BY <3>1 DEF Inv, BytesConserved
    <3> QED BY <3>1, <3>2, <3>3, ConcatEmptySeq
  <2>2. ASSUME result = "ok", NEW d \in Dir PROVE finOut[d] /\ copied[d] = Len(sent[d])
    <3>1. pc = "closed" /\ finOut[d]
      BY <2>2 DEF Inv, Ended, DoneAtEnd
    <3>2. inp[d] = <<>> /\ Len(inp[d]) = 0
      BY <2>1, <3>1, EmptySeq
    <3> QED BY <2>2, <3>1, <3>2 DEF Inv, Counted, TypeOK
  <2> QED BY <2>1, <2>2 DEF EndAfterAllBytes
<1> QED BY <1>1, Invariance, PTL
=============================================================================
