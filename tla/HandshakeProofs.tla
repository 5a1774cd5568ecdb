--------------------------- MODULE HandshakeProofs --------------------------
(***************************************************************************)
(* Proofs about module Handshake, for any hops, any streams and any sizes  *)
(* of reads and limits: how the bytes are cut into reads decides neither   *)
(* what a client is taken to ask for nor what a proxy is taken to answer,  *)
(* and both peers get exactly the bytes the other one sent to them.        *)
(***************************************************************************)
EXTENDS Handshake, SequenceTheorems, WellFoundedInduction, TLAPS

-----------------------------------------------------------------------------
(***************************************************************************)
(* Prefixes of a stream.                                                   *)
(***************************************************************************)

\* The first n bytes of a stream.
LEMMA PrefixIs ==
    ASSUME NEW T, NEW s \in Seq(T), NEW n \in 0..Len(s)
    PROVE  /\ SubSeq(s, 1, n) \in Seq(T) /\ Len(SubSeq(s, 1, n)) = n
           /\ \A i \in 1..n : SubSeq(s, 1, n)[i] = s[i]
<1>1. Len(s) \in Nat
  BY LenProperties
<1>2. n \in Int /\ \A i \in 1..n : s[i] \in T
  BY <1>1, ElementOfSeq
<1>3. /\ SubSeq(s, 1, n) \in Seq(T)
      /\ Len(SubSeq(s, 1, n)) = IF 1 <= n THEN n - 1 + 1 ELSE 0
      /\ \A i \in 1..(n - 1 + 1) : SubSeq(s, 1, n)[i] = s[1 + i - 1]
  BY <1>2, SubSeqProperties
<1> QED BY <1>1, <1>3

\* A part of a stream is a sequence of its bytes.
LEMMA PartIs ==
    ASSUME NEW T, NEW s \in Seq(T), NEW a \in Nat \ {0}, NEW b \in 0..Len(s)
    PROVE  SubSeq(s, a, b) \in Seq(T)
<1>1. Len(s) \in Nat
  BY LenProperties
<1>2. \A i \in a..b : i \in 1..Len(s)
  BY <1>1
<1>3. a \in Int /\ b \in Int /\ \A i \in a..b : s[i] \in T
  BY <1>1, <1>2, ElementOfSeq
<1> QED BY <1>3, SubSeqProperties

\* A part of a prefix is that part of the stream.
LEMMA PartOfPrefix ==
    ASSUME NEW T, NEW s \in Seq(T), NEW n \in 0..Len(s), NEW a \in Nat \ {0}, NEW b \in 0..n
    PROVE  SubSeq(SubSeq(s, 1, n), a, b) = SubSeq(s, a, b)
<1> DEFINE p == SubSeq(s, 1, n)
<1>1. Len(s) \in Nat
  BY LenProperties
<1>2. p \in Seq(T) /\ Len(p) = n /\ \A i \in 1..n : p[i] = s[i]
  BY PrefixIs
<1> HIDE DEF p
<1>3. \A i \in a..b : s[i] \in T /\ p[i] \in T /\ p[i] = s[i]
  <2> SUFFICES ASSUME NEW i \in a..b PROVE s[i] \in T /\ p[i] = s[i]
    OBVIOUS
  <2>1. i \in 1..Len(s) /\ i \in 1..n
    BY <1>1
  <2> QED BY <1>2, <2>1, ElementOfSeq
<1>4. /\ SubSeq(s, a, b) \in Seq(T) /\ SubSeq(p, a, b) \in Seq(T)
      /\ Len(SubSeq(s, a, b)) = Len(SubSeq(p, a, b))
      /\ \A i \in 1..(b - a + 1) : SubSeq(s, a, b)[i] = s[a + i - 1] /\ SubSeq(p, a, b)[i] = p[a + i - 1]
      /\ Len(SubSeq(s, a, b)) = IF a <= b THEN b - a + 1 ELSE 0
  <2>1. a \in Int /\ b \in Int
    BY <1>1
  <2> QED BY <1>3, <2>1, SubSeqProperties
<1>5. \A i \in 1..Len(SubSeq(s, a, b)) : SubSeq(s, a, b)[i] = SubSeq(p, a, b)[i]
  <2> SUFFICES ASSUME NEW i \in 1..Len(SubSeq(s, a, b)) PROVE SubSeq(s, a, b)[i] = SubSeq(p, a, b)[i]
    OBVIOUS
  <2>1. i \in 1..(b - a + 1) /\ a + i - 1 \in a..b
    BY <1>1, <1>4
  <2> QED BY <1>3, <1>4, <2>1
<1> QED BY <1>4, <1>5, SeqEqual DEF p

\* What was read and what comes next are what will have been read.
LEMMA Continued ==
    ASSUME NEW T, NEW s \in Seq(T), NEW m \in 1..(Len(s) + 1), NEW k \in (m - 1)..Len(s), NEW n \in k..Len(s)
    PROVE  SubSeq(s, m, k) \o SubSeq(s, k + 1, n) = SubSeq(s, m, n)
BY ConcatAdjacentSubSeq

-----------------------------------------------------------------------------
(***************************************************************************)
(* The end of a header.                                                    *)
(***************************************************************************)

\* The least of some numbers is one of them.
LEMMA Least ==
    ASSUME NEW S, S \subseteq Nat, S # {}
    PROVE  /\ (CHOOSE i \in S : \A j \in S : i <= j) \in S
           /\ \A k \in S : (CHOOSE i \in S : \A j \in S : i <= j) <= k
<1>1. PICK i \in S : \A j \in S : ~(<<j, i>> \in OpToRel(<, Nat))
  BY NatLessThanWellFounded, WFMin
<1>2. \A j \in S : ~(j < i)
  BY <1>1 DEF OpToRel
<1>3. \A j \in S : i <= j
  BY <1>2
<1> QED BY <1>3

\* Four bytes, one by one.
LEMMA EndsAtIs ==
    ASSUME NEW T, NEW s \in Seq(T), NEW i \in 1..(Len(s) - 3)
    PROVE  EndsAt(s, i) <=> s[i] = CR /\ s[i + 1] = LF /\ s[i + 2] = CR /\ s[i + 3] = LF
<1>1. Len(s) \in Nat
  BY LenProperties
<1>2. i \in Int /\ i + 3 \in Int /\ \A j \in i..(i + 3) : s[j] \in T
  <2> SUFFICES ASSUME NEW j \in i..(i + 3) PROVE s[j] \in T
    BY <1>1
  <2>1. j \in 1..Len(s)
    BY <1>1
  <2> QED BY <2>1, ElementOfSeq
<1>3. /\ SubSeq(s, i, i + 3) \in Seq(T)
      /\ Len(SubSeq(s, i, i + 3)) = IF i <= i + 3 THEN (i + 3) - i + 1 ELSE 0
      /\ \A j \in 1..((i + 3) - i + 1) : SubSeq(s, i, i + 3)[j] = s[i + j - 1]
  BY <1>2, SubSeqProperties
<1> DEFINE t == SubSeq(s, i, i + 3)
<1>4. /\ t \in Seq(T) /\ Len(t) = 4
      /\ t[1] = s[i] /\ t[2] = s[i + 1] /\ t[3] = s[i + 2] /\ t[4] = s[i + 3]
  <2>1. i <= i + 3 /\ (i + 3) - i + 1 = 4 /\ i + 1 - 1 = i /\ i + 2 - 1 = i + 1
        /\ i + 3 - 1 = i + 2 /\ i + 4 - 1 = i + 3
    BY <1>1
  <2>2. 1 \in 1..4 /\ 2 \in 1..4 /\ 3 \in 1..4 /\ 4 \in 1..4
    OBVIOUS
  <2> QED BY <1>3, <2>1, <2>2
<1> HIDE DEF t
<1>5. t = <<t[1], t[2], t[3], t[4]>>
  <2> DEFINE u == <<t[1], t[2], t[3], t[4]>>
  <2>1. \A j \in 1..4 : t[j] \in T
    BY <1>4, ElementOfSeq
  <2>2. u \in Seq(T) /\ Len(u) = 4
    BY <2>1
  <2>3. \A j \in 1..4 : t[j] = u[j]
    OBVIOUS
  <2> HIDE DEF u
  <2>4. t = u
    BY <1>4, <2>2, <2>3, SeqEqual
  <2> QED BY <2>4 DEF u
<1>6. EndsAt(s, i) <=> t = <<CR, LF, CR, LF>>
  BY DEF EndsAt, t
<1> QED BY <1>4, <1>5, <1>6

\* The first empty line is there if one is, and nothing before it is one.
LEMMA HeaderEndIs ==
    ASSUME NEW T, NEW s \in Seq(T)
    PROVE  /\ HeaderEnd(s) \in Nat
           /\ HeaderEnd(s) # 0 =>
                 /\ HeaderEnd(s) \in 1..(Len(s) - 3) /\ EndsAt(s, HeaderEnd(s))
                 /\ \A i \in 1..(HeaderEnd(s) - 1) : ~EndsAt(s, i)
           /\ HeaderEnd(s) = 0 => \A i \in 1..(Len(s) - 3) : ~EndsAt(s, i)
<1> DEFINE ends == {i \in 1..(Len(s) - 3) : EndsAt(s, i)}
<1>1. Len(s) \in Nat
  BY LenProperties
<1>2. CASE ends = {}
  BY <1>2 DEF HeaderEnd
<1>3. CASE ends # {}
  <2>1. ends \subseteq Nat
    BY <1>1
  <2> HIDE DEF ends
  <2>4. HeaderEnd(s) = CHOOSE e \in ends : \A j \in ends : e <= j
    BY <1>3 DEF HeaderEnd, ends
  <2>5. HeaderEnd(s) \in ends /\ \A j \in ends : HeaderEnd(s) <= j
    BY <1>3, <2>1, <2>4, Least
  <2>6. HeaderEnd(s) \in 1..(Len(s) - 3) /\ EndsAt(s, HeaderEnd(s))
    BY <2>5 DEF ends
  <2>7. ASSUME NEW i2 \in 1..(HeaderEnd(s) - 1) PROVE ~EndsAt(s, i2)
    <3>1. i2 \in 1..(Len(s) - 3) /\ ~(HeaderEnd(s) <= i2)
      BY <1>1, <2>6
    <3> QED BY <2>5, <3>1 DEF ends
  <2> QED BY <1>1, <2>6, <2>7
<1> QED BY <1>2, <1>3

\* An empty line is one in every prefix that holds it.
LEMMA EndsAtInPrefix ==
    ASSUME NEW T, NEW s \in Seq(T), NEW n \in 0..Len(s), NEW i \in 1..(n - 3)
    PROVE  EndsAt(SubSeq(s, 1, n), i) <=> EndsAt(s, i)
<1>1. Len(s) \in Nat
  BY LenProperties
<1>2. i \in Nat \ {0} /\ i + 3 \in 0..n
  BY <1>1
<1>3. SubSeq(SubSeq(s, 1, n), i, i + 3) = SubSeq(s, i, i + 3)
  BY <1>2, PartOfPrefix
<1> QED BY <1>3 DEF EndsAt

\* A prefix has the first empty line of the stream, or none.
LEMMA HeaderEndOfPrefix ==
    ASSUME NEW T, NEW s \in Seq(T), NEW n \in 0..Len(s)
    PROVE  HeaderEnd(SubSeq(s, 1, n)) =
               IF HeaderEnd(s) # 0 /\ HeaderEnd(s) + 3 <= n THEN HeaderEnd(s) ELSE 0
<1> DEFINE p == SubSeq(s, 1, n)
           e == HeaderEnd(s)
           f == HeaderEnd(p)
<1>1. Len(s) \in Nat /\ p \in Seq(T) /\ Len(p) = n
  BY LenProperties, PrefixIs
<1>2. \A i \in 1..(n - 3) : EndsAt(p, i) <=> EndsAt(s, i)
  BY EndsAtInPrefix
<1> HIDE DEF p
<1>3. /\ e \in Nat
      /\ e # 0 => e \in 1..(Len(s) - 3) /\ EndsAt(s, e) /\ \A i \in 1..(e - 1) : ~EndsAt(s, i)
      /\ e = 0 => \A i \in 1..(Len(s) - 3) : ~EndsAt(s, i)
  BY HeaderEndIs
<1>4. /\ f \in Nat
      /\ f # 0 => f \in 1..(n - 3) /\ EndsAt(p, f) /\ \A i \in 1..(f - 1) : ~EndsAt(p, i)
      /\ f = 0 => \A i \in 1..(n - 3) : ~EndsAt(p, i)
  BY <1>1, HeaderEndIs
<1> HIDE DEF e, f
<1>5. CASE f # 0
  <2>1. f \in 1..(Len(s) - 3) /\ EndsAt(s, f)
    BY <1>1, <1>2, <1>4, <1>5
  <2>2. e # 0 /\ ~(f < e)
    BY <1>1, <1>3, <2>1
  <2>3. ~(e < f)
    <3> SUFFICES ASSUME e < f PROVE FALSE
      OBVIOUS
    <3>1. e \in 1..(n - 3) /\ e \in 1..(f - 1)
      BY <1>1, <1>3, <1>4, <1>5, <2>2
    <3> QED BY <1>2, <1>3, <1>4, <1>5, <2>2, <3>1
  <2> QED BY <1>1, <1>3, <1>4, <1>5, <2>2, <2>3 DEF e, f, p
<1>6. CASE f = 0
  <2>1. e # 0 => ~(e \in 1..(n - 3))
    BY <1>2, <1>3, <1>4, <1>6
  <2>2. ~(e # 0 /\ e + 3 <= n)
    BY <1>1, <1>3, <2>1
  <2> QED BY <1>6, <2>2 DEF e, f, p
<1> QED BY <1>5, <1>6

\* The header is that of the whole stream.
LEMMA HeaderOfPrefix ==
    ASSUME NEW T, NEW s \in Seq(T), NEW n \in 0..Len(s), HeaderEnd(SubSeq(s, 1, n)) # 0
    PROVE  HeaderOf(SubSeq(s, 1, n)) = HeaderOf(s)
<1>1. Len(s) \in Nat /\ HeaderEnd(s) \in Nat
  BY LenProperties, HeaderEndIs
<1>2. HeaderEnd(s) # 0 /\ HeaderEnd(s) + 3 <= n /\ HeaderEnd(SubSeq(s, 1, n)) = HeaderEnd(s)
  BY HeaderEndOfPrefix
<1>3. 1 \in Nat \ {0} /\ HeaderEnd(s) - 1 \in 0..n
  BY <1>1, <1>2
<1>4. SubSeq(SubSeq(s, 1, n), 1, HeaderEnd(s) - 1) = SubSeq(s, 1, HeaderEnd(s) - 1)
  BY <1>3, PartOfPrefix
<1> QED BY <1>2, <1>4 DEF HeaderOf

\* The answer to CONNECT is the header and its empty line, if it says 200.
LEMMA HttpLengthIs ==
    ASSUME NEW T, NEW s \in Seq(T)
    PROVE  HttpLength(s) = IF HeaderEnd(s) # 0 /\ StatusOk(HeaderOf(s)) THEN HeaderEnd(s) + 3 ELSE 0
<1> DEFINE e == HeaderEnd(s)
           empty == {n \in 4..Len(s) : EndsAt(s, n - 3)}
           least == CHOOSE n \in empty : \A j \in empty : n <= j
<1>1. Len(s) \in Nat
  BY LenProperties
<1>2. /\ e \in Nat
      /\ e # 0 => e \in 1..(Len(s) - 3) /\ EndsAt(s, e) /\ \A i \in 1..(e - 1) : ~EndsAt(s, i)
      /\ e = 0 => \A i \in 1..(Len(s) - 3) : ~EndsAt(s, i)
  BY HeaderEndIs
<1> HIDE DEF e
<1>3. HttpLength(s) = IF empty # {} /\ s[1] = "200" /\ \A i \in 1..least : s[i] # NotUtf8
                      THEN least ELSE 0
  BY DEF HttpLength
<1>4. CASE e = 0
  <2>1. empty = {}
    <3> SUFFICES ASSUME NEW n \in 4..Len(s), EndsAt(s, n - 3) PROVE FALSE
      OBVIOUS
    <3>1. n - 3 \in 1..(Len(s) - 3)
      BY <1>1
    <3> QED BY <1>2, <1>4, <3>1
  <2> QED BY <1>3, <1>4, <2>1 DEF e
<1>5. CASE e # 0
  <2>1. e + 3 \in empty
    <3>1. e + 3 \in 4..Len(s) /\ (e + 3) - 3 = e
      BY <1>1, <1>2, <1>5
    <3> QED BY <1>2, <1>5, <3>1
  <2>2. ASSUME NEW j \in empty PROVE j \in Nat /\ e + 3 <= j
    <3>1. j \in Nat /\ j - 3 \in 1..(Len(s) - 3) /\ EndsAt(s, j - 3)
      BY <1>1
    <3>2. ~(j - 3 < e)
      BY <1>1, <1>2, <1>5, <3>1
    <3> QED BY <1>2, <3>1, <3>2
  <2> HIDE DEF empty
  <2>3. least \in empty /\ \A j \in empty : least <= j
    BY <2>1, <2>2
  <2>4. least = e + 3
    <3>1. least \in Nat /\ e + 3 <= least /\ least <= e + 3
      BY <2>1, <2>2, <2>3
    <3> QED BY <1>2, <3>1
  <2> HIDE DEF least
  <2> DEFINE head == SubSeq(s, 1, e - 1)
  <2>5. head = HeaderOf(s)
    BY DEF HeaderOf, e
  <2>6. /\ head \in Seq(T) /\ Len(head) = e - 1 /\ DOMAIN head = 1..(e - 1)
        /\ \A i \in 1..(e - 1) : head[i] = s[i]
    <3>1. e - 1 \in 0..Len(s)
      BY <1>1, <1>2, <1>5
    <3>2. head \in Seq(T) /\ Len(head) = e - 1 /\ \A i \in 1..(e - 1) : head[i] = s[i]
      BY <3>1, PrefixIs
    <3> QED BY <3>2, LenProperties
  <2> HIDE DEF head
  <2>7. s[e] = CR /\ s[e + 1] = LF /\ s[e + 2] = CR /\ s[e + 3] = LF
    BY <1>2, <1>5, EndsAtIs
  <2>8. (\A i \in 1..(e + 3) : s[i] # NotUtf8) <=> ~Has(head, NotUtf8)
    <3>1. \A i \in 1..(e + 3) : i \in 1..(e - 1) \/ i = e \/ i = e + 1 \/ i = e + 2 \/ i = e + 3
      BY <1>2, <1>5
    <3>2. \A i \in 1..(e - 1) : i \in 1..(e + 3)
      BY <1>2, <1>5
    <3>3. CR # NotUtf8 /\ LF # NotUtf8
      BY DEF CR, LF, NotUtf8
    <3>4. Has(head, NotUtf8) <=> \E i \in 1..(e - 1) : s[i] = NotUtf8
      BY <2>6 DEF Has
    <3> HIDE DEF CR, LF, NotUtf8
    <3> QED BY <2>7, <3>1, <3>2, <3>3, <3>4
  <2>9. s[1] = "200" <=> head # <<>> /\ head[1] = "200"
    <3>1. CASE e = 1
      <4>1. s[1] = CR /\ Len(head) = 0
        BY <2>6, <2>7, <3>1
      <4>2. head = <<>>
        BY <2>6, <4>1, EmptySeq
      <4> QED BY <4>1, <4>2 DEF CR
    <3>2. CASE e # 1
      <4>1. 1 \in 1..(e - 1) /\ Len(head) # 0
        BY <1>2, <1>5, <2>6, <3>2
      <4>2. head # <<>>
        BY <4>1, EmptySeq
      <4> QED BY <2>6, <4>1, <4>2
    <3> QED BY <3>1, <3>2
  <2>10. HttpLength(s) = IF s[1] = "200" /\ \A i \in 1..(e + 3) : s[i] # NotUtf8 THEN e + 3 ELSE 0
    BY <1>3, <2>1, <2>4
  <2>11. StatusOk(head) <=> head # <<>> /\ ~Has(head, NotUtf8) /\ head[1] = "200"
    BY DEF StatusOk
  <2>12. HttpLength(s) = IF StatusOk(head) THEN e + 3 ELSE 0
    BY <2>8, <2>9, <2>10, <2>11
  <2> QED BY <1>5, <2>5, <2>12 DEF e
<1> QED BY <1>4, <1>5

-----------------------------------------------------------------------------
(***************************************************************************)
(* What the first bytes say.                                               *)
(***************************************************************************)

\* What a header says does not change with the bytes behind it.
LEMMA HttpSaysOnce ==
    ASSUME NEW T, NEW s \in Seq(T), NEW n \in 0..Len(s), HttpSays(SubSeq(s, 1, n)) # More
    PROVE  HttpSays(s) = HttpSays(SubSeq(s, 1, n))
<1> DEFINE p == SubSeq(s, 1, n)
<1>1. HeaderEnd(p) # 0
  BY DEF HttpSays
<1>2. HeaderOf(p) = HeaderOf(s) /\ HeaderEnd(s) # 0
  BY <1>1, HeaderOfPrefix, HeaderEndOfPrefix
<1> HIDE DEF p
<1>3. ParseHost(p) = ParseHost(s)
  BY <1>2 DEF ParseHost
<1> QED BY <1>1, <1>2, <1>3 DEF HttpSays, p

\* A complete block stays what it is.
LEMMA RecordStays ==
    ASSUME NEW s \in Seq(Nat), NEW n \in 5..Len(s), After(SubSeq(s, 1, n), 4, 2) # 0
    PROVE  /\ After(s, 4, 2) = After(SubSeq(s, 1, n), 4, 2)
           /\ SubSeq(s, 6, After(s, 4, 2) - 1) = SubSeq(SubSeq(s, 1, n), 6, After(s, 4, 2) - 1)
<1> DEFINE p == SubSeq(s, 1, n)
           next == 4 + 2 + (256 * s[4] + s[5])
<1>1. Len(s) \in Nat /\ n \in 0..Len(s)
  BY LenProperties
<1>2. Len(p) = n /\ p[4] = s[4] /\ p[5] = s[5]
  <2>1. 4 \in 1..n /\ 5 \in 1..n
    BY <1>1
  <2> QED BY <1>1, <2>1, PrefixIs
<1>3. s[4] \in Nat /\ s[5] \in Nat
  <2>1. 4 \in 1..Len(s) /\ 5 \in 1..Len(s)
    BY <1>1
  <2> QED BY <2>1, ElementOfSeq
<1>4. next \in Nat /\ next >= 6
  <2>1. \A a, b \in Nat : 4 + 2 + (256 * a + b) \in Nat /\ 4 + 2 + (256 * a + b) >= 6
    OBVIOUS
  <2> QED BY <1>3, <2>1
<1> HIDE DEF p
<1>5. Number(s, 4, 2) = 256 * s[4] + s[5] /\ Number(p, 4, 2) = 256 * s[4] + s[5]
  <2>1. 4 + 1 = 5 /\ 2 # 1
    OBVIOUS
  <2> QED BY <1>2, <2>1 DEF Number, U16
<1>6. /\ After(s, 4, 2) = IF next - 1 > Len(s) THEN 0 ELSE next
      /\ After(p, 4, 2) = IF next - 1 > n THEN 0 ELSE next
  <2>1. 4 # 0 /\ ~(4 + 2 - 1 > Len(s)) /\ ~(4 + 2 - 1 > n)
    BY <1>1
  <2> HIDE DEF next
  <2>2. 4 + 2 + Number(s, 4, 2) = next /\ 4 + 2 + Number(p, 4, 2) = next
    BY <1>5 DEF next
  <2> QED BY <1>2, <2>1, <2>2 DEF After
<1> HIDE DEF next
<1>7. next - 1 <= n /\ After(s, 4, 2) = next /\ After(p, 4, 2) = next
  BY <1>1, <1>4, <1>6 DEF p
<1>8. SubSeq(p, 6, next - 1) = SubSeq(s, 6, next - 1)
  <2>1. 6 \in Nat \ {0} /\ next - 1 \in 0..n
    BY <1>1, <1>4, <1>7
  <2> QED BY <1>1, <2>1, PartOfPrefix DEF p
<1> QED BY <1>7, <1>8 DEF p

\* What a ClientHello says does not change with the bytes behind it.
LEMMA HelloParsedOnce ==
    ASSUME NEW s \in Seq(Nat), NEW n \in 0..Len(s), ParseTlsSni(SubSeq(s, 1, n)) # NeedMore
    PROVE  ParseTlsSni(s) = ParseTlsSni(SubSeq(s, 1, n))
<1> DEFINE p == SubSeq(s, 1, n)
<1>1. Len(s) \in Nat /\ Len(p) = n /\ \A i \in 1..n : p[i] = s[i]
  BY LenProperties, PrefixIs
<1>2. ~(Len(p) < 5)
  BY DEF ParseTlsSni
<1>3. n \in 5..Len(s) /\ ~(Len(s) < 5) /\ p[1] = s[1]
  BY <1>1, <1>2
<1> HIDE DEF p
<1>4. CASE s[1] # 22
  BY <1>2, <1>3, <1>4 DEF ParseTlsSni, p
<1>5. CASE s[1] = 22
  <2>1. After(p, 4, 2) # 0
    BY <1>2, <1>3, <1>5 DEF ParseTlsSni, p
  <2>2. After(s, 4, 2) = After(p, 4, 2) /\ SubSeq(s, 6, After(s, 4, 2) - 1) = SubSeq(p, 6, After(p, 4, 2) - 1)
    BY <1>3, <2>1, RecordStays DEF p
  <2> DEFINE record == SubSeq(p, 6, After(p, 4, 2) - 1)
  <2>3. ParseTlsSni(p) = ParseRecord(record)
    BY <1>2, <1>3, <1>5, <2>1 DEF ParseTlsSni
  <2>4. ParseTlsSni(s) = ParseRecord(record)
    BY <1>3, <1>5, <2>1, <2>2 DEF ParseTlsSni
  <2> QED BY <2>3, <2>4 DEF p
<1> QED BY <1>4, <1>5

\* What is said once is said from then on, however many bytes are read at once.
LEMMA SaidOnce ==
    ASSUME NEW p \in {"http", "https"}, NEW s \in ClientStreams[p],
           NEW n \in 0..Len(s), NEW k \in 0..n, Says(p, SubSeq(s, 1, k)) # More
    PROVE  Says(p, SubSeq(s, 1, n)) = Says(p, SubSeq(s, 1, k))
<1> DEFINE long == SubSeq(s, 1, n)
           short == SubSeq(s, 1, k)
           T == IF p = "http" THEN {s[i] : i \in DOMAIN s} ELSE Nat
<1>1. s \in Seq(T)
  BY StreamsAssumption DEF IsStream
<1> HIDE DEF T
<1>2. long \in Seq(T) /\ Len(long) = n /\ Len(s) \in Nat
  BY <1>1, PrefixIs, LenProperties
<1>3. short = SubSeq(long, 1, k) /\ k \in 0..Len(long)
  <2>1. 1 \in Nat \ {0}
    OBVIOUS
  <2> QED BY <1>1, <1>2, <2>1, PartOfPrefix
<1> HIDE DEF long, short
<1>4. CASE p = "http"
  <2>1. HttpSays(short) # More
    BY <1>4 DEF Says, short
  <2>2. HttpSays(long) = HttpSays(short)
    BY <1>2, <1>3, <2>1, HttpSaysOnce
  <2> QED BY <1>4, <2>2 DEF Says, long, short
<1>5. CASE p = "https"
  <2>1. long \in Seq(Nat) /\ HttpsSays(short) # More
    BY <1>2, <1>5 DEF Says, short, T
  <2>2. ParseTlsSni(short) # NeedMore
    BY <2>1 DEF HttpsSays, NeedMore
  <2>3. ParseTlsSni(long) = ParseTlsSni(short)
    BY <1>3, <2>1, <2>2, HelloParsedOnce
  <2>4. HttpsSays(long) = HttpsSays(short)
    BY <2>3 DEF HttpsSays
  <2> QED BY <1>5, <2>4 DEF Says, long, short
<1> QED BY <1>4, <1>5

-----------------------------------------------------------------------------
(***************************************************************************)
(* The inductive invariant.                                                *)
(***************************************************************************)

Limit == IF protocol = "http" THEN MaxHeader ELSE MaxHello

\* Until the first bytes are sent on, they are all that was read of the client,
\* and nothing has gone to the client; while the handler reads on, they have
\* said nothing yet and are not too many.
ClientSide ==
    /\ stage \notin {"tunnel", "end"} => initial = SubSeq(client, 1, cpos) /\ toClient = <<>>
    /\ stage = "first" =>
          /\ Says(protocol, initial) = More /\ Len(initial) <= Limit
          /\ verdict = "none" /\ target = NoTarget

\* There is a hop, and what it sends is what a proxy of its kind may send.
HopSide ==
    /\ reply = <<>> \/ (Hops # <<>> /\ reply \in Replies[Judged.kind])
    /\ stage \in HopStage => Hops # <<>>
    /\ (stage \in {"initial", "tunnel"} \cup (HopStage \ {"dial"}) \/ verdict # "none") =>
          Hops # <<>> /\ reply \in Replies[Judged.kind]
    /\ stage \in HopStage \ {"dial"} => dialled = hop /\ verdict = "none"
    /\ stage = "tls" => Judged.kind = "https"
    /\ stage = "reply" => Judged.kind \in {"http", "https"}
    /\ stage \in {"method", "auth", "head", "len", "skip"} => Judged.kind = "socks5"
    /\ stage \in {"initial", "tunnel"} => verdict = "accepted"

\* The server has chosen no authentication, or has let the user in, with its
\* first n bytes.
Consents(user, s, n) ==
    \/ n = 2 /\ s[1] = 5 /\ s[2] = 0
    \/ n = 4 /\ user /\ s[1] = 5 /\ s[2] = 2 /\ s[3] = 1 /\ s[4] = 0

\* It has also granted the connection.
Grants(user, s, n) == Consents(user, s, n) /\ s[n + 1] = 5 /\ s[n + 2] = 0

\* The address that ends a SOCKS5 answer is read up to pos, need bytes are left.
AddressAt(n) ==
    \/ reply[n + 4] = 1 /\ pos = n + 4 /\ need = 6
    \/ reply[n + 4] = 4 /\ pos = n + 4 /\ need = 18
    \/ reply[n + 4] = 3 /\ pos = n + 5 /\ need = reply[n + 5] + 2

\* The bytes of the hop.
Sent == {reply[i] : i \in DOMAIN reply}

\* How far the handshake is: what has been read of the answer, and what it said.
Exchange ==
    /\ stage = "tls" => pos = 0
    /\ stage = "reply" => HeaderEnd(SubSeq(reply, 1, pos)) = 0 /\ pos <= MaxHeader
    /\ stage = "method" => pos = 0 /\ need = 2
    /\ stage = "auth" => pos = 2 /\ need = 2 /\ Judged.user /\ reply[1] = 5 /\ reply[2] = 2
    /\ stage = "head" => pos \in {2, 4} /\ need = 4 /\ Consents(Judged.user, reply, pos)
    /\ stage = "len" =>
          \E n \in {2, 4} : /\ pos = n + 4 /\ need = 1
                            /\ Grants(Judged.user, reply, n) /\ reply[n + 4] = 3
    /\ stage = "skip" => \E n \in {2, 4} : Grants(Judged.user, reply, n) /\ AddressAt(n)
    /\ stage \in {"initial", "tunnel"} => {toClient, prefix} \subseteq Seq(Sent)

HandshakeInv ==
    /\ TypeOK
    /\ ClientSide
    /\ HopSide
    /\ Exchange
    /\ TargetRight
    /\ StreamsExact
    /\ VerdictRight

-----------------------------------------------------------------------------
(***************************************************************************)
(* What a SOCKS5 answer is.                                                *)
(***************************************************************************)

\* Two bytes and four bytes, one by one.
LEMMA TwoBytes ==
    ASSUME NEW s \in Seq(Nat), Len(s) >= 2
    PROVE  SubSeq(s, 1, 2) = <<s[1], s[2]>>
<1> DEFINE t == SubSeq(s, 1, 2)
           u == <<s[1], s[2]>>
<1>1. Len(s) \in Nat
  BY LenProperties
<1>2. 2 \in 0..Len(s) /\ 1 \in 1..Len(s) /\ 2 \in 1..Len(s)
  BY <1>1
<1>3. t \in Seq(Nat) /\ Len(t) = 2 /\ \A i \in 1..2 : t[i] = s[i]
  BY <1>2, PrefixIs
<1>4. s[1] \in Nat /\ s[2] \in Nat
  BY <1>2, ElementOfSeq
<1>5. u \in Seq(Nat) /\ Len(u) = 2 /\ \A i \in 1..2 : u[i] = s[i]
  BY <1>4
<1> HIDE DEF t, u
<1>6. Len(t) = Len(u) /\ \A i \in 1..Len(t) : t[i] = u[i]
  BY <1>3, <1>5
<1>7. t = u
  BY <1>3, <1>5, <1>6, SeqEqual
<1> QED BY <1>7 DEF t, u

LEMMA FourBytes ==
    ASSUME NEW s \in Seq(Nat), Len(s) >= 4
    PROVE  SubSeq(s, 1, 4) = <<s[1], s[2], s[3], s[4]>>
<1> DEFINE t == SubSeq(s, 1, 4)
           u == <<s[1], s[2], s[3], s[4]>>
<1>1. Len(s) \in Nat
  BY LenProperties
<1>2. 4 \in 0..Len(s) /\ \A i \in 1..4 : i \in 1..Len(s)
  BY <1>1
<1>3. t \in Seq(Nat) /\ Len(t) = 4 /\ \A i \in 1..4 : t[i] = s[i]
  BY <1>2, PrefixIs
<1>4. s[1] \in Nat /\ s[2] \in Nat /\ s[3] \in Nat /\ s[4] \in Nat
  BY <1>2, ElementOfSeq
<1>5. u \in Seq(Nat) /\ Len(u) = 4 /\ \A i \in 1..4 : u[i] = s[i]
  BY <1>4
<1> HIDE DEF t, u
<1>6. Len(t) = Len(u) /\ \A i \in 1..Len(t) : t[i] = u[i]
  BY <1>3, <1>5
<1>7. t = u
  BY <1>3, <1>5, <1>6, SeqEqual
<1> QED BY <1>7 DEF t, u

\* How long an answer is by its address, n bytes after the beginning.
Reach(s, n) ==
    IF Len(s) < n + 5 THEN 0
    ELSE CASE s[n + 4] = 1 -> n + 10
           [] s[n + 4] = 4 -> n + 22
           [] s[n + 4] = 3 -> n + 7 + s[n + 5]
           [] OTHER -> 0

\* A server that consents is judged by what follows.
LEMMA SocksLengthIs ==
    ASSUME NEW user, NEW s \in Seq(Nat), NEW n \in {2, 4}, Len(s) >= n, Consents(user, s, n)
    PROVE  SocksLength(user, s) =
               IF Reach(s, n) \in 1..Len(s) /\ s[n + 1] = 5 /\ s[n + 2] = 0 THEN Reach(s, n) ELSE 0
<1> DEFINE authed == user /\ Len(s) >= 4 /\ SubSeq(s, 1, 4) = <<5, 2, 1, 0>>
           open == Len(s) >= 2 /\ SubSeq(s, 1, 2) = <<5, 0>>
           at == IF authed THEN 4 ELSE 2
<1>1. Len(s) \in Nat
  BY LenProperties
<1>2. SocksLength(user, s) =
          IF (authed \/ open) /\ Reach(s, at) \in 1..Len(s) /\ s[at + 1] = 5 /\ s[at + 2] = 0
          THEN Reach(s, at) ELSE 0
  BY DEF SocksLength, Reach
<1>3. CASE n = 2
  <2>1. s[1] = 5 /\ s[2] = 0 /\ Len(s) >= 2
    BY <1>3 DEF Consents
  <2>2. open
    BY <2>1, TwoBytes
  <2>3. ~authed
    BY <2>1, FourBytes
  <2> HIDE DEF authed, open
  <2> QED BY <1>2, <1>3, <2>2, <2>3
<1>4. CASE n = 4
  <2>1. user /\ s[1] = 5 /\ s[2] = 2 /\ s[3] = 1 /\ s[4] = 0 /\ Len(s) >= 4
    BY <1>4 DEF Consents
  <2>2. authed
    BY <2>1, FourBytes
  <2> HIDE DEF authed, open
  <2> QED BY <1>2, <1>4, <2>2
<1> QED BY <1>3, <1>4

\* A server that does not consent has no answer.
LEMMA SocksLengthNot ==
    ASSUME NEW user, NEW s \in Seq(Nat),
           \A n \in {2, 4} : ~(Len(s) >= n /\ Consents(user, s, n))
    PROVE  SocksLength(user, s) = 0
<1>1. ~(Len(s) >= 4 /\ user /\ SubSeq(s, 1, 4) = <<5, 2, 1, 0>>)
  BY FourBytes DEF Consents
<1>2. ~(Len(s) >= 2 /\ SubSeq(s, 1, 2) = <<5, 0>>)
  BY TwoBytes DEF Consents
<1> QED BY <1>1, <1>2 DEF SocksLength

-----------------------------------------------------------------------------
(***************************************************************************)
(* What the client's first bytes are taken to mean.                        *)
(***************************************************************************)

\* A header names a host or is unusable.
LEMMA ParseHostIs ==
    ASSUME NEW T, NEW buf \in Seq(T), HeaderEnd(buf) # 0
    PROVE  ParseHost(buf) \in Host \cup {Bad}
<1> DEFINE head == HeaderOf(buf)
           places == {i \in 3..Len(head) : head[i - 1] = LF /\ head[i - 2] = CR
                                            /\ head[i] \in Host \cup {"badHost"}}
           first == CHOOSE i \in places : \A j \in places : i <= j
<1>1. Len(head) \in Nat
  <2>1. HeaderEnd(buf) - 1 \in 0..Len(buf)
    BY HeaderEndIs, LenProperties
  <2>2. Len(SubSeq(buf, 1, HeaderEnd(buf) - 1)) = HeaderEnd(buf) - 1
    BY <2>1, PrefixIs
  <2> QED BY <2>1, <2>2, LenProperties DEF HeaderOf
<1> HIDE DEF head
<1>2. places # {} => head[first] \in Host \cup {"badHost"}
  <2>1. places \subseteq Nat
    BY <1>1
  <2>2. places # {} => first \in places
    BY <2>1, Least
  <2> QED BY <2>2
<1>3. ParseHost(buf) = IF Has(head, NotUtf8) \/ places = {} THEN Bad
                       ELSE IF head[first] = "badHost" THEN Bad ELSE head[first]
  BY DEF ParseHost, head
<1> HIDE DEF places, first
<1> QED BY <1>2, <1>3

\* Before the message is complete its bytes say nothing, then what is meant.
LEMMA MeantIsSaid ==
    ASSUME NEW p \in {"http", "https"}, NEW s \in ClientStreams[p], NEW n \in 0..Len(s)
    PROVE  /\ Meant[p][s].host = NoTarget => Says(p, SubSeq(s, 1, n)) \notin Host
           /\ Meant[p][s].host # NoTarget =>
                 /\ Meant[p][s].host \in Host /\ Meant[p][s].length \in 1..Len(s)
                 /\ Says(p, SubSeq(s, 1, n)) =
                       IF n < Meant[p][s].length THEN More ELSE Meant[p][s].host
<1> DEFINE host == Meant[p][s].host
           length == Meant[p][s].length
           Said(k) == Says(p, SubSeq(s, 1, k))
<1>1. /\ host = NoTarget => Says(p, s) \notin Host
      /\ host # NoTarget => /\ host \in Host /\ length \in 1..Len(s)
                            /\ Said(length) = host /\ Said(length - 1) = More
  BY MeantAssumption
<1>2. PICK T : s \in Seq(T)
  BY StreamsAssumption DEF IsStream
<1>3. Len(s) \in Nat /\ SubSeq(s, 1, Len(s)) = s
  BY <1>2, LenProperties, SubSeqFull
<1>4. \A k, l \in 0..Len(s) : (k <= l /\ Said(k) # More) => Said(l) = Said(k)
  <2> SUFFICES ASSUME NEW k \in 0..Len(s), NEW l \in 0..Len(s), k <= l, Said(k) # More
               PROVE  Said(l) = Said(k)
    OBVIOUS
  <2>1. k \in 0..l
    BY <1>3
  <2> QED BY <2>1, SaidOnce
<1>5. Says(p, s) = Said(Len(s)) /\ n <= Len(s) /\ Len(s) \in 0..Len(s)
  <2>1. Says(p, s) = Said(Len(s))
    BY <1>3, Zenon
  <2>2. n <= Len(s) /\ Len(s) \in 0..Len(s)
    BY <1>3
  <2> QED BY <2>1, <2>2
<1> HIDE DEF host, length, Said
<1>6. More \notin Host
  BY HostAssumption
<1>7. CASE host = NoTarget
  <2>1. Said(n) \in Host => Said(Len(s)) = Said(n)
    BY <1>4, <1>5, <1>6
  <2> QED BY <1>1, <1>5, <1>7, <2>1 DEF host, Said
<1>8. CASE host # NoTarget
  <2>1. length \in 0..Len(s) /\ length - 1 \in 0..Len(s)
    BY <1>1, <1>3, <1>8
  <2>2. n < length => n <= length - 1
    BY <1>3, <2>1
  <2>3. n < length => Said(n) = More
    BY <1>1, <1>4, <1>8, <2>1, <2>2
  <2>4. ~(n < length) => length <= n
    BY <1>3, <2>1
  <2>5. ~(n < length) => Said(n) = host
    BY <1>1, <1>4, <1>6, <1>8, <2>1, <2>4
  <2> QED BY <1>1, <1>8, <2>3, <2>5 DEF host, length, Said
<1> QED BY <1>7, <1>8

-----------------------------------------------------------------------------
(***************************************************************************)
(* Streams and what they say.                                              *)
(***************************************************************************)

\* Both streams are sequences, and so is what was read of them.
LEMMA Streams ==
    ASSUME HandshakeInv
    PROVE  /\ \E T : client \in Seq(T)
           /\ reply \in Seq(Sent)
           /\ Len(client) \in Nat /\ cpos \in 0..Len(client)
           /\ Len(reply) \in Nat /\ pos \in 0..Len(reply)
<1>1. protocol \in {"http", "https"} /\ client \in ClientStreams[protocol]
      /\ cpos \in 0..Len(client) /\ pos \in 0..Len(reply)
  BY DEF HandshakeInv, TypeOK
<1>2. \E T : client \in Seq(T)
  <2>1. CASE protocol = "http"
    BY <1>1, <2>1, StreamsAssumption DEF IsStream
  <2>2. CASE protocol = "https"
    BY <1>1, <2>2, StreamsAssumption
  <2> QED BY <1>1, <2>1, <2>2
<1>3. \E T : reply \in Seq(T)
  <2>1. CASE reply = <<>>
    <3>1. reply \in Seq(Nat)
      BY <2>1, EmptySeq
    <3> QED BY <3>1
  <2>2. CASE reply # <<>>
    <3>1. Hops # <<>> /\ reply \in Replies[Judged.kind]
      BY <2>2 DEF HandshakeInv, HopSide
    <3>2. Judged.kind \in Kind
      <4>1. dialled \in 1..Len(Hops)
        <5>1. Len(Hops) \in Nat \ {0}
          BY <3>1, HopsAssumption, EmptySeq
        <5> QED BY <5>1 DEF HandshakeInv, TypeOK
      <4>2. Hops[dialled] \in [kind : Kind, user : BOOLEAN, longUser : BOOLEAN]
        BY <4>1, HopsAssumption, ElementOfSeq
      <4> QED BY <4>2 DEF Judged
    <3>3. CASE Judged.kind = "socks5"
      <4>1. reply \in Seq(Nat)
        BY <3>1, <3>3, StreamsAssumption
      <4> QED BY <4>1
    <3>4. CASE Judged.kind \in {"http", "https"}
      <4>1. IsStream(reply)
        BY <3>1, <3>4, StreamsAssumption
      <4> QED BY <4>1 DEF IsStream
    <3> QED BY <3>2, <3>3, <3>4 DEF Kind
  <2> QED BY <2>1, <2>2
<1>4. Len(client) \in Nat /\ Len(reply) \in Nat
  BY <1>2, <1>3, LenProperties
<1>5. reply \in Seq(Sent)
  <2>1. PICK T : reply \in Seq(T)
    BY <1>3
  <2>2. Len(reply) \in Nat /\ DOMAIN reply = 1..Len(reply) /\ reply \in [1..Len(reply) -> T]
    BY <2>1, LenProperties
  <2>3. reply \in [1..Len(reply) -> Sent]
    BY <2>2 DEF Sent
  <2> QED BY <2>2, <2>3, SeqDef
<1> QED BY <1>1, <1>2, <1>4, <1>5

\* A read adds at least one byte and at most a chunk to bytes within the limit.
LEMMA ReadFirstBounds ==
    ASSUME HandshakeInv, ReadFirst
    PROVE  /\ cpos \in Nat /\ cpos' \in 0..Len(client) /\ cpos < cpos' /\ cpos' <= cpos + ChunkSize
           /\ initial' = SubSeq(client, 1, cpos')
           /\ initial = SubSeq(client, 1, cpos) /\ Len(initial') = cpos' /\ cpos <= Limit
           /\ Says(protocol, initial) = More
<1>1. PICK T : client \in Seq(T)
  BY Streams
<1>2. Len(client) \in Nat /\ cpos \in 0..Len(client) /\ ChunkSize \in Nat
  BY Streams, SizesAssumption
<1>3. PICK k \in 1..ChunkSize : Chunk(client, cpos, k) /\ cpos' = cpos + k
  BY DEF ReadFirst
<1>4. cpos' \in 0..Len(client) /\ cpos < cpos' /\ cpos' <= cpos + ChunkSize
  BY <1>2, <1>3 DEF Chunk
<1>5. /\ initial' = SubSeq(client, 1, cpos') /\ initial = SubSeq(client, 1, cpos)
      /\ Says(protocol, initial) = More /\ Len(initial) <= Limit
  BY DEF ReadFirst, HandshakeInv, ClientSide
<1>6. Len(SubSeq(client, 1, cpos')) = cpos' /\ Len(SubSeq(client, 1, cpos)) = cpos
  BY <1>1, <1>2, <1>4, PrefixIs
<1>7. cpos <= Limit
  BY <1>5, <1>6
<1>8. Len(initial') = cpos'
  BY <1>5, <1>6
<1>9. cpos \in Nat
  BY <1>2
<1> QED BY <1>4, <1>5, <1>7, <1>8, <1>9, Zenon

\* What the handler makes of the bytes a read leaves it with.
LEMMA FirstIs ==
    ASSUME HandshakeInv, ReadFirst
    PROVE  LET meant == Meant[protocol][client]
           IN  /\ First(initial') = More => Says(protocol, initial') = More /\ Len(initial') <= Limit
               /\ First(initial') \in Host => First(initial') = meant.host
               /\ meant.host # NoTarget =>
                     /\ cpos < meant.length
                     /\ First(initial') = More => cpos' < meant.length
                     /\ First(initial') = Bad =>
                           IF protocol = "http" THEN meant.length > MaxHeader + 1
                                                ELSE meant.length + ChunkSize > MaxHello + 1
<1> DEFINE host == Meant[protocol][client].host
           length == Meant[protocol][client].length
           buf == SubSeq(client, 1, cpos')
           says == Says(protocol, buf)
<1>1. PICK T : client \in Seq(T)
  BY Streams
<1>2. /\ Len(client) \in Nat /\ cpos \in 0..Len(client) /\ cpos' \in 0..Len(client)
      /\ {MaxHeader, MaxHello, ChunkSize} \subseteq Nat
  BY Streams, ReadFirstBounds, SizesAssumption
<1>3. protocol \in {"http", "https"} /\ client \in ClientStreams[protocol]
  BY DEF HandshakeInv, TypeOK
<1>4. /\ cpos < cpos' /\ cpos' <= cpos + ChunkSize /\ initial' = buf /\ Len(buf) = cpos'
      /\ Says(protocol, SubSeq(client, 1, cpos)) = More
  BY ReadFirstBounds
<1>5. /\ host = NoTarget => says \notin Host
      /\ host # NoTarget => /\ host \in Host /\ length \in 1..Len(client)
                            /\ says = IF cpos' < length THEN More ELSE host
                            /\ cpos < length
  <2>1. \A n \in 0..Len(client) :
            /\ host = NoTarget => Says(protocol, SubSeq(client, 1, n)) \notin Host
            /\ host # NoTarget => /\ host \in Host /\ length \in 1..Len(client)
                                  /\ Says(protocol, SubSeq(client, 1, n)) = IF n < length THEN More ELSE host
    BY <1>3, MeantIsSaid
  <2> HIDE DEF host, length
  <2>2. host # NoTarget => cpos < length
    BY <1>2, <1>4, <2>1, HostAssumption
  <2> QED BY <1>2, <2>1, <2>2
<1>6. More \notin Host /\ Bad \notin Host /\ More # Bad
  BY HostAssumption DEF More, Bad
<1>7. First(initial') = First(buf) /\ Says(protocol, initial') = says /\ Len(initial') = cpos'
  BY <1>4
<1> HIDE DEF host, length, says
<1>8. CASE protocol = "http"
  <2>1. First(buf) = IF HeaderEnd(buf) = 0 /\ cpos' > MaxHeader THEN Bad ELSE says
    BY <1>4, <1>8 DEF First, HttpFirst, Says, says
  <2>2. says = IF HeaderEnd(buf) # 0 THEN ParseHost(buf) ELSE More
    BY <1>8 DEF Says, says, HttpSays
  <2>3. HeaderEnd(buf) # 0 => says \in Host \cup {Bad}
    <3>1. buf \in Seq(T)
      BY <1>1, <1>2, PrefixIs
    <3> QED BY <2>2, <3>1, ParseHostIs
  <2>4. MaxHeader \in Nat /\ cpos' \in Nat
    BY <1>2
  <2>5. First(buf) = More => says = More /\ cpos' <= MaxHeader
    BY <1>6, <2>1, <2>2, <2>3, <2>4
  <2>6. First(buf) = Bad => says = Bad \/ (says = More /\ cpos' > MaxHeader)
    BY <1>6, <2>1, <2>2, <2>4
  <2>7. First(buf) \in Host => First(buf) = says
    BY <1>6, <2>1
  <2>8. host # NoTarget => /\ First(buf) = More => cpos' < length
                           /\ First(buf) = Bad => length > MaxHeader + 1
    <3> SUFFICES ASSUME host # NoTarget PROVE /\ First(buf) = More => cpos' < length
                                              /\ First(buf) = Bad => length > MaxHeader + 1
      OBVIOUS
    <3>1. length \in Nat /\ host # More /\ host # Bad
      BY <1>2, <1>5, <1>6
    <3> QED BY <1>5, <1>6, <2>4, <2>5, <2>6, <3>1
  <2>9. /\ First(initial') = More => Says(protocol, initial') = More /\ Len(initial') <= Limit
        /\ First(initial') \in Host => First(initial') = host
    BY <1>5, <1>6, <1>7, <1>8, <2>2, <2>3, <2>5, <2>7 DEF Limit
  <2> QED BY <1>5, <1>7, <1>8, <2>8, <2>9 DEF host, length
<1>9. CASE protocol = "https"
  <2>1. First(buf) = IF cpos' > MaxHello THEN Bad ELSE says
    BY <1>4, <1>9 DEF First, HttpsFirst, Says, says
  <2>4. MaxHello \in Nat /\ cpos' \in Nat
    BY <1>2
  <2>5. First(buf) = More => says = More /\ cpos' <= MaxHello
    BY <1>6, <2>1, <2>4
  <2>6. First(buf) = Bad => says = Bad \/ cpos' > MaxHello
    BY <2>1
  <2>7. First(buf) \in Host => First(buf) = says
    BY <1>6, <2>1
  <2>8. host # NoTarget => /\ First(buf) = More => cpos' < length
                           /\ First(buf) = Bad => length + ChunkSize > MaxHello + 1
    <3> SUFFICES ASSUME host # NoTarget PROVE /\ First(buf) = More => cpos' < length
                                              /\ First(buf) = Bad => length + ChunkSize > MaxHello + 1
      OBVIOUS
    <3>1. length \in Nat /\ host # More /\ host # Bad /\ cpos < length
      BY <1>2, <1>5, <1>6
    <3>2. cpos \in Nat /\ ChunkSize \in Nat
      BY <1>2
    <3> QED BY <1>4, <1>5, <1>6, <2>4, <2>5, <2>6, <3>1, <3>2
  <2>9. /\ First(initial') = More => Says(protocol, initial') = More /\ Len(initial') <= Limit
        /\ First(initial') \in Host => First(initial') = host
    BY <1>5, <1>6, <1>7, <1>9, <2>5, <2>7 DEF Limit
  <2> QED BY <1>5, <1>7, <1>9, <2>8, <2>9 DEF host, length
<1> QED BY <1>3, <1>8, <1>9

-----------------------------------------------------------------------------
(***************************************************************************)
(* Each step keeps the invariant.                                          *)
(***************************************************************************)

\* The first state.
LEMMA InitRight == Init => HandshakeInv
<1> SUFFICES ASSUME Init PROVE HandshakeInv
  OBVIOUS
<1>1. protocol \in {"http", "https"} /\ client \in ClientStreams[protocol]
  BY DEF Init
<1>2. PICK T : client \in Seq(T)
  BY <1>1, StreamsAssumption DEF IsStream
<1>3. Len(client) \in Nat /\ 0 \in 0..Len(client) /\ SubSeq(client, 1, 0) = <<>> /\ Len(<<>>) = 0
  <2>1. Len(client) \in Nat /\ Len(<<>>) = 0
    BY <1>2, LenProperties, EmptySeq
  <2> QED BY <2>1, SubSeqEmpty
<1>4. {MaxHeader, MaxHello, ChunkSize} \subseteq Nat
  BY SizesAssumption
<1>5. Says(protocol, <<>>) = More
  <2>1. HeaderEnd(<<>>) = 0
    <3>1. <<>> \in Seq(Nat) /\ ~(HeaderEnd(<<>>) \in 1..(0 - 3))
      BY EmptySeq, HeaderEndIs
    <3> QED BY <1>3, <3>1, HeaderEndIs
  <2>2. ParseTlsSni(<<>>) = NeedMore
    BY <1>3 DEF ParseTlsSni
  <2>3. HttpSays(<<>>) = More
    BY <2>1 DEF HttpSays
  <2>4. HttpsSays(<<>>) = More
    BY <2>2 DEF HttpsSays, NeedMore
  <2> QED BY <2>3, <2>4 DEF Says
<1>6. Meant[protocol][client].host # NoTarget => 0 < Meant[protocol][client].length
  <2>1. Meant[protocol][client].host # NoTarget => Meant[protocol][client].length \in 1..Len(client)
    BY <1>1, <1>3, MeantIsSaid
  <2> QED BY <1>3, <2>1
<1>7. TypeOK
  <2>1. /\ stage = "first" /\ cpos = 0 /\ initial = <<>> /\ target = NoTarget /\ hop = 1 /\ dialled = 1
        /\ reply = <<>> /\ pos = 0 /\ need = 0 /\ verdict = "none"
    BY DEF Init
  <2>2. Len(initial) <= (IF protocol = "http" THEN MaxHeader ELSE MaxHello) + ChunkSize
    BY <1>3, <1>4, <2>1
  <2>3. pos \in 0..Len(reply)
    BY <1>3, <2>1
  <2> QED BY <1>1, <1>3, <2>1, <2>2, <2>3 DEF TypeOK, Stage
<1>8. ClientSide
  BY <1>3, <1>4, <1>5 DEF Init, ClientSide, Limit
<1>9. HopSide /\ Exchange /\ StreamsExact /\ VerdictRight
  BY DEF Init, HopSide, Exchange, StreamsExact, VerdictRight, HopStage
<1>10. TargetRight
  BY <1>6 DEF Init, TargetRight
<1> QED BY <1>7, <1>8, <1>9, <1>10 DEF HandshakeInv

\* The length of the answer is a matter of the answer and of who gave it.
LEMMA AnswerKept ==
    ASSUME UNCHANGED <<reply, dialled>>
    PROVE  AnswerLength' = AnswerLength /\ Judged' = Judged
BY DEF AnswerLength, Judged

\* A verdict stays right while it is about the same answer.
LEMMA VerdictKept ==
    ASSUME HandshakeInv, UNCHANGED <<reply, dialled, verdict, target>>
    PROVE  VerdictRight'
<1>1. AnswerLength' = AnswerLength /\ Judged' = Judged /\ verdict' = verdict /\ target' = target
  BY AnswerKept
<1>2. VerdictRight
  BY DEF HandshakeInv
<1> QED BY <1>1, <1>2 DEF VerdictRight

\* The bytes of the client that are read first.
LEMMA FirstKeeps ==
    ASSUME HandshakeInv, FirstMore \/ FirstTarget \/ FirstBad
    PROVE  HandshakeInv'
<1>1. /\ ReadFirst /\ stage = "first"
      /\ UNCHANGED <<protocol, client, hop, reply, dialled, pos, need, prefix, verdict, toProxy, toClient>>
  BY DEF FirstMore, FirstTarget, FirstBad, ReadFirst, hopVars, tunnelVars
<1>2. /\ cpos \in Nat /\ cpos' \in 0..Len(client) /\ cpos < cpos' /\ cpos' <= cpos + ChunkSize
      /\ initial' = SubSeq(client, 1, cpos') /\ Len(initial') = cpos' /\ cpos <= Limit
  BY <1>1, ReadFirstBounds
<1>3. LET meant == Meant[protocol][client]
      IN  /\ First(initial') = More => Says(protocol, initial') = More /\ Len(initial') <= Limit
          /\ First(initial') \in Host => First(initial') = meant.host
          /\ meant.host # NoTarget =>
                /\ cpos < meant.length
                /\ First(initial') = More => cpos' < meant.length
                /\ First(initial') = Bad =>
                      IF protocol = "http" THEN meant.length > MaxHeader + 1
                                           ELSE meant.length + ChunkSize > MaxHello + 1
  BY <1>1, FirstIs
<1>4. TypeOK /\ ClientSide /\ HopSide /\ TargetRight
  BY DEF HandshakeInv
<1>5. \/ stage' = "first" /\ First(initial') = More /\ target' = target
      \/ stage' \in {"dial", "end"} /\ First(initial') \in Host /\ target' = First(initial')
         /\ (stage' = "dial" => Hops # <<>>)
      \/ stage' = "bad" /\ First(initial') = Bad /\ target' = target
  BY <1>1 DEF FirstMore, FirstTarget, FirstBad
<1>6. target = NoTarget /\ verdict = "none" /\ toClient = <<>>
  BY <1>1, <1>4 DEF ClientSide
<1>7. Limit \in Nat /\ ChunkSize \in Nat
  BY SizesAssumption DEF Limit
<1>8. TypeOK'
  <2>1. Len(initial') <= Limit + ChunkSize
    <3>1. cpos' \in Nat
      BY <1>2, Streams
    <3>2. cpos' <= Limit + ChunkSize
      BY <1>2, <1>7, <3>1
    <3> QED BY <1>2, <3>2, Zenon
  <2>2. stage' \in Stage /\ target' \in Host \cup {NoTarget}
    BY <1>5, <1>6 DEF Stage, HopStage
  <2> QED BY <1>1, <1>2, <1>4, <1>5, <2>1, <2>2 DEF TypeOK, Limit
<1>9. ClientSide'
  <2>1. stage' = "first" => Says(protocol, initial') = More /\ Len(initial') <= Limit /\ target' = NoTarget
    BY <1>3, <1>5, <1>6
  <2> QED BY <1>1, <1>2, <1>6, <2>1 DEF ClientSide, Limit
<1>10. HopSide'
  BY <1>1, <1>4, <1>5, <1>6 DEF HopSide, HopStage, Judged
<1>11. Exchange' /\ StreamsExact'
  BY <1>5 DEF Exchange, StreamsExact
<1>12. TargetRight'
  <2> DEFINE host == Meant[protocol][client].host
             length == Meant[protocol][client].length
  <2>1. Meant[protocol'][client'].host = host /\ Meant[protocol'][client'].length = length
    BY <1>1
  <2>2. target' \in {NoTarget, host}
    BY <1>3, <1>5, <1>6
  <2>3. stage' = "first" /\ host # NoTarget => cpos' < length
    BY <1>3, <1>5
  <2>4. stage' = "bad" /\ host # NoTarget =>
            IF protocol' = "http" THEN length > MaxHeader + 1 ELSE length + ChunkSize > MaxHello + 1
    BY <1>1, <1>3, <1>5
  <2> HIDE DEF host, length
  <2> QED BY <2>1, <2>2, <2>3, <2>4 DEF TargetRight
<1>13. VerdictRight'
  BY <1>1, <1>6 DEF VerdictRight
<1> QED BY <1>8, <1>9, <1>10, <1>11, <1>12, <1>13 DEF HandshakeInv

\* The target stays right while nothing more is read of the client.
LEMMA TargetKept ==
    ASSUME HandshakeInv, UNCHANGED <<protocol, client, target>>,
           stage' \notin {"first", "bad"} \/ (stage' = stage /\ cpos' = cpos)
    PROVE  TargetRight'
<1>1. TargetRight /\ protocol' = protocol /\ client' = client /\ target' = target
  BY DEF HandshakeInv
<1> QED BY <1>1 DEF TargetRight

\* The handler ends.
LEMMA EndKeeps ==
    ASSUME HandshakeInv, FirstFails \/ InitialFails \/ TunnelEnds
    PROVE  HandshakeInv'
<1>1. stage' = "end" /\ UNCHANGED <<protocol, client, cpos, initial, target, hop, reply, dialled, pos,
                                     need, prefix, verdict, toProxy, toClient>>
  BY DEF FirstFails, InitialFails, TunnelEnds, End, clientVars, hopVars, tunnelVars
<1>2. TypeOK /\ HopSide
  BY DEF HandshakeInv
<1>3. TypeOK'
  BY <1>1, <1>2 DEF TypeOK, Stage
<1>4. ClientSide' /\ Exchange' /\ StreamsExact'
  BY <1>1 DEF ClientSide, Exchange, StreamsExact
<1>5. HopSide'
  BY <1>1, <1>2, AnswerKept DEF HopSide, HopStage
<1>6. TargetRight' /\ VerdictRight'
  BY <1>1, TargetKept, VerdictKept
<1> QED BY <1>3, <1>4, <1>5, <1>6 DEF HandshakeInv

-----------------------------------------------------------------------------
(***************************************************************************)
(* The hop that is tried.                                                  *)
(***************************************************************************)

\* While a hop is tried there is one.
LEMMA HopIs ==
    ASSUME HandshakeInv, stage \in HopStage
    PROVE  /\ hop \in 1..Len(Hops) /\ Len(Hops) \in Nat \ {0}
           /\ This \in [kind : Kind, user : BOOLEAN, longUser : BOOLEAN]
<1>1. Hops # <<>>
  BY DEF HandshakeInv, HopSide
<1>2. Len(Hops) \in Nat \ {0}
  BY <1>1, HopsAssumption, EmptySeq
<1>3. hop \in 1..Len(Hops)
  BY <1>2 DEF HandshakeInv, TypeOK
<1>4. Hops[hop] \in [kind : Kind, user : BOOLEAN, longUser : BOOLEAN]
  BY <1>3, HopsAssumption, ElementOfSeq
<1> QED BY <1>2, <1>3, <1>4 DEF This

\* From dialling to the verdict, the hop that is judged is the one that is tried.
LEMMA JudgedIs ==
    ASSUME HandshakeInv, stage \in HopStage \ {"dial"}
    PROVE  /\ dialled = hop /\ Judged = This /\ verdict = "none"
           /\ Judged \in [kind : Kind, user : BOOLEAN, longUser : BOOLEAN]
           /\ Hops # <<>> /\ reply \in Replies[Judged.kind]
<1>1. dialled = hop /\ verdict = "none" /\ Hops # <<>> /\ reply \in Replies[Judged.kind]
  BY DEF HandshakeInv, HopSide
<1> QED BY <1>1, HopIs DEF Judged, This

\* What a proxy of a kind sends is a sequence, of numbers for SOCKS5.
LEMMA ReplyStream ==
    ASSUME NEW kind \in Kind, NEW s \in Replies[kind]
    PROVE  /\ \E T : s \in Seq(T)
           /\ Len(s) \in Nat
           /\ kind = "socks5" => s \in Seq(Nat)
<1>1. CASE kind = "socks5"
  <2>1. s \in Seq(Nat)
    BY <1>1, StreamsAssumption
  <2> QED BY <2>1, LenProperties
<1>2. CASE kind \in {"http", "https"}
  <2>1. PICK T : s \in Seq(T)
    BY <1>2, StreamsAssumption DEF IsStream
  <2> QED BY <1>2, <2>1, LenProperties
<1> QED BY <1>1, <1>2 DEF Kind

\* While a hop is tried, nothing changes for the client.
LEMMA ClientKept ==
    ASSUME HandshakeInv, stage \in HopStage, stage' \in HopStage \cup {"initial", "end"},
           UNCHANGED <<clientVars, tunnelVars>>
    PROVE  ClientSide' /\ TargetRight'
<1>1. /\ UNCHANGED <<protocol, client, cpos, initial, target, toProxy, toClient>>
      /\ stage # "tunnel" /\ stage # "end" /\ stage' \notin {"first", "bad"} /\ stage' # "first"
  BY DEF clientVars, tunnelVars, HopStage
<1>2. ClientSide'
  BY <1>1 DEF HandshakeInv, ClientSide
<1> QED BY <1>1, <1>2, TargetKept

\* The types of what concerns the hop.
HopTypes ==
    /\ stage \in HopStage \cup {"initial", "end"} /\ hop \in 1..Len(Hops) /\ dialled \in 1..Len(Hops)
    /\ pos \in 0..Len(reply) /\ need \in Nat
    /\ stage = "reply" => pos <= MaxHeader + ChunkSize
    /\ verdict \in {"none", "accepted", "refused"}

LEMMA TypesFromHop ==
    ASSUME HandshakeInv, UNCHANGED <<clientVars, tunnelVars>>, HopTypes'
    PROVE  TypeOK'
<1>1. UNCHANGED <<protocol, client, cpos, initial, target>>
  BY DEF clientVars
<1>2. TypeOK
  BY DEF HandshakeInv
<1> QED BY <1>1, <1>2 DEF TypeOK, HopTypes, Stage

\* A hop is dialled.
LEMMA DialKeeps ==
    ASSUME HandshakeInv, Dialled
    PROVE  HandshakeInv'
<1>1. /\ stage = "dial" /\ reply' \in Replies[This.kind] /\ dialled' = hop
      /\ pos' = 0 /\ need' = 2 /\ verdict' = "none" /\ hop' = hop /\ UNCHANGED <<clientVars, tunnelVars>>
  BY DEF Dialled
<1>2. hop \in 1..Len(Hops) /\ Len(Hops) \in Nat \ {0} /\ This.kind \in Kind /\ Hops # <<>>
  <2>1. stage \in HopStage
    BY <1>1 DEF HopStage
  <2>2. This \in [kind : Kind, user : BOOLEAN, longUser : BOOLEAN]
    BY <2>1, HopIs
  <2>3. Hops # <<>>
    BY <2>1 DEF HandshakeInv, HopSide
  <2> QED BY <2>1, <2>2, <2>3, HopIs
<1>3. \/ This.kind = "http" /\ stage' = "reply"
      \/ This.kind = "https" /\ stage' = "tls"
      \/ This.kind = "socks5" /\ stage' = "method"
  BY <1>2 DEF Dialled, Kind
<1>4. Judged' = This
  BY <1>1 DEF Judged, This
<1>5. Len(reply') \in Nat /\ \E T : reply' \in Seq(T)
  BY <1>1, <1>2, ReplyStream
<1>6. {MaxHeader, ChunkSize} \subseteq Nat
  BY SizesAssumption
<1>7. HopTypes'
  BY <1>1, <1>2, <1>3, <1>5, <1>6 DEF HopTypes, HopStage
<1>8. HopSide'
  BY <1>1, <1>2, <1>3, <1>4 DEF HopSide, HopStage
<1>9. HeaderEnd(SubSeq(reply', 1, 0)) = 0
  <2>1. SubSeq(reply', 1, 0) = <<>>
    BY SubSeqEmpty
  <2>2. <<>> \in Seq(Nat) /\ Len(<<>>) = 0
    BY EmptySeq
  <2>3. ~(HeaderEnd(<<>>) \in 1..(0 - 3))
    OBVIOUS
  <2> QED BY <2>1, <2>2, <2>3, HeaderEndIs
<1>10. Exchange'
  BY <1>1, <1>3, <1>6, <1>9 DEF Exchange
<1>11. StreamsExact' /\ VerdictRight'
  BY <1>1, <1>3 DEF StreamsExact, VerdictRight
<1>12. ClientSide' /\ TargetRight'
  BY <1>1, <1>3, ClientKept DEF HopStage
<1>13. TypeOK'
  BY <1>1, <1>7, TypesFromHop
<1> QED BY <1>8, <1>10, <1>11, <1>12, <1>13 DEF HandshakeInv

\* The TLS handshake with an HTTPS proxy.
LEMMA TlsKeeps ==
    ASSUME HandshakeInv, TlsDone
    PROVE  HandshakeInv'
<1>1. /\ stage = "tls" /\ stage' = "reply" /\ UNCHANGED <<clientVars, tunnelVars>>
      /\ UNCHANGED <<hop, reply, dialled, pos, need, verdict>>
  BY DEF TlsDone, hopVars
<1>2. TypeOK /\ HopSide /\ Exchange
  BY DEF HandshakeInv
<1>3. hop \in 1..Len(Hops) /\ dialled = hop /\ verdict = "none"
  BY <1>1, HopIs, JudgedIs DEF HopStage
<1>4. pos = 0 /\ MaxHeader \in Nat /\ ChunkSize \in Nat
  BY <1>1, <1>2, SizesAssumption DEF Exchange
<1>5. HopTypes'
  BY <1>1, <1>2, <1>3, <1>4 DEF HopTypes, TypeOK, HopStage
<1>6. HopSide'
  BY <1>1, <1>2, AnswerKept DEF HopSide, HopStage
<1>7. Exchange'
  <2>1. reply \in Seq(Sent)
    BY Streams
  <2>2. 0 \in 0..Len(reply) /\ Len(reply) \in Nat
    BY Streams
  <2>3. Len(SubSeq(reply, 1, 0)) = 0 /\ SubSeq(reply, 1, 0) \in Seq(Sent)
    BY <2>1, <2>2, PrefixIs
  <2>4. ~(HeaderEnd(SubSeq(reply, 1, 0)) \in 1..(0 - 3))
    OBVIOUS
  <2>5. HeaderEnd(SubSeq(reply, 1, 0)) = 0
    BY <2>3, <2>4, HeaderEndIs
  <2> QED BY <1>1, <1>4, <2>5 DEF Exchange
<1>8. StreamsExact'
  BY <1>1 DEF StreamsExact
<1>9. ClientSide' /\ TargetRight'
  BY <1>1, ClientKept DEF HopStage
<1>10. VerdictRight'
  BY <1>1, VerdictKept DEF clientVars
<1>11. TypeOK'
  BY <1>1, <1>5, TypesFromHop
<1> QED BY <1>6, <1>7, <1>8, <1>9, <1>10, <1>11 DEF HandshakeInv

\* A hop that is given up, whatever became of it: what must be shown is that the
\* verdict on it, if there is one, is right.
LEMMA GiveUpKeeps ==
    ASSUME HandshakeInv, stage \in HopStage, NextHop, UNCHANGED <<clientVars, reply, dialled, tunnelVars>>,
           pos' \in 0..Len(reply), need' = need,
           verdict' = verdict \/ (verdict' = "refused" /\ stage # "dial"), VerdictRight'
    PROVE  HandshakeInv'
<1>1. stage' \in {"dial", "end"} /\ hop' \in 1..Len(Hops) /\ Hops # <<>> /\ Len(Hops) \in Nat \ {0}
  <2>1. hop \in 1..Len(Hops) /\ Len(Hops) \in Nat \ {0}
    BY HopIs
  <2>2. Hops # <<>>
    BY DEF HandshakeInv, HopSide
  <2> QED BY <2>1, <2>2 DEF NextHop
<1>2. TypeOK /\ HopSide
  BY DEF HandshakeInv
<1>3. HopTypes'
  <2>1. dialled' \in 1..Len(Hops)
    BY <1>1, <1>2 DEF TypeOK
  <2>2. pos' \in 0..Len(reply') /\ need' \in Nat /\ verdict' \in {"none", "accepted", "refused"}
    BY <1>2 DEF TypeOK
  <2> QED BY <1>1, <2>1, <2>2 DEF HopTypes, HopStage
<1>4. HopSide'
  <2>1. verdict' # "none" => reply \in Replies[Judged.kind]
    BY <1>2, JudgedIs DEF HopSide
  <2>2. reply = <<>> \/ reply \in Replies[Judged.kind]
    BY <1>2 DEF HopSide
  <2> QED BY <1>1, <2>1, <2>2, AnswerKept DEF HopSide, HopStage
<1>5. Exchange' /\ StreamsExact'
  BY <1>1 DEF Exchange, StreamsExact
<1>6. ClientSide' /\ TargetRight'
  BY <1>1, ClientKept DEF HopStage
<1>7. TypeOK'
  BY <1>3, TypesFromHop
<1> QED BY <1>4, <1>5, <1>6, <1>7 DEF HandshakeInv

\* An error on the way says nothing about the answer.
LEMMA FailKeeps ==
    ASSUME HandshakeInv, HopFails
    PROVE  HandshakeInv'
<1>1. /\ stage \in HopStage /\ NextHop /\ UNCHANGED <<clientVars, reply, dialled, tunnelVars>>
      /\ UNCHANGED <<pos, need, verdict>>
  BY DEF HopFails
<1>2. pos' \in 0..Len(reply)
  BY <1>1 DEF HandshakeInv, TypeOK
<1>3. VerdictRight'
  BY <1>1, VerdictKept DEF clientVars
<1> QED BY <1>1, <1>2, <1>3, GiveUpKeeps

-----------------------------------------------------------------------------
(***************************************************************************)
(* A proxy that is judged by its header.                                   *)
(***************************************************************************)

\* An accepted hop: what must be shown is that the verdict is right, and that
\* the prefix and what has not been read yet follow the answer.
LEMMA AcceptKeeps ==
    ASSUME HandshakeInv, stage \in HopStage \ {"dial"}, NEW rest \in Seq(Sent),
           Accepted(rest), UNCHANGED <<clientVars, need, tunnelVars>>, pos' \in 0..Len(reply), VerdictRight',
           rest \o SubSeq(reply, pos' + 1, Len(reply)) = SubSeq(reply, AnswerLength + 1, Len(reply))
    PROVE  HandshakeInv'
<1>1. /\ stage' = "initial" /\ prefix' = rest /\ verdict' = "accepted"
      /\ UNCHANGED <<hop, reply, dialled, need, toClient>>
  BY DEF Accepted, tunnelVars
<1>2. /\ hop \in 1..Len(Hops) /\ dialled = hop /\ need \in Nat /\ toClient = <<>>
      /\ Hops # <<>> /\ reply \in Replies[Judged.kind]
  BY HopIs, JudgedIs DEF HandshakeInv, TypeOK, ClientSide, HopStage
<1>3. HopTypes'
  BY <1>1, <1>2 DEF HopTypes
<1>4. HopSide'
  BY <1>1, <1>2, AnswerKept DEF HopSide, HopStage
<1>5. Exchange'
  <2>1. Sent' = Sent /\ <<>> \in Seq(Sent)
    BY <1>1, EmptySeq DEF Sent
  <2> QED BY <1>1, <1>2, <2>1 DEF Exchange
<1>6. StreamsExact'
  <2>1. toClient' \o prefix' = rest
    BY <1>1, <1>2, ConcatEmptySeq
  <2>2. AnswerLength' = AnswerLength
    BY <1>1, AnswerKept
  <2> QED BY <1>1, <2>1, <2>2 DEF StreamsExact
<1>7. ClientSide' /\ TargetRight'
  BY <1>1, ClientKept DEF HopStage
<1>8. TypeOK'
  BY <1>3, TypesFromHop
<1> QED BY <1>4, <1>5, <1>6, <1>7, <1>8 DEF HandshakeInv

\* A read of the answer to CONNECT finds the end of its header once it is
\* there, and not before.
LEMMA ReplyRead ==
    ASSUME HandshakeInv, stage = "reply",
           \E k \in 1..ChunkSize : Chunk(reply, pos, k) /\ pos' = pos + k
    PROVE  /\ pos' \in 0..Len(reply) /\ pos' <= MaxHeader + ChunkSize /\ Len(reply) \in Nat
           /\ HeaderEnd(reply) \in Nat
           /\ AnswerLength = IF HeaderEnd(reply) # 0 /\ StatusOk(HeaderOf(reply))
                             THEN HeaderEnd(reply) + 3 ELSE 0
           /\ HeaderEnd(SubSeq(reply, 1, pos')) =
                 IF HeaderEnd(reply) # 0 /\ HeaderEnd(reply) + 3 <= pos' THEN HeaderEnd(reply) ELSE 0
           /\ Judged.kind # "socks5"
<1>1. PICK k \in 1..ChunkSize : Chunk(reply, pos, k) /\ pos' = pos + k
  OBVIOUS
<1>2. Len(reply) \in Nat /\ pos \in 0..Len(reply) /\ MaxHeader \in Nat /\ ChunkSize \in Nat
  BY Streams, SizesAssumption
<1>3. pos <= MaxHeader /\ Judged.kind # "socks5"
  BY DEF HandshakeInv, Exchange, HopSide
<1>4. pos' \in 0..Len(reply) /\ pos' <= MaxHeader + ChunkSize
  BY <1>1, <1>2, <1>3 DEF Chunk
<1>5. HeaderEnd(SubSeq(reply, 1, pos')) =
          IF HeaderEnd(reply) # 0 /\ HeaderEnd(reply) + 3 <= pos' THEN HeaderEnd(reply) ELSE 0
  BY <1>4, Streams, HeaderEndOfPrefix
<1>6. AnswerLength = HttpLength(reply) /\ HeaderEnd(reply) \in Nat
  BY <1>3, Streams, HeaderEndIs DEF AnswerLength
<1> QED BY <1>2, <1>3, <1>4, <1>5, <1>6, Streams, HttpLengthIs

\* The header goes on.
LEMMA ReplyMoreKeeps ==
    ASSUME HandshakeInv, ReplyMore
    PROVE  HandshakeInv'
<1>1. /\ stage = "reply" /\ UNCHANGED <<stage, hop, reply, dialled, need, verdict, target, clientVars, tunnelVars>>
      /\ \E k \in 1..ChunkSize : Chunk(reply, pos, k) /\ pos' = pos + k
      /\ HeaderEnd(SubSeq(reply, 1, pos')) = 0 /\ pos' <= MaxHeader
  BY DEF ReplyMore, clientVars
<1>2. reply \in Seq(Sent)
  BY Streams
<1>3. pos' \in 0..Len(reply) /\ pos' <= MaxHeader + ChunkSize
  BY <1>1, <1>2, ReplyRead
<1>4. TypeOK /\ HopSide
  BY DEF HandshakeInv
<1>5. hop \in 1..Len(Hops) /\ dialled = hop
  BY <1>1, HopIs, JudgedIs DEF HopStage
<1>6. HopTypes'
  BY <1>1, <1>3, <1>4, <1>5 DEF HopTypes, HopStage, TypeOK
<1>7. HopSide'
  BY <1>1, <1>4, AnswerKept DEF HopSide
<1>8. Exchange' /\ StreamsExact'
  BY <1>1 DEF Exchange, StreamsExact
<1>9. ClientSide' /\ TargetRight'
  BY <1>1, ClientKept DEF HopStage
<1>10. VerdictRight'
  BY <1>1, VerdictKept
<1>11. TypeOK'
  BY <1>1, <1>6, TypesFromHop
<1> QED BY <1>7, <1>8, <1>9, <1>10, <1>11 DEF HandshakeInv

\* The header says 200: the answer ends with it, the rest is the prefix.
LEMMA ReplyDoneKeeps ==
    ASSUME HandshakeInv, ReplyDone
    PROVE  HandshakeInv'
<1> DEFINE response == SubSeq(reply, 1, pos')
           rest == SubSeq(response, HeaderEnd(response) + 4, pos')
<1>1. /\ stage = "reply" /\ UNCHANGED <<clientVars, need, tunnelVars>>
      /\ \E k \in 1..ChunkSize : Chunk(reply, pos, k) /\ pos' = pos + k
      /\ HeaderEnd(response) # 0 /\ StatusOk(HeaderOf(response)) /\ Accepted(rest)
  BY DEF ReplyDone
<1>2. reply \in Seq(Sent)
  BY Streams
<1>3. /\ pos' \in 0..Len(reply) /\ pos' <= MaxHeader + ChunkSize /\ Len(reply) \in Nat
      /\ HeaderEnd(reply) \in Nat
      /\ AnswerLength = IF HeaderEnd(reply) # 0 /\ StatusOk(HeaderOf(reply))
                        THEN HeaderEnd(reply) + 3 ELSE 0
      /\ HeaderEnd(response) =
            IF HeaderEnd(reply) # 0 /\ HeaderEnd(reply) + 3 <= pos' THEN HeaderEnd(reply) ELSE 0
      /\ Judged.kind # "socks5"
  BY <1>1, <1>2, ReplyRead
<1>4. HeaderOf(response) = HeaderOf(reply)
  BY <1>1, <1>2, <1>3, HeaderOfPrefix
<1>5. /\ HeaderEnd(response) = HeaderEnd(reply) /\ HeaderEnd(reply) + 3 <= pos'
      /\ AnswerLength = HeaderEnd(reply) + 3
  BY <1>1, <1>3, <1>4
<1>6. HeaderEnd(reply) + 4 \in Nat \ {0} /\ pos' \in 0..pos' /\ pos' \in Nat
  BY <1>3
<1>7. rest = SubSeq(reply, AnswerLength + 1, pos')
  <2>1. AnswerLength + 1 = HeaderEnd(reply) + 4
    BY <1>3, <1>5
  <2>2. SubSeq(response, HeaderEnd(reply) + 4, pos') = SubSeq(reply, HeaderEnd(reply) + 4, pos')
    BY <1>2, <1>3, <1>6, PartOfPrefix
  <2> QED BY <1>5, <2>1, <2>2
<1> HIDE DEF rest, response
<1>8. rest \in Seq(Sent)
  <2>1. AnswerLength + 1 \in Nat \ {0}
    BY <1>3, <1>5
  <2> QED BY <1>2, <1>3, <1>7, <2>1, PartIs
<1>9. rest \o SubSeq(reply, pos' + 1, Len(reply)) = SubSeq(reply, AnswerLength + 1, Len(reply))
  <2> DEFINE m == AnswerLength + 1
  <2>1. m \in 1..(Len(reply) + 1) /\ pos' \in (m - 1)..Len(reply) /\ Len(reply) \in pos'..Len(reply)
    BY <1>3, <1>5, <1>6
  <2> HIDE DEF m
  <2>2. SubSeq(reply, m, pos') \o SubSeq(reply, pos' + 1, Len(reply)) = SubSeq(reply, m, Len(reply))
    BY <1>2, <2>1, Continued
  <2> QED BY <1>7, <2>2 DEF m
<1>10. VerdictRight'
  <2>1. verdict' = "accepted" /\ UNCHANGED <<reply, dialled>>
    BY <1>1 DEF Accepted
  <2>2. AnswerLength' = AnswerLength
    BY <2>1, AnswerKept
  <2>3. AnswerLength > 0 /\ AnswerLength <= MaxHeader + ChunkSize
    <3>1. MaxHeader + ChunkSize \in Nat
      BY SizesAssumption
    <3> QED BY <1>3, <1>5, <1>6, <3>1
  <2> QED BY <2>1, <2>2, <2>3 DEF VerdictRight
<1> QED BY <1>1, <1>2, <1>3, <1>8, <1>9, <1>10, AcceptKeeps DEF HopStage

\* The header says something else, or it is too long.
LEMMA ReplyRefusedKeeps ==
    ASSUME HandshakeInv, ReplyRefused
    PROVE  HandshakeInv'
<1> DEFINE response == SubSeq(reply, 1, pos')
<1>1. /\ stage = "reply" /\ Refused /\ need' = need
      /\ \E k \in 1..ChunkSize : Chunk(reply, pos, k) /\ pos' = pos + k
      /\ IF HeaderEnd(response) # 0 THEN ~StatusOk(HeaderOf(response)) ELSE pos' > MaxHeader
  BY DEF ReplyRefused
<1>2. /\ NextHop /\ verdict' = "refused" /\ UNCHANGED <<clientVars, reply, dialled, tunnelVars>>
  BY <1>1 DEF Refused
<1>3. reply \in Seq(Sent)
  BY Streams
<1>4. /\ pos' \in 0..Len(reply) /\ pos' <= MaxHeader + ChunkSize /\ Len(reply) \in Nat
      /\ HeaderEnd(reply) \in Nat
      /\ AnswerLength = IF HeaderEnd(reply) # 0 /\ StatusOk(HeaderOf(reply))
                        THEN HeaderEnd(reply) + 3 ELSE 0
      /\ HeaderEnd(response) =
            IF HeaderEnd(reply) # 0 /\ HeaderEnd(reply) + 3 <= pos' THEN HeaderEnd(reply) ELSE 0
      /\ Judged.kind # "socks5"
  BY <1>1, <1>3, ReplyRead
<1>5. HeaderEnd(response) # 0 => HeaderOf(response) = HeaderOf(reply)
  BY <1>3, <1>4, HeaderOfPrefix
<1>6. AnswerLength = 0 \/ AnswerLength > MaxHeader + 1
  <2>1. CASE HeaderEnd(response) # 0
    BY <1>1, <1>4, <1>5, <2>1
  <2>2. CASE HeaderEnd(response) = 0
    <3>1. pos' > MaxHeader /\ MaxHeader \in Nat /\ pos' \in Nat
      BY <1>1, <1>4, <2>2, SizesAssumption
    <3>2. HeaderEnd(reply) = 0 \/ ~(HeaderEnd(reply) + 3 <= pos')
      BY <1>4, <2>2
    <3> HIDE DEF response
    <3> QED BY <1>4, <3>1, <3>2
  <2> QED BY <2>1, <2>2
<1>7. VerdictRight'
  BY <1>2, <1>4, <1>6, AnswerKept DEF VerdictRight
<1> QED BY <1>1, <1>2, <1>4, <1>7, GiveUpKeeps DEF HopStage

-----------------------------------------------------------------------------
(***************************************************************************)
(* A SOCKS5 proxy, answer by answer.                                       *)
(***************************************************************************)

SocksStage == {"method", "auth", "head", "len", "skip"}

\* What is known throughout a SOCKS5 handshake.
LEMMA SocksIs ==
    ASSUME HandshakeInv, stage \in SocksStage
    PROVE  /\ stage \in HopStage \ {"dial"} /\ Judged = This /\ verdict = "none"
           /\ Judged.kind = "socks5" /\ Judged.user \in BOOLEAN
           /\ reply \in Seq(Nat) /\ Len(reply) \in Nat /\ pos \in 0..Len(reply) /\ need \in Nat
           /\ AnswerLength = SocksLength(Judged.user, reply)
<1>1. stage \in HopStage \ {"dial"}
  BY DEF SocksStage, HopStage
<1>2. /\ Judged = This /\ verdict = "none" /\ reply \in Replies[Judged.kind]
      /\ Judged \in [kind : Kind, user : BOOLEAN, longUser : BOOLEAN]
  BY <1>1, JudgedIs
<1>3. Judged.kind = "socks5"
  BY DEF HandshakeInv, HopSide, SocksStage
<1>4. reply \in Seq(Nat)
  BY <1>2, <1>3, StreamsAssumption
<1>5. AnswerLength = SocksLength(Judged.user, reply)
  BY <1>3 DEF AnswerLength
<1>6. Judged.user \in BOOLEAN
  BY <1>2
<1> QED BY <1>1, <1>2, <1>3, <1>4, <1>5, <1>6, Streams DEF HandshakeInv, TypeOK

\* An answer of read_exact in order: what must be shown is where it leads.
LEMMA ExactKeeps ==
    ASSUME HandshakeInv, stage \in SocksStage, NEW to \in SocksStage, NEW n \in Nat,
           Exact(stage, to, n), Exchange'
    PROVE  HandshakeInv'
<1>1. /\ stage' = to /\ pos' = pos + need /\ need' = n /\ pos + need <= Len(reply)
      /\ UNCHANGED <<clientVars, hop, reply, dialled, verdict, tunnelVars>>
  BY DEF Exact, Got
<1>2. /\ stage \in HopStage \ {"dial"} /\ Judged.kind = "socks5" /\ verdict = "none"
      /\ Len(reply) \in Nat /\ pos \in 0..Len(reply) /\ need \in Nat
  BY SocksIs
<1>3. hop \in 1..Len(Hops) /\ dialled = hop /\ HopSide
  BY <1>2, HopIs, JudgedIs DEF HandshakeInv
<1>4. HopTypes'
  BY <1>1, <1>2, <1>3 DEF HopTypes, HopStage, SocksStage
<1>5. HopSide'
  BY <1>1, <1>2, <1>3, AnswerKept DEF HopSide, HopStage, SocksStage
<1>6. StreamsExact'
  BY <1>1 DEF StreamsExact, SocksStage
<1>7. ClientSide' /\ TargetRight'
  BY <1>1, <1>2, ClientKept DEF HopStage, SocksStage
<1>8. VerdictRight'
  BY <1>1, VerdictKept DEF clientVars
<1>9. TypeOK'
  BY <1>1, <1>4, TypesFromHop
<1> QED BY <1>5, <1>6, <1>7, <1>8, <1>9 DEF HandshakeInv

\* The method is chosen.
LEMMA MethodKeeps ==
    ASSUME HandshakeInv, MethodPassword \/ MethodNone
    PROVE  HandshakeInv'
<1>1. stage = "method" /\ stage \in SocksStage
  BY DEF MethodPassword, MethodNone, Exact, SocksStage
<1>2. pos = 0 /\ need = 2 /\ Judged = This
  BY <1>1, SocksIs DEF HandshakeInv, Exchange
<1>3. Byte(1) = reply[1] /\ Byte(2) = reply[2]
  <2>1. pos + 1 = 1 /\ pos + 2 = 2
    BY <1>2
  <2> QED BY <2>1 DEF Byte
<1>4. CASE MethodPassword
  <2>1. Exact("method", "auth", 2) /\ This.user /\ reply[1] = 5 /\ reply[2] = 2
    BY <1>3, <1>4 DEF MethodPassword
  <2>2. stage' = "auth" /\ pos' = 2 /\ need' = 2 /\ UNCHANGED <<reply, dialled>>
    BY <1>2, <2>1 DEF Exact
  <2>3. Exchange'
    BY <1>2, <2>1, <2>2, AnswerKept DEF Exchange
  <2> QED BY <1>1, <2>1, <2>3, ExactKeeps DEF SocksStage
<1>5. CASE MethodNone
  <2>1. Exact("method", "head", 4) /\ reply[1] = 5 /\ reply[2] = 0
    BY <1>3, <1>5 DEF MethodNone
  <2>2. stage' = "head" /\ pos' = 2 /\ need' = 4 /\ UNCHANGED <<reply, dialled>>
    BY <1>2, <2>1 DEF Exact
  <2>3. Consents(Judged'.user, reply', pos')
    BY <2>1, <2>2 DEF Consents
  <2>4. Exchange'
    BY <2>2, <2>3 DEF Exchange
  <2> QED BY <1>1, <2>1, <2>4, ExactKeeps DEF SocksStage
<1> QED BY <1>4, <1>5

\* The user is let in.
LEMMA AuthKeeps ==
    ASSUME HandshakeInv, Authenticated
    PROVE  HandshakeInv'
<1>1. stage = "auth" /\ stage \in SocksStage
  BY DEF Authenticated, Exact, SocksStage
<1>2. pos = 2 /\ need = 2 /\ Judged.user /\ reply[1] = 5 /\ reply[2] = 2
  BY <1>1 DEF HandshakeInv, Exchange
<1>3. Byte(1) = reply[3] /\ Byte(2) = reply[4]
  <2>1. pos + 1 = 3 /\ pos + 2 = 4
    BY <1>2
  <2> QED BY <2>1 DEF Byte
<1>4. Exact("auth", "head", 4) /\ reply[3] = 1 /\ reply[4] = 0
  BY <1>3 DEF Authenticated
<1>5. stage' = "head" /\ pos' = 4 /\ need' = 4 /\ UNCHANGED <<reply, dialled>>
  BY <1>2, <1>4 DEF Exact
<1>6. Consents(Judged'.user, reply', pos')
  BY <1>2, <1>4, <1>5, AnswerKept DEF Consents
<1>7. Exchange'
  BY <1>5, <1>6 DEF Exchange
<1> QED BY <1>1, <1>4, <1>7, ExactKeeps DEF SocksStage

\* The head of the reply says how its address goes on.
LEMMA HeadKeeps ==
    ASSUME HandshakeInv, HeadAddress \/ HeadDomain
    PROVE  HandshakeInv'
<1>1. stage = "head" /\ stage \in SocksStage
  BY DEF HeadAddress, HeadDomain, Exact, SocksStage
<1>2. pos \in {2, 4} /\ need = 4 /\ Consents(Judged.user, reply, pos)
  BY <1>1 DEF HandshakeInv, Exchange
<1>3. reply[pos + 1] = 5 /\ reply[pos + 2] = 0
  BY DEF HeadAddress, HeadDomain, HeadOk, Byte
<1>4. Grants(Judged.user, reply, pos)
  BY <1>2, <1>3 DEF Grants
<1>5. ASSUME NEW to \in {"skip", "len"}, NEW n \in Nat, Exact("head", to, n)
      PROVE  /\ stage' = to /\ pos' = pos + 4 /\ need' = n /\ reply' = reply
             /\ Grants(Judged'.user, reply', pos)
  <2>1. stage' = to /\ pos' = pos + 4 /\ need' = n /\ UNCHANGED <<reply, dialled>>
    BY <1>2, <1>5 DEF Exact
  <2> QED BY <1>4, <2>1, AnswerKept
<1>6. CASE HeadDomain
  <2>1. Exact("head", "len", 1) /\ reply[pos + 4] = 3
    BY <1>6 DEF HeadDomain, Byte
  <2>2. /\ stage' = "len" /\ pos' = pos + 4 /\ need' = 1 /\ reply' = reply
        /\ Grants(Judged'.user, reply', pos)
    BY <1>5, <2>1
  <2>3. Exchange'
    BY <1>2, <2>1, <2>2 DEF Exchange
  <2> QED BY <1>1, <2>1, <2>3, ExactKeeps DEF SocksStage
<1>7. ASSUME NEW n \in {6, 18}, Exact("head", "skip", n),
             (n = 6 /\ reply[pos + 4] = 1) \/ (n = 18 /\ reply[pos + 4] = 4)
      PROVE  HandshakeInv'
  <2>1. /\ stage' = "skip" /\ pos' = pos + 4 /\ need' = n /\ reply' = reply
        /\ Grants(Judged'.user, reply', pos)
    BY <1>5, <1>7
  <2>2. \E m \in {2, 4} : Grants(Judged'.user, reply', m) /\ AddressAt(m)'
    BY <1>2, <2>1, <1>7 DEF AddressAt
  <2>3. Exchange'
    BY <2>1, <2>2 DEF Exchange
  <2> QED BY <1>1, <1>7, <2>3, ExactKeeps DEF SocksStage
<1>8. CASE HeadAddress
  BY <1>7, <1>8 DEF HeadAddress, Byte
<1> QED BY <1>6, <1>8

\* The length of a name says how long the rest is.
LEMMA LenKeeps ==
    ASSUME HandshakeInv, LenRead
    PROVE  HandshakeInv'
<1>1. stage = "len" /\ stage \in SocksStage /\ Got /\ Exact("len", "skip", Byte(1) + 2)
  BY DEF LenRead, SocksStage
<1>2. PICK n \in {2, 4} : /\ pos = n + 4 /\ need = 1
                          /\ Grants(Judged.user, reply, n) /\ reply[n + 4] = 3
  BY <1>1 DEF HandshakeInv, Exchange
<1>3. reply \in Seq(Nat) /\ Len(reply) \in Nat /\ pos + 1 <= Len(reply)
  BY <1>1, <1>2, SocksIs DEF Got
<1>4. Byte(1) = reply[n + 5] /\ Byte(1) \in Nat
  <2>1. pos + 1 = n + 5 /\ pos + 1 \in 1..Len(reply)
    BY <1>2, <1>3
  <2> QED BY <1>3, <2>1, ElementOfSeq DEF Byte
<1>5. /\ stage' = "skip" /\ pos' = n + 5 /\ need' = reply[n + 5] + 2
      /\ reply' = reply /\ Judged' = Judged
  <2>1. pos + 1 = n + 5
    BY <1>2
  <2> QED BY <1>1, <1>2, <1>4, <2>1, AnswerKept DEF Exact
<1>6. AddressAt(n)'
  BY <1>2, <1>5 DEF AddressAt
<1>7. Exchange'
  BY <1>2, <1>5, <1>6 DEF Exchange
<1>8. Byte(1) + 2 \in Nat /\ Exact(stage, "skip", Byte(1) + 2)
  BY <1>1, <1>4
<1> QED BY <1>1, <1>7, <1>8, ExactKeeps DEF SocksStage

\* What is left of the address after its type, or after its length, ends it.
LEMMA SkipEnds ==
    ASSUME NEW s \in Seq(Nat), NEW n \in {2, 4}, NEW p \in 0..Len(s), NEW d \in Nat, p + d <= Len(s),
           \/ s[n + 4] = 1 /\ p = n + 4 /\ d = 6
           \/ s[n + 4] = 4 /\ p = n + 4 /\ d = 18
           \/ s[n + 4] = 3 /\ p = n + 5 /\ d = s[n + 5] + 2
    PROVE  Reach(s, n) = p + d /\ p + d \in 1..Len(s) /\ n <= Len(s)
<1>1. Len(s) \in Nat /\ n \in Nat /\ p \in Nat /\ p >= n + 4 /\ p >= 1
  BY LenProperties
<1>2. n <= Len(s) /\ p + d \in 1..Len(s)
  BY <1>1
<1>3. CASE s[n + 4] = 1 /\ p = n + 4 /\ d = 6
  BY <1>1, <1>2, <1>3 DEF Reach
<1>4. CASE s[n + 4] = 4 /\ p = n + 4 /\ d = 18
  BY <1>1, <1>2, <1>4 DEF Reach
<1>5. CASE s[n + 4] = 3 /\ p = n + 5 /\ d = s[n + 5] + 2
  <2>1. n + 5 \in 1..Len(s)
    BY <1>1, <1>5
  <2>2. s[n + 5] \in Nat
    BY <2>1, ElementOfSeq
  <2>3. Reach(s, n) = n + 7 + s[n + 5]
    BY <1>1, <1>5, <2>1 DEF Reach
  <2>4. \A b \in Nat : n + 7 + b = (n + 5) + (b + 2)
    BY <1>1
  <2> QED BY <1>2, <1>5, <2>2, <2>3, <2>4
<1> QED BY <1>3, <1>4, <1>5

\* The address is read to its end, which is the end of the answer.
LEMMA SkipKeeps ==
    ASSUME HandshakeInv, AddressSkipped
    PROVE  HandshakeInv'
<1>1. /\ stage = "skip" /\ stage \in SocksStage /\ pos + need <= Len(reply) /\ pos' = pos + need
      /\ Accepted(<<>>) /\ UNCHANGED <<clientVars, need, tunnelVars>>
  BY DEF AddressSkipped, SocksStage, Got
<1>2. /\ stage \in HopStage \ {"dial"} /\ Judged.kind = "socks5"
      /\ reply \in Seq(Nat) /\ Len(reply) \in Nat /\ pos \in 0..Len(reply) /\ need \in Nat
      /\ AnswerLength = SocksLength(Judged.user, reply)
  BY <1>1, SocksIs
<1>3. PICK n \in {2, 4} : Grants(Judged.user, reply, n) /\ AddressAt(n)
  BY <1>1 DEF HandshakeInv, Exchange
<1>4. Reach(reply, n) = pos + need /\ pos + need \in 1..Len(reply) /\ n <= Len(reply)
  <2>1. pos + need <= Len(reply)
    BY <1>1
  <2> QED BY <1>2, <1>3, <2>1, SkipEnds DEF AddressAt
<1>5. AnswerLength = pos' /\ pos' \in 1..Len(reply)
  <2>1. Consents(Judged.user, reply, n) /\ reply[n + 1] = 5 /\ reply[n + 2] = 0
    BY <1>3 DEF Grants
  <2>2. Len(reply) >= n
    BY <1>2, <1>4
  <2>3. SocksLength(Judged.user, reply) =
            IF Reach(reply, n) \in 1..Len(reply) /\ reply[n + 1] = 5 /\ reply[n + 2] = 0
            THEN Reach(reply, n) ELSE 0
    BY <1>2, <2>1, <2>2, SocksLengthIs
  <2> QED BY <1>1, <1>2, <1>4, <2>1, <2>3
<1>6. VerdictRight'
  <2>1. verdict' = "accepted" /\ UNCHANGED <<reply, dialled>>
    BY <1>1 DEF Accepted
  <2>2. AnswerLength' = AnswerLength /\ Judged' = Judged /\ AnswerLength > 0
    BY <1>5, <2>1, AnswerKept
  <2> QED BY <1>2, <2>1, <2>2 DEF VerdictRight
<1>7. <<>> \o SubSeq(reply, pos' + 1, Len(reply)) = SubSeq(reply, AnswerLength + 1, Len(reply))
  <2> DEFINE at == pos'
  <2>3. at \in Nat /\ Len(reply) \in Nat
    BY <1>2, <1>5
  <2> HIDE DEF at
  <2>4. at + 1 \in Nat \ {0} /\ Len(reply) \in 0..Len(reply)
    BY <2>3
  <2>1. pos' + 1 \in Nat \ {0} /\ Len(reply) \in 0..Len(reply)
    BY <2>4 DEF at
  <2>2. SubSeq(reply, pos' + 1, Len(reply)) \in Seq(Nat)
    BY <1>2, <2>1, PartIs
  <2> QED BY <1>5, <2>2, ConcatEmptySeq
<1>8. <<>> \in Seq(Sent) /\ pos' \in 0..Len(reply)
  BY <1>2, <1>5, EmptySeq
<1> QED BY <1>1, <1>2, <1>6, <1>7, <1>8, AcceptKeeps

\* A server that is refused has not consented, or cannot be asked.
LEMMA SocksRefusedKeeps ==
    ASSUME HandshakeInv, SocksRefused
    PROVE  HandshakeInv'
<1> DEFINE user == Judged.user
<1>1. /\ Refused /\ need' = need /\ pos' = pos + need /\ pos + need <= Len(reply)
      /\ stage \in {"method", "auth", "head"} /\ stage \in SocksStage
  BY DEF SocksRefused, SocksStage, Got
<1>2. /\ NextHop /\ verdict' = "refused" /\ UNCHANGED <<clientVars, reply, dialled, tunnelVars>>
  BY <1>1 DEF Refused
<1>3. /\ stage \in HopStage \ {"dial"} /\ Judged = This /\ Judged.kind = "socks5"
      /\ reply \in Seq(Nat) /\ Len(reply) \in Nat /\ pos \in 0..Len(reply) /\ need \in Nat
      /\ AnswerLength = SocksLength(user, reply)
  BY <1>1, SocksIs
<1>4. AnswerLength = 0 \/ target \in LongHost \/ Judged.longUser
  <2> SUFFICES ASSUME target \notin LongHost, ~Judged.longUser PROVE SocksLength(user, reply) = 0
    BY <1>3
  <2>1. CASE stage = "method"
    <3>1. pos = 0
      BY <2>1 DEF HandshakeInv, Exchange
    <3>2. Byte(1) = reply[1] /\ Byte(2) = reply[2]
      <4>1. pos + 1 = 1 /\ pos + 2 = 2
        BY <3>1
      <4> QED BY <4>1 DEF Byte
    <3>3. /\ ~(reply[1] = 5 /\ reply[2] = 0)
          /\ ~(user /\ reply[1] = 5 /\ reply[2] = 2)
      BY <1>3, <2>1, <3>2 DEF SocksRefused
    <3> HIDE DEF user
    <3>4. \A n \in {2, 4} : ~Consents(user, reply, n)
      BY <3>3 DEF Consents
    <3> QED BY <1>3, <3>4, SocksLengthNot
  <2>2. CASE stage = "auth"
    <3>1. pos = 2 /\ reply[1] = 5 /\ reply[2] = 2
      BY <2>2 DEF HandshakeInv, Exchange
    <3>2. Byte(1) = reply[3] /\ Byte(2) = reply[4]
      <4>1. pos + 1 = 3 /\ pos + 2 = 4
        BY <3>1
      <4> QED BY <4>1 DEF Byte
    <3>3. ~(reply[3] = 1 /\ reply[4] = 0)
      BY <2>2, <3>2 DEF SocksRefused
    <3> HIDE DEF user
    <3>4. \A n \in {2, 4} : ~Consents(user, reply, n)
      BY <3>1, <3>3 DEF Consents
    <3> QED BY <1>3, <3>4, SocksLengthNot
  <2>3. CASE stage = "head"
    <3>1. pos \in {2, 4} /\ need = 4 /\ Consents(user, reply, pos)
      BY <2>3 DEF HandshakeInv, Exchange
    <3>2. ~(reply[pos + 1] = 5 /\ reply[pos + 2] = 0 /\ reply[pos + 4] \in {1, 3, 4})
      BY <2>3 DEF SocksRefused, HeadOk, Byte
    <3> HIDE DEF user
    <3>3. Len(reply) >= pos
      BY <1>3
    <3>4. SocksLength(user, reply) =
              IF Reach(reply, pos) \in 1..Len(reply) /\ reply[pos + 1] = 5 /\ reply[pos + 2] = 0
              THEN Reach(reply, pos) ELSE 0
      BY <1>3, <3>1, <3>3, SocksLengthIs
    <3>5. reply[pos + 4] \notin {1, 3, 4} => Reach(reply, pos) = 0
      BY DEF Reach
    <3> QED BY <3>2, <3>4, <3>5
  <2> QED BY <1>1, <2>1, <2>2, <2>3
<1>5. VerdictRight'
  <2>1. AnswerLength' = AnswerLength /\ Judged' = Judged /\ target' = target
    BY <1>2, AnswerKept DEF clientVars
  <2> QED BY <1>2, <1>3, <1>4, <2>1 DEF VerdictRight
<1>6. pos' \in 0..Len(reply)
  BY <1>1, <1>3
<1> QED BY <1>1, <1>2, <1>3, <1>5, <1>6, GiveUpKeeps

-----------------------------------------------------------------------------
(***************************************************************************)
(* The tunnel.                                                             *)
(***************************************************************************)

\* In the tunnel nothing changes for the hop but what is passed on.
LEMMA TunnelIs ==
    ASSUME HandshakeInv, stage' = "tunnel", stage \in {"initial", "tunnel"},
           UNCHANGED <<protocol, client, initial, target, hop, reply, dialled, need, verdict>>,
           cpos' \in 0..Len(client), pos' \in 0..Len(reply), {toClient, prefix}' \subseteq Seq(Sent)
    PROVE  TypeOK' /\ ClientSide' /\ HopSide' /\ Exchange' /\ TargetRight' /\ VerdictRight'
<1>1. TypeOK /\ HopSide
  BY DEF HandshakeInv
<1>2. TypeOK'
  BY <1>1 DEF TypeOK, Stage
<1>3. ClientSide'
  BY DEF ClientSide
<1>4. HopSide'
  BY <1>1, AnswerKept DEF HopSide, HopStage
<1>5. Exchange'
  BY DEF Exchange, Sent
<1>6. TargetRight' /\ VerdictRight'
  BY TargetKept, VerdictKept
<1> QED BY <1>2, <1>3, <1>4, <1>5, <1>6

\* The first bytes go to the hop that accepted.
LEMMA SendInitialKeeps ==
    ASSUME HandshakeInv, SendInitial
    PROVE  HandshakeInv'
<1>1. /\ stage = "initial" /\ stage' = "tunnel" /\ toProxy' = initial
      /\ UNCHANGED <<protocol, client, cpos, initial, target, hop, reply, dialled, pos, need, prefix,
                     verdict, toClient>>
  BY DEF SendInitial, clientVars, hopVars
<1>2. initial = SubSeq(client, 1, cpos) /\ StreamsExact /\ {toClient, prefix} \subseteq Seq(Sent)
  BY <1>1 DEF HandshakeInv, ClientSide, Exchange
<1>3. StreamsExact'
  BY <1>1, <1>2, AnswerKept DEF StreamsExact
<1>4. cpos' \in 0..Len(client) /\ pos' \in 0..Len(reply)
  BY <1>1, Streams
<1>5. {toClient, prefix}' \subseteq Seq(Sent)
  BY <1>1, <1>2
<1> QED BY <1>1, <1>3, <1>4, <1>5, TunnelIs DEF HandshakeInv

\* What the relay reads of the client it adds to what the proxy has got.
LEMMA ClientToProxyKeeps ==
    ASSUME HandshakeInv, ClientToProxy
    PROVE  HandshakeInv'
<1>1. /\ stage = "tunnel" /\ stage' = "tunnel"
      /\ UNCHANGED <<protocol, client, initial, target, hop, reply, dialled, pos, need, prefix,
                     verdict, toClient>>
  BY DEF ClientToProxy, hopVars
<1>2. PICK k \in 1..BufSize : /\ cpos + k <= Len(client) /\ cpos' = cpos + k
                              /\ toProxy' = toProxy \o SubSeq(client, cpos + 1, cpos + k)
  BY DEF ClientToProxy
<1>3. Len(client) \in Nat /\ cpos \in 0..Len(client) /\ BufSize \in Nat
  BY Streams, SizesAssumption
<1>4. PICK T : client \in Seq(T)
  BY Streams
<1>5. StreamsExact /\ {toClient, prefix} \subseteq Seq(Sent)
  BY <1>1 DEF HandshakeInv, Exchange
<1>6. toProxy' = SubSeq(client, 1, cpos')
  <2>1. 1 \in 1..(Len(client) + 1) /\ cpos \in (1 - 1)..Len(client) /\ cpos + k \in cpos..Len(client)
    BY <1>2, <1>3
  <2>2. SubSeq(client, 1, cpos) \o SubSeq(client, cpos + 1, cpos + k) = SubSeq(client, 1, cpos + k)
    BY <1>4, <2>1, Continued
  <2> QED BY <1>1, <1>2, <1>5, <2>2 DEF StreamsExact
<1>7. StreamsExact'
  BY <1>1, <1>5, <1>6, AnswerKept DEF StreamsExact
<1>8. cpos' \in 0..Len(client) /\ pos' \in 0..Len(reply)
  BY <1>1, <1>2, <1>3, Streams
<1>9. {toClient, prefix}' \subseteq Seq(Sent)
  BY <1>1, <1>5
<1> QED BY <1>1, <1>7, <1>8, <1>9, TunnelIs DEF HandshakeInv

\* Three texts in a row are one text, however they are grouped.
LEMMA Regrouped == \A S : \A s, t, u \in Seq(S) : (s \o t) \o u = s \o (t \o u)
BY ConcatAssociative

\* The prefix goes first, as far as the buffer takes it.
LEMMA PrefixKeeps ==
    ASSUME HandshakeInv, PrefixToClient
    PROVE  HandshakeInv'
<1> DEFINE n == IF Len(prefix) < BufSize THEN Len(prefix) ELSE BufSize
           passed == SubSeq(prefix, 1, n)
           left == SubSeq(prefix, n + 1, Len(prefix))
           rest == SubSeq(reply, pos + 1, Len(reply))
<1>1. /\ stage = "tunnel" /\ stage' = "tunnel" /\ prefix # <<>>
      /\ toClient' = toClient \o passed /\ prefix' = left
      /\ UNCHANGED <<protocol, client, cpos, initial, target, hop, reply, dialled, pos, need,
                     verdict, toProxy>>
  BY DEF PrefixToClient, clientVars
<1>2. StreamsExact /\ toClient \in Seq(Sent) /\ prefix \in Seq(Sent)
  BY <1>1 DEF HandshakeInv, Exchange
<1>3. Len(prefix) \in Nat \ {0} /\ BufSize \in Nat \ {0}
  BY <1>1, <1>2, EmptySeq, SizesAssumption
<1>4. n \in 1..Len(prefix)
  BY <1>3
<1> HIDE DEF n
<1>5. passed \in Seq(Sent) /\ left \in Seq(Sent) /\ passed \o left = prefix
  <2>1. /\ 1 \in Nat \ {0} /\ n + 1 \in Nat \ {0} /\ n \in 0..Len(prefix) /\ Len(prefix) \in 0..Len(prefix)
        /\ 1 \in 1..(Len(prefix) + 1) /\ n \in (1 - 1)..Len(prefix) /\ Len(prefix) \in n..Len(prefix)
    BY <1>3, <1>4
  <2>2. passed \o left = SubSeq(prefix, 1, Len(prefix))
    BY <1>2, <2>1, Continued
  <2> QED BY <1>2, <2>1, <2>2, PartIs, SubSeqFull
<1> HIDE DEF passed, left, rest
<1>6. toClient' \o prefix' = toClient \o prefix
  <2>1. (toClient \o passed) \o left = toClient \o (passed \o left)
    <3>1. toClient \in Seq(Sent) /\ passed \in Seq(Sent) /\ left \in Seq(Sent)
      BY <1>2, <1>5
    <3> QED BY <3>1, Regrouped
  <2>2. toClient' \o prefix' = (toClient \o passed) \o left
    BY <1>1
  <2> QED BY <1>5, <2>1, <2>2
<1>7. StreamsExact'
  <2>1. toProxy' = SubSeq(client', 1, cpos')
    BY <1>1, <1>2 DEF StreamsExact
  <2>2. toClient' \o prefix' \o rest = SubSeq(reply, AnswerLength + 1, Len(reply))
    BY <1>1, <1>2, <1>6 DEF StreamsExact, rest
  <2> QED BY <1>1, <2>1, <2>2, AnswerKept DEF StreamsExact, rest
<1>8. cpos' \in 0..Len(client) /\ pos' \in 0..Len(reply)
  BY <1>1, Streams
<1>9. {toClient, prefix}' \subseteq Seq(Sent)
  BY <1>1, <1>2, <1>5, ConcatProperties
<1> QED BY <1>1, <1>7, <1>8, <1>9, TunnelIs DEF HandshakeInv

\* Then the stream itself.
LEMMA ProxyToClientKeeps ==
    ASSUME HandshakeInv, ProxyToClient
    PROVE  HandshakeInv'
<1>1. /\ stage = "tunnel" /\ stage' = "tunnel" /\ prefix = <<>> /\ prefix' = <<>>
      /\ UNCHANGED <<protocol, client, cpos, initial, target, hop, reply, dialled, need,
                     verdict, toProxy>>
  BY DEF ProxyToClient, clientVars
<1>2. PICK k \in 1..BufSize : /\ pos + k <= Len(reply) /\ pos' = pos + k
                              /\ toClient' = toClient \o SubSeq(reply, pos + 1, pos + k)
  BY DEF ProxyToClient
<1>3. /\ Len(reply) \in Nat /\ pos \in 0..Len(reply) /\ BufSize \in Nat /\ reply \in Seq(Sent)
      /\ cpos \in 0..Len(client)
  BY Streams, SizesAssumption
<1>4. StreamsExact /\ toClient \in Seq(Sent)
  BY <1>1 DEF HandshakeInv, Exchange
<1> DEFINE passed == SubSeq(reply, pos + 1, pos + k)
           rest == SubSeq(reply, pos + 1, Len(reply))
           left == SubSeq(reply, pos + k + 1, Len(reply))
<1>5. passed \in Seq(Sent) /\ left \in Seq(Sent) /\ passed \o left = rest
  <2>1. /\ pos + 1 \in Nat \ {0} /\ pos + k + 1 \in Nat \ {0} /\ pos + k \in 0..Len(reply)
        /\ Len(reply) \in 0..Len(reply)
        /\ pos + 1 \in 1..(Len(reply) + 1) /\ pos + k \in ((pos + 1) - 1)..Len(reply)
        /\ Len(reply) \in (pos + k)..Len(reply)
    BY <1>2, <1>3
  <2>2. passed \o left = rest
    BY <1>3, <2>1, Continued
  <2> QED BY <1>3, <2>1, <2>2, PartIs
<1>6. left = SubSeq(reply', pos' + 1, Len(reply'))
  BY <1>1, <1>2
<1> HIDE DEF passed, rest, left
<1>7. toClient' = toClient \o passed /\ toClient' \in Seq(Sent)
  BY <1>2, <1>4, <1>5, ConcatProperties DEF passed
<1>8. toClient' \o prefix' \o left = toClient \o prefix \o rest
  <2>1. toClient' \o prefix' = toClient \o passed /\ toClient \o prefix = toClient
    BY <1>1, <1>4, <1>7, ConcatEmptySeq
  <2>3. (toClient \o passed) \o left = toClient \o (passed \o left)
    <3>1. toClient \in Seq(Sent) /\ passed \in Seq(Sent) /\ left \in Seq(Sent)
      BY <1>4, <1>5
    <3> QED BY <3>1, Regrouped
  <2>2. (toClient \o passed) \o left = toClient \o rest
    BY <1>5, <2>3
  <2> QED BY <2>1, <2>2
<1>9. StreamsExact'
  <2>1. toProxy' = SubSeq(client', 1, cpos')
    BY <1>1, <1>4 DEF StreamsExact
  <2>2. toClient \o prefix \o rest = SubSeq(reply, AnswerLength + 1, Len(reply))
    BY <1>1, <1>4 DEF StreamsExact, rest
  <2>3. SubSeq(reply', AnswerLength' + 1, Len(reply')) = SubSeq(reply, AnswerLength + 1, Len(reply))
    BY <1>1, AnswerKept
  <2> QED BY <1>6, <1>8, <2>1, <2>2, <2>3 DEF StreamsExact
<1>10. cpos' \in 0..Len(client) /\ pos' \in 0..Len(reply)
  BY <1>1, <1>2, <1>3
<1>11. {toClient, prefix}' \subseteq Seq(Sent)
  BY <1>1, <1>7, EmptySeq
<1> QED BY <1>1, <1>9, <1>10, <1>11, TunnelIs DEF HandshakeInv

\* No step at all.
LEMMA StutterKeeps ==
    ASSUME HandshakeInv, UNCHANGED vars
    PROVE  HandshakeInv'
<1>1. /\ UNCHANGED <<stage, protocol, client, cpos, initial, target, hop, reply, dialled, pos, need,
                     prefix, verdict, toProxy, toClient>>
  BY DEF vars, clientVars, hopVars, tunnelVars
<1>2. TypeOK /\ ClientSide /\ HopSide /\ Exchange /\ StreamsExact
  BY DEF HandshakeInv
<1>3. TypeOK'
  BY <1>1, <1>2 DEF TypeOK
<1>4. ClientSide'
  BY <1>1, <1>2 DEF ClientSide, Limit
<1>5. HopSide' /\ StreamsExact'
  BY <1>1, <1>2, AnswerKept DEF HopSide, StreamsExact
<1>6. Exchange'
  BY <1>1, <1>2, AnswerKept DEF Exchange, Sent, AddressAt
<1>7. TargetRight' /\ VerdictRight'
  BY <1>1, TargetKept, VerdictKept
<1> QED BY <1>3, <1>4, <1>5, <1>6, <1>7 DEF HandshakeInv

-----------------------------------------------------------------------------
(***************************************************************************)
(* The theorems.                                                           *)
(***************************************************************************)

\* The invariant holds in every state.
THEOREM HandshakeInvariant == Spec => []HandshakeInv
<1>1. HandshakeInv /\ [Next]_vars => HandshakeInv'
  <2> SUFFICES ASSUME HandshakeInv, [Next]_vars PROVE HandshakeInv'
    OBVIOUS
  <2>1. CASE FirstMore \/ FirstTarget \/ FirstBad
    BY <2>1, FirstKeeps
  <2>2. CASE FirstFails \/ InitialFails \/ TunnelEnds
    BY <2>2, EndKeeps
  <2>3. CASE Connect
    BY <2>3, DialKeeps, TlsKeeps, FailKeeps, ReplyMoreKeeps, ReplyDoneKeeps, ReplyRefusedKeeps,
       MethodKeeps, AuthKeeps, HeadKeeps, LenKeeps, SkipKeeps, SocksRefusedKeeps DEF Connect
  <2>4. CASE SendInitial \/ ClientToProxy \/ PrefixToClient \/ ProxyToClient
    BY <2>4, SendInitialKeeps, ClientToProxyKeeps, PrefixKeeps, ProxyToClientKeeps
  <2>5. CASE UNCHANGED vars
    BY <2>5, StutterKeeps
  <2> QED BY <2>1, <2>2, <2>3, <2>4, <2>5 DEF Next
<1> QED BY InitRight, <1>1, PTL DEF Spec

\* Neither buffer of first bytes outgrows its limit by more than one read, and
\* the rest of the state is of its type.
THEOREM HandshakeTypes == Spec => []TypeOK
<1>1. HandshakeInv => TypeOK
  BY DEF HandshakeInv
<1> QED BY <1>1, HandshakeInvariant, PTL

\* The target is the host the client asks for, found as soon as its message is
\* complete, however the bytes are cut into reads; only its size refuses it.
THEOREM TargetsAreRight == Spec => []TargetRight
<1>1. HandshakeInv => TargetRight
  BY DEF HandshakeInv
<1> QED BY <1>1, HandshakeInvariant, PTL

\* Both peers get exactly the bytes the other one sent to them.
THEOREM StreamsAreExact == Spec => []StreamsExact
<1>1. HandshakeInv => StreamsExact
  BY DEF HandshakeInv
<1> QED BY <1>1, HandshakeInvariant, PTL

\* A proxy that consents is used and another one is not, however its answer is
\* cut into reads.
THEOREM VerdictsAreRight == Spec => []VerdictRight
<1>1. HandshakeInv => VerdictRight
  BY DEF HandshakeInv
<1> QED BY <1>1, HandshakeInvariant, PTL

-----------------------------------------------------------------------------
(***************************************************************************)
(* The handler implements that of Server.                                  *)
(***************************************************************************)

\* What the stages of Server need to know: the first hop is next until there is
\* a target, there is a target behind it, and a hop that is tried has not been
\* accepted.
HandlerAt ==
    /\ stage = "first" => hop = 1
    /\ stage \in HopStage \cup {"initial", "tunnel"} => target \in Host
    /\ stage \in HopStage => verdict # "accepted"

\* The ways a step can move the handler.
ReadsOn == stage = "first" /\ stage' = "first" /\ UNCHANGED <<target, hop, verdict>>
FindsTarget ==
    /\ stage = "first" /\ stage' = IF Hops = <<>> THEN "end" ELSE "dial"
    /\ target' \in Host /\ UNCHANGED <<hop, verdict>>
FindsNone == stage = "first" /\ stage' \in {"bad", "end"} /\ UNCHANGED <<target, hop, verdict>>
TalksOn ==
    /\ stage \in HopStage /\ stage' \in HopStage
    /\ verdict' # "accepted" /\ UNCHANGED <<target, hop>>
FallsBack == stage \in HopStage /\ NextHop /\ verdict' # "accepted" /\ UNCHANGED target
Connects ==
    /\ stage \in HopStage /\ stage' = "initial"
    /\ verdict' = "accepted" /\ UNCHANGED <<target, hop>>
Sends == stage = "initial" /\ stage' = "tunnel" /\ UNCHANGED <<target, hop, verdict>>
Leaves == stage \in {"initial", "tunnel"} /\ stage' = "end" /\ UNCHANGED <<target, hop, verdict>>
Relays == stage = "tunnel" /\ stage' = "tunnel" /\ UNCHANGED <<target, hop, verdict>>
Moves ==
    /\ UNCHANGED <<protocol, client>>
    /\ \/ ReadsOn \/ FindsTarget \/ FindsNone \/ TalksOn \/ FallsBack \/ Connects
       \/ Sends \/ Leaves \/ Relays

\* There are no others.
LEMMA StepMoves ==
    ASSUME HandshakeInv, HandlerAt, Next
    PROVE  Moves
<1>1. stage \in HopStage \ {"dial"} => verdict = "none"
  BY JudgedIs
<1>2. CASE FirstMore \/ FirstTarget \/ FirstBad \/ FirstFails
  BY <1>2 DEF FirstMore, FirstTarget, FirstBad, FirstFails, ReadFirst, End, clientVars, hopVars,
              ReadsOn, FindsTarget, FindsNone, Moves
<1>3. CASE Dialled
  <2>1. This.kind \in Kind
    BY <1>3, HopIs DEF Dialled, HopStage
  <2>2. stage' \in HopStage /\ stage \in HopStage
    BY <1>3, <2>1 DEF Dialled, HopStage, Kind
  <2> QED BY <1>3, <2>2 DEF Dialled, clientVars, TalksOn, Moves
<1>4. CASE TlsDone \/ ReplyMore
  BY <1>1, <1>4 DEF TlsDone, ReplyMore, clientVars, hopVars, HopStage, TalksOn, Moves
<1>5. CASE HopFails
  BY <1>5 DEF HopFails, clientVars, HandlerAt, FallsBack, Moves
<1>6. CASE ReplyDone \/ AddressSkipped
  BY <1>6 DEF ReplyDone, AddressSkipped, Accepted, clientVars, HopStage, Connects, Moves
<1>7. CASE ReplyRefused \/ SocksRefused
  BY <1>7 DEF ReplyRefused, SocksRefused, Refused, clientVars, HopStage, FallsBack, Moves
<1>8. CASE MethodPassword \/ MethodNone \/ Authenticated \/ HeadAddress \/ HeadDomain \/ LenRead
  <2>1. \E n : \E from \in {"method", "auth", "head", "len"}, to \in {"auth", "head", "len", "skip"} :
            Exact(from, to, n)
    BY <1>8 DEF MethodPassword, MethodNone, Authenticated, HeadAddress, HeadDomain, LenRead
  <2> QED BY <1>1, <2>1 DEF Exact, clientVars, HopStage, TalksOn, Moves
<1>9. CASE SendInitial
  BY <1>9 DEF SendInitial, clientVars, hopVars, Sends, Moves
<1>10. CASE InitialFails \/ TunnelEnds
  BY <1>10 DEF InitialFails, TunnelEnds, End, clientVars, hopVars, Leaves, Moves
<1>11. CASE ClientToProxy \/ PrefixToClient \/ ProxyToClient
  BY <1>11 DEF ClientToProxy, PrefixToClient, ProxyToClient, clientVars, hopVars, Relays, Moves
<1> QED BY <1>2, <1>3, <1>4, <1>5, <1>6, <1>7, <1>8, <1>9, <1>10, <1>11 DEF Next, Connect

\* They preserve HandlerAt.
LEMMA MovesKeep ==
    ASSUME HandshakeInv, HandlerAt, Moves
    PROVE  HandlerAt'
<1>1. "first" \notin HopStage /\ "bad" \notin HopStage /\ "end" \notin HopStage
      /\ "initial" \notin HopStage /\ "tunnel" \notin HopStage /\ "dial" \in HopStage
  BY DEF HopStage
<1>2. CASE ReadsOn \/ FindsNone \/ Sends \/ Leaves \/ Relays
  BY <1>1, <1>2 DEF HandlerAt, ReadsOn, FindsNone, Sends, Leaves, Relays
<1>3. CASE FindsTarget
  <2>1. verdict = "none"
    BY <1>3 DEF HandshakeInv, ClientSide, FindsTarget
  <2> QED BY <1>1, <1>3, <2>1 DEF HandlerAt, FindsTarget
<1>4. CASE TalksOn \/ Connects
  BY <1>1, <1>4 DEF HandlerAt, TalksOn, Connects
<1>5. CASE FallsBack
  BY <1>1, <1>5 DEF HandlerAt, FallsBack, NextHop
<1> QED BY <1>2, <1>3, <1>4, <1>5 DEF Moves

\* The hops that were tried and those that are left, when one of them fails.
LEMMA OneHopLess ==
    ASSUME NEW n \in 1..Len(Hops)
    PROVE  LET left == SubSeq(Hops, n, Len(Hops))
               gone == SubSeq(Hops, 1, n - 1)
           IN  /\ left # <<>>
               /\ Tail(left) = SubSeq(Hops, n + 1, Len(Hops))
               /\ Append(gone, Head(left)) = SubSeq(Hops, 1, n)
<1> DEFINE K == [kind : Kind, user : BOOLEAN, longUser : BOOLEAN]
<1>1. Hops \in Seq(K) /\ Len(Hops) \in Nat
  BY HopsAssumption, LenProperties
<1> HIDE DEF K
<1>2. n \in 1..Len(Hops) /\ Len(Hops) \in n..Len(Hops) /\ n \in Int /\ Hops[n] \in K
  BY <1>1, ElementOfSeq
<1>3. Head(SubSeq(Hops, n, Len(Hops))) = Hops[n]
      /\ Tail(SubSeq(Hops, n, Len(Hops))) = SubSeq(Hops, n + 1, Len(Hops))
  BY <1>1, <1>2, HeadTailOfSubSeq
<1>4. SubSeq(Hops, n, Len(Hops)) # <<>>
  <2>1. \A i \in n..Len(Hops) : Hops[i] \in K
    BY <1>1, <1>2, ElementOfSeq
  <2>2. Len(SubSeq(Hops, n, Len(Hops))) = IF n <= Len(Hops) THEN Len(Hops) - n + 1 ELSE 0
    BY <1>1, <1>2, <2>1, SubSeqProperties
  <2>3. Len(SubSeq(Hops, n, Len(Hops))) # 0
    BY <1>1, <1>2, <2>2
  <2> QED BY <2>3, EmptySeq
<1>5. Append(SubSeq(Hops, 1, n - 1), Hops[n]) = SubSeq(Hops, 1, n)
  <2>1. n - 1 \in 0..Len(Hops) /\ 1 \in 1..Len(Hops) /\ n \in 1..Len(Hops)
    BY <1>1, <1>2
  <2>2. SubSeq(Hops, 1, n) = SubSeq(Hops, 1, n - 1) \o <<Hops[n]>>
    BY <1>1, <2>1, SubSeqRecursiveSecond
  <2>3. SubSeq(Hops, 1, n - 1) \in Seq(K)
    BY <1>1, <2>1, PrefixIs
  <2> QED BY <1>2, <2>2, <2>3, AppendIsConcat
<1> QED BY <1>3, <1>4, <1>5

\* The same for the number of the next hop.
LEMMA AtNext ==
    ASSUME NEW n \in Int, NEW m, m = n + 1
    PROVE  SubSeq(Hops, m, Len(Hops)) = SubSeq(Hops, n + 1, Len(Hops))
           /\ SubSeq(Hops, 1, m - 1) = SubSeq(Hops, 1, n)
<1>1. m - 1 = n
  OBVIOUS
<1> QED BY <1>1, Zenon

\* A function of the one connection, before and after a step.
LEMMA OfMe ==
    ASSUME NEW x, NEW y
    PROVE  /\ [c \in {Me} |-> x][Me] = x
           /\ [[c \in {Me} |-> x] EXCEPT ![Me] = y] = [c \in {Me} |-> y]
  OBVIOUS

\* The state of Server's handler, by stage.
Seen ==
    /\ stage = "first" => ServerStage = "reading"
    /\ stage \in HopStage => ServerStage = "connecting"
    /\ stage = "initial" => ServerStage = "writing"
    /\ stage = "tunnel" => ServerStage = "relaying"
    /\ stage = "bad" => ServerStage = "none"
    /\ stage = "end" => ServerStage = IF Exhausted THEN "connecting" ELSE "none"
    /\ target = NoTarget => HopsLeft = <<>> /\ HopsTried = <<>>
    /\ (target \in Host /\ ~Exhausted) =>
          /\ HopsLeft = SubSeq(Hops, hop, Len(Hops))
          /\ HopsTried = SubSeq(Hops, 1, hop - 1)
    /\ (target \in Host /\ Exhausted) => HopsLeft = <<>> /\ HopsTried = Hops

\* It follows from the mapping alone.
LEMMA SeenAlways == Seen /\ Seen'
<1>1. "first" \notin HopStage /\ "bad" \notin HopStage /\ "end" \notin HopStage
      /\ "initial" \notin HopStage /\ "tunnel" \notin HopStage
  BY DEF HopStage
<1>2. NoTarget \notin Host
  BY HostAssumption
<1>3. Seen
  BY <1>1, <1>2 DEF Seen, ServerStage, Exhausted, HopsLeft, HopsTried
<1>4. Seen'
  BY <1>1, <1>2 DEF Seen, ServerStage, Exhausted, HopsLeft, HopsTried
<1> QED BY <1>3, <1>4

\* What a step does to the handler of Server.
Stays == UNCHANGED <<ServerStage, HopsLeft, HopsTried>>
Goes(from, to) == ServerStage = from /\ ServerStage' = to /\ UNCHANGED HopsTried
LooksUp ==
    Goes("reading", "connecting") /\ HopsLeft' = Hops /\ Meant[protocol][client].host \in Host
Quits == UNCHANGED HopsLeft /\ \E from \in {"reading", "writing", "relaying"} : Goes(from, "none")
GetsThrough == UNCHANGED HopsLeft /\ HopsLeft # <<>> /\ Goes("connecting", "writing")
PassesOn == UNCHANGED HopsLeft /\ Goes("writing", "relaying")
TriesNext ==
    /\ ServerStage = "connecting" /\ UNCHANGED ServerStage /\ HopsLeft # <<>>
    /\ HopsLeft' = Tail(HopsLeft) /\ HopsTried' = Append(HopsTried, Head(HopsLeft))

\* Each way the handler moves is one of these, or is not seen.
LEMMA MovesSeen ==
    ASSUME HandshakeInv, HandlerAt, Moves, TargetRight'
    PROVE  Stays \/ LooksUp \/ Quits \/ GetsThrough \/ PassesOn \/ TriesNext
<1>1. "first" \notin HopStage /\ "bad" \notin HopStage /\ "end" \notin HopStage
      /\ "initial" \notin HopStage /\ "tunnel" \notin HopStage /\ "dial" \in HopStage
  BY DEF HopStage
<1>2. (stage = "first" => target = NoTarget /\ hop = 1) /\ NoTarget \notin Host
  BY HostAssumption DEF HandshakeInv, ClientSide, HandlerAt
<1>3. stage # "end" => ~Exhausted
  BY DEF Exhausted
<1>4. stage' # "end" => ~Exhausted'
  BY DEF Exhausted
<1>5. stage \in HopStage \cup {"initial", "tunnel"} => target \in Host
  BY DEF HandlerAt
<1> USE SeenAlways DEF Seen
<1>6. CASE ReadsOn
  BY <1>2, <1>6 DEF ReadsOn, Stays
<1>7. CASE FindsTarget
  <2>1. Meant[protocol][client].host \in Host
    BY <1>2, <1>7 DEF FindsTarget, TargetRight, Moves
  <2>2. CASE Hops = <<>>
    <3>1. Exhausted'
      BY <1>2, <1>7, <2>2 DEF FindsTarget, Exhausted, HandshakeInv, ClientSide
    <3> QED BY <1>2, <1>7, <2>2, <2>1, <3>1 DEF FindsTarget, LooksUp, Goes
  <2>3. CASE Hops # <<>>
    <3>1. hop' = 1 /\ stage' = "dial" /\ target' \in Host
      BY <1>2, <1>7, <2>3 DEF FindsTarget
    <3>2. ServerStage' = "connecting"
      BY <1>1, <3>1
    <3>3. HopsLeft' = SubSeq(Hops, 1, Len(Hops)) /\ HopsTried' = SubSeq(Hops, 1, 1 - 1)
      BY <1>4, <3>1
    <3>4. SubSeq(Hops, 1, Len(Hops)) = Hops /\ SubSeq(Hops, 1, 1 - 1) = <<>>
      BY HopsAssumption
    <3> QED BY <1>2, <1>7, <2>1, <3>2, <3>3, <3>4 DEF FindsTarget, LooksUp, Goes
  <2> QED BY <2>2, <2>3
<1>8. CASE FindsNone
  <2>1. ~Exhausted'
    BY <1>2, <1>8 DEF FindsNone, Exhausted
  <2> QED BY <1>2, <1>8, <2>1 DEF FindsNone, Quits, Goes
<1>9. CASE TalksOn
  BY <1>1, <1>3, <1>4, <1>5, <1>9 DEF TalksOn, Stays
<1>10. CASE FallsBack
  <2>1. hop \in 1..Len(Hops) /\ Hops # <<>>
    BY <1>10, HopIs DEF FallsBack, HandshakeInv, HopSide
  <2>2. HopsLeft = SubSeq(Hops, hop, Len(Hops)) /\ HopsTried = SubSeq(Hops, 1, hop - 1)
    BY <1>1, <1>3, <1>5, <1>10 DEF FallsBack
  <2>3. /\ HopsLeft # <<>> /\ Tail(HopsLeft) = SubSeq(Hops, hop + 1, Len(Hops))
        /\ Append(HopsTried, Head(HopsLeft)) = SubSeq(Hops, 1, hop)
    BY <2>1, <2>2, OneHopLess
  <2>4. target' \in Host
    BY <1>5, <1>10 DEF FallsBack
  <2>5. CASE hop < Len(Hops)
    <3>1. hop' = hop + 1 /\ stage' = "dial"
      BY <1>10, <2>5 DEF FallsBack, NextHop
    <3>2. HopsLeft' = SubSeq(Hops, hop', Len(Hops)) /\ HopsTried' = SubSeq(Hops, 1, hop' - 1)
      BY <1>4, <2>4, <3>1
    <3>3. HopsLeft' = Tail(HopsLeft) /\ HopsTried' = Append(HopsTried, Head(HopsLeft))
      <4>1. hop \in Int /\ hop' = hop + 1
        BY <2>1, <3>1
      <4>2. SubSeq(Hops, hop', Len(Hops)) = SubSeq(Hops, hop + 1, Len(Hops))
            /\ SubSeq(Hops, 1, hop' - 1) = SubSeq(Hops, 1, hop)
        BY ONLY <4>1, AtNext
      <4> QED BY ONLY <2>3, <3>2, <4>2
    <3> QED BY <1>1, <1>10, <2>3, <3>1, <3>3 DEF FallsBack, TriesNext
  <2>6. CASE ~(hop < Len(Hops))
    <3>1. stage' = "end" /\ hop = Len(Hops)
      BY <1>10, <2>1, <2>6 DEF FallsBack, NextHop
    <3>2. Exhausted'
      BY <1>2, <1>10, <2>4, <3>1 DEF FallsBack, Exhausted
    <3>3. ServerStage' = "connecting" /\ HopsLeft' = <<>> /\ HopsTried' = Hops
      BY <2>4, <3>1, <3>2
    <3>4. SubSeq(Hops, hop + 1, Len(Hops)) = <<>> /\ SubSeq(Hops, 1, hop) = Hops
      BY <2>1, <3>1, HopsAssumption
    <3> QED BY <1>1, <1>10, <2>3, <3>3, <3>4 DEF FallsBack, TriesNext
  <2> QED BY <2>5, <2>6
<1>11. CASE Connects
  <2>1. hop \in 1..Len(Hops) /\ Hops # <<>>
    BY <1>11, HopIs DEF Connects, HandshakeInv, HopSide
  <2>2. HopsLeft # <<>>
    BY <1>1, <1>3, <1>5, <1>11, <2>1, OneHopLess DEF Connects
  <2> QED BY <1>1, <1>3, <1>4, <1>5, <1>11, <2>2 DEF Connects, GetsThrough, Goes
<1>12. CASE Sends
  BY <1>3, <1>4, <1>5, <1>12 DEF Sends, PassesOn, Goes
<1>13. CASE Leaves
  <2>1. verdict = "accepted"
    BY <1>13 DEF Leaves, HandshakeInv, HopSide
  <2>2. ~Exhausted'
    BY <1>13, <2>1 DEF Leaves, Exhausted
  <2> QED BY <1>3, <1>5, <1>13, <2>2 DEF Leaves, Quits, Goes
<1>14. CASE Relays
  BY <1>3, <1>4, <1>5, <1>14 DEF Relays, Stays
<1> QED BY <1>6, <1>7, <1>8, <1>9, <1>10, <1>11, <1>12, <1>13, <1>14 DEF Moves

\* Those are steps of Server, or none.
LEMMA SeenImplements ==
    ASSUME UNCHANGED <<protocol, client>>,
           Stays \/ LooksUp \/ Quits \/ GetsThrough \/ PassesOn \/ TriesNext
    PROVE  Srv!Handler(Me) \/ UNCHANGED Srv!vars
<1>1. CASE Stays
  BY <1>1 DEF Stays, Srv!vars
<1>2. CASE LooksUp
  <2>1. \A h \in Host : Srv!Lookup(1, h) = Hops
    BY DEF Srv!Lookup, Table
  <2> QED BY <1>2, <2>1, OfMe DEF LooksUp, Goes, Srv!Handler, Srv!ReadTarget, Srv!Goto
<1>3. CASE Quits
  BY <1>3, OfMe DEF Quits, Goes, Srv!Handler, Srv!ReadFails, Srv!WriteFails, Srv!RelayEnds,
                    Srv!Goto, Srv!End
<1>4. CASE GetsThrough
  BY <1>4, OfMe DEF GetsThrough, Goes, Srv!Handler, Srv!ConnectOk, Srv!Goto
<1>5. CASE PassesOn
  BY <1>5, OfMe DEF PassesOn, Goes, Srv!Handler, Srv!WriteOk, Srv!Goto
<1>6. CASE TriesNext
  BY <1>6, OfMe DEF TriesNext, Srv!Handler, Srv!ConnectFails
<1> QED BY <1>1, <1>2, <1>3, <1>4, <1>5, <1>6

\* It holds at the start, and a step keeps it and is one of Server.
LEMMA InitAt == Init => HandlerAt
<1>1. "first" \notin HopStage /\ "initial" \notin HopStage
  BY DEF HopStage
<1> QED BY <1>1 DEF Init, HandlerAt

LEMMA StepImplements ==
    ASSUME HandshakeInv, HandlerAt, [Next]_vars, HandshakeInv'
    PROVE  HandlerAt' /\ [Srv!Handler(Me)]_(Srv!vars)
<1>1. CASE Next
  <2>1. Moves
    BY <1>1, StepMoves
  <2>2. HandlerAt'
    BY <2>1, MovesKeep
  <2>3. Srv!Handler(Me) \/ UNCHANGED Srv!vars
    <3>1. TargetRight'
      BY DEF HandshakeInv
    <3> QED BY <2>1, <3>1, MovesSeen, SeenImplements DEF Moves
  <2> QED BY <2>2, <2>3
<1>2. CASE UNCHANGED vars
  <2>1. UNCHANGED <<stage, protocol, client, target, hop, verdict>>
    BY <1>2 DEF vars, clientVars, hopVars, tunnelVars
  <2>2. HandlerAt'
    BY <2>1 DEF HandlerAt
  <2>3. UNCHANGED <<ServerStage, HopsLeft, HopsTried>>
    BY <2>1 DEF ServerStage, HopsLeft, HopsTried, Exhausted
  <2>4. UNCHANGED Srv!vars
    BY <2>1, <2>3 DEF Srv!vars
  <2> QED BY <2>2, <2>4
<1> QED BY <1>1, <1>2

\* What handle_connection, connect_with_fallback and the three forms of
\* ProxyConfig::connect do byte by byte is, for one connection, what Server's
\* handler does in single steps: the permit, the fallback and the table of
\* Server were rightly reasoned about with those steps.
THEOREM HandlerIsImplemented == Spec => ImplementsHandler
<1>1. Init => HandlerAt
  BY InitAt
<1>2. HandshakeInv /\ HandshakeInv' /\ HandlerAt /\ [Next]_vars => HandlerAt'
  BY StepImplements
<1>3. HandshakeInv /\ HandshakeInv' /\ HandlerAt /\ [Next]_vars => [Srv!Handler(Me)]_(Srv!vars)
  BY StepImplements
<1> QED BY <1>1, <1>2, <1>3, HandshakeInvariant, PTL DEF Spec, ImplementsHandler
=============================================================================
