-------------------------- MODULE HostsFileProofs ---------------------------
(***************************************************************************)
(* Proofs about module HostsFile, for any set of names, any texts and any  *)
(* number of calls and edits: what write_atomic promises when operations   *)
(* fail and the process is killed, that a sync of a text that was synced   *)
(* changes nothing, and that a sync keeps the lines of the user.           *)
(***************************************************************************)
EXTENDS HostsFile, SequenceTheorems, FiniteSetTheorems, FunctionTheorems,
        WellFoundedInduction, TLAPS

-----------------------------------------------------------------------------
(***************************************************************************)
(* The text: Updated is idempotent.                                        *)
(***************************************************************************)

\* A token that is there has a first place.
LEMMA FirstPlace ==
    ASSUME NEW s \in Seq(Token), NEW tok, Has(s, tok)
    PROVE  /\ Find(s, tok) \in 1..Len(s) /\ s[Find(s, tok)] = tok
           /\ \A j \in 1..(Find(s, tok) - 1) : s[j] # tok
<1> DEFINE T == {i \in DOMAIN s : s[i] = tok}
<1>1. DOMAIN s = 1..Len(s) /\ Len(s) \in Nat
  BY LenProperties
<1>2. T \subseteq Nat /\ T # {}
  BY <1>1 DEF Has
<1> HIDE DEF T
<1>3. PICK i \in T : \A j \in T : ~(<<j, i>> \in OpToRel(<, Nat))
  BY <1>2, NatLessThanWellFounded, WFMin
<1>4. \A j \in T : ~(j < i)
  BY <1>2, <1>3 DEF OpToRel
<1>5. i \in DOMAIN s /\ s[i] = tok /\ \A j \in 1..(i - 1) : s[j] # tok
  BY <1>1, <1>4 DEF T
<1>6. Find(s, tok) \in DOMAIN s /\ s[Find(s, tok)] = tok /\ \A j \in 1..(Find(s, tok) - 1) : s[j] # tok
  BY <1>5 DEF Find
<1> QED BY <1>1, <1>6

\* The first place is known by what it is.
LEMMA FirstIs ==
    ASSUME NEW s \in Seq(Token), NEW tok, NEW i \in 1..Len(s), s[i] = tok,
           \A j \in 1..(i - 1) : s[j] # tok
    PROVE  Find(s, tok) = i
<1>1. DOMAIN s = 1..Len(s) /\ Len(s) \in Nat
  BY LenProperties
<1>2. Has(s, tok)
  BY <1>1 DEF Has
<1>3. Find(s, tok) \in 1..Len(s) /\ s[Find(s, tok)] = tok /\ \A j \in 1..(Find(s, tok) - 1) : s[j] # tok
  BY <1>2, FirstPlace
<1> QED BY <1>1, <1>3

\* One of each mark, the first token and the last but a line end.
IsBlock(b, nl) ==
    /\ b \in Seq(Token) /\ b # <<>> /\ Len(b) \in {4, 6}
    /\ b[1] = BEGIN_MARK /\ b[Len(b) - 1] = END_MARK /\ b[Len(b)] = nl
    /\ \A i \in 1..(Len(b) - 2) : b[i] # END_MARK
    /\ nl = LF => \A i \in 1..Len(b) : b[i] # CRLF

\* What RenderBlock writes.
LEMMA BlockShape ==
    ASSUME NEW ns \in Names, NEW nl \in {LF, CRLF}
    PROVE  IsBlock(RenderBlock(ns, nl), nl)
<1> USE NamesAssumption DEF BEGIN_MARK, END_MARK, LF, CRLF, IsBlock
<1>1. CASE ns = NoNames
  <2>1. RenderBlock(ns, nl) = <<"BEGIN", nl, "END", nl>>
    BY <1>1 DEF RenderBlock
  <2> QED BY <2>1 DEF Token
<1>2. CASE ns # NoNames
  <2>1. RenderBlock(ns, nl) = <<"BEGIN", nl, ns, nl, "END", nl>>
    BY <1>2 DEF RenderBlock
  <2>2. ns \in Token /\ nl \in Token
    BY <1>2 DEF Token
  <2>3. ns # "END" /\ ns # "CRLF"
    OBVIOUS
  <2> QED BY <2>1, <2>2, <2>3 DEF Token
<1> QED BY <1>1, <1>2

\* Three parts one behind the other.
LEMMA Places3 ==
    ASSUME NEW p \in Seq(Token), NEW b \in Seq(Token), NEW q \in Seq(Token)
    PROVE  LET u == p \o (b \o q)
           IN  /\ u \in Seq(Token) /\ Len(u) = Len(p) + Len(b) + Len(q)
               /\ \A i \in 1..Len(p) : u[i] = p[i]
               /\ \A i \in 1..Len(b) : u[Len(p) + i] = b[i]
               /\ \A i \in 1..Len(q) : u[Len(p) + Len(b) + i] = q[i]
<1> DEFINE v == b \o q
<1>1. /\ v \in Seq(Token) /\ Len(v) = Len(b) + Len(q)
      /\ \A i \in 1..Len(b) : v[i] = b[i]
      /\ \A i \in 1..Len(q) : v[Len(b) + i] = q[i]
  BY ConcatProperties
<1>2. Len(p) \in Nat /\ Len(b) \in Nat /\ Len(q) \in Nat
  BY LenProperties
<1> HIDE DEF v
<1> DEFINE u == p \o v
<1>3. /\ u \in Seq(Token) /\ Len(u) = Len(p) + Len(v)
      /\ \A i \in 1..Len(p) : u[i] = p[i]
      /\ \A i \in 1..Len(v) : u[Len(p) + i] = v[i]
  <2>1. /\ u \in Seq(Token) /\ Len(u) = Len(p) + Len(v)
        /\ \A i \in 1..(Len(p) + Len(v)) : u[i] = IF i <= Len(p) THEN p[i] ELSE v[i - Len(p)]
    <3>1. p \in Seq(Token) /\ v \in Seq(Token)
      BY <1>1
    <3> QED BY <3>1, ConcatProperties
  <2> HIDE DEF u
  <2>2. Len(v) \in Nat
    BY <1>1, <1>2
  <2>3. \A i \in 1..Len(p) : u[i] = p[i]
    BY <1>2, <2>1, <2>2
  <2>4. ASSUME NEW i \in 1..Len(v) PROVE u[Len(p) + i] = v[i]
    <3>1. Len(p) + i \in 1..(Len(p) + Len(v)) /\ ~(Len(p) + i <= Len(p)) /\ (Len(p) + i) - Len(p) = i
      BY <1>2, <2>2
    <3> QED BY <2>1, <3>1
  <2> QED BY <2>1, <2>3, <2>4
<1> HIDE DEF u
<1>4. \A i \in 1..Len(b) : u[Len(p) + i] = b[i]
  BY <1>1, <1>2, <1>3
<1>5. \A i \in 1..Len(q) : u[Len(p) + Len(b) + i] = q[i]
  BY <1>1, <1>2, <1>3
<1> QED BY <1>1, <1>2, <1>3, <1>4, <1>5 DEF u, v

\* A text around a block: what stands before has no BEGIN, and if an END
\* stands before, nothing stands behind.
Around(p, q) ==
    /\ p \in Seq(Token) /\ q \in Seq(Token)
    /\ ~Has(p, BEGIN_MARK)
    /\ Has(p, END_MARK) => q = <<>>

\* Such a text stays as it is when its block is replaced by the same block.
LEMMA ReplacedBySame ==
    ASSUME NEW nl \in {LF, CRLF}, NEW b, IsBlock(b, nl), NEW p, NEW q, Around(p, q)
    PROVE  ReplaceManagedBlock(p \o (b \o q), b) = p \o (b \o q)
<1> DEFINE n == Len(b)
           u == p \o (b \o q)
<1>1. /\ b \in Seq(Token) /\ n \in {4, 6} /\ b # <<>>
      /\ b[1] = BEGIN_MARK /\ b[n - 1] = END_MARK /\ b[n] \in {LF, CRLF}
      /\ \A i \in 1..(n - 2) : b[i] # END_MARK
  BY DEF IsBlock
<1>0. n \in {4, 6}
  BY <1>1
<1> HIDE DEF n
<1>2. p \in Seq(Token) /\ q \in Seq(Token) /\ Len(p) \in Nat /\ Len(q) \in Nat
      /\ DOMAIN p = 1..Len(p)
  BY LenProperties DEF Around
<1>3. /\ u \in Seq(Token) /\ Len(u) = Len(p) + n + Len(q)
      /\ \A i \in 1..Len(p) : u[i] = p[i]
      /\ \A i \in 1..n : u[Len(p) + i] = b[i]
      /\ \A i \in 1..Len(q) : u[Len(p) + n + i] = q[i]
  BY <1>1, <1>2, Places3 DEF n
<1> HIDE DEF u
<1>4. Find(u, BEGIN_MARK) = Len(p) + 1
  <2>1. \A j \in 1..Len(p) : u[j] # BEGIN_MARK
    BY <1>2, <1>3 DEF Around, Has
  <2>2. 1 \in 1..n /\ Len(p) + 1 \in 1..Len(u) /\ (Len(p) + 1) - 1 = Len(p)
    BY <1>0, <1>2, <1>3
  <2>3. u[Len(p) + 1] = BEGIN_MARK
    BY <1>1, <1>3, <2>2
  <2> DEFINE f == Len(p) + 1
  <2>4. f \in 1..Len(u) /\ u[f] = BEGIN_MARK /\ \A j \in 1..(f - 1) : u[j] # BEGIN_MARK
    BY <2>1, <2>2, <2>3
  <2> HIDE DEF f
  <2>5. Find(u, BEGIN_MARK) = f
    BY <1>3, <2>4, FirstIs
  <2> QED BY <2>5 DEF f
<1>5. SubSeq(u, 1, Len(p)) = p
  <2>1. /\ SubSeq(u, 1, Len(p)) \in Seq(Token)
        /\ Len(SubSeq(u, 1, Len(p))) = Len(p)
        /\ \A i \in 1..Len(p) : SubSeq(u, 1, Len(p))[i] = u[i]
    <3>1. \A i \in 1..Len(p) : u[i] \in Token
      BY <1>2, <1>3, ElementOfSeq
    <3> QED BY <1>2, <3>1, SubSeqProperties
  <2> QED BY <1>2, <1>3, <2>1, SeqEqual
<1>6. EndsInNewline(b)
  BY <1>1 DEF EndsInNewline, n
<1>7. ASSUME NEW k, SubSeq(u, k, Len(u)) = q PROVE Splice(u, Len(p) + 1, k, b) = u
  <2>1. Splice(u, Len(p) + 1, k, b) = ((p \o b) \o <<>>) \o q
    <3>1. (Len(p) + 1) - 1 = Len(p)
      BY <1>2
    <3> QED BY <1>5, <1>6, <1>7, <3>1, Zenon DEF Splice
  <2>2. (p \o b) \o <<>> = p \o b
    BY <1>0, <1>1, <1>2, ConcatProperties, ConcatEmptySeq
  <2>3. (p \o b) \o q = p \o (b \o q)
    <3>1. p \in Seq(Token) /\ b \in Seq(Token) /\ q \in Seq(Token)
      BY <1>1, <1>2
    <3> QED BY <3>1, ConcatAssociative
  <2> QED BY <2>1, <2>2, <2>3 DEF u
<1>8. CASE Has(p, END_MARK)
  <2>1. q = <<>> /\ SubSeq(u, Len(u) + 1, Len(u)) = q
    BY <1>0, <1>1, <1>2, <1>3, <1>8, SubSeqEmpty DEF Around
  <2>2. /\ Find(p, END_MARK) \in 1..Len(p) /\ p[Find(p, END_MARK)] = END_MARK
        /\ \A j \in 1..(Find(p, END_MARK) - 1) : p[j] # END_MARK
    BY <1>2, <1>8, FirstPlace
  <2>3. Find(u, END_MARK) = Find(p, END_MARK)
    <3> DEFINE f == Find(p, END_MARK)
    <3>1. f \in 1..Len(u) /\ u[f] = END_MARK /\ \A j \in 1..(f - 1) : u[j] # END_MARK
      BY <1>0, <1>1, <1>2, <1>3, <2>2
    <3> HIDE DEF f
    <3>2. Find(u, END_MARK) = f
      BY <1>3, <3>1, FirstIs
    <3> QED BY <3>2 DEF f
  <2>4. ~(Find(u, END_MARK) > Find(u, BEGIN_MARK)) /\ Find(u, BEGIN_MARK) # 0
    BY <1>2, <1>4, <2>2, <2>3
  <2>5. ReplaceManagedBlock(u, b) = Splice(u, Len(p) + 1, Len(u) + 1, b)
    BY <1>4, <2>4 DEF ReplaceManagedBlock
  <2> QED BY <1>7, <2>1, <2>5 DEF u
<1>9. CASE ~Has(p, END_MARK)
  <2>1. Find(u, END_MARK) = Len(p) + n - 1
    <3>1. \A j \in 1..(Len(p) + n - 2) : u[j] # END_MARK
      <4>1. \A j \in 1..Len(p) : u[j] # END_MARK
        BY <1>2, <1>3, <1>9 DEF Has
      <4>2. ASSUME NEW j \in (Len(p) + 1)..(Len(p) + n - 2) PROVE u[j] # END_MARK
        <5>1. j - Len(p) \in 1..(n - 2) /\ j - Len(p) \in 1..n /\ Len(p) + (j - Len(p)) = j
          BY <1>0, <1>2
        <5>2. u[Len(p) + (j - Len(p))] = b[j - Len(p)]
          BY <1>3, <5>1
        <5> QED BY <1>1, <5>1, <5>2
      <4> QED BY <1>0, <1>1, <1>2, <4>1, <4>2
    <3>2. u[Len(p) + n - 1] = END_MARK /\ Len(p) + n - 1 \in 1..Len(u)
      <4>1. n - 1 \in 1..n /\ Len(p) + (n - 1) = Len(p) + n - 1
        BY <1>0, <1>1, <1>2
      <4>2. u[Len(p) + (n - 1)] = b[n - 1]
        BY <1>3, <4>1
      <4>3. Len(p) + n - 1 \in 1..Len(u)
        BY <1>0, <1>2, <1>3
      <4> QED BY <1>1, <4>1, <4>2, <4>3
    <3>3. \A j \in 1..((Len(p) + n - 1) - 1) : u[j] # END_MARK
      BY <1>0, <1>1, <1>2, <3>1
    <3> DEFINE f == Len(p) + n - 1
    <3>4. f \in 1..Len(u) /\ u[f] = END_MARK /\ \A j \in 1..(f - 1) : u[j] # END_MARK
      BY <3>2, <3>3
    <3> HIDE DEF f
    <3>5. Find(u, END_MARK) = f
      BY <1>3, <3>4, FirstIs
    <3> QED BY <3>5 DEF f
  <2>2. SkipEol(u, Len(p) + n) = Len(p) + n + 1
    <3>1. u[Len(p) + n] = b[n] /\ Len(p) + n <= Len(u)
      BY <1>0, <1>1, <1>2, <1>3
    <3> QED BY <1>1, <3>1 DEF SkipEol
  <2>3. SubSeq(u, Len(p) + n + 1, Len(u)) = q
    <3> DEFINE k == Len(p) + n + 1
               t == SubSeq(u, k, Len(u))
    <3>1. k \in Int /\ Len(u) \in Int /\ \A i \in k..Len(u) : u[i] \in Token
      BY <1>0, <1>1, <1>2, <1>3, ElementOfSeq
    <3>2. /\ t \in Seq(Token) /\ Len(t) = IF k <= Len(u) THEN Len(u) - k + 1 ELSE 0
          /\ \A i \in 1..(Len(u) - k + 1) : t[i] = u[k + i - 1]
      BY <3>1, SubSeqProperties
    <3> HIDE DEF t
    <3>3. Len(t) = Len(q)
      BY <1>0, <1>2, <1>3, <3>2
    <3>4. \A i \in 1..Len(q) : k + i - 1 = Len(p) + n + i /\ Len(u) - k + 1 = Len(q)
      BY <1>0, <1>1, <1>2, <1>3
    <3>5. \A i \in 1..Len(t) : t[i] = q[i]
      BY <1>3, <3>2, <3>3, <3>4
    <3>6. t = q
      BY <1>2, <3>2, <3>3, <3>5, SeqEqual
    <3> QED BY <3>6 DEF t
  <2>4. /\ Find(u, BEGIN_MARK) # 0 /\ Find(u, END_MARK) > Find(u, BEGIN_MARK)
        /\ Find(u, END_MARK) + 1 = Len(p) + n
    BY <1>0, <1>2, <1>4, <2>1
  <2>5. ReplaceManagedBlock(u, b) = Splice(u, Len(p) + 1, Len(p) + n + 1, b)
    BY <1>4, <2>2, <2>4 DEF ReplaceManagedBlock
  <2> QED BY <1>7, <2>3, <2>5 DEF u
<1> QED BY <1>8, <1>9 DEF u

\* A text with no CRLF.
Plain(s) == ~Has(s, CRLF)

\* A part of a text is one, and has only tokens the text has.
LEMMA PartOf ==
    ASSUME NEW s \in Seq(Token), NEW m \in Nat \ {0}, NEW n \in Nat, n <= Len(s)
    PROVE  /\ SubSeq(s, m, n) \in Seq(Token)
           /\ \A tok : Has(SubSeq(s, m, n), tok) => \E i \in m..n : s[i] = tok
<1> DEFINE t == SubSeq(s, m, n)
<1>1. Len(s) \in Nat /\ \A i \in m..n : s[i] \in Token
  BY LenProperties, ElementOfSeq
<1>2. /\ t \in Seq(Token) /\ Len(t) = IF m <= n THEN n - m + 1 ELSE 0
      /\ \A i \in 1..(n - m + 1) : t[i] = s[m + i - 1]
  BY <1>1, SubSeqProperties
<1> HIDE DEF t
<1>3. DOMAIN t = 1..Len(t)
  BY <1>2, LenProperties
<1>4. ASSUME NEW i \in DOMAIN t PROVE m + i - 1 \in m..n /\ t[i] = s[m + i - 1]
  BY <1>2, <1>3
<1>5. \A tok : Has(t, tok) => \E i \in m..n : s[i] = tok
  BY <1>4 DEF Has
<1> QED BY <1>2, <1>5 DEF t

\* p, b, nothing, q: the parts of Splice and of AppendBlock.
LEMMA Regroup ==
    ASSUME NEW p \in Seq(Token), NEW b \in Seq(Token), NEW q \in Seq(Token)
    PROVE  ((p \o b) \o <<>>) \o q = p \o (b \o q) /\ (p \o b) \o <<>> = p \o (b \o <<>>)
<1>1. p \o b \in Seq(Token) /\ <<>> \in Seq(Token)
  BY ConcatProperties, EmptySeq
<1>2. (p \o b) \o <<>> = p \o b
  BY <1>1, ConcatEmptySeq
<1>3. (p \o b) \o q = p \o (b \o q)
  BY ConcatAssociative
<1>4. b \o <<>> = b
  BY ConcatEmptySeq
<1> QED BY <1>2, <1>3, <1>4

\* Line ends put behind a text add no line of the user.
LEMMA LineEndsAdded ==
    ASSUME NEW s \in Seq(Token), NEW t \in Seq(Token), \A i \in 1..Len(t) : t[i] \in {LF, CRLF}
    PROVE  s \o t \in Seq(Token) /\ Places(s \o t, UserLine) = Places(s, UserLine)
<1> DEFINE u == s \o t
<1>1. /\ u \in Seq(Token) /\ Len(u) = Len(s) + Len(t)
      /\ \A i \in 1..(Len(s) + Len(t)) : u[i] = IF i <= Len(s) THEN s[i] ELSE t[i - Len(s)]
  BY ConcatProperties
<1>2. Len(s) \in Nat /\ Len(t) \in Nat /\ DOMAIN s = 1..Len(s)
  BY LenProperties
<1> HIDE DEF u
<1>3. DOMAIN u = 1..(Len(s) + Len(t))
  BY <1>1, LenProperties
<1>4. ASSUME NEW i \in 1..(Len(s) + Len(t)), ~(i <= Len(s)) PROVE u[i] \in {LF, CRLF}
  <2>1. i - Len(s) \in 1..Len(t)
    BY <1>2, <1>4
  <2> QED BY <1>1, <1>4, <2>1
<1>5. Places(u, UserLine) = Places(s, UserLine)
  <2>1. \A i \in 1..(Len(s) + Len(t)) : u[i] = UserLine => i \in 1..Len(s) /\ s[i] = UserLine
    BY <1>1, <1>2, <1>4 DEF UserLine, LF, CRLF
  <2>2. \A i \in 1..Len(s) : i \in 1..(Len(s) + Len(t)) /\ u[i] = s[i]
    BY <1>1, <1>2
  <2> QED BY <1>2, <1>3, <2>1, <2>2 DEF Places
<1> QED BY <1>1, <1>5 DEF u

\* A text whose last line is ended has no tokens but its own and that line end,
\* which is a CRLF only where a carriage return stood; its user lines stay.
LEMMA LineEnded ==
    ASSUME NEW s \in Seq(Token)
    PROVE  /\ EndLine(s) \in Seq(Token)
           /\ \A tok : Has(EndLine(s), tok) =>
                  Has(s, tok) \/ tok = LF \/ (tok = CRLF /\ s # <<>> /\ s[Len(s)] = CR)
           /\ Places(EndLine(s), UserLine) = Places(s, UserLine)
<1>1. LF \in Token /\ CRLF \in Token
  BY DEF Token
<1>2. DOMAIN s = 1..Len(s) /\ Len(s) \in Nat
  BY LenProperties
<1>3. CASE s = <<>> \/ EndsInNewline(s)
  BY <1>3 DEF EndLine
<1>4. CASE ~(s = <<>> \/ EndsInNewline(s)) /\ s[Len(s)] # CR
  <2> DEFINE t == Append(s, LF)
  <2>1. EndLine(s) = t
    BY <1>4 DEF EndLine
  <2>2. /\ t \in Seq(Token) /\ Len(t) = Len(s) + 1
        /\ \A i \in 1..Len(s) : t[i] = s[i]
        /\ t[Len(s) + 1] = LF
    BY <1>1, AppendProperties
  <2> HIDE DEF t
  <2>3. DOMAIN t = 1..(Len(s) + 1)
    BY <2>2, LenProperties
  <2>4. ASSUME NEW i \in DOMAIN t PROVE (i \in DOMAIN s /\ t[i] = s[i]) \/ t[i] = LF
    BY <1>2, <2>2, <2>3
  <2>5. \A tok : Has(t, tok) => Has(s, tok) \/ tok = LF
    BY <2>4 DEF Has
  <2>6. \A i \in DOMAIN s : i \in DOMAIN t /\ t[i] = s[i]
    BY <1>2, <2>2, <2>3
  <2>7. Places(t, UserLine) = Places(s, UserLine)
    BY <2>4, <2>6 DEF Places, UserLine, LF
  <2> QED BY <2>1, <2>2, <2>5, <2>7
<1>5. CASE ~(s = <<>> \/ EndsInNewline(s)) /\ s[Len(s)] = CR
  <2> DEFINE v == SubSeq(s, 1, Len(s) - 1)
             t == Append(v, CRLF)
  <2>1. EndLine(s) = t
    BY <1>5 DEF EndLine
  <2>2. Len(s) \in Nat /\ Len(s) # 0
    BY <1>2, <1>5, EmptySeq
  <2>3. v \in Seq(Token) /\ Len(v) = Len(s) - 1 /\ \A i \in 1..(Len(s) - 1) : v[i] = s[i]
    <3>1. \A i \in 1..(Len(s) - 1) : s[i] \in Token
      BY <1>2, ElementOfSeq
    <3>2. 1 \in Int /\ Len(s) - 1 \in Int
      BY <1>2
    <3>3. /\ v \in Seq(Token) /\ Len(v) = IF 1 <= Len(s) - 1 THEN (Len(s) - 1) - 1 + 1 ELSE 0
          /\ \A i \in 1..((Len(s) - 1) - 1 + 1) : v[i] = s[1 + i - 1]
      BY <3>1, <3>2, SubSeqProperties
    <3> HIDE DEF v
    <3>4. Len(v) = Len(s) - 1
      <4>1. Len(v) = IF 1 <= Len(s) - 1 THEN (Len(s) - 1) - 1 + 1 ELSE 0
        BY <3>3
      <4> DEFINE n == Len(s)
      <4>2. n \in Nat /\ n # 0 /\ Len(v) = IF 1 <= n - 1 THEN (n - 1) - 1 + 1 ELSE 0
        BY <2>2, <4>1
      <4> HIDE DEF n
      <4>3. Len(v) = n - 1
        BY ONLY <4>2
      <4> QED BY <4>3 DEF n
    <3>5. ASSUME NEW i \in 1..(Len(s) - 1) PROVE v[i] = s[i]
      <4>1. i \in 1..((Len(s) - 1) - 1 + 1) /\ 1 + i - 1 = i
        BY <1>2
      <4> QED BY <3>3, <4>1
    <3> QED BY <3>3, <3>4, <3>5
  <2> HIDE DEF v
  <2>4. /\ t \in Seq(Token) /\ Len(t) = Len(v) + 1
        /\ \A i \in 1..Len(v) : t[i] = v[i]
        /\ t[Len(v) + 1] = CRLF
    BY <1>1, <2>3, AppendProperties
  <2> HIDE DEF t
  <2>5. DOMAIN t = 1..Len(s) /\ t[Len(s)] = CRLF /\ \A i \in 1..(Len(s) - 1) : t[i] = s[i]
    BY <1>2, <2>2, <2>3, <2>4, LenProperties
  <2>6. ASSUME NEW i \in DOMAIN t PROVE (i \in DOMAIN s /\ t[i] = s[i]) \/ (i = Len(s) /\ t[i] = CRLF)
    BY <1>2, <2>5
  <2>7. \A tok : Has(t, tok) => Has(s, tok) \/ tok = CRLF
    BY <2>6 DEF Has
  <2>8. \A i \in DOMAIN s : i \in DOMAIN t /\ (i = Len(s) \/ t[i] = s[i])
    BY <1>2, <2>5
  <2>9. Places(t, UserLine) = Places(s, UserLine)
    BY <1>5, <2>5, <2>6, <2>8 DEF Places, UserLine, CRLF, CR
  <2> QED BY <1>5, <2>1, <2>4, <2>7, <2>9
<1> QED BY <1>3, <1>4, <1>5

\* What AppendBlock puts in front of the block: s and line ends.
LEMMA Lengthened ==
    ASSUME NEW s \in Seq(Token), NEW nl \in {LF, CRLF}
    PROVE  LET p == EndLine(s) \o (IF s = <<>> THEN <<>> ELSE <<nl>>)
           IN  /\ p \in Seq(Token)
               /\ \A tok : Has(p, tok) =>
                      Has(s, tok) \/ tok \in {LF, nl} \/ (tok = CRLF /\ s # <<>> /\ s[Len(s)] = CR)
               /\ Places(p, UserLine) = Places(s, UserLine)
<1> DEFINE lines == EndLine(s)
           end == IF s = <<>> THEN <<>> ELSE <<nl>>
           p == lines \o end
<1>1. LF \in Token /\ nl \in Token
  BY DEF Token
<1>3. /\ lines \in Seq(Token)
      /\ \A tok : Has(lines, tok) => Has(s, tok) \/ tok = LF \/ (tok = CRLF /\ s # <<>> /\ s[Len(s)] = CR)
      /\ Places(lines, UserLine) = Places(s, UserLine)
  BY LineEnded
<1>4. end \in Seq(Token) /\ \A tok : Has(end, tok) => tok = nl
  <2>1. CASE s = <<>>
    BY <2>1 DEF Has
  <2>2. CASE s # <<>>
    BY <1>1, <2>2 DEF Has
  <2> QED BY <2>1, <2>2
<1> HIDE DEF lines, end
<1>5. p \in Seq(Token) /\ \A tok : Has(p, tok) => Has(lines, tok) \/ Has(end, tok)
  <2>1. Len(lines) \in Nat /\ Len(end) \in Nat /\ DOMAIN lines = 1..Len(lines) /\ DOMAIN end = 1..Len(end)
    BY <1>3, <1>4, LenProperties
  <2>2. /\ p \in Seq(Token) /\ Len(p) = Len(lines) + Len(end)
        /\ \A i \in 1..(Len(lines) + Len(end)) :
              p[i] = IF i <= Len(lines) THEN lines[i] ELSE end[i - Len(lines)]
    BY <1>3, <1>4, ConcatProperties
  <2> HIDE DEF p
  <2>3. DOMAIN p = 1..(Len(lines) + Len(end))
    BY <2>2, LenProperties
  <2>4. ASSUME NEW i \in DOMAIN p
        PROVE  (\E j \in DOMAIN lines : p[i] = lines[j]) \/ (\E j \in DOMAIN end : p[i] = end[j])
    <3>1. CASE i <= Len(lines)
      BY <2>1, <2>2, <2>3, <3>1
    <3>2. CASE ~(i <= Len(lines))
      <4>1. i - Len(lines) \in DOMAIN end
        BY <2>1, <2>3, <3>2
      <4> QED BY <2>2, <2>3, <3>2, <4>1
    <3> QED BY <3>1, <3>2
  <2> QED BY <2>2, <2>4 DEF Has
<1>6. Places(p, UserLine) = Places(s, UserLine)
  <2>1. \A i \in 1..Len(end) : end[i] \in {LF, CRLF}
    <3>1. DOMAIN end = 1..Len(end)
      BY <1>4, LenProperties
    <3>2. ASSUME NEW i \in 1..Len(end) PROVE end[i] = nl
      <4>1. Has(end, end[i])
        BY <3>1 DEF Has
      <4> QED BY <1>4, <4>1
    <3> QED BY <3>2
  <2> QED BY <1>3, <1>4, <2>1, LineEndsAdded
<1> QED BY <1>3, <1>4, <1>5, <1>6 DEF p, lines, end

\* Every text a sync writes is a text around the block it wanted.
LEMMA UpdatedShape ==
    ASSUME NEW s \in Seq(Token), NEW ns \in Names
    PROVE  \E p, q :
              /\ Around(p, q)
              /\ Updated(s, ns) = p \o (RenderBlock(ns, NewlineOf(s)) \o q)
              /\ (NewlineOf(s) = LF /\ ~TurnsCrlf(s)) => Plain(p) /\ Plain(q)
<1> DEFINE nl == NewlineOf(s)
           b == RenderBlock(ns, nl)
           start == Find(s, BEGIN_MARK)
           end == Find(s, END_MARK)
<1>1. nl \in {LF, CRLF} /\ (nl = LF => Plain(s))
  BY DEF NewlineOf, Plain, LF, CRLF
<1>2. b \in Seq(Token) /\ EndsInNewline(b)
  <2>1. IsBlock(b, nl)
    BY <1>1, BlockShape
  <2> HIDE DEF b, nl
  <2> QED BY <1>1, <2>1 DEF EndsInNewline, IsBlock
<1>3. Updated(s, ns) = ReplaceManagedBlock(s, b)
  BY DEF Updated
<1>4. Len(s) \in Nat /\ DOMAIN s = 1..Len(s)
  BY LenProperties
<1>5. <<>> \in Seq(Token) /\ \A tok : ~Has(<<>>, tok)
  BY EmptySeq DEF Has
<1> HIDE DEF nl, b, start, end
<1>6. ASSUME start # 0, NEW k \in Nat \ {0}, end > start \/ k = Len(s) + 1,
             ReplaceManagedBlock(s, b) = Splice(s, start, k, b)
      PROVE  \E p, q : Around(p, q) /\ ReplaceManagedBlock(s, b) = p \o (b \o q) /\ (nl = LF => Plain(p) /\ Plain(q))
  <2> DEFINE p == SubSeq(s, 1, start - 1)
             q == SubSeq(s, k, Len(s))
  <2>1. Has(s, BEGIN_MARK)
    BY <1>6 DEF start, Find
  <2>2. start \in 1..Len(s) /\ \A j \in 1..(start - 1) : s[j] # BEGIN_MARK
    BY <2>1, FirstPlace DEF start
  <2>3. p \in Seq(Token) /\ \A tok : Has(p, tok) => \E i \in 1..(start - 1) : s[i] = tok
    <3>1. start - 1 \in Nat /\ start - 1 <= Len(s) /\ 1 \in Nat \ {0}
      BY <1>4, <2>2
    <3> QED BY <3>1, PartOf
  <2>4. q \in Seq(Token) /\ \A tok : Has(q, tok) => \E i \in k..Len(s) : s[i] = tok
    BY <1>4, PartOf
  <2>5. k = Len(s) + 1 => q = <<>>
    BY <1>4, SubSeqEmpty
  <2>6. ReplaceManagedBlock(s, b) = ((p \o b) \o <<>>) \o q
    BY <1>2, <1>6 DEF Splice
  <2> HIDE DEF p, q
  <2>7. ReplaceManagedBlock(s, b) = p \o (b \o q)
    BY <1>2, <2>3, <2>4, <2>6, Regroup
  <2>8. ASSUME end > start PROVE ~Has(p, END_MARK)
    <3>1. Has(s, END_MARK)
      BY <2>2, <2>8 DEF end, Find
    <3>2. end \in 1..Len(s) /\ \A j \in 1..(end - 1) : s[j] # END_MARK
      BY <3>1, FirstPlace DEF end
    <3>3. \A j \in 1..(start - 1) : s[j] # END_MARK
      BY <2>2, <2>8, <3>2
    <3> QED BY <2>3, <3>3
  <2>9. Around(p, q)
    BY <1>6, <2>2, <2>3, <2>4, <2>5, <2>8 DEF Around
  <2>10. ASSUME nl = LF PROVE Plain(p) /\ Plain(q)
    <3>1. \A i \in 1..Len(s) : s[i] # CRLF
      BY <1>1, <1>4, <2>10 DEF Plain, Has
    <3>2. \A i \in 1..(start - 1) : s[i] # CRLF
      BY <1>4, <2>2, <3>1
    <3>3. \A i \in k..Len(s) : s[i] # CRLF
      BY <1>4, <3>1
    <3> QED BY <2>3, <2>4, <3>2, <3>3 DEF Plain
  <2> QED BY <2>7, <2>9, <2>10
<1>7. CASE start # 0 /\ end > start
  <2>1. ReplaceManagedBlock(s, b) = Splice(s, start, SkipEol(s, end + 1), b)
    BY <1>7 DEF ReplaceManagedBlock, start, end
  <2>2. Has(s, END_MARK) /\ Has(s, BEGIN_MARK)
    <3>1. Has(s, BEGIN_MARK)
      BY <1>7 DEF start, Find
    <3>2. start \in 1..Len(s)
      BY <3>1, FirstPlace DEF start
    <3> QED BY <1>4, <1>7, <3>1, <3>2 DEF end, Find
  <2>3. end \in 1..Len(s)
    BY <2>2, FirstPlace DEF end
  <2>4. SkipEol(s, end + 1) \in Nat \ {0}
    BY <1>4, <2>3 DEF SkipEol
  <2> QED BY <1>3, <1>6, <1>7, <2>1, <2>4 DEF b, nl
<1>8. CASE start # 0 /\ ~(end > start)
  <2>1. ReplaceManagedBlock(s, b) = Splice(s, start, Len(s) + 1, b)
    BY <1>8 DEF ReplaceManagedBlock, start, end
  <2>2. Len(s) + 1 \in Nat \ {0}
    BY <1>4
  <2> QED BY <1>3, <1>6, <1>8, <2>1, <2>2 DEF b, nl
<1>9. CASE start = 0
  <2> DEFINE p == EndLine(s) \o (IF s = <<>> THEN <<>> ELSE <<nl>>)
  <2>1. ~Has(s, BEGIN_MARK)
    <3>1. SUFFICES ASSUME Has(s, BEGIN_MARK) PROVE FALSE
      OBVIOUS
    <3>2. start \in 1..Len(s)
      BY <3>1, FirstPlace DEF start
    <3> QED BY <1>4, <1>9, <3>2
  <2>2. /\ p \in Seq(Token)
        /\ \A tok : Has(p, tok) =>
              Has(s, tok) \/ tok \in {LF, nl} \/ (tok = CRLF /\ s # <<>> /\ s[Len(s)] = CR)
    BY <1>1, Lengthened
  <2>3. ReplaceManagedBlock(s, b) = (p \o b) \o <<>>
    BY <1>2, <1>9 DEF ReplaceManagedBlock, AppendBlock, start, end, nl
  <2> HIDE DEF p
  <2>4. ReplaceManagedBlock(s, b) = p \o (b \o <<>>)
    BY <1>2, <1>5, <2>2, <2>3, Regroup
  <2>5. Around(p, <<>>)
    BY <1>1, <1>5, <2>1, <2>2 DEF Around, LF, CRLF, BEGIN_MARK
  <2>6. (nl = LF /\ ~TurnsCrlf(s)) => Plain(p) /\ Plain(<<>>)
    BY <1>1, <1>5, <2>1, <2>2 DEF Plain, TurnsCrlf, LF, CRLF
  <2> QED BY <1>3, <2>4, <2>5, <2>6 DEF b, nl
<1> QED BY <1>7, <1>8, <1>9

\* A block brings the line ends of its text and no others.
LEMMA SameNewline ==
    ASSUME NEW s \in Seq(Token), NEW ns \in Names, NEW p, NEW q, Around(p, q),
           NewlineOf(s) = LF => Plain(p) /\ Plain(q)
    PROVE  LET u == p \o (RenderBlock(ns, NewlineOf(s)) \o q)
           IN  u \in Seq(Token) /\ NewlineOf(u) = NewlineOf(s)
<1> DEFINE nl == NewlineOf(s)
           b == RenderBlock(ns, nl)
           n == Len(b)
           u == p \o (b \o q)
<1>1. nl \in {LF, CRLF}
  BY DEF NewlineOf
<1>2. b \in Seq(Token) /\ n \in {4, 6} /\ b[n] = nl /\ (nl = LF => \A i \in 1..n : b[i] # CRLF)
  BY <1>1, BlockShape DEF IsBlock
<1>3. p \in Seq(Token) /\ q \in Seq(Token)
  BY DEF Around
<1> HIDE DEF b, nl
<1>4. /\ u \in Seq(Token) /\ Len(u) = Len(p) + n + Len(q)
      /\ \A i \in 1..Len(p) : u[i] = p[i]
      /\ \A i \in 1..n : u[Len(p) + i] = b[i]
      /\ \A i \in 1..Len(q) : u[Len(p) + n + i] = q[i]
  BY <1>2, <1>3, Places3
<1>5. n \in {4, 6} /\ Len(p) \in Nat /\ Len(q) \in Nat
  BY <1>2, <1>3, LenProperties
<1> HIDE DEF u, n
<1>6. DOMAIN u = 1..Len(u) /\ DOMAIN p = 1..Len(p) /\ DOMAIN q = 1..Len(q)
  BY <1>3, <1>4, LenProperties
<1>7. CASE nl = CRLF
  <2>1. n \in 1..n /\ Len(p) + n \in 1..Len(u)
    BY <1>4, <1>5
  <2>2. u[Len(p) + n] = CRLF
    BY <1>2, <1>4, <1>7, <2>1
  <2>3. Has(u, CRLF)
    BY <1>6, <2>1, <2>2 DEF Has
  <2> QED BY <1>4, <1>7, <2>3 DEF NewlineOf, u, b, nl
<1>8. CASE nl = LF
  <2>1. ASSUME NEW i \in 1..Len(u) PROVE u[i] # CRLF
    <3>1. CASE i \in 1..Len(p)
      BY <1>4, <1>6, <1>8, <3>1 DEF Plain, Has, nl
    <3>2. CASE i \in (Len(p) + 1)..(Len(p) + n)
      <4>1. i - Len(p) \in 1..n /\ Len(p) + (i - Len(p)) = i
        BY <1>5, <3>2
      <4>2. u[Len(p) + (i - Len(p))] = b[i - Len(p)]
        BY <1>4, <4>1
      <4> QED BY <1>2, <1>8, <4>1, <4>2
    <3>3. CASE i \in (Len(p) + n + 1)..Len(u)
      <4>1. i - (Len(p) + n) \in 1..Len(q) /\ Len(p) + n + (i - (Len(p) + n)) = i
        BY <1>4, <1>5, <3>3
      <4>2. u[i] = q[i - (Len(p) + n)]
        BY <1>4, <4>1
      <4> QED BY <1>6, <1>8, <4>1, <4>2 DEF Plain, Has, nl
    <3> QED BY <1>4, <1>5, <3>1, <3>2, <3>3
  <2>2. ~Has(u, CRLF)
    BY <1>6, <2>1 DEF Has
  <2> QED BY <1>4, <1>8, <2>2 DEF NewlineOf, u, b, nl
<1> QED BY <1>1, <1>7, <1>8

\* A sync writes a text with a block, and the next one writes the same, unless
\* the first turned the line ends.
LEMMA Idempotent ==
    ASSUME NEW s \in Seq(Token), NEW ns \in Names
    PROVE  /\ Updated(s, ns) \in Seq(Token) /\ ~TurnsCrlf(Updated(s, ns))
           /\ ~TurnsCrlf(s) => Updated(Updated(s, ns), ns) = Updated(s, ns)
<1> DEFINE nl == NewlineOf(s)
           b == RenderBlock(ns, nl)
<1>1. PICK p, q : /\ Around(p, q) /\ Updated(s, ns) = p \o (b \o q)
                  /\ (nl = LF /\ ~TurnsCrlf(s)) => Plain(p) /\ Plain(q)
  BY UpdatedShape
<1> DEFINE u == p \o (b \o q)
<1>2. nl \in {LF, CRLF}
  BY DEF NewlineOf
<1>3. IsBlock(b, nl)
  BY <1>2, BlockShape
<1>4. u \in Seq(Token) /\ ~TurnsCrlf(u)
  <2>1. b \in Seq(Token) /\ Len(b) \in {4, 6} /\ b[1] = BEGIN_MARK
    BY <1>3 DEF IsBlock
  <2>2. p \in Seq(Token) /\ q \in Seq(Token) /\ Len(p) \in Nat /\ Len(q) \in Nat
    BY <1>1, LenProperties DEF Around
  <2> HIDE DEF b, nl
  <2>3. /\ u \in Seq(Token) /\ Len(u) = Len(p) + Len(b) + Len(q)
        /\ \A i \in 1..Len(b) : u[Len(p) + i] = b[i]
    BY <2>1, <2>2, Places3
  <2> HIDE DEF u
  <2>4. DOMAIN u = 1..Len(u)
    BY <2>3, LenProperties
  <2>5. 1 \in 1..Len(b) /\ Len(p) + 1 \in 1..Len(u)
    BY <2>1, <2>2, <2>3
  <2>6. Has(u, BEGIN_MARK)
    BY <2>1, <2>3, <2>4, <2>5 DEF Has
  <2> QED BY <2>3, <2>6 DEF TurnsCrlf
<1>5. ASSUME ~TurnsCrlf(s) PROVE Updated(u, ns) = u
  <2>1. NewlineOf(u) = nl
    BY <1>1, <1>5, SameNewline
  <2>2. ReplaceManagedBlock(u, b) = u
    <3> HIDE DEF nl, b
    <3> QED BY <1>1, <1>2, <1>3, ReplacedBySame
  <2>3. Updated(u, ns) = ReplaceManagedBlock(u, RenderBlock(ns, NewlineOf(u)))
    BY DEF Updated
  <2> HIDE DEF u, nl
  <2> QED BY <2>1, <2>2, <2>3
<1>6. Updated(s, ns) = u
  BY <1>1
<1> HIDE DEF u, nl, b
<1> QED BY <1>4, <1>5, <1>6, Zenon

-----------------------------------------------------------------------------
(***************************************************************************)
(* The lines of the user.                                                  *)
(***************************************************************************)

\* The places of a token can be counted.
LEMMA PlacesCount ==
    ASSUME NEW s \in Seq(Token), NEW tok
    PROVE  /\ Places(s, tok) \subseteq 1..Len(s) /\ IsFiniteSet(Places(s, tok))
           /\ Cardinality(Places(s, tok)) \in Nat
<1>1. DOMAIN s = 1..Len(s) /\ Len(s) \in Nat
  BY LenProperties
<1>2. Places(s, tok) \subseteq 1..Len(s)
  BY <1>1 DEF Places
<1>3. IsFiniteSet(1..Len(s))
  BY <1>1, FS_Interval
<1> QED BY <1>2, <1>3, FS_Subset, FS_CardinalityType

\* There are as many places if all of them are moved.
LEMMA Shifted ==
    ASSUME NEW n \in Nat, NEW Q, Q \subseteq Nat, IsFiniteSet(Q)
    PROVE  IsFiniteSet({n + i : i \in Q}) /\ Cardinality({n + i : i \in Q}) = Cardinality(Q)
<1> DEFINE R == {n + i : i \in Q}
           f == [i \in Q |-> n + i]
<1>1. f \in [Q -> R] /\ \A a, b \in Q : f[a] = f[b] => a = b
  OBVIOUS
<1>2. \A r \in R : \E i \in Q : f[i] = r
  OBVIOUS
<1> HIDE DEF R, f
<1>3. f \in Bijection(Q, R)
  BY <1>1, <1>2, Fun_IsBij
<1>4. ExistsBijection(Q, R)
  BY <1>3 DEF ExistsBijection
<1> QED BY <1>4, FS_Bijection DEF R

\* A text without marks.
NoMarks(p) == p \in Seq(Token) /\ ~Has(p, BEGIN_MARK) /\ ~Has(p, END_MARK)

\* What a sync replaces, and what it puts there: a BEGIN, the END at place e,
\* and at most line ends behind it.
Region(x, e) ==
    /\ x \in Seq(Token) /\ e \in 2..Len(x)
    /\ x[1] = BEGIN_MARK /\ x[e] = END_MARK
    /\ \A j \in 2..(e - 1) : x[j] \notin {BEGIN_MARK, END_MARK}
    /\ \A j \in (e + 1)..Len(x) : x[j] \in {LF, CRLF}

\* Around one region the marks are in order, and the user's lines are those
\* before it and behind it.
LEMMA OneRegion ==
    ASSUME NEW p, NEW x, NEW q, NEW e, NoMarks(p), NoMarks(q), Region(x, e)
    PROVE  LET u == p \o (x \o q)
           IN  /\ WellFormed(u)
               /\ UserLines(u) = Cardinality(Places(p, UserLine)) + Cardinality(Places(q, UserLine))
<1> DEFINE u == p \o (x \o q)
           n == Len(p)
           m == Len(x)
           l == Len(q)
<1>1. /\ p \in Seq(Token) /\ q \in Seq(Token) /\ x \in Seq(Token)
      /\ n \in Nat /\ m \in Nat /\ l \in Nat
      /\ DOMAIN p = 1..n /\ DOMAIN q = 1..l
  BY LenProperties DEF NoMarks, Region
<1>2. /\ u \in Seq(Token) /\ Len(u) = n + m + l
      /\ \A i \in 1..n : u[i] = p[i]
      /\ \A i \in 1..m : u[n + i] = x[i]
      /\ \A i \in 1..l : u[n + m + i] = q[i]
  BY <1>1, Places3
<1>3. /\ e \in 2..m /\ e \in Nat
      /\ x[1] = BEGIN_MARK /\ x[e] = END_MARK
      /\ \A j \in 2..(e - 1) : x[j] \notin {BEGIN_MARK, END_MARK}
      /\ \A j \in (e + 1)..m : x[j] \in {LF, CRLF}
  BY <1>1 DEF Region
<1> HIDE DEF u, n, m, l
<1>4. DOMAIN u = 1..(n + m + l)
  BY <1>2, LenProperties
<1>5. /\ \A i \in 1..n : u[i] \notin {BEGIN_MARK, END_MARK}
      /\ u[n + 1] = BEGIN_MARK /\ u[n + e] = END_MARK
      /\ \A i \in (n + 2)..(n + e - 1) : u[i] \notin {BEGIN_MARK, END_MARK}
      /\ \A i \in (n + e + 1)..(n + m) : u[i] \in {LF, CRLF}
      /\ \A i \in (n + m + 1)..(n + m + l) : u[i] \notin {BEGIN_MARK, END_MARK}
  <2>1. \A i \in 1..n : u[i] \notin {BEGIN_MARK, END_MARK}
    BY <1>1, <1>2 DEF NoMarks, Has
  <2>2. u[n + 1] = BEGIN_MARK /\ u[n + e] = END_MARK
    BY <1>1, <1>2, <1>3
  <2>3. ASSUME NEW i \in (n + 1)..(n + m) PROVE i - n \in 1..m /\ u[i] = x[i - n]
    <3>1. i - n \in 1..m /\ n + (i - n) = i
      BY <1>1, <2>3
    <3> QED BY <1>2, <3>1
  <2>4. ASSUME NEW i \in (n + 2)..(n + e - 1) PROVE u[i] \notin {BEGIN_MARK, END_MARK}
    <3>1. i \in (n + 1)..(n + m) /\ i - n \in 2..(e - 1)
      BY <1>1, <1>3, <2>4
    <3> QED BY <1>3, <2>3, <3>1
  <2>5. ASSUME NEW i \in (n + e + 1)..(n + m) PROVE u[i] \in {LF, CRLF}
    <3>1. i \in (n + 1)..(n + m) /\ i - n \in (e + 1)..m
      BY <1>1, <1>3, <2>5
    <3> QED BY <1>3, <2>3, <3>1
  <2>6. ASSUME NEW i \in (n + m + 1)..(n + m + l) PROVE u[i] \notin {BEGIN_MARK, END_MARK}
    <3>1. i - (n + m) \in 1..l /\ n + m + (i - (n + m)) = i
      BY <1>1, <2>6
    <3>2. u[i] = q[i - (n + m)]
      BY <1>2, <3>1
    <3> QED BY <1>1, <3>1, <3>2 DEF NoMarks, Has
  <2> QED BY <2>1, <2>2, <2>4, <2>5, <2>6
<1>6. Places(u, BEGIN_MARK) = {n + 1} /\ Places(u, END_MARK) = {n + e}
  <2>1. n + 1 \in 1..(n + m + l) /\ n + e \in 1..(n + m + l) /\ n + 1 # n + e
    BY <1>1, <1>3
  <2>2. ASSUME NEW i \in 1..(n + m + l), i # n + 1, i # n + e
        PROVE  u[i] \notin {BEGIN_MARK, END_MARK}
    <3>1. \/ i \in 1..n \/ i \in (n + 2)..(n + e - 1) \/ i \in (n + e + 1)..(n + m)
          \/ i \in (n + m + 1)..(n + m + l)
      BY <1>1, <1>3, <2>2
    <3> QED BY <1>5, <3>1 DEF BEGIN_MARK, END_MARK, LF, CRLF
  <2> QED BY <1>4, <1>5, <2>1, <2>2 DEF Places, BEGIN_MARK, END_MARK
<1>7. WellFormed(u)
  <2>1. Cardinality(Places(u, BEGIN_MARK)) = 1 /\ Cardinality(Places(u, END_MARK)) = 1
    BY <1>6, FS_Singleton
  <2>2. Has(u, BEGIN_MARK) /\ Has(u, END_MARK)
    BY <1>6 DEF Has, Places
  <2>3. Find(u, BEGIN_MARK) \in Places(u, BEGIN_MARK) /\ Find(u, END_MARK) \in Places(u, END_MARK)
    BY <1>2, <1>4, <2>2, FirstPlace DEF Places
  <2>4. Find(u, BEGIN_MARK) < Find(u, END_MARK)
    BY <1>1, <1>3, <1>6, <2>3
  <2> QED BY <2>1, <2>4 DEF WellFormed
<1> DEFINE P == Places(p, UserLine)
           Q == Places(q, UserLine)
           QQ == {(n + m) + i : i \in Q}
<1>8. ASSUME NEW i \in 1..(n + m + l) PROVE Managed(u, i) <=> n + 1 < i /\ i < n + e
  <2>1. ASSUME n + 1 < i, i < n + e PROVE \A k \in (n + 1)..i : u[k] # END_MARK
    <3>1. ASSUME NEW k \in (n + 1)..i PROVE k = n + 1 \/ k \in (n + 2)..(n + e - 1)
      BY <1>1, <1>3, <2>1, <3>1
    <3> QED BY <1>5, <3>1 DEF BEGIN_MARK, END_MARK
  <2> QED BY <1>6, <2>1 DEF Managed
<1>9. {i \in Places(u, UserLine) : ~Managed(u, i)} = P \cup QQ
  <2>1. ASSUME NEW i \in 1..(n + m + l), u[i] = UserLine, ~Managed(u, i) PROVE i \in P \cup QQ
    <3>1. i <= n + 1 \/ n + e <= i
      BY <1>1, <1>3, <1>8, <2>1
    <3>2. i # n + 1 /\ i # n + e /\ i \notin (n + e + 1)..(n + m)
      BY <1>5, <2>1 DEF UserLine, BEGIN_MARK, END_MARK, LF, CRLF
    <3>3. i \in 1..n \/ i \in (n + m + 1)..(n + m + l)
      BY <1>1, <1>3, <3>1, <3>2
    <3>4. CASE i \in 1..n
      BY <1>1, <1>2, <2>1, <3>4 DEF Places
    <3>5. CASE i \in (n + m + 1)..(n + m + l)
      <4>1. i - (n + m) \in 1..l /\ (n + m) + (i - (n + m)) = i
        BY <1>1, <3>5
      <4>2. i - (n + m) \in Q
        BY <1>1, <1>2, <2>1, <4>1 DEF Places
      <4> QED BY <4>1, <4>2
    <3> QED BY <3>3, <3>4, <3>5
  <2>2. ASSUME NEW i \in P PROVE i \in 1..(n + m + l) /\ u[i] = UserLine /\ ~Managed(u, i)
    <3>1. i \in 1..n /\ p[i] = UserLine
      BY <1>1 DEF Places
    <3>2. i \in 1..(n + m + l) /\ ~(n + 1 < i)
      BY <1>1, <3>1
    <3> QED BY <1>2, <1>8, <3>1, <3>2
  <2>3. ASSUME NEW i \in QQ PROVE i \in 1..(n + m + l) /\ u[i] = UserLine /\ ~Managed(u, i)
    <3>1. PICK j \in Q : i = (n + m) + j
      OBVIOUS
    <3>2. j \in 1..l /\ q[j] = UserLine
      BY <1>1 DEF Places
    <3>3. i \in 1..(n + m + l) /\ ~(i < n + e)
      BY <1>1, <1>3, <3>1, <3>2
    <3>4. u[i] = q[j]
      BY <1>2, <3>1, <3>2
    <3> QED BY <1>8, <3>2, <3>3, <3>4
  <2> HIDE DEF P, QQ
  <2> QED BY <1>4, <2>1, <2>2, <2>3 DEF Places
<1>10. P \subseteq 1..n /\ IsFiniteSet(P) /\ Cardinality(P) \in Nat
  BY <1>1, PlacesCount DEF n
<1>11. Q \subseteq 1..l /\ IsFiniteSet(Q) /\ Cardinality(Q) \in Nat
  BY <1>1, PlacesCount DEF l
<1>12. IsFiniteSet(QQ) /\ Cardinality(QQ) = Cardinality(Q)
  <2>1. n + m \in Nat /\ Q \subseteq Nat
    BY <1>1, <1>11
  <2> HIDE DEF Q
  <2> QED BY <1>11, <2>1, Shifted
<1>13. P \cap QQ = {}
  BY <1>1, <1>10, <1>11
<1>14. Cardinality(P \cup QQ) = Cardinality(P) + Cardinality(Q)
  <2> HIDE DEF P, Q, QQ
  <2>1. Cardinality(P \cup QQ) = Cardinality(P) + Cardinality(QQ) - Cardinality({})
    BY <1>10, <1>12, <1>13, FS_Union
  <2> QED BY <1>10, <1>11, <1>12, <2>1, FS_EmptySet
<1> QED BY <1>7, <1>9, <1>14 DEF UserLines, u

\* The block a sync writes is a region.
LEMMA BlockIsRegion ==
    ASSUME NEW ns \in Names, NEW nl \in {LF, CRLF}
    PROVE  \E e : Region(RenderBlock(ns, nl), e)
<1> USE NamesAssumption DEF BEGIN_MARK, END_MARK, LF, CRLF
<1>1. CASE ns = NoNames
  <2> DEFINE b == <<"BEGIN", nl, "END", nl>>
  <2>1. RenderBlock(ns, nl) = b
    BY <1>1 DEF RenderBlock
  <2>2. b \in Seq(Token) /\ Len(b) = 4 /\ b[1] = "BEGIN" /\ b[2] = nl /\ b[3] = "END" /\ b[4] = nl
    BY DEF Token
  <2> HIDE DEF b
  <2>3. Region(b, 3)
    BY <2>2 DEF Region
  <2> QED BY <2>1, <2>3
<1>2. CASE ns # NoNames
  <2> DEFINE b == <<"BEGIN", nl, ns, nl, "END", nl>>
  <2>1. RenderBlock(ns, nl) = b
    BY <1>2 DEF RenderBlock
  <2>2. ns \in Token /\ nl \in Token
    BY <1>2 DEF Token
  <2>3. /\ b \in Seq(Token) /\ Len(b) = 6 /\ b[1] = "BEGIN" /\ b[2] = nl /\ b[3] = ns
        /\ b[4] = nl /\ b[5] = "END" /\ b[6] = nl
    BY <2>2 DEF Token
  <2>4. ns # "BEGIN" /\ ns # "END"
    OBVIOUS
  <2> HIDE DEF b
  <2>5. Region(b, 5)
    BY <2>3, <2>4 DEF Region
  <2> QED BY <2>1, <2>5
<1> QED BY <1>1, <1>2

\* Where there is a block, it is cut out: what stands before and behind it
\* stays, and has no marks.
LEMMA RegionFound ==
    ASSUME NEW s \in Seq(Token), NEW ns \in Names,
           Cardinality(Places(s, BEGIN_MARK)) = 1, Cardinality(Places(s, END_MARK)) = 1,
           Find(s, BEGIN_MARK) < Find(s, END_MARK)
    PROVE  \E p, x, q, e :
              /\ NoMarks(p) /\ NoMarks(q) /\ Region(x, e)
              /\ s = p \o (x \o q)
              /\ Updated(s, ns) = p \o (RenderBlock(ns, NewlineOf(s)) \o q)
<1> DEFINE start == Find(s, BEGIN_MARK)
           end == Find(s, END_MARK)
           after == SkipEol(s, end + 1)
           p == SubSeq(s, 1, start - 1)
           x == SubSeq(s, start, after - 1)
           q == SubSeq(s, after, Len(s))
           e == end - start + 1
           nl == NewlineOf(s)
           b == RenderBlock(ns, nl)
<1>1. DOMAIN s = 1..Len(s) /\ Len(s) \in Nat
  BY LenProperties
<1>2. \E i : Places(s, BEGIN_MARK) = {i}
  BY PlacesCount, FS_Singleton
<1>3. \E i : Places(s, END_MARK) = {i}
  BY PlacesCount, FS_Singleton
<1>4. start \in 1..Len(s) /\ s[start] = BEGIN_MARK /\ Places(s, BEGIN_MARK) = {start}
  <2>1. Has(s, BEGIN_MARK)
    BY <1>2 DEF Has, Places
  <2>2. start \in 1..Len(s) /\ s[start] = BEGIN_MARK
    BY <2>1, FirstPlace
  <2> QED BY <1>1, <1>2, <2>2 DEF Places
<1>5. end \in 1..Len(s) /\ s[end] = END_MARK /\ Places(s, END_MARK) = {end}
  <2>1. Has(s, END_MARK)
    BY <1>3 DEF Has, Places
  <2>2. end \in 1..Len(s) /\ s[end] = END_MARK
    BY <2>1, FirstPlace
  <2> QED BY <1>1, <1>3, <2>2 DEF Places
<1>6. start < end
  OBVIOUS
<1>7. /\ Updated(s, ns) = Splice(s, start, after, b)
      /\ b \in Seq(Token) /\ EndsInNewline(b)
  <2>1. ReplaceManagedBlock(s, b) = Splice(s, start, after, b)
    BY <1>1, <1>4, <1>5, <1>6 DEF ReplaceManagedBlock
  <2>2. nl \in {LF, CRLF}
    BY DEF NewlineOf
  <2>3. IsBlock(b, nl)
    BY <2>2, BlockShape
  <2>4. Updated(s, ns) = ReplaceManagedBlock(s, b)
    BY DEF Updated
  <2> HIDE DEF b, nl
  <2> QED BY <2>1, <2>2, <2>3, <2>4 DEF EndsInNewline, IsBlock
<1>8. \/ after = end + 1
      \/ after = end + 2 /\ end + 1 <= Len(s) /\ s[end + 1] \in {LF, CRLF}
  <2>1. (end + 1) + 1 = end + 2
    BY <1>1, <1>5
  <2> QED BY <2>1 DEF SkipEol
<1> HIDE DEF start, end, after, b, nl
<1>9. after \in Nat /\ end + 1 <= after /\ after <= Len(s) + 1
  BY <1>1, <1>5, <1>8
<1>10. \A i \in 1..Len(s) : (s[i] = BEGIN_MARK => i = start) /\ (s[i] = END_MARK => i = end)
  BY <1>1, <1>4, <1>5 DEF Places
<1>11. NoMarks(p)
  <2>1. start - 1 \in Nat /\ start - 1 <= Len(s) /\ 1 \in Nat \ {0}
    BY <1>1, <1>4
  <2>2. p \in Seq(Token) /\ \A tok : Has(p, tok) => \E i \in 1..(start - 1) : s[i] = tok
    BY <2>1, PartOf
  <2>3. \A i \in 1..(start - 1) : i \in 1..Len(s) /\ i # start /\ i # end
    BY <1>1, <1>4, <1>5, <1>6
  <2> HIDE DEF p
  <2> QED BY <1>10, <2>2, <2>3 DEF NoMarks
<1>12. NoMarks(q)
  <2>1. after \in Nat \ {0} /\ Len(s) <= Len(s)
    BY <1>1, <1>5, <1>9
  <2>2. q \in Seq(Token) /\ \A tok : Has(q, tok) => \E i \in after..Len(s) : s[i] = tok
    BY <1>1, <2>1, PartOf
  <2>3. \A i \in after..Len(s) : i \in 1..Len(s) /\ i # start /\ i # end
    BY <1>1, <1>4, <1>5, <1>6, <1>9
  <2> HIDE DEF q
  <2> QED BY <1>10, <2>2, <2>3 DEF NoMarks
<1>13. Region(x, e)
  <2> DEFINE top == after - 1
  <2>1. start \in Int /\ top \in Int /\ \A i \in start..top : i \in 1..Len(s)
    BY <1>1, <1>4, <1>5, <1>9
  <2>2. \A i \in start..top : s[i] \in Token
    BY <2>1, ElementOfSeq
  <2>3. /\ x \in Seq(Token) /\ Len(x) = IF start <= top THEN top - start + 1 ELSE 0
        /\ \A i \in 1..(top - start + 1) : x[i] = s[start + i - 1]
    BY <2>1, <2>2, SubSeqProperties
  <2> HIDE DEF x
  <2>4. start <= top /\ top - start + 1 = after - start
    BY <1>1, <1>4, <1>5, <1>6, <1>9
  <2>5. Len(x) = after - start /\ \A i \in 1..(after - start) : x[i] = s[start + i - 1]
    BY <2>3, <2>4
  <2>6. e \in 2..(after - start) /\ 1 \in 1..(after - start) /\ start + 1 - 1 = start /\ start + e - 1 = end
    BY <1>1, <1>4, <1>5, <1>6, <1>9
  <2>7. x[1] = BEGIN_MARK /\ x[e] = END_MARK
    <3>1. x[1] = s[start] /\ e \in 1..(after - start)
      BY <2>5, <2>6
    <3>2. x[e] = s[end]
      BY <2>5, <2>6, <3>1
    <3> QED BY <1>4, <1>5, <3>1, <3>2
  <2>8. ASSUME NEW j \in 2..(e - 1) PROVE x[j] \notin {BEGIN_MARK, END_MARK}
    <3> DEFINE i == start + j - 1
    <3>1. i \in 1..Len(s) /\ i # start /\ i # end /\ j \in 1..(after - start)
      BY <1>1, <1>4, <1>5, <1>6, <1>9, <2>8
    <3>2. x[j] = s[i]
      BY <2>5, <3>1
    <3> HIDE DEF i
    <3> QED BY <1>10, <3>1, <3>2
  <2>9. ASSUME NEW j \in (e + 1)..(after - start) PROVE x[j] \in {LF, CRLF}
    <3>1. /\ after = end + 2 /\ start + j - 1 = end + 1 /\ s[end + 1] \in {LF, CRLF}
          /\ j \in 1..(after - start)
      BY <1>1, <1>4, <1>5, <1>6, <1>8, <2>9
    <3> QED BY <2>5, <3>1
  <2> HIDE DEF e
  <2> QED BY <2>3, <2>5, <2>6, <2>7, <2>8, <2>9 DEF Region
<1>14. s = p \o (x \o q)
  <2> DEFINE n == start - 1
             m == after - 1
  <2>1. /\ 1 \in 1..(Len(s) + 1) /\ n \in (1 - 1)..Len(s) /\ m \in n..Len(s)
        /\ n + 1 \in 1..(Len(s) + 1) /\ m \in ((n + 1) - 1)..Len(s) /\ Len(s) \in m..Len(s)
        /\ n + 1 = start /\ m + 1 = after
        /\ Len(s) \in n..Len(s)
    BY <1>1, <1>4, <1>5, <1>6, <1>9
  <2>2. x \o q = SubSeq(s, start, Len(s))
    <3>1. SubSeq(s, n + 1, m) \o SubSeq(s, m + 1, Len(s)) = SubSeq(s, n + 1, Len(s))
      BY <2>1, ConcatAdjacentSubSeq
    <3> QED BY <2>1, <3>1
  <2>3. p \o SubSeq(s, start, Len(s)) = SubSeq(s, 1, Len(s))
    <3>1. SubSeq(s, 1, n) \o SubSeq(s, n + 1, Len(s)) = SubSeq(s, 1, Len(s))
      BY <2>1, ConcatAdjacentSubSeq
    <3> QED BY <2>1, <3>1
  <2>4. SubSeq(s, 1, Len(s)) = s
    BY SubSeqFull
  <2> HIDE DEF p, x, q
  <2> QED BY <2>2, <2>3, <2>4
<1>15. Updated(s, ns) = p \o (b \o q)
  <2>1. Splice(s, start, after, b) = ((p \o b) \o <<>>) \o q
    BY <1>7 DEF Splice
  <2>2. p \in Seq(Token) /\ q \in Seq(Token)
    BY <1>11, <1>12 DEF NoMarks
  <2> HIDE DEF p, q
  <2> QED BY <1>7, <2>1, <2>2, Regroup
<1> HIDE DEF p, x, q, e
<1> QED BY <1>11, <1>12, <1>13, <1>14, <1>15 DEF b, nl

\* A well-formed text is written back as one, with the lines of the user.
LEMMA UpdatedKeeps ==
    ASSUME NEW s \in Seq(Token), NEW ns \in Names, WellFormed(s)
    PROVE  WellFormed(Updated(s, ns)) /\ UserLines(Updated(s, ns)) = UserLines(s)
<1> DEFINE nl == NewlineOf(s)
           b == RenderBlock(ns, nl)
<1>1. nl \in {LF, CRLF}
  BY DEF NewlineOf
<1>2. PICK d : Region(b, d)
  BY <1>1, BlockIsRegion
<1>3. CASE ~Has(s, BEGIN_MARK) /\ ~Has(s, END_MARK)
  <2> DEFINE p == EndLine(s) \o (IF s = <<>> THEN <<>> ELSE <<nl>>)
  <2>1. EndsInNewline(b) /\ b \in Seq(Token)
    <3>1. IsBlock(b, nl)
      BY <1>1, BlockShape
    <3> HIDE DEF b, nl
    <3> QED BY <1>1, <3>1 DEF EndsInNewline, IsBlock
  <2>2. Updated(s, ns) = (p \o b) \o <<>>
    <3>1. Find(s, BEGIN_MARK) = 0
      BY <1>3 DEF Find
    <3>2. Updated(s, ns) = AppendBlock(s, b)
      BY <3>1 DEF Updated, ReplaceManagedBlock
    <3> HIDE DEF b
    <3> QED BY <2>1, <3>2 DEF AppendBlock
  <2> HIDE DEF b, nl
  <2>3. /\ p \in Seq(Token) /\ Places(p, UserLine) = Places(s, UserLine)
        /\ \A tok : Has(p, tok) => Has(s, tok) \/ tok \in {LF, nl, CRLF}
    BY <1>1, Lengthened
  <2>4. NoMarks(p)
    <3> HIDE DEF p
    <3> QED BY <1>1, <1>3, <2>3 DEF NoMarks, LF, CRLF, BEGIN_MARK, END_MARK
  <2> HIDE DEF p
  <2>5. Updated(s, ns) = p \o (b \o <<>>)
    <3>1. p \in Seq(Token) /\ <<>> \in Seq(Token)
      BY <2>3, EmptySeq
    <3> QED BY <2>1, <2>2, <3>1, Regroup
  <2>6. NoMarks(<<>>) /\ Places(<<>>, UserLine) = {}
    BY EmptySeq DEF NoMarks, Has, Places
  <2>7. /\ WellFormed(Updated(s, ns))
        /\ UserLines(Updated(s, ns)) = Cardinality(Places(p, UserLine)) + Cardinality(Places(<<>>, UserLine))
    BY <1>2, <2>4, <2>5, <2>6, OneRegion
  <2>8. UserLines(s) = Cardinality(Places(s, UserLine))
    <3>1. Places(s, BEGIN_MARK) = {}
      BY <1>3 DEF Places, Has
    <3>2. \A i : ~Managed(s, i)
      BY <3>1 DEF Managed
    <3> QED BY <3>2 DEF UserLines
  <2>9. Cardinality(Places(s, UserLine)) \in Nat
    BY PlacesCount
  <2> DEFINE c == Cardinality(Places(s, UserLine))
  <2>10. UserLines(Updated(s, ns)) = c + 0
    <3>1. Cardinality(Places(<<>>, UserLine)) = 0
      BY <2>6, FS_EmptySet
    <3> QED BY <2>3, <2>7, <3>1
  <2> HIDE DEF c
  <2>11. c + 0 = c
    BY <2>9 DEF c
  <2> QED BY <2>7, <2>8, <2>10, <2>11 DEF c
<1>4. CASE /\ Cardinality(Places(s, BEGIN_MARK)) = 1 /\ Cardinality(Places(s, END_MARK)) = 1
           /\ Find(s, BEGIN_MARK) < Find(s, END_MARK)
  <2>1. PICK p, x, q, e :
              /\ NoMarks(p) /\ NoMarks(q) /\ Region(x, e)
              /\ s = p \o (x \o q)
              /\ Updated(s, ns) = p \o (b \o q)
    BY <1>4, RegionFound
  <2> HIDE DEF b, nl
  <2>2. UserLines(s) = Cardinality(Places(p, UserLine)) + Cardinality(Places(q, UserLine))
    BY <2>1, OneRegion
  <2>3. /\ WellFormed(Updated(s, ns))
        /\ UserLines(Updated(s, ns)) = Cardinality(Places(p, UserLine)) + Cardinality(Places(q, UserLine))
    BY <1>2, <2>1, OneRegion
  <2> QED BY <2>2, <2>3
<1> QED BY <1>3, <1>4 DEF WellFormed

-----------------------------------------------------------------------------
(***************************************************************************)
(* sync_hosts and write_atomic.                                            *)
(***************************************************************************)

\* The temporary file is whole from its writing to its renaming or removal.
TmpWhole ==
    pc \in {"copyMode", "rename", "writeInPlace", "fill"} => tmp = Updated(original, names)

\* At the rename it has the permissions the call found, if it found any.
TmpMode ==
    /\ (pc = "rename" /\ seenMode # "none") => tmpMode = seenMode
    /\ pc \in {"writeTmp", "copyMode"} => seenMode = "none"

\* The file is filled only after it has been truncated.
FellBack == pc = "fill" => fellBack

Inv == edits \in Nat /\ NoTempLeft /\ TmpWhole /\ TmpMode /\ FellBack

LEMMA InitInv == Init => Inv
BY DEF Init, Inv, NoTempLeft, TmpWhole, TmpMode, FellBack

LEMMA NextInv == Inv /\ [Next]_vars => Inv'
<1> SUFFICES ASSUME Inv, [Next]_vars PROVE Inv'
  OBVIOUS
<1> USE DEF Inv, NoTempLeft, TmpWhole, TmpMode, FellBack, Return, history
<1>1. ASSUME NEW x \in Names, Read(x) PROVE Inv'
  BY <1>1 DEF Read
<1>2. CASE ReadFails
  BY <1>2 DEF ReadFails
<1>3. CASE WriteTmp
  BY <1>3 DEF WriteTmp
<1>4. CASE CopyMode
  BY <1>4 DEF CopyMode
<1>5. CASE Rename
  BY <1>5 DEF Rename
<1>6. CASE Truncate
  BY <1>6 DEF Truncate
<1>7. CASE Fill
  BY <1>7 DEF Fill
<1>8. CASE FillRefused
  BY <1>8 DEF FillRefused
<1>9. CASE Cleanup
  BY <1>9 DEF Cleanup
<1>10. CASE Crash
  BY <1>10 DEF Crash
<1>11. CASE UserEdit
  BY <1>11 DEF UserEdit
<1>12. CASE UserRemoves
  BY <1>12 DEF UserRemoves
<1>13. CASE UNCHANGED vars
  BY <1>13 DEF vars
<1>14. CASE UserChmod
  BY <1>14 DEF UserChmod
<1> QED
  BY <1>1, <1>2, <1>3, <1>4, <1>5, <1>6, <1>7, <1>8, <1>9, <1>10, <1>11, <1>12, <1>13, <1>14
  DEF Next, Sync

LEMMA Invariance == Spec => []Inv
BY InitInv, NextInv, PTL DEF Spec

\* A write that is cut short leaves a text.
LEMMA CutIsText ==
    ASSUME NEW s \in Seq(Token), NEW t \in Cut(s)
    PROVE  t \in Seq(Token)
<1>1. PICK n \in 0..(Len(s) - 1) : t = SubSeq(s, 1, n)
  BY DEF Cut
<1>2. n \in Nat /\ n <= Len(s) /\ 1 \in Nat \ {0}
  BY LenProperties
<1>3. SubSeq(s, 1, n) \in Seq(Token)
  BY <1>2, PartOf
<1> QED BY <1>1, <1>3

LEMMA InitTypes == Init => TypeOK
<1> SUFFICES ASSUME Init PROVE TypeOK
  OBVIOUS
<1>1. <<>> \in Seq(Token) /\ file \in Seq(Token) /\ NoNames \in Names
  BY NamesAssumption, FilesAssumption, EmptySeq DEF Init
<1>2. original \in Seq(Token) /\ names \in Names
  BY <1>1 DEF Init
<1>3. {file, tmp} \subseteq Seq(Token) \cup {Absent}
  BY <1>1, Zenon DEF Init
<1>4. calls \in 0..MaxCalls /\ edits \in 0..MaxEdits
  BY BoundAssumption DEF Init
<1> QED BY <1>2, <1>3, <1>4 DEF Init, TypeOK, Mode

LEMMA NextTypes == TypeOK /\ [Next]_vars => TypeOK'
<1> SUFFICES ASSUME TypeOK, [Next]_vars PROVE TypeOK'
  OBVIOUS
<1> USE DEF TypeOK, Return, history
<1> DEFINE u == Updated(original, names)
<1>u. u \in Seq(Token)
  BY Idempotent
<1>c. \A t \in Cut(u) : t \in Seq(Token)
  BY <1>u, CutIsText
<1> HIDE DEF u
<1>1. ASSUME NEW x \in Names, Read(x) PROVE TypeOK'
  <2>1. file \in Seq(Token)
    BY <1>1 DEF Read
  <2>2. calls' \in 0..MaxCalls
    BY <1>1, BoundAssumption DEF Read
  <2>3. pc' \in {"idle", "writeTmp"} /\ outcome' \in {"same", "none"}
    BY <1>1 DEF Read
  <2>4. /\ names' = x /\ original' = file
        /\ fellBack' = FALSE /\ unremoved' = FALSE /\ seenMode' = "none"
        /\ UNCHANGED <<file, mode, tmp, tmpMode, edits>>
    BY <1>1 DEF Read
  <2> QED BY <2>1, <2>2, <2>3, <2>4
<1>2. CASE ReadFails
  BY <1>2, BoundAssumption DEF ReadFails
<1>3. CASE WriteTmp
  BY <1>3, <1>u, <1>c DEF WriteTmp, u, Mode
<1>4. CASE CopyMode
  BY <1>4 DEF CopyMode
<1>5. CASE Rename
  BY <1>5 DEF Rename
<1>6. CASE Truncate
  BY <1>6, EmptySeq DEF Truncate, Mode
<1>7. CASE Fill
  BY <1>7, <1>u, <1>c DEF Fill, u
<1>8. CASE FillRefused
  BY <1>8 DEF FillRefused
<1>9. CASE Cleanup
  BY <1>9 DEF Cleanup
<1>10. CASE Crash
  BY <1>10 DEF Crash
<1>11. CASE UserEdit
  <2>1. <<UserLine, LF>> \in Seq(Token) /\ file \in Seq(Token)
    BY <1>11 DEF UserEdit, Token
  <2>2. file \o <<UserLine, LF>> \in Seq(Token) /\ <<UserLine, LF>> \o file \in Seq(Token)
    BY <2>1, ConcatProperties
  <2>3. file' \in Seq(Token)
    BY <1>11, <2>2, Zenon DEF UserEdit
  <2>4. edits' \in 0..MaxEdits
    BY <1>11, BoundAssumption DEF UserEdit
  <2>5. UNCHANGED <<pc, names, original, mode, tmp, tmpMode, outcome, calls, history>>
    BY <1>11 DEF UserEdit
  <2> QED BY <2>3, <2>4, <2>5
<1>12. CASE UserRemoves
  BY <1>12, BoundAssumption DEF UserRemoves
<1>13. CASE UNCHANGED vars
  BY <1>13 DEF vars
<1>14. CASE UserChmod
  BY <1>14, BoundAssumption DEF UserChmod, Mode
<1> QED
  BY <1>1, <1>2, <1>3, <1>4, <1>5, <1>6, <1>7, <1>8, <1>9, <1>10, <1>11, <1>12, <1>13, <1>14
  DEF Next, Sync

\* A sync that succeeded leaves nothing to do for the next one with the same
\* names, whatever marks, line ends and lines the file had: polls do not
\* rewrite the hosts file, and it does not grow.  Where the sync turned the
\* line ends of the text (its last line ended in a carriage return and it had
\* no CRLF) the next one rewrites the block once, and that is the last.
THEOREM SyncIsStable == Spec => []SecondSyncQuiet
<1>1. TypeOK => SecondSyncQuiet
  <2> SUFFICES ASSUME TypeOK, pc = "idle", outcome = "changed", file = Updated(original, names)
               PROVE  /\ Updated(file, names) = file \/ TurnsCrlf(original)
                      /\ Updated(Updated(file, names), names) = Updated(file, names)
    BY DEF SecondSyncQuiet
  <2>1. original \in Seq(Token) /\ names \in Names
    BY DEF TypeOK
  <2>2. /\ file \in Seq(Token) /\ ~TurnsCrlf(file)
        /\ ~TurnsCrlf(original) => Updated(file, names) = file
    BY <2>1, Idempotent
  <2>3. Updated(Updated(file, names), names) = Updated(file, names)
    BY <2>1, <2>2, Idempotent
  <2> QED BY <2>2, <2>3
<1> QED BY <1>1, InitTypes, NextTypes, PTL DEF Spec

\* No call that began to write returns, with success or an error, while a
\* temporary file is left, its own or one of a killed process, unless the
\* call tried to remove it and that failed: no way out of write_atomic skips
\* the removal.
THEOREM TempFileRemoved == Spec => []NoTempLeft
<1>1. Inv => NoTempLeft
  BY DEF Inv
<1> QED BY <1>1, Invariance, PTL

\* What one step may do to the hosts file.
StepKeepsWhole ==
    /\ (file' # file /\ edits' = edits /\ ~fellBack') => file' = Updated(original, names)
    /\ (edits' = edits /\ file # Absent /\ file' # Absent /\ mode' # mode) =>
           pc = "rename" /\ seenMode \in {"none", mode'}

\* Whatever fails and wherever the process is killed, the file holds its old
\* text or all of the new one, unless the code fell back to writing in place;
\* and its permissions change only at a rename, to those the call had found
\* (older ones, if the user changed them since), or because it found none.
THEOREM FileIsWhole == Spec => CrashKeepsWhole
<1>1. Inv /\ [Next]_vars => [StepKeepsWhole]_vars
  <2> SUFFICES ASSUME Inv, Next PROVE StepKeepsWhole
    BY DEF vars
  <2> USE DEF Inv, StepKeepsWhole, history
  <2>1. CASE Rename
    BY <2>1 DEF Rename, TmpWhole, TmpMode
  <2>2. CASE Truncate
    BY <2>2 DEF Truncate
  <2>3. CASE Fill
    BY <2>3 DEF Fill, FellBack
  <2>4. CASE UserEdit \/ UserRemoves \/ UserChmod
    BY <2>4 DEF UserEdit, UserRemoves, UserChmod
  <2>5. CASE \/ \E x \in Names : Read(x)
             \/ ReadFails \/ WriteTmp \/ CopyMode \/ FillRefused \/ Cleanup \/ Crash
    BY <2>5 DEF Read, ReadFails, WriteTmp, CopyMode, FillRefused, Cleanup, Crash
  <2> QED BY <2>1, <2>2, <2>3, <2>4, <2>5 DEF Next, Sync
<1>2. [Next]_vars /\ Inv => [StepKeepsWhole]_vars
  BY <1>1
<1> QED BY <1>2, Invariance, PTL DEF Spec, CrashKeepsWhole, StepKeepsWhole

\* What the rename may do to the lines of the user.
StepKeepsRest ==
    (pc = "rename" /\ file' # file /\ edits' = edits /\ WellFormed(original)) =>
        WellFormed(file') /\ UserLines(file') = UserLines(original)

\* A sync of a text whose marks are in order leaves them so, and leaves all the
\* lines of the user it read: rename puts in place what replace_managed_block
\* made of them.
THEOREM RestIsKept == Spec => KeepsRest
<1>1. TypeOK /\ Inv /\ [Next]_vars => [StepKeepsRest]_vars
  <2> SUFFICES ASSUME TypeOK, Inv, Next PROVE StepKeepsRest
    BY DEF vars
  <2> SUFFICES ASSUME pc = "rename", file' # file, edits' = edits, WellFormed(original)
               PROVE  WellFormed(file') /\ UserLines(file') = UserLines(original)
    BY DEF StepKeepsRest
  <2>1. file' = Updated(original, names)
    <3>1. CASE Rename
      BY <3>1 DEF Rename, Inv, TmpWhole
    <3>2. CASE UserEdit \/ UserRemoves \/ UserChmod
      BY <3>2 DEF UserEdit, UserRemoves, UserChmod, Inv
    <3>3. CASE \/ \E x \in Names : Read(x)
               \/ ReadFails \/ WriteTmp \/ CopyMode \/ Truncate \/ Fill \/ FillRefused
               \/ Cleanup \/ Crash
      BY <3>3 DEF Read, ReadFails, WriteTmp, CopyMode, Truncate, Fill, FillRefused, Cleanup, Crash
    <3> QED BY <3>1, <3>2, <3>3 DEF Next, Sync
  <2>2. original \in Seq(Token) /\ names \in Names
    BY DEF TypeOK
  <2> QED BY <2>1, <2>2, UpdatedKeeps
<1>2. Spec => []TypeOK
  BY InitTypes, NextTypes, PTL DEF Spec
<1> QED BY <1>1, <1>2, Invariance, PTL DEF Spec, KeepsRest, StepKeepsRest
=============================================================================
