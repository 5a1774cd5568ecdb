---------------------------- MODULE RouterProofs ----------------------------
(***************************************************************************)
(* Proofs about Router: what the walk of the rules has built, in whatever  *)
(* order it goes, and what its sorted rules say of the routing.            *)
(***************************************************************************)
EXTENDS Router, SequenceTheorems, FiniteSetTheorems, FunctionTheorems,
        WellFoundedInduction, TLAPS

-----------------------------------------------------------------------------
(***************************************************************************)
(* The inductive invariant.                                                *)
(***************************************************************************)

ProxiesParse(y) == \A p \in DOMAIN y.proxies : ParseProxy(y.proxies[p]).ok

\* A rule the walk takes without an error.
GoodRule(y, k) ==
    /\ ToSet(y.rules[k]) \subseteq DOMAIN y.proxies
    /\ IsDefault(k) \/ IsValidHostname(k)

\* The config is accepted: from_yaml's own reading of it, rule by rule.
GoodYaml(y) ==
    /\ ProxiesParse(y)
    /\ \A k \in DOMAIN y.rules : GoodRule(y, k)
    /\ \A k \in DOMAIN y.rules : IsDefault(k) => y.rules[k] # <<>>

\* A walk: keys of the config, each at most once.
Walk(y, w) ==
    /\ w \in Seq(DOMAIN y.rules)
    /\ \A i, j \in DOMAIN w : w[i] = w[j] => i = j

\* The last key of the walk with its lower-case form.
LastPlace(w, i) ==
    i \in DOMAIN w /\ \A j \in DOMAIN w : Lower(w[j]) = Lower(w[i]) => j <= i

\* The rules hold, for each host of the walk, what its last key says.
RulesRight(y, w, rs) ==
    /\ rs = [h \in DOMAIN rs |-> rs[h]]
    /\ DOMAIN rs = {Lower(w[i]) : i \in {i \in DOMAIN w : ~IsDefault(w[i])}}
    /\ \A i \in DOMAIN w : (~IsDefault(w[i]) /\ LastPlace(w, i)) => rs[Lower(w[i])] = Hops(y, w[i])

\* The default holds what its last key says.
DefaultRight(y, w, d) ==
    /\ \A i \in DOMAIN w : (IsDefault(w[i]) /\ LastPlace(w, i)) => d = Hops(y, w[i])
    /\ (\A i \in DOMAIN w : ~IsDefault(w[i])) => d = NoHops

\* The host names are those of the rules, each once.
NamesRight(y, rs, hs) ==
    /\ hs \in Seq(DOMAIN y.rules)
    /\ \A n \in DOMAIN hs : ~IsDefault(hs[n])
    /\ {Lower(hs[n]) : n \in DOMAIN hs} = DOMAIN rs
    /\ \A n, m \in DOMAIN hs : Lower(hs[n]) = Lower(hs[m]) => n = m

WalkRight(y, w, rs, d, hs) ==
    /\ Walk(y, w)
    /\ \A i \in DOMAIN w : GoodRule(y, w[i])
    /\ RulesRight(y, w, rs)
    /\ DefaultRight(y, w, d)
    /\ NamesRight(y, rs, hs)

\* A result that is no error comes of a whole walk w.
Built(r, w, hs) ==
    /\ r = [ok |-> TRUE, yaml |-> r.yaml, rules |-> r.rules, default |-> r.default,
            hostnames |-> SortKeys(hs), fingerprint |-> RoutingFingerprint(r.yaml, w)]
    /\ r.yaml \in Yaml
    /\ WalkRight(r.yaml, w, r.rules, r.default, hs)
    /\ DOMAIN r.yaml.rules \subseteq ToSet(w)
    /\ r.default \notin {NoHops, <<>>}
ResultRight(r) ==
    \/ r = Err
    \/ r.ok = TRUE /\ \E w, hs \in Seq(DOMAIN r.yaml.rules) : Built(r, w, hs)

StagesRight ==
    /\ pc \in {"proxies", "rules", "ready"} /\ yaml \in Yaml
    /\ pc = "proxies" => order = <<>> /\ rules = <<>> /\ default = NoHops /\ hostnames = <<>>
    /\ pc = "rules" => ProxiesParse(yaml) /\ WalkRight(yaml, order, rules, default, hostnames)

ResultsRight ==
    /\ built \in Seq({built[n] : n \in DOMAIN built}) /\ Len(built) \in 0..2
    /\ pc # "ready" => Len(built) < 2
    /\ \A n \in DOMAIN built : ResultRight(built[n])

OutcomeRight ==
    pc = "ready" =>
        /\ Len(built) > 0
        /\ Distinct(yaml) => (Last(built).ok <=> GoodYaml(yaml))
        /\ Last(built).ok => Last(built).yaml = yaml

RouterInv == StagesRight /\ ResultsRight /\ OutcomeRight

-----------------------------------------------------------------------------
(***************************************************************************)
(* The sort: the keys ahead of a key, counted, are its place.              *)
(***************************************************************************)

\* A sequence of keys has places 1..Len and ranks that are numbers.
LEMMA KeysRanked ==
    ASSUME NEW s \in Seq(Key)
    PROVE  /\ Len(s) \in Nat /\ DOMAIN s = 1..Len(s) /\ IsFiniteSet(DOMAIN s)
           /\ \A i \in DOMAIN s : s[i] \in Key /\ Rank[Lower(s[i])] \in Nat
<1>1. Len(s) \in Nat /\ DOMAIN s = 1..Len(s) /\ \A i \in DOMAIN s : s[i] \in Key
  BY ElementOfSeq, LenProperties
<1>2. IsFiniteSet(DOMAIN s)
  BY <1>1, FS_Interval
<1> QED BY <1>1, <1>2, RankAssumption

\* Of two places one is ahead of the other, and what is ahead of it too.
LEMMA AheadOrder ==
    ASSUME NEW s \in Seq(Key), NEW i \in DOMAIN s, NEW j \in DOMAIN s
    PROVE  /\ i \notin Ahead(s, i)
           /\ i # j => i \in Ahead(s, j) \/ j \in Ahead(s, i)
           /\ i \in Ahead(s, j) => Ahead(s, i) \subseteq Ahead(s, j)
<1>1. i \in Nat /\ j \in Nat /\ Rank[Lower(s[i])] \in Nat /\ Rank[Lower(s[j])] \in Nat
  BY KeysRanked
<1>2. i \notin Ahead(s, i)
  BY <1>1 DEF Ahead
<1>3. i # j => i \in Ahead(s, j) \/ j \in Ahead(s, i)
  BY <1>1 DEF Ahead
<1>4. ASSUME i \in Ahead(s, j), NEW l \in Ahead(s, i)
      PROVE  l \in Ahead(s, j)
  <2>1. l \in DOMAIN s
    BY <1>4 DEF Ahead
  <2>2. l \in Nat /\ Rank[Lower(s[l])] \in Nat
    BY <2>1, KeysRanked
  <2> QED BY <1>1, <1>4, <2>1, <2>2 DEF Ahead
<1> QED BY <1>2, <1>3, <1>4

\* How many keys are ahead tells the place.
LEMMA AheadCounts ==
    ASSUME NEW s \in Seq(Key), NEW i \in DOMAIN s
    PROVE  /\ IsFiniteSet(Ahead(s, i)) /\ Cardinality(Ahead(s, i)) \in Nat
           /\ Cardinality(Ahead(s, i)) + 1 \in DOMAIN s
           /\ \A j \in DOMAIN s : i \in Ahead(s, j) => Cardinality(Ahead(s, i)) < Cardinality(Ahead(s, j))
<1>1. \A j \in DOMAIN s : /\ Ahead(s, j) \subseteq DOMAIN s /\ j \notin Ahead(s, j)
                          /\ IsFiniteSet(Ahead(s, j)) /\ Cardinality(Ahead(s, j)) \in Nat
  <2>1. \A j \in DOMAIN s : Ahead(s, j) \subseteq DOMAIN s
    BY DEF Ahead
  <2> QED BY <2>1, AheadOrder, KeysRanked, FS_Subset, FS_CardinalityType
<1>2. \A T : IsFiniteSet(T) /\ Ahead(s, i) \cup {i} \subseteq T => Cardinality(Ahead(s, i)) + 1 <= Cardinality(T)
  <2>1. Cardinality(Ahead(s, i) \cup {i}) = Cardinality(Ahead(s, i)) + 1
    BY <1>1, FS_AddElement
  <2> QED BY <2>1, FS_Subset
<1>3. Cardinality(Ahead(s, i)) + 1 \in DOMAIN s
  <2>1. Cardinality(DOMAIN s) = Len(s) /\ Len(s) \in Nat
    <3>1. DOMAIN s = 1..Len(s) /\ Len(s) \in Nat
      BY KeysRanked
    <3>2. Cardinality(1..Len(s)) = IF 1 > Len(s) THEN 0 ELSE Len(s) - 1 + 1
      <4>1. 1 \in Int /\ Len(s) \in Int
        BY <3>1
      <4> QED BY <4>1, FS_Interval, Zenon
    <3>3. Cardinality(1..Len(s)) = Len(s)
      BY <3>1, <3>2
    <3> QED BY <3>1, <3>3
  <2>2. Cardinality(Ahead(s, i)) + 1 <= Len(s)
    BY <1>1, <1>2, <2>1, KeysRanked
  <2> QED BY <1>1, <2>1, <2>2, KeysRanked
<1>4. \A j \in DOMAIN s : i \in Ahead(s, j) => Cardinality(Ahead(s, i)) < Cardinality(Ahead(s, j))
  <2> SUFFICES ASSUME NEW j \in DOMAIN s, i \in Ahead(s, j)
               PROVE  Cardinality(Ahead(s, i)) < Cardinality(Ahead(s, j))
    OBVIOUS
  <2>1. Cardinality(Ahead(s, i)) + 1 <= Cardinality(Ahead(s, j))
    BY <1>1, <1>2, AheadOrder
  <2> QED BY <1>1, <2>1
<1> QED BY <1>1, <1>3, <1>4

\* Different places have different counts.
LEMMA AheadDiffers ==
    ASSUME NEW s \in Seq(Key), NEW i \in DOMAIN s, NEW j \in DOMAIN s,
           Cardinality(Ahead(s, i)) = Cardinality(Ahead(s, j))
    PROVE  i = j
<1>1. Cardinality(Ahead(s, i)) \in Nat
  BY AheadCounts
<1>2. i \notin Ahead(s, j) /\ j \notin Ahead(s, i)
  BY <1>1, AheadCounts
<1> QED BY <1>2, AheadOrder

\* The sorted sequence: every place is taken, by one key.
LEMMA Sorted ==
    ASSUME NEW s \in Seq(Key)
    PROVE  /\ DOMAIN SortKeys(s) = DOMAIN s /\ Len(SortKeys(s)) = Len(s)
           /\ \A i \in DOMAIN s : SortKeys(s)[Cardinality(Ahead(s, i)) + 1] = s[i]
           /\ \A n \in DOMAIN s : \E i \in DOMAIN s : Cardinality(Ahead(s, i)) + 1 = n /\ SortKeys(s)[n] = s[i]
<1> DEFINE D == DOMAIN s
           P == [i \in D |-> Cardinality(Ahead(s, i)) + 1]
<1>1. P \in [D -> D]
  BY AheadCounts
<1>2. \A i, j \in D : P[i] = P[j] => i = j
  <2> SUFFICES ASSUME NEW i \in D, NEW j \in D, P[i] = P[j]
               PROVE  i = j
    OBVIOUS
  <2>1. Cardinality(Ahead(s, i)) \in Nat /\ Cardinality(Ahead(s, j)) \in Nat
    BY AheadCounts
  <2> QED BY <2>1, AheadDiffers
<1>3. \A n \in D : \E i \in D : P[i] = n
  <2>1. P \in Injection(D, D) /\ IsFiniteSet(D)
    <3> HIDE DEF P
    <3> QED BY <1>1, <1>2, Fun_IsInj, KeysRanked
  <2>2. P \in Surjection(D, D)
    <3> HIDE DEF P, D
    <3> QED BY <2>1, FS_Injection
  <2> HIDE DEF P, D
  <2> QED BY <2>2, Fun_SurjectionProperties
<1>4. \A i \in D : SortKeys(s)[Cardinality(Ahead(s, i)) + 1] = s[i]
  <2> SUFFICES ASSUME NEW i \in D
               PROVE  SortKeys(s)[Cardinality(Ahead(s, i)) + 1] = s[i]
    OBVIOUS
  <2> DEFINE c == Cardinality(Ahead(s, i))
  <2>1. c + 1 \in D /\ c \in Nat
    BY AheadCounts
  <2>2. c = (c + 1) - 1
    BY <2>1
  <2>3. \A j \in D : Cardinality(Ahead(s, j)) = (c + 1) - 1 => j = i
    BY <2>2, AheadDiffers
  <2>4. (CHOOSE j \in D : Cardinality(Ahead(s, j)) = (c + 1) - 1) = i
    BY <2>2, <2>3
  <2>5. SortKeys(s)[c + 1] = s[CHOOSE j \in D : Cardinality(Ahead(s, j)) = (c + 1) - 1]
    BY <2>1 DEF SortKeys
  <2> QED BY <2>4, <2>5
<1>5. \A n \in D : \E i \in D : Cardinality(Ahead(s, i)) + 1 = n /\ SortKeys(s)[n] = s[i]
  <2> SUFFICES ASSUME NEW n \in D
               PROVE  \E i \in D : Cardinality(Ahead(s, i)) + 1 = n /\ SortKeys(s)[n] = s[i]
    OBVIOUS
  <2>1. PICK i \in D : P[i] = n
    BY <1>3
  <2>2. Cardinality(Ahead(s, i)) + 1 = n
    BY <2>1
  <2> QED BY <1>4, <2>2
<1>6. DOMAIN SortKeys(s) = D
  BY DEF SortKeys
<1>7. Len(SortKeys(s)) = Len(s)
  <2>1. Len(s) \in Nat /\ DOMAIN SortKeys(s) = 1..Len(s)
    BY <1>6, KeysRanked
  <2> QED BY <2>1
<1> QED BY <1>4, <1>5, <1>6, <1>7

\* The last key with a name has the last place among those with that name.
LEMMA LastInSort ==
    ASSUME NEW w \in Seq(Key), NEW i, LastPlace(w, i)
    PROVE  /\ i \in DOMAIN w /\ Cardinality(Ahead(w, i)) + 1 \in DOMAIN w
           /\ SortKeys(w)[Cardinality(Ahead(w, i)) + 1] = w[i]
           /\ \A n \in DOMAIN w : Lower(SortKeys(w)[n]) = Lower(w[i]) => n <= Cardinality(Ahead(w, i)) + 1
<1>1. i \in DOMAIN w /\ \A j \in DOMAIN w : Lower(w[j]) = Lower(w[i]) => j <= i
  BY DEF LastPlace
<1>2. Cardinality(Ahead(w, i)) + 1 \in DOMAIN w /\ Cardinality(Ahead(w, i)) \in Nat
  BY <1>1, AheadCounts
<1>3. SortKeys(w)[Cardinality(Ahead(w, i)) + 1] = w[i]
  BY <1>1, Sorted
<1>4. ASSUME NEW n \in DOMAIN w, Lower(SortKeys(w)[n]) = Lower(w[i])
      PROVE  n <= Cardinality(Ahead(w, i)) + 1
  <2>1. PICK j \in DOMAIN w : Cardinality(Ahead(w, j)) + 1 = n /\ SortKeys(w)[n] = w[j]
    BY Sorted
  <2>2. j <= i /\ Lower(w[j]) = Lower(w[i])
    BY <1>1, <1>4, <2>1
  <2>3. Cardinality(Ahead(w, j)) \in Nat
    BY AheadCounts
  <2>4. CASE j = i
    BY <1>2, <2>1, <2>4
  <2>5. CASE j # i
    <3>1. j < i
      <4>1. i \in Nat /\ j \in Nat
        BY <1>1, KeysRanked
      <4> QED BY <2>2, <2>5, <4>1
    <3>2. j \in Ahead(w, i)
      BY <2>2, <3>1 DEF Ahead
    <3>3. Cardinality(Ahead(w, j)) < Cardinality(Ahead(w, i))
      BY <1>1, <3>2, AheadCounts
    <3> QED BY <1>2, <2>1, <2>3, <3>3
  <2> QED BY <2>4, <2>5
<1> QED BY <1>1, <1>2, <1>3, <1>4

\* No two keys of a sequence have one lower-case form.
OneCase(s) == \A i, j \in DOMAIN s : Lower(s[i]) = Lower(s[j]) => i = j

\* A sequence that names nothing twice is as long as what it names is large.
LEMMA LengthIsSize ==
    ASSUME NEW S, NEW s \in Seq(S), \A i, j \in DOMAIN s : s[i] = s[j] => i = j
    PROVE  IsFiniteSet(ToSet(s)) /\ Cardinality(ToSet(s)) = Len(s)
<1>1. Len(s) \in Nat /\ DOMAIN s = 1..Len(s)
  BY LenProperties
<1>2. IsFiniteSet(DOMAIN s) /\ Cardinality(DOMAIN s) = Len(s)
  <2>1. IsFiniteSet(1..Len(s)) /\ Cardinality(1..Len(s)) = IF 1 > Len(s) THEN 0 ELSE Len(s) - 1 + 1
    <3>1. 1 \in Int /\ Len(s) \in Int
      BY <1>1
    <3> QED BY <3>1, FS_Interval, Zenon
  <2>2. (IF 1 > Len(s) THEN 0 ELSE Len(s) - 1 + 1) = Len(s)
    BY <1>1
  <2> QED BY <1>1, <2>1, <2>2
<1> DEFINE D == DOMAIN s
           T == ToSet(s)
           F == [i \in D |-> s[i]]
<1>3. F \in [D -> T] /\ (\A i, j \in D : F[i] = F[j] => i = j) /\ (\A x \in T : \E i \in D : F[i] = x)
  BY DEF ToSet
<1>4. ExistsBijection(D, T)
  <2> HIDE DEF D, T, F
  <2>1. F \in Bijection(D, T)
    BY <1>3, Fun_IsBij
  <2> QED BY <2>1 DEF ExistsBijection
<1> QED BY <1>2, <1>4, FS_Bijection

\* Without two spellings of a name, the keys ahead are those of a lower rank.
LEMMA AheadAsKeys ==
    ASSUME NEW s \in Seq(Key), OneCase(s), NEW i \in DOMAIN s
    PROVE  Cardinality(Ahead(s, i)) = Cardinality({k \in ToSet(s) : Rank[Lower(k)] < Rank[Lower(s[i])]})
<1> DEFINE A == Ahead(s, i)
           B == {k \in ToSet(s) : Rank[Lower(k)] < Rank[Lower(s[i])]}
           F == [j \in A |-> s[j]]
<1>1. \A j \in A : j \in DOMAIN s /\ Rank[Lower(s[j])] < Rank[Lower(s[i])]
  <2> SUFFICES ASSUME NEW j \in A
               PROVE  j \in DOMAIN s /\ Rank[Lower(s[j])] < Rank[Lower(s[i])]
    OBVIOUS
  <2>1. j \in DOMAIN s /\ i \in Nat /\ j \in Nat /\ s[i] \in Key /\ s[j] \in Key
    BY KeysRanked DEF Ahead
  <2>2. Rank[Lower(s[j])] = Rank[Lower(s[i])] => j = i
    BY <2>1, RankAssumption DEF OneCase
  <2> QED BY <2>1, <2>2 DEF Ahead
<1>2. F \in [A -> B]
  BY <1>1 DEF ToSet
<1>3. \A j, l \in A : F[j] = F[l] => j = l
  <2> SUFFICES ASSUME NEW j \in A, NEW l \in A, s[j] = s[l]
               PROVE  j = l
    OBVIOUS
  <2>1. j \in DOMAIN s /\ l \in DOMAIN s /\ Lower(s[j]) = Lower(s[l])
    BY <1>1
  <2> QED BY <2>1 DEF OneCase
<1>4. \A k \in B : \E j \in A : F[j] = k
  BY DEF ToSet, Ahead
<1>5. ExistsBijection(A, B)
  <2> HIDE DEF A, B, F
  <2>1. F \in Bijection(A, B)
    BY <1>2, <1>3, <1>4, Fun_IsBij
  <2> QED BY <2>1 DEF ExistsBijection
<1>6. IsFiniteSet(A)
  BY AheadCounts
<1> HIDE DEF A, B
<1>7. Cardinality(B) = Cardinality(A)
  BY <1>5, <1>6, FS_Bijection
<1> QED BY <1>7 DEF A, B

\* The same keys in another order are sorted to the same.
LEMMA SortSame ==
    ASSUME NEW s \in Seq(Key), NEW t \in Seq(Key), OneCase(s), OneCase(t), ToSet(s) = ToSet(t)
    PROVE  SortKeys(s) = SortKeys(t)
<1>1. /\ Len(s) = Len(t) /\ DOMAIN s = DOMAIN t
  <2>1. Cardinality(ToSet(s)) = Len(s) /\ Cardinality(ToSet(t)) = Len(t)
    <3>1. \A i, j \in DOMAIN s : s[i] = s[j] => i = j
      BY DEF OneCase
    <3>2. \A i, j \in DOMAIN t : t[i] = t[j] => i = j
      BY DEF OneCase
    <3> QED BY <3>1, <3>2, LengthIsSize
  <2> QED BY <2>1, LenProperties
<1>2. ASSUME NEW n \in DOMAIN s
      PROVE  SortKeys(s)[n] = SortKeys(t)[n]
  <2>1. PICK i \in DOMAIN s : Cardinality(Ahead(s, i)) + 1 = n /\ SortKeys(s)[n] = s[i]
    BY Sorted
  <2>2. PICK j \in DOMAIN t : t[j] = s[i]
    <3>1. s[i] \in ToSet(t)
      BY DEF ToSet
    <3> QED BY <3>1 DEF ToSet
  <2>3. Cardinality(Ahead(t, j)) = Cardinality(Ahead(s, i))
    BY <2>2, AheadAsKeys
  <2>4. SortKeys(t)[Cardinality(Ahead(t, j)) + 1] = t[j]
    BY Sorted
  <2> QED BY <2>1, <2>2, <2>3, <2>4
<1> QED BY <1>1, <1>2 DEF SortKeys

-----------------------------------------------------------------------------
(***************************************************************************)
(* The walk.                                                               *)
(***************************************************************************)

LEMMA ConfigKeys ==
    ASSUME NEW y \in Yaml
    PROVE  /\ DOMAIN y.rules \subseteq Key
           /\ \A k \in DOMAIN y.rules : y.rules[k] \in Seq(Proxy)
           /\ \E k \in DOMAIN y.rules : IsDefault(k)
           /\ \A w \in Seq(DOMAIN y.rules) : w \in Seq(Key)
<1>1. /\ DOMAIN y.rules \subseteq Key
      /\ \A k \in DOMAIN y.rules : y.rules[k] \in Seq(Proxy)
      /\ \E k \in DOMAIN y.rules : IsDefault(k)
  BY YamlAssumption DEF IsDefault
<1>2. \A S, T : S \subseteq T => Seq(S) \subseteq Seq(T)
  OBVIOUS
<1> QED BY <1>1, <1>2

\* A list of hops is never the missing one, and is empty only for an empty list.
LEMMA HopsAre ==
    ASSUME NEW y \in Yaml, NEW k \in DOMAIN y.rules
    PROVE  Hops(y, k) # NoHops /\ (Hops(y, k) = <<>> <=> y.rules[k] = <<>>)
<1>1. y.rules[k] \in Seq(Proxy)
  BY ConfigKeys
<1>2. \A i \in DOMAIN Hops(y, k) : Hops(y, k)[i] # Err
  BY DEF Hops, Err
<1>3. Hops(y, k) # NoHops
  <2>1. NoHops[1] = Err /\ 1 \in DOMAIN NoHops
    BY DEF NoHops
  <2> QED BY <1>2, <2>1
<1>4. DOMAIN Hops(y, k) = 1..Len(y.rules[k]) /\ Len(y.rules[k]) \in Nat
  BY <1>1 DEF Hops
<1>5. Hops(y, k) = <<>> => y.rules[k] = <<>>
  <2> SUFFICES ASSUME Hops(y, k) = <<>>
               PROVE  y.rules[k] = <<>>
    OBVIOUS
  <2>1. 1 \notin 1..Len(y.rules[k])
    BY <1>4
  <2>2. Len(y.rules[k]) = 0
    BY <1>4, <2>1
  <2> QED BY <1>1, <2>2, EmptySeq
<1>6. y.rules[k] = <<>> => Hops(y, k) = <<>>
  BY DEF Hops
<1> QED BY <1>3, <1>5, <1>6

\* A sequence and one more element.
LEMMA Appended ==
    ASSUME NEW S, NEW w \in Seq(S), NEW k \in S
    PROVE  /\ Append(w, k) \in Seq(S) /\ Len(w) \in Nat
           /\ DOMAIN w = 1..Len(w) /\ Len(Append(w, k)) = Len(w) + 1
           /\ DOMAIN Append(w, k) = DOMAIN w \cup {Len(w) + 1}
           /\ \A i \in DOMAIN w : i <= Len(w) /\ i # Len(w) + 1 /\ Append(w, k)[i] = w[i]
           /\ Append(w, k)[Len(w) + 1] = k
  BY AppendProperties, LenProperties

\* The last places of a walk that goes on.
LEMMA LastAppended ==
    ASSUME NEW S, NEW w \in Seq(S), NEW k \in S, NEW i, LastPlace(Append(w, k), i)
    PROVE  \/ i = Len(w) + 1
           \/ i \in DOMAIN w /\ LastPlace(w, i) /\ Lower(w[i]) # Lower(k)
<1>1. i \in DOMAIN w \cup {Len(w) + 1}
  BY Appended DEF LastPlace
<1>2. ASSUME i \in DOMAIN w
      PROVE  LastPlace(w, i) /\ Lower(w[i]) # Lower(k)
  <2>1. \A j \in DOMAIN w : Lower(w[j]) = Lower(w[i]) => j <= i
    BY <1>2, Appended DEF LastPlace
  <2>2. Lower(w[i]) = Lower(k) => Len(w) + 1 <= i
    BY <1>2, Appended DEF LastPlace
  <2>3. i \in Nat /\ i <= Len(w) /\ Len(w) \in Nat
    BY <1>2, Appended
  <2> QED BY <1>2, <2>1, <2>2, <2>3 DEF LastPlace
<1> QED BY <1>1, <1>2

\* What every step of the walk keeps.
LEMMA WalkGoesOn ==
    ASSUME NEW y \in Yaml, NEW w, Walk(y, w), \A i \in DOMAIN w : GoodRule(y, w[i]),
           NEW k \in DOMAIN y.rules \ ToSet(w), GoodRule(y, k)
    PROVE  Walk(y, Append(w, k)) /\ \A i \in DOMAIN Append(w, k) : GoodRule(y, Append(w, k)[i])
<1>1. w \in Seq(DOMAIN y.rules) /\ \A i \in DOMAIN w : w[i] # k
  BY DEF Walk, ToSet
<1>2. \A i, j \in DOMAIN Append(w, k) : Append(w, k)[i] = Append(w, k)[j] => i = j
  <2>1. \A i, j \in DOMAIN w : w[i] = w[j] => i = j
    BY DEF Walk
  <2> HIDE DEF Walk
  <2> QED BY <1>1, <2>1, Appended
<1>3. \A i \in DOMAIN Append(w, k) : GoodRule(y, Append(w, k)[i])
  BY <1>1, Appended
<1> QED BY <1>1, <1>2, <1>3, Appended DEF Walk

LEMMA WalkStarts ==
    ASSUME NEW y \in Yaml
    PROVE  WalkRight(y, <<>>, <<>>, NoHops, <<>>)
<1>1. DOMAIN <<>> = {} /\ \A S : <<>> \in Seq(S)
  OBVIOUS
<1>2. Walk(y, <<>>)
  BY <1>1 DEF Walk
<1>3. RulesRight(y, <<>>, <<>>)
  <2>1. <<>> = [h \in DOMAIN <<>> |-> <<>>[h]]
    OBVIOUS
  <2> QED BY <1>1, <2>1 DEF RulesRight
<1>4. DefaultRight(y, <<>>, NoHops)
  BY <1>1 DEF DefaultRight
<1>5. NamesRight(y, <<>>, <<>>)
  BY <1>1 DEF NamesRight
<1> QED BY <1>1, <1>2, <1>3, <1>4, <1>5 DEF WalkRight

\* The default rule is taken.
LEMMA DefaultTaken ==
    ASSUME NEW y \in Yaml, NEW w, NEW rs, NEW d, NEW hs, WalkRight(y, w, rs, d, hs),
           NEW k \in DOMAIN y.rules \ ToSet(w), GoodRule(y, k), IsDefault(k)
    PROVE  WalkRight(y, Append(w, k), rs, Hops(y, k), hs)
<1> DEFINE w2 == Append(w, k)
           L == Len(w) + 1
<1>1. w \in Seq(DOMAIN y.rules)
  BY DEF WalkRight, Walk
<1>2. /\ DOMAIN w2 = DOMAIN w \cup {L} /\ w2[L] = k
      /\ \A i \in DOMAIN w : w2[i] = w[i]
  BY <1>1, Appended
<1>3. \A i : LastPlace(w2, i) => \/ i = L
                                 \/ i \in DOMAIN w /\ LastPlace(w, i) /\ Lower(w[i]) # Lower(k)
  BY <1>1, LastAppended
<1> HIDE DEF w2, L
<1>4. RulesRight(y, w2, rs)
  <2>1. RulesRight(y, w, rs)
    BY DEF WalkRight
  <2>2. {Lower(w2[i]) : i \in {i \in DOMAIN w2 : ~IsDefault(w2[i])}}
            = {Lower(w[i]) : i \in {i \in DOMAIN w : ~IsDefault(w[i])}}
    BY <1>2
  <2>3. \A i \in DOMAIN w2 : (~IsDefault(w2[i]) /\ LastPlace(w2, i)) => rs[Lower(w2[i])] = Hops(y, w2[i])
    BY <1>2, <1>3, <2>1 DEF RulesRight
  <2> QED BY <2>1, <2>2, <2>3 DEF RulesRight
<1>5. DefaultRight(y, w2, Hops(y, k))
  <2>1. \A i \in DOMAIN w2 : (IsDefault(w2[i]) /\ LastPlace(w2, i)) => i = L
    BY <1>2, <1>3 DEF IsDefault
  <2> QED BY <1>2, <2>1 DEF DefaultRight
<1>6. Walk(y, w2) /\ \A i \in DOMAIN w2 : GoodRule(y, w2[i])
  BY WalkGoesOn DEF WalkRight, w2
<1>7. NamesRight(y, rs, hs)
  BY DEF WalkRight
<1>8. WalkRight(y, w2, rs, Hops(y, k), hs)
  BY <1>4, <1>5, <1>6, <1>7 DEF WalkRight
<1> QED BY <1>8 DEF w2

\* A host rule is taken; its name is new, or another spelling has it already.
LEMMA HostTaken ==
    ASSUME NEW y \in Yaml, NEW w, NEW rs, NEW d, NEW hs, WalkRight(y, w, rs, d, hs),
           NEW k \in DOMAIN y.rules \ ToSet(w), GoodRule(y, k), ~IsDefault(k)
    PROVE  WalkRight(y, Append(w, k), Insert(rs, Lower(k), Hops(y, k)), d,
                     IF \E i \in DOMAIN hs : Lower(hs[i]) = Lower(k) THEN hs ELSE Append(hs, k))
<1> DEFINE w2 == Append(w, k)
           L == Len(w) + 1
           rs2 == Insert(rs, Lower(k), Hops(y, k))
           hs2 == IF \E i \in DOMAIN hs : Lower(hs[i]) = Lower(k) THEN hs ELSE Append(hs, k)
<1>1. w \in Seq(DOMAIN y.rules)
  BY DEF WalkRight, Walk
<1>2. /\ DOMAIN w2 = DOMAIN w \cup {L} /\ w2[L] = k
      /\ \A i \in DOMAIN w : w2[i] = w[i]
  BY <1>1, Appended
<1>3. \A i : LastPlace(w2, i) => \/ i = L
                                 \/ i \in DOMAIN w /\ LastPlace(w, i) /\ Lower(w[i]) # Lower(k)
  BY <1>1, LastAppended
<1>4. /\ rs2 = [h \in DOMAIN rs2 |-> rs2[h]]
      /\ DOMAIN rs2 = DOMAIN rs \cup {Lower(k)} /\ rs2[Lower(k)] = Hops(y, k)
      /\ \A h \in DOMAIN rs : h # Lower(k) => rs2[h] = rs[h]
  BY DEF Insert
<1>5. NamesRight(y, rs, hs) /\ RulesRight(y, w, rs) /\ DefaultRight(y, w, d)
  BY DEF WalkRight
<1>6. NamesRight(y, rs2, hs2)
  <2>1. /\ hs \in Seq(DOMAIN y.rules)
        /\ \A n \in DOMAIN hs : ~IsDefault(hs[n])
        /\ {Lower(hs[n]) : n \in DOMAIN hs} = DOMAIN rs
        /\ \A n, m \in DOMAIN hs : Lower(hs[n]) = Lower(hs[m]) => n = m
    BY <1>5 DEF NamesRight
  <2>2. CASE \E i \in DOMAIN hs : Lower(hs[i]) = Lower(k)
    <3>1. hs2 = hs
      BY <2>2
    <3> HIDE DEF hs2, rs2
    <3>2. Lower(k) \in DOMAIN rs
      BY <2>1, <2>2
    <3>3. DOMAIN rs2 = DOMAIN rs
      BY <1>4, <3>2
    <3> QED BY <2>1, <3>1, <3>3 DEF NamesRight
  <2>3. CASE ~\E i \in DOMAIN hs : Lower(hs[i]) = Lower(k)
    <3>1. hs2 = Append(hs, k)
      BY <2>3
    <3> HIDE DEF hs2, rs2, w2, L
    <3>2. /\ hs2 \in Seq(DOMAIN y.rules) /\ DOMAIN hs2 = DOMAIN hs \cup {Len(hs) + 1}
          /\ hs2[Len(hs) + 1] = k /\ \A n \in DOMAIN hs : hs2[n] = hs[n]
      <4>1. hs \in Seq(DOMAIN y.rules) /\ k \in DOMAIN y.rules
        BY <2>1
      <4> QED BY <3>1, <4>1, Appended
    <3>3. \A n \in DOMAIN hs2 : ~IsDefault(hs2[n])
      BY <2>1, <3>2
    <3>4. {Lower(hs2[n]) : n \in DOMAIN hs2} = DOMAIN rs2
      BY <1>4, <2>1, <3>2
    <3>5. \A n, m \in DOMAIN hs2 : Lower(hs2[n]) = Lower(hs2[m]) => n = m
      BY <2>1, <2>3, <3>2
    <3> QED BY <3>2, <3>3, <3>4, <3>5 DEF NamesRight
  <2> QED BY <2>2, <2>3
<1> HIDE DEF w2, L, rs2, hs2
<1>7. RulesRight(y, w2, rs2)
  <2>1. {Lower(w2[i]) : i \in {i \in DOMAIN w2 : ~IsDefault(w2[i])}}
            = {Lower(w[i]) : i \in {i \in DOMAIN w : ~IsDefault(w[i])}} \cup {Lower(k)}
    BY <1>2
  <2>2. ASSUME NEW i \in DOMAIN w2, ~IsDefault(w2[i]), LastPlace(w2, i)
        PROVE  rs2[Lower(w2[i])] = Hops(y, w2[i])
    <3>1. CASE i = L
      BY <1>2, <1>4, <3>1
    <3>2. CASE i \in DOMAIN w /\ LastPlace(w, i) /\ Lower(w[i]) # Lower(k)
      <4>1. ~IsDefault(w[i]) /\ w2[i] = w[i]
        BY <1>2, <2>2, <3>2
      <4>2. rs[Lower(w[i])] = Hops(y, w[i]) /\ Lower(w[i]) \in DOMAIN rs
        BY <1>5, <3>2, <4>1 DEF RulesRight
      <4> QED BY <1>4, <3>2, <4>1, <4>2
    <3> QED BY <1>3, <2>2, <3>1, <3>2
  <2> QED BY <1>4, <1>5, <2>1, <2>2 DEF RulesRight
<1>8. DefaultRight(y, w2, d)
  <2>1. \A i \in DOMAIN w2 : (IsDefault(w2[i]) /\ LastPlace(w2, i)) => d = Hops(y, w2[i])
    BY <1>2, <1>3, <1>5 DEF DefaultRight
  <2>2. (\A i \in DOMAIN w2 : ~IsDefault(w2[i])) => d = NoHops
    BY <1>2, <1>5 DEF DefaultRight
  <2> QED BY <2>1, <2>2 DEF DefaultRight
<1>9. Walk(y, w2) /\ \A i \in DOMAIN w2 : GoodRule(y, w2[i])
  BY WalkGoesOn DEF WalkRight, w2
<1>10. WalkRight(y, w2, rs2, d, hs2)
  BY <1>6, <1>7, <1>8, <1>9 DEF WalkRight
<1> QED BY <1>10 DEF w2, rs2, hs2

-----------------------------------------------------------------------------
(***************************************************************************)
(* The invariant is inductive.                                             *)
(***************************************************************************)

\* A result is the last one, and the config is done.
LEMMA Returned ==
    ASSUME ResultsRight, pc # "ready", NEW r, Return(r), ResultRight(r)
    PROVE  ResultsRight' /\ Len(built') > 0 /\ Last(built') = r
<1> DEFINE S == {built[n] : n \in DOMAIN built}
<1>1. built' = Append(built, r) /\ pc' = "ready"
  BY DEF Return
<1>2. built \in Seq(S) /\ Len(built) \in Nat /\ Len(built) < 2
  BY DEF ResultsRight
<1>3. built \in Seq(S \cup {r})
  <2>1. \A A, B : A \subseteq B => Seq(A) \subseteq Seq(B)
    OBVIOUS
  <2> QED BY <1>2, <2>1
<1> DEFINE L == Len(built) + 1
<1>4. /\ built' \in Seq(S \cup {r}) /\ Len(built') = L
      /\ DOMAIN built' = DOMAIN built \cup {L}
      /\ built'[L] = r /\ \A n \in DOMAIN built : built'[n] = built[n]
  <2> HIDE DEF S
  <2>1. r \in S \cup {r}
    OBVIOUS
  <2> QED BY <1>1, <1>3, <2>1, Appended
<1>5. S \cup {r} = {built'[n] : n \in DOMAIN built'}
  BY <1>4
<1>6. \A n \in DOMAIN built' : ResultRight(built'[n])
  BY <1>4 DEF ResultsRight
<1>7. Len(built') \in 0..2 /\ Len(built') > 0
  BY <1>2, <1>4
<1>8. Last(built') = r
  BY <1>4 DEF Last
<1> HIDE DEF S, L
<1>9. built' \in Seq({built'[n] : n \in DOMAIN built'})
  BY <1>4, <1>5
<1> QED BY <1>1, <1>6, <1>7, <1>8, <1>9 DEF ResultsRight

LEMMA InitRight == Init => RouterInv
<1> SUFFICES ASSUME Init
             PROVE  RouterInv
  OBVIOUS
<1>1. StagesRight
  BY DEF Init, StagesRight
<1>2. ResultsRight
  <2>1. built = <<>> /\ DOMAIN built = {} /\ Len(built) = 0 /\ pc = "proxies"
    BY DEF Init
  <2>2. built \in Seq({built[n] : n \in DOMAIN built})
    BY <2>1
  <2> QED BY <2>1, <2>2 DEF ResultsRight
<1>3. OutcomeRight
  BY DEF Init, OutcomeRight
<1> QED BY <1>1, <1>2, <1>3 DEF RouterInv

\* An error is right if the config is not good.
LEMMA Refused ==
    ASSUME RouterInv, pc # "ready", Return(Err), yaml' = yaml, ~GoodYaml(yaml)
    PROVE  RouterInv'
<1>1. ResultRight(Err) /\ Err.ok = FALSE
  BY DEF ResultRight, Err
<1>2. ResultsRight' /\ Len(built') > 0 /\ Last(built') = Err
  BY <1>1, Returned DEF RouterInv
<1>3. pc' = "ready" /\ yaml \in Yaml
  BY DEF Return, RouterInv, StagesRight
<1>4. StagesRight'
  BY <1>3 DEF StagesRight
<1>5. OutcomeRight'
  <2>1. ~Last(built').ok
    BY <1>1, <1>2
  <2> QED BY <1>2, <2>1 DEF OutcomeRight
<1> QED BY <1>2, <1>4, <1>5 DEF RouterInv

LEMMA ParseProxiesKeeps ==
    ASSUME RouterInv, ParseProxies
    PROVE  RouterInv'
<1>1. pc = "proxies" /\ yaml' = yaml /\ yaml \in Yaml
  BY DEF ParseProxies, RouterInv, StagesRight
<1>2. CASE ProxiesParse(yaml)
  <2>1. /\ pc' = "rules"
        /\ UNCHANGED <<yaml, order, rules, default, hostnames, built>>
    BY <1>2 DEF ParseProxies, ProxiesParse
  <2>2. order = <<>> /\ rules = <<>> /\ default = NoHops /\ hostnames = <<>>
    BY <1>1 DEF RouterInv, StagesRight
  <2>3. WalkRight(yaml, order, rules, default, hostnames)
    BY <1>1, <2>2, WalkStarts
  <2>4. StagesRight'
    BY <1>1, <1>2, <2>1, <2>3 DEF StagesRight
  <2>5. ResultsRight'
    BY <1>1, <2>1 DEF RouterInv, ResultsRight
  <2>6. OutcomeRight'
    BY <2>1 DEF OutcomeRight
  <2> QED BY <2>4, <2>5, <2>6 DEF RouterInv
<1>3. CASE ~ProxiesParse(yaml)
  <2>1. Return(Err)
    BY <1>3 DEF ParseProxies, ProxiesParse
  <2>2. ~GoodYaml(yaml)
    BY <1>3 DEF GoodYaml
  <2> QED BY <1>1, <2>1, <2>2, Refused
<1> QED BY <1>2, <1>3

LEMMA WalkRuleKeeps ==
    ASSUME RouterInv, NEW k \in Key, WalkRule(k)
    PROVE  RouterInv'
<1>1. /\ pc = "rules" /\ yaml' = yaml /\ yaml \in Yaml /\ ProxiesParse(yaml)
      /\ WalkRight(yaml, order, rules, default, hostnames)
      /\ k \in DOMAIN yaml.rules \ ToSet(order) /\ order' = Append(order, k)
  BY DEF WalkRule, RouterInv, StagesRight, Todo
<1>2. ASSUME GoodRule(yaml, k), WalkRight(yaml, order', rules', default', hostnames'), UNCHANGED <<pc, built>>
      PROVE  RouterInv'
  <2>1. StagesRight'
    BY <1>1, <1>2 DEF StagesRight
  <2>2. ResultsRight'
    BY <1>1, <1>2 DEF RouterInv, ResultsRight
  <2>3. OutcomeRight'
    BY <1>1, <1>2 DEF OutcomeRight
  <2> QED BY <2>1, <2>2, <2>3 DEF RouterInv
<1>3. CASE /\ IsDefault(k) /\ Resolves(k)
           /\ default' = Hops(yaml, k)
           /\ UNCHANGED <<pc, rules, hostnames, built>>
  <2>1. GoodRule(yaml, k)
    BY <1>3 DEF GoodRule, Resolves
  <2>2. WalkRight(yaml, Append(order, k), rules, Hops(yaml, k), hostnames)
    BY <1>1, <1>3, <2>1, DefaultTaken
  <2>3. WalkRight(yaml, order', rules', default', hostnames')
    BY <1>1, <1>3, <2>2
  <2> QED BY <1>2, <1>3, <2>1, <2>3
<1>4. CASE /\ ~IsDefault(k) /\ IsValidHostname(k) /\ Resolves(k)
           /\ rules' = Insert(rules, Lower(k), Hops(yaml, k))
           /\ hostnames' = IF \E i \in DOMAIN hostnames : Lower(hostnames[i]) = Lower(k)
                           THEN hostnames ELSE Append(hostnames, k)
           /\ UNCHANGED <<pc, default, built>>
  <2>1. GoodRule(yaml, k)
    BY <1>4 DEF GoodRule, Resolves
  <2>2. WalkRight(yaml, Append(order, k), Insert(rules, Lower(k), Hops(yaml, k)), default,
                  IF \E i \in DOMAIN hostnames : Lower(hostnames[i]) = Lower(k)
                  THEN hostnames ELSE Append(hostnames, k))
    BY <1>1, <1>4, <2>1, HostTaken
  <2>3. WalkRight(yaml, order', rules', default', hostnames')
    BY <1>1, <1>4, <2>2
  <2> QED BY <1>2, <1>4, <2>1, <2>3
<1>5. CASE /\ ~Resolves(k) \/ (~IsDefault(k) /\ ~IsValidHostname(k))
           /\ Return(Err)
           /\ UNCHANGED <<rules, default, hostnames>>
  <2>1. ~GoodYaml(yaml)
    BY <1>1, <1>5 DEF GoodYaml, GoodRule, Resolves
  <2> QED BY <1>1, <1>5, <2>1, Refused
<1> QED BY <1>3, <1>4, <1>5 DEF WalkRule

\* After a whole walk, without two spellings of a name, the default is what its
\* key says: it is missing or empty only if the list is empty.
LEMMA DefaultSaysAll ==
    ASSUME NEW y \in Yaml, NEW w, NEW rs, NEW d, NEW hs, WalkRight(y, w, rs, d, hs),
           DOMAIN y.rules \subseteq ToSet(w), Distinct(y), ProxiesParse(y)
    PROVE  GoodYaml(y) <=> d \notin {NoHops, <<>>}
<1>1. \A k \in DOMAIN y.rules : GoodRule(y, k)
  BY DEF WalkRight, ToSet
<1>2. ASSUME NEW k \in DOMAIN y.rules, IsDefault(k)
      PROVE  d = Hops(y, k)
  <2>1. PICK i \in DOMAIN w : w[i] = k
    BY DEF ToSet
  <2>2. LastPlace(w, i)
    <3>1. \A j \in DOMAIN w : w[j] \in DOMAIN y.rules
      BY ElementOfSeq DEF WalkRight, Walk
    <3>2. \A j \in DOMAIN w : Lower(w[j]) = Lower(w[i]) => j = i
      BY <3>1 DEF Distinct, WalkRight, Walk
    <3>3. i <= i
      <4>1. i \in Nat
        BY <2>1, LenProperties DEF WalkRight, Walk
      <4> QED BY <4>1
    <3> QED BY <3>2, <3>3 DEF LastPlace
  <2> QED BY <1>2, <2>1, <2>2 DEF WalkRight, DefaultRight
<1>3. PICK k \in DOMAIN y.rules : IsDefault(k)
  BY ConfigKeys
<1>4. d \in {NoHops, <<>>} => y.rules[k] = <<>>
  BY <1>2, <1>3, HopsAre
<1>5. ASSUME d \notin {NoHops, <<>>}, NEW l \in DOMAIN y.rules, IsDefault(l)
      PROVE  y.rules[l] # <<>>
  BY <1>2, <1>5, HopsAre
<1> QED BY <1>1, <1>3, <1>4, <1>5 DEF GoodYaml

LEMMA FinishKeeps ==
    ASSUME RouterInv, Finish
    PROVE  RouterInv'
<1> DEFINE R == [ok |-> TRUE, yaml |-> yaml, rules |-> rules, default |-> default,
                 hostnames |-> SortKeys(hostnames), fingerprint |-> RoutingFingerprint(yaml, order)]
<1>1. /\ pc = "rules" /\ yaml' = yaml /\ yaml \in Yaml /\ ProxiesParse(yaml)
      /\ WalkRight(yaml, order, rules, default, hostnames)
      /\ DOMAIN yaml.rules \subseteq ToSet(order)
  BY DEF Finish, RouterInv, StagesRight, Todo
<1>2. Distinct(yaml) => (GoodYaml(yaml) <=> default \notin {NoHops, <<>>})
  BY <1>1, DefaultSaysAll
<1>3. CASE default \in {NoHops, <<>>}
  <2>1. Return(Err)
    BY <1>3 DEF Finish
  <2>2. ResultRight(Err) /\ Err.ok = FALSE
    BY DEF ResultRight, Err
  <2>3. ResultsRight' /\ Len(built') > 0 /\ Last(built') = Err
    BY <1>1, <2>1, <2>2, Returned DEF RouterInv
  <2>4. StagesRight'
    BY <1>1, <2>1 DEF StagesRight, Return
  <2>5. OutcomeRight'
    <3>1. ~Last(built').ok
      BY <2>2, <2>3
    <3>2. Distinct(yaml) => ~GoodYaml(yaml)
      BY <1>2, <1>3
    <3> QED BY <1>1, <2>3, <3>1, <3>2 DEF OutcomeRight
  <2> QED BY <2>3, <2>4, <2>5 DEF RouterInv
<1>4. CASE default \notin {NoHops, <<>>}
  <2>1. Return(R)
    BY <1>4 DEF Finish
  <2>2. R.ok = TRUE /\ R.yaml = yaml
    OBVIOUS
  <2>3. ResultRight(R)
    <3>1. Built(R, order, hostnames)
      BY <1>1, <1>4 DEF Built
    <3>2. order \in Seq(DOMAIN R.yaml.rules) /\ hostnames \in Seq(DOMAIN R.yaml.rules)
      BY <1>1 DEF WalkRight, Walk, NamesRight
    <3> HIDE DEF R
    <3> QED BY <2>2, <3>1, <3>2 DEF ResultRight
  <2> HIDE DEF R
  <2>4. ResultsRight' /\ Len(built') > 0 /\ Last(built') = R
    BY <1>1, <2>1, <2>3, Returned DEF RouterInv
  <2>5. StagesRight'
    BY <1>1, <2>1 DEF StagesRight, Return
  <2>6. OutcomeRight'
    <3>1. Last(built').ok /\ Last(built').yaml = yaml'
      BY <1>1, <2>2, <2>4
    <3>2. Distinct(yaml) => GoodYaml(yaml)
      BY <1>2, <1>4
    <3>3. Distinct(yaml') => GoodYaml(yaml')
      BY <1>1, <3>2
    <3> QED BY <2>4, <3>1, <3>3 DEF OutcomeRight
  <2> QED BY <2>4, <2>5, <2>6 DEF RouterInv
<1> QED BY <1>3, <1>4

LEMMA NextPollKeeps ==
    ASSUME RouterInv, NEW y \in Yaml, NextPoll(y)
    PROVE  RouterInv'
<1>1. StagesRight'
  BY DEF NextPoll, StagesRight
<1>2. ResultsRight'
  <2>1. built' = built /\ Len(built) < 2
    BY DEF NextPoll
  <2> QED BY <2>1 DEF RouterInv, ResultsRight
<1>3. OutcomeRight'
  BY DEF NextPoll, OutcomeRight
<1> QED BY <1>1, <1>2, <1>3 DEF RouterInv

\* Stage by stage, result by result, and the verdict on the last config.
THEOREM RoutersAreBuilt == Spec => []RouterInv
<1>1. Init => RouterInv
  BY InitRight
<1>2. RouterInv /\ [Next]_vars => RouterInv'
  <2> SUFFICES ASSUME RouterInv, [Next]_vars
               PROVE  RouterInv'
    OBVIOUS
  <2>1. CASE ParseProxies
    BY <2>1, ParseProxiesKeeps
  <2>2. CASE Finish
    BY <2>2, FinishKeeps
  <2>3. CASE \E k \in Key : WalkRule(k)
    BY <2>3, WalkRuleKeeps
  <2>4. CASE \E y \in Yaml : NextPoll(y)
    BY <2>4, NextPollKeeps
  <2>5. CASE UNCHANGED vars
    BY <2>5 DEF RouterInv, StagesRight, ResultsRight, OutcomeRight, vars
  <2> QED BY <2>1, <2>2, <2>3, <2>4, <2>5 DEF Next
<1> QED BY <1>1, <1>2, PTL DEF Spec

-----------------------------------------------------------------------------
(***************************************************************************)
(* What the fingerprint tells: the sorted rules and the proxies say all of *)
(* the routing, without the order of the walk.                             *)
(***************************************************************************)

\* The last rule with a name, the hops it says, and the names.
LastNamed(rs, h) == CHOOSE n \in DOMAIN rs : rs[n][1] = h /\ \A m \in DOMAIN rs : rs[m][1] = h => m <= n
HopsTold(ps, list) == [i \in DOMAIN list |-> [name |-> list[i], proxy |-> ParseProxy(ps[list[i]])]]
Told(f, h) == HopsTold(f.proxies, f.rules[LastNamed(f.rules, h)][2])
NamesTold(f) == {f.rules[n][1] : n \in DOMAIN f.rules}

\* Every name of a walk has a last place.
LEMMA LastExists ==
    ASSUME NEW w \in Seq(Key), NEW i \in DOMAIN w
    PROVE  \E j \in DOMAIN w : LastPlace(w, j) /\ Lower(w[j]) = Lower(w[i])
<1> DEFINE Same == {j \in DOMAIN w : Lower(w[j]) = Lower(w[i])}
           Back == {n \in Nat : Len(w) - n \in Same}
<1>1. Len(w) \in Nat /\ DOMAIN w = 1..Len(w)
  BY KeysRanked
<1>2. Len(w) - i \in Back
  <2>1. i \in Nat /\ i <= Len(w) /\ Len(w) - i \in Nat /\ Len(w) - (Len(w) - i) = i
    BY <1>1
  <2> QED BY <2>1
<1>3. PICK n \in Back : \A l \in Back : ~(l < n)
  <2>1. Back \subseteq Nat
    OBVIOUS
  <2> HIDE DEF Back
  <2>2. PICK n \in Back : \A l \in Back : <<l, n>> \notin OpToRel(<, Nat)
    BY <1>2, <2>1, WFMin, NatLessThanWellFounded
  <2>3. \A l \in Back : ~(l < n)
    BY <2>1, <2>2 DEF OpToRel
  <2> QED BY <2>3
<1> DEFINE j == Len(w) - n
<1>4. j \in Same /\ n \in Nat
  BY <1>3
<1>5. ASSUME NEW l \in DOMAIN w, Lower(w[l]) = Lower(w[i])
      PROVE  l <= j
  <2>1. l \in Nat /\ l <= Len(w) /\ Len(w) - l \in Nat /\ Len(w) - (Len(w) - l) = l
    BY <1>1
  <2>2. Len(w) - l \in Back
    BY <1>5, <2>1
  <2>3. ~(Len(w) - l < n)
    BY <1>3, <2>2
  <2> QED BY <1>1, <1>4, <2>1, <2>3
<1>6. LastPlace(w, j)
  BY <1>4, <1>5 DEF LastPlace
<1> QED BY <1>4, <1>6

\* The sorted rules tell what the last key of a name says.
LEMMA LastIsTold ==
    ASSUME NEW y \in Yaml, NEW w \in Seq(DOMAIN y.rules), NEW i, LastPlace(w, i)
    PROVE  Told(RoutingFingerprint(y, w), Lower(w[i])) = Hops(y, w[i])
<1> DEFINE c == Cardinality(Ahead(w, i)) + 1
           h == Lower(w[i])
           rs == SortedRules(y, w)
<1>1. w \in Seq(Key)
  BY ConfigKeys
<1>2. /\ c \in DOMAIN w /\ SortKeys(w)[c] = w[i]
      /\ \A n \in DOMAIN w : Lower(SortKeys(w)[n]) = h => n <= c
  BY <1>1, LastInSort
<1>3. /\ DOMAIN rs = DOMAIN w
      /\ \A n \in DOMAIN w : rs[n][1] = Lower(SortKeys(w)[n]) /\ rs[n][2] = y.rules[SortKeys(w)[n]]
  BY DEF SortedRules
<1>4. DOMAIN w \subseteq Nat
  BY <1>1, KeysRanked
<1> HIDE DEF c, h, rs
<1>5. c \in DOMAIN rs /\ rs[c][1] = h /\ rs[c][2] = y.rules[w[i]] /\ \A n \in DOMAIN rs : rs[n][1] = h => n <= c
  BY <1>2, <1>3 DEF h
<1>6. \A n \in DOMAIN rs : (rs[n][1] = h /\ \A m \in DOMAIN rs : rs[m][1] = h => m <= n) => n = c
  <2> SUFFICES ASSUME NEW n \in DOMAIN rs, rs[n][1] = h, \A m \in DOMAIN rs : rs[m][1] = h => m <= n
               PROVE  n = c
    OBVIOUS
  <2>1. n <= c /\ c <= n
    BY <1>5
  <2>2. n \in Nat /\ c \in Nat
    BY <1>3, <1>4, <1>5
  <2> QED BY <2>1, <2>2
<1>7. LastNamed(rs, h) = c
  BY <1>5, <1>6 DEF LastNamed
<1>8. HopsTold(y.proxies, y.rules[w[i]]) = Hops(y, w[i])
  BY DEF HopsTold, Hops
<1>9. RoutingFingerprint(y, w).proxies = y.proxies /\ RoutingFingerprint(y, w).rules = rs
  BY DEF RoutingFingerprint, rs
<1> QED BY <1>5, <1>7, <1>8, <1>9 DEF Told, h

\* A result is told by its fingerprint.
LEMMA AllIsTold ==
    ASSUME NEW r, NEW w, NEW hs, Built(r, w, hs)
    PROVE  /\ r.rules = [h \in NamesTold(r.fingerprint) \ {DefaultKey} |-> Told(r.fingerprint, h)]
           /\ r.default = Told(r.fingerprint, DefaultKey)
<1> DEFINE y == r.yaml
           f == RoutingFingerprint(y, w)
<1>1. /\ y \in Yaml /\ w \in Seq(DOMAIN y.rules) /\ r.fingerprint = f
      /\ RulesRight(y, w, r.rules) /\ DefaultRight(y, w, r.default) /\ r.default # NoHops
  BY DEF Built, WalkRight, Walk
<1> HIDE DEF y
<1>2. w \in Seq(Key)
  BY <1>1, ConfigKeys
<1>3. NamesTold(f) = {Lower(w[i]) : i \in DOMAIN w}
  <2>1. /\ DOMAIN f.rules = DOMAIN w
        /\ \A n \in DOMAIN w : f.rules[n][1] = Lower(SortKeys(w)[n])
    BY DEF RoutingFingerprint, SortedRules
  <2>2. /\ \A n \in DOMAIN w : \E i \in DOMAIN w : SortKeys(w)[n] = w[i]
        /\ \A i \in DOMAIN w : \E n \in DOMAIN w : SortKeys(w)[n] = w[i]
    BY <1>2, Sorted, AheadCounts
  <2> HIDE DEF f
  <2>3. ASSUME NEW n \in DOMAIN w
        PROVE  f.rules[n][1] \in {Lower(w[i]) : i \in DOMAIN w}
    <3>1. PICK i \in DOMAIN w : SortKeys(w)[n] = w[i]
      BY <2>2
    <3> QED BY <2>1, <3>1
  <2>4. ASSUME NEW i \in DOMAIN w
        PROVE  \E n \in DOMAIN w : f.rules[n][1] = Lower(w[i])
    <3>1. PICK n \in DOMAIN w : SortKeys(w)[n] = w[i]
      BY <2>2
    <3> QED BY <2>1, <3>1
  <2>5. NamesTold(f) = {f.rules[n][1] : n \in DOMAIN w}
    BY <2>1 DEF NamesTold
  <2> QED BY <2>3, <2>4, <2>5
<1>4. DOMAIN r.rules = NamesTold(f) \ {DefaultKey}
  BY <1>1, <1>3 DEF RulesRight, IsDefault
<1> HIDE DEF f
<1>5. ASSUME NEW h \in DOMAIN r.rules
      PROVE  r.rules[h] = Told(f, h)
  <2>1. PICK i \in DOMAIN w : h = Lower(w[i]) /\ ~IsDefault(w[i])
    BY <1>1, <1>5 DEF RulesRight
  <2>2. PICK j \in DOMAIN w : LastPlace(w, j) /\ Lower(w[j]) = Lower(w[i])
    BY <1>2, LastExists
  <2>3. ~IsDefault(w[j]) /\ h = Lower(w[j])
    BY <2>1, <2>2 DEF IsDefault
  <2>4. r.rules[h] = Hops(y, w[j])
    BY <1>1, <2>2, <2>3 DEF RulesRight
  <2>5. Told(f, h) = Hops(y, w[j])
    BY <1>1, <2>2, <2>3, LastIsTold DEF f
  <2> QED BY <2>4, <2>5
<1>6. r.default = Told(f, DefaultKey)
  <2>1. PICK i \in DOMAIN w : IsDefault(w[i])
    BY <1>1 DEF DefaultRight
  <2>2. PICK j \in DOMAIN w : LastPlace(w, j) /\ Lower(w[j]) = Lower(w[i])
    BY <1>2, LastExists
  <2>3. IsDefault(w[j]) /\ Lower(w[j]) = DefaultKey
    BY <2>1, <2>2 DEF IsDefault
  <2>4. r.default = Hops(y, w[j])
    BY <1>1, <2>2, <2>3 DEF DefaultRight
  <2>5. Told(f, DefaultKey) = Hops(y, w[j])
    BY <1>1, <2>2, <2>3, LastIsTold DEF f
  <2> QED BY <2>4, <2>5
<1>7. r.rules = [h \in DOMAIN r.rules |-> r.rules[h]]
  BY <1>1 DEF RulesRight
<1>8. r.rules = [h \in NamesTold(f) \ {DefaultKey} |-> Told(f, h)]
  BY <1>4, <1>5, <1>7
<1> QED BY <1>1, <1>6, <1>8

\* Without two spellings of a name, a text has one result.
LEMMA OneResult ==
    ASSUME NEW r, NEW w, NEW hs, Built(r, w, hs), NEW q, NEW v, NEW gs, Built(q, v, gs),
           r.yaml = q.yaml, Distinct(r.yaml)
    PROVE  r.fingerprint = q.fingerprint /\ r.hostnames = q.hostnames
<1> DEFINE y == r.yaml
<1>1. y \in Yaml /\ \A s \in Seq(DOMAIN y.rules) : s \in Seq(Key)
  BY ConfigKeys DEF Built
<1>2. /\ WalkRight(y, w, r.rules, r.default, hs) /\ DOMAIN y.rules \subseteq ToSet(w)
      /\ WalkRight(y, v, q.rules, q.default, gs) /\ DOMAIN y.rules \subseteq ToSet(v)
      /\ r.fingerprint = RoutingFingerprint(y, w) /\ r.hostnames = SortKeys(hs)
      /\ q.fingerprint = RoutingFingerprint(y, v) /\ q.hostnames = SortKeys(gs)
  BY DEF Built
<1>3. Distinct(y)
  OBVIOUS
<1> HIDE DEF y
<1>4. ASSUME NEW x, NEW rs, NEW d, NEW ns, WalkRight(y, x, rs, d, ns), DOMAIN y.rules \subseteq ToSet(x)
      PROVE  /\ x \in Seq(Key) /\ OneCase(x) /\ ToSet(x) = DOMAIN y.rules
             /\ ns \in Seq(Key) /\ OneCase(ns) /\ ToSet(ns) = {k \in DOMAIN y.rules : ~IsDefault(k)}
  <2>1. /\ x \in Seq(DOMAIN y.rules) /\ \A i, j \in DOMAIN x : x[i] = x[j] => i = j
        /\ ns \in Seq(DOMAIN y.rules) /\ OneCase(ns) /\ \A n \in DOMAIN ns : ~IsDefault(ns[n])
        /\ {Lower(ns[n]) : n \in DOMAIN ns} = {Lower(x[i]) : i \in {i \in DOMAIN x : ~IsDefault(x[i])}}
    BY <1>4 DEF WalkRight, Walk, NamesRight, RulesRight, OneCase
  <2>2. /\ \A i \in DOMAIN x : x[i] \in DOMAIN y.rules
        /\ \A n \in DOMAIN ns : ns[n] \in DOMAIN y.rules
    BY <2>1, ElementOfSeq, LenProperties
  <2>3. OneCase(x)
    BY <1>3, <2>1, <2>2 DEF OneCase, Distinct
  <2>4. ToSet(x) = DOMAIN y.rules
    BY <1>4, <2>2 DEF ToSet
  <2>5. ToSet(ns) \subseteq {k \in DOMAIN y.rules : ~IsDefault(k)}
    BY <2>1, <2>2 DEF ToSet
  <2>6. ASSUME NEW k \in DOMAIN y.rules, ~IsDefault(k)
        PROVE  k \in ToSet(ns)
    <3>1. PICK i \in DOMAIN x : x[i] = k
      BY <2>4 DEF ToSet
    <3>2. Lower(k) \in {Lower(ns[n]) : n \in DOMAIN ns}
      BY <2>1, <2>6, <3>1
    <3>3. PICK n \in DOMAIN ns : Lower(ns[n]) = Lower(k)
      BY <3>2
    <3>4. ns[n] = k
      BY <1>3, <2>2, <3>3 DEF Distinct
    <3> QED BY <3>4 DEF ToSet
  <2> QED BY <1>1, <2>1, <2>3, <2>4, <2>5, <2>6
<1>5. SortKeys(w) = SortKeys(v) /\ DOMAIN w = DOMAIN v
  <2>1. /\ w \in Seq(Key) /\ OneCase(w) /\ ToSet(w) = DOMAIN y.rules
        /\ v \in Seq(Key) /\ OneCase(v) /\ ToSet(v) = DOMAIN y.rules
    BY <1>2, <1>4
  <2>2. SortKeys(w) = SortKeys(v)
    BY <2>1, SortSame
  <2>3. DOMAIN SortKeys(w) = DOMAIN w /\ DOMAIN SortKeys(v) = DOMAIN v
    BY <2>1, Sorted
  <2> QED BY <2>2, <2>3
<1>6. SortKeys(hs) = SortKeys(gs)
  <2>1. /\ hs \in Seq(Key) /\ OneCase(hs) /\ ToSet(hs) = {k \in DOMAIN y.rules : ~IsDefault(k)}
        /\ gs \in Seq(Key) /\ OneCase(gs) /\ ToSet(gs) = {k \in DOMAIN y.rules : ~IsDefault(k)}
    BY <1>2, <1>4
  <2> QED BY <2>1, SortSame
<1>7. RoutingFingerprint(y, w) = RoutingFingerprint(y, v)
  BY <1>5 DEF RoutingFingerprint, SortedRules
<1> QED BY <1>2, <1>6, <1>7

\* Equal fingerprints mean equal routing, and a text parsed again has the
\* result it had, if no two of its keys differ in case only.
THEOREM FingerprintsAreExact == Spec => []FingerprintExact
<1>1. RouterInv => FingerprintExact
  <2> SUFFICES ASSUME RouterInv, Len(built) = 2, built[1].ok, built[2].ok
               PROVE  /\ built[1].fingerprint = built[2].fingerprint =>
                            built[1].rules = built[2].rules /\ built[1].default = built[2].default
                      /\ (built[1].yaml = built[2].yaml /\ Distinct(built[1].yaml)) => built[1] = built[2]
    BY DEF FingerprintExact
  <2>1. ASSUME NEW n \in {1, 2}
        PROVE  \E w, hs : Built(built[n], w, hs)
    <3>1. n \in DOMAIN built
      <4>1. DOMAIN built = 1..Len(built)
        BY LenProperties DEF RouterInv, ResultsRight
      <4> QED BY <4>1
    <3>2. ResultRight(built[n]) /\ built[n].ok
      BY <3>1 DEF RouterInv, ResultsRight
    <3>3. Err.ok = FALSE
      BY DEF Err
    <3> QED BY <3>2, <3>3 DEF ResultRight
  <2>2. PICK w, hs : Built(built[1], w, hs)
    BY <2>1
  <2>3. PICK v, gs : Built(built[2], v, gs)
    BY <2>1
  <2> DEFINE r == built[1]
             q == built[2]
  <2>4. /\ r.rules = [h \in NamesTold(r.fingerprint) \ {DefaultKey} |-> Told(r.fingerprint, h)]
        /\ r.default = Told(r.fingerprint, DefaultKey)
    BY <2>2, AllIsTold
  <2>5. /\ q.rules = [h \in NamesTold(q.fingerprint) \ {DefaultKey} |-> Told(q.fingerprint, h)]
        /\ q.default = Told(q.fingerprint, DefaultKey)
    BY <2>3, AllIsTold
  <2>6. /\ r = [ok |-> TRUE, yaml |-> r.yaml, rules |-> r.rules, default |-> r.default,
                hostnames |-> r.hostnames, fingerprint |-> r.fingerprint]
        /\ q = [ok |-> TRUE, yaml |-> q.yaml, rules |-> q.rules, default |-> q.default,
                hostnames |-> q.hostnames, fingerprint |-> q.fingerprint]
    BY <2>2, <2>3 DEF Built
  <2>7. (r.yaml = q.yaml /\ Distinct(r.yaml)) => r.fingerprint = q.fingerprint /\ r.hostnames = q.hostnames
    BY <2>2, <2>3, OneResult
  <2> HIDE DEF r, q
  <2>8. r.fingerprint = q.fingerprint => r.rules = q.rules /\ r.default = q.default
    BY <2>4, <2>5
  <2>9. (r.yaml = q.yaml /\ Distinct(r.yaml)) => r = q
    BY <2>6, <2>7, <2>8
  <2> QED BY <2>8, <2>9 DEF r, q
<1> QED BY <1>1, RoutersAreBuilt, PTL

-----------------------------------------------------------------------------
(***************************************************************************)
(* Acceptance and routing.                                                 *)
(***************************************************************************)

\* HostKey names the keys that is_valid_hostname takes.
HostKeysHold == \A k \in Key : ~IsDefault(k) => (IsValidHostname(k) <=> k \in HostKey)

\* A config is accepted, in whatever order its rules are walked, if and only if
\* its URLs, host names and references are good and its default is not empty,
\* given which keys are host names.
THEOREM GoodConfigsAreAccepted ==
    ASSUME HostKeysHold
    PROVE  Spec => []AcceptedIffGood
<1>1. RouterInv => AcceptedIffGood
  <2> SUFFICES ASSUME RouterInv, pc = "ready", Distinct(yaml)
               PROVE  Last(built).ok <=> Acceptable(yaml)
                                         /\ \A k \in DOMAIN yaml.rules : IsDefault(k) => yaml.rules[k] # <<>>
    BY DEF AcceptedIffGood
  <2>1. Last(built).ok <=> GoodYaml(yaml)
    BY DEF RouterInv, OutcomeRight
  <2>2. DOMAIN yaml.rules \subseteq Key
    BY ConfigKeys DEF RouterInv, StagesRight
  <2>3. ASSUME NEW k \in DOMAIN yaml.rules
        PROVE  (IsDefault(k) \/ IsValidHostname(k)) <=> (IsDefault(k) \/ k \in HostKey)
    BY <2>2 DEF HostKeysHold
  <2>4. GoodYaml(yaml) <=> Acceptable(yaml)
                           /\ \A k \in DOMAIN yaml.rules : IsDefault(k) => yaml.rules[k] # <<>>
    BY <2>3 DEF GoodYaml, GoodRule, ProxiesParse, Acceptable
  <2> QED BY <2>1, <2>4
<1> QED BY <1>1, RoutersAreBuilt, PTL

\* A text without its last dots is its longest beginning that ends in no dot.
LEMMA TrimDotsIs ==
    ASSUME NEW h \in Seq(STRING), NEW n \in 0..Len(h),
           \A i \in (n + 1)..Len(h) : h[i] = ".", n = 0 \/ h[n] # "."
    PROVE  TrimDots(h) = SubSeq(h, 1, n)
<1> DEFINE Dots == {i \in DOMAIN h : \A j \in i..Len(h) : h[j] = "."}
           L == Len(h)
<1>1. L \in Nat /\ DOMAIN h = 1..L /\ n \in Nat /\ n <= L
  BY LenProperties
<1>2. Dots = (n + 1)..L
  <2>1. ASSUME NEW i \in Dots
        PROVE  i \in (n + 1)..L
    <3>1. i \in 1..L /\ \A j \in i..L : h[j] = "."
      BY <1>1
    <3>2. ~(i <= n)
      <4> SUFFICES ASSUME i <= n
                   PROVE  FALSE
        OBVIOUS
      <4>1. n \in i..L /\ n # 0
        BY <1>1, <3>1
      <4> QED BY <3>1, <4>1
    <3> QED BY <1>1, <3>1, <3>2
  <2>2. ASSUME NEW i \in (n + 1)..L
        PROVE  i \in Dots
    <3>1. i \in DOMAIN h /\ \A j \in i..L : j \in (n + 1)..L
      BY <1>1
    <3> QED BY <3>1
  <2> QED BY <2>1, <2>2
<1>3. Cardinality((n + 1)..L) = IF n + 1 > L THEN 0 ELSE L - (n + 1) + 1
  <2>1. n + 1 \in Int /\ L \in Int
    BY <1>1
  <2> HIDE DEF L
  <2> QED BY <2>1, FS_Interval, Zenon
<1>4. L - Cardinality((n + 1)..L) = n
  BY <1>1, <1>3
<1>5. TrimDots(h) = SubSeq(h, 1, L - Cardinality(Dots))
  BY DEF TrimDots
<1> HIDE DEF Dots, L
<1> QED BY <1>2, <1>4, <1>5

\* The host that is read of a text is a text.
LEMMA HostIsText ==
    ASSUME NEW v \in Seq(STRING), NEW d, ParseHostPort(v, d).ok
    PROVE  ParseHostPort(v, d).host \in Seq(STRING)
<1>1. Len(v) \in Nat /\ DOMAIN v = 1..Len(v) /\ \A i \in 1..Len(v) : v[i] \in STRING
  BY ElementOfSeq, LenProperties
<1>2. \A i, j \in Int : (1 <= i /\ j <= Len(v)) => SubSeq(v, i, j) \in Seq(STRING)
  <2> SUFFICES ASSUME NEW i \in Int, NEW j \in Int, 1 <= i, j <= Len(v)
               PROVE  SubSeq(v, i, j) \in Seq(STRING)
    OBVIOUS
  <2>1. \A l \in i..j : v[l] \in STRING
    BY <1>1
  <2> QED BY <2>1, SubSeqProperties
<1>3. Err.ok = FALSE
  BY DEF Err
<1>4. \A h, p : TargetOf(h, p).ok => TargetOf(h, p).host = h
  BY <1>3 DEF TargetOf
<1>5. CASE v = <<>>
  BY <1>3, <1>5 DEF ParseHostPort
<1>6. CASE v # <<>> /\ v[1] = "["
  <2> DEFINE close == Places(v, "]")
             at == CHOOSE i \in close : \A j \in close : i <= j
  <2>1. ParseHostPort(v, d) = ParseBracketed(v, d)
    BY <1>6 DEF ParseHostPort
  <2>2. close # {}
    BY <1>3, <2>1 DEF ParseBracketed
  <2>3. \E p : ParseBracketed(v, d) = TargetOf(SubSeq(v, 2, at - 1), p)
    BY <2>2 DEF ParseBracketed
  <2>4. at \in close
    <3>1. close \subseteq Nat
      BY <1>1 DEF Places
    <3> HIDE DEF close
    <3>2. \E i \in close : \A j \in close : i <= j
      <4>1. PICK i \in close : \A j \in close : ~(<<j, i>> \in OpToRel(<, Nat))
        BY <2>2, <3>1, NatLessThanWellFounded, WFMin
      <4>2. \A j \in close : ~(j < i)
        BY <3>1, <4>1 DEF OpToRel
      <4>3. \A j \in close : i <= j
        BY <3>1, <4>2
      <4> QED BY <4>3
    <3> QED BY <3>2
  <2>5. at \in 1..Len(v)
    BY <1>1, <2>4 DEF Places
  <2> HIDE DEF at
  <2>6. SubSeq(v, 2, at - 1) \in Seq(STRING)
    <3>1. 2 \in Int /\ at - 1 \in Int /\ 1 <= 2 /\ at - 1 <= Len(v)
      BY <1>1, <2>5
    <3> QED BY <1>2, <3>1
  <2> QED BY <1>4, <2>1, <2>3, <2>6
<1>7. CASE v # <<>> /\ v[1] # "["
  <2> DEFINE colons == Places(v, ":")
             at == CHOOSE i \in colons : TRUE
  <2>1. CASE Cardinality(colons) = 1 /\ at # Len(v)
    <3>1. ParseHostPort(v, d) = TargetOf(Before(v, at), ParsePort(After(v, at)))
      BY <1>7, <2>1 DEF ParseHostPort
    <3>2. at \in colons
      <4>1. colons # {}
        <5>1. Cardinality({}) = 0
          BY FS_EmptySet
        <5> QED BY <2>1, <5>1
      <4> QED BY <4>1
    <3>3. at \in 1..Len(v)
      BY <1>1, <3>2 DEF Places
    <3> HIDE DEF at
    <3>4. Before(v, at) \in Seq(STRING)
      <4>1. 1 \in Int /\ at - 1 \in Int /\ 1 <= 1 /\ at - 1 <= Len(v)
        BY <1>1, <3>3
      <4> QED BY <1>2, <4>1 DEF Before
    <3> QED BY <1>4, <3>1, <3>4
  <2>2. CASE ~(Cardinality(colons) = 1 /\ at # Len(v))
    <3>1. ParseHostPort(v, d) = [ok |-> TRUE, host |-> v, port |-> d]
      BY <1>7, <2>2 DEF ParseHostPort
    <3> QED BY <3>1
  <2> QED BY <2>1, <2>2
<1> QED BY <1>5, <1>6, <1>7

\* Every host is sent through the hops of a rule of its own, or the default's.
LEMMA LookedUp ==
    ASSUME NEW r, NEW w, NEW hs, Built(r, w, hs), r.yaml = yaml, NEW host, NEW meant,
           Lower(TrimDots(host)) = meant
    PROVE  Lookup(r, host) \in Route(meant)
<1>1. /\ yaml \in Yaml /\ w \in Seq(DOMAIN yaml.rules) /\ DOMAIN yaml.rules \subseteq ToSet(w)
      /\ RulesRight(yaml, w, r.rules) /\ DefaultRight(yaml, w, r.default) /\ r.default # NoHops
  BY DEF Built, WalkRight, Walk
<1>2. w \in Seq(Key) /\ \A i \in DOMAIN w : w[i] \in DOMAIN yaml.rules
  BY <1>1, ConfigKeys, ElementOfSeq, LenProperties
<1> DEFINE spelled == {k \in DOMAIN yaml.rules : Lower(k) = meant}
           ways == IF spelled = {} THEN {k \in DOMAIN yaml.rules : IsDefault(k)} ELSE spelled
<1>3. \A k \in ways : Hops(yaml, k) \in Route(meant)
  BY DEF Route
<1> HIDE DEF Route
<1>4. CASE meant \in DOMAIN r.rules
  <2>1. Lookup(r, host) = r.rules[meant]
    BY <1>4 DEF Lookup
  <2>2. PICK i \in DOMAIN w : meant = Lower(w[i]) /\ ~IsDefault(w[i])
    BY <1>1, <1>4 DEF RulesRight
  <2>3. PICK j \in DOMAIN w : LastPlace(w, j) /\ Lower(w[j]) = Lower(w[i])
    BY <1>2, LastExists
  <2>4. ~IsDefault(w[j]) /\ Lower(w[j]) = meant
    BY <2>2, <2>3 DEF IsDefault
  <2>5. r.rules[meant] = Hops(yaml, w[j])
    BY <1>1, <2>3, <2>4 DEF RulesRight
  <2>6. w[j] \in spelled
    BY <1>2, <2>4
  <2> QED BY <1>3, <2>1, <2>5, <2>6
<1>5. CASE meant \notin DOMAIN r.rules
  <2>1. Lookup(r, host) = r.default
    BY <1>5 DEF Lookup
  <2>2. PICK i \in DOMAIN w : IsDefault(w[i])
    BY <1>1 DEF DefaultRight
  <2>3. PICK j \in DOMAIN w : LastPlace(w, j) /\ Lower(w[j]) = Lower(w[i])
    BY <1>2, LastExists
  <2>4. IsDefault(w[j])
    BY <2>2, <2>3 DEF IsDefault
  <2>5. r.default = Hops(yaml, w[j])
    BY <1>1, <2>3, <2>4 DEF DefaultRight
  <2>6. spelled = {} \/ meant = DefaultKey
    <3> SUFFICES ASSUME NEW k \in spelled, meant # DefaultKey
                 PROVE  FALSE
      OBVIOUS
    <3>1. PICK l \in DOMAIN w : w[l] = k
      BY <1>1 DEF ToSet
    <3>2. ~IsDefault(w[l]) /\ Lower(w[l]) = meant
      BY <3>1 DEF IsDefault
    <3> QED BY <1>1, <1>5, <3>2 DEF RulesRight
  <2>7. w[j] \in ways
    <3>1. CASE spelled = {}
      BY <1>2, <2>4, <3>1
    <3>2. CASE spelled # {}
      BY <1>2, <2>4, <2>6, <3>2 DEF IsDefault
    <3> QED BY <3>1, <3>2
  <2> QED BY <1>3, <2>1, <2>5, <2>7
<1> QED BY <1>4, <1>5

\* The managed block names every host with a rule, once.
LEMMA NamedOnce ==
    ASSUME NEW r, NEW w, NEW hs, Built(r, w, hs)
    PROVE  /\ {Lower(r.hostnames[n]) : n \in DOMAIN r.hostnames} = DOMAIN r.rules
           /\ Cardinality(DOMAIN r.rules) = Len(r.hostnames)
<1>1. /\ hs \in Seq(DOMAIN r.yaml.rules) /\ r.yaml \in Yaml /\ r.hostnames = SortKeys(hs)
      /\ {Lower(hs[n]) : n \in DOMAIN hs} = DOMAIN r.rules
      /\ \A n, m \in DOMAIN hs : Lower(hs[n]) = Lower(hs[m]) => n = m
  BY DEF Built, WalkRight, NamesRight
<1>2. hs \in Seq(Key)
  BY <1>1, ConfigKeys
<1>3. /\ DOMAIN r.hostnames = DOMAIN hs /\ Len(r.hostnames) = Len(hs)
      /\ \A n \in DOMAIN hs : \E i \in DOMAIN hs : r.hostnames[n] = hs[i]
      /\ \A i \in DOMAIN hs : \E n \in DOMAIN hs : r.hostnames[n] = hs[i]
  BY <1>1, <1>2, Sorted, AheadCounts
<1>4. {Lower(r.hostnames[n]) : n \in DOMAIN r.hostnames} = DOMAIN r.rules
  <2>1. ASSUME NEW n \in DOMAIN hs
        PROVE  Lower(r.hostnames[n]) \in {Lower(hs[i]) : i \in DOMAIN hs}
    <3>1. PICK i \in DOMAIN hs : r.hostnames[n] = hs[i]
      BY <1>3
    <3> QED BY <3>1
  <2>2. ASSUME NEW i \in DOMAIN hs
        PROVE  \E n \in DOMAIN hs : Lower(r.hostnames[n]) = Lower(hs[i])
    <3>1. PICK n \in DOMAIN hs : r.hostnames[n] = hs[i]
      BY <1>3
    <3> QED BY <3>1
  <2>3. {Lower(r.hostnames[n]) : n \in DOMAIN hs} = {Lower(hs[n]) : n \in DOMAIN hs}
    BY <2>1, <2>2
  <2>4. DOMAIN r.hostnames = DOMAIN hs
    BY <1>3
  <2> QED BY <1>1, <2>3, <2>4
<1>5. Cardinality(DOMAIN r.rules) = Len(hs)
  <2> DEFINE ls == [n \in DOMAIN hs |-> Lower(hs[n])]
             T == DOMAIN r.rules
  <2>1. ls \in Seq(T) /\ Len(ls) = Len(hs) /\ DOMAIN ls = DOMAIN hs
    <3>1. Len(hs) \in Nat /\ DOMAIN hs = 1..Len(hs) /\ \A n \in DOMAIN hs : Lower(hs[n]) \in T
      BY <1>1, <1>2, KeysRanked
    <3> HIDE DEF T
    <3> QED BY <3>1
  <2>2. ToSet(ls) = T
    BY <1>1 DEF ToSet
  <2>3. \A i, j \in DOMAIN ls : ls[i] = ls[j] => i = j
    BY <1>1
  <2> HIDE DEF ls, T
  <2>4. Cardinality(ToSet(ls)) = Len(ls)
    BY <2>1, <2>3, LengthIsSize
  <2> QED BY <2>1, <2>2, <2>4 DEF T
<1> QED BY <1>3, <1>4, <1>5

\* A request is routed by the rule of the host it means, or by the default, and
\* the block names every host with a rule once, given that the parser reads the
\* Host headers as they are meant.
THEOREM RoutesAreAsWritten ==
    ASSUME ReadsAsMeant
    PROVE  Spec => []RoutesAsWritten
<1>1. \A a \in Asked : Lower(TrimDots(a[1])) = a[2]
  <2> SUFFICES ASSUME NEW q \in Requests, q.target.ok
               PROVE  Lower(TrimDots(q.target.host)) = q.meant.host
    BY DEF Asked
  <2>1. PICK t \in Written : q = [meant |-> t, target |-> ParseHostPort(t.text, DefaultPort)]
    BY DEF Requests
  <2>2. q.target.host \in Seq(STRING)
    <3>1. t.text \in Seq(STRING) /\ q.target = ParseHostPort(t.text, DefaultPort)
      BY <2>1, WrittenAssumption
    <3> QED BY <3>1, HostIsText
  <2>3. Spells(q.target.host, q.meant.host)
    BY DEF ReadsAsMeant
  <2>4. PICK n \in 0..Len(q.target.host) :
            /\ \A i \in (n + 1)..Len(q.target.host) : q.target.host[i] = "."
            /\ n = 0 \/ q.target.host[n] # "."
            /\ Lower(SubSeq(q.target.host, 1, n)) = q.meant.host
    BY <2>3 DEF Spells
  <2>5. TrimDots(q.target.host) = SubSeq(q.target.host, 1, n)
    BY <2>2, <2>4, TrimDotsIs
  <2> QED BY <2>4, <2>5
<1>2. RouterInv => RoutesAsWritten
  <2> SUFFICES ASSUME RouterInv, pc = "ready", Last(built).ok
               PROVE  /\ \A a \in Asked : Lookup(Last(built), a[1]) \in Route(a[2])
                      /\ {Lower(Last(built).hostnames[n]) : n \in DOMAIN Last(built).hostnames}
                             = DOMAIN Last(built).rules
                      /\ Cardinality(DOMAIN Last(built).rules) = Len(Last(built).hostnames)
    BY DEF RoutesAsWritten
  <2> DEFINE r == Last(built)
  <2>1. Len(built) > 0 /\ r.yaml = yaml
    BY DEF RouterInv, OutcomeRight
  <2>2. \E w, hs : Built(r, w, hs)
    <3>1. Len(built) \in DOMAIN built /\ r = built[Len(built)]
      <4>1. DOMAIN built = 1..Len(built) /\ Len(built) \in Nat
        BY LenProperties DEF RouterInv, ResultsRight
      <4> QED BY <2>1, <4>1 DEF Last
    <3>2. ResultRight(r)
      BY <3>1 DEF RouterInv, ResultsRight
    <3>3. Err.ok = FALSE
      BY DEF Err
    <3> QED BY <3>2, <3>3 DEF ResultRight
  <2>3. PICK w, hs : Built(r, w, hs)
    BY <2>2
  <2> HIDE DEF r
  <2>4. \A a \in Asked : Lookup(r, a[1]) \in Route(a[2])
    BY <1>1, <2>1, <2>3, LookedUp
  <2>5. /\ {Lower(r.hostnames[n]) : n \in DOMAIN r.hostnames} = DOMAIN r.rules
        /\ Cardinality(DOMAIN r.rules) = Len(r.hostnames)
    BY <2>3, NamedOnce
  <2> QED BY <2>4, <2>5 DEF r
<1> QED BY <1>2, RoutersAreBuilt, PTL
=============================================================================
