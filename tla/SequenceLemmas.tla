--------------------------- MODULE SequenceLemmas ---------------------------
(***************************************************************************)
(* Facts about operators of SequencesExt that the proofs need: what the    *)
(* sequence of a set lists, and what flattening a sequence of sequences    *)
(* comes to.                                                               *)
(***************************************************************************)
EXTENDS SequencesExt, FiniteSetTheorems, WellFoundedInduction, TLAPS

\* A finite set, put in a sequence, is there once.
LEMMA SetToSeqListsAll ==
  ASSUME NEW S, IsFiniteSet(S)
  PROVE  /\ SetToSeq(S) \in [1 .. Cardinality(S) -> S]
         /\ \A j, k \in 1 .. Cardinality(S) : SetToSeq(S)[j] = SetToSeq(S)[k] => j = k
         /\ \A x \in S : \E k \in 1 .. Cardinality(S) : SetToSeq(S)[k] = x
<1> DEFINE n == Cardinality(S)
           f == SetToSeq(S)
<1>1. n \in Nat /\ \E g \in [1 .. n -> S] : IsInjective(g)
  <2>1. n \in Nat /\ ExistsBijection(1 .. n, S)
    BY FS_CardinalityType
  <2> QED
    BY <2>1 DEF ExistsBijection, Bijection, Injection
<1>2. f \in [1 .. n -> S] /\ IsInjective(f)
  BY <1>1 DEF SetToSeq
<1>3. f \in Injection(1 .. n, S)
  BY <1>2 DEF Injection
<1>4. Cardinality(1 .. n) = Cardinality(S)
  BY <1>1, FS_Interval
<1>5. f \in Surjection(1 .. n, S)
  BY <1>3, <1>4, FS_Injection
<1> QED
  BY <1>2, <1>5 DEF Surjection, IsInjective

-----------------------------------------------------------------------------
\* What flattening computes: the sequence of all parts up to each.
Flattens(f, ss) ==
    f = [i \in 1 .. Len(ss) |-> IF i = 1 THEN ss[i] ELSE f[i - 1] \o ss[i]]

\* FlattenSeq takes a function of this kind, at its end.
LEMMA FlattenIsLast ==
  ASSUME NEW ss, Len(ss) # 0
  PROVE  FlattenSeq(ss) = (CHOOSE f : Flattens(f, ss))[Len(ss)]
BY DEF FlattenSeq, Flattens

\* There is one for every sequence: it is made of one for all parts but the last.
LEMMA FlattensExists ==
  ASSUME NEW S, NEW ss \in Seq(Seq(S))
  PROVE  \E f : Flattens(f, ss)
<1> DEFINE Upto(f, n) == f = [i \in 1 .. n |-> IF i = 1 THEN ss[i] ELSE f[i - 1] \o ss[i]]
           Bad == {n \in Nat : ~\E f : Upto(f, n)}
<1>1. ASSUME NEW n \in Nat, n # 0, NEW f, Upto(f, n - 1)
      PROVE  \E g : Upto(g, n)
  <2> DEFINE g == [i \in 1 .. n |->
                     IF i # n THEN f[i] ELSE IF i = 1 THEN ss[i] ELSE f[i - 1] \o ss[i]]
  <2>1. \A i \in 1 .. n - 1 : f[i] = IF i = 1 THEN ss[i] ELSE f[i - 1] \o ss[i]
    BY <1>1, Zenon
  <2>2. ASSUME NEW i \in 1 .. n
        PROVE  g[i] = IF i = 1 THEN ss[i] ELSE g[i - 1] \o ss[i]
    <3>1. CASE i = 1
      BY <3>1, <2>1, <1>1
    <3>2. CASE i # 1
      <4>1. i - 1 \in 1 .. n /\ i - 1 # n
        BY <3>2
      <4>2. g[i - 1] = f[i - 1]
        BY <4>1
      <4>3. g[i] = f[i - 1] \o ss[i]
        <5>1. CASE i = n
          BY <5>1, <3>2
        <5>2. CASE i # n
          <6>1. g[i] = f[i] /\ i \in 1 .. n - 1
            BY <5>2
          <6> QED
            BY <6>1, <2>1, <3>2
        <5> QED
          BY <5>1, <5>2
      <4> QED
        BY <4>2, <4>3, <3>2
    <3> QED
      BY <3>1, <3>2
  <2>3. g = [i \in 1 .. n |-> IF i = 1 THEN ss[i] ELSE g[i - 1] \o ss[i]]
    <3> DEFINE h == [i \in 1 .. n |-> IF i = 1 THEN ss[i] ELSE g[i - 1] \o ss[i]]
    <3>1. \A i \in 1 .. n : g[i] = h[i]
      BY <2>2, Zenon
    <3>2. DOMAIN g = 1 .. n /\ DOMAIN h = 1 .. n /\ g = [i \in DOMAIN g |-> g[i]]
             /\ h = [i \in DOMAIN h |-> h[i]]
      OBVIOUS
    <3> HIDE DEF g, h
    <3>3. g = h
      BY <3>1, <3>2
    <3> QED
      BY <3>3 DEF h
  <2> HIDE DEF g
  <2> QED
    BY <2>3
<1>2. Upto([i \in 1 .. 0 |-> ss], 0)
  OBVIOUS
<1>3. ASSUME Bad # {}
      PROVE  FALSE
  <2> HIDE DEF Upto
  <2>1. PICK n \in Bad : \A m \in Bad : ~(<<m, n>> \in OpToRel(<, Nat))
    BY <1>3, NatLessThanWellFounded, WFMin
  <2>2. \A m \in Bad : ~(m < n)
    BY <2>1 DEF OpToRel
  <2>3. n \in Nat /\ n # 0
    BY <1>2
  <2>4. n - 1 \in Nat /\ n - 1 < n
    BY <2>3
  <2>5. n - 1 \notin Bad
    BY <2>2, <2>4
  <2> QED
    BY <1>1, <2>3, <2>4, <2>5
<1>4. Len(ss) \in Nat
  OBVIOUS
<1> QED
  BY <1>3, <1>4 DEF Flattens

\* A concatenation lists what either part lists.
LEMMA ConcatLists ==
  ASSUME NEW S, NEW a \in Seq(S), NEW b \in Seq(S)
  PROVE  ToSet(a \o b) = ToSet(a) \cup ToSet(b)
<1>1. ASSUME NEW x \in ToSet(a \o b)
      PROVE  x \in ToSet(a) \cup ToSet(b)
  BY DEF ToSet
<1>2. ASSUME NEW x \in ToSet(a)
      PROVE  x \in ToSet(a \o b)
  <2>1. PICK i \in 1 .. Len(a) : a[i] = x
    BY DEF ToSet
  <2>2. i \in 1 .. Len(a \o b) /\ (a \o b)[i] = x
    BY <2>1
  <2> QED
    BY <2>2 DEF ToSet
<1>3. ASSUME NEW x \in ToSet(b)
      PROVE  x \in ToSet(a \o b)
  <2>1. PICK i \in 1 .. Len(b) : b[i] = x
    BY DEF ToSet
  <2>2. Len(a) + i \in 1 .. Len(a \o b) /\ (a \o b)[Len(a) + i] = x
    BY <2>1
  <2> QED
    BY <2>2 DEF ToSet
<1> QED
  BY <1>1, <1>2, <1>3

\* Flattening lists what the parts list, and nothing else.
LEMMA FlatteningLists ==
  ASSUME NEW S, NEW ss \in Seq(Seq(S))
  PROVE  /\ FlattenSeq(ss) \in Seq(S)
         /\ ToSet(FlattenSeq(ss)) = UNION {ToSet(ss[j]) : j \in 1 .. Len(ss)}
<1> DEFINE f == CHOOSE g : Flattens(g, ss)
           Lists(n) == /\ f[n] \in Seq(S)
                       /\ ToSet(f[n]) = UNION {ToSet(ss[j]) : j \in 1 .. n}
           Bad == {n \in 1 .. Len(ss) : ~Lists(n)}
<1>1. CASE Len(ss) = 0
  <2>1. FlattenSeq(ss) = ss /\ ss = <<>>
    BY <1>1 DEF FlattenSeq
  <2> QED
    BY <1>1, <2>1 DEF ToSet
<1>2. CASE Len(ss) # 0
  <2>1. Flattens(f, ss)
    BY FlattensExists
  <2> HIDE DEF f
  <2>2. \A i \in 1 .. Len(ss) : f[i] = IF i = 1 THEN ss[i] ELSE f[i - 1] \o ss[i]
    BY <2>1, Zenon DEF Flattens
  <2>3. \A i \in 1 .. Len(ss) : ss[i] \in Seq(S)
    OBVIOUS
  <2>4. ASSUME 1 \in 1 .. Len(ss)
        PROVE  Lists(1)
    <3>1. f[1] = ss[1]
      BY <2>2, <2>4
    <3>2. UNION {ToSet(ss[j]) : j \in 1 .. 1} = ToSet(ss[1])
      OBVIOUS
    <3> QED
      BY <3>1, <3>2, <2>3, <2>4
  <2>5. ASSUME NEW n \in 1 .. Len(ss), n # 1, Lists(n - 1)
        PROVE  Lists(n)
    <3>1. f[n] = f[n - 1] \o ss[n]
      BY <2>2, <2>5
    <3>2. f[n - 1] \in Seq(S) /\ ss[n] \in Seq(S)
      BY <2>3, <2>5
    <3>3. ToSet(f[n]) = ToSet(f[n - 1]) \cup ToSet(ss[n])
      BY <3>1, <3>2, ConcatLists
    <3>4. UNION {ToSet(ss[j]) : j \in 1 .. n} =
             (UNION {ToSet(ss[j]) : j \in 1 .. n - 1}) \cup ToSet(ss[n])
      <4>1. 1 .. n = (1 .. n - 1) \cup {n}
        OBVIOUS
      <4> QED
        BY <4>1
    <3> QED
      BY <3>1, <3>2, <3>3, <3>4, <2>5
  <2>6. ASSUME Bad # {}
        PROVE  FALSE
    <3> HIDE DEF Lists
    <3>0. Bad \subseteq Nat
      OBVIOUS
    <3>1. PICK n \in Bad : \A m \in Bad : ~(<<m, n>> \in OpToRel(<, Nat))
      BY <2>6, <3>0, NatLessThanWellFounded, WFMin
    <3>2. \A m \in Bad : ~(m < n)
      BY <3>0, <3>1 DEF OpToRel
    <3>3. n # 1
      BY <2>4
    <3>4. n - 1 \in 1 .. Len(ss) /\ n - 1 < n
      BY <3>3
    <3> QED
      BY <2>5, <3>2, <3>3, <3>4
  <2>7. Lists(Len(ss))
    <3> HIDE DEF Lists
    <3> QED
      BY <2>6, <1>2
  <2> QED
    BY <2>7, <1>2, FlattenIsLast DEF f
<1> QED
  BY <1>1, <1>2

-----------------------------------------------------------------------------
\* Appending lists one more.
LEMMA AppendLists ==
  ASSUME NEW S, NEW s \in Seq(S), NEW x \in S
  PROVE  /\ Append(s, x) \in Seq(S) /\ Len(Append(s, x)) = Len(s) + 1
         /\ \A i \in 1 .. Len(s) : Append(s, x)[i] = s[i]
         /\ Append(s, x)[Len(s) + 1] = x
         /\ ToSet(Append(s, x)) = ToSet(s) \cup {x}
<1>1. /\ Append(s, x) \in Seq(S) /\ Len(Append(s, x)) = Len(s) + 1
      /\ \A i \in 1 .. Len(s) : Append(s, x)[i] = s[i]
      /\ Append(s, x)[Len(s) + 1] = x
  OBVIOUS
<1>2. DOMAIN s = 1 .. Len(s) /\ DOMAIN Append(s, x) = 1 .. Len(s) + 1 /\ Len(s) \in Nat
  OBVIOUS
<1> QED
  BY <1>1, <1>2 DEF ToSet

\* What is listed is at some place, and a member of what the sequence is over.
LEMMA Listed ==
  ASSUME NEW S, NEW s \in Seq(S)
  PROVE  /\ ToSet(s) \subseteq S
         /\ \A x : x \in ToSet(s) <=> \E i \in 1 .. Len(s) : s[i] = x
         /\ Len(s) = 0 <=> s = <<>>
         /\ ToSet(<<>>) = {}
BY DEF ToSet

\* The first element and the rest.
LEMMA TailLists ==
  ASSUME NEW S, NEW s \in Seq(S), s # <<>>
  PROVE  /\ Head(s) \in ToSet(s) /\ Tail(s) \in Seq(S)
         /\ ToSet(s) = {Head(s)} \cup ToSet(Tail(s))
<1>1. /\ Len(s) \in Nat /\ Len(s) >= 1 /\ Head(s) = s[1] /\ Tail(s) \in Seq(S)
      /\ DOMAIN s = 1 .. Len(s) /\ DOMAIN Tail(s) = 1 .. Len(s) - 1
      /\ \A i \in 1 .. Len(s) - 1 : Tail(s)[i] = s[i + 1]
  OBVIOUS
<1>2. ASSUME NEW x \in ToSet(s), x # Head(s)
      PROVE  x \in ToSet(Tail(s))
  <2>1. PICK i \in 1 .. Len(s) : s[i] = x
    BY <1>1 DEF ToSet
  <2>2. i - 1 \in 1 .. Len(s) - 1 /\ Tail(s)[i - 1] = x
    BY <1>1, <1>2, <2>1
  <2> QED
    BY <1>1, <2>2 DEF ToSet
<1>3. ASSUME NEW x \in ToSet(Tail(s))
      PROVE  x \in ToSet(s)
  <2>1. PICK i \in 1 .. Len(s) - 1 : Tail(s)[i] = x
    BY <1>1 DEF ToSet
  <2>2. i + 1 \in 1 .. Len(s) /\ s[i + 1] = x
    BY <1>1, <2>1
  <2> QED
    BY <1>1, <2>2 DEF ToSet
<1>4. Head(s) \in ToSet(s)
  BY <1>1 DEF ToSet
<1> QED
  BY <1>1, <1>2, <1>3, <1>4

\* A beginning of a sequence.
LEMMA PrefixLists ==
  ASSUME NEW S, NEW s \in Seq(S), NEW n \in 0 .. Len(s)
  PROVE  /\ SubSeq(s, 1, n) \in Seq(S) /\ Len(SubSeq(s, 1, n)) = n
         /\ \A i \in 1 .. n : SubSeq(s, 1, n)[i] = s[i]
         /\ ToSet(SubSeq(s, 1, n)) = {s[i] : i \in 1 .. n}
<1>1. /\ SubSeq(s, 1, n) \in Seq(S) /\ Len(SubSeq(s, 1, n)) = n
      /\ \A i \in 1 .. n : SubSeq(s, 1, n)[i] = s[i]
      /\ DOMAIN SubSeq(s, 1, n) = 1 .. n
  OBVIOUS
<1> QED
  BY <1>1 DEF ToSet

\* The end of a sequence.
LEMMA SuffixLists ==
  ASSUME NEW S, NEW s \in Seq(S), NEW m \in 1 .. Len(s)
  PROVE  ToSet(SubSeq(s, m, Len(s))) = {s[i] : i \in m .. Len(s)}
<1> DEFINE t == SubSeq(s, m, Len(s))
<1>1. /\ Len(s) \in Nat /\ m \in Nat
      /\ DOMAIN t = 1 .. Len(s) - m + 1
      /\ \A i \in 1 .. Len(s) - m + 1 : t[i] = s[i + m - 1]
  OBVIOUS
<1> HIDE DEF t
<1>2. ASSUME NEW x \in ToSet(t)
      PROVE  x \in {s[i] : i \in m .. Len(s)}
  <2>1. PICK i \in 1 .. Len(s) - m + 1 : t[i] = x
    BY <1>1 DEF ToSet
  <2>2. i + m - 1 \in m .. Len(s) /\ s[i + m - 1] = x
    BY <1>1, <2>1
  <2> QED
    BY <2>2
<1>3. ASSUME NEW i \in m .. Len(s)
      PROVE  s[i] \in ToSet(t)
  <2>1. i - m + 1 \in 1 .. Len(s) - m + 1 /\ t[i - m + 1] = s[i]
    BY <1>1
  <2> QED
    BY <1>1, <2>1 DEF ToSet
<1> QED
  BY <1>2, <1>3 DEF t

\* All but the last element, and the last.
LEMMA FrontLists ==
  ASSUME NEW S, NEW s \in Seq(S), s # <<>>
  PROVE  /\ Front(s) \in Seq(S) /\ Len(Front(s)) = Len(s) - 1
         /\ \A i \in 1 .. Len(s) - 1 : Front(s)[i] = s[i]
         /\ Len(s) \in 1 .. Len(s) /\ Last(s) = s[Len(s)] /\ Last(s) \in ToSet(s)
         /\ ToSet(s) = ToSet(Front(s)) \cup {Last(s)}
<1>1. /\ Len(s) \in Nat /\ Len(s) >= 1 /\ DOMAIN s = 1 .. Len(s)
      /\ Len(s) - 1 \in 0 .. Len(s)
  OBVIOUS
<1>2. /\ Front(s) \in Seq(S) /\ Len(Front(s)) = Len(s) - 1
      /\ \A i \in 1 .. Len(s) - 1 : Front(s)[i] = s[i]
      /\ ToSet(Front(s)) = {s[i] : i \in 1 .. Len(s) - 1}
  BY <1>1, PrefixLists DEF Front
<1>3. ToSet(s) = {s[i] : i \in 1 .. Len(s) - 1} \cup {s[Len(s)]}
  BY <1>1 DEF ToSet
<1> QED
  BY <1>1, <1>2, <1>3 DEF Last, ToSet

\* The place that is selected is one, if there is one.
LEMMA SelectedPlace ==
  ASSUME NEW S, NEW s \in Seq(S), NEW x \in ToSet(s)
  PROVE  /\ SelectInSeq(s, LAMBDA y : y = x) \in 1 .. Len(s)
         /\ s[SelectInSeq(s, LAMBDA y : y = x)] = x
<1> DEFINE I == {i \in 1 .. Len(s) : s[i] = x}
<1>1. I # {} /\ I \subseteq Nat
  BY DEF ToSet
<1>2. \E i \in I : \A j \in I : i <= j
  <2>1. PICK i \in I : \A j \in I : <<j, i>> \notin OpToRel(<, Nat)
    BY <1>1, NatLessThanWellFounded, WFMin
  <2>2. \A j \in I : ~(j < i)
    BY <1>1, <2>1 DEF OpToRel
  <2> QED
    BY <1>1, <2>2
<1>3. Min(I) \in I
  BY <1>2 DEF Min
<1>4. SelectInSeq(s, LAMBDA y : y = x) = Min(I)
  BY <1>1 DEF SelectInSeq
<1> QED
  BY <1>3, <1>4

=============================================================================
