-------------------------- MODULE CollectionLemmas --------------------------
(***************************************************************************)
(* Facts about counts, sums and sequences that the proofs of several       *)
(* components rest on and that the theorem library does not state.         *)
(***************************************************************************)
EXTENDS Integers, Sequences, FiniteSets, SequencesExt, TLAPS,
        FiniteSetTheorems, SequenceTheorems, WellFoundedInduction, NaturalsInduction

Same(x, y) == IF x = y THEN 1 ELSE 0

\* The elements of D that f maps to y.
Preimage(f, D, y) == {e \in D : f[e] = y}

\* One element more, or one less.
LEMMA OneMore ==
  ASSUME NEW P, IsFiniteSet(P), NEW d, d \notin P, NEW Q, Q = P \cup {d}
  PROVE  Cardinality(Q) = Cardinality(P) + 1
BY FS_AddElement

LEMMA OneLess ==
  ASSUME NEW P, IsFiniteSet(P), NEW d \in P, NEW Q, Q = P \ {d}
  PROVE  Cardinality(Q) = Cardinality(P) - 1
BY FS_RemoveElement

\* One assignment f[d] := x moves d from the preimage of its old value to that
\* of its new one: the counts change by at most one.
LEMMA CountUpdate ==
  ASSUME NEW D, IsFiniteSet(D), NEW d \in D, NEW x, NEW y, NEW f, NEW g,
         g[d] = x, \A e \in D : e # d => g[e] = f[e]
  PROVE  /\ IsFiniteSet(Preimage(f, D, y))
         /\ Cardinality(Preimage(f, D, y)) \in Nat
         /\ Cardinality(Preimage(g, D, y))
              = Cardinality(Preimage(f, D, y)) + Same(x, y) - Same(f[d], y)
<1> DEFINE P == Preimage(f, D, y)
           Q == Preimage(g, D, y)
<1>1. IsFiniteSet(P) /\ Cardinality(P) \in Nat
  <2>1. P \in SUBSET D
    BY DEF Preimage
  <2> QED
    BY <2>1, FS_Subset, FS_CardinalityType
<1>2. Cardinality(Q) = Cardinality(P) + Same(x, y) - Same(f[d], y)
  <2>1. CASE x = y /\ f[d] # y
    <3>1. Q = P \cup {d} /\ d \notin P
      BY <2>1 DEF Preimage
    <3> HIDE DEF P, Q
    <3>2. Cardinality(Q) = Cardinality(P) + 1
      BY <1>1, <3>1, OneMore
    <3>3. Same(x, y) = 1 /\ Same(f[d], y) = 0
      BY <2>1 DEF Same
    <3> QED
      BY <1>1, <3>2, <3>3
  <2>2. CASE x # y /\ f[d] = y
    <3>1. Q = P \ {d} /\ d \in P
      BY <2>2 DEF Preimage
    <3> HIDE DEF P, Q
    <3>2. Cardinality(Q) = Cardinality(P) - 1
      BY <1>1, <3>1, OneLess
    <3>3. Same(x, y) = 0 /\ Same(f[d], y) = 1
      BY <2>2 DEF Same
    <3> QED
      BY <1>1, <3>2, <3>3
  <2>3. CASE (x = y) <=> (f[d] = y)
    <3>1. Q = P
      BY <2>3 DEF Preimage
    <3> HIDE DEF P, Q
    <3>2. Same(x, y) = Same(f[d], y) /\ Same(f[d], y) \in Nat
      BY <2>3 DEF Same
    <3> QED
      BY <1>1, <3>1, <3>2
  <2> QED
    BY <2>1, <2>2, <2>3
<1> QED
  BY <1>1, <1>2

\* Two different elements of a finite set count for two.
LEMMA TwoElements ==
  ASSUME NEW S, IsFiniteSet(S), NEW a \in S, NEW b \in S, a # b
  PROVE  Cardinality(S) >= 2
<1> DEFINE T == {a} \cup {b}
<1>1. IsFiniteSet({a}) /\ Cardinality({a}) = 1 /\ b \notin {a}
  BY FS_Singleton
<1>2. Cardinality(T) = 1 + 1
  BY <1>1, OneMore
<1>3. T \in SUBSET S
  OBVIOUS
<1> HIDE DEF T
<1> QED
  BY <1>2, <1>3, FS_Subset, FS_CardinalityType

\* A set of naturals that is not empty has a least element: what replaces
\* induction in these proofs.
LEMMA LeastElement ==
  ASSUME NEW S \in SUBSET Nat, S # {}
  PROVE  \E x \in S : \A y \in S : x <= y
<1>1. \E x \in S : \A y \in S : ~(<<y, x>> \in OpToRel(<, Nat))
  BY NatLessThanWellFounded, WFMin
<1>2. PICK x \in S : \A y \in S : ~(<<y, x>> \in OpToRel(<, Nat))
  BY <1>1
<1>3. \A y \in S : ~(y < x)
  BY <1>2 DEF OpToRel
<1> QED
  BY <1>3

-----------------------------------------------------------------------------
\* What a sequence holds, after one element is appended ...
LEMMA RangeAppend ==
  ASSUME NEW S, NEW s \in Seq(S), NEW e \in S
  PROVE  /\ Append(s, e) \in Seq(S)
         /\ Range(Append(s, e)) = Range(s) \cup {e}
<1>1. Append(s, e) \in Seq(S)
  BY AppendProperties
<1>2. Range(s) = {s[i] : i \in 1..Len(s)}
  BY RangeEquality
<1>3. Range(Append(s, e)) = {Append(s, e)[i] : i \in 1..Len(Append(s, e))}
  BY <1>1, RangeEquality
<1>4. 1..(Len(s) + 1) = (1..Len(s)) \cup {Len(s) + 1}
  BY LenProperties
<1> QED
  BY <1>1, <1>2, <1>3, <1>4, AppendProperties

\* ... and after the first is taken off.
LEMMA RangeTail ==
  ASSUME NEW S, NEW s \in Seq(S), s # <<>>
  PROVE  /\ Head(s) \in S /\ Head(s) \in Range(s)
         /\ Tail(s) \in Seq(S)
         /\ Range(s) = Range(Tail(s)) \cup {Head(s)}
<1>1. Head(s) \in S /\ Tail(s) \in Seq(S) /\ Len(s) \in Nat \ {0} /\ Head(s) = s[1]
  BY HeadTailProperties, EmptySeq
<1>2. Range(s) = {s[i] : i \in 1..Len(s)}
  BY RangeEquality
<1>3. Range(Tail(s)) = {Tail(s)[i] : i \in 1..Len(Tail(s))}
  BY <1>1, RangeEquality
<1>4. Len(Tail(s)) = Len(s) - 1 /\ \A i \in 1..(Len(s) - 1) : Tail(s)[i] = s[i + 1]
  BY HeadTailProperties
<1>5. ASSUME NEW i \in 1..Len(s), i # 1
      PROVE  i - 1 \in 1..(Len(s) - 1) /\ Tail(s)[i - 1] = s[i]
  BY <1>1, <1>4, <1>5
<1>6. Range(s) \subseteq Range(Tail(s)) \cup {Head(s)}
  <2>1. ASSUME NEW i \in 1..Len(s) PROVE s[i] \in Range(Tail(s)) \cup {Head(s)}
    <3>1. CASE i = 1
      BY <3>1, <1>1
    <3>2. CASE i # 1
      <4>1. i - 1 \in 1..Len(Tail(s)) /\ Tail(s)[i - 1] = s[i]
        BY <3>2, <1>4, <1>5
      <4> QED
        BY <4>1, <1>3
    <3> QED
      BY <3>1, <3>2
  <2> QED
    BY <2>1, <1>2
<1>7. Range(Tail(s)) \cup {Head(s)} \subseteq Range(s)
  BY <1>1, <1>2, <1>3, <1>4
<1> QED
  BY <1>1, <1>6, <1>7, <1>2

\* The empty sequence holds nothing.
LEMMA RangeEmpty == Range(<<>>) = {} /\ IsInjective(<<>>)
BY DEF Range, IsInjective

\* Taking position i out of a sequence without repetitions takes out s[i] and
\* keeps the others apart.
LEMMA RemovedPosition ==
  ASSUME NEW S, NEW s \in Seq(S), NEW i \in 1..Len(s)
  PROVE  /\ RemoveAt(s, i) \in Seq(S) /\ Len(RemoveAt(s, i)) = Len(s) - 1
         /\ \A j \in 1..(Len(s) - 1) :
               RemoveAt(s, i)[j] = IF j <= i - 1 THEN s[j] ELSE s[j + 1]
<1> DEFINE n == Len(s)
           a == SubSeq(s, 1, i - 1)
           b == SubSeq(s, i + 1, n)
           r == a \o b
<1>1. n \in Nat /\ \A j \in 1..n : s[j] \in S
  BY LenProperties, ElementOfSeq
<1>2. i \in 1..n
  OBVIOUS
<1>3. a \in Seq(S) /\ Len(a) = i - 1 /\ \A j \in 1..(i - 1) : a[j] = s[j]
  <2> HIDE DEF n
  <2>1. 1 \in Int /\ i - 1 \in Int /\ \A j \in 1..(i - 1) : s[j] \in S
    BY <1>1, <1>2
  <2>2. /\ a \in Seq(S) /\ Len(a) = IF 1 <= i - 1 THEN i - 1 - 1 + 1 ELSE 0
        /\ \A j \in 1..(i - 1 - 1 + 1) : a[j] = s[1 + j - 1]
    BY <2>1, SubSeqProperties
  <2> HIDE DEF a
  <2> QED
    BY <1>1, <1>2, <2>2
<1>4. b \in Seq(S) /\ Len(b) = n - i /\ \A j \in 1..(n - i) : b[j] = s[i + j]
  <2> HIDE DEF n
  <2>1. i + 1 \in Int /\ n \in Int /\ \A j \in (i + 1)..n : s[j] \in S
    BY <1>1, <1>2
  <2>2. /\ b \in Seq(S) /\ Len(b) = IF i + 1 <= n THEN n - (i + 1) + 1 ELSE 0
        /\ \A j \in 1..(n - (i + 1) + 1) : b[j] = s[(i + 1) + j - 1]
    BY <2>1, SubSeqProperties
  <2> HIDE DEF b
  <2> QED
    BY <1>1, <1>2, <2>2
<1>5. /\ r \in Seq(S) /\ Len(r) = Len(a) + Len(b)
      /\ \A j \in 1..(Len(a) + Len(b)) :
            r[j] = IF j <= Len(a) THEN a[j] ELSE b[j - Len(a)]
  BY <1>3, <1>4, ConcatProperties
<1>6. r = RemoveAt(s, i)
  BY DEF RemoveAt
<1> HIDE DEF n, a, b, r
<1>7. Len(r) = n - 1
  BY <1>1, <1>2, <1>3, <1>4, <1>5
<1>8. ASSUME NEW j \in 1..(n - 1)
      PROVE  r[j] = IF j <= i - 1 THEN s[j] ELSE s[j + 1]
  <2>1. CASE j <= i - 1
    BY <2>1, <1>1, <1>2, <1>3, <1>4, <1>5
  <2>2. CASE ~(j <= i - 1)
    <3>1. r[j] = b[j - (i - 1)] /\ j - (i - 1) \in 1..(n - i)
      BY <2>2, <1>1, <1>2, <1>3, <1>4, <1>5
    <3>2. b[j - (i - 1)] = s[i + (j - (i - 1))]
      BY <3>1, <1>4
    <3>3. i + (j - (i - 1)) = j + 1
      BY <1>1, <1>2
    <3> QED
      BY <2>2, <3>1, <3>2, <3>3
  <2> QED
    BY <2>1, <2>2
<1> QED
  BY <1>5, <1>6, <1>7, <1>8 DEF n

LEMMA RangeRemoveAt ==
  ASSUME NEW S, NEW s \in Seq(S), IsInjective(s), NEW i \in 1..Len(s)
  PROVE  /\ RemoveAt(s, i) \in Seq(S)
         /\ Range(RemoveAt(s, i)) = Range(s) \ {s[i]}
         /\ IsInjective(RemoveAt(s, i))
<1> DEFINE n == Len(s)
           r == RemoveAt(s, i)
<1>1. n \in Nat /\ DOMAIN s = 1..n /\ i \in 1..n
  BY LenProperties
<1>2. r \in Seq(S) /\ Len(r) = n - 1
  BY RemovedPosition
<1>3. \A j \in 1..(n - 1) : r[j] = IF j <= i - 1 THEN s[j] ELSE s[j + 1]
  BY RemovedPosition
<1>4. DOMAIN r = 1..(n - 1)
  BY <1>2, LenProperties
<1>5. \A j, l \in 1..n : s[j] = s[l] => j = l
  BY <1>1 DEF IsInjective
<1> HIDE DEF n, r
<1>6. IsInjective(r)
  BY <1>1, <1>3, <1>4, <1>5 DEF IsInjective
<1>7. ASSUME NEW j \in 1..(n - 1) PROVE r[j] \in Range(s) /\ r[j] # s[i]
  BY <1>1, <1>3, <1>5 DEF Range
<1>8. ASSUME NEW j \in 1..n, j # i PROVE s[j] \in Range(r)
  <2>1. CASE j < i
    <3>1. j \in 1..(n - 1) /\ r[j] = s[j]
      BY <2>1, <1>1, <1>3
    <3> QED
      BY <3>1, <1>4 DEF Range
  <2>2. CASE j > i
    <3>1. j - 1 \in 1..(n - 1) /\ r[j - 1] = s[j]
      BY <2>2, <1>1, <1>3
    <3> QED
      BY <3>1, <1>4 DEF Range
  <2> QED
    BY <1>1, <1>8, <2>1, <2>2
<1>9. Range(r) = Range(s) \ {s[i]}
  <2>1. Range(r) \subseteq Range(s) \ {s[i]}
    BY <1>4, <1>7 DEF Range
  <2>2. Range(s) \ {s[i]} \subseteq Range(r)
    BY <1>1, <1>8 DEF Range
  <2> QED
    BY <2>1, <2>2
<1> QED
  BY <1>2, <1>6, <1>9 DEF r

\* Appending an element that is not there keeps a sequence without repetitions.
LEMMA AppendInjectiveSeq ==
  ASSUME NEW S, NEW s \in Seq(S), IsInjective(s), NEW e \in S, e \notin Range(s)
  PROVE  IsInjective(Append(s, e))
<1>1. /\ Append(s, e) \in Seq(S) /\ Len(Append(s, e)) = Len(s) + 1
      /\ \A i \in 1..Len(s) : Append(s, e)[i] = s[i]
      /\ Append(s, e)[Len(s) + 1] = e
  BY AppendProperties
<1>2. DOMAIN s = 1..Len(s) /\ Len(s) \in Nat /\ DOMAIN Append(s, e) = 1..(Len(s) + 1)
  BY <1>1, LenProperties
<1>3. \A i \in 1..Len(s) : s[i] # e
  BY <1>2 DEF Range
<1> QED
  BY <1>1, <1>2, <1>3 DEF IsInjective

\* A sequence without repetitions loses an element, if it has it.
LEMMA DropElement ==
  ASSUME NEW S, NEW s \in Seq(S), IsInjective(s), NEW e,
         NEW r, r = IF e \in Range(s) THEN RemoveAt(s, CHOOSE i \in DOMAIN s : s[i] = e)
                                     ELSE s
  PROVE  r \in Seq(S) /\ IsInjective(r) /\ Range(r) = Range(s) \ {e}
<1>1. CASE e \in Range(s)
  <2> DEFINE i == CHOOSE i \in DOMAIN s : s[i] = e
  <2>1. i \in DOMAIN s /\ s[i] = e
    BY <1>1 DEF Range
  <2>2. i \in 1..Len(s)
    BY <2>1, LenProperties
  <2>3. r = RemoveAt(s, i)
    BY <1>1
  <2> HIDE DEF i
  <2>4. /\ RemoveAt(s, i) \in Seq(S) /\ IsInjective(RemoveAt(s, i))
        /\ Range(RemoveAt(s, i)) = Range(s) \ {s[i]}
    BY ONLY s \in Seq(S), IsInjective(s), <2>2, RangeRemoveAt
  <2> QED
    BY <2>1, <2>3, <2>4
<1>2. CASE e \notin Range(s)
  BY <1>2
<1> QED
  BY <1>1, <1>2

\* A sequence of n different elements of a set of n elements holds them all.
LEMMA EnumerationIsAll ==
  ASSUME NEW S, IsFiniteSet(S), NEW s \in SetToSeqs(S)
  PROVE  s \in Seq(S) /\ Range(s) = S /\ IsInjective(s)
<1> DEFINE D == 1..Cardinality(S)
<1>1. s \in [D -> S] /\ \A i, j \in D : i # j => s[i] # s[j]
  BY DEF SetToSeqs
<1>2. Cardinality(S) \in Nat
  BY FS_CardinalityType
<1>3. s \in Injection(D, S) /\ IsInjective(s)
  BY <1>1 DEF Injection, IsInjective
<1>4. IsFiniteSet(D) /\ Cardinality(D) = Cardinality(S)
  BY <1>2, FS_Interval
<1>5. s \in Surjection(D, S)
  BY <1>3, <1>4, FS_Injection
<1>6. Range(s) = S
  BY <1>1, <1>5 DEF Surjection, Range
<1>7. s \in Seq(S)
  BY <1>1, <1>2, SeqDef
<1> QED
  BY <1>3, <1>6, <1>7

\* A sequence without repetitions has its first element only once.
LEMMA TailOfInjective ==
  ASSUME NEW S, NEW s \in Seq(S), IsInjective(s), s # <<>>
  PROVE  IsInjective(Tail(s)) /\ Head(s) \notin Range(Tail(s))
<1>1. /\ Tail(s) \in Seq(S) /\ Len(s) \in Nat \ {0} /\ Head(s) = s[1]
      /\ Len(Tail(s)) = Len(s) - 1 /\ \A i \in 1..(Len(s) - 1) : Tail(s)[i] = s[i + 1]
  BY HeadTailProperties, EmptySeq
<1>2. DOMAIN s = 1..Len(s) /\ DOMAIN Tail(s) = 1..(Len(s) - 1)
  BY <1>1, LenProperties
<1>3. ASSUME NEW i \in 1..(Len(s) - 1), NEW j \in 1..(Len(s) - 1), Tail(s)[i] = Tail(s)[j]
      PROVE  i = j
  <2>1. i + 1 \in DOMAIN s /\ j + 1 \in DOMAIN s /\ s[i + 1] = s[j + 1]
    BY <1>1, <1>2, <1>3
  <2> QED
    BY <2>1 DEF IsInjective
<1>4. ASSUME NEW i \in 1..(Len(s) - 1) PROVE Tail(s)[i] # Head(s)
  <2>1. i + 1 \in DOMAIN s /\ 1 \in DOMAIN s /\ i + 1 # 1 /\ Tail(s)[i] = s[i + 1]
    BY <1>1, <1>2
  <2> QED
    BY <1>1, <2>1 DEF IsInjective
<1> QED
  BY <1>2, <1>3, <1>4 DEF IsInjective, Range

\* A finite set has a sequence of its elements without repetitions.
LEMMA SomeEnumeration ==
  ASSUME NEW S, IsFiniteSet(S)
  PROVE  SetToSeq(S) \in SetToSeqs(S)
<1>1. PICK f : f \in Bijection(1..Cardinality(S), S)
  BY FS_CardinalityType DEF ExistsBijection
<1>2. f \in [1..Cardinality(S) -> S] /\ IsInjective(f)
  BY <1>1 DEF Bijection, Injection, IsInjective
<1>3. SetToSeq(S) \in [1..Cardinality(S) -> S] /\ IsInjective(SetToSeq(S))
  BY <1>2 DEF SetToSeq
<1> QED
  BY <1>3 DEF SetToSeqs, IsInjective
-----------------------------------------------------------------------------
(* Sums over finite sets.  MapThenSumSet takes one element after the other  *)
(* out of the set; that there is such a function, and that the order does   *)
(* not matter, is shown by the least number of elements for which it fails. *)

TotalOf(f, S) == MapThenSumSet(LAMBDA x : f[x], S)

OneOf(s) == CHOOSE x \in s : TRUE

IsTotal(g, f, S) ==
  g = [s \in SUBSET S |-> IF s = {} THEN 0 ELSE f[OneOf(s)] + g[s \ {OneOf(s)}]]

LEMMA WithoutOne ==
  ASSUME NEW S, IsFiniteSet(S), NEW s \in SUBSET S
  PROVE  /\ Cardinality(s) \in 0 .. Cardinality(S) /\ Cardinality(S) \in Nat
         /\ Cardinality(s) = 0 <=> s = {}
         /\ \A x \in s : s \ {x} \in SUBSET S /\ Cardinality(s \ {x}) = Cardinality(s) - 1
         /\ s # {} => OneOf(s) \in s
<1>1. IsFiniteSet(s) /\ Cardinality(s) <= Cardinality(S) /\ Cardinality(S) \in Nat
  BY FS_Subset, FS_CardinalityType
<1>2. Cardinality(s) \in Nat /\ (Cardinality(s) = 0 <=> s = {})
  BY <1>1, FS_CardinalityType, FS_EmptySet
<1>3. \A x \in s : Cardinality(s \ {x}) = Cardinality(s) - 1
  BY <1>1, FS_RemoveElement
<1>4. s # {} => OneOf(s) \in s
  BY DEF OneOf
<1> QED
  BY <1>1, <1>2, <1>3, <1>4

LEMMA TotalExists ==
  ASSUME NEW S, IsFiniteSet(S), NEW f, \A x \in S : f[x] \in Nat
  PROVE  \E g \in [SUBSET S -> Nat] : IsTotal(g, f, S)
<1> DEFINE Low(n) == {s \in SUBSET S : Cardinality(s) <= n}
           G(n) == {g \in [Low(n) -> Nat] : \A s \in Low(n) :
                      g[s] = IF s = {} THEN 0 ELSE f[OneOf(s)] + g[s \ {OneOf(s)}]}
           N == Cardinality(S)
           Bad == {n \in 0 .. N : G(n) = {}}
<1>1. N \in Nat
  BY FS_CardinalityType
<1>2. G(0) # {}
  <2>1. Low(0) = {{}}
    BY WithoutOne
  <2>2. [s \in Low(0) |-> 0] \in G(0)
    BY <2>1
  <2> QED
    BY <2>2
<1>3. ASSUME NEW n \in 1 .. N, G(n - 1) # {} PROVE G(n) # {}
  <2>1. PICK h : h \in G(n - 1)
    BY <1>3
  <2>2. n \in Nat /\ n - 1 \in Nat
    BY <1>1
  <2>3. h \in [Low(n - 1) -> Nat] /\ h[{}] = 0 /\ {} \in Low(n - 1)
    <3>1. {} \in Low(n - 1)
      BY <2>2, WithoutOne
    <3> QED
      BY <2>1, <3>1
  <2>4. \A s \in Low(n) : s # {} =>
          OneOf(s) \in S /\ s \ {OneOf(s)} \in Low(n - 1)
    BY <2>2, WithoutOne
  <2> DEFINE g == [s \in Low(n) |-> IF s = {} THEN 0 ELSE f[OneOf(s)] + h[s \ {OneOf(s)}]]
  <2>5. \A s \in Low(n - 1) : s \in Low(n) /\ g[s] = h[s]
    <3>1. \A s \in Low(n - 1) : s \in Low(n)
      BY <2>2, WithoutOne
    <3>2. \A s \in Low(n - 1) :
            h[s] = IF s = {} THEN 0 ELSE f[OneOf(s)] + h[s \ {OneOf(s)}]
      BY <2>1
    <3> QED
      BY <3>1, <3>2
  <2>6. g \in [Low(n) -> Nat]
    <3>1. ASSUME NEW s \in Low(n), s # {}
          PROVE  f[OneOf(s)] + h[s \ {OneOf(s)}] \in Nat
      <4>1. f[OneOf(s)] \in Nat /\ h[s \ {OneOf(s)}] \in Nat
        BY <2>3, <2>4, <3>1
      <4> HIDE DEF Low
      <4> QED
        BY <4>1
    <3> QED
      BY <3>1
  <2>7. \A s \in Low(n) :
          g[s] = IF s = {} THEN 0 ELSE f[OneOf(s)] + g[s \ {OneOf(s)}]
    <3>1. \A s \in Low(n) : g[s] = IF s = {} THEN 0 ELSE f[OneOf(s)] + h[s \ {OneOf(s)}]
      OBVIOUS
    <3> HIDE DEF g, Low
    <3> QED
      BY <2>4, <2>5, <3>1
  <2>8. g \in G(n)
    <3> HIDE DEF g, Low
    <3> QED
      BY <2>6, <2>7
  <2> QED
    BY <2>8
<1>4. Bad = {}
  <2> HIDE DEF G
  <2>1. SUFFICES ASSUME Bad # {} PROVE FALSE
    OBVIOUS
  <2>2. Bad \in SUBSET Nat
    BY <1>1
  <2>3. PICK n \in Bad : \A m \in Bad : n <= m
    BY <2>1, <2>2, LeastElement
  <2>4. n \in 1 .. N
    BY <1>1, <1>2, <2>3
  <2>5. n - 1 \notin Bad
    BY <1>1, <2>3, <2>4
  <2> QED
    BY <1>1, <1>3, <2>3, <2>4, <2>5
<1>5. PICK g : g \in G(N)
  <2> HIDE DEF G
  <2>1. N \in 0 .. N /\ N \notin Bad
    BY <1>1, <1>4
  <2> QED
    BY <2>1
<1>6. Low(N) = SUBSET S
  BY WithoutOne
<1>7. g \in [SUBSET S -> Nat]
  BY <1>5, <1>6
<1>8. \A s \in SUBSET S : g[s] = IF s = {} THEN 0 ELSE f[OneOf(s)] + g[s \ {OneOf(s)}]
  BY <1>5, <1>6
<1> QED
  BY <1>7, <1>8 DEF IsTotal

\* A sum over a part does not depend on the whole.
LEMMA TotalAgrees ==
  ASSUME NEW S, IsFiniteSet(S), NEW T \in SUBSET S, NEW f, NEW g, NEW h,
         IsTotal(g, f, S), IsTotal(h, f, T)
  PROVE  g[T] = h[T]
<1> DEFINE Bad == {n \in 0 .. Cardinality(T) :
                     \E s \in SUBSET T : Cardinality(s) = n /\ g[s] # h[s]}
<1>1. IsFiniteSet(T)
  BY FS_Subset
<1>2. ASSUME NEW s \in SUBSET T
      PROVE  /\ g[s] = IF s = {} THEN 0 ELSE f[OneOf(s)] + g[s \ {OneOf(s)}]
             /\ h[s] = IF s = {} THEN 0 ELSE f[OneOf(s)] + h[s \ {OneOf(s)}]
  BY DEF IsTotal
<1>3. Bad = {}
  <2>1. SUFFICES ASSUME Bad # {} PROVE FALSE
    OBVIOUS
  <2>2. Bad \in SUBSET Nat
    OBVIOUS
  <2>3. PICK n \in Bad : \A m \in Bad : n <= m
    BY <2>1, <2>2, LeastElement
  <2>4. PICK s \in SUBSET T : Cardinality(s) = n /\ g[s] # h[s]
    BY <2>3
  <2>5. s # {}
    BY <1>2, <2>4
  <2> DEFINE r == s \ {OneOf(s)}
  <2>6. r \in SUBSET T /\ Cardinality(r) = n - 1 /\ n \in 1 .. Cardinality(T)
        /\ Cardinality(T) \in Nat
    BY <1>1, <2>4, <2>5, WithoutOne
  <2>7. g[r] # h[r]
    BY <1>2, <2>4, <2>5
  <2> HIDE DEF r
  <2>8. n - 1 \in Bad
    BY <2>6, <2>7
  <2> QED
    BY <2>3, <2>6, <2>8
<1>4. Cardinality(T) \in 0 .. Cardinality(T)
  BY <1>1, FS_CardinalityType
<1> QED
  BY <1>3, <1>4

\* Whichever element is taken out, its value is what the sum loses.
LEMMA TotalAnyOrder ==
  ASSUME NEW S, IsFiniteSet(S), NEW f, \A x \in S : f[x] \in Nat, NEW g \in [SUBSET S -> Nat],
         IsTotal(g, f, S), NEW y \in S
  PROVE  g[S] = f[y] + g[S \ {y}]
<1> DEFINE Bad == {n \in 0 .. Cardinality(S) :
                     \E s \in SUBSET S : /\ Cardinality(s) = n
                                         /\ \E x \in s : g[s] # f[x] + g[s \ {x}]}
<1>1. \A s \in SUBSET S : s # {} => g[s] = f[OneOf(s)] + g[s \ {OneOf(s)}]
  BY DEF IsTotal
<1>2. Bad = {}
  <2>1. SUFFICES ASSUME Bad # {} PROVE FALSE
    OBVIOUS
  <2>2. Bad \in SUBSET Nat
    OBVIOUS
  <2>3. PICK n \in Bad : \A m \in Bad : n <= m
    BY <2>1, <2>2, LeastElement
  <2>4. PICK s \in SUBSET S : Cardinality(s) = n /\ \E x \in s : g[s] # f[x] + g[s \ {x}]
    BY <2>3
  <2>5. PICK x \in s : g[s] # f[x] + g[s \ {x}]
    BY <2>4
  <2>6. PICK c \in s : g[s] = f[c] + g[s \ {c}]
    BY <1>1, <2>5, WithoutOne
  <2>7. c # x
    BY <2>5, <2>6
  <2>8. /\ n - 1 \in 0 .. Cardinality(S) /\ n - 1 < n
        /\ Cardinality(s \ {c}) = n - 1 /\ Cardinality(s \ {x}) = n - 1
    BY <2>4, WithoutOne
  <2>9. n - 1 \notin Bad
    BY <2>3, <2>8
  <2>10. g[s \ {c}] = f[x] + g[(s \ {c}) \ {x}]
    <3>1. s \ {c} \in SUBSET S /\ x \in s \ {c}
      BY <2>7
    <3> QED
      BY <2>8, <2>9, <3>1
  <2>11. g[s \ {x}] = f[c] + g[(s \ {x}) \ {c}]
    <3>1. s \ {x} \in SUBSET S /\ c \in s \ {x}
      BY <2>7
    <3> QED
      BY <2>8, <2>9, <3>1
  <2>12. (s \ {c}) \ {x} = (s \ {x}) \ {c}
    OBVIOUS
  <2> DEFINE r == (s \ {x}) \ {c}
  <2>13. f[x] \in Nat /\ f[c] \in Nat /\ g[r] \in Nat
    OBVIOUS
  <2>14. g[s \ {c}] = f[x] + g[r] /\ g[s \ {x}] = f[c] + g[r]
    BY <2>10, <2>11, <2>12
  <2> HIDE DEF r
  <2> QED
    BY <2>5, <2>6, <2>13, <2>14
<1>3. S \in SUBSET S /\ Cardinality(S) \in 0 .. Cardinality(S)
  BY FS_CardinalityType
<1> QED
  BY <1>2, <1>3

LEMMA TotalIs ==
  ASSUME NEW S, IsFiniteSet(S), NEW f, \A x \in S : f[x] \in Nat
  PROVE  \E g \in [SUBSET S -> Nat] : IsTotal(g, f, S) /\ TotalOf(f, S) = g[S]
<1>1. \E g : IsTotal(g, f, S)
  BY TotalExists
<1>2. PICK g : IsTotal(g, f, S) /\ TotalOf(f, S) = g[S]
  BY <1>1 DEF TotalOf, MapThenSumSet, MapThenFoldSet, IsTotal, OneOf
<1>3. PICK h \in [SUBSET S -> Nat] : IsTotal(h, f, S)
  BY TotalExists
<1>4. TotalOf(f, S) = h[S]
  BY <1>2, <1>3, TotalAgrees
<1> QED
  BY <1>3, <1>4

\* The sum over no elements, and what one more element adds.
LEMMA TotalOfNone ==
  ASSUME NEW f PROVE TotalOf(f, {}) = 0
<1>1. PICK g \in [SUBSET {} -> Nat] : IsTotal(g, f, {}) /\ TotalOf(f, {}) = g[{}]
  BY FS_EmptySet, TotalIs
<1> QED
  BY <1>1 DEF IsTotal

LEMMA TotalOfLess ==
  ASSUME NEW U, IsFiniteSet(U), NEW y \in U, NEW f, \A x \in U : f[x] \in Nat
  PROVE  TotalOf(f, U) = TotalOf(f, U \ {y}) + f[y] /\ TotalOf(f, U \ {y}) \in Nat
<1> DEFINE S == U \ {y}
<1>1. IsFiniteSet(S) /\ S \in SUBSET U /\ \A x \in S : f[x] \in Nat
  BY FS_RemoveElement
<1>2. PICK g \in [SUBSET U -> Nat] : IsTotal(g, f, U) /\ TotalOf(f, U) = g[U]
  BY TotalIs
<1>3. g[U] = f[y] + g[S]
  BY <1>2, TotalAnyOrder
<1> HIDE DEF S
<1>4. PICK h \in [SUBSET S -> Nat] : IsTotal(h, f, S) /\ TotalOf(f, S) = h[S]
  BY <1>1, TotalIs
<1>5. g[S] = h[S]
  BY <1>1, <1>2, <1>4, TotalAgrees
<1>6. h[S] \in Nat /\ f[y] \in Nat
  OBVIOUS
<1>7. TotalOf(f, U) = TotalOf(f, S) + f[y] /\ TotalOf(f, S) \in Nat
  BY <1>2, <1>3, <1>4, <1>5, <1>6
<1> QED
  BY <1>7 DEF S
=============================================================================
