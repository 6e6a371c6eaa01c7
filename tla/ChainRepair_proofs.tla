-------------------------- MODULE ChainRepair_proofs --------------------------
(***************************************************************************)
(* Theorems about ChainRepair, for any number of nodes, blocks, scans and  *)
(* faults, and for any names and addresses.  The last ones are about what  *)
(* the diagnosis reports: the lists a walk over the blocks can be given,   *)
(* and what the walk finds on them.                                        *)
(***************************************************************************)
EXTENDS ChainRepair, FiniteSetTheorems, NaturalsInduction, SequenceTheorems, TLAPS

(***************************************************************************)
(* Recursive functions.  The induction is over the least number, or a      *)
(* smallest part, for which something is false.                            *)
(***************************************************************************)
LEMMA Least ==
  ASSUME NEW S \in SUBSET Nat, S # {}
  PROVE  \E n \in S : \A m \in S : n <= m
<1> DEFINE R == {ss \in Nat \X Nat : ss[1] < ss[2]}
<1>1. IsWellFoundedOn(R, Nat)
  BY NatLessThanWellFounded DEF OpToRel
<1>2. \A y, x \in Nat : <<y, x>> \in R <=> y < x
  OBVIOUS
<1> HIDE DEF R
<1>3. PICK n \in S : \A m \in S : <<m, n>> \notin R
  BY <1>1, WFMin
<1>4. \A m \in S : n <= m
  <2> TAKE m \in S
  <2>1. n \in Nat /\ m \in Nat
    OBVIOUS
  <2>2. ~(m < n)
    BY <1>2, <1>3, <2>1
  <2> QED
    BY <2>1, <2>2
<1> QED
  BY <1>4

LEMMA Greatest ==
  ASSUME NEW k \in Nat, NEW S \in SUBSET (0 .. k), S # {}
  PROVE  \E n \in S : \A m \in S : m <= n
<1> DEFINE D == {k - i : i \in S}
<1>0. \A i \in S : i \in 0 .. k /\ k - i \in Nat
  OBVIOUS
<1>1. D \in SUBSET Nat /\ D # {}
  BY <1>0
<1> HIDE DEF D
<1>2. PICK d \in D : \A e \in D : d <= e
  BY <1>1, Least
<1>3. PICK n \in S : d = k - n
  BY DEF D
<1>4. \A m \in S : d <= k - m
  BY <1>2 DEF D
<1> QED
  BY <1>0, <1>3, <1>4

\* What holds at 0 and passes from each number to the next
LEMMA UpTo ==
  ASSUME NEW n \in Nat, NEW good \in SUBSET (0 .. n), 0 \in good,
         \A k \in 1 .. n : k - 1 \in good => k \in good
  PROVE  good = 0 .. n
<1> DEFINE bad == (0 .. n) \ good
<1>1. ASSUME bad # {} PROVE FALSE
  <2>1. bad \in SUBSET Nat
    OBVIOUS
  <2> HIDE DEF bad
  <2>2. PICK k \in bad : \A m \in bad : k <= m
    BY <1>1, <2>1, Least
  <2>3. k \in 0 .. n /\ k # 0
    BY DEF bad
  <2>4. k \in 1 .. n /\ k - 1 \in 0 .. n /\ ~(k <= k - 1)
    BY <2>3
  <2>5. k - 1 \notin bad
    BY <2>2, <2>4
  <2> QED
    BY <2>4, <2>5 DEF bad
<1> QED
  BY <1>1

\* g is defined up to n by its value at 0 and by a step.
Defined(g, n, v, f) == g = [k \in 0 .. n |-> IF k = 0 THEN v ELSE f[<<k, g[k - 1]>>]]

LEMMA Recursion ==
  ASSUME NEW n \in Nat, NEW v, NEW f
  PROVE  \E g : Defined(g, n, v, f)
<1> DEFINE good == {m \in 0 .. n : \E g : Defined(g, m, v, f)}
<1>1. 0 \in good
  <2>1. \A k \in 0 .. 0 : k = 0
    OBVIOUS
  <2>2. Defined([k \in 0 .. 0 |-> v], 0, v, f)
    BY <2>1 DEF Defined
  <2> QED
    BY <2>2
<1>2. ASSUME NEW m \in 1 .. n, m - 1 \in good
      PROVE  m \in good
  <2>1. PICK h : Defined(h, m - 1, v, f)
    BY <1>2
  <2> DEFINE g == [k \in 0 .. m |-> IF k = m THEN f[<<m, h[m - 1]>>] ELSE h[k]]
  <2>2. ASSUME NEW k \in 0 .. m
        PROVE  g[k] = IF k = 0 THEN v ELSE f[<<k, g[k - 1]>>]
    <3>1. CASE k = m
      <4>1. g[k] = f[<<m, h[m - 1]>>] /\ g[m - 1] = h[m - 1]
        BY <3>1
      <4> QED
        BY <3>1, <4>1
    <3>2. CASE k # m
      <4>1. k \in 0 .. m - 1 /\ g[k] = h[k]
        BY <3>2
      <4>2. h[k] = IF k = 0 THEN v ELSE f[<<k, h[k - 1]>>]
        BY <2>1, <4>1 DEF Defined
      <4>3. k # 0 => g[k - 1] = h[k - 1]
        BY <3>2
      <4> QED
        BY <4>1, <4>2, <4>3
    <3> QED
      BY <3>1, <3>2
  <2>3. Defined(g, m, v, f)
    BY <2>2 DEF Defined
  <2> HIDE DEF g
  <2> QED
    BY <2>3
<1> HIDE DEF good
<1>3. good \in SUBSET (0 .. n)
  BY DEF good
<1>4. good = 0 .. n
  BY <1>1, <1>2, <1>3, UpTo
<1> QED
  BY <1>4 DEF good

LEMMA StepByStep ==
  ASSUME NEW n \in Nat, NEW v, NEW f, NEW g, Defined(g, n, v, f)
  PROVE  g[0] = v /\ \A k \in 1 .. n : g[k] = f[<<k, g[k - 1]>>]
<1>1. \A k \in 0 .. n : g[k] = IF k = 0 THEN v ELSE f[<<k, g[k - 1]>>]
  BY DEF Defined
<1>2. 0 \in 0 .. n /\ \A k \in 1 .. n : k \in 0 .. n /\ k # 0
  OBVIOUS
<1>3. g[0] = v
  BY <1>1, <1>2
<1>4. ASSUME NEW k \in 1 .. n
      PROVE  g[k] = f[<<k, g[k - 1]>>]
  <2>1. g[k] = IF k = 0 THEN v ELSE f[<<k, g[k - 1]>>]
    BY <1>1, <1>2
  <2> QED
    BY <1>2, <2>1
<1> QED
  BY <1>3, <1>4

\* Some part of a finite set, of those with a property, is smallest.
LEMMA MinimalPart ==
  ASSUME NEW S, IsFiniteSet(S), NEW bad, bad \subseteq SUBSET S, bad # {}
  PROVE  \E A \in bad : \A B \in bad : ~(B \subseteq A /\ B # A)
<1>1. IsWellFoundedOn(StrictSubsetOrdering(S), FiniteSubsetsOf(S))
  BY FS_StrictSubsetOrderingWellFounded
<1>2. FiniteSubsetsOf(S) = SUBSET S
  BY FS_FiniteSubsetsOfFinite
<1>3. \E A \in bad : \A B \in bad : <<B, A>> \notin StrictSubsetOrdering(S)
  BY <1>1, <1>2, WFMin
<1> QED
  BY <1>3 DEF StrictSubsetOrdering

\* g is defined on the parts of a set in D, by its value at {} and by a step that takes
\* an element out.
DefinedOn(g, D, v, f, pick) ==
  g = [A \in D |-> IF A = {} THEN v ELSE f[<<pick[A], g[A \ {pick[A]}]>>]]

LEMMA RecursionOnParts ==
  ASSUME NEW S, IsFiniteSet(S), NEW v, NEW f,
         NEW pick, \A A \in SUBSET S : A # {} => pick[A] \in A
  PROVE  \E g : DefinedOn(g, SUBSET S, v, f, pick)
<1> DEFINE n == Cardinality(S)
           Parts(k) == {A \in SUBSET S : Cardinality(A) <= k}
           good == {k \in 0 .. n : \E g : DefinedOn(g, Parts(k), v, f, pick)}
<1>0. /\ n \in Nat
      /\ \A A \in SUBSET S : /\ IsFiniteSet(A) /\ Cardinality(A) \in 0 .. n
                             /\ (Cardinality(A) = 0 <=> A = {})
                             /\ \A x \in A : Cardinality(A \ {x}) = Cardinality(A) - 1
  BY FS_Subset, FS_CardinalityType, FS_EmptySet, FS_RemoveElement
<1>1. 0 \in good
  <2>1. \A A \in Parts(0) : A = {}
    BY <1>0
  <2>2. DefinedOn([A \in Parts(0) |-> v], Parts(0), v, f, pick)
    BY <2>1 DEF DefinedOn
  <2> HIDE DEF Parts
  <2> QED
    BY <1>0, <2>2
<1>2. ASSUME NEW k \in 1 .. n, k - 1 \in good
      PROVE  k \in good
  <2>1. PICK h : DefinedOn(h, Parts(k - 1), v, f, pick)
    BY <1>2
  <2>2. k \in 0 .. n /\ k - 1 \in 0 .. n
    BY <1>0
  <2> DEFINE g == [A \in Parts(k) |-> IF A \in Parts(k - 1) THEN h[A]
                                      ELSE f[<<pick[A], h[A \ {pick[A]}]>>]]
  <2>3. ASSUME NEW A \in Parts(k), A # {}
        PROVE  A \ {pick[A]} \in Parts(k - 1) /\ A \ {pick[A]} \in Parts(k)
    BY <1>0, <2>2, <2>3
  <2>4. ASSUME NEW A \in Parts(k)
        PROVE  g[A] = IF A = {} THEN v ELSE f[<<pick[A], g[A \ {pick[A]}]>>]
    <3>1. A # {} => g[A \ {pick[A]}] = h[A \ {pick[A]}]
      BY <2>3
    <3>2. CASE A \in Parts(k - 1)
      <4>1. h[A] = IF A = {} THEN v ELSE f[<<pick[A], h[A \ {pick[A]}]>>]
        BY <2>1, <3>2 DEF DefinedOn
      <4> QED
        BY <3>1, <3>2, <4>1
    <3>3. CASE A \notin Parts(k - 1)
      <4>1. A # {}
        BY <1>0, <2>2, <3>3
      <4> QED
        BY <3>1, <3>3, <4>1
    <3> QED
      BY <3>2, <3>3
  <2> HIDE DEF Parts
  <2>5. DefinedOn(g, Parts(k), v, f, pick)
    BY <2>4 DEF DefinedOn
  <2> HIDE DEF g
  <2> QED
    BY <2>2, <2>5
<1>3. Parts(n) = SUBSET S
  BY <1>0
<1> HIDE DEF good
<1>4. good \in SUBSET (0 .. n)
  BY DEF good
<1>5. good = 0 .. n
  BY <1>0, <1>1, <1>2, <1>4, UpTo
<1>6. n \in good
  BY <1>0, <1>5
<1> HIDE DEF Parts
<1>7. PICK g : DefinedOn(g, Parts(n), v, f, pick)
  BY <1>6 DEF good
<1> QED
  BY <1>3, <1>7

-----------------------------------------------------------------------------
(* Sequences *)

LEMMA AnyOrder ==
  ASSUME NEW S, IsFiniteSet(S), NEW s \in [1 .. Cardinality(S) -> S], IsInjective(s)
  PROVE  s \in Seq(S) /\ ToSet(s) = S
<1> DEFINE n == Cardinality(S)
<1>1. n \in Nat /\ IsFiniteSet(1 .. n) /\ Cardinality(1 .. n) = n
  BY FS_CardinalityType, FS_Interval
<1>2. s \in Injection(1 .. n, S)
  BY DEF Injection, IsInjective
<1>3. s \in Surjection(1 .. n, S)
  BY <1>1, <1>2, FS_Injection
<1>4. \A x \in S : \E i \in 1 .. n : s[i] = x
  BY <1>3 DEF Surjection
<1> QED
  BY <1>1, <1>4 DEF ToSet

LEMMA SetAsSequence ==
  ASSUME NEW S, IsFiniteSet(S)
  PROVE  /\ SetToSeq(S) \in Seq(S) /\ ToSet(SetToSeq(S)) = S
         /\ IsInjective(SetToSeq(S))
<1>1. ExistsBijection(1 .. Cardinality(S), S)
  BY FS_CardinalityType
<1>2. \E f \in [1 .. Cardinality(S) -> S] : IsInjective(f)
  BY <1>1 DEF ExistsBijection, Bijection, Injection, IsInjective
<1>3. SetToSeq(S) \in [1 .. Cardinality(S) -> S] /\ IsInjective(SetToSeq(S))
  BY <1>2 DEF SetToSeq
<1> QED
  BY <1>3, AnyOrder

LEMMA SetInOrder ==
  ASSUME NEW S, IsFiniteSet(S), NEW s \in SetToSeqs(S)
  PROVE  s \in Seq(S) /\ ToSet(s) = S /\ IsInjective(s)
<1>1. s \in [1 .. Cardinality(S) -> S] /\ IsInjective(s)
  BY DEF SetToSeqs, IsInjective
<1> QED
  BY <1>1, AnyOrder

LEMMA Joined ==
  ASSUME NEW T, NEW s \in Seq(T), NEW u \in Seq(T)
  PROVE  /\ s \o u \in Seq(T) /\ ToSet(s \o u) = ToSet(s) \union ToSet(u)
         /\ IsInjective(s) /\ IsInjective(u) /\ ToSet(s) \intersect ToSet(u) = {}
              => IsInjective(s \o u)
<1> DEFINE w == s \o u
<1>1. /\ w \in Seq(T) /\ Len(w) = Len(s) + Len(u) /\ DOMAIN w = 1 .. Len(s) + Len(u)
      /\ DOMAIN s = 1 .. Len(s) /\ DOMAIN u = 1 .. Len(u) /\ Len(s) \in Nat /\ Len(u) \in Nat
  OBVIOUS
<1>2. \A i \in 1 .. Len(s) : w[i] = s[i]
  OBVIOUS
<1>3. \A i \in Len(s) + 1 .. Len(s) + Len(u) : i - Len(s) \in 1 .. Len(u) /\ w[i] = u[i - Len(s)]
  OBVIOUS
<1>4. \A i \in 1 .. Len(u) : i + Len(s) \in Len(s) + 1 .. Len(s) + Len(u)
                             /\ w[i + Len(s)] = u[i]
  OBVIOUS
<1> HIDE DEF w
<1>5. \A i \in DOMAIN w : i \in 1 .. Len(s) \/ i \in Len(s) + 1 .. Len(s) + Len(u)
  BY <1>1
<1>6. ToSet(w) = ToSet(s) \union ToSet(u)
  <2>1. ToSet(w) \subseteq ToSet(s) \union ToSet(u)
    BY <1>1, <1>2, <1>3, <1>5 DEF ToSet
  <2>2. ToSet(s) \subseteq ToSet(w)
    BY <1>1, <1>2 DEF ToSet
  <2>3. ToSet(u) \subseteq ToSet(w)
    <3> SUFFICES ASSUME NEW i \in 1 .. Len(u) PROVE u[i] \in ToSet(w)
      BY <1>1 DEF ToSet
    <3>1. i + Len(s) \in DOMAIN w /\ w[i + Len(s)] = u[i]
      BY <1>1, <1>4
    <3> QED
      BY <3>1 DEF ToSet
  <2> QED
    BY <2>1, <2>2, <2>3
<1>7. ASSUME IsInjective(s), IsInjective(u), ToSet(s) \intersect ToSet(u) = {}
      PROVE  IsInjective(w)
  <2> SUFFICES ASSUME NEW i \in DOMAIN w, NEW j \in DOMAIN w, w[i] = w[j] PROVE i = j
    BY DEF IsInjective
  <2>1. \A k \in DOMAIN w : (k \in 1 .. Len(s) /\ w[k] \in ToSet(s))
                            \/ (k \in Len(s) + 1 .. Len(s) + Len(u) /\ w[k] \in ToSet(u))
    BY <1>1, <1>2, <1>3, <1>5 DEF ToSet
  <2>2. CASE i \in 1 .. Len(s) /\ j \in 1 .. Len(s)
    BY <1>1, <1>2, <1>7, <2>2 DEF IsInjective
  <2>3. CASE i \in Len(s) + 1 .. Len(s) + Len(u) /\ j \in Len(s) + 1 .. Len(s) + Len(u)
    <3>1. i - Len(s) = j - Len(s)
      BY <1>1, <1>3, <1>7, <2>3 DEF IsInjective
    <3> QED
      BY <1>1, <2>3, <3>1
  <2> QED
    BY <1>5, <1>7, <2>1, <2>2, <2>3
<1> QED
  BY <1>1, <1>6, <1>7 DEF w

\* The lists of seqs one after the other.  Nothing repeats if nothing does in one of them
\* and no two have a common element.
Apart(seqs) ==
  /\ \A i \in DOMAIN seqs : IsInjective(seqs[i])
  /\ \A i, j \in DOMAIN seqs : i # j => ToSet(seqs[i]) \intersect ToSet(seqs[j]) = {}

LEMMA Flattened ==
  ASSUME NEW T, NEW seqs \in Seq(Seq(T))
  PROVE  /\ FlattenSeq(seqs) \in Seq(T)
         /\ ToSet(FlattenSeq(seqs)) = UNION {ToSet(seqs[i]) : i \in DOMAIN seqs}
         /\ Apart(seqs) => IsInjective(FlattenSeq(seqs))
<1> DEFINE n == Len(seqs)
<1>0. n \in Nat /\ DOMAIN seqs = 1 .. n /\ \A i \in 1 .. n : seqs[i] \in Seq(T)
  OBVIOUS
<1>1. CASE n = 0
  <2>1. seqs = <<>> /\ FlattenSeq(seqs) = <<>>
    BY <1>1 DEF FlattenSeq
  <2>2. DOMAIN seqs = {}
    BY <1>0, <1>1
  <2>3. ToSet(seqs) = {} /\ IsInjective(seqs) /\ seqs \in Seq(T)
    BY <2>1, <2>2 DEF ToSet, IsInjective
  <2>4. UNION {ToSet(seqs[i]) : i \in DOMAIN seqs} = {}
    BY <2>2
  <2> QED
    BY <2>1, <2>3, <2>4
<1>2. CASE n # 0
  <2> DEFINE Flat(g) == g = [i \in 1 .. n |-> IF i = 1 THEN seqs[i] ELSE g[i - 1] \o seqs[i]]
             fl == CHOOSE g : Flat(g)
             f == [p \in (1 .. n) \X Seq(T) |-> IF p[1] = 1 THEN seqs[1] ELSE p[2] \o seqs[p[1]]]
  <2>1. FlattenSeq(seqs) = fl[n]
    BY <1>2 DEF FlattenSeq
  <2>2. PICK g : Defined(g, n, <<>>, f)
    BY <1>0, Recursion
  <2>3. \A k \in 1 .. n, s \in Seq(T) :
          /\ f[<<k, s>>] = IF k = 1 THEN seqs[k] ELSE s \o seqs[k]
          /\ f[<<k, s>>] \in Seq(T)
    BY <1>0
  <2> HIDE DEF f
  <2>4. \A k \in 0 .. n : g[k] \in Seq(T)
    <3> DEFINE good == {k \in 0 .. n : g[k] \in Seq(T)}
    <3>1. 0 \in good
      BY <1>0, <2>2 DEF Defined
    <3>2. ASSUME NEW k \in 1 .. n, k - 1 \in good PROVE k \in good
      <4>1. k \in 0 .. n /\ k # 0
        BY <1>0
      <4>2. g[k] = f[<<k, g[k - 1]>>]
        BY <2>2, <4>1 DEF Defined
      <4> QED
        BY <2>3, <3>2, <4>1, <4>2
    <3> HIDE DEF good
    <3>3. good \in SUBSET (0 .. n)
      BY DEF good
    <3>4. good = 0 .. n
      BY <1>0, <3>1, <3>2, <3>3, UpTo
    <3> QED
      BY <3>4 DEF good
  <2>5. Flat([i \in 1 .. n |-> g[i]])
    <3>1. ASSUME NEW i \in 1 .. n
          PROVE  g[i] = IF i = 1 THEN seqs[i] ELSE g[i - 1] \o seqs[i]
      <4>1. i \in 0 .. n /\ i # 0 /\ i - 1 \in 0 .. n
        BY <1>0
      <4>2. g[i] = f[<<i, g[i - 1]>>]
        BY <2>2, <4>1 DEF Defined
      <4> QED
        BY <2>3, <2>4, <4>1, <4>2
    <3>2. \A i \in 1 .. n : i # 1 => i - 1 \in 1 .. n
      BY <1>0
    <3> QED
      BY <3>1, <3>2
  <2>6. Flat(fl)
    <3> HIDE DEF Flat
    <3>1. \E h : Flat(h)
      BY <2>5, Zenon
    <3> QED
      BY <3>1
  <2>7. \A i \in 1 .. n : fl[i] = IF i = 1 THEN seqs[i] ELSE fl[i - 1] \o seqs[i]
    BY <2>6, ZenonT(30)
  <2> HIDE DEF fl
  <2> DEFINE Part(k) == UNION {ToSet(seqs[i]) : i \in 1 .. k}
             Right(k) == /\ fl[k] \in Seq(T) /\ ToSet(fl[k]) = Part(k)
                         /\ Apart(seqs) => IsInjective(fl[k])
             good == {k \in 0 .. n : k = 0 \/ Right(k)}
  <2>8. 0 \in good
    BY <1>0
  <2>9. ASSUME NEW k \in 1 .. n, k - 1 \in good PROVE k \in good
    <3>1. k \in 0 .. n /\ seqs[k] \in Seq(T) /\ (k # 1 => k - 1 # 0 /\ k - 1 \in 1 .. n)
      BY <1>0
    <3>2. CASE k = 1
      <4>1. fl[k] = seqs[k] /\ Part(k) = ToSet(seqs[k])
        BY <2>7, <3>2
      <4>2. Right(k)
        BY <1>0, <3>1, <4>1 DEF Apart
      <4> QED
        BY <3>1, <4>2
    <3>3. CASE k # 1
      <4>1. fl[k] = fl[k - 1] \o seqs[k] /\ Right(k - 1)
        BY <2>7, <2>9, <3>1, <3>3
      <4>2. Part(k) = Part(k - 1) \union ToSet(seqs[k])
        <5>1. 1 .. k = (1 .. k - 1) \union {k}
          BY <3>1
        <5> QED
          BY <5>1
      <4>3. Apart(seqs) => Part(k - 1) \intersect ToSet(seqs[k]) = {}
        <5>1. \A i \in 1 .. k - 1 : i # k /\ i \in 1 .. n
          BY <1>0, <3>1
        <5> QED
          BY <1>0, <5>1 DEF Apart
      <4>4. Apart(seqs) => IsInjective(seqs[k])
        BY <1>0 DEF Apart
      <4> HIDE DEF Part
      <4>5. Right(k)
        BY <3>1, <4>1, <4>2, <4>3, <4>4, Joined
      <4> HIDE DEF Right
      <4> QED
        BY <3>1, <4>5
    <3> QED
      BY <3>2, <3>3
  <2> HIDE DEF good, Right, Part
  <2>10. good \in SUBSET (0 .. n)
    BY DEF good
  <2>11. n \in good
    <3>1. good = 0 .. n
      BY <1>0, <2>8, <2>9, <2>10, UpTo
    <3> QED
      BY <1>0, <3>1
  <2>12. Right(n)
    BY <1>2, <2>11 DEF good
  <2> QED
    BY <1>0, <2>1, <2>12 DEF Right, Part
<1> QED
  BY <1>1, <1>2

LEMMA Removed ==
  ASSUME NEW T, NEW s \in Seq(T), NEW i \in 1 .. Len(s)
  PROVE  /\ RemoveAt(s, i) \in Seq(T)
         /\ IsInjective(s) => /\ IsInjective(RemoveAt(s, i))
                              /\ ToSet(RemoveAt(s, i)) = ToSet(s) \ {s[i]}
<1> DEFINE a == SubSeq(s, 1, i - 1)
           b == SubSeq(s, i + 1, Len(s))
<1>0. Len(s) \in Nat /\ DOMAIN s = 1 .. Len(s) /\ \A k \in 1 .. Len(s) : s[k] \in T
  OBVIOUS
<1>1. /\ a \in Seq(T) /\ Len(a) = i - 1 /\ DOMAIN a = 1 .. i - 1
      /\ \A k \in 1 .. i - 1 : a[k] = s[k]
  BY <1>0
<1>2. /\ b \in Seq(T) /\ Len(b) = Len(s) - i /\ DOMAIN b = 1 .. Len(s) - i
      /\ \A k \in 1 .. Len(s) - i : b[k] = s[i + k]
  <2>1. b = [k \in 1 .. Len(s) - i |-> s[i + k]]
    <3>1. b = [k \in 1 .. (Len(s) - (i + 1)) + 1 |-> s[((i + 1) + k) - 1]]
      BY <1>0
    <3>2. (Len(s) - (i + 1)) + 1 = Len(s) - i
          /\ \A k \in 1 .. Len(s) - i : ((i + 1) + k) - 1 = i + k
      BY <1>0
    <3> HIDE DEF b
    <3> QED
      BY <3>1, <3>2
  <2>2. Len(s) - i \in Nat /\ \A k \in 1 .. Len(s) - i : s[i + k] \in T
    BY <1>0
  <2> HIDE DEF b
  <2> QED
    BY <2>1, <2>2
<1>3. RemoveAt(s, i) = a \o b
  BY DEF RemoveAt
<1> HIDE DEF a, b
<1>4. RemoveAt(s, i) \in Seq(T) /\ ToSet(RemoveAt(s, i)) = ToSet(a) \union ToSet(b)
  BY <1>1, <1>2, <1>3, Joined
<1>5. ASSUME IsInjective(s)
      PROVE  /\ IsInjective(RemoveAt(s, i))
             /\ ToSet(RemoveAt(s, i)) = ToSet(s) \ {s[i]}
  <2>1. /\ \A k \in 1 .. i - 1 : k \in 1 .. Len(s) /\ k # i
        /\ \A k \in 1 .. Len(s) - i : i + k \in 1 .. Len(s) /\ i + k # i
        /\ \A k \in 1 .. i - 1, m \in 1 .. Len(s) - i : k # i + m
    BY <1>0
  <2>2. IsInjective(a)
    BY <1>0, <1>1, <1>5, <2>1 DEF IsInjective
  <2>3. IsInjective(b)
    <3> SUFFICES ASSUME NEW k \in 1 .. Len(s) - i, NEW m \in 1 .. Len(s) - i, b[k] = b[m]
                 PROVE  k = m
      BY <1>2 DEF IsInjective
    <3>1. i + k = i + m
      BY <1>0, <1>2, <1>5, <2>1 DEF IsInjective
    <3> QED
      BY <3>1
  <2>4. ToSet(a) = {s[k] : k \in 1 .. i - 1} /\ ToSet(b) = {s[i + k] : k \in 1 .. Len(s) - i}
    BY <1>1, <1>2, ZenonT(60) DEF ToSet
  <2>5. ToSet(a) \intersect ToSet(b) = {}
    BY <1>0, <1>5, <2>1, <2>4 DEF IsInjective
  <2>6. s[i] \notin ToSet(a) /\ s[i] \notin ToSet(b)
    BY <1>0, <1>5, <2>1, <2>4 DEF IsInjective
  <2>7. ToSet(a) \subseteq ToSet(s) /\ ToSet(b) \subseteq ToSet(s)
    BY <1>0, <2>1, <2>4 DEF ToSet
  <2>8. ASSUME NEW x \in ToSet(s) \ {s[i]}
        PROVE  x \in ToSet(a) \union ToSet(b)
    <3>1. PICK k \in 1 .. Len(s) : x = s[k]
      BY <1>0 DEF ToSet
    <3>2. CASE k < i
      <4>1. k \in 1 .. i - 1
        BY <1>0, <3>2
      <4> QED
        BY <2>4, <3>1, <4>1
    <3>3. CASE k > i
      <4>1. k - i \in 1 .. Len(s) - i /\ i + (k - i) = k
        BY <1>0, <3>3
      <4> QED
        BY <2>4, <3>1, <4>1
    <3>4. k # i
      BY <3>1
    <3> QED
      BY <1>0, <3>2, <3>3, <3>4
  <2> QED
    BY <1>1, <1>2, <1>3, <1>4, <2>2, <2>3, <2>5, <2>6, <2>7, <2>8, Joined
<1> QED
  BY <1>4, <1>5

\* What the loop leaves in the array: if nothing is there twice, all but t.
LEMMA SplicedOut ==
  ASSUME NEW T, NEW s \in Seq(T), NEW t
  PROVE  /\ Spliced(s, t) \in Seq(T)
         /\ IsInjective(s) => /\ IsInjective(Spliced(s, t))
                              /\ ToSet(s) \subseteq ToSet(Spliced(s, t)) \union {t}
<1> DEFINE n == Len(s)
           X == [rest : Seq(T), at : Nat \ {0}]
           Round(x, k) == IF k > Len(x.rest) THEN x
                          ELSE IF x.rest[k] = t THEN [x EXCEPT !.rest = RemoveAt(@, x.at)]
                          ELSE [x EXCEPT !.at = @ + 1]
           start == [rest |-> s, at |-> 1]
           Run(h) == h = [k \in 0 .. n |-> IF k = 0 THEN {start}
                                           ELSE {Round(x, k) : x \in h[k - 1]}]
           p == CHOOSE h : Run(h)
           Done(x) == IsInjective(x.rest) /\ ToSet(s) \subseteq ToSet(x.rest) \union {t}
                      /\ t \notin ToSet(x.rest)
           Going(x, k) == x.rest = s /\ x.at = k + 1 /\ \A i \in 1 .. k : s[i] # t
           OK(x, k) == x \in X /\ x.at <= k + 1 /\ (IsInjective(s) => Done(x) \/ Going(x, k))
<1>0. n \in Nat /\ DOMAIN s = 1 .. n
  OBVIOUS
<1>1. start \in X /\ OK(start, 0)
  BY <1>0
<1>2. ASSUME NEW k \in 1 .. n, NEW x, OK(x, k - 1)
      PROVE  OK(Round(x, k), k)
  <2>0. k \in Nat /\ k - 1 \in Nat /\ k \in 1 .. k /\ x \in X /\ x.rest \in Seq(T) /\ x.at \in Nat \ {0}
        /\ x.at <= k
    BY <1>0, <1>2
  <2>1. CASE k > Len(x.rest)
    <3>1. Round(x, k) = x
      BY <2>1
    <3>2. ~Going(x, k - 1)
      BY <1>0, <2>0, <2>1
    <3>3. OK(x, k)
      BY <1>2, <2>0, <3>2
    <3> HIDE DEF Round, OK
    <3> QED
      BY <3>1, <3>3
  <2>2. CASE k <= Len(x.rest) /\ x.rest[k] = t
    <3> DEFINE y == [x EXCEPT !.rest = RemoveAt(@, x.at)]
    <3>1. Round(x, k) = y
      BY <2>0, <2>2
    <3>2. x.at \in 1 .. Len(x.rest)
      BY <2>0, <2>2
    <3>3. /\ RemoveAt(x.rest, x.at) \in Seq(T)
          /\ IsInjective(x.rest) => /\ IsInjective(RemoveAt(x.rest, x.at))
                /\ ToSet(RemoveAt(x.rest, x.at)) = ToSet(x.rest) \ {x.rest[x.at]}
      BY <2>0, <3>2, Removed
    <3>4. y \in X /\ y.rest = RemoveAt(x.rest, x.at) /\ y.at = x.at
      BY <2>0, <3>3
    <3>5. ~Done(x)
      <4>1. t \in ToSet(x.rest)
        BY <2>0, <2>2 DEF ToSet
      <4> QED
        BY <4>1
    <3>6. IsInjective(s) => Done(y)
      <4> SUFFICES ASSUME IsInjective(s) PROVE Done(y)
        OBVIOUS
      <4>1. Going(x, k - 1)
        BY <1>2, <3>5
      <4>2. x.rest = s /\ x.at = k /\ s[k] = t
        BY <2>0, <2>2, <4>1
      <4> HIDE DEF y
      <4>3. IsInjective(y.rest) /\ ToSet(y.rest) = ToSet(s) \ {t}
        BY <3>3, <3>4, <4>2
      <4> QED
        BY <4>3
    <3> HIDE DEF y, Done
    <3>7. OK(y, k)
      BY <2>0, <3>4, <3>6
    <3> HIDE DEF OK, Round
    <3> QED
      BY <3>1, <3>7
  <2>3. CASE k <= Len(x.rest) /\ x.rest[k] # t
    <3> DEFINE y == [x EXCEPT !.at = @ + 1]
    <3>1. Round(x, k) = y
      BY <2>0, <2>3
    <3>2. y \in X /\ y.rest = x.rest /\ y.at = x.at + 1
      BY <2>0
    <3> HIDE DEF y
    <3>3. Done(x) => Done(y)
      BY <3>2
    <3>4. Going(x, k - 1) => Going(y, k)
      <4> SUFFICES ASSUME Going(x, k - 1) PROVE Going(y, k)
        OBVIOUS
      <4>1. \A i \in 1 .. k : i \in 1 .. k - 1 \/ i = k
        BY <2>0
      <4> QED
        BY <2>0, <2>3, <3>2, <4>1
    <3> HIDE DEF Done, Going
    <3>5. OK(y, k)
      BY <1>2, <2>0, <3>2, <3>3, <3>4
    <3> HIDE DEF OK, Round
    <3> QED
      BY <3>1, <3>5
  <2>4. Len(x.rest) \in Nat
    BY <2>0
  <2> QED
    BY <2>0, <2>1, <2>2, <2>3, <2>4
<1> HIDE DEF Round, OK
<1>3. \A x, k : OK(x, k) => x \in X
  BY DEF OK
<1>4. ASSUME NEW h, h[0] = {start},
             \A k \in 1 .. n : h[k - 1] \in SUBSET X => h[k] = {Round(x, k) : x \in h[k - 1]}
      PROVE  \A k \in 0 .. n : \E x : h[k] = {x} /\ OK(x, k)
  <2> DEFINE good == {k \in 0 .. n : \E x : h[k] = {x} /\ OK(x, k)}
  <2>1. 0 \in good
    BY <1>0, <1>1, <1>4
  <2>2. ASSUME NEW k \in 1 .. n, k - 1 \in good PROVE k \in good
    <3>1. PICK x : h[k - 1] = {x} /\ OK(x, k - 1)
      BY <2>2
    <3>2. h[k] = {Round(x, k)}
      BY <1>3, <1>4, <3>1
    <3>3. OK(Round(x, k), k) /\ k \in 0 .. n
      BY <1>0, <1>2, <3>1
    <3> QED
      BY <3>2, <3>3
  <2> HIDE DEF good
  <2>3. good \in SUBSET (0 .. n)
    BY DEF good
  <2>4. good = 0 .. n
    BY <1>0, <2>1, <2>2, <2>3, UpTo
  <2> QED
    BY <2>4 DEF good
<1>5. \E h : Run(h)
  <2> DEFINE f == [q \in (1 .. n) \X SUBSET X |-> {Round(x, q[1]) : x \in q[2]}]
  <2>0. \A k \in 1 .. n, y \in SUBSET X : f[<<k, y>>] = {Round(x, k) : x \in y}
    OBVIOUS
  <2> HIDE DEF f, start
  <2>1. PICK g : Defined(g, n, {start}, f)
    BY <1>0, Recursion
  <2>2. g[0] = {start} /\ \A k \in 1 .. n : g[k] = f[<<k, g[k - 1]>>]
    BY <1>0, <2>1, StepByStep
  <2>3. \A k \in 1 .. n : g[k - 1] \in SUBSET X => g[k] = {Round(x, k) : x \in g[k - 1]}
    BY <2>0, <2>2
  <2>4. \A k \in 0 .. n : g[k] \in SUBSET X
    <3>1. \A k \in 0 .. n : \E x : g[k] = {x} /\ OK(x, k)
      BY <1>4, <2>2, <2>3
    <3> QED
      BY <1>3, <3>1
  <2>5. ASSUME NEW k \in 0 .. n
        PROVE  g[k] = IF k = 0 THEN {start} ELSE {Round(x, k) : x \in g[k - 1]}
    <3>1. k # 0 => k \in 1 .. n /\ k - 1 \in 0 .. n
      BY <1>0
    <3> QED
      BY <2>2, <2>3, <2>4, <3>1
  <2>6. Run([k \in 0 .. n |-> g[k]])
    <3>1. \A k \in 0 .. n : k # 0 => k - 1 \in 0 .. n
      BY <1>0
    <3> QED
      BY <2>5, <3>1
  <2> HIDE DEF Run
  <2> QED
    BY <2>6
<1>6. Run(p)
  <2> HIDE DEF Run
  <2> QED
    BY <1>5
<1>7. Spliced(s, t) = (CHOOSE x \in p[n] : TRUE).rest
  BY DEF Spliced, Round
<1> HIDE DEF p, start
<1>8. p[0] = {start} /\ \A k \in 1 .. n : p[k] = {Round(x, k) : x \in p[k - 1]}
  <2>1. p[0] = {start}
    BY <1>0, <1>6
  <2>2. ASSUME NEW k \in 1 .. n
        PROVE  p[k] = {Round(x, k) : x \in p[k - 1]}
    <3>1. k \in 0 .. n /\ k # 0
      BY <1>0
    <3> QED
      BY <1>6, <3>1
  <2> QED
    BY <2>1, <2>2
<1>9. PICK x : p[n] = {x} /\ OK(x, n)
  <2>1. \A k \in 0 .. n : \E x : p[k] = {x} /\ OK(x, k)
    BY <1>4, <1>8
  <2> QED
    BY <1>0, <2>1
<1>10. Spliced(s, t) = x.rest
  BY <1>7, <1>9
<1>11. Going(x, n) => t \notin ToSet(s)
  BY <1>0 DEF ToSet
<1> QED
  BY <1>9, <1>10, <1>11 DEF OK

\* What the loop over u leaves in the array s: if nothing is there twice, all but what is
\* in u.
LEMMA FoldedOut ==
  ASSUME NEW T, NEW s \in Seq(T), NEW u \in Seq(T)
  PROVE  /\ FoldLeft(Spliced, s, u) \in Seq(T)
         /\ IsInjective(s) =>
              /\ IsInjective(FoldLeft(Spliced, s, u))
              /\ ToSet(s) \subseteq ToSet(FoldLeft(Spliced, s, u)) \union ToSet(u)
<1> DEFINE D == DOMAIN u
           top(A) == CHOOSE x \in A : \A y \in A : x >= y
           Run(h) == h = [A \in SUBSET D |-> IF A = {} THEN s
                            ELSE Spliced(h[A \ {top(A)}], u[top(A)])]
           iter == CHOOSE h : Run(h)
           OK(x, A) == /\ x \in Seq(T)
                       /\ IsInjective(s) => /\ IsInjective(x)
                                            /\ ToSet(s) \subseteq ToSet(x) \union {u[i] : i \in A}
<1>1. FoldLeft(Spliced, s, u) = iter[D]
  BY DEF FoldLeft, MapThenFoldSet, Max
<1>2. Len(u) \in Nat /\ D = 1 .. Len(u) /\ \A i \in D : u[i] \in T
  OBVIOUS
<1>3. IsFiniteSet(D)
  BY <1>2, FS_Interval
<1>4. ASSUME NEW A \in SUBSET D, A # {}
      PROVE  top(A) \in A
  <2>1. A \in SUBSET (0 .. Len(u))
    BY <1>2
  <2>2. PICK x \in A : \A y \in A : y <= x
    BY <1>2, <1>4, <2>1, Greatest
  <2>3. \A y \in A : x >= y
    BY <2>1, <2>2
  <2> QED
    BY <2>3
<1>5. OK(s, {})
  OBVIOUS
<1>6. ASSUME NEW A \in SUBSET D, A # {}, NEW x, OK(x, A \ {top(A)})
      PROVE  OK(Spliced(x, u[top(A)]), A)
  <2>1. top(A) \in A /\ x \in Seq(T)
    BY <1>4, <1>6
  <2> DEFINE i == top(A)
             w == Spliced(x, u[i])
  <2>2. /\ w \in Seq(T)
        /\ IsInjective(x) => IsInjective(w) /\ ToSet(x) \subseteq ToSet(w) \union {u[i]}
    BY <2>1, SplicedOut
  <2> HIDE DEF i, w
  <2>3. IsInjective(s) => /\ IsInjective(x)
                          /\ ToSet(s) \subseteq ToSet(x) \union {u[j] : j \in A \ {i}}
    BY <1>6 DEF i
  <2>4. i \in A
    BY <2>1 DEF i
  <2>5. OK(w, A)
    BY <2>2, <2>3, <2>4
  <2> QED
    BY <2>5 DEF w, i
<1> HIDE DEF OK, top
<1>7. \A x, A : OK(x, A) => x \in Seq(T)
  BY DEF OK
<1>8. ASSUME NEW h, h[{}] = s,
             \A A \in SUBSET D : A # {} /\ h[A \ {top(A)}] \in Seq(T)
               => h[A] = Spliced(h[A \ {top(A)}], u[top(A)])
      PROVE  \A A \in SUBSET D : OK(h[A], A)
  <2> DEFINE bad == {A \in SUBSET D : ~OK(h[A], A)}
  <2>1. ASSUME bad # {} PROVE FALSE
    <3>0. bad \subseteq SUBSET D
      OBVIOUS
    <3>1. PICK A \in bad : \A B \in bad : ~(B \subseteq A /\ B # A)
      <4> HIDE DEF bad
      <4> QED
        BY <1>3, <2>1, <3>0, MinimalPart
    <3>2. A \in SUBSET D /\ A # {}
      BY <1>5, <1>8, <3>1
    <3>3. A \ {top(A)} \in SUBSET D /\ A \ {top(A)} # A
      BY <1>4, <3>2
    <3>4. OK(h[A \ {top(A)}], A \ {top(A)})
      BY <3>1, <3>3
    <3>5. h[A] = Spliced(h[A \ {top(A)}], u[top(A)])
      BY <1>7, <1>8, <3>2, <3>4
    <3>6. OK(h[A], A)
      BY <1>6, <3>2, <3>4, <3>5
    <3> QED
      BY <3>1, <3>6
  <2> QED
    BY <2>1
<1>9. \E h : Run(h)
  <2> DEFINE f == [q \in D \X Seq(T) |-> Spliced(q[2], u[q[1]])]
             pick == [A \in SUBSET D |-> top(A)]
  <2>1. \A A \in SUBSET D : A # {} => pick[A] \in A
    BY <1>4
  <2>2. \A i \in D, x \in Seq(T) : f[<<i, x>>] = Spliced(x, u[i])
    OBVIOUS
  <2>3. \A A \in SUBSET D : pick[A] = top(A)
    OBVIOUS
  <2> HIDE DEF f, pick
  <2>4. PICK g : DefinedOn(g, SUBSET D, s, f, pick)
    BY <1>3, <2>1, RecursionOnParts
  <2>5. g = [A \in SUBSET D |-> IF A = {} THEN s ELSE f[<<pick[A], g[A \ {pick[A]}]>>]]
    BY <2>4 DEF DefinedOn
  <2>6. \A A \in SUBSET D : g[A] = IF A = {} THEN s ELSE f[<<top(A), g[A \ {top(A)}]>>]
    BY <2>3, <2>5
  <2>7. \A A \in SUBSET D : A # {} => top(A) \in D /\ A \ {top(A)} \in SUBSET D
    BY <1>4
  <2>8. \A A \in SUBSET D : A # {} /\ g[A \ {top(A)}] \in Seq(T)
               => g[A] = Spliced(g[A \ {top(A)}], u[top(A)])
    BY <2>2, <2>6, <2>7
  <2>9. g[{}] = s
    BY <2>6
  <2>10. \A A \in SUBSET D : OK(g[A], A)
    BY <1>8, <2>8, <2>9
  <2>11. \A A \in SUBSET D : A # {} => g[A] = Spliced(g[A \ {top(A)}], u[top(A)])
    BY <1>7, <2>7, <2>8, <2>10
  <2>12. g = [A \in SUBSET D |-> g[A]]
    BY <2>5
  <2>13. Run(g)
    BY <2>9, <2>11, <2>12
  <2> HIDE DEF Run
  <2> QED
    BY <2>13
<1>10. Run(iter)
  <2> HIDE DEF Run
  <2> QED
    BY <1>9
<1> HIDE DEF iter
<1>11. iter[{}] = s /\ \A A \in SUBSET D : A # {} => iter[A] = Spliced(iter[A \ {top(A)}], u[top(A)])
  BY <1>10
<1>12. OK(iter[D], D)
  <2>1. \A A \in SUBSET D : OK(iter[A], A)
    BY <1>8, <1>11
  <2> QED
    BY <2>1
<1> QED
  BY <1>1, <1>12 DEF OK, ToSet

\* What is written back: all transactions of the blocks to be deleted but those of the
\* added ones, if no transaction is in two of the blocks to be deleted.
TxsOf(blocks) == UNION {made[b].txs : b \in blocks}

LEMMA UnpackedBlocks ==
  ASSUME NEW S, IsFiniteSet(S), NEW s \in SetToSeqs(S),
         \A b \in S : made[b].txs \subseteq Txs
  PROVE  /\ Unpacked(s) \in Seq(Txs) /\ ToSet(Unpacked(s)) = TxsOf(S)
         /\ (\A b, c \in S : b # c => made[b].txs \intersect made[c].txs = {})
              => IsInjective(Unpacked(s))
<1> DEFINE q == [i \in DOMAIN s |-> SetToSeq(made[s[i]].txs)]
<1>1. s \in Seq(S) /\ ToSet(s) = S /\ IsInjective(s)
  BY SetInOrder
<1>2. Len(s) \in Nat /\ DOMAIN s = 1 .. Len(s) /\ \A i \in DOMAIN s : s[i] \in S
  BY <1>1
<1>3. ASSUME NEW i \in DOMAIN s
      PROVE  /\ q[i] \in Seq(Txs) /\ ToSet(q[i]) = made[s[i]].txs /\ IsInjective(q[i])
  <2>1. made[s[i]].txs \subseteq Txs
    BY <1>2
  <2>2. IsFiniteSet(made[s[i]].txs)
    BY <2>1, ConstantsOK, FS_Subset
  <2>3. SetToSeq(made[s[i]].txs) \in Seq(made[s[i]].txs)
    BY <2>2, SetAsSequence
  <2>4. SetToSeq(made[s[i]].txs) \in Seq(Txs)
    BY <2>1, <2>3
  <2> QED
    BY <2>2, <2>4, SetAsSequence
<1>4. q \in Seq(Seq(Txs)) /\ DOMAIN q = DOMAIN s
  BY <1>2, <1>3
<1>5. Unpacked(s) = FlattenSeq(q)
  BY DEF Unpacked
<1> HIDE DEF q
<1>6. UNION {ToSet(q[i]) : i \in DOMAIN q} = TxsOf(S)
  <2>1. \A b \in S : \E i \in DOMAIN s : s[i] = b
    BY <1>1 DEF ToSet
  <2> QED
    BY <1>2, <1>3, <1>4, <2>1 DEF TxsOf
<1>7. (\A b, c \in S : b # c => made[b].txs \intersect made[c].txs = {}) => Apart(q)
  <2>1. \A i \in DOMAIN q : IsInjective(q[i])
    BY <1>3, <1>4
  <2>2. \A i, j \in DOMAIN s : i # j => s[i] # s[j]
    BY <1>1 DEF IsInjective
  <2> QED
    BY <1>2, <1>3, <1>4, <2>1, <2>2, SMTT(30) DEF Apart
<1> QED
  BY <1>4, <1>5, <1>6, <1>7, Flattened

LEMMA WrittenBackTxs ==
  ASSUME NEW A, IsFiniteSet(A), NEW D, IsFiniteSet(D),
         \A b \in A \union D : made[b].txs \subseteq Txs,
         NEW add \in SetToSeqs(A), NEW del \in SetToSeqs(D)
  PROVE  /\ ToSet(WrittenBack(del, add)) \subseteq Txs
         /\ (\A b, c \in D : b # c => made[b].txs \intersect made[c].txs = {})
              => TxsOf(D) \subseteq ToSet(WrittenBack(del, add)) \union TxsOf(A)
<1>1. Unpacked(add) \in Seq(Txs) /\ ToSet(Unpacked(add)) = TxsOf(A)
  BY UnpackedBlocks
<1>2. /\ Unpacked(del) \in Seq(Txs) /\ ToSet(Unpacked(del)) = TxsOf(D)
      /\ (\A b, c \in D : b # c => made[b].txs \intersect made[c].txs = {})
           => IsInjective(Unpacked(del))
  BY UnpackedBlocks
<1>3. WrittenBack(del, add) = FoldLeft(Spliced, Unpacked(del), Unpacked(add))
  BY DEF WrittenBack
<1>4. WrittenBack(del, add) \in Seq(Txs)
  BY <1>1, <1>2, <1>3, FoldedOut
<1>5. ToSet(WrittenBack(del, add)) \subseteq Txs
  BY <1>4 DEF ToSet
<1> QED
  BY <1>1, <1>2, <1>3, <1>5, FoldedOut

(***************************************************************************)
(* The inductive invariant.                                                *)
(***************************************************************************)
\* The blocks are numbered in the order they are made.
MadeOK ==
  /\ \E k \in 1 .. MaxBlocks + 1 : DOMAIN made = 1 .. k
  /\ forged \in [Nodes -> SUBSET Blocks]

\* The list that has been sent is of blocks that are still there.  The answer says which of
\* them are to be deleted, and others that are to be added; these are there when the
\* transactions are compared.
Fits(n, o) ==
  /\ o.list \subseteq chain[n]
  /\ o.del \subseteq o.list
  /\ o.add \subseteq DOMAIN made /\ o.add \intersect o.list = {}
  /\ o.stage \in {"push", "delete"} => o.add \subseteq chain[n]
ListOK == \A n \in Nodes : Fits(n, scan[n])

\* When the blocks are deleted, their transactions are elsewhere on the node.
PushedBack ==
  \A n \in Nodes : scan[n].stage = "delete" /\ ~Repeated(n) =>
    TxsOf(scan[n].del) \subseteq pool[n] \union TxsOf(chain[n] \ scan[n].del)

IInv == TypeOK /\ MadeOK /\ ListOK /\ PushedBack

-----------------------------------------------------------------------------
(* What the operators return *)

LEMMA BlocksAre ==
  /\ MaxBlocks \in Nat /\ Blocks \subseteq 0 .. MaxBlocks + 1 /\ Genesis \in Blocks
  /\ IsFiniteSet(Blocks) /\ IsFiniteSet(Txs) /\ MaxScans \in Nat /\ MaxFaults \in Nat
BY ConstantsOK, FS_Interval DEF Blocks, Genesis

LEMMA LastIsThere ==
  ASSUME TypeOK, NEW n \in Nodes, chain[n] # {}
  PROVE  LastOf(n) \in chain[n] /\ LastOf(n) \in DOMAIN made /\ LastOf(n) \in Blocks
<1>1. chain[n] \subseteq DOMAIN made /\ chain[n] \subseteq Blocks
  BY DEF TypeOK
<1>2. MaxBlocks + 1 \in Nat /\ chain[n] \in SUBSET (0 .. (MaxBlocks + 1))
  <2>1. MaxBlocks + 1 \in Nat
    BY BlocksAre
  <2>2. chain[n] \subseteq 0 .. (MaxBlocks + 1)
    BY <1>1, BlocksAre
  <2> QED
    BY <2>1, <2>2
<1>3. \E b \in chain[n] : \A c \in chain[n] : c <= b
  BY <1>2, Greatest
<1>4. LastOf(n) \in chain[n]
  BY <1>3 DEF LastOf
<1> QED
  BY <1>1, <1>4

LEMMA NoScanFits ==
  ASSUME NEW n \in Nodes
  PROVE  /\ NoScan(n) \in Scan /\ Fits(n, NoScan(n)) /\ NoScan(n).stage = "idle"
         /\ NoScan(n).list = {} /\ NoScan(n).del = {} /\ NoScan(n).add = {}
BY BlocksAre DEF NoScan, Scan, Fits

LEMMA SameFits ==
  ASSUME ListOK, NEW n \in Nodes, NEW o, o.list = scan[n].list, o.add = scan[n].add,
         o.del = scan[n].del, o.stage \notin {"push", "delete"}
  PROVE  Fits(n, o)
BY DEF ListOK, Fits

\* The steps of a scan that only it sees: the diagnosis and the question for the difference
Inside(n, m) ==
  \/ BeginScan(n) \/ GetDigest(n, m) \/ LoseRpc(n) \/ EndOfScan(n) \/ OverflowStack(n)
  \/ ChooseDonor(n) \/ ExamineDifference(n)

LEMMA InsideStep ==
  ASSUME TypeOK, ListOK, NEW n \in Nodes, NEW m \in Nodes, Inside(n, m)
  PROVE  /\ UNCHANGED <<made, chain, forged, pool>>
         /\ scans' \in 0 .. MaxScans /\ faults' \in 0 .. MaxFaults
         /\ \E o \in Scan : /\ scan' = [scan EXCEPT ![n] = o]
                            /\ Fits(n, o) /\ o.stage \notin {"push", "delete"}
<1>0. scan[n] \in Scan /\ \A q \in Nodes : chain[q] \subseteq Blocks
  BY DEF TypeOK
<1>1. UNCHANGED <<made, chain, forged, pool>>
  BY DEF Inside, BeginScan, GetDigest, LoseRpc, EndOfScan, OverflowStack, ChooseDonor,
         ExamineDifference
<1>2. scans' \in 0 .. MaxScans /\ faults' \in 0 .. MaxFaults
  <2>1. CASE BeginScan(n)
    BY <2>1, BlocksAre DEF BeginScan, TypeOK
  <2>2. CASE LoseRpc(n)
    BY <2>2, BlocksAre DEF LoseRpc, TypeOK
  <2>3. CASE GetDigest(n, m) \/ EndOfScan(n) \/ OverflowStack(n) \/ ChooseDonor(n)
             \/ ExamineDifference(n)
    BY <2>3 DEF GetDigest, EndOfScan, OverflowStack, ChooseDonor, ExamineDifference, TypeOK
  <2> QED
    BY <2>1, <2>2, <2>3 DEF Inside
<1> DEFINE Goal == \E o \in Scan : /\ scan' = [scan EXCEPT ![n] = o]
                                   /\ Fits(n, o) /\ o.stage \notin {"push", "delete"}
<1>3. ASSUME NEW o \in Scan, scan' = [scan EXCEPT ![n] = o], Fits(n, o),
             o.stage \notin {"push", "delete"}
      PROVE  Goal
  BY <1>3
<1> HIDE DEF Goal
<1>4. ASSUME BeginScan(n)
      PROVE  Goal
  <2> DEFINE d == IF Healthy(n) THEN {[node |-> n, last |-> LastOf(n)]} ELSE {}
             h == Healthy(n)
             b == chain[n] # {} /\ Report(n).bad # {}
             o == [NoScan(n) EXCEPT !.stage = "digest", !.healthy = h, !.broken = b,
                     !.left = Others(n), !.digests = d]
  <2>1. scan' = [scan EXCEPT ![n] = o]
    BY <1>4 DEF BeginScan
  <2>2. h \in BOOLEAN /\ b \in BOOLEAN
    BY DEF Healthy
  <2>3. d \in SUBSET [node : Nodes, last : Blocks]
    <3>1. Healthy(n) => LastOf(n) \in Blocks
      BY LastIsThere DEF Healthy
    <3> QED
      BY <3>1
  <2>4. Others(n) \subseteq Nodes
    BY DEF Others
  <2> HIDE DEF d, h, b
  <2>5. /\ o \in Scan /\ o.stage = "digest" /\ o.list = {} /\ o.del = {} /\ o.add = {}
    BY <2>2, <2>3, <2>4, BlocksAre DEF NoScan, Scan
  <2> HIDE DEF o
  <2>6. Fits(n, o)
    BY <2>5 DEF Fits
  <2> QED
    BY <1>3, <2>1, <2>5, <2>6
<1>5. ASSUME GetDigest(n, m)
      PROVE  Goal
  <2> DEFINE d == IF Healthy(m) THEN scan[n].digests \union {[node |-> m, last |-> LastOf(m)]}
                  ELSE scan[n].digests
             g == IF scan[n].left = {m} THEN "decide" ELSE "digest"
             l == scan[n].left \ {m}
             o == [scan[n] EXCEPT !.left = l, !.digests = d, !.stage = g]
  <2>1. scan' = [scan EXCEPT ![n] = o]
    BY <1>0, <1>5 DEF GetDigest, TypeOK, Scan
  <2>2. d \in SUBSET [node : Nodes, last : Blocks]
    <3>1. Healthy(m) => LastOf(m) \in Blocks
      BY LastIsThere DEF Healthy
    <3>2. scan[n].digests \in SUBSET [node : Nodes, last : Blocks]
      BY <1>0 DEF Scan
    <3> QED
      BY <3>1, <3>2
  <2>3. l \in SUBSET Nodes /\ g \in {"decide", "digest"}
    BY <1>0 DEF Scan
  <2> HIDE DEF d, g, l
  <2>4. /\ o \in Scan /\ o.stage \notin {"push", "delete"}
        /\ o.list = scan[n].list /\ o.add = scan[n].add /\ o.del = scan[n].del
    BY <1>0, <2>2, <2>3 DEF Scan
  <2> HIDE DEF o
  <2> QED
    BY <1>3, <2>1, <2>4, SameFits
<1>6. ASSUME LoseRpc(n) \/ OverflowStack(n)
      PROVE  Goal
  <2> DEFINE o == [scan[n] EXCEPT !.stage = "threw"]
  <2>1. scan' = [scan EXCEPT ![n] = o]
    BY <1>6 DEF LoseRpc, OverflowStack, TypeOK
  <2>2. /\ o \in Scan /\ o.stage \notin {"push", "delete"}
        /\ o.list = scan[n].list /\ o.add = scan[n].add /\ o.del = scan[n].del
    BY <1>0 DEF Scan
  <2> HIDE DEF o
  <2> QED
    BY <1>3, <2>1, <2>2, SameFits
<1>7. ASSUME EndOfScan(n)
      PROVE  Goal
  <2>1. scan' = [scan EXCEPT ![n] = NoScan(n)]
    BY <1>7 DEF EndOfScan, Released
  <2> QED
    BY <1>3, <2>1, NoScanFits
<1>8. ASSUME ChooseDonor(n)
      PROVE  Goal
  <2>1. PICK b \in Leading(n), q \in Nodes :
          \/ scan' = [scan EXCEPT ![n] = Asking(n, b, q)]
          \/ scan' = [scan EXCEPT ![n] = [Asking(n, b, n) EXCEPT !.stage = "add"]]
    BY <1>8 DEF ChooseDonor, Others
  <2>2. b \in Blocks
    BY DEF Leading
  <2>3. \A w \in Nodes :
          /\ Asking(n, b, w) \in Scan /\ Asking(n, b, w).stage = "ask"
          /\ Asking(n, b, w).list = chain[n] /\ Asking(n, b, w).del = {}
          /\ Asking(n, b, w).add = {}
    BY <1>0, <2>2, NoScanFits, ZenonT(60) DEF Asking, Scan
  <2>4. CASE scan' = [scan EXCEPT ![n] = Asking(n, b, q)]
    <3>1. Fits(n, Asking(n, b, q))
      BY <2>3 DEF Fits
    <3> QED
      BY <1>3, <2>3, <2>4, <3>1
  <2>5. CASE scan' = [scan EXCEPT ![n] = [Asking(n, b, n) EXCEPT !.stage = "add"]]
    <3> DEFINE o == [Asking(n, b, n) EXCEPT !.stage = "add"]
    <3>1. /\ o \in Scan /\ o.stage = "add" /\ o.list = chain[n] /\ o.del = {} /\ o.add = {}
      BY <2>3 DEF Scan
    <3> HIDE DEF o
    <3>2. Fits(n, o)
      BY <3>1 DEF Fits
    <3>3. scan' = [scan EXCEPT ![n] = o]
      BY <2>5 DEF o
    <3> QED
      BY <1>3, <3>1, <3>2, <3>3
  <2> QED
    BY <2>1, <2>4, <2>5
<1>9. ASSUME ExamineDifference(n)
      PROVE  Goal
  <2> DEFINE w == scan[n].donor
             l == scan[n].list
             a == Lacking(w, l)
             f == Lacking(w, l) \cap forged[w]
             d == Surplus(w, l)
             o == [scan[n] EXCEPT !.stage = "add", !.add = a, !.bad = f, !.del = d]
  <2>1. scan' = [scan EXCEPT ![n] = o]
    BY <1>0, <1>9 DEF ExamineDifference, TypeOK, Scan
  <2>2. w \in Nodes /\ l \in SUBSET Blocks
    BY <1>0 DEF Scan
  <2>3. a \subseteq chain[w] /\ a \subseteq DOMAIN made /\ a \intersect l = {}
    BY <2>2 DEF Lacking, SameString, InDatabase, InMessage, TypeOK
  <2>4. d \subseteq l
    BY DEF Surplus
  <2>5. a \subseteq Blocks /\ f \subseteq Blocks /\ d \subseteq Blocks
    BY <1>0, <2>2, <2>3, <2>4
  <2> HIDE DEF a, f, d
  <2>6. /\ o \in Scan /\ o.stage = "add" /\ o.list = l /\ o.add = a /\ o.del = d
    BY <1>0, <2>5 DEF Scan
  <2> HIDE DEF o
  <2>7. Fits(n, o)
    BY <2>3, <2>4, <2>6 DEF Fits, ListOK
  <2> QED
    BY <1>3, <2>1, <2>6, <2>7
<1> QED
  BY <1>1, <1>2, <1>4, <1>5, <1>6, <1>7, <1>8, <1>9 DEF Inside, Goal

LEMMA InitIInv == Init => IInv
<1> SUFFICES ASSUME Init PROVE IInv
  OBVIOUS
<1> USE DEF Init
<1>1. /\ DOMAIN made = {Genesis} /\ {Genesis} = 1 .. 1 /\ 1 \in 1 .. MaxBlocks + 1
      /\ made[Genesis].txs = {} /\ made[Genesis].prev = NoBlock
      /\ made[Genesis].height = 0 /\ made[Genesis].time = 0
  BY BlocksAre DEF Genesis, GenesisBlock
<1>2. scan \in [Nodes -> Scan] /\ \A n \in Nodes : scan[n] = NoScan(n)
  BY NoScanFits
<1>3. TypeOK
  <2>1. chain \in [Nodes -> SUBSET DOMAIN made] /\ pool \in [Nodes -> SUBSET Txs]
        /\ \A n \in Nodes : forged[n] \subseteq chain[n]
    BY <1>1
  <2>2. scans \in 0 .. MaxScans /\ faults \in 0 .. MaxFaults
    BY BlocksAre
  <2> HIDE DEF Init
  <2> QED
    BY <1>1, <1>2, <2>1, <2>2, BlocksAre DEF TypeOK
<1>4. MadeOK
  BY <1>1 DEF MadeOK
<1>5. ListOK /\ PushedBack
  BY <1>2, NoScanFits DEF ListOK, PushedBack
<1> QED
  BY <1>3, <1>4, <1>5 DEF IInv

\* A block is made, with the next number.
LEMMA MakeStep ==
  ASSUME TypeOK, MadeOK, NEW n \in Nodes, NEW txs \in SUBSET Txs,
         \E late \in BOOLEAN : Make(n, txs, late)
  PROVE  \E b \in Blocks :
           /\ b \notin DOMAIN made
           /\ DOMAIN made' = DOMAIN made \union {b} /\ DOMAIN made' = 1 .. b
           /\ \A c \in DOMAIN made : made'[c] = made[c]
           /\ made'[b].prev \in DOMAIN made /\ made'[b].txs = txs
           /\ made'[b].height \in Nat /\ made'[b].time \in Nat
           /\ chain' = [chain EXCEPT ![n] = chain[n] \union {b}]
           /\ pool' = [pool EXCEPT ![n] = pool[n] \ txs]
<1> DEFINE b == Cardinality(DOMAIN made) + 1
           p == LastOf(n)
<1>0. PICK late \in BOOLEAN : Make(n, txs, late)
  OBVIOUS
<1>1. PICK k \in 1 .. MaxBlocks + 1 : DOMAIN made = 1 .. k
  BY DEF MadeOK
<1>2. b = k + 1 /\ k \in Nat
  BY <1>1, BlocksAre, FS_Interval
<1>3. /\ b \in Blocks /\ chain[n] # {} /\ (late => made[p].time > 1)
      /\ made' = [c \in DOMAIN made \union {b} |->
                    IF c \in DOMAIN made THEN made[c]
                    ELSE [prev |-> p, txs |-> txs, height |-> HeightAfter(p),
                          time |-> IF late THEN made[p].time - 1 ELSE 2 * b]]
      /\ chain' = [chain EXCEPT ![n] = chain[n] \union {b}]
      /\ pool' = [pool EXCEPT ![n] = pool[n] \ txs]
  BY <1>0 DEF Make
<1>4. p \in DOMAIN made
  BY <1>3, LastIsThere
<1>5. HeightAfter(p) \in Nat /\ made[p].time \in Nat
  BY <1>4 DEF HeightAfter, TypeOK
<1> HIDE DEF b, p
<1>6. b \notin DOMAIN made /\ DOMAIN made \union {b} = 1 .. b
  BY <1>1, <1>2
<1>7. DOMAIN made' = DOMAIN made \union {b} /\ \A c \in DOMAIN made : made'[c] = made[c]
  BY <1>3
<1>8. made'[b] = [prev |-> p, txs |-> txs, height |-> HeightAfter(p),
                  time |-> IF late THEN made[p].time - 1 ELSE 2 * b]
  BY <1>3, <1>6
<1>9. b \in Nat
  BY <1>2
<1>10. (IF late THEN made[p].time - 1 ELSE 2 * b) \in Nat
  BY <1>3, <1>5, <1>9
<1> QED
  BY <1>3, <1>4, <1>5, <1>6, <1>7, <1>8, <1>10

\* The chain of n grows: the rest of the invariant keeps.
LEMMA Grown ==
  ASSUME IInv, NEW n \in Nodes, NEW new, chain' = [chain EXCEPT ![n] = chain[n] \union new],
         new \intersect chain[n] = {}, scan' = scan,
         DOMAIN made \subseteq DOMAIN made', \A b \in DOMAIN made : made'[b] = made[b],
         pool[n] \subseteq pool'[n] \union UNION {made'[b].txs : b \in new},
         \A q \in Nodes : q # n => pool'[q] = pool[q]
  PROVE  ListOK' /\ PushedBack'
<1> USE DEF IInv
<1>1. \A q \in Nodes : chain[q] \subseteq DOMAIN made
  BY DEF TypeOK
<1>2. /\ chain'[n] = chain[n] \union new
      /\ \A q \in Nodes : q # n => chain'[q] = chain[q]
  BY DEF TypeOK
<1>3. ListOK'
  BY <1>2 DEF ListOK, Fits
<1>4. ASSUME NEW q \in Nodes, scan[q].stage = "delete", ~Repeated(q)'
      PROVE  TxsOf(scan[q].del)' \subseteq (pool[q] \union TxsOf(chain[q] \ scan[q].del))'
  <2>1. ~Repeated(q)
    BY <1>1, <1>2, <1>4 DEF Repeated
  <2>2. TxsOf(scan[q].del) \subseteq pool[q] \union TxsOf(chain[q] \ scan[q].del)
    BY <1>4, <2>1 DEF PushedBack
  <2>3. scan[q].del \subseteq chain[q]
    BY DEF ListOK, Fits
  <2>4. TxsOf(scan[q].del)' = TxsOf(scan[q].del)
    BY <1>1, <2>3 DEF TxsOf
  <2>5. TxsOf(chain[q] \ scan[q].del) \subseteq TxsOf(chain[q] \ scan[q].del)'
    BY <1>1, <1>2 DEF TxsOf
  <2>6. CASE q = n
    <3>1. UNION {made'[b].txs : b \in new} \subseteq TxsOf(chain[q] \ scan[q].del)'
      BY <1>2, <2>3, <2>6 DEF TxsOf
    <3> QED
      BY <2>2, <2>4, <2>5, <2>6, <3>1, ZenonT(30)
  <2>7. CASE q # n
    BY <2>2, <2>4, <2>5, <2>7
  <2> QED
    BY <2>6, <2>7
<1>5. PushedBack'
  BY <1>4 DEF PushedBack
<1> QED
  BY <1>3, <1>5

\* A step of the scan of n that leaves the chain: the others' lists still fit, and n's
\* deletion is not at hand.
LEMMA ScanGoesOn ==
  ASSUME IInv, NEW n \in Nodes, NEW o \in Scan, scan' = [scan EXCEPT ![n] = o],
         made' = made, \A q \in Nodes : q # n => chain'[q] = chain[q] /\ pool'[q] = pool[q],
         Fits(n, o)', o.stage = "delete" /\ ~Repeated(n)' =>
           TxsOf(o.del)' \subseteq (pool[n] \union TxsOf(chain[n] \ o.del))'
  PROVE  ListOK' /\ PushedBack'
<1>1. scan'[n] = o /\ \A q \in Nodes : q # n => scan'[q] = scan[q]
  BY DEF IInv, TypeOK
<1>2. ListOK'
  BY <1>1 DEF IInv, ListOK, Fits
<1>3. ASSUME NEW q \in Nodes, scan'[q].stage = "delete", ~Repeated(q)'
      PROVE  TxsOf(scan[q].del)' \subseteq (pool[q] \union TxsOf(chain[q] \ scan[q].del))'
  <2>1. CASE q = n
    BY <1>1, <1>3, <2>1
  <2>2. CASE q # n
    <3>1. scan'[q] = scan[q] /\ chain'[q] = chain[q] /\ pool'[q] = pool[q]
      BY <1>1, <2>2
    <3>2. ~Repeated(q)
      BY <1>3, <3>1 DEF Repeated
    <3> QED
      BY <1>3, <3>1, <3>2 DEF IInv, PushedBack, TxsOf
  <2> QED
    BY <2>1, <2>2
<1>4. PushedBack'
  BY <1>3 DEF PushedBack
<1> QED
  BY <1>2, <1>4

LEMMA Inductive == IInv /\ [Next]_vars => IInv'
<1> SUFFICES ASSUME IInv, [Next]_vars PROVE IInv'
  OBVIOUS
<1> USE DEF IInv
<1>0. /\ \A n \in Nodes : /\ scan[n] \in Scan /\ Fits(n, scan[n])
                          /\ chain[n] \subseteq DOMAIN made /\ chain[n] \subseteq Blocks
      /\ \A b \in DOMAIN made : made[b].txs \subseteq Txs
  BY DEF TypeOK, ListOK
<1>1. ASSUME NEW n \in Nodes, NEW txs \in SUBSET Txs, NEW late \in BOOLEAN, Make(n, txs, late)
      PROVE  IInv'
  <2>1. PICK b \in Blocks :
           /\ b \notin DOMAIN made
           /\ DOMAIN made' = DOMAIN made \union {b} /\ DOMAIN made' = 1 .. b
           /\ \A c \in DOMAIN made : made'[c] = made[c]
           /\ made'[b].prev \in DOMAIN made /\ made'[b].txs = txs
           /\ made'[b].height \in Nat /\ made'[b].time \in Nat
           /\ chain' = [chain EXCEPT ![n] = chain[n] \union {b}]
           /\ pool' = [pool EXCEPT ![n] = pool[n] \ txs]
    <3>1. TypeOK /\ MadeOK /\ \E l \in BOOLEAN : Make(n, txs, l)
      BY <1>1
    <3> HIDE DEF IInv
    <3> QED
      BY <3>1, MakeStep
  <2>2. UNCHANGED <<forged, scan, scans, faults>>
    BY <1>1 DEF Make
  <2>3. /\ DOMAIN made' \subseteq Blocks
        /\ \A c \in DOMAIN made' :
             /\ made'[c].prev \in DOMAIN made' \union {NoBlock}
             /\ made'[c].txs \subseteq Txs
             /\ made'[c].height \in Nat /\ made'[c].time \in Nat
    BY <2>1 DEF TypeOK
  <2>4. /\ chain' \in [Nodes -> SUBSET DOMAIN made'] /\ pool' \in [Nodes -> SUBSET Txs]
        /\ \A q \in Nodes : forged[q] \subseteq chain'[q]
    BY <2>1 DEF TypeOK
  <2>5. TypeOK'
    BY <2>2, <2>3, <2>4 DEF TypeOK
  <2>6. MadeOK'
    BY <2>1, <2>2 DEF MadeOK, Blocks
  <2>7. ListOK' /\ PushedBack'
    <3>1. {b} \intersect chain[n] = {} /\ DOMAIN made \subseteq DOMAIN made'
      BY <1>0, <2>1
    <3>2. /\ pool[n] \subseteq pool'[n] \union UNION {made'[c].txs : c \in {b}}
          /\ \A q \in Nodes : q # n => pool'[q] = pool[q]
      BY <2>1 DEF TypeOK
    <3> QED
      BY <2>1, <2>2, <3>1, <3>2, Grown
  <2> QED
    BY <2>5, <2>6, <2>7
<1>2. ASSUME NEW n \in Nodes, NEW b \in DOMAIN made, Store(n, b)
      PROVE  IInv'
  <2>1. /\ b \notin chain[n] /\ UNCHANGED <<made, forged, scan, scans, faults>>
        /\ chain' = [chain EXCEPT ![n] = chain[n] \union {b}]
        /\ pool' = [pool EXCEPT ![n] = pool[n] \ made[b].txs]
    BY <1>2 DEF Store
  <2>2. TypeOK'
    BY <2>1 DEF TypeOK
  <2>3. MadeOK'
    BY <2>1 DEF MadeOK
  <2>4. ListOK' /\ PushedBack'
    <3>1. {b} \intersect chain[n] = {} /\ scan' = scan
      BY <2>1
    <3>2. /\ pool[n] \subseteq pool'[n] \union UNION {made'[c].txs : c \in {b}}
          /\ \A q \in Nodes : q # n => pool'[q] = pool[q]
      BY <2>1 DEF TypeOK
    <3> QED
      BY <2>1, <3>1, <3>2, Grown
  <2> QED
    BY <2>2, <2>3, <2>4
<1>3. ASSUME UNCHANGED <<made, chain, pool, scan, scans>>, TypeOK', MadeOK'
      PROVE  IInv'
  BY <1>3 DEF ListOK, Fits, PushedBack, Repeated, TxsOf
<1>4. ASSUME NEW n \in Nodes, NEW b \in DOMAIN made, Falsify(n, b)
      PROVE  IInv'
  <2>1. /\ UNCHANGED <<made, chain, pool, scan, scans>> /\ b \in chain[n]
        /\ forged' = [forged EXCEPT ![n] = forged[n] \union {b}]
        /\ faults' = faults + 1 /\ faults < MaxFaults
    BY <1>4 DEF Falsify
  <2>2. faults' \in 0 .. MaxFaults
    BY <2>1, BlocksAre DEF TypeOK
  <2>3. forged' \in [Nodes -> SUBSET Blocks] /\ \A q \in Nodes : forged'[q] \subseteq chain[q]
    BY <1>0, <2>1 DEF TypeOK, MadeOK
  <2>4. TypeOK'
    BY <2>1, <2>2, <2>3 DEF TypeOK
  <2>5. MadeOK'
    BY <2>1, <2>3 DEF MadeOK
  <2> QED
    BY <1>3, <2>1, <2>4, <2>5
<1>5. ASSUME NEW n \in Nodes, NEW m \in Nodes, Inside(n, m)
      PROVE  IInv'
  <2>1. PICK o \in Scan : /\ scan' = [scan EXCEPT ![n] = o]
                          /\ Fits(n, o) /\ o.stage \notin {"push", "delete"}
    BY <1>5, InsideStep
  <2>2. /\ UNCHANGED <<made, chain, forged, pool>>
        /\ scans' \in 0 .. MaxScans /\ faults' \in 0 .. MaxFaults
    BY <1>5, InsideStep
  <2>3. TypeOK' /\ MadeOK'
    BY <2>1, <2>2 DEF TypeOK, MadeOK
  <2>4. Fits(n, o)'
    BY <2>1, <2>2 DEF Fits
  <2>5. ListOK' /\ PushedBack'
    BY <2>1, <2>2, <2>4, ScanGoesOn
  <2> QED
    BY <2>3, <2>5
<1>6. ASSUME NEW n \in Nodes, AddLacking(n)
      PROVE  IInv'
  <2> DEFINE new == scan[n].add \ chain[n]
             left == IF new = scan[n].add THEN [scan[n] EXCEPT !.stage = "push"] ELSE NoScan(n)
  <2>1. /\ UNCHANGED <<made, pool, scans, faults>>
        /\ chain' = [chain EXCEPT ![n] = chain[n] \union new]
        /\ forged' = [forged EXCEPT ![n] = forged[n] \union (new \cap scan[n].bad)]
        /\ scan' = [scan EXCEPT ![n] = left]
    BY <1>6 DEF AddLacking, Released, TypeOK
  <2>2. PICK o : o = left
    OBVIOUS
  <2>3. /\ o \in Scan /\ o.stage # "delete" /\ o.list \subseteq scan[n].list
        /\ o.add \subseteq scan[n].add /\ o.del \subseteq o.list
        /\ o.add \intersect o.list = {}
    <3>1. CASE o = NoScan(n)
      <4> HIDE DEF left
      <4> QED
        BY <3>1, NoScanFits
    <3>2. CASE o = [scan[n] EXCEPT !.stage = "push"]
      <4> HIDE DEF left
      <4>1. /\ o \in Scan /\ o.stage = "push" /\ o.list = scan[n].list
            /\ o.add = scan[n].add /\ o.del = scan[n].del
        BY <1>0, <3>2 DEF Scan
      <4> QED
        BY <1>0, <4>1 DEF Fits
    <3> QED
      BY <2>2, <3>1, <3>2
  <2>4. chain'[n] = chain[n] \union scan[n].add /\ \A q \in Nodes : q # n => chain'[q] = chain[q]
    BY <2>1 DEF TypeOK
  <2>5. /\ scan' = [scan EXCEPT ![n] = o] /\ made' = made
        /\ \A q \in Nodes : q # n => chain'[q] = chain[q] /\ pool'[q] = pool[q]
    BY <2>1, <2>2, <2>4
  <2> HIDE DEF left
  <2>6. Fits(n, o)'
    <3>1. scan[n].list \subseteq chain[n] /\ scan[n].add \subseteq DOMAIN made
      BY <1>0 DEF Fits
    <3> HIDE DEF IInv, new
    <3> QED
      BY <2>3, <2>4, <2>5, <3>1 DEF Fits
  <2>7. new \subseteq DOMAIN made /\ new \subseteq Blocks
    BY <1>0 DEF Fits, TypeOK
  <2> HIDE DEF new
  <2>8. TypeOK' /\ MadeOK'
    <3>1. /\ chain' \in [Nodes -> SUBSET DOMAIN made] /\ scan' \in [Nodes -> Scan]
          /\ forged' \in [Nodes -> SUBSET Blocks] /\ \A q \in Nodes : forged'[q] \subseteq chain'[q]
      BY <2>1, <2>3, <2>5, <2>7 DEF TypeOK, MadeOK
    <3> QED
      BY <2>1, <3>1 DEF TypeOK, MadeOK
  <2>9. ListOK' /\ PushedBack'
    <3>1. IInv
      OBVIOUS
    <3> HIDE DEF IInv
    <3> QED
      BY <2>3, <2>5, <2>6, <3>1, ScanGoesOn
  <2> QED
    BY <2>8, <2>9
<1>7. ASSUME NEW n \in Nodes, PushBack(n)
      PROVE  IInv'
  <2> DEFINE A == scan[n].add
             D == scan[n].del \cap chain[n]
  <2>1. PICK back \in Backs(n) :
          /\ pool' = [pool EXCEPT ![n] = pool[n] \union ToSet(back)]
          /\ \/ scan' = [scan EXCEPT ![n] = [scan[n] EXCEPT !.stage = "delete"]]
             \/ scan' = [scan EXCEPT ![n] = NoScan(n)]
    BY <1>7 DEF PushBack, Released, TypeOK
  <2>2. scan[n].stage = "push" /\ UNCHANGED <<made, chain, forged, scans, faults>>
    BY <1>7 DEF PushBack
  <2>3. PICK del \in SetToSeqs(D), add \in SetToSeqs(A) : back = WrittenBack(del, add)
    BY <2>1 DEF Backs
  <2>4. /\ A \subseteq chain[n] /\ A \intersect scan[n].list = {}
        /\ scan[n].del \subseteq scan[n].list /\ D = scan[n].del
    BY <1>0, <2>2 DEF Fits
  <2>5. /\ IsFiniteSet(A) /\ IsFiniteSet(D)
        /\ \A b \in A \union D : made[b].txs \subseteq Txs
    BY <1>0, <2>4, BlocksAre, FS_Subset
  <2>6. ToSet(back) \subseteq Txs
    BY <2>3, <2>5, WrittenBackTxs
  <2>7. ~Repeated(n) => TxsOf(D) \subseteq ToSet(back) \union TxsOf(A)
    <3>1. ~Repeated(n) => \A b, c \in D : b # c => made[b].txs \intersect made[c].txs = {}
      BY DEF Repeated
    <3> HIDE DEF A, D
    <3> QED
      BY <2>3, <2>5, <3>1, WrittenBackTxs
  <2>8. TxsOf(A) \subseteq TxsOf(chain[n] \ scan[n].del)
    BY <2>4 DEF TxsOf
  <2>9. /\ pool' \in [Nodes -> SUBSET Txs] /\ pool'[n] = pool[n] \union ToSet(back)
        /\ \A q \in Nodes : q # n => pool'[q] = pool[q]
    BY <2>1, <2>6 DEF TypeOK
  <2>10. PICK o \in Scan :
           /\ scan' = [scan EXCEPT ![n] = o] /\ Fits(n, o)
           /\ o.stage = "delete" => o.del = scan[n].del
    <3>1. CASE scan' = [scan EXCEPT ![n] = NoScan(n)]
      BY <3>1, NoScanFits
    <3>2. CASE scan' = [scan EXCEPT ![n] = [scan[n] EXCEPT !.stage = "delete"]]
      <4> DEFINE o == [scan[n] EXCEPT !.stage = "delete"]
      <4>1. /\ o \in Scan /\ o.list = scan[n].list /\ o.add = scan[n].add
            /\ o.del = scan[n].del
        BY <1>0 DEF Scan
      <4>2. scan' = [scan EXCEPT ![n] = o]
        BY <3>2
      <4> HIDE DEF o
      <4>3. Fits(n, o)
        BY <1>0, <2>4, <4>1 DEF Fits
      <4> QED
        BY <4>1, <4>2, <4>3
    <3> QED
      BY <2>1, <3>1, <3>2
  <2>11. TypeOK' /\ MadeOK'
    BY <2>2, <2>9, <2>10 DEF TypeOK, MadeOK
  <2>12. Fits(n, o)'
    BY <2>2, <2>10 DEF Fits
  <2>13. o.stage = "delete" /\ ~Repeated(n)' =>
           TxsOf(o.del)' \subseteq (pool[n] \union TxsOf(chain[n] \ o.del))'
    <3> SUFFICES ASSUME o.stage = "delete", ~Repeated(n)'
                 PROVE  TxsOf(o.del)' \subseteq (pool[n] \union TxsOf(chain[n] \ o.del))'
      OBVIOUS
    <3>1. ~Repeated(n) /\ o.del = scan[n].del
      BY <2>2, <2>10 DEF Repeated
    <3>2. TxsOf(scan[n].del) \subseteq pool'[n] \union TxsOf(chain[n] \ scan[n].del)
      BY <2>4, <2>7, <2>8, <2>9, <3>1
    <3> QED
      BY <2>2, <3>1, <3>2 DEF TxsOf
  <2>14. ListOK' /\ PushedBack'
    BY <2>2, <2>9, <2>10, <2>12, <2>13, ScanGoesOn
  <2> QED
    BY <2>11, <2>14
<1>8. ASSUME NEW n \in Nodes, DeleteSurplus(n)
      PROVE  IInv'
  <2>1. /\ UNCHANGED <<made, pool, scans, faults>>
        /\ chain' = [chain EXCEPT ![n] = chain[n] \ scan[n].del]
        /\ forged' = [forged EXCEPT ![n] = forged[n] \ scan[n].del]
        /\ scan' = [scan EXCEPT ![n] = NoScan(n)]
    BY <1>8 DEF DeleteSurplus, Released, Doomed
  <2>2. /\ chain' \in [Nodes -> SUBSET DOMAIN made] /\ scan' \in [Nodes -> Scan]
        /\ forged' \in [Nodes -> SUBSET Blocks] /\ \A q \in Nodes : forged'[q] \subseteq chain'[q]
    BY <2>1, NoScanFits DEF TypeOK, MadeOK
  <2>3. TypeOK' /\ MadeOK'
    BY <2>1, <2>2 DEF TypeOK, MadeOK
  <2>4. Fits(n, NoScan(n))' /\ NoScan(n).stage # "delete" /\ NoScan(n) \in Scan
    BY NoScanFits DEF Fits
  <2>5. \A q \in Nodes : q # n => chain'[q] = chain[q] /\ pool'[q] = pool[q]
    BY <2>1 DEF TypeOK
  <2>6. ListOK' /\ PushedBack'
    BY <2>1, <2>4, <2>5, ScanGoesOn
  <2> QED
    BY <2>3, <2>6
<1>9. CASE UNCHANGED vars
  <2>1. TypeOK' /\ MadeOK' /\ UNCHANGED <<made, chain, pool, scan, scans>>
    BY <1>9 DEF vars, TypeOK, MadeOK
  <2> QED
    BY <1>3, <2>1
<1>10. ASSUME Next PROVE IInv'
  <2>1. PICK n \in Nodes :
          \/ \E txs \in SUBSET Txs, late \in BOOLEAN : Make(n, txs, late)
          \/ \E b \in DOMAIN made : Store(n, b) \/ Falsify(n, b)
          \/ \E m \in Nodes : Inside(n, m)
          \/ AddLacking(n) \/ PushBack(n) \/ DeleteSurplus(n)
    BY <1>10 DEF Next, ScanStep, Inside
  <2> QED
    BY <1>1, <1>2, <1>4, <1>5, <1>6, <1>7, <1>8, <2>1
<1> QED
  BY <1>9, <1>10

-----------------------------------------------------------------------------
(* The theorems *)

\* The inductive invariant holds in every reachable state, whatever is made, stored or
\* falsified while the scans run.
THEOREM Invariance == Spec => []IInv
BY InitIInv, Inductive, PTL DEF Spec

\* The variables keep their types: what a node has on its chain has been made, and what
\* is said to be falsified is on its chain.
THEOREM TypeCorrect == Spec => []TypeOK
<1>1. IInv => TypeOK
  BY DEF IInv
<1> QED
  BY <1>1, Invariance, PTL

\* The steps that take something from a chain, or from a pool
LEMMA OthersKeep ==
  ASSUME IInv, NEW n \in Nodes,
         \/ \E txs \in SUBSET Txs, late \in BOOLEAN : Make(n, txs, late)
         \/ \E b \in DOMAIN made : Store(n, b) \/ Falsify(n, b)
         \/ \E m \in Nodes : Inside(n, m)
         \/ AddLacking(n) \/ PushBack(n)
  PROVE  /\ \A q \in Nodes : chain[q] \subseteq chain'[q]
         /\ \A q \in Nodes : pool[q] \union Recorded(q) \subseteq pool'[q] \union Recorded(q)'
<1> USE DEF IInv
<1>0. \A q \in Nodes : chain[q] \subseteq DOMAIN made
  BY DEF TypeOK
<1>1. ASSUME NEW txs \in SUBSET Txs, NEW late \in BOOLEAN, Make(n, txs, late)
      PROVE  /\ \A q \in Nodes : chain[q] \subseteq chain'[q]
             /\ \A q \in Nodes : pool[q] \union Recorded(q) \subseteq pool'[q] \union Recorded(q)'
  <2>1. PICK b \in Blocks :
           /\ b \notin DOMAIN made
           /\ DOMAIN made' = DOMAIN made \union {b} /\ DOMAIN made' = 1 .. b
           /\ \A c \in DOMAIN made : made'[c] = made[c]
           /\ made'[b].prev \in DOMAIN made /\ made'[b].txs = txs
           /\ made'[b].height \in Nat /\ made'[b].time \in Nat
           /\ chain' = [chain EXCEPT ![n] = chain[n] \union {b}]
           /\ pool' = [pool EXCEPT ![n] = pool[n] \ txs]
    <3>1. TypeOK /\ MadeOK /\ \E l \in BOOLEAN : Make(n, txs, l)
      BY <1>1
    <3> HIDE DEF IInv
    <3> QED
      BY <3>1, MakeStep
  <2>2. /\ \A q \in Nodes : chain[q] \subseteq chain'[q]
        /\ \A q \in Nodes : q # n => pool'[q] = pool[q]
        /\ b \in chain'[n] /\ pool'[n] = pool[n] \ txs
    BY <2>1 DEF TypeOK
  <2>3. \A q \in Nodes : Recorded(q) \subseteq Recorded(q)'
    BY <1>0, <2>1, <2>2 DEF Recorded
  <2>4. txs \subseteq Recorded(n)'
    BY <2>1, <2>2 DEF Recorded
  <2> QED
    BY <2>2, <2>3, <2>4
<1>2. ASSUME NEW b \in DOMAIN made, Store(n, b)
      PROVE  /\ \A q \in Nodes : chain[q] \subseteq chain'[q]
             /\ \A q \in Nodes : pool[q] \union Recorded(q) \subseteq pool'[q] \union Recorded(q)'
  <2>1. /\ \A q \in Nodes : chain[q] \subseteq chain'[q]
        /\ \A q \in Nodes : q # n => pool'[q] = pool[q]
        /\ b \in chain'[n] /\ pool'[n] = pool[n] \ made[b].txs /\ made' = made
    BY <1>2 DEF Store, TypeOK
  <2>2. (\A q \in Nodes : Recorded(q) \subseteq Recorded(q)') /\ made[b].txs \subseteq Recorded(n)'
    BY <2>1 DEF Recorded
  <2> QED
    BY <2>1, <2>2
<1>3. ASSUME (\E b \in DOMAIN made : Falsify(n, b)) \/ (\E m \in Nodes : Inside(n, m))
             \/ AddLacking(n) \/ PushBack(n)
      PROVE  /\ \A q \in Nodes : chain[q] \subseteq chain'[q]
             /\ \A q \in Nodes : pool[q] \union Recorded(q) \subseteq pool'[q] \union Recorded(q)'
  <2>1. /\ made' = made /\ \A q \in Nodes : chain[q] \subseteq chain'[q]
        /\ \A q \in Nodes : pool[q] \subseteq pool'[q]
    <3>1. CASE (\E b \in DOMAIN made : Falsify(n, b)) \/ (\E m \in Nodes : Inside(n, m))
      BY <3>1, InsideStep DEF Falsify
    <3>2. CASE AddLacking(n)
      BY <3>2 DEF AddLacking, TypeOK
    <3>3. CASE PushBack(n)
      BY <3>3 DEF PushBack, TypeOK
    <3> QED
      BY <1>3, <3>1, <3>2, <3>3
  <2> QED
    BY <2>1 DEF Recorded
<1> QED
  BY <1>1, <1>2, <1>3

LEMMA NextIs ==
  ASSUME Next
  PROVE  \E n \in Nodes :
           \/ \E txs \in SUBSET Txs, late \in BOOLEAN : Make(n, txs, late)
           \/ \E b \in DOMAIN made : Store(n, b) \/ Falsify(n, b)
           \/ \E m \in Nodes : Inside(n, m)
           \/ AddLacking(n) \/ PushBack(n)
           \/ DeleteSurplus(n)
BY DEF Next, ScanStep, Inside

\* A block that comes to a chain after the scan has sent its list is not deleted by the
\* scan, whatever is made, stored or falsified in between.
THEOREM LaterOnesStay == Spec => LaterBlocksStay
<1>1. ASSUME IInv, Next, NEW q \in Nodes
      PROVE  chain[q] \ chain'[q] \subseteq scan[q].list
  <2>1. ASSUME NEW n \in Nodes, DeleteSurplus(n)
        PROVE  chain[q] \ chain'[q] \subseteq scan[q].list
    BY <1>1, <2>1 DEF DeleteSurplus, Doomed, IInv, TypeOK, ListOK, Fits
  <2>2. PICK n \in Nodes :
           \/ \E txs \in SUBSET Txs, late \in BOOLEAN : Make(n, txs, late)
           \/ \E b \in DOMAIN made : Store(n, b) \/ Falsify(n, b)
           \/ \E m \in Nodes : Inside(n, m)
           \/ AddLacking(n) \/ PushBack(n)
           \/ DeleteSurplus(n)
    BY <1>1, NextIs
  <2>3. CASE ~DeleteSurplus(n)
    BY <1>1, <2>2, <2>3, OthersKeep
  <2> QED
    BY <2>1, <2>3
<1>2. IInv /\ [Next]_vars => [\A n \in Nodes : chain[n] \ chain'[n] \subseteq scan[n].list]_vars
  BY <1>1
<1> QED
  BY <1>2, Invariance, PTL DEF LaterBlocksStay, Spec

\* The repair loses no transaction that a node has in its pool or on its chain, whichever
\* of its steps fails and whatever comes in meanwhile, as long as no transaction is in two
\* blocks of the node: what the deleted blocks held has been written back to the pool, or
\* is in a block that was added.
THEOREM NothingIsLost == Spec => NothingVanishes
<1>1. ASSUME IInv, Next, NEW q \in Nodes, ~Repeated(q)
      PROVE  pool[q] \union Recorded(q) \subseteq pool'[q] \union Recorded(q)'
  <2>1. ASSUME NEW n \in Nodes, DeleteSurplus(n)
        PROVE  pool[q] \union Recorded(q) \subseteq pool'[q] \union Recorded(q)'
    <3>1. /\ made' = made /\ pool' = pool /\ scan[n].stage = "delete"
          /\ chain'[n] = chain[n] \ scan[n].del
          /\ \A r \in Nodes : r # n => chain'[r] = chain[r]
      BY <1>1, <2>1 DEF DeleteSurplus, Doomed, IInv, TypeOK
    <3>2. CASE q = n
      <4>1. TxsOf(scan[n].del) \subseteq pool[n] \union TxsOf(chain[n] \ scan[n].del)
        BY <1>1, <3>1, <3>2 DEF IInv, PushedBack
      <4>2. Recorded(n)' = TxsOf(chain[n] \ scan[n].del)
        BY <3>1 DEF Recorded, TxsOf
      <4>3. Recorded(n) \subseteq TxsOf(scan[n].del) \union TxsOf(chain[n] \ scan[n].del)
        BY DEF Recorded, TxsOf
      <4> QED
        BY <3>1, <3>2, <4>1, <4>2, <4>3
    <3>3. CASE q # n
      BY <3>1, <3>3 DEF Recorded
    <3> QED
      BY <3>2, <3>3
  <2>2. PICK n \in Nodes :
           \/ \E txs \in SUBSET Txs, late \in BOOLEAN : Make(n, txs, late)
           \/ \E b \in DOMAIN made : Store(n, b) \/ Falsify(n, b)
           \/ \E m \in Nodes : Inside(n, m)
           \/ AddLacking(n) \/ PushBack(n)
           \/ DeleteSurplus(n)
    BY <1>1, NextIs
  <2>3. CASE ~DeleteSurplus(n)
    BY <1>1, <2>2, <2>3, OthersKeep
  <2> QED
    BY <2>1, <2>3
<1>2. IInv /\ [Next]_vars
        => [\A n \in Nodes : ~Repeated(n) =>
              pool[n] \union Recorded(n) \subseteq pool'[n] \union Recorded(n)']_vars
  BY <1>1
<1> QED
  BY <1>2, Invariance, PTL DEF NothingVanishes, Spec

-----------------------------------------------------------------------------
(* The timestamps *)

\* Whatever the clocks say, no block has the timestamp of its predecessor, and only the
\* genesis block has none.
TimesOK ==
  /\ Genesis \in DOMAIN made
  /\ made[Genesis].prev = NoBlock /\ made[Genesis].time = 0
  /\ \A b \in DOMAIN made \ {Genesis} :
       /\ made[b].prev \in DOMAIN made
       /\ made[b].time \in 1 .. 2 * b
       /\ made[made[b].prev].time # made[b].time

LEMMA TimesInit == Init => TimesOK
<1> SUFFICES ASSUME Init PROVE TimesOK
  OBVIOUS
<1>1. DOMAIN made = {Genesis} /\ made[Genesis] = GenesisBlock
  BY DEF Init
<1> QED
  BY <1>1 DEF TimesOK, GenesisBlock

LEMMA TimesMake ==
  ASSUME IInv, TimesOK, NEW n \in Nodes, NEW txs \in SUBSET Txs, NEW late \in BOOLEAN,
         Make(n, txs, late)
  PROVE  TimesOK'
<1> DEFINE b == Cardinality(DOMAIN made) + 1
           p == LastOf(n)
<1>1. PICK k \in 1 .. MaxBlocks + 1 : DOMAIN made = 1 .. k
  BY DEF IInv, MadeOK
<1>2. b = k + 1 /\ k \in Nat
  BY <1>1, BlocksAre, FS_Interval
<1>3. /\ chain[n] # {} /\ (late => made[p].time > 1)
      /\ made' = [c \in DOMAIN made \union {b} |->
                    IF c \in DOMAIN made THEN made[c]
                    ELSE [prev |-> p, txs |-> txs, height |-> HeightAfter(p),
                          time |-> IF late THEN made[p].time - 1 ELSE 2 * b]]
  BY DEF Make
<1>4. p \in DOMAIN made
  BY <1>3, LastIsThere DEF IInv
<1> HIDE DEF b, p
<1>5. /\ b \notin DOMAIN made /\ p \in Nat /\ p < b /\ b \in Nat /\ b # Genesis
      /\ made[p].time \in Nat /\ made[p].time <= 2 * p
  <2>1. b \notin DOMAIN made /\ p \in Nat /\ p < b /\ b \in Nat /\ b # Genesis
    BY <1>1, <1>2, <1>4 DEF Genesis
  <2>2. made[p].time \in Nat
    BY <1>4 DEF IInv, TypeOK
  <2>3. p = Genesis => made[p].time = 0
    BY DEF TimesOK
  <2>4. p # Genesis => made[p].time \in 1 .. 2 * p
    BY <1>4 DEF TimesOK
  <2> QED
    BY <2>1, <2>2, <2>3, <2>4
<1>6. /\ DOMAIN made' = DOMAIN made \union {b}
      /\ \A c \in DOMAIN made : made'[c] = made[c]
      /\ made'[b].prev = p
      /\ made'[b].time = IF late THEN made[p].time - 1 ELSE 2 * b
  BY <1>3, <1>5
<1>7. made'[b].time \in 1 .. 2 * b /\ made'[b].time # made[p].time
  BY <1>3, <1>5, <1>6
<1>8. ASSUME NEW c \in DOMAIN made' \ {Genesis}
      PROVE  /\ made'[c].prev \in DOMAIN made'
             /\ made'[c].time \in 1 .. 2 * c
             /\ made'[made'[c].prev].time # made'[c].time
  <2>1. CASE c = b
    BY <1>4, <1>6, <1>7, <2>1
  <2>2. CASE c # b
    BY <1>6, <2>2 DEF TimesOK
  <2> QED
    BY <2>1, <2>2
<1>9. Genesis \in DOMAIN made' /\ made'[Genesis] = made[Genesis]
  BY <1>6 DEF TimesOK
<1> QED
  BY <1>8, <1>9 DEF TimesOK

LEMMA TimesStep == IInv /\ TimesOK /\ [Next]_vars => TimesOK'
<1> SUFFICES ASSUME IInv, TimesOK, [Next]_vars PROVE TimesOK'
  OBVIOUS
<1>1. CASE made' = made
  BY <1>1 DEF TimesOK
<1>2. CASE made' # made
  <2>1. PICK n \in Nodes :
           \/ \E txs \in SUBSET Txs, late \in BOOLEAN : Make(n, txs, late)
           \/ \E b \in DOMAIN made : Store(n, b) \/ Falsify(n, b)
           \/ \E m \in Nodes : Inside(n, m)
           \/ AddLacking(n) \/ PushBack(n)
           \/ DeleteSurplus(n)
    BY <1>2, NextIs, SMTT(30) DEF vars
  <2>2. \E txs \in SUBSET Txs, late \in BOOLEAN : Make(n, txs, late)
    BY <1>2, <2>1 DEF Store, Falsify, Inside, BeginScan, GetDigest, LoseRpc, EndOfScan,
       OverflowStack, ChooseDonor, ExamineDifference, AddLacking, PushBack, DeleteSurplus
  <2> QED
    BY <2>2, TimesMake
<1> QED
  BY <1>1, <1>2

-----------------------------------------------------------------------------
(* The list *)

\* The blocks of n, each once, none before one with a later timestamp
InOrder(list, n) ==
  /\ list \in [1 .. Cardinality(chain[n]) -> chain[n]]
  /\ IsInjective(list) /\ ToSet(list) = chain[n]
  /\ \A i, j \in 1 .. Cardinality(chain[n]) :
       i < j => made[list[i]].time >= made[list[j]].time

LEMMA ChainFinite ==
  ASSUME IInv, NEW n \in Nodes
  PROVE  /\ chain[n] \subseteq DOMAIN made /\ IsFiniteSet(chain[n])
         /\ Cardinality(chain[n]) \in Nat /\ 0 \notin DOMAIN made
         /\ \A b \in DOMAIN made : made[b].time \in Nat
<1>1. chain[n] \subseteq DOMAIN made /\ \A b \in DOMAIN made : made[b].time \in Nat
  BY DEF IInv, TypeOK
<1>2. PICK k \in 1 .. MaxBlocks + 1 : DOMAIN made = 1 .. k
  BY DEF IInv, MadeOK
<1>3. k \in Nat
  BY <1>2, BlocksAre
<1>4. IsFiniteSet(DOMAIN made) /\ 0 \notin DOMAIN made
  BY <1>2, <1>3, FS_Interval
<1>5. IsFiniteSet(chain[n])
  BY <1>1, <1>4, FS_Subset
<1> QED
  BY <1>1, <1>4, <1>5, FS_CardinalityType

\* Any finite set can be listed in order of time.
LEMMA CanBeListed ==
  ASSUME NEW S, IsFiniteSet(S), \A b \in S : made[b].time \in Nat
  PROVE  \E list \in SetToSeqs(S) :
           \A i \in 2 .. Len(list) : made[list[i - 1]].time >= made[list[i]].time
<1> DEFINE N == Cardinality(S)
           Good(list, A) == /\ list \in [1 .. Cardinality(A) -> A] /\ IsInjective(list)
                            /\ \A i \in 2 .. Cardinality(A) :
                                 made[list[i - 1]].time >= made[list[i]].time
           good == {k \in 0 .. N : \A A \in SUBSET S :
                                     Cardinality(A) = k => \E list : Good(list, A)}
<1>0. /\ N \in Nat
      /\ \A A \in SUBSET S : /\ IsFiniteSet(A) /\ Cardinality(A) \in 0 .. N
                             /\ (Cardinality(A) = 0 <=> A = {})
                             /\ \A x \in A : Cardinality(A \ {x}) = Cardinality(A) - 1
  BY FS_Subset, FS_CardinalityType, FS_EmptySet, FS_RemoveElement
<1>1. 0 \in good
  <2>1. ASSUME NEW A \in SUBSET S, Cardinality(A) = 0 PROVE \E list : Good(list, A)
    <3>1. 1 .. Cardinality(A) = {} /\ 2 .. Cardinality(A) = {}
      BY <2>1
    <3>2. Good([i \in 1 .. Cardinality(A) |-> i], A)
      BY <3>1 DEF IsInjective
    <3> HIDE DEF Good
    <3> QED
      BY <3>2
  <2> QED
    BY <1>0, <2>1
<1>2. ASSUME NEW k \in 1 .. N, k - 1 \in good PROVE k \in good
  <2>1. ASSUME NEW A \in SUBSET S, Cardinality(A) = k PROVE \E list : Good(list, A)
    <3>1. A # {} /\ k \in Nat /\ \A x \in A : Cardinality(A \ {x}) = k - 1
      BY <1>0, <2>1
    <3>2. PICK b \in A : \A c \in A : made[b].time <= made[c].time
      <4> DEFINE T == {made[c].time : c \in A}
      <4>1. T \in SUBSET Nat /\ T # {}
        BY <3>1
      <4> HIDE DEF T
      <4>2. PICK t \in T : \A u \in T : t <= u
        BY <4>1, Least
      <4> QED
        BY <4>2 DEF T
    <3>3. PICK l : Good(l, A \ {b})
      BY <1>2, <3>1
    <3>4. /\ l \in [1 .. k - 1 -> A \ {b}] /\ IsInjective(l)
          /\ \A i \in 2 .. k - 1 : made[l[i - 1]].time >= made[l[i]].time
      BY <3>1, <3>3
    <3> DEFINE list == [i \in 1 .. k |-> IF i = k THEN b ELSE l[i]]
    <3>5. /\ list[k] = b /\ \A i \in 1 .. k - 1 : list[i] = l[i] /\ l[i] \in A \ {b}
          /\ DOMAIN list = 1 .. k
      BY <3>1, <3>4
    <3>6. \A i \in 1 .. k : i = k \/ i \in 1 .. k - 1
      BY <3>1
    <3>7. list \in [1 .. k -> A]
      BY <3>4, <3>6
    <3> HIDE DEF list
    <3>8. IsInjective(list)
      <4> SUFFICES ASSUME NEW i \in 1 .. k, NEW j \in 1 .. k, list[i] = list[j] PROVE i = j
        BY <3>5 DEF IsInjective
      <4>1. CASE i = k \/ j = k
        BY <3>5, <3>6, <4>1
      <4>2. CASE i # k /\ j # k
        <5>1. i \in 1 .. k - 1 /\ j \in 1 .. k - 1
          BY <3>6, <4>2
        <5>2. l[i] = l[j] /\ i \in DOMAIN l /\ j \in DOMAIN l
          BY <3>4, <3>5, <5>1
        <5> QED
          BY <3>4, <5>2 DEF IsInjective
      <4> QED
        BY <4>1, <4>2
    <3>9. ASSUME NEW i \in 2 .. k PROVE made[list[i - 1]].time >= made[list[i]].time
      <4>1. i - 1 \in 1 .. k - 1 /\ (i # k => i \in 1 .. k - 1 /\ i \in 2 .. k - 1)
        BY <3>1
      <4>2. CASE i = k
        <5>1. list[i - 1] \in A /\ list[i] = b
          BY <3>5, <4>1, <4>2
        <5>2. made[b].time <= made[list[i - 1]].time /\ made[b].time \in Nat
              /\ made[list[i - 1]].time \in Nat
          BY <3>2, <5>1
        <5> QED
          BY <5>1, <5>2
      <4>3. CASE i # k
        BY <3>4, <3>5, <4>1, <4>3
      <4> QED
        BY <4>2, <4>3
    <3>10. Good(list, A)
      BY <2>1, <3>7, <3>8, <3>9
    <3> HIDE DEF Good
    <3> QED
      BY <3>10
  <2> HIDE DEF Good
  <2> QED
    BY <1>0, <2>1
<1> HIDE DEF good
<1>3. good \in SUBSET (0 .. N)
  BY DEF good
<1>4. N \in good
  <2>1. good = 0 .. N
    BY <1>0, <1>1, <1>2, <1>3, UpTo
  <2> QED
    BY <1>0, <2>1
<1>5. PICK list : Good(list, S)
  <2> HIDE DEF Good
  <2> QED
    BY <1>4 DEF good
<1>6. list \in SetToSeqs(S)
  BY <1>5 DEF SetToSeqs, IsInjective
<1>7. Len(list) = N
  BY <1>0, <1>5
<1> QED
  BY <1>5, <1>6, <1>7

LEMMA ListedInOrder ==
  ASSUME IInv, NEW n \in Nodes
  PROVE  InOrder(Listed(n), n)
<1> DEFINE L == Cardinality(chain[n])
           list == Listed(n)
<1>1. /\ chain[n] \subseteq DOMAIN made /\ IsFiniteSet(chain[n]) /\ L \in Nat
      /\ \A b \in chain[n] : made[b].time \in Nat
  BY ChainFinite
<1>2. /\ list \in SetToSeqs(chain[n])
      /\ \A i \in 2 .. Len(list) : made[list[i - 1]].time >= made[list[i]].time
  BY <1>1, CanBeListed DEF Listed
<1> HIDE DEF list
<1>3. list \in [1 .. L -> chain[n]]
  BY <1>2 DEF SetToSeqs
<1>4. IsInjective(list) /\ ToSet(list) = chain[n]
  BY <1>1, <1>2, SetInOrder
<1>5. Len(list) = L
  BY <1>1, <1>3
<1>6. ASSUME NEW i \in 1 .. L, NEW j \in 1 .. L, i < j
      PROVE  made[list[i]].time >= made[list[j]].time
  <2> DEFINE t == [k \in 1 .. L |-> made[list[k]].time]
             bad == {k \in 1 .. L : i < k /\ ~(t[i] >= t[k])}
  <2>1. t \in [1 .. L -> Nat]
    BY <1>1, <1>3
  <2>2. \A k \in 2 .. L : t[k - 1] >= t[k]
    <3>1. \A k \in 2 .. L : k \in 1 .. L /\ k - 1 \in 1 .. L
      BY <1>1
    <3> QED
      BY <1>2, <1>5, <3>1
  <2>3. bad # {} => FALSE
    <3> SUFFICES ASSUME bad # {} PROVE FALSE
      OBVIOUS
    <3>1. bad \in SUBSET Nat
      OBVIOUS
    <3>2. PICK k \in bad : \A m \in bad : k <= m
      BY <3>1, Least
    <3>3. k \in 1 .. L /\ i < k /\ ~(t[i] >= t[k]) /\ k \in 2 .. L /\ k - 1 \in 1 .. L
      BY <1>1
    <3>4. t[k - 1] >= t[k]
      BY <2>2, <3>3
    <3>5. k - 1 \notin bad
      BY <3>2, <3>3
    <3>6. k - 1 = i \/ i < k - 1
      BY <3>3
    <3>7. t[i] >= t[k - 1]
      BY <2>1, <3>3, <3>5, <3>6
    <3> QED
      BY <2>1, <3>3, <3>4, <3>7
  <2>4. ~(t[i] >= t[j]) => j \in bad
    BY <1>6
  <2> QED
    BY <2>3, <2>4
<1> QED
  BY <1>3, <1>4, <1>6 DEF InOrder, list

-----------------------------------------------------------------------------
(* The walk *)

Walk(list) ==
  [at : 1 .. Len(list) + 1, want : DOMAIN made \union {NoBlock},
   stack : Seq((1 .. Len(list)) \X DOMAIN made), seen : SUBSET DOMAIN made,
   bad : SUBSET DOMAIN made, errors : BOOLEAN]

Start(n) == [at |-> 1, want |-> NoBlock, stack |-> <<>>, seen |-> {}, bad |-> {},
             errors |-> Genesis \notin chain[n]]

\* The steps from w to v: the end of the last walk, or of one that interrupts another,
\* over a block that has been seen, to one that is wanted, and the beginning of a walk.
Finished(w, v, list) ==
  /\ w.at = Len(list) + 1 /\ w.stack = <<>>
  /\ v.at = w.at /\ v.want = NoBlock /\ v.stack = <<>> /\ v.seen = w.seen
  /\ v.errors <=> w.errors \/ w.want # NoBlock
Resumed(w, v, list) ==
  /\ w.at = Len(list) + 1 /\ w.stack # <<>>
  /\ v.at \in 2 .. Len(list) + 1 /\ v.want \in DOMAIN made /\ v.seen = w.seen
  /\ v.errors <=> w.errors \/ w.want # NoBlock
Skipped(w, v, list) ==
  /\ w.at \in 1 .. Len(list) /\ list[w.at] \in w.seen
  /\ v.at = w.at + 1 /\ v.want = w.want /\ v.stack = w.stack /\ v.seen = w.seen
  /\ v.errors <=> w.errors
Visited(w, v, n, list) ==
  /\ w.at \in 1 .. Len(list) /\ list[w.at] \notin w.seen /\ w.want \in {NoBlock, list[w.at]}
  /\ v.at = IF list[w.at] = Genesis THEN Len(list) + 1 ELSE w.at + 1
  /\ v.want = made[list[w.at]].prev /\ v.stack = w.stack
  /\ v.seen = w.seen \union {list[w.at]}
  /\ v.errors <=> w.errors \/ list[w.at] \in forged[n]
Interrupted(w, v, list) ==
  /\ w.at \in 1 .. Len(list) /\ list[w.at] \notin w.seen /\ w.want \notin {NoBlock, list[w.at]}
  /\ v.at = w.at /\ v.want = NoBlock /\ v.stack # <<>> /\ v.seen = w.seen
  /\ v.errors <=> w.errors
Moved(w, v, n, list) ==
  \/ Finished(w, v, list) \/ Resumed(w, v, list) \/ Skipped(w, v, list)
  \/ Visited(w, v, n, list) \/ Interrupted(w, v, list)

LEMMA MadeTypes ==
  ASSUME IInv
  PROVE  /\ NoBlock \notin DOMAIN made
         /\ \A b \in DOMAIN made : made[b].prev \in DOMAIN made \union {NoBlock}
<1>1. PICK k \in 1 .. MaxBlocks + 1 : DOMAIN made = 1 .. k
  BY DEF IInv, MadeOK
<1>2. k \in Nat
  BY <1>1, BlocksAre
<1> QED
  BY <1>1, <1>2 DEF IInv, TypeOK, NoBlock

LEMMA OneMove ==
  ASSUME IInv, NEW n \in Nodes, NEW list, InOrder(list, n), NEW w \in Walk(list)
  PROVE  LET v == StepOfWalk(w, n, list) IN v \in Walk(list) /\ Moved(w, v, n, list)
<1> DEFINE L == Len(list)
           v == StepOfWalk(w, n, list)
           Pairs == (1 .. L) \X DOMAIN made
<1>1. /\ L = Cardinality(chain[n]) /\ L \in Nat /\ DOMAIN list = 1 .. L
      /\ \A i \in 1 .. L : list[i] \in DOMAIN made
  BY ChainFinite DEF InOrder
<1>2. /\ NoBlock \notin DOMAIN made
      /\ \A b \in DOMAIN made : made[b].prev \in DOMAIN made \union {NoBlock}
  BY MadeTypes
<1>3. /\ w.at \in 1 .. L + 1 /\ w.want \in DOMAIN made \union {NoBlock}
      /\ w.stack \in Seq(Pairs) /\ w.seen \in SUBSET DOMAIN made
      /\ w.bad \in SUBSET DOMAIN made /\ w.errors \in BOOLEAN
  BY DEF Walk
<1>4. CASE w.at > L
  <2>1. w.at = L + 1 /\ v = EndWalk(w)
    BY <1>1, <1>3, <1>4 DEF StepOfWalk
  <2>2. CASE w.stack = <<>>
    <3>1. v = [w EXCEPT !.want = NoBlock, !.errors = w.errors \/ w.want # NoBlock]
      BY <2>1, <2>2 DEF EndWalk
    <3>2. v \in Walk(list)
      BY <1>3, <3>1 DEF Walk
    <3>3. Finished(w, v, list)
      BY <1>3, <2>1, <2>2, <3>1 DEF Finished, Walk
    <3> QED
      BY <3>2, <3>3 DEF Moved
  <2>3. CASE w.stack # <<>>
    <3> DEFINE h == Head(w.stack)
    <3>1. h \in Pairs /\ Tail(w.stack) \in Seq(Pairs)
      BY <1>3, <2>3
    <3>2. h[1] \in 1 .. L /\ h[2] \in DOMAIN made
      BY <3>1
    <3>3. v = [w EXCEPT !.at = h[1] + 1, !.want = h[2], !.stack = Tail(w.stack),
                        !.errors = w.errors \/ w.want # NoBlock]
      BY <2>1, <2>3 DEF EndWalk
    <3> HIDE DEF h
    <3>4. h[1] + 1 \in 2 .. L + 1 /\ h[1] + 1 \in 1 .. L + 1
      BY <1>1, <3>2
    <3>5. v \in Walk(list)
      BY <1>3, <3>1, <3>2, <3>3, <3>4 DEF Walk
    <3>6. Resumed(w, v, list)
      BY <1>3, <2>1, <2>3, <3>2, <3>3, <3>4 DEF Resumed, Walk
    <3> QED
      BY <3>5, <3>6 DEF Moved
  <2> QED
    BY <2>2, <2>3
<1>5. CASE ~(w.at > L)
  <2> DEFINE b == list[w.at]
  <2>1. w.at \in 1 .. L /\ b \in DOMAIN made /\ w.at + 1 \in 1 .. L + 1
    BY <1>1, <1>3, <1>5
  <2> HIDE DEF b
  <2>2. CASE b \in w.seen
    <3>1. v = [w EXCEPT !.at = w.at + 1]
      BY <1>5, <2>2 DEF StepOfWalk, b
    <3>2. v \in Walk(list)
      BY <1>3, <2>1, <3>1 DEF Walk
    <3>3. Skipped(w, v, list)
      BY <2>1, <2>2, <3>1 DEF Skipped, Walk, b
    <3> QED
      BY <3>2, <3>3 DEF Moved
  <2>3. CASE b \notin w.seen /\ w.want \in {NoBlock, b}
    <3> DEFINE sound == b \notin forged[n]
               at == IF b = Genesis THEN L + 1 ELSE w.at + 1
               bad == IF sound THEN w.bad ELSE w.bad \union {b}
    <3>1. v = Visit(w, b, sound, n)
      BY <1>5, <2>3 DEF StepOfWalk, b
    <3>2. v = [w EXCEPT !.seen = w.seen \union {b}, !.bad = bad,
                        !.errors = w.errors \/ ~sound, !.at = at, !.want = made[b].prev]
      BY <1>1, <3>1 DEF Visit
    <3>3. /\ at \in 1 .. L + 1 /\ bad \in SUBSET DOMAIN made
          /\ w.seen \union {b} \in SUBSET DOMAIN made
          /\ made[b].prev \in DOMAIN made \union {NoBlock}
      BY <1>1, <1>2, <1>3, <2>1
    <3> HIDE DEF at, bad
    <3>4. v \in Walk(list)
      BY <1>3, <3>2, <3>3 DEF Walk
    <3>5. Visited(w, v, n, list)
      BY <2>1, <2>3, <3>2 DEF Visited, Walk, b, at
    <3> QED
      BY <3>4, <3>5 DEF Moved
  <2>4. CASE b \notin w.seen /\ w.want \notin {NoBlock, b}
    <3> DEFINE s == <<<<w.at, w.want>>>> \o w.stack
    <3>1. v = [w EXCEPT !.stack = s, !.want = NoBlock]
      BY <1>5, <2>4 DEF StepOfWalk, b
    <3>2. <<w.at, w.want>> \in Pairs
      BY <1>3, <2>1, <2>4
    <3>3. s \in Seq(Pairs) /\ s # <<>>
      <4>1. <<<<w.at, w.want>>>> \in Seq(Pairs)
        BY <3>2
      <4>2. s \in Seq(Pairs) /\ Len(s) = 1 + Len(w.stack) /\ Len(w.stack) \in Nat
        BY <1>3, <4>1, ConcatProperties, LenProperties
      <4> QED
        BY <4>2
    <3> HIDE DEF s
    <3>4. v \in Walk(list)
      BY <1>3, <3>1, <3>3 DEF Walk
    <3>5. Interrupted(w, v, list)
      BY <2>1, <2>4, <3>1, <3>3 DEF Interrupted, Walk, b
    <3> QED
      BY <3>4, <3>5 DEF Moved
  <2> QED
    BY <2>2, <2>3, <2>4
<1> QED
  BY <1>1, <1>3, <1>4, <1>5

\* The walk as a sequence of steps: walks[k] is the walk after k of them.
Steps(list) == (Len(list) + 1) * (Len(list) + 2)
IsWalk(walks, n, list) ==
  /\ walks \in [0 .. Steps(list) -> Walk(list)]
  /\ walks[0] = Start(n)
  /\ \A k \in 1 .. Steps(list) : Moved(walks[k - 1], walks[k], n, list)

LEMMA WalkedByMoves ==
  ASSUME IInv, NEW n \in Nodes, NEW list, InOrder(list, n)
  PROVE  \E walks : IsWalk(walks, n, list) /\ Walked(n, list) = walks[Steps(list)]
<1> DEFINE L == Len(list)
           N == Steps(list)
           start == Start(n)
           f == [p \in (1 .. N) \X Walk(list) |-> StepOfWalk(p[2], n, list)]
<1>1. L \in Nat /\ N \in Nat
  BY ChainFinite DEF InOrder, Steps
<1>2. start \in Walk(list)
  <2>1. 1 \in 1 .. L + 1
    BY <1>1
  <2>2. <<>> \in Seq((1 .. L) \X DOMAIN made)
    OBVIOUS
  <2> QED
    BY <2>1, <2>2 DEF Start, Walk
<1> HIDE DEF N, start
<1>3. PICK g : Defined(g, N, start, f)
  <2> HIDE DEF f
  <2> QED
    BY <1>1, Recursion
<1>4. g[0] = start /\ \A k \in 1 .. N : g[k] = f[<<k, g[k - 1]>>]
  <2> HIDE DEF f
  <2> QED
    BY <1>1, <1>3, StepByStep
<1>5. \A k \in 1 .. N, w \in Walk(list) : f[<<k, w>>] = StepOfWalk(w, n, list)
  OBVIOUS
<1> HIDE DEF f
<1>6. \A k \in 0 .. N : g[k] \in Walk(list)
  <2> DEFINE good == {k \in 0 .. N : g[k] \in Walk(list)}
  <2>1. 0 \in good
    BY <1>1, <1>2, <1>4
  <2>2. ASSUME NEW k \in 1 .. N, k - 1 \in good PROVE k \in good
    <3>1. g[k - 1] \in Walk(list) /\ k \in 0 .. N
      BY <1>1, <2>2
    <3>2. g[k] = f[<<k, g[k - 1]>>]
      BY <1>4
    <3>3. g[k] = StepOfWalk(g[k - 1], n, list)
      BY <1>5, <3>1, <3>2
    <3> QED
      BY <3>1, <3>3, OneMove
  <2> HIDE DEF good
  <2>3. good \in SUBSET (0 .. N)
    BY DEF good
  <2>4. good = 0 .. N
    BY <1>1, <2>1, <2>2, <2>3, UpTo
  <2> QED
    BY <2>4 DEF good
<1>7. \A k \in 1 .. N : k - 1 \in 0 .. N /\ k \in 0 .. N
  BY <1>1
<1>8. \A k \in 1 .. N : g[k] = StepOfWalk(g[k - 1], n, list)
  BY <1>4, <1>5, <1>6, <1>7
<1>9. \A k \in 1 .. N : Moved(g[k - 1], g[k], n, list)
  BY <1>6, <1>7, <1>8, OneMove
<1>10. g \in [0 .. N -> Walk(list)]
  BY <1>3, <1>6 DEF Defined
<1>11. IsWalk(g, n, list)
  BY <1>4, <1>9, <1>10 DEF IsWalk, N, start
<1>12. Walked(n, list) = g[N]
  <2> DEFINE R(h) == h = [k \in 0 .. N |-> IF k = 0 THEN {start}
                                  ELSE {StepOfWalk(x, n, list) : x \in h[k - 1]}]
             w == CHOOSE h : R(h)
             q == [k \in 0 .. N |-> {g[k]}]
  <2>1. Walked(n, list) = CHOOSE x \in w[N] : TRUE
    BY DEF Walked, N, start, Start, Steps
  <2>2. R(q)
    <3>1. ASSUME NEW k \in 0 .. N
          PROVE  q[k] = IF k = 0 THEN {start}
                        ELSE {StepOfWalk(x, n, list) : x \in q[k - 1]}
      <4>1. CASE k = 0
        BY <1>4, <4>1
      <4>2. CASE k # 0
        <5>1. k \in 1 .. N /\ k - 1 \in 0 .. N
          BY <1>1, <4>2
        <5>2. q[k - 1] = {g[k - 1]} /\ g[k] = StepOfWalk(g[k - 1], n, list)
          BY <1>8, <5>1
        <5>3. q[k] = {StepOfWalk(g[k - 1], n, list)}
          BY <5>2
        <5> HIDE DEF q
        <5> QED
          BY <4>2, <5>2, <5>3
      <4> QED
        BY <4>1, <4>2
    <3> QED
      BY <3>1
  <2>3. R(w)
    <3> HIDE DEF R
    <3>1. \E h : R(h)
      BY <2>2, Zenon
    <3> QED
      BY <3>1
  <2>4. \A k \in 0 .. N : w[k] = IF k = 0 THEN {start}
                                 ELSE {StepOfWalk(x, n, list) : x \in w[k - 1]}
    BY <2>3
  <2> HIDE DEF w
  <2> DEFINE good == {k \in 0 .. N : w[k] = {g[k]}}
  <2>5. 0 \in good
    <3>1. 0 \in 0 .. N
      BY <1>1
    <3>2. w[0] = {start} /\ g[0] = start
      BY <1>4, <2>4, <3>1
    <3> QED
      BY <3>1, <3>2
  <2>6. ASSUME NEW k \in 1 .. N, k - 1 \in good PROVE k \in good
    <3>1. k \in 0 .. N /\ k # 0
      BY <1>1
    <3>2. w[k] = {StepOfWalk(x, n, list) : x \in w[k - 1]} /\ w[k - 1] = {g[k - 1]}
      BY <2>4, <2>6, <3>1
    <3>3. w[k] = {StepOfWalk(g[k - 1], n, list)}
      BY <3>2
    <3> QED
      BY <1>8, <3>1, <3>3
  <2> HIDE DEF good
  <2>7. good \in SUBSET (0 .. N)
    BY DEF good
  <2>8. good = 0 .. N
    BY <1>1, <2>5, <2>6, <2>7, UpTo
  <2>9. w[N] = {g[N]}
    BY <1>1, <2>8 DEF good
  <2> QED
    BY <2>1, <2>9
<1> QED
  BY <1>11, <1>12 DEF N

-----------------------------------------------------------------------------
(* What the walk finds out *)

\* The first k blocks of the list verify, and each is the predecessor of the one before.
OneLine(k, n, list) ==
  /\ \A i \in 1 .. k : list[i] \notin forged[n]
  /\ \A i \in 2 .. k : list[i] = made[list[i - 1]].prev

\* The walk after k steps, when it has always found what it wanted,
Straight(w, k, n, list) ==
  /\ k \in 0 .. Len(list) /\ OneLine(k, n, list)
  /\ ~w.errors /\ w.stack = <<>> /\ w.at = k + 1
  /\ w.seen = {list[i] : i \in 1 .. k} /\ Genesis \notin w.seen
  /\ w.want = IF k = 0 THEN NoBlock ELSE made[list[k]].prev

\* and when it has come to the genesis block so,
Rooted(n, list) == \E m \in 1 .. Len(list) : list[m] = Genesis /\ OneLine(m, n, list)
Arrived(w, n, list) ==
  /\ ~w.errors /\ w.stack = <<>> /\ w.at = Len(list) + 1 /\ w.want = NoBlock
  /\ Rooted(n, list)

\* or when it has been interrupted.  A step over a block, or to it, comes at most after
\* one that interrupts: from the beginning of the list to its end it takes no more than
\* two steps for each block, "base" before it not counted.
Diverted(w, k, base, list) ==
  \/ /\ w.at \in 1 .. Len(list) /\ list[w.at] \notin w.seen
     /\ w.want = NoBlock /\ k <= base + 2 * (w.at - 1) + 1
  \/ /\ w.want \in DOMAIN made /\ k <= base + 2 * (w.at - 1)

\* In the first pass some walk is interrupted; it may come to the genesis block.
FirstPass(w, k, list) ==
  /\ w.stack # <<>>
  /\ \/ Diverted(w, k, 0, list)
     \/ /\ w.at = Len(list) + 1 /\ w.want = NoBlock
        /\ Genesis \in w.seen /\ k <= 2 * Len(list)

\* What was interrupted does not find it again.
SecondPass(w, k, list) ==
  Genesis \in w.seen /\ Diverted(w, k, 2 * Len(list) - 1, list)

LEMMA ErrorsStay ==
  ASSUME NEW n, NEW list, NEW w, NEW v, Moved(w, v, n, list), w.errors
  PROVE  v.errors
BY DEF Moved, Finished, Resumed, Skipped, Visited, Interrupted

LEMMA ListFacts ==
  ASSUME IInv, TimesOK, NEW n \in Nodes, NEW list, InOrder(list, n)
  PROVE  /\ Len(list) = Cardinality(chain[n]) /\ Len(list) \in Nat
         /\ \A i \in 1 .. Len(list) :
              /\ list[i] \in chain[n] /\ list[i] \in DOMAIN made
              /\ list[i] # Genesis => made[list[i]].prev \in DOMAIN made
         /\ \A i, j \in 1 .. Len(list) : list[i] = list[j] => i = j
         /\ \A b \in chain[n] : \E i \in 1 .. Len(list) : list[i] = b
         /\ \A i, j \in 1 .. Len(list) : i < j => made[list[i]].time >= made[list[j]].time
         /\ NoBlock \notin DOMAIN made
<1>1. /\ Len(list) = Cardinality(chain[n]) /\ Len(list) \in Nat /\ DOMAIN list = 1 .. Len(list)
      /\ chain[n] \subseteq DOMAIN made /\ NoBlock \notin DOMAIN made
      /\ list \in [1 .. Len(list) -> chain[n]]
  BY ChainFinite, MadeTypes DEF InOrder
<1>2. \A i, j \in 1 .. Len(list) : list[i] = list[j] => i = j
  BY <1>1 DEF InOrder, IsInjective
<1>3. \A b \in chain[n] : \E i \in 1 .. Len(list) : list[i] = b
  BY <1>1 DEF InOrder, ToSet
<1>4. \A i, j \in 1 .. Len(list) : i < j => made[list[i]].time >= made[list[j]].time
  BY <1>1 DEF InOrder
<1>5. \A i \in 1 .. Len(list) :
        /\ list[i] \in chain[n] /\ list[i] \in DOMAIN made
        /\ list[i] # Genesis => made[list[i]].prev \in DOMAIN made
  BY <1>1 DEF TimesOK
<1> QED
  BY <1>1, <1>2, <1>3, <1>4, <1>5

LEMMA StraightStart ==
  ASSUME NEW n \in Nodes, NEW list, Len(list) \in Nat, Genesis \in chain[n]
  PROVE  Straight(Start(n), 0, n, list)
<1>1. 0 \in 0 .. Len(list) /\ 1 .. 0 = {} /\ 2 .. 0 = {}
  OBVIOUS
<1>2. Start(n).errors <=> Genesis \notin chain[n]
  BY DEF Start
<1>3. /\ Start(n).at = 1 /\ Start(n).want = NoBlock /\ Start(n).stack = <<>>
      /\ Start(n).seen = {}
  BY DEF Start
<1>4. OneLine(0, n, list) /\ {list[i] : i \in 1 .. 0} = {}
  BY <1>1 DEF OneLine
<1> QED
  BY <1>1, <1>2, <1>3, <1>4 DEF Straight

\* Straight on, to the genesis block, or astray
LEMMA StraightMove ==
  ASSUME IInv, TimesOK, NEW n \in Nodes, NEW list, InOrder(list, n), Genesis \in chain[n],
         NEW w \in Walk(list), NEW v \in Walk(list), NEW k \in Nat,
         Straight(w, k, n, list), Moved(w, v, n, list)
  PROVE  \/ v.errors \/ Straight(v, k + 1, n, list) \/ Arrived(v, n, list)
         \/ FirstPass(v, k + 1, list)
<1> DEFINE L == Len(list)
<1>0. /\ L \in Nat /\ NoBlock \notin DOMAIN made
      /\ \A i \in 1 .. L : /\ list[i] \in DOMAIN made
                           /\ list[i] # Genesis => made[list[i]].prev \in DOMAIN made
      /\ \A i, j \in 1 .. L : list[i] = list[j] => i = j
      /\ \E i \in 1 .. L : list[i] = Genesis
  BY ListFacts
<1>1. /\ k \in 0 .. L /\ w.at = k + 1 /\ w.stack = <<>>
      /\ w.seen = {list[i] : i \in 1 .. k} /\ Genesis \notin w.seen
      /\ OneLine(k, n, list) /\ ~w.errors
      /\ w.want = IF k = 0 THEN NoBlock ELSE made[list[k]].prev
  BY DEF Straight
<1>2. k + 1 \in 1 .. L
  BY <1>0, <1>1
<1>3. list[k + 1] \notin w.seen
  BY <1>0, <1>1, <1>2
<1>4. Visited(w, v, n, list) \/ Interrupted(w, v, list)
  BY <1>0, <1>1, <1>2, <1>3 DEF Moved, Finished, Resumed, Skipped
<1>5. CASE Visited(w, v, n, list) /\ ~v.errors
  <2> DEFINE b == list[k + 1]
  <2>1. /\ w.want \in {NoBlock, b} /\ b \notin forged[n]
        /\ v.at = (IF b = Genesis THEN L + 1 ELSE w.at + 1)
        /\ v.want = made[b].prev /\ v.stack = w.stack /\ v.seen = w.seen \union {b}
    BY <1>1, <1>5 DEF Visited
  <2>2. k = 0 \/ b = made[list[k]].prev
    <3>1. k # 0 => k \in 1 .. L /\ list[k] # Genesis
      BY <1>1, <1>2
    <3> QED
      BY <1>0, <1>1, <2>1, <3>1
  <2>3. OneLine(k + 1, n, list)
    <3>1. ASSUME NEW i \in 1 .. k + 1 PROVE list[i] \notin forged[n]
      <4>1. i \in 1 .. k \/ i = k + 1
        BY <1>1
      <4> QED
        BY <1>1, <2>1, <4>1 DEF OneLine
    <3>2. ASSUME NEW i \in 2 .. k + 1 PROVE list[i] = made[list[i - 1]].prev
      <4>1. i \in 2 .. k \/ (i = k + 1 /\ i - 1 = k /\ k # 0)
        BY <1>1
      <4> QED
        BY <1>1, <2>2, <4>1 DEF OneLine
    <3> QED
      BY <3>1, <3>2 DEF OneLine
  <2>4. CASE b = Genesis
    <3>1. v.want = NoBlock
      BY <2>1, <2>4 DEF TimesOK
    <3>2. Rooted(n, list)
      BY <1>2, <2>3, <2>4 DEF Rooted
    <3> QED
      BY <1>1, <1>5, <2>1, <2>4, <3>1, <3>2 DEF Arrived
  <2>5. CASE b # Genesis
    <3>1. v.seen = {list[i] : i \in 1 .. k + 1}
      <4>1. 1 .. k + 1 = (1 .. k) \union {k + 1}
        BY <1>1
      <4> QED
        BY <1>1, <2>1, <4>1
    <3>2. k + 1 # 0 /\ k + 1 \in 0 .. L /\ w.at + 1 = (k + 1) + 1
      BY <1>1, <1>2
    <3>3. Genesis \notin v.seen
      BY <1>1, <2>1, <2>5
    <3> QED
      BY <1>1, <1>5, <2>1, <2>3, <2>5, <3>1, <3>2, <3>3 DEF Straight
  <2> QED
    BY <2>4, <2>5
<1>6. CASE Interrupted(w, v, list)
  <2>1. /\ v.at = k + 1 /\ v.want = NoBlock /\ v.stack # <<>> /\ v.seen = w.seen
    BY <1>1, <1>6 DEF Interrupted
  <2>2. k + 1 <= 0 + 2 * (v.at - 1) + 1
    BY <1>1, <2>1
  <2> QED
    BY <1>2, <1>3, <2>1, <2>2 DEF FirstPass, Diverted
<1> QED
  BY <1>4, <1>5, <1>6

\* A pass goes on until the end of the list, or comes to the genesis block.
LEMMA DivertedMove ==
  ASSUME IInv, TimesOK, NEW n \in Nodes, NEW list, InOrder(list, n),
         NEW w \in Walk(list), NEW v \in Walk(list), NEW k \in Nat, NEW base \in Int,
         Diverted(w, k, base, list), Moved(w, v, n, list)
  PROVE  \/ v.errors
         \/ (w.stack # <<>> => v.stack # <<>>) /\ w.seen \subseteq v.seen
            /\ \/ Diverted(v, k + 1, base, list)
               \/ /\ v.at = Len(list) + 1 /\ v.want = NoBlock
                  /\ Genesis \in v.seen \ w.seen /\ k + 1 <= base + 2 * Len(list)
<1> DEFINE L == Len(list)
           b == list[w.at]
<1>0. /\ L \in Nat /\ NoBlock \notin DOMAIN made
      /\ \A i \in 1 .. L : /\ list[i] \in DOMAIN made
                           /\ list[i] # Genesis => made[list[i]].prev \in DOMAIN made
  BY ListFacts
<1>1. w.at \in 1 .. L + 1 /\ v.at \in 1 .. L + 1
  BY DEF Walk
<1>2. k <= base + 2 * (w.at - 1) + 1
  BY <1>0, <1>1 DEF Diverted
<1>3. CASE Finished(w, v, list) \/ Resumed(w, v, list)
  <2>1. w.at \notin 1 .. L
    BY <1>0, <1>3 DEF Finished, Resumed
  <2>2. w.want \in DOMAIN made
    BY <2>1 DEF Diverted
  <2> QED
    BY <1>0, <1>3, <2>2 DEF Finished, Resumed
<1>4. CASE Skipped(w, v, list)
  <2>1. /\ b \in w.seen /\ v.at = w.at + 1 /\ v.want = w.want
        /\ v.stack = w.stack /\ v.seen = w.seen
    BY <1>4 DEF Skipped
  <2>2. w.want \in DOMAIN made /\ k <= base + 2 * (w.at - 1)
    BY <2>1 DEF Diverted
  <2>3. k + 1 <= base + 2 * (v.at - 1)
    BY <1>0, <1>1, <2>1, <2>2, SMTT(30)
  <2> QED
    BY <2>1, <2>2, <2>3 DEF Diverted
<1>5. CASE Visited(w, v, n, list)
  <2>1. /\ w.at \in 1 .. L /\ b \notin w.seen
        /\ v.at = (IF b = Genesis THEN L + 1 ELSE w.at + 1)
        /\ v.want = made[b].prev /\ v.stack = w.stack /\ v.seen = w.seen \union {b}
    BY <1>5 DEF Visited
  <2>2. CASE b = Genesis
    <3>1. v.want = NoBlock /\ v.at = L + 1
      BY <2>1, <2>2 DEF TimesOK
    <3>2. k + 1 <= base + 2 * L
      BY <1>0, <1>2, <2>1, SMTT(30)
    <3> QED
      BY <2>1, <2>2, <3>1, <3>2
  <2>3. CASE b # Genesis
    <3>1. v.want \in DOMAIN made /\ v.at = w.at + 1
      BY <1>0, <2>1, <2>3
    <3>2. k + 1 <= base + 2 * (v.at - 1)
      <4>1. L \in Nat /\ w.at \in 1 .. L + 1 /\ v.at = w.at + 1
        BY <1>0, <1>1, <3>1
      <4> HIDE DEF L, b
      <4> QED
        BY <1>2, <4>1
    <3> QED
      BY <2>1, <3>1, <3>2 DEF Diverted
  <2> QED
    BY <2>2, <2>3
<1>6. CASE Interrupted(w, v, list)
  <2>1. /\ w.at \in 1 .. L /\ b \notin w.seen /\ w.want # NoBlock
        /\ v.at = w.at /\ v.want = NoBlock /\ v.stack # <<>> /\ v.seen = w.seen
    BY <1>6 DEF Interrupted
  <2>2. k <= base + 2 * (w.at - 1)
    BY <2>1 DEF Diverted
  <2>3. k + 1 <= base + 2 * (v.at - 1) + 1
    BY <1>0, <1>1, <2>1, <2>2
  <2> QED
    BY <2>1, <2>3 DEF Diverted
<1> QED
  BY <1>3, <1>4, <1>5, <1>6 DEF Moved

LEMMA FirstPassMove ==
  ASSUME IInv, TimesOK, NEW n \in Nodes, NEW list, InOrder(list, n),
         NEW w \in Walk(list), NEW v \in Walk(list), NEW k \in Nat,
         FirstPass(w, k, list), Moved(w, v, n, list)
  PROVE  v.errors \/ FirstPass(v, k + 1, list) \/ SecondPass(v, k + 1, list)
<1> DEFINE L == Len(list)
<1>0. L \in Nat /\ NoBlock \notin DOMAIN made /\ w.at \in 1 .. L + 1 /\ v.at \in 1 .. L + 1
  BY ListFacts DEF Walk
<1>1. CASE Diverted(w, k, 0, list)
  <2>1. \/ v.errors
        \/ v.stack # <<>>
           /\ \/ Diverted(v, k + 1, 0, list)
              \/ /\ v.at = Len(list) + 1 /\ v.want = NoBlock
                 /\ Genesis \in v.seen /\ k + 1 <= 0 + 2 * Len(list)
    BY <1>1, DivertedMove DEF FirstPass
  <2>2. 0 + 2 * Len(list) = 2 * Len(list)
    BY <1>0
  <2> QED
    BY <2>1, <2>2 DEF FirstPass
<1>2. CASE w.at = L + 1 /\ w.want = NoBlock /\ Genesis \in w.seen /\ k <= 2 * L
  <2>1. Resumed(w, v, list)
    BY <1>0, <1>2 DEF FirstPass, Moved, Finished, Skipped, Visited, Interrupted
  <2>2. v.at \in 2 .. L + 1 /\ v.want \in DOMAIN made /\ v.seen = w.seen
    BY <2>1 DEF Resumed
  <2>3. k + 1 <= (2 * L - 1) + 2 * (v.at - 1)
    BY <1>0, <1>2, <2>2
  <2> QED
    BY <1>2, <2>2, <2>3 DEF SecondPass, Diverted
<1> QED
  BY <1>1, <1>2 DEF FirstPass

LEMMA SecondPassMove ==
  ASSUME IInv, TimesOK, NEW n \in Nodes, NEW list, InOrder(list, n),
         NEW w \in Walk(list), NEW v \in Walk(list), NEW k \in Nat,
         SecondPass(w, k, list), Moved(w, v, n, list)
  PROVE  v.errors \/ SecondPass(v, k + 1, list)
<1>1. 2 * Len(list) - 1 \in Int
  BY ListFacts
<1> QED
  BY <1>1, DivertedMove DEF SecondPass

LEMMA ArrivedMove ==
  ASSUME NEW n \in Nodes, NEW list, Len(list) \in Nat,
         NEW w, NEW v, Arrived(w, n, list), Moved(w, v, n, list)
  PROVE  Arrived(v, n, list)
<1>1. Finished(w, v, list)
  BY DEF Arrived, Moved, Resumed, Skipped, Visited, Interrupted
<1> QED
  BY <1>1 DEF Arrived, Finished

\* The walk comes to an end within its steps, with an error or at the genesis block.
LEMMA WalkEnds ==
  ASSUME IInv, TimesOK, NEW n \in Nodes, NEW list, InOrder(list, n), Genesis \in chain[n],
         NEW walks, IsWalk(walks, n, list)
  PROVE  LET w == walks[Steps(list)] IN w.errors \/ Arrived(w, n, list)
<1> DEFINE L == Len(list)
           N == Steps(list)
           Phase(k) == \/ walks[k].errors \/ Straight(walks[k], k, n, list)
                       \/ Arrived(walks[k], n, list) \/ FirstPass(walks[k], k, list)
                       \/ SecondPass(walks[k], k, list)
           good == {k \in 0 .. N : Phase(k)}
<1>0. L \in Nat /\ N \in Nat /\ N = (L + 1) * (L + 2)
  BY ListFacts DEF Steps
<1>1. /\ \A k \in 0 .. N : walks[k] \in Walk(list)
      /\ walks[0] = Start(n)
      /\ \A k \in 1 .. N : Moved(walks[k - 1], walks[k], n, list)
  BY DEF IsWalk
<1> HIDE DEF N
<1>2. 0 \in good
  <2>1. Straight(walks[0], 0, n, list)
    BY <1>0, <1>1, StraightStart
  <2> QED
    BY <1>0, <2>1
<1>3. ASSUME NEW k \in 1 .. N, k - 1 \in good PROVE k \in good
  <2>1. /\ k - 1 \in Nat /\ (k - 1) + 1 = k /\ k \in 0 .. N /\ k - 1 \in 0 .. N
        /\ Moved(walks[k - 1], walks[k], n, list)
        /\ walks[k - 1] \in Walk(list) /\ walks[k] \in Walk(list)
    BY <1>0, <1>1
  <2>2. Phase(k - 1)
    BY <1>3
  <2>3. Phase(k)
    <3>1. CASE walks[k - 1].errors
      BY <2>1, <3>1, ErrorsStay
    <3>2. CASE Straight(walks[k - 1], k - 1, n, list)
      <4>1. \/ walks[k].errors \/ Straight(walks[k], (k - 1) + 1, n, list)
            \/ Arrived(walks[k], n, list) \/ FirstPass(walks[k], (k - 1) + 1, list)
        BY <2>1, <3>2, StraightMove
      <4> QED
        BY <2>1, <4>1
    <3>3. CASE Arrived(walks[k - 1], n, list)
      BY <1>0, <2>1, <3>3, ArrivedMove
    <3>4. CASE FirstPass(walks[k - 1], k - 1, list)
      <4>1. \/ walks[k].errors \/ FirstPass(walks[k], (k - 1) + 1, list)
            \/ SecondPass(walks[k], (k - 1) + 1, list)
        BY <2>1, <3>4, FirstPassMove
      <4> QED
        BY <2>1, <4>1
    <3>5. CASE SecondPass(walks[k - 1], k - 1, list)
      <4>1. walks[k].errors \/ SecondPass(walks[k], (k - 1) + 1, list)
        BY <2>1, <3>5, SecondPassMove
      <4> QED
        BY <2>1, <4>1
    <3> QED
      BY <2>2, <3>1, <3>2, <3>3, <3>4, <3>5
  <2> HIDE DEF Phase
  <2> QED
    BY <2>1, <2>3
<1> HIDE DEF good
<1>4. good \in SUBSET (0 .. N)
  BY DEF good
<1>5. good = 0 .. N
  BY <1>0, <1>2, <1>3, <1>4, UpTo
<1>6. Phase(N)
  BY <1>0, <1>5 DEF good
<1>7. N = L * L + 3 * L + 2 /\ L * L >= L /\ L * L \in Nat
  <2>1. L = 0 \/ L >= 1
    BY <1>0
  <2> QED
    BY <1>0, <2>1
<1>8. walks[N].at \in 1 .. L + 1
  BY <1>0, <1>1 DEF Walk
<1>9. ~Straight(walks[N], N, n, list)
  BY <1>0, <1>7 DEF Straight
<1>10. ~FirstPass(walks[N], N, list)
  BY <1>0, <1>7, <1>8 DEF FirstPass, Diverted
<1>11. ~SecondPass(walks[N], N, list)
  BY <1>0, <1>7, <1>8 DEF SecondPass, Diverted
<1> QED
  BY <1>6, <1>9, <1>10, <1>11 DEF N

-----------------------------------------------------------------------------
(* A chain in line, and its list *)

\* A root at the end of one line of the list: the chain is in line.
LEMMA RootedInLine ==
  ASSUME IInv, TimesOK, NEW n \in Nodes, NEW list, InOrder(list, n), Rooted(n, list)
  PROVE  InLine(n)
<1> DEFINE L == Len(list)
<1>0. /\ L \in Nat /\ NoBlock \notin DOMAIN made
      /\ \A i \in 1 .. L : /\ list[i] \in chain[n] /\ list[i] \in DOMAIN made
                           /\ list[i] # Genesis => made[list[i]].prev \in DOMAIN made
      /\ \A i, j \in 1 .. L : list[i] = list[j] => i = j
      /\ \A b \in chain[n] : \E i \in 1 .. L : list[i] = b
      /\ \A i, j \in 1 .. L : i < j => made[list[i]].time >= made[list[j]].time
  BY ListFacts
<1>1. PICK m \in 1 .. L : list[m] = Genesis /\ OneLine(m, n, list)
  BY DEF Rooted
<1>2. m = L
  <2>1. ASSUME m < L PROVE FALSE
    <3>1. L \in 1 .. L /\ m # L
      BY <1>0, <1>1, <2>1
    <3>2. list[L] # Genesis /\ list[L] \in DOMAIN made
      BY <1>0, <1>1, <3>1
    <3>3. made[list[L]].time \in 1 .. 2 * list[L] /\ made[Genesis].time = 0
      BY <3>2 DEF TimesOK
    <3>4. made[Genesis].time >= made[list[L]].time
      BY <1>0, <1>1, <2>1, <3>1
    <3> QED
      BY <3>3, <3>4
  <2> QED
    BY <1>0, <1>1, <2>1
<1>3. Genesis \in chain[n] /\ list[L] = Genesis /\ L \in 1 .. L
  BY <1>0, <1>1, <1>2
<1>4. forged[n] = {}
  <2>1. forged[n] \subseteq chain[n]
    BY DEF IInv, TypeOK
  <2>2. \A b \in chain[n] : b \notin forged[n]
    BY <1>0, <1>1, <1>2 DEF OneLine
  <2> QED
    BY <2>1, <2>2
<1>5. ASSUME NEW b \in chain[n], b # Genesis
      PROVE  \E i \in 1 .. L : /\ i + 1 \in 1 .. L /\ b = list[i]
                               /\ made[b].prev = list[i + 1]
  <2>1. PICK i \in 1 .. L : list[i] = b
    BY <1>0
  <2>2. i # L
    BY <1>3, <1>5, <2>1
  <2>3. i + 1 \in 1 .. L /\ i + 1 \in 2 .. m /\ (i + 1) - 1 = i
    BY <1>0, <1>2, <2>2
  <2>4. list[i + 1] = made[list[i]].prev
    BY <1>1, <2>3 DEF OneLine
  <2> QED
    BY <2>1, <2>3, <2>4
<1>6. ASSUME NEW b \in chain[n] \ {Genesis}
      PROVE  made[b].prev \in chain[n] /\ made[made[b].prev].time < made[b].time
  <2>1. PICK i \in 1 .. L : i + 1 \in 1 .. L /\ b = list[i] /\ made[b].prev = list[i + 1]
    BY <1>5
  <2>2. made[b].prev \in chain[n] /\ b \in DOMAIN made /\ made[b].prev \in DOMAIN made
    BY <1>0, <2>1
  <2>3. made[b].time >= made[made[b].prev].time
    BY <1>0, <2>1
  <2>4. made[b].time # made[made[b].prev].time
    BY <2>2 DEF TimesOK
  <2>5. made[b].time \in Nat /\ made[made[b].prev].time \in Nat
    BY <2>2, ChainFinite
  <2> QED
    BY <2>2, <2>3, <2>4, <2>5
<1>7. ASSUME NEW b \in chain[n], NEW c \in chain[n], b # c
      PROVE  made[b].prev # made[c].prev
  <2>1. made[Genesis].prev = NoBlock
    BY DEF TimesOK
  <2>2. CASE b = Genesis \/ c = Genesis
    <3>1. ASSUME NEW d \in chain[n], d # Genesis PROVE made[d].prev # NoBlock
      <4>1. PICK i \in 1 .. L : list[i] = d
        BY <1>0
      <4> QED
        BY <1>0, <3>1, <4>1
    <3> QED
      BY <1>7, <2>1, <2>2, <3>1
  <2>3. CASE b # Genesis /\ c # Genesis
    <3>1. PICK i \in 1 .. L : i + 1 \in 1 .. L /\ b = list[i] /\ made[b].prev = list[i + 1]
      BY <1>5, <2>3
    <3>2. PICK j \in 1 .. L : j + 1 \in 1 .. L /\ c = list[j] /\ made[c].prev = list[j + 1]
      BY <1>5, <2>3
    <3>3. i + 1 # j + 1
      BY <1>0, <1>7, <3>1, <3>2
    <3> QED
      BY <1>0, <3>1, <3>2, <3>3
  <2> QED
    BY <2>2, <2>3
<1> QED
  BY <1>3, <1>4, <1>6, <1>7 DEF InLine

\* The list of a chain in line is that line, from its last block to the genesis block.
LEMMA InLineListed ==
  ASSUME IInv, TimesOK, NEW n \in Nodes, NEW list, InOrder(list, n), InLine(n)
  PROVE  /\ Len(list) # 0 /\ list[Len(list)] = Genesis
         /\ \A i \in 1 .. Len(list) - 1 : list[i] # Genesis /\ list[i + 1] = made[list[i]].prev
<1> DEFINE L == Len(list)
<1>0. /\ L \in Nat /\ NoBlock \notin DOMAIN made
      /\ \A i \in 1 .. L : list[i] \in chain[n] /\ list[i] \in DOMAIN made
      /\ \A i, j \in 1 .. L : list[i] = list[j] => i = j
      /\ \A b \in chain[n] : \E i \in 1 .. L : list[i] = b
      /\ \A i, j \in 1 .. L : i < j => made[list[i]].time >= made[list[j]].time
      /\ \A b \in DOMAIN made : made[b].time \in Nat
  BY ListFacts, ChainFinite
<1>1. Genesis \in chain[n]
  BY DEF InLine
<1>2. L # 0 /\ L \in 1 .. L
  BY <1>0, <1>1
<1>3. ASSUME NEW i \in 1 .. L, list[i] # Genesis
      PROVE  \E j \in 1 .. L : i < j /\ list[j] = made[list[i]].prev
  <2>1. /\ made[list[i]].prev \in chain[n]
        /\ made[made[list[i]].prev].time < made[list[i]].time
    BY <1>0, <1>3 DEF InLine
  <2>2. PICK j \in 1 .. L : list[j] = made[list[i]].prev
    BY <1>0, <2>1
  <2>3. made[list[j]].time < made[list[i]].time /\ made[list[j]].time \in Nat
        /\ made[list[i]].time \in Nat
    BY <1>0, <2>1, <2>2
  <2>4. i # j /\ ~(j < i)
    BY <1>0, <2>3
  <2>5. i < j
    BY <1>0, <2>4
  <2> QED
    BY <2>2, <2>5
<1>4. list[L] = Genesis
  <2>1. \A j \in 1 .. L : ~(L < j)
    BY <1>0
  <2> QED
    BY <1>2, <1>3, <2>1
<1> DEFINE K == L - 1
<1>5. K \in Nat /\ \A i \in 1 .. K : i \in 1 .. L /\ i + 1 \in 1 .. L /\ i # L /\ i \in 0 .. K
  BY <1>0, <1>2
<1>6. \A i \in 1 .. K : list[i] # Genesis
  BY <1>0, <1>2, <1>4, <1>5
<1> DEFINE bad == {i \in 1 .. K : list[i + 1] # made[list[i]].prev}
<1>7. ASSUME bad # {} PROVE FALSE
  <2>1. bad \in SUBSET (0 .. K)
    BY <1>5
  <2> HIDE DEF bad
  <2>2. PICK i \in bad : \A m \in bad : m <= i
    BY <1>5, <1>7, <2>1, Greatest
  <2>3. i \in 1 .. K /\ list[i + 1] # made[list[i]].prev
    BY DEF bad
  <2>4. PICK j \in 1 .. L : i < j /\ list[j] = made[list[i]].prev
    BY <1>3, <1>5, <1>6, <2>3
  <2>5. j # i + 1
    BY <2>3, <2>4
  <2>6. j - 1 \in 1 .. K /\ ~(j - 1 <= i) /\ (j - 1) + 1 = j /\ j - 1 # i
    BY <1>0, <2>3, <2>4, <2>5
  <2>7. j - 1 \notin bad
    BY <2>2, <2>6
  <2>8. list[j] = made[list[j - 1]].prev
    BY <2>6, <2>7 DEF bad
  <2>9. list[i] \in chain[n] /\ list[j - 1] \in chain[n] /\ list[i] # list[j - 1]
    BY <1>0, <1>5, <2>3, <2>6
  <2> QED
    BY <2>4, <2>8, <2>9 DEF InLine
<1> HIDE DEF K
<1>8. \A i \in 1 .. K : list[i + 1] = made[list[i]].prev
  BY <1>7
<1> QED
  BY <1>2, <1>4, <1>6, <1>8 DEF K

\* Over a chain in line the walk never finds an error.
LEMMA NoErrorInLine ==
  ASSUME IInv, TimesOK, NEW n \in Nodes, NEW list, InOrder(list, n), InLine(n),
         NEW walks, IsWalk(walks, n, list)
  PROVE  ~walks[Steps(list)].errors
<1> DEFINE L == Len(list)
           N == Steps(list)
           Phase(k) == Straight(walks[k], k, n, list) \/ Arrived(walks[k], n, list)
           good == {k \in 0 .. N : Phase(k)}
<1>0. L \in Nat /\ N \in Nat
  BY ListFacts DEF Steps
<1>1. /\ \A k \in 0 .. N : walks[k] \in Walk(list)
      /\ walks[0] = Start(n)
      /\ \A k \in 1 .. N : Moved(walks[k - 1], walks[k], n, list)
  BY DEF IsWalk
<1>2. Genesis \in chain[n] /\ forged[n] = {}
  BY DEF InLine
<1>3. /\ L # 0 /\ list[L] = Genesis
      /\ \A i \in 1 .. L - 1 : list[i] # Genesis /\ list[i + 1] = made[list[i]].prev
  BY InLineListed
<1> HIDE DEF N
<1>4. 0 \in good
  BY <1>0, <1>1, <1>2, StraightStart
<1>5. ASSUME NEW k \in 1 .. N, k - 1 \in good PROVE k \in good
  <2>1. /\ k - 1 \in Nat /\ (k - 1) + 1 = k /\ k \in 0 .. N /\ k - 1 \in 0 .. N
        /\ Moved(walks[k - 1], walks[k], n, list)
        /\ walks[k - 1] \in Walk(list) /\ walks[k] \in Walk(list)
    BY <1>0, <1>1
  <2>2. Phase(k - 1)
    BY <1>5
  <2>3. CASE Arrived(walks[k - 1], n, list)
    BY <1>0, <2>1, <2>3, ArrivedMove
  <2>4. CASE Straight(walks[k - 1], k - 1, n, list)
    <3> DEFINE w == walks[k - 1]
               v == walks[k]
    <3>1. \/ v.errors \/ Straight(v, (k - 1) + 1, n, list) \/ Arrived(v, n, list)
          \/ FirstPass(v, (k - 1) + 1, list)
      BY <1>2, <2>1, <2>4, StraightMove
    <3>2. ~w.errors /\ w.stack = <<>> /\ w.at = k /\ k - 1 \in 0 .. L
          /\ w.want = (IF k - 1 = 0 THEN NoBlock ELSE made[list[k - 1]].prev)
          /\ w.seen = {list[i] : i \in 1 .. k - 1} /\ Genesis \notin w.seen
      BY <2>1, <2>4 DEF Straight
    <3>3. k \in 1 .. L
      <4>1. k - 1 # L
        <5>1. k - 1 = L => list[L] \in w.seen
          BY <1>0, <1>3, <3>2
        <5> QED
          BY <1>3, <3>2, <5>1
      <4> QED
        BY <1>0, <3>2, <4>1
    <3>4. w.want \in {NoBlock, list[k]}
      <4>1. k - 1 # 0 => k - 1 \in 1 .. L - 1
        BY <1>0, <3>3
      <4> QED
        BY <1>3, <2>1, <3>2, <4>1
    <3> HIDE DEF w, v
    <3>5. ~Finished(w, v, list) /\ ~Resumed(w, v, list) /\ ~Interrupted(w, v, list)
      BY <1>0, <3>2, <3>3, <3>4 DEF Finished, Resumed, Interrupted
    <3>6. Skipped(w, v, list) \/ Visited(w, v, n, list)
      BY <2>1, <3>5 DEF Moved, w, v
    <3>7. ~v.errors /\ v.stack = <<>>
      BY <1>2, <3>2, <3>6 DEF Skipped, Visited
    <3> QED
      BY <2>1, <3>1, <3>7 DEF FirstPass, v
  <2>5. Phase(k)
    BY <2>2, <2>3, <2>4
  <2> HIDE DEF Phase
  <2> QED
    BY <2>1, <2>5
<1> HIDE DEF good
<1>6. good \in SUBSET (0 .. N)
  BY DEF good
<1>7. good = 0 .. N
  BY <1>0, <1>4, <1>5, <1>6, UpTo
<1>8. Phase(N)
  BY <1>0, <1>7 DEF good
<1> QED
  BY <1>8 DEF N, Straight, Arrived

\* Without the genesis block there is an error from the beginning.
LEMMA ErrorWithoutGenesis ==
  ASSUME IInv, NEW n \in Nodes, NEW list, InOrder(list, n), Genesis \notin chain[n],
         NEW walks, IsWalk(walks, n, list)
  PROVE  walks[Steps(list)].errors
<1> DEFINE N == Steps(list)
           good == {k \in 0 .. N : walks[k].errors}
<1>0. N \in Nat
  BY ChainFinite DEF InOrder, Steps
<1>1. /\ walks[0] = Start(n)
      /\ \A k \in 1 .. N : Moved(walks[k - 1], walks[k], n, list)
  BY DEF IsWalk
<1> HIDE DEF N
<1>2. 0 \in good
  <2>1. Start(n).errors
    BY DEF Start
  <2> QED
    BY <1>0, <1>1, <2>1
<1>3. ASSUME NEW k \in 1 .. N, k - 1 \in good PROVE k \in good
  <2>1. k \in 0 .. N /\ Moved(walks[k - 1], walks[k], n, list)
    BY <1>0, <1>1
  <2>2. walks[k - 1].errors
    BY <1>3
  <2>3. walks[k].errors
    BY <2>1, <2>2, ErrorsStay
  <2> QED
    BY <2>1, <2>3
<1> HIDE DEF good
<1>4. good \in SUBSET (0 .. N)
  BY DEF good
<1>5. good = 0 .. N
  BY <1>0, <1>2, <1>3, <1>4, UpTo
<1>6. N \in good
  BY <1>0, <1>5
<1> QED
  BY <1>6 DEF good, N

\* The diagnosis of the code, over the blocks in any order of their timestamps
LEMMA DiagnosisRight ==
  ASSUME IInv, TimesOK, NEW n \in Nodes, NEW list, InOrder(list, n)
  PROVE  Walked(n, list).errors <=> ~InLine(n)
<1>1. PICK walks : IsWalk(walks, n, list) /\ Walked(n, list) = walks[Steps(list)]
  BY WalkedByMoves
<1>2. CASE Genesis \notin chain[n]
  <2>1. ~InLine(n)
    BY <1>2 DEF InLine
  <2> QED
    BY <1>1, <1>2, <2>1, ErrorWithoutGenesis
<1>3. CASE Genesis \in chain[n]
  <2>1. InLine(n) => ~walks[Steps(list)].errors
    BY <1>1, NoErrorInLine
  <2>2. walks[Steps(list)].errors \/ Arrived(walks[Steps(list)], n, list)
    BY <1>1, <1>3, WalkEnds
  <2>3. Arrived(walks[Steps(list)], n, list) => InLine(n)
    BY RootedInLine DEF Arrived
  <2> QED
    BY <1>1, <2>1, <2>2, <2>3
<1> QED
  BY <1>2, <1>3

\* reportHealthOfChain finds no error if and only if the chain is one line of verified
\* blocks from the genesis block on, each with a later timestamp than the one before: a
\* fork, a block that is missing, a falsified one, and clocks that disagree are reported
\* on a chain of any length, whichever walks interrupt each other.
THEOREM DiagnosisIsRight == Spec => []ReportRight
<1>1. IInv /\ TimesOK => ReportRight
  <2> SUFFICES ASSUME IInv, TimesOK, NEW n \in Nodes
               PROVE  Report(n).errors <=> ~InLine(n)
    BY DEF ReportRight
  <2>1. Report(n) = Walked(n, Listed(n))
    BY DEF Report
  <2> QED
    BY <2>1, ListedInOrder, DiagnosisRight
<1>2. Init => TimesOK
  BY TimesInit
<1>3. IInv /\ TimesOK /\ [Next]_vars => TimesOK'
  BY TimesStep
<1> QED
  BY <1>1, <1>2, <1>3, Invariance, PTL DEF Spec
=============================================================================
