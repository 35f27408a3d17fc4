----------------------------- MODULE PyGlint_proofs -----------------------------
(***************************************************************************)
(* Proofs about pyglint, for every pair of grids, every sheet and every     *)
(* forcing: what the climate is told of the ice fits in its boxes, what the *)
(* sheets are given of the climate lies between what it had, and has its    *)
(* total.  Numbers are exact: rounding is not in the model.                 *)
(***************************************************************************)
EXTENDS PyGlint, Finite_proofs

-------------------------------------------------------------------------------
(* Numbers, and what is none *)

\* A rational is none of the two values that stand for no number.
LEMMA NumberIs ==
  /\ ~Finite(NaN) /\ ~Finite(Masked) /\ Finite(Zero) /\ Zero \in Rationals
  /\ \A q \in Rationals : Finite(q) /\ q # NaN /\ q # Masked
<1>1. ASSUME NEW q \in Rationals PROVE Finite(q)
  BY RationalIs DEF Finite
<1>2. ~Finite(NaN) /\ ~Finite(Masked)
  BY DEF Finite, NaN, Masked
<1> QED
  BY <1>1, <1>2, ZeroIs

\* Arithmetic on fields: that of the rationals, or no number if either is none.
LEMMA NanOperations ==
  ASSUME NEW p, NEW q
  PROVE  /\ p \in Rationals /\ q \in Rationals =>
              /\ NanPlus(p, q) = Plus(p, q) /\ NanPlus(p, q) \in Rationals
              /\ NanTimes(p, q) = Times(p, q) /\ NanTimes(p, q) \in Rationals
              /\ q # Zero => NanOver(p, q) = Over(p, q) /\ NanOver(p, q) \in Rationals
         /\ ~Finite(p) \/ ~Finite(q) =>
              NanPlus(p, q) = NaN /\ NanTimes(p, q) = NaN /\ NanOver(p, q) = NaN
<1>1. ASSUME p \in Rationals, q \in Rationals
      PROVE  /\ NanPlus(p, q) = Plus(p, q) /\ NanPlus(p, q) \in Rationals
             /\ NanTimes(p, q) = Times(p, q) /\ NanTimes(p, q) \in Rationals
             /\ q # Zero => NanOver(p, q) = Over(p, q) /\ NanOver(p, q) \in Rationals
  <2>1. Finite(p) /\ Finite(q)
    BY <1>1, NumberIs
  <2>2. Plus(p, q) \in Rationals
    BY <1>1, PlusLaws, Zenon
  <2>3. Times(p, q) \in Rationals
    BY <1>1, TimesLaws, Zenon
  <2>4. q # Zero => Over(p, q) \in Rationals
    BY <1>1, OverIs
  <2> QED
    BY <2>1, <2>2, <2>3, <2>4 DEF NanPlus, NanTimes, NanOver
<1>2. ~Finite(p) \/ ~Finite(q) =>
        NanPlus(p, q) = NaN /\ NanTimes(p, q) = NaN /\ NanOver(p, q) = NaN
  BY DEF NanPlus, NanTimes, NanOver
<1> QED
  BY <1>1, <1>2

-------------------------------------------------------------------------------
(* The definition of a sum *)

IsNanSumming(sum, f, S) ==
  sum = [s \in SUBSET S |-> IF s = {} THEN Zero ELSE NanPlus(f[OneOf(s)], sum[s \ {OneOf(s)}])]

NanSumming(f, S) == CHOOSE sum : IsNanSumming(sum, f, S)

SumOver(f, S) == NanSumming(f, S)[S]

\* Sum is over the whole domain.
LEMMA SumIs == ASSUME NEW f PROVE Sum(f) = SumOver(f, DOMAIN f)
BY DEF Sum, FoldFunction, FoldFunctionOnSet, MapThenFoldSet, SumOver, NanSumming, IsNanSumming, OneOf

\* There is such a function over the subsets of a finite set: one over those of n elements
\* can be extended to those of n + 1.
LEMMA NanSummingExists ==
  ASSUME NEW field, NEW S, IsFiniteSet(S)
  PROVE  IsNanSumming(NanSumming(field, S), field, S)
<1> DEFINE UpTo(n) == {s \in SUBSET S : Cardinality(s) <= n}
           Body(sum, s) == IF s = {} THEN Zero ELSE NanPlus(field[OneOf(s)], sum[s \ {OneOf(s)}])
           IsPart(sum, n) == sum = [s \in UpTo(n) |-> Body(sum, s)]
           Missing == {n \in Nat : ~ \E sum : IsPart(sum, n)}
<1>1. \A s \in SUBSET S : IsFiniteSet(s) /\ Cardinality(s) \in Nat
  BY FS_Subset, FS_CardinalityType
<1>2. \A s \in SUBSET S : s # {} => /\ OneOf(s) \in s
                                    /\ Cardinality(s \ {OneOf(s)}) = Cardinality(s) - 1
  <2> SUFFICES ASSUME NEW s \in SUBSET S, s # {}
               PROVE  OneOf(s) \in s /\ Cardinality(s \ {OneOf(s)}) = Cardinality(s) - 1
    OBVIOUS
  <2>1. OneOf(s) \in s
    BY DEF OneOf
  <2> QED
    BY <1>1, <2>1, FS_RemoveElement
<1>3. Missing = {}
  <2> SUFFICES ASSUME Missing # {} PROVE FALSE
    OBVIOUS
  <2>1. PICK n \in Missing : \A m \in Missing : <<m, n>> \notin OpToRel(<, Nat)
    <3>1. Missing \subseteq Nat
      OBVIOUS
    <3> HIDE DEF Missing
    <3> QED
      BY <3>1, NatLessThanWellFounded, WFMin
  <2>2. n \in Nat /\ \A m \in Missing : ~(m < n)
    BY <2>1 DEF OpToRel
  <2>3. CASE n = 0
    <3>1. \A s \in UpTo(0) : s = {}
      BY <1>1, FS_EmptySet
    <3> DEFINE sum == [s \in UpTo(0) |-> Zero]
    <3>2. IsPart(sum, 0)
      BY <3>1
    <3> QED
      BY <2>3, <3>2
  <2>4. CASE n # 0
    <3>0. n - 1 \in Nat /\ n - 1 < n
      BY <2>2, <2>4
    <3>1. n - 1 \notin Missing
      <4> HIDE DEF Missing
      <4> QED
        BY <2>2, <3>0
    <3>2. PICK part : IsPart(part, n - 1)
      BY <3>0, <3>1
    <3> DEFINE sum == [s \in UpTo(n) |-> Body(part, s)]
    <3>3. ASSUME NEW s \in UpTo(n) PROVE Body(part, s) = Body(sum, s)
      <4>1. CASE s = {}
        BY <4>1
      <4>2. CASE s # {}
        <5> DEFINE t == s \ {OneOf(s)}
        <5>1. t \in UpTo(n - 1) /\ t \in UpTo(n)
          BY <1>1, <1>2, <2>2, <4>2
        <5>2. part[t] = Body(part, t)
          BY <3>2, <5>1
        <5>3. sum[t] = part[t]
          BY <5>1, <5>2
        <5> QED
          BY <4>2, <5>3
      <4> QED
        BY <4>1, <4>2
    <3>4. IsPart(sum, n)
      BY <3>3
    <3> QED
      BY <3>4
  <2> QED
    BY <2>3, <2>4
<1>4. Cardinality(S) \in Nat
  BY <1>1
<1>5. PICK sum : IsPart(sum, Cardinality(S))
  BY <1>3, <1>4
<1>6. UpTo(Cardinality(S)) = SUBSET S
  BY <1>1, FS_Subset
<1>7. IsNanSumming(sum, field, S)
  BY <1>5, <1>6 DEF IsNanSumming
<1> QED
  BY <1>7 DEF NanSumming

\* A total over a subset of a finite set, whichever set it is found in.
LEMMA NanSummingAgrees ==
  ASSUME NEW field, NEW S, IsFiniteSet(S), NEW T \in SUBSET S
  PROVE  NanSumming(field, S)[T] = SumOver(field, T)
<1> DEFINE f == NanSumming(field, S)
           g == NanSumming(field, T)
           Good == {s \in SUBSET T : f[s] = g[s]}
<1>1. IsFiniteSet(T)
  BY FS_Subset
<1>2. IsNanSumming(f, field, S) /\ IsNanSumming(g, field, T)
  BY <1>1, NanSummingExists
<1>3. {} \in Good
  BY <1>2 DEF IsNanSumming
<1>4. ASSUME NEW s \in SUBSET T, s # {} PROVE \E x \in s : s \ {x} \in Good => s \in Good
  <2>1. OneOf(s) \in s
    BY <1>4 DEF OneOf
  <2>2. /\ f[s] = NanPlus(field[OneOf(s)], f[s \ {OneOf(s)}])
        /\ g[s] = NanPlus(field[OneOf(s)], g[s \ {OneOf(s)}])
    BY <1>2, <1>4 DEF IsNanSumming
  <2> QED
    BY <2>1, <2>2
<1>5. T \in Good
  <2> HIDE DEF Good
  <2> QED
    BY <1>1, <1>3, <1>4, FiniteSetsGrow
<1> QED
  BY <1>5 DEF SumOver

\* Nothing adds up to zero.
LEMMA SumEmpty == ASSUME NEW field PROVE SumOver(field, {}) = Zero
<1>1. IsNanSumming(NanSumming(field, {}), field, {})
  BY NanSummingExists, FS_EmptySet
<1> QED
  BY <1>1 DEF IsNanSumming, SumOver

\* One term, and the rest.
LEMMA SumStep ==
  ASSUME NEW field, NEW S, IsFiniteSet(S), S # {}
  PROVE  OneOf(S) \in S /\ SumOver(field, S) = NanPlus(field[OneOf(S)], SumOver(field, S \ {OneOf(S)}))
<1>1. OneOf(S) \in S
  BY DEF OneOf
<1>2. IsNanSumming(NanSumming(field, S), field, S)
  BY NanSummingExists
<1>3. NanSumming(field, S)[S] = NanPlus(field[OneOf(S)], NanSumming(field, S)[S \ {OneOf(S)}])
  BY <1>2 DEF IsNanSumming
<1> QED
  BY <1>1, <1>3, NanSummingAgrees DEF SumOver

-------------------------------------------------------------------------------
(* What is summed *)

\* Rationals add up to a rational.
LEMMA SumRational ==
  ASSUME NEW f, NEW S, IsFiniteSet(S), \A x \in S : f[x] \in Rationals
  PROVE  SumOver(f, S) \in Rationals
<1> DEFINE Good == {T \in SUBSET S : SumOver(f, T) \in Rationals}
<1>1. {} \in Good
  BY SumEmpty, ZeroIs
<1>2. ASSUME NEW T \in SUBSET S, T # {} PROVE \E x \in T : T \ {x} \in Good => T \in Good
  <2>1. IsFiniteSet(T)
    BY FS_Subset
  <2>2. PICK x \in T : SumOver(f, T) = NanPlus(f[x], SumOver(f, T \ {x}))
    BY <1>2, <2>1, SumStep
  <2> DEFINE rest == SumOver(f, T \ {x})
  <2>3. f[x] \in Rationals
    OBVIOUS
  <2>4. rest \in Rationals => SumOver(f, T) \in Rationals
    <3> HIDE DEF rest
    <3> QED
      BY <2>2, <2>3, NanOperations DEF rest
  <2> QED
    BY <2>4
<1>3. S \in Good
  <2> HIDE DEF Good
  <2> QED
    BY <1>1, <1>2, FiniteSetsGrow
<1> QED
  BY <1>3

\* One that is not a number makes the sum none.
LEMMA SumNaN ==
  ASSUME NEW f, NEW S, IsFiniteSet(S), \E x \in S : ~Finite(f[x])
  PROVE  SumOver(f, S) = NaN
<1> DEFINE Good == {T \in SUBSET S : (\E x \in T : ~Finite(f[x])) => SumOver(f, T) = NaN}
<1>1. {} \in Good
  OBVIOUS
<1>2. ASSUME NEW T \in SUBSET S, T # {} PROVE \E x \in T : T \ {x} \in Good => T \in Good
  <2>1. IsFiniteSet(T)
    BY FS_Subset
  <2>2. PICK x \in T : SumOver(f, T) = NanPlus(f[x], SumOver(f, T \ {x}))
    BY <1>2, <2>1, SumStep
  <2>3. ~Finite(NaN)
    BY NumberIs
  <2>4. ~Finite(f[x]) \/ ~Finite(SumOver(f, T \ {x})) => SumOver(f, T) = NaN
    BY <2>2 DEF NanPlus
  <2>5. T \ {x} \in Good => T \in Good
    BY <2>3, <2>4
  <2> QED
    BY <2>5
<1>3. S \in Good
  <2> HIDE DEF Good
  <2> QED
    BY <1>1, <1>2, FiniteSetsGrow
<1> QED
  BY <1>3

\* The order does not matter: any element may be the one that is added last.
LEMMA SumRemove ==
  ASSUME NEW f, NEW S, IsFiniteSet(S), \A x \in S : f[x] \in Rationals, NEW x \in S
  PROVE  SumOver(f, S) = Plus(f[x], SumOver(f, S \ {x}))
<1> DEFINE Splits(T) == \A y \in T : SumOver(f, T) = Plus(f[y], SumOver(f, T \ {y}))
           Good == {T \in SUBSET S : Splits(T)}
<1>1. ASSUME NEW T \in SUBSET S, \A U \in SUBSET T : U # T => U \in Good, NEW y \in T
      PROVE  SumOver(f, T) = Plus(f[y], SumOver(f, T \ {y}))
  <2> DEFINE a == OneOf(T)
             R == T \ {a}
  <2>1. \A U \in SUBSET T : IsFiniteSet(U) /\ SumOver(f, U) \in Rationals
    BY FS_Subset, SumRational
  <2>2. a \in T /\ SumOver(f, T) = Plus(f[a], SumOver(f, R))
    <3>1. a \in T /\ SumOver(f, T) = NanPlus(f[a], SumOver(f, R))
      BY <2>1, SumStep
    <3>2. f[a] \in Rationals /\ SumOver(f, R) \in Rationals
      BY <2>1, <3>1
    <3> HIDE DEF a, R
    <3> QED
      BY <3>1, <3>2, NanOperations
  <2> HIDE DEF a
  <2>3. CASE y = a
    BY <2>2, <2>3
  <2>4. CASE y # a
    <3>1. R \in Good /\ T \ {y} \in Good
      <4> HIDE DEF Good
      <4> QED
        BY <1>1, <2>2
    <3>2. SumOver(f, R) = Plus(f[y], SumOver(f, R \ {y}))
      BY <2>4, <3>1
    <3>3. SumOver(f, T \ {y}) = Plus(f[a], SumOver(f, (T \ {y}) \ {a}))
      BY <2>2, <2>4, <3>1
    <3>4. (T \ {y}) \ {a} = R \ {y} /\ R \ {y} \in SUBSET T
      OBVIOUS
    <3> DEFINE rest == SumOver(f, R \ {y})
               fa == f[a]
               fy == f[y]
    <3>5. rest \in Rationals /\ fa \in Rationals /\ fy \in Rationals
      BY <2>1, <2>2, <3>4
    <3>6. SumOver(f, T \ {y}) = Plus(fa, rest)
      BY <3>3, <3>4
    <3>7. SumOver(f, T) = Plus(fa, Plus(fy, rest))
      BY <2>2, <3>2
    <3> HIDE DEF rest, fa, fy
    <3>8. Plus(fa, Plus(fy, rest)) = Plus(fy, Plus(fa, rest))
      BY <3>5, PlusSwaps
    <3> QED
      BY <3>6, <3>7, <3>8 DEF fy
  <2> QED
    BY <2>3, <2>4
<1>2. ASSUME NEW T \in SUBSET S, \A U \in SUBSET T : U # T => U \in Good PROVE T \in Good
  <2>1. Splits(T)
    <3> HIDE DEF Good
    <3> QED
      BY <1>1, <1>2
  <2> QED
    BY <2>1
<1>3. S \in Good
  <2> HIDE DEF Good
  <2> QED
    BY <1>2, BySmallerSets
<1> QED
  BY <1>3

\* Functions that agree on a set have the same sum over it.
LEMMA SumEqual ==
  ASSUME NEW S, IsFiniteSet(S), NEW f, NEW g, \A x \in S : f[x] = g[x]
  PROVE  SumOver(f, S) = SumOver(g, S)
<1> DEFINE Good == {T \in SUBSET S : SumOver(f, T) = SumOver(g, T)}
<1>1. {} \in Good
  BY SumEmpty
<1>2. ASSUME NEW T \in SUBSET S, T # {} PROVE \E x \in T : T \ {x} \in Good => T \in Good
  <2>1. IsFiniteSet(T)
    BY FS_Subset
  <2>2. /\ OneOf(T) \in T /\ SumOver(f, T) = NanPlus(f[OneOf(T)], SumOver(f, T \ {OneOf(T)}))
        /\ SumOver(g, T) = NanPlus(g[OneOf(T)], SumOver(g, T \ {OneOf(T)}))
    BY <1>2, <2>1, SumStep
  <2>3. T \ {OneOf(T)} \in Good => T \in Good
    BY <2>2
  <2> HIDE DEF Good
  <2> QED
    BY <2>2, <2>3
<1>3. S \in Good
  <2> HIDE DEF Good
  <2> QED
    BY <1>1, <1>2, FiniteSetsGrow
<1> QED
  BY <1>3

\* What holds of zero and of the sum of two that it holds of, holds of a sum.
LEMMA SumAdditive ==
  ASSUME NEW S, IsFiniteSet(S), NEW f, NEW g, NEW h,
         \A x \in S : f[x] \in Rationals /\ g[x] \in Rationals /\ h[x] = Plus(f[x], g[x])
  PROVE  SumOver(h, S) = Plus(SumOver(f, S), SumOver(g, S))
<1> DEFINE Good == {T \in SUBSET S : SumOver(h, T) = Plus(SumOver(f, T), SumOver(g, T))}
<1>0. \A x \in S : h[x] \in Rationals
  <2>1. \A p, q \in Rationals : Plus(p, q) \in Rationals
    BY PlusLaws
  <2> QED
    BY <2>1
<1>1. {} \in Good
  <2>1. Plus(Zero, Zero) = Zero
    BY ZeroIs, PlusLaws
  <2> QED
    BY <2>1, SumEmpty
<1>2. ASSUME NEW T \in SUBSET S, T # {} PROVE \E x \in T : T \ {x} \in Good => T \in Good
  <2>1. PICK x \in T : TRUE
    BY <1>2
  <2>2. \A U \in SUBSET T : IsFiniteSet(U) /\ SumOver(f, U) \in Rationals /\ SumOver(g, U) \in Rationals
    BY FS_Subset, SumRational
  <2> DEFINE a == f[x]
             b == g[x]
             p == SumOver(f, T \ {x})
             q == SumOver(g, T \ {x})
  <2>3. a \in Rationals /\ b \in Rationals /\ p \in Rationals /\ q \in Rationals
    BY <2>2
  <2>4. SumOver(f, T) = Plus(a, p) /\ SumOver(g, T) = Plus(b, q)
    BY <2>2, SumRemove
  <2>5. SumOver(h, T) = Plus(Plus(a, b), SumOver(h, T \ {x}))
    BY <1>0, <2>2, SumRemove
  <2> HIDE DEF a, b, p, q
  <2>6. Plus(Plus(a, b), Plus(p, q)) = Plus(Plus(a, p), Plus(b, q))
    BY <2>3, PlusPairs
  <2>7. T \ {x} \in Good => T \in Good
    BY <2>4, <2>5, <2>6 DEF p, q
  <2> QED
    BY <2>7
<1>3. S \in Good
  <2> HIDE DEF Good
  <2> QED
    BY <1>1, <1>2, FiniteSetsGrow
<1> QED
  BY <1>3

\* A common factor comes out of a sum.
LEMMA SumTimes ==
  ASSUME NEW S, IsFiniteSet(S), NEW f, \A x \in S : f[x] \in Rationals,
         NEW r \in Rationals, NEW g, \A x \in S : g[x] = Times(f[x], r)
  PROVE  SumOver(g, S) = Times(SumOver(f, S), r)
<1> DEFINE Good == {T \in SUBSET S : SumOver(g, T) = Times(SumOver(f, T), r)}
<1>0. \A x \in S : g[x] \in Rationals
  <2> TAKE x \in S
  <2>1. g[x] = Times(f[x], r) /\ f[x] \in Rationals
    OBVIOUS
  <2> QED
    BY <2>1, TimesLaws
<1>1. {} \in Good
  <2>1. Times(Zero, r) = Zero
    BY TimesLaws
  <2> QED
    BY <2>1, SumEmpty
<1>2. ASSUME NEW T \in SUBSET S, T # {} PROVE \E x \in T : T \ {x} \in Good => T \in Good
  <2>1. PICK x \in T : TRUE
    BY <1>2
  <2>2. \A U \in SUBSET T : IsFiniteSet(U) /\ SumOver(f, U) \in Rationals
    BY FS_Subset, SumRational
  <2> DEFINE a == f[x]
             p == SumOver(f, T \ {x})
  <2>3. a \in Rationals /\ p \in Rationals
    BY <2>2
  <2>4. SumOver(f, T) = Plus(a, p)
    BY <2>2, SumRemove
  <2>5. SumOver(g, T) = Plus(Times(a, r), SumOver(g, T \ {x}))
    BY <1>0, <2>2, SumRemove
  <2> HIDE DEF a, p
  <2>6. Times(Plus(a, p), r) = Plus(Times(a, r), Times(p, r))
    BY <2>3, TimesLaws
  <2>7. T \ {x} \in Good => T \in Good
    BY <2>4, <2>5, <2>6 DEF p
  <2> QED
    BY <2>7
<1>3. S \in Good
  <2> HIDE DEF Good
  <2> QED
    BY <1>1, <1>2, FiniteSetsGrow
<1> QED
  BY <1>3

\* Sums are ordered as their terms are.
LEMMA SumOrder ==
  ASSUME NEW S, IsFiniteSet(S), NEW f, NEW g,
         \A x \in S : f[x] \in Rationals /\ g[x] \in Rationals /\ AtMost(f[x], g[x])
  PROVE  AtMost(SumOver(f, S), SumOver(g, S))
<1> DEFINE Good == {T \in SUBSET S : AtMost(SumOver(f, T), SumOver(g, T))}
<1>1. {} \in Good
  <2>1. AtMost(Zero, Zero)
    BY ZeroIs, OrderLaws
  <2> QED
    BY <2>1, SumEmpty
<1>2. ASSUME NEW T \in SUBSET S, T # {} PROVE \E x \in T : T \ {x} \in Good => T \in Good
  <2>1. PICK x \in T : TRUE
    BY <1>2
  <2>2. \A U \in SUBSET T : IsFiniteSet(U) /\ SumOver(f, U) \in Rationals /\ SumOver(g, U) \in Rationals
    BY FS_Subset, SumRational
  <2> DEFINE a == f[x]
             b == g[x]
             p == SumOver(f, T \ {x})
             q == SumOver(g, T \ {x})
  <2>3. a \in Rationals /\ b \in Rationals /\ p \in Rationals /\ q \in Rationals /\ AtMost(a, b)
    BY <2>2
  <2>4. SumOver(f, T) = Plus(a, p) /\ SumOver(g, T) = Plus(b, q)
    BY <2>2, SumRemove
  <2> HIDE DEF a, b, p, q
  <2>5. AtMost(p, q) => AtMost(Plus(a, p), Plus(b, q))
    BY <2>3, PlusOrder
  <2>7. T \ {x} \in Good => T \in Good
    BY <2>4, <2>5 DEF p, q
  <2> QED
    BY <2>7
<1>3. S \in Good
  <2> HIDE DEF Good
  <2> QED
    BY <1>1, <1>2, FiniteSetsGrow
<1> QED
  BY <1>3

\* The sum of what is the same for all.
LEMMA SumConstant ==
  ASSUME NEW S, IsFiniteSet(S), NEW r \in Rationals, NEW f, \A x \in S : f[x] = r
  PROVE  SumOver(f, S) = Times(Q(Cardinality(S)), r)
<1> DEFINE Good == {T \in SUBSET S : SumOver(f, T) = Times(Q(Cardinality(T)), r)}
<1>1. {} \in Good
  <2>1. Times(Q(0), r) = Zero /\ Cardinality({}) = 0
    BY ZeroIs, TimesLaws, FS_EmptySet
  <2> QED
    BY <2>1, SumEmpty
<1>2. ASSUME NEW T \in SUBSET S, T # {} PROVE \E x \in T : T \ {x} \in Good => T \in Good
  <2>1. PICK x \in T : TRUE
    BY <1>2
  <2>2. IsFiniteSet(T) /\ f[x] = r /\ \A y \in T : f[y] \in Rationals
    BY FS_Subset
  <2>3. SumOver(f, T) = Plus(r, SumOver(f, T \ {x}))
    BY <2>2, SumRemove
  <2> DEFINE n == Cardinality(T \ {x})
  <2>4. n \in Nat /\ Cardinality(T) = n + 1
    <3>1. n = Cardinality(T) - 1 /\ IsFiniteSet(T \ {x})
      BY <2>2, FS_RemoveElement
    <3>2. n \in Nat /\ Cardinality(T) \in Nat
      BY <2>2, <3>1, FS_CardinalityType
    <3> HIDE DEF n
    <3> QED
      BY <3>1, <3>2
  <2> HIDE DEF n
  <2>5. Times(Q(n + 1), r) = Plus(r, Times(Q(n), r))
    BY <2>4, OneTermMore
  <2>7. T \ {x} \in Good => T \in Good
    BY <2>3, <2>4, <2>5 DEF n
  <2> QED
    BY <2>7
<1>3. S \in Good
  <2> HIDE DEF Good
  <2> QED
    BY <1>1, <1>2, FiniteSetsGrow
<1> QED
  BY <1>3

\* A sum over a set is that over a part of it and that over the rest.
LEMMA SumOfParts ==
  ASSUME NEW f, NEW S, IsFiniteSet(S), \A x \in S : f[x] \in Rationals, NEW T \in SUBSET S
  PROVE  SumOver(f, S) = Plus(SumOver(f, T), SumOver(f, S \ T))
<1> DEFINE Good == {U \in SUBSET T : SumOver(f, S) = Plus(SumOver(f, U), SumOver(f, S \ U))}
<1>0. \A U \in SUBSET S : IsFiniteSet(U) /\ SumOver(f, U) \in Rationals
  BY FS_Subset, SumRational
<1>1. {} \in Good
  <2>1. S \ {} = S /\ SumOver(f, S) \in Rationals
    BY <1>0
  <2>2. Plus(Zero, SumOver(f, S)) = SumOver(f, S)
    BY <2>1, PlusLaws
  <2> QED
    BY <2>1, <2>2, SumEmpty
<1>2. ASSUME NEW U \in SUBSET T, U # {} PROVE \E x \in U : U \ {x} \in Good => U \in Good
  <2>1. PICK x \in U : TRUE
    BY <1>2
  <2> DEFINE rest == SumOver(f, U \ {x})
             out == SumOver(f, S \ U)
             a == f[x]
  <2>2. SumOver(f, U) = Plus(a, rest)
    BY <1>0, SumRemove
  <2>3. SumOver(f, S \ (U \ {x})) = Plus(a, out)
    <3>1. (S \ (U \ {x})) \ {x} = S \ U /\ x \in S \ (U \ {x})
      OBVIOUS
    <3> QED
      BY <1>0, <3>1, SumRemove
  <2>4. rest \in Rationals /\ out \in Rationals /\ a \in Rationals
    BY <1>0
  <2>5. Plus(rest, Plus(a, out)) = Plus(Plus(a, rest), out)
    <3> HIDE DEF rest, out, a
    <3>1. Plus(rest, Plus(a, out)) = Plus(a, Plus(rest, out))
      BY <2>4, PlusSwaps
    <3>2. Plus(a, Plus(rest, out)) = Plus(Plus(a, rest), out)
      BY <2>4, PlusLaws
    <3> QED
      BY <3>1, <3>2
  <2>6. U \ {x} \in Good => U \in Good
    BY <2>2, <2>3, <2>5
  <2> QED
    BY <2>6
<1>3. T \in Good
  <2> HIDE DEF Good
  <2> QED
    BY <1>0, <1>1, <1>2, FiniteSetsGrow
<1> QED
  BY <1>3

\* Zeros add up to zero.
LEMMA SumZero ==
  ASSUME NEW S, IsFiniteSet(S), NEW f, \A x \in S : f[x] = Zero
  PROVE  SumOver(f, S) = Zero
<1>1. SumOver(f, S) = Times(Q(Cardinality(S)), Zero)
  BY ZeroIs, SumConstant
<1>2. Cardinality(S) \in Int
  BY FS_CardinalityType
<1> QED
  BY <1>1, <1>2, QIs, TimesLaws

\* Terms that are not negative add up to a sum that is not.
LEMMA SumNotNegative ==
  ASSUME NEW S, IsFiniteSet(S), NEW f, \A x \in S : f[x] \in Rationals /\ AtMost(Zero, f[x])
  PROVE  AtMost(Zero, SumOver(f, S))
<1> DEFINE z == [x \in S |-> Zero]
<1>1. AtMost(SumOver(z, S), SumOver(f, S))
  BY ZeroIs, SumOrder
<1>2. SumOver(z, S) = Zero
  BY SumZero
<1> QED
  BY <1>1, <1>2

\* What is gathered in disjoint parts is what there is in all of them.
LEMMA SumByParts ==
  ASSUME NEW S, IsFiniteSet(S), NEW f, \A x \in S : f[x] \in Rationals,
         NEW C, IsFiniteSet(C), NEW part, \A c \in C : part[c] \subseteq S,
         \A c, d \in C : c # d => part[c] \intersect part[d] = {},
         NEW g, \A c \in C : g[c] = SumOver(f, part[c])
  PROVE  SumOver(g, C) = SumOver(f, UNION {part[c] : c \in C})
<1> DEFINE In(D) == UNION {part[c] : c \in D}
           Good == {D \in SUBSET C : SumOver(g, D) = SumOver(f, In(D))}
<1>0. /\ \A T \in SUBSET S : IsFiniteSet(T) /\ SumOver(f, T) \in Rationals
      /\ \A D \in SUBSET C : IsFiniteSet(D)
  BY FS_Subset, SumRational
<1>1. {} \in Good
  <2>1. In({}) = {}
    OBVIOUS
  <2> QED
    BY <2>1, SumEmpty
<1>2. ASSUME NEW D \in SUBSET C, D # {} PROVE \E c \in D : D \ {c} \in Good => D \in Good
  <2>1. PICK c \in D : TRUE
    BY <1>2
  <2>2. \A d \in D : g[d] \in Rationals
    BY <1>0
  <2>3. SumOver(g, D) = Plus(g[c], SumOver(g, D \ {c}))
    BY <1>0, <2>2, SumRemove
  <2>4. /\ part[c] \subseteq In(D) /\ In(D) \subseteq S
        /\ In(D) \ part[c] = In(D \ {c})
    OBVIOUS
  <2>5. SumOver(f, In(D)) = Plus(SumOver(f, part[c]), SumOver(f, In(D \ {c})))
    <3> DEFINE whole == In(D)
               one == part[c]
               rest == In(D \ {c})
    <3>1. IsFiniteSet(whole) /\ \A x \in whole : f[x] \in Rationals
      BY <1>0, <2>4
    <3>2. one \in SUBSET whole /\ whole \ one = rest
      BY <2>4
    <3> HIDE DEF whole, one, rest
    <3>3. SumOver(f, whole) = Plus(SumOver(f, one), SumOver(f, rest))
      BY <3>1, <3>2, SumOfParts
    <3> QED
      BY <3>3 DEF whole, one, rest
  <2>6. D \ {c} \in Good => D \in Good
    <3> HIDE DEF In
    <3> QED
      BY <2>3, <2>5
  <2> QED
    BY <2>6
<1>3. C \in Good
  <2> HIDE DEF Good
  <2> QED
    BY <1>1, <1>2, FiniteSetsGrow
<1> QED
  BY <1>3

-------------------------------------------------------------------------------
(* Finite sets of places *)

\* A finite set has an element that is least by any measure.
LEMMA LeastBy ==
  ASSUME NEW S, IsFiniteSet(S), S # {}, NEW d, \A x \in S : d[x] \in Int
  PROVE  \E a \in S : \A b \in S : d[a] <= d[b]
<1> DEFINE Good == {T \in SUBSET S : T = {} \/ \E a \in T : \A b \in T : d[a] <= d[b]}
<1>1. {} \in Good
  OBVIOUS
<1>2. ASSUME NEW T \in SUBSET S, T # {} PROVE \E x \in T : T \ {x} \in Good => T \in Good
  <2>1. PICK x \in T : TRUE
    BY <1>2
  <2>2. T \ {x} \in Good => T \in Good
    <3> SUFFICES ASSUME T \ {x} \in Good PROVE \E a \in T : \A b \in T : d[a] <= d[b]
      OBVIOUS
    <3>1. CASE T \ {x} = {}
      <4>1. \A b \in T : b = x
        BY <3>1
      <4>2. d[x] \in Int
        OBVIOUS
      <4> QED
        BY <4>1, <4>2
    <3>2. CASE T \ {x} # {}
      <4>1. PICK a \in T \ {x} : \A b \in T \ {x} : d[a] <= d[b]
        BY <3>2
      <4>2. \A b \in T : d[b] \in Int
        OBVIOUS
      <4>3. CASE d[a] <= d[x]
        BY <4>1, <4>3
      <4>4. CASE d[x] < d[a]
        BY <4>1, <4>2, <4>4
      <4> QED
        BY <4>2, <4>3, <4>4
    <3> QED
      BY <3>1, <3>2
  <2> QED
    BY <2>2
<1>3. S \in Good
  <2> HIDE DEF Good
  <2> QED
    BY <1>1, <1>2, FiniteSetsGrow
<1> QED
  BY <1>3

\* LeastOf is the least of a finite set.
LEMMA LeastOfIs ==
  ASSUME NEW S \in SUBSET Int, IsFiniteSet(S), S # {}
  PROVE  LeastOf(S) \in S /\ \A b \in S : LeastOf(S) <= b
<1>1. \E a \in S : \A b \in S : [x \in S |-> x][a] <= [x \in S |-> x][b]
  BY LeastBy
<1> QED
  BY <1>1 DEF LeastOf

\* MostOf is the greatest of a finite set.
LEMMA MostOfIs ==
  ASSUME NEW S \in SUBSET Int, IsFiniteSet(S), S # {}
  PROVE  MostOf(S) \in S /\ \A b \in S : b <= MostOf(S)
<1> DEFINE d == [x \in S |-> -x]
<1>1. \A x \in S : d[x] \in Int /\ d[x] = -x
  OBVIOUS
<1> HIDE DEF d
<1>4. \E a \in S : \A b \in S : d[a] <= d[b]
  BY <1>1, LeastBy
<1>2. PICK a \in S : \A b \in S : a >= b
  BY <1>1, <1>4
<1>3. MostOf(S) \in S /\ \A b \in S : MostOf(S) >= b
  BY <1>2 DEF MostOf
<1> QED
  BY <1>3

\* The image of a finite set is finite.
LEMMA ImageFinite ==
  ASSUME NEW S, IsFiniteSet(S), NEW f
  PROVE  IsFiniteSet({f[x] : x \in S})
<1> DEFINE T == {f[x] : x \in S}
           g == [x \in S |-> f[x]]
<1>1. g \in Surjection(S, T)
  BY DEF Surjection
<1> QED
  BY <1>1, FS_Surjection

\* The greater and the lesser of two.
LEMMA TwoAre ==
  ASSUME NEW m \in Int, NEW n \in Int
  PROVE  /\ MostOf({m, n}) \in {m, n} /\ m <= MostOf({m, n}) /\ n <= MostOf({m, n})
         /\ LeastOf({m, n}) \in {m, n} /\ LeastOf({m, n}) <= m /\ LeastOf({m, n}) <= n
<1>1. IsFiniteSet({m, n})
  <2>1. {m, n} = {m} \union {n}
    OBVIOUS
  <2> QED
    <3>1. IsFiniteSet({m}) /\ IsFiniteSet({n})
      BY FS_Singleton
    <3>2. IsFiniteSet({m} \union {n})
      BY <3>1, FS_Union
    <3> QED
      BY <2>1, <3>2
<1>2. {m, n} \in SUBSET Int /\ {m, n} # {} /\ m \in {m, n} /\ n \in {m, n}
  OBVIOUS
<1> HIDE DEF LeastOf, MostOf
<1> QED
  BY <1>1, <1>2, LeastOfIs, MostOfIs

-------------------------------------------------------------------------------
(* The two grids *)

\* What is assumed of the climate grid, and its finite sets.
LEMMA GridIs ==
  /\ NLon \in Nat \ {0} /\ NLat \in Nat \ {0, 1} /\ NLat * NLon \in Nat
  /\ IsFiniteSet(Rows) /\ Rows # {} /\ Rows \ {0} # {} /\ IsFiniteSet(Boxes) /\ Boxes \subseteq Nat
  /\ \A j \in Rows : Lat[j] \in Int
  /\ \A s \in Sheets : /\ \A b \in Boxes : Down[s][b][1] \in Int /\ Down[s][b][2] \in Int
                       /\ \A p \in Points(s) : UpLat[s][p] \in Int
<1>1. NLon \in Nat \ {0} /\ NLat \in Nat \ {0, 1} /\ Lat \in [Rows -> Int]
  BY GridAssumption
<1>2. \A s \in Sheets : Down[s] \in [Boxes -> Int \X Int] /\ UpLat[s] \in [Points(s) -> Int]
  BY GridAssumption
<1>3. NLat * NLon \in Nat
  BY <1>1
<1>4. IsFiniteSet(Rows) /\ 0 \in Rows /\ 1 \in Rows \ {0}
  <2>1. NLat - 1 \in Int /\ 0 \in Int /\ NLat - 1 >= 1
    BY <1>1
  <2> QED
    BY <2>1, FS_Interval DEF Rows
<1>5. IsFiniteSet(Boxes) /\ Boxes \subseteq Nat
  <2> DEFINE n == NLat * NLon
  <2>1. n \in Nat
    BY <1>3
  <2> HIDE DEF n
  <2>2. n - 1 \in Int /\ 0 \in Int
    BY <2>1
  <2>3. IsFiniteSet(0..n - 1) /\ 0..n - 1 \subseteq Nat
    BY <2>2, FS_Interval
  <2> QED
    BY <2>3 DEF Boxes, n
<1>6. \A s \in Sheets : /\ \A b \in Boxes : Down[s][b][1] \in Int /\ Down[s][b][2] \in Int
                        /\ \A p \in Points(s) : UpLat[s][p] \in Int
  BY <1>2
<1> QED
  BY <1>1, <1>3, <1>4, <1>5, <1>6

\* The coordinates of an axis are its first and whole steps from it.
LEMMA CoordsAre ==
  ASSUME NEW first \in Int, NEW step \in Nat \ {0}, NEW size \in Int
  PROVE  LET axis == [first |-> first, step |-> step, size |-> size]
         IN  /\ IsFiniteSet(Coords(axis)) /\ Coords(axis) \subseteq Int
             /\ \A k \in 0..size - 1 : first + k * step \in Coords(axis)
             /\ \A x \in Coords(axis) : \E k \in 0..size - 1 : x = first + k * step
<1> DEFINE axis == [first |-> first, step |-> step, size |-> size]
           at == [k \in 0..size - 1 |-> first + k * step]
<1>1. Coords(axis) = {at[k] : k \in 0..size - 1}
  BY DEF Coords
<1>2. IsFiniteSet(0..size - 1)
  BY FS_Interval
<1>3. IsFiniteSet({at[k] : k \in 0..size - 1})
  <2> HIDE DEF at
  <2> QED
    BY <1>2, ImageFinite
<1>4. \A k \in 0..size - 1 : at[k] \in Int /\ at[k] = first + k * step
  OBVIOUS
<1> HIDE DEF at
<1> QED
  BY <1>1, <1>3, <1>4

\* Both axes of a sheet are axes.
LEMMA AxesAre ==
  ASSUME NEW s \in Sheets
  PROVE  XAxis[s] \in Axis /\ YAxis[s] \in Axis
BY GridAssumption

\* What an axis is made of.
LEMMA AxisIs ==
  ASSUME NEW axis \in Axis
  PROVE  /\ axis.first \in Int /\ axis.step \in Nat \ {0} /\ axis.size \in Nat \ {0, 1}
         /\ axis = [first |-> axis.first, step |-> axis.step, size |-> axis.size]
BY DEF Axis

\* A sheet has finitely many points, and some.
LEMMA PointsAre ==
  ASSUME NEW s \in Sheets
  PROVE  IsFiniteSet(Points(s)) /\ Points(s) # {} /\ Points(s) \subseteq Int \X Int
         /\ PointArea(s) \in Nat \ {0}
<1>1. ASSUME NEW axis \in Axis PROVE IsFiniteSet(Coords(axis)) /\ Coords(axis) \subseteq Int /\ Coords(axis) # {}
  <2> DEFINE first == axis.first
             step == axis.step
             size == axis.size
  <2>1. first \in Int /\ step \in Nat \ {0} /\ size \in Nat \ {0, 1}
        /\ axis = [first |-> first, step |-> step, size |-> size]
    BY AxisIs
  <2> HIDE DEF first, step, size
  <2>2. 0 \in 0..size - 1 /\ size \in Int
    BY <2>1
  <2> QED
    BY <2>1, <2>2, CoordsAre
<1>2. /\ IsFiniteSet(Coords(XAxis[s])) /\ Coords(XAxis[s]) \subseteq Int /\ Coords(XAxis[s]) # {}
      /\ IsFiniteSet(Coords(YAxis[s])) /\ Coords(YAxis[s]) \subseteq Int /\ Coords(YAxis[s]) # {}
  BY <1>1, AxesAre
<1>3. PointArea(s) \in Nat \ {0}
  <2>1. XAxis[s].step \in Nat \ {0} /\ YAxis[s].step \in Nat \ {0}
    BY AxesAre, AxisIs
  <2> QED
    BY <2>1, ProductNotZero DEF PointArea
<1>4. IsFiniteSet(Coords(XAxis[s]) \X Coords(YAxis[s]))
  BY <1>2, FS_Product
<1> QED
  <2> DEFINE x == Coords(XAxis[s])
             y == Coords(YAxis[s])
  <2>1. Points(s) = x \X y
    BY DEF Points, Grid
  <2> HIDE DEF x, y
  <2>2. x \X y # {} /\ x \X y \subseteq Int \X Int
    <3>1. x \subseteq Int /\ y \subseteq Int /\ x # {} /\ y # {}
      BY <1>2 DEF x, y
    <3>2. \A a \in x, b \in y : <<a, b>> \in x \X y
      OBVIOUS
    <3>3. x \X y \subseteq Int \X Int
      BY <3>1
    <3>4. x \X y # {}
      BY <3>1, <3>2
    <3> QED
      BY <3>3, <3>4
  <2> QED
    BY <1>3, <1>4, <2>1, <2>2 DEF x, y

-------------------------------------------------------------------------------
(* The rows that are kept, and the boxes of the points *)

\* The rows of the crop are rows of the climate grid (indices_by_latitude).
LEMMA CropIs ==
  ASSUME NEW s \in Sheets
  PROVE  LET crop == Crop(s)
         IN  /\ crop.ilo \in Nat /\ crop.ihi \in Int /\ crop.ihi <= NLat
             /\ crop.ilo \in Rows
<1> DEFINE lats == {UpLat[s][p] : p \in Points(s)}
           steps == {Lat[j] - Lat[j - 1] : j \in Rows \ {0}}
           dlat == MostOf(steps)
           low == LeastOf(lats) - dlat
           high == MostOf(lats) + dlat
<1>1. lats \in SUBSET Int /\ IsFiniteSet(lats) /\ lats # {}
  BY GridIs, PointsAre, ImageFinite
<1>2. LeastOf(lats) \in Int /\ MostOf(lats) \in Int
  <2> HIDE DEF lats
  <2> QED
    BY <1>1, LeastOfIs, MostOfIs
<1>3. steps \in SUBSET Int /\ IsFiniteSet(steps) /\ steps # {}
  <2> DEFINE f == [j \in Rows \ {0} |-> Lat[j] - Lat[j - 1]]
             R == Rows \ {0}
  <2>1. IsFiniteSet(R) /\ R # {} /\ \A j \in R : f[j] \in Int
    <3>1. \A j \in R : j \in Rows /\ j - 1 \in Rows
      BY GridIs DEF Rows
    <3>2. IsFiniteSet(R)
      BY GridIs, FS_Subset
    <3> QED
      BY <3>1, <3>2, GridIs
  <2>2. steps = {f[j] : j \in R}
    OBVIOUS
  <2> HIDE DEF f, R, steps
  <2>3. IsFiniteSet({f[j] : j \in R})
    BY <2>1, ImageFinite
  <2> QED
    BY <2>1, <2>2, <2>3
<1>4. dlat \in Int
  <2> HIDE DEF steps
  <2> QED
    BY <1>3, MostOfIs
<1>5. ASSUME NEW lat \in Int PROVE NearestRow(lat) \in Rows
  <2> DEFINE off == [j \in Rows |-> Abs(Lat[j] - lat)]
             near == {j \in Rows : \A k \in Rows : Abs(Lat[j] - lat) <= Abs(Lat[k] - lat)}
  <2>1. \A j \in Rows : off[j] \in Int
    BY GridIs DEF Abs
  <2>2. \E j \in Rows : \A k \in Rows : off[j] <= off[k]
    <3> HIDE DEF off
    <3> QED
      BY <2>1, GridIs, LeastBy
  <2>3. near # {} /\ near \in SUBSET Int /\ IsFiniteSet(near)
    <3>1. IsFiniteSet(near)
      BY GridIs, FS_Subset
    <3> QED
      BY <2>2, <3>1 DEF Rows
  <2>4. NearestRow(lat) = LeastOf(near)
    BY DEF NearestRow
  <2>5. LeastOf(near) \in near
    <3> HIDE DEF near
    <3> QED
      BY <2>3, LeastOfIs
  <2> QED
    BY <2>4, <2>5
<1>6. low \in Int /\ high \in Int
  BY <1>2, <1>4
<1> DEFINE south == NearestRow(low) - 1
           north == NearestRow(high) + 1
<1>7. NearestRow(low) \in Rows /\ NearestRow(high) \in Rows
  <2> HIDE DEF low, high
  <2> QED
    BY <1>5, <1>6
<1>8. south \in Int /\ north \in Int /\ south < NLat - 1 /\ NLat \in Nat \ {0, 1}
  BY <1>7, GridIs DEF Rows
<1>9. Crop(s) = [ilo |-> MostOf({0, south}), ihi |-> LeastOf({north, NLat})]
  BY DEF Crop
<1> HIDE DEF south, north
<1>10. /\ MostOf({0, south}) \in {0, south} /\ 0 <= MostOf({0, south})
       /\ LeastOf({north, NLat}) \in {north, NLat} /\ LeastOf({north, NLat}) <= NLat
  <2>1. 0 \in Int /\ south \in Int /\ north \in Int /\ NLat \in Int
    BY <1>8
  <2>2. MostOf({0, south}) \in {0, south} /\ 0 <= MostOf({0, south})
    BY <2>1, TwoAre
  <2>3. LeastOf({north, NLat}) \in {north, NLat} /\ LeastOf({north, NLat}) <= NLat
    BY <2>1, TwoAre
  <2> QED
    BY <2>2, <2>3
<1> QED
  BY <1>8, <1>9, <1>10 DEF Rows

\* The cells kept are numbered from the first row of the crop on.
LEMMA KeptAre ==
  ASSUME NEW s \in Sheets
  PROVE  LET crop == Crop(s)
             base == cell_id(0, crop.ilo)
         IN  /\ base \in Nat
             /\ Kept(crop) \subseteq Nat /\ IsFiniteSet(Kept(crop)) /\ Kept(crop) # {}
             /\ \A c \in Kept(crop) : InWhole(crop, c) = c + base /\ InWhole(crop, c) \in Boxes
<1> DEFINE crop == Crop(s)
           base == cell_id(0, crop.ilo)
           lo == crop.ilo
           hi == crop.ihi
<1>1. lo \in Nat /\ hi \in Int /\ hi <= NLat /\ NLon \in Nat \ {0} /\ NLat \in Nat \ {0, 1}
  BY CropIs, GridIs
<1> HIDE DEF lo, hi
<1> DEFINE n == NLon * (hi - lo)
           b == NLon * lo
           m == NLat * NLon
<1>2. n \in Int /\ b \in Nat /\ m \in Nat /\ n + b <= m
  <2>1. NLon * (hi - lo) + NLon * lo = NLon * hi
    BY <1>1
  <2>2. NLon * hi <= NLat * NLon
    <3> DEFINE k == NLat - hi
    <3>1. k \in Nat /\ hi = NLat - k
      BY <1>1
    <3> HIDE DEF k
    <3>2. NLon * (NLat - k) = NLat * NLon - NLon * k /\ NLon * k \in Nat
      BY <1>1, <3>1
    <3>3. NLat * NLon \in Nat
      BY <1>1
    <3> QED
      BY <3>1, <3>2, <3>3
  <2> QED
    BY <1>1, <2>1, <2>2
<1>3. base = b /\ Kept(crop) = 0..n - 1 /\ Boxes = 0..m - 1
  BY <1>1, <1>2 DEF cell_id, Kept, lo, hi, Boxes
<1> HIDE DEF n, b, m, base
<1>4. IsFiniteSet(Kept(crop)) /\ Kept(crop) \subseteq Nat
  <2>1. n - 1 \in Int /\ 0 \in Int
    BY <1>2
  <2> QED
    BY <1>3, <2>1, FS_Interval
<1>5. ASSUME NEW c \in Kept(crop) PROVE InWhole(crop, c) = c + base /\ InWhole(crop, c) \in Boxes
  <2>1. InWhole(crop, c) = c + base
    BY DEF InWhole, base
  <2>2. c + base \in Boxes
    BY <1>2, <1>3
  <2> QED
    BY <2>1, <2>2
<1>6. Kept(crop) # {}
  BY ReachAssumption
<1> QED
  BY <1>2, <1>3, <1>4, <1>5, <1>6 DEF base

\* NearestNDInterpolator finds one of the boxes that it is given.
LEMMA NearestIs ==
  ASSUME NEW s \in Sheets, NEW boxes \in SUBSET Boxes, boxes # {}, NEW place \in Int \X Int
  PROVE  NearestBox(s, boxes, place) \in boxes
<1> DEFINE d == [a \in boxes |-> Distance(Down[s][a], place)]
<1>1. \A a \in boxes : d[a] \in Int /\ d[a] = Distance(Down[s][a], place)
  <2> TAKE a \in boxes
  <2>1. /\ Down[s][a][1] \in Int /\ Down[s][a][2] \in Int /\ place[1] \in Int /\ place[2] \in Int
    BY GridIs
  <2> DEFINE x == Down[s][a][1] - place[1]
             y == Down[s][a][2] - place[2]
  <2>2. x \in Int /\ y \in Int /\ Distance(Down[s][a], place) = x * x + y * y
    BY <2>1 DEF Distance
  <2> HIDE DEF x, y
  <2>3. x * x + y * y \in Int
    BY <2>2
  <2> QED
    BY <2>2, <2>3
<1>2. IsFiniteSet(boxes)
  BY GridIs, FS_Subset
<1> HIDE DEF d
<1>3. \E a \in boxes : \A b \in boxes : d[a] <= d[b]
  BY <1>1, <1>2, LeastBy
<1>4. \E a \in boxes : \A b \in boxes : Distance(Down[s][a], place) <= Distance(Down[s][b], place)
  BY <1>1, <1>3
<1> QED
  BY <1>4 DEF NearestBox

\* An axis grows by at least a step when there is anything beyond it.
LEMMA StepsBeyondIs ==
  ASSUME NEW axis \in Axis, NEW beyond \in Int
  PROVE  /\ StepsBeyond(axis, beyond) \in Nat
         /\ beyond >= 0 => StepsBeyond(axis, beyond) >= 1
<1> DEFINE step == axis.step
           steps == IF beyond >= 0 THEN beyond \div step ELSE -((-beyond) \div step)
<1>1. step \in Nat \ {0}
  BY AxisIs
<1>2. \A n \in Nat, k \in Nat \ {0} : n \div k \in Nat
  OBVIOUS
<1> HIDE DEF step
<1>3. steps \in Int /\ (beyond >= 0 => steps >= 0)
  <2>1. CASE beyond >= 0
    <3>1. beyond \in Nat
      BY <2>1
    <3>2. beyond \div step \in Nat
      BY <1>1, <1>2, <3>1
    <3> QED
      BY <2>1, <3>2
  <2>2. CASE ~(beyond >= 0)
    <3>1. -beyond \in Nat
      BY <2>2
    <3>2. (-beyond) \div step \in Nat
      BY <1>1, <1>2, <3>1
    <3> QED
      BY <2>2, <3>2
  <2> QED
    BY <2>1, <2>2
<1>4. StepsBeyond(axis, beyond) = MostOf({0, steps + 1})
  BY DEF StepsBeyond, step
<1> HIDE DEF steps
<1>5. 0 \in Int /\ steps + 1 \in Int
  BY <1>3
<1>6. MostOf({0, steps + 1}) \in {0, steps + 1} /\ 0 <= MostOf({0, steps + 1})
      /\ steps + 1 <= MostOf({0, steps + 1})
  BY <1>5, TwoAre
<1> QED
  BY <1>3, <1>4, <1>5, <1>6

\* A sheet's grid, grown to where the boxes are, has the points that it had.
LEMMA GrownAxisIs ==
  ASSUME NEW axis \in Axis, NEW places \in SUBSET Int, IsFiniteSet(places),
         \E x \in places : EndOf(axis) <= x
  PROVE  LET grown == GrownAxis(axis, places)
         IN  /\ Coords(axis) \subseteq Coords(grown)
             /\ IsFiniteSet(Coords(grown)) /\ Coords(grown) \subseteq Int
<1> DEFINE first == axis.first
           step == axis.step
           size == axis.size
           m == StepsBeyond(axis, axis.first - LeastOf(places))
           n == StepsBeyond(axis, MostOf(places) - EndOf(axis))
<1>1. first \in Int /\ step \in Nat \ {0} /\ size \in Nat \ {0, 1}
      /\ axis = [first |-> first, step |-> step, size |-> size]
  BY AxisIs
<1>2. EndOf(axis) \in Int
  <2>1. EndOf(axis) = first + (size - 1) * step
    BY DEF EndOf
  <2> HIDE DEF first, size, step
  <2> QED
    BY <1>1, <2>1
<1>3. /\ LeastOf(places) \in Int /\ MostOf(places) \in Int /\ EndOf(axis) <= MostOf(places)
  <2>1. LeastOf(places) \in places /\ MostOf(places) \in places
        /\ \A x \in places : x <= MostOf(places)
    BY LeastOfIs, MostOfIs
  <2>2. PICK x \in places : EndOf(axis) <= x
    OBVIOUS
  <2>3. x <= MostOf(places) /\ x \in Int /\ MostOf(places) \in Int /\ LeastOf(places) \in Int
    BY <2>1
  <2> QED
    BY <1>2, <2>2, <2>3
<1>4. m \in Nat /\ n \in Nat \ {0}
  <2> DEFINE before == first - LeastOf(places)
             beyond == MostOf(places) - EndOf(axis)
  <2>1. before \in Int /\ beyond \in Int /\ beyond >= 0
    BY <1>1, <1>2, <1>3
  <2>2. m = StepsBeyond(axis, before) /\ n = StepsBeyond(axis, beyond)
    OBVIOUS
  <2> HIDE DEF before, beyond, m, n
  <2> QED
    BY <2>1, <2>2, StepsBeyondIs
<1> DEFINE from == first - m * step
           long == size + m + n - 1
<1>5. GrownAxis(axis, places) = [first |-> from, step |-> step, size |-> long]
  <2>1. GrownAxis(axis, places) = [axis EXCEPT !.first = @ - m * axis.step, !.size = @ + m + n - 1]
    BY DEF GrownAxis
  <2> HIDE DEF m, n
  <2>2. GrownAxis(axis, places) = [axis EXCEPT !.first = from, !.size = long]
    BY <2>1
  <2> HIDE DEF from, long
  <2>3. DOMAIN axis = {"first", "step", "size"} /\ axis.step = step
    BY <1>1
  <2> HIDE DEF step
  <2> QED
    BY <2>2, <2>3
<1> HIDE DEF m, n, first, step, size
<1>6. from \in Int /\ long \in Int /\ long >= size + m
  BY <1>1, <1>4
<1> HIDE DEF from, long
<1>7. /\ IsFiniteSet(Coords(GrownAxis(axis, places))) /\ Coords(GrownAxis(axis, places)) \subseteq Int
      /\ \A k \in 0..long - 1 : from + k * step \in Coords(GrownAxis(axis, places))
  BY <1>1, <1>5, <1>6, CoordsAre
<1>8. ASSUME NEW x \in Coords(axis) PROVE x \in Coords(GrownAxis(axis, places))
  <2>0. \A y \in Coords(axis) : \E k \in 0..size - 1 : y = first + k * step
    BY <1>1 DEF Coords, first, size, step
  <2>1. PICK k \in 0..size - 1 : x = first + k * step
    BY <2>0
  <2>2. k + m \in 0..long - 1
    BY <1>1, <1>4, <1>6
  <2>3. from + (k + m) * step = first + k * step
    BY <1>1, <1>4 DEF from
  <2> QED
    BY <1>7, <2>1, <2>2, <2>3
<1> QED
  BY <1>7, <1>8

\* The grown grid has the points that the sheet had.
LEMMA GrownGridIs ==
  ASSUME NEW s \in Sheets
  PROVE  LET grown == grown_grid(s, Crop(s))
         IN  Points(s) \subseteq grown /\ IsFiniteSet(grown) /\ grown \subseteq Int \X Int
<1> DEFINE crop == Crop(s)
           kept == Kept(crop)
           at == [cell \in kept |-> Down[s][InWhole(crop, cell)]]
           places == {Down[s][InWhole(crop, cell)] : cell \in kept}
           xs == {place[1] : place \in places}
           ys == {place[2] : place \in places}
<1>1. IsFiniteSet(kept) /\ \A cell \in kept : at[cell][1] \in Int /\ at[cell][2] \in Int
  BY KeptAre, GridIs
<1>2. places = {at[cell] : cell \in kept}
  OBVIOUS
<1> HIDE DEF at, kept
<1>3. IsFiniteSet(places) /\ \A place \in places : place[1] \in Int /\ place[2] \in Int
  <2>1. IsFiniteSet({at[cell] : cell \in kept})
    BY <1>1, ImageFinite
  <2> QED
    BY <1>1, <1>2, <2>1
<1>4. /\ \E place \in places : EndOf(XAxis[s]) <= place[1]
      /\ \E place \in places : EndOf(YAxis[s]) <= place[2]
  BY ReachAssumption DEF kept
<1>5. grown_grid(s, crop) = Coords(GrownAxis(XAxis[s], xs)) \X Coords(GrownAxis(YAxis[s], ys))
  BY DEF grown_grid, Grid, kept
<1> HIDE DEF places
<1>6. xs \in SUBSET Int /\ ys \in SUBSET Int /\ IsFiniteSet(xs) /\ IsFiniteSet(ys)
  <2> DEFINE first == [place \in places |-> place[1]]
             second == [place \in places |-> place[2]]
  <2>1. xs = {first[place] : place \in places} /\ ys = {second[place] : place \in places}
    OBVIOUS
  <2>2. IsFiniteSet({first[place] : place \in places}) /\ IsFiniteSet({second[place] : place \in places})
    <3> HIDE DEF first, second
    <3> QED
      BY <1>3, ImageFinite
  <2> QED
    BY <1>3, <2>1, <2>2
<1>7. (\E x \in xs : EndOf(XAxis[s]) <= x) /\ (\E y \in ys : EndOf(YAxis[s]) <= y)
  BY <1>4
<1> DEFINE gx == Coords(GrownAxis(XAxis[s], xs))
           gy == Coords(GrownAxis(YAxis[s], ys))
<1>8. /\ Coords(XAxis[s]) \subseteq gx /\ IsFiniteSet(gx) /\ gx \subseteq Int
      /\ Coords(YAxis[s]) \subseteq gy /\ IsFiniteSet(gy) /\ gy \subseteq Int
  <2> HIDE DEF xs, ys
  <2> QED
    BY <1>6, <1>7, AxesAre, GrownAxisIs
<1> HIDE DEF gx, gy
<1>9. IsFiniteSet(gx \X gy) /\ gx \X gy \subseteq Int \X Int
      /\ Coords(XAxis[s]) \X Coords(YAxis[s]) \subseteq gx \X gy
  BY <1>8, FS_Product
<1> QED
  BY <1>5, <1>9 DEF Points, Grid, gx, gy

\* What there is of the two grids of a sheet.
LEMMA PairIs ==
  ASSUME NEW s \in Sheets
  PROVE  LET pair == GridPair(s)
         IN  /\ pair.crop = Crop(s)
             /\ pair.map \in [Points(s) -> Kept(pair.crop)]
             /\ \A c \in Kept(pair.crop) :
                  /\ pair.cover[c][1] \in Nat /\ pair.cover[c][2] \in Nat \ {0}
                  /\ pair.cover[c][1] <= pair.cover[c][2]
<1> DEFINE crop == Crop(s)
           kept == Kept(crop)
           map == LocalToGlobal(s, crop, Points(s))
           big == grown_grid(s, crop)
           grown == LocalToGlobal(s, crop, big)
           cover == [c \in kept |-> IF bincount(grown, c) = 0 THEN <<0, 1>>
                                    ELSE <<bincount(map, c), bincount(grown, c)>>]
           base == cell_id(0, crop.ilo)
<1>1. GridPair(s) = [crop |-> crop, map |-> map, cover |-> cover]
  BY DEF GridPair, PairGrIS, PairAIS, Pair, Sheets
<1>2. Points(s) \subseteq big /\ IsFiniteSet(big) /\ big \subseteq Int \X Int
  BY GrownGridIs
<1> DEFINE boxes == {InWhole(crop, cell) : cell \in kept}
<1>3. /\ base \in Nat /\ boxes \in SUBSET Boxes /\ boxes # {}
      /\ kept \subseteq Nat
      /\ \A b \in boxes : b - base \in kept
  BY KeptAre
<1>4. \A points : LocalToGlobal(s, crop, points) = [p \in points |-> NearestBox(s, boxes, p) - base]
  BY DEF LocalToGlobal
<1> HIDE DEF big, boxes, base, kept
<1>5. \A p \in big : NearestBox(s, boxes, p) - base \in kept
  <2> TAKE p \in big
  <2>1. NearestBox(s, boxes, p) \in boxes
    BY <1>2, <1>3, NearestIs
  <2> QED
    BY <1>3, <2>1
<1>6. map \in [Points(s) -> kept] /\ grown \in [big -> kept] /\ \A p \in Points(s) : map[p] = grown[p]
  BY <1>2, <1>4, <1>5
<1> HIDE DEF map, grown
<1>7. ASSUME NEW c \in kept
      PROVE  /\ bincount(map, c) \in Nat /\ bincount(grown, c) \in Nat
             /\ bincount(map, c) <= bincount(grown, c)
  <2> DEFINE ours == {p \in DOMAIN map : map[p] = c}
             all == {p \in DOMAIN grown : grown[p] = c}
  <2>1. IsFiniteSet(all)
    BY <1>2, <1>6, FS_Subset
  <2>2. ours \in SUBSET all
    BY <1>2, <1>6
  <2>3. bincount(map, c) = Cardinality(ours) /\ bincount(grown, c) = Cardinality(all)
    BY DEF bincount
  <2> HIDE DEF ours, all
  <2>4. IsFiniteSet(ours) /\ Cardinality(ours) <= Cardinality(all)
    BY <2>1, <2>2, FS_Subset
  <2> QED
    BY <2>1, <2>3, <2>4, FS_CardinalityType
<1>8. \A c \in kept : /\ cover[c][1] \in Nat /\ cover[c][2] \in Nat \ {0}
                      /\ cover[c][1] <= cover[c][2]
  BY <1>7
<1> HIDE DEF cover
<1> QED
  BY <1>1, <1>6, <1>8 DEF kept

-------------------------------------------------------------------------------
(* What the climate is told of the ice *)

\* Elevations are numbered from 1, each middle above its lower limit.
LEMMA ElevsAre ==
  \E n \in 2..25 : /\ Elevs = 1..n /\ IsFiniteSet(Elevs) /\ Top = n /\ Top \in Elevs
                   /\ \A k \in Elevs : /\ k \in Nat /\ topo_mid[k] \in Int
                                       /\ topo_max[k] \in Int /\ topo_max[k + 1] \in Int
                                       /\ topo_max[k] <= topo_mid[k] /\ topo_mid[k] < topo_max[k + 1]
<1>1. PICK n \in 2..25 : Elevs = 1..n
  BY ForcingAssumption
<1>2. IsFiniteSet(Elevs)
  BY <1>1, FS_Interval
<1>3. Top = n
  <2>1. \A k \in Elevs : k + 1 \notin Elevs <=> k = n
    BY <1>1
  <2>2. n \in Elevs
    BY <1>1
  <2> QED
    BY <2>1, <2>2 DEF Top
<1>4. \A k \in Elevs : /\ topo_mid[k] \in Int /\ topo_max[k] \in Int /\ topo_max[k + 1] \in Int
                       /\ topo_max[k] <= topo_mid[k] /\ topo_mid[k] < topo_max[k + 1]
  BY PyGlintAssumption, Zenon
<1>5. n \in Elevs /\ \A k \in Elevs : k \in Nat
  BY <1>1
<1> QED
  BY <1>1, <1>2, <1>3, <1>4, <1>5

\* The classes of elevation have no height in common.
LEMMA ClassesApart ==
  ASSUME NEW k \in Elevs, NEW m \in Elevs, NEW topo \in Int,
         InClass(k, topo), InClass(m, topo)
  PROVE  k = m
<1>1. PICK n \in 2..25 : Elevs = 1..n
  BY ElevsAre
<1>2. \A j \in Elevs : /\ topo_max[j] \in Int /\ topo_max[j + 1] \in Int
                       /\ topo_max[j] < topo_max[j + 1]
  <2>1. \A j \in Elevs : /\ topo_max[j] \in Int /\ topo_max[j + 1] \in Int /\ topo_mid[j] \in Int
                         /\ topo_max[j] <= topo_mid[j] /\ topo_mid[j] < topo_max[j + 1]
    BY ElevsAre
  <2> QED
    BY <2>1
<1>3. ASSUME NEW j \in Elevs
      PROVE  \A i \in 0..n : j + 1 + i \in Elevs => topo_max[j + 1] <= topo_max[j + 1 + i]
  <2> DEFINE Good == {i \in Nat : j + 1 + i \in Elevs => topo_max[j + 1] <= topo_max[j + 1 + i]}
  <2>1. 0 \in Good
    BY <1>1, <1>2
  <2>2. ASSUME NEW i \in 0..(n - 1), i \in Good PROVE i + 1 \in Good
    <3>1. SUFFICES ASSUME j + 1 + (i + 1) \in Elevs
                   PROVE  topo_max[j + 1] <= topo_max[j + 1 + (i + 1)]
      OBVIOUS
    <3>2. j + 1 + i \in Elevs /\ (j + 1 + i) + 1 = j + 1 + (i + 1)
      BY <1>1, <3>1
    <3>3. topo_max[j + 1] <= topo_max[j + 1 + i] /\ topo_max[j + 1 + i] < topo_max[j + 1 + (i + 1)]
      BY <1>2, <2>2, <3>2
    <3> QED
      BY <1>2, <3>1, <3>2, <3>3
  <2> HIDE DEF Good
  <2>3. n \in Nat
    BY <1>1
  <2>4. \A i \in 0..n : i \in Good
    BY <2>1, <2>2, <2>3, OneByOne
  <2> QED
    BY <2>4 DEF Good
<1>4. ASSUME NEW a \in Elevs, NEW b \in Elevs, a < b PROVE topo_max[a + 1] <= topo_max[b]
  <2>1. b - a - 1 \in 0..n /\ a + 1 + (b - a - 1) = b
    BY <1>1, <1>4
  <2> QED
    BY <1>3, <2>1
<1>5. /\ topo_max[k] <= topo /\ topo < topo_max[k + 1]
      /\ topo_max[m] <= topo /\ topo < topo_max[m + 1]
  BY DEF InClass
<1>6. k \in Int /\ m \in Int
  BY <1>1
<1>7. ~(k < m)
  BY <1>2, <1>4, <1>5
<1>8. ~(m < k)
  BY <1>2, <1>4, <1>5
<1> QED
  BY <1>6, <1>7, <1>8

\* What is no more than no more.
LEMMA NoMoreThan ==
  ASSUME NEW p \in Rationals, NEW q \in Rationals, NEW r \in Rationals, AtMost(p, q), AtMost(q, r)
  PROVE  AtMost(p, r)
<1>1. \A a, b, c \in Rationals : AtMost(a, b) /\ AtMost(b, c) => AtMost(a, c)
  BY OrderLaws
<1> QED
  BY <1>1

\* Multiplying by what is not negative keeps the order.
LEMMA TimesKeepsOrder ==
  ASSUME NEW p \in Rationals, NEW q \in Rationals, AtMost(p, q),
         NEW r \in Rationals, AtMost(Zero, r)
  PROVE  AtMost(Times(p, r), Times(q, r)) /\ AtMost(Times(r, p), Times(r, q))
<1>1. AtMost(Times(p, r), Times(q, r))
  <2>1. CASE r = Zero
    <3>1. Times(p, r) = Zero /\ Times(q, r) = Zero
      BY <2>1, TimesLaws
    <3>2. AtMost(Zero, Zero)
      <4>1. \A a, b \in Rationals : AtMost(a, b) <=> Less(a, b) \/ a = b
        BY OrderLaws
      <4> QED
        BY <4>1, ZeroIs
    <3> QED
      BY <3>1, <3>2
  <2>2. CASE r # Zero
    <3>1. Less(Zero, r)
      <4>1. \A a, b \in Rationals : AtMost(a, b) <=> Less(a, b) \/ a = b
        BY OrderLaws
      <4> QED
        BY <2>2, <4>1, ZeroIs
    <3> QED
      BY <3>1, TimesOrder
  <2> QED
    BY <2>1, <2>2
<1>2. Times(p, r) = Times(r, p) /\ Times(q, r) = Times(r, q)
  BY TimesLaws
<1> QED
  BY <1>1, <1>2

\* A weight and its complement.
LEMMA Weighted ==
  ASSUME NEW w \in Rationals
  PROVE  /\ Minus(Q(1), w) \in Rationals /\ Plus(w, Minus(Q(1), w)) = Q(1)
         /\ AtMost(w, Q(1)) => AtMost(Zero, Minus(Q(1), w))
<1>1. Q(1) \in Rationals
  BY QIs
<1>2. \A p, q \in Rationals : Minus(p, q) \in Rationals /\ Plus(p, Minus(q, p)) = q
  BY PlusLaws
<1>3. \A p, q \in Rationals : AtMost(p, q) <=> AtMost(Zero, Minus(q, p))
  BY OrderLaws
<1> QED
  BY <1>1, <1>2, <1>3

\* The parts of a box that its classes have of it.
Fine(column) ==
  /\ \A k \in Elevs : column[k] = NaN \/ (column[k] \in Rationals /\ AtMost(Zero, column[k]))
  /\ AtMost(SumOver(column, {k \in Elevs : Finite(column[k])}), Q(1))

Whole(column) ==
  /\ \A k \in Elevs : column[k] \in Rationals /\ AtMost(Zero, column[k])
  /\ AtMost(SumOver(column, Elevs), Q(1))

\* Some of the classes of a box have no more than all of them.
LEMMA PartOfWhole ==
  ASSUME NEW column, Whole(column), NEW T \in SUBSET Elevs
  PROVE  SumOver(column, T) \in Rationals /\ AtMost(SumOver(column, T), Q(1))
<1>1. IsFiniteSet(Elevs)
  BY ElevsAre
<1>2. IsFiniteSet(T) /\ IsFiniteSet(Elevs \ T)
  BY <1>1, FS_Subset
<1>3. \A k \in Elevs : column[k] \in Rationals /\ AtMost(Zero, column[k])
  BY DEF Whole
<1> DEFINE all == SumOver(column, Elevs)
           here == SumOver(column, T)
           rest == SumOver(column, Elevs \ T)
<1>4. all \in Rationals /\ here \in Rationals /\ rest \in Rationals
  BY <1>1, <1>2, <1>3, SumRational
<1>5. all = Plus(here, rest)
  BY <1>1, <1>3, SumOfParts
<1>6. AtMost(Zero, rest)
  BY <1>2, <1>3, SumNotNegative
<1>7. AtMost(all, Q(1)) /\ Q(1) \in Rationals
  BY QIs DEF Whole
<1> HIDE DEF all, here, rest
<1>8. AtMost(here, all)
  <2>1. AtMost(here, here) /\ Plus(here, Zero) = here
    <3>1. \A a, b \in Rationals : AtMost(a, b) <=> Less(a, b) \/ a = b
      BY OrderLaws
    <3> QED
      BY <1>4, <3>1, PlusLaws
  <2>2. AtMost(Plus(here, Zero), Plus(here, rest))
    BY <1>4, <1>6, <2>1, ZeroIs, PlusOrder
  <2> QED
    BY <1>5, <2>1, <2>2
<1>9. AtMost(here, Q(1))
  BY <1>4, <1>7, <1>8, NoMoreThan
<1> QED
  BY <1>4, <1>9 DEF here

\* A box that is blended of what it had and what it gets has fractions of a box
\* again: if what it gets is no number in one class, it is none in all.
LEMMA Blended ==
  ASSUME NEW old, Fine(old), NEW new, Whole(new) \/ \A k \in Elevs : new[k] = NaN,
         NEW w \in Rationals, AtMost(Zero, w), AtMost(w, Q(1)),
         NEW column, \A k \in Elevs : column[k] =
                        NanPlus(NanTimes(new[k], w), NanTimes(Minus(Q(1), w), old[k]))
  PROVE  Fine(column)
<1> DEFINE v == Minus(Q(1), w)
<1>1. v \in Rationals /\ AtMost(Zero, v) /\ Plus(w, v) = Q(1) /\ Q(1) \in Rationals
  BY Weighted, QIs
<1>2. \A k \in Elevs : column[k] = NanPlus(NanTimes(new[k], w), NanTimes(v, old[k]))
  OBVIOUS
<1> HIDE DEF v
<1>3. IsFiniteSet(Elevs)
  BY ElevsAre
<1>4. CASE \A k \in Elevs : new[k] = NaN
  <2>1. \A k \in Elevs : column[k] = NaN
    <3> TAKE k \in Elevs
    <3>1. NanTimes(new[k], w) = NaN
      BY <1>4, NanOperations, NumberIs
    <3> QED
      BY <1>2, <3>1, NanOperations, NumberIs
  <2>2. {k \in Elevs : Finite(column[k])} = {}
    BY <2>1, NumberIs
  <2>3. SumOver(column, {}) = Zero
    BY SumEmpty
  <2>4. AtMost(Zero, Q(1))
    BY <1>1, NoMoreThan, ZeroIs
  <2> QED
    BY <2>1, <2>2, <2>3, <2>4 DEF Fine
<1>5. CASE Whole(new)
  <2> DEFINE F == {k \in Elevs : Finite(old[k])}
             f == [k \in F |-> Times(new[k], w)]
             g == [k \in F |-> Times(old[k], v)]
  <2>1. IsFiniteSet(F)
    BY <1>3, FS_Subset
  <2>2. \A k \in Elevs : new[k] \in Rationals /\ AtMost(Zero, new[k])
    BY <1>5 DEF Whole
  <2>3. \A k \in Elevs : old[k] = NaN \/ (old[k] \in Rationals /\ AtMost(Zero, old[k]))
    BY DEF Fine
  <2>4. \A k \in F : old[k] \in Rationals /\ AtMost(Zero, old[k])
    BY <2>3, NumberIs
  <2>5. ASSUME NEW k \in Elevs, k \notin F PROVE column[k] = NaN
    <3>1. ~Finite(old[k])
      BY <2>5
    <3>2. NanTimes(v, old[k]) = NaN
      BY <3>1, NanOperations
    <3> QED
      BY <1>2, <3>2, NanOperations, NumberIs
  <2>6. ASSUME NEW k \in F
        PROVE  /\ f[k] \in Rationals /\ AtMost(Zero, f[k])
               /\ g[k] \in Rationals /\ AtMost(Zero, g[k])
               /\ column[k] = Plus(f[k], g[k])
    <3>1. k \in Elevs /\ new[k] \in Rationals /\ old[k] \in Rationals
          /\ AtMost(Zero, new[k]) /\ AtMost(Zero, old[k])
      BY <2>2, <2>4
    <3>2. f[k] = Times(new[k], w) /\ g[k] = Times(old[k], v) /\ Times(v, old[k]) = Times(old[k], v)
      BY <1>1, <3>1, TimesLaws
    <3>3. f[k] \in Rationals /\ g[k] \in Rationals
      BY <1>1, <3>1, <3>2, TimesLaws
    <3>4. AtMost(Zero, f[k]) /\ AtMost(Zero, g[k])
      BY <1>1, <3>1, <3>2, TimesSign
    <3>5. NanTimes(new[k], w) = f[k] /\ NanTimes(v, old[k]) = g[k]
      BY <1>1, <3>1, <3>2, NanOperations
    <3> QED
      BY <1>2, <3>1, <3>3, <3>4, <3>5, NanOperations
  <2>7. ASSUME NEW k \in F PROVE column[k] \in Rationals /\ AtMost(Zero, column[k])
    <3>1. AtMost(Plus(Zero, Zero), Plus(f[k], g[k])) /\ Plus(Zero, Zero) = Zero
      BY <2>6, ZeroIs, PlusOrder, PlusLaws
    <3>2. Plus(f[k], g[k]) \in Rationals
      BY <2>6, PlusLaws
    <3> QED
      BY <2>6, <3>1, <3>2
  <2>8. {k \in Elevs : Finite(column[k])} = F
    BY <2>5, <2>7, NumberIs
  <2> DEFINE a == SumOver(new, F)
             b == SumOver(old, F)
  <2>9. a \in Rationals /\ AtMost(a, Q(1))
    BY <1>5, PartOfWhole
  <2>10. b \in Rationals /\ AtMost(b, Q(1))
    BY <2>1, <2>4, SumRational DEF Fine
  <2>11. SumOver(f, F) = Times(a, w)
    <3>1. \A k \in F : f[k] = Times(new[k], w) /\ new[k] \in Rationals
      BY <2>2
    <3> HIDE DEF f, F
    <3> QED
      BY <2>1, <3>1, SumTimes
  <2>12. SumOver(g, F) = Times(b, v)
    <3>1. \A k \in F : g[k] = Times(old[k], v) /\ old[k] \in Rationals
      BY <2>4
    <3> HIDE DEF g, F
    <3> QED
      BY <1>1, <2>1, <3>1, SumTimes
  <2> HIDE DEF f, g, F
  <2>13. SumOver(column, F) = Plus(SumOver(f, F), SumOver(g, F))
    BY <2>1, <2>6, SumAdditive
  <2> HIDE DEF a, b
  <2>14. AtMost(Times(a, w), Times(Q(1), w)) /\ AtMost(Times(b, v), Times(Q(1), v))
    BY <1>1, <2>9, <2>10, TimesKeepsOrder
  <2>15. Times(Q(1), w) = w /\ Times(Q(1), v) = v /\ Times(a, w) \in Rationals /\ Times(b, v) \in Rationals
    BY <1>1, <2>9, <2>10, TimesLaws
  <2>16. AtMost(Plus(Times(a, w), Times(b, v)), Plus(w, v))
    BY <1>1, <2>14, <2>15, PlusOrder
  <2>17. AtMost(SumOver(column, F), Q(1))
    BY <1>1, <2>11, <2>12, <2>13, <2>16
  <2> QED
    BY <2>5, <2>7, <2>8, <2>17 DEF Fine, F
<1> QED
  BY <1>4, <1>5

\* A sum over a function made for it is one of its terms.
LEMMA SumOfSome ==
  ASSUME NEW value, NEW S, IsFiniteSet(S)
  PROVE  Sum([p \in S |-> value[p]]) = SumOver(value, S)
<1> DEFINE f == [p \in S |-> value[p]]
<1>1. DOMAIN f = S /\ \A p \in S : f[p] = value[p]
  OBVIOUS
<1>2. Sum(f) = SumOver(f, DOMAIN f)
  BY SumIs
<1> HIDE DEF f
<1>3. SumOver(f, S) = SumOver(value, S)
  BY <1>1, SumEqual
<1> QED
  BY <1>1, <1>2, <1>3 DEF f

\* A division by a positive number is a multiplication.
LEMMA OverCount ==
  ASSUME NEW n \in Nat \ {0}
  PROVE  /\ Q(n) \in Rationals /\ Q(n) # Zero /\ Less(Zero, Q(n))
         /\ Over(Q(1), Q(n)) \in Rationals /\ AtMost(Zero, Over(Q(1), Q(n)))
         /\ Times(Q(n), Over(Q(1), Q(n))) = Q(1)
         /\ \A p \in Rationals : Over(p, Q(n)) = Times(p, Over(Q(1), Q(n)))
<1> DEFINE q == Q(n)
           r == Over(Q(1), q)
<1>1. q \in Rationals /\ Q(1) \in Rationals /\ Less(Zero, q) /\ Less(Zero, Q(1))
  <2>1. Q(n) = Ratio(n, 1) /\ Q(1) = Ratio(1, 1) /\ Zero = Ratio(0, 1) /\ Q(n) \in Rationals
        /\ Q(1) \in Rationals
    BY QIs, ZeroIs
  <2>2. \A m \in Nat \ {0} : Less(Ratio(0, 1), Ratio(m, 1))
    <3> TAKE m \in Nat \ {0}
    <3>1. Less(Ratio(0, 1), Ratio(m, 1)) <=> 0 * 1 < m * 1
      BY LessIs
    <3> QED
      BY <3>1
  <2> QED
    BY <2>1, <2>2
<1> HIDE DEF q
<1>2. q # Zero /\ r \in Rationals /\ Times(r, q) = Q(1) /\ AtMost(Zero, r)
  <2>1. Less(Zero, r)
    BY <1>1, OverSign
  <2>2. q # Zero /\ r \in Rationals /\ Times(r, q) = Q(1)
    BY <1>1, OverSign
  <2>3. \A a, b \in Rationals : AtMost(a, b) <=> Less(a, b) \/ a = b
    BY OrderLaws
  <2> QED
    BY <2>1, <2>2, <2>3, ZeroIs
<1> HIDE DEF r
<1>3. Times(q, r) = Q(1)
  BY <1>1, <1>2, TimesLaws
<1>4. ASSUME NEW p \in Rationals PROVE Over(p, q) = Times(p, r)
  <2>1. Times(p, r) \in Rationals
    BY <1>2, TimesLaws
  <2>2. Times(Times(p, r), q) = Times(p, Times(r, q))
    <3>1. \A a, b, c \in Rationals : Times(a, Times(b, c)) = Times(Times(a, b), c)
      BY TimesLaws
    <3> QED
      BY <1>1, <1>2, <3>1
  <2>3. Times(p, Q(1)) = p
    BY TimesLaws
  <2>4. Times(Times(p, r), q) = p
    BY <1>2, <2>2, <2>3
  <2> QED
    BY <1>1, <1>2, <2>1, <2>4, OverIs
<1> QED
  BY <1>1, <1>2, <1>3, <1>4 DEF q, r

\* Means over all the ice of a box of what is its own part of each class.
Parted(ice, value, part) ==
  /\ IsFiniteSet(ice)
  /\ \A p \in ice : /\ value[p] \in Rationals
                    /\ AtMost(Zero, value[p]) /\ AtMost(value[p], Q(1))
  /\ \A k \in Elevs : part[k] \subseteq ice
  /\ \A k, m \in Elevs : k # m => part[k] \intersect part[m] = {}

MeansOverAll(new, ice, value, part) ==
  \A k \in Elevs : new[k] = IF Cardinality(ice) = 0 THEN NaN
                            ELSE NanOver(SumOver(value, part[k]), Q(Cardinality(ice)))

\* The means over the ice of a box, by elevation class, add up to the whole of it, or
\* there is no ice and none of them is a number.
LEMMA PartsOfBox ==
  ASSUME NEW ice, NEW value, NEW part, Parted(ice, value, part),
         NEW new, MeansOverAll(new, ice, value, part)
  PROVE  Whole(new) \/ \A k \in Elevs : new[k] = NaN
<1> USE DEF Parted, MeansOverAll
<1> DEFINE n == Cardinality(ice)
<1>1. n \in Nat /\ IsFiniteSet(Elevs) /\ \A k \in Elevs : IsFiniteSet(part[k])
  BY FS_CardinalityType, FS_Subset, ElevsAre
<1>2. ASSUME NEW k \in Elevs
      PROVE  new[k] = IF n = 0 THEN NaN ELSE NanOver(SumOver(value, part[k]), Q(n))
  OBVIOUS
<1> HIDE DEF n
<1>3. SUFFICES ASSUME n # 0 PROVE Whole(new)
  BY <1>2
<1> DEFINE g == [k \in Elevs |-> SumOver(value, part[k])]
           all == UNION {part[k] : k \in Elevs}
           r == Over(Q(1), Q(n))
<1>4. /\ Q(n) \in Rationals /\ Q(n) # Zero
      /\ r \in Rationals /\ AtMost(Zero, r) /\ Times(Q(n), r) = Q(1)
      /\ \A p \in Rationals : Over(p, Q(n)) = Times(p, r)
  BY <1>1, <1>3, OverCount
<1> HIDE DEF r
<1>5. ASSUME NEW k \in Elevs
      PROVE  /\ g[k] = SumOver(value, part[k]) /\ g[k] \in Rationals /\ AtMost(Zero, g[k])
             /\ new[k] = Times(g[k], r) /\ new[k] \in Rationals /\ AtMost(Zero, new[k])
  <2>1. g[k] = SumOver(value, part[k])
    OBVIOUS
  <2> HIDE DEF g
  <2>2. \A p \in part[k] : value[p] \in Rationals /\ AtMost(Zero, value[p])
    OBVIOUS
  <2>3. g[k] \in Rationals /\ AtMost(Zero, g[k])
    BY <1>1, <2>1, <2>2, SumRational, SumNotNegative
  <2>4. new[k] = Times(g[k], r)
    BY <1>2, <1>3, <1>4, <2>1, <2>3, NanOperations
  <2>5. Times(g[k], r) \in Rationals
    BY <1>4, <2>3, TimesLaws
  <2>6. AtMost(Zero, Times(g[k], r))
    BY <1>4, <2>3, TimesSign
  <2> QED
    BY <2>1, <2>3, <2>4, <2>5, <2>6
<1>6. IsFiniteSet(all) /\ all \in SUBSET ice /\ Cardinality(all) \in Nat /\ Cardinality(all) <= n
  <2>1. all \in SUBSET ice
    OBVIOUS
  <2> HIDE DEF all
  <2> QED
    BY <2>1, FS_Subset, FS_CardinalityType DEF n
<1>7. SumOver(g, Elevs) = SumOver(value, all)
  <2>1. \A p \in ice : value[p] \in Rationals
    OBVIOUS
  <2>2. \A k \in Elevs : g[k] = SumOver(value, part[k])
    BY <1>5
  <2> HIDE DEF g
  <2> QED
    BY <1>1, <2>1, <2>2, SumByParts
<1>8. AtMost(SumOver(value, all), Q(n)) /\ SumOver(value, all) \in Rationals
  <2> DEFINE one == [p \in all |-> Q(1)]
             m == Cardinality(all)
  <2>1. \A p \in all : /\ value[p] \in Rationals /\ one[p] \in Rationals /\ one[p] = Q(1)
                       /\ AtMost(value[p], one[p])
    BY <1>6, QIs
  <2> HIDE DEF one, all
  <2>2. AtMost(SumOver(value, all), SumOver(one, all))
    BY <1>6, <2>1, SumOrder
  <2>3. SumOver(one, all) = Times(Q(m), Q(1))
    BY <1>6, <2>1, QIs, SumConstant
  <2>4. m \in Int /\ n \in Int /\ m <= n
    BY <1>1, <1>6
  <2> HIDE DEF m
  <2>5. Q(m) \in Rationals /\ Times(Q(m), Q(1)) = Q(m)
    BY <2>4, QIs, TimesLaws
  <2>6. AtMost(Q(m), Q(n))
    <3>1. Q(m) = Ratio(m, 1) /\ Q(n) = Ratio(n, 1)
      BY <2>4, QIs
    <3>2. AtMost(Ratio(m, 1), Ratio(n, 1)) <=> m <= n
      <4>1. \A d \in Nat \ {0} : AtMost(Ratio(m, d), Ratio(n, d)) <=> m <= n
        BY <2>4, InUnits
      <4> QED
        BY <4>1
    <3> QED
      BY <2>4, <3>1, <3>2
  <2>7. SumOver(value, all) \in Rationals
    BY <1>6, <2>1, SumRational
  <2> QED
    BY <1>4, <2>2, <2>3, <2>5, <2>6, <2>7, NoMoreThan
<1>9. SumOver(new, Elevs) = Times(SumOver(g, Elevs), r)
  <2>1. \A k \in Elevs : g[k] \in Rationals /\ new[k] = Times(g[k], r)
    BY <1>5
  <2> HIDE DEF g
  <2> QED
    BY <1>1, <1>4, <2>1, SumTimes
<1> HIDE DEF g, all
<1>10. AtMost(Times(SumOver(g, Elevs), r), Q(1))
  BY <1>4, <1>7, <1>8, TimesKeepsOrder
<1> QED
  BY <1>5, <1>9, <1>10 DEF Whole

\* What a sheet may look like.
Looks(s) == [Points(s) -> [thk : Nat, topo : Int, frac : 0..FracUnit]]

\* What the sheets may look like.
LEMMA LookIs ==
  ASSUME NEW s \in Sheets, NEW look \in Looks(s)
  PROVE  /\ DOMAIN look = Points(s) /\ MaskOf(look) \subseteq Points(s) /\ IsFiniteSet(MaskOf(look))
         /\ \A p \in Points(s) : /\ look[p].topo \in Int /\ look[p].thk \in Nat
                                 /\ Ratio(look[p].frac, FracUnit) \in Rationals
                                 /\ AtMost(Zero, Ratio(look[p].frac, FracUnit))
                                 /\ AtMost(Ratio(look[p].frac, FracUnit), Q(1))
<1>1. DOMAIN look = Points(s) /\ MaskOf(look) \subseteq Points(s)
  BY DEF Looks, MaskOf
<1>2. IsFiniteSet(MaskOf(look))
  BY <1>1, PointsAre, FS_Subset
<1>3. ASSUME NEW p \in Points(s)
      PROVE  /\ look[p].topo \in Int /\ look[p].thk \in Nat /\ look[p].frac \in 0..FracUnit
  BY DEF Looks
<1>4. FracUnit \in Nat \ {0}
  BY PyGlintAssumption, Zenon
<1>5. ASSUME NEW a \in 0..FracUnit
      PROVE  /\ Ratio(a, FracUnit) \in Rationals /\ AtMost(Zero, Ratio(a, FracUnit))
             /\ AtMost(Ratio(a, FracUnit), Q(1))
  <2>1. Ratio(a, FracUnit) \in Rationals
    BY <1>4, RatioInRationals
  <2>2. Zero = Ratio(0, FracUnit) /\ Q(1) = Ratio(FracUnit, FracUnit)
    <3>1. Q(1) = Ratio(1, 1)
      BY QIs
    <3>2. Ratio(1, 1) = Ratio(1 * FracUnit, 1 * FracUnit)
      BY <1>4, Scaled
    <3>3. 1 * FracUnit = FracUnit
      BY <1>4
    <3> QED
      BY <1>4, <3>1, <3>2, <3>3, ZeroIs
  <2>3. 0 <= a /\ a <= FracUnit /\ a \in Int /\ FracUnit \in Int /\ 0 \in Int
    BY <1>4
  <2>4. AtMost(Ratio(0, FracUnit), Ratio(a, FracUnit)) <=> 0 <= a
    BY <1>4, <2>3, InUnits
  <2>5. AtMost(Ratio(a, FracUnit), Ratio(FracUnit, FracUnit)) <=> a <= FracUnit
    BY <1>4, <2>3, InUnits
  <2> QED
    BY <2>1, <2>2, <2>3, <2>4, <2>5
<1> QED
  BY <1>1, <1>2, <1>3, <1>5

AtmFields == {"smb", "snow", "temp", "topo", "frac"}

\* The classes of every box have no more of it than there is.
Filled(frac) == \A b \in Boxes : Fine([k \in Elevs |-> frac[k][b]])

\* The ice of a box, what part of its points it takes, and its parts by class.
BoxOf(look, map, c, ice, value, part) ==
  /\ ice = {p \in MaskOf(look) : map[p] = c}
  /\ value = [p \in DOMAIN look |-> Ratio(look[p].frac, FracUnit)]
  /\ part = [k \in Elevs |-> {p \in ice : InClass(k, look[p].topo)}]

\* The elevation classes part the points of a box, as the means above need.
LEMMA ClassesOfBox ==
  ASSUME NEW s \in Sheets, NEW look \in Looks(s), NEW map, NEW c,
         NEW ice, NEW value, NEW part, BoxOf(look, map, c, ice, value, part),
         NEW new, MeansOverAll(new, ice, value, part)
  PROVE  Whole(new) \/ \A k \in Elevs : new[k] = NaN
<1> USE DEF BoxOf
<1>1. /\ DOMAIN look = Points(s) /\ MaskOf(look) \subseteq Points(s) /\ IsFiniteSet(MaskOf(look))
      /\ \A p \in Points(s) : /\ look[p].topo \in Int
                              /\ Ratio(look[p].frac, FracUnit) \in Rationals
                              /\ AtMost(Zero, Ratio(look[p].frac, FracUnit))
                              /\ AtMost(Ratio(look[p].frac, FracUnit), Q(1))
  BY LookIs
<1>2. IsFiniteSet(ice) /\ ice \subseteq Points(s)
  BY <1>1, FS_Subset
<1>3. \A p \in ice : /\ value[p] \in Rationals
                     /\ AtMost(Zero, value[p]) /\ AtMost(value[p], Q(1))
  BY <1>1, <1>2
<1>4. \A k \in Elevs : part[k] \subseteq ice
  OBVIOUS
<1>5. \A k, m \in Elevs : k # m => part[k] \intersect part[m] = {}
  <2>1. SUFFICES ASSUME NEW k \in Elevs, NEW m \in Elevs, k # m,
                        NEW p \in ice, InClass(k, look[p].topo), InClass(m, look[p].topo)
                 PROVE  FALSE
    OBVIOUS
  <2>2. look[p].topo \in Int
    BY <1>1, <1>2
  <2> QED
    BY <2>1, <2>2, ClassesApart
<1>6. Parted(ice, value, part)
  BY <1>2, <1>3, <1>4, <1>5 DEF Parted
<1> QED
  BY <1>6, PartsOfBox

\* ism_to_atm leaves fractions of a box in every box.
LEMMA UpIs ==
  ASSUME NEW s \in Sheets, Look(s) \in Looks(s), pairs[s] = GridPair(s),
         DOMAIN atm = AtmFields, Filled(atm.frac), ism_to_atm(s)
  PROVE  /\ DOMAIN atm' = AtmFields /\ Filled(atm'.frac)
         /\ atm'.smb = atm.smb /\ atm'.temp = atm.temp
<1> DEFINE pair == pairs[s]
           look == Look(s)
           value == [p \in DOMAIN look |-> Ratio(look[p].frac, FracUnit)]
           base == cell_id(0, pair.crop.ilo)
           kept == Kept(pair.crop)
           region == mean_to_global_mec(pair, look, value, TRUE)
           part(c) == Ratio(pair.cover[c][1], pair.cover[c][2])
<1>1. /\ DOMAIN atm' = DOMAIN atm /\ atm'.smb = atm.smb /\ atm'.temp = atm.temp
      /\ atm'.frac = [k \in Elevs |-> [b \in Boxes |->
           IF b - base \notin kept THEN atm.frac[k][b]
           ELSE splice_global(atm.frac[k][b], region[k][b - base], part(b - base))]]
  BY Zenon DEF ism_to_atm, AtmFields
<1>2. ASSUME NEW c \in kept
      PROVE  part(c) \in Rationals /\ AtMost(Zero, part(c)) /\ AtMost(part(c), Q(1))
  <2>1. /\ pair.cover[c][1] \in Nat /\ pair.cover[c][2] \in Nat \ {0}
        /\ pair.cover[c][1] <= pair.cover[c][2]
    BY PairIs
  <2> DEFINE m == pair.cover[c][1]
             n == pair.cover[c][2]
  <2>2. m \in Int /\ 0 <= m /\ m <= n /\ n \in Nat \ {0} /\ n \in Int /\ 0 \in Int
    BY <2>1
  <2>3. part(c) = Ratio(m, n)
    OBVIOUS
  <2> HIDE DEF m, n
  <2>4. Ratio(m, n) \in Rationals /\ Zero = Ratio(0, n)
    BY <2>2, RatioInRationals, ZeroIs
  <2>5. Q(1) = Ratio(n, n)
    <3>1. Q(1) = Ratio(1, 1)
      BY QIs
    <3>2. Ratio(1, 1) = Ratio(1 * n, 1 * n)
      BY <2>2, Scaled
    <3>3. 1 * n = n
      BY <2>2
    <3> QED
      BY <3>1, <3>2, <3>3
  <2>6. AtMost(Ratio(0, n), Ratio(m, n)) <=> 0 <= m
    BY <2>2, InUnits
  <2>7. AtMost(Ratio(m, n), Ratio(n, n)) <=> m <= n
    BY <2>2, InUnits
  <2> QED
    BY <2>2, <2>3, <2>4, <2>5, <2>6, <2>7
<1>3. ASSUME NEW b \in Boxes PROVE Fine([k \in Elevs |-> atm'.frac[k][b]])
  <2> DEFINE c == b - base
             old == [k \in Elevs |-> atm.frac[k][b]]
             new == [k \in Elevs |-> region[k][c]]
             column == [k \in Elevs |-> atm'.frac[k][b]]
  <2>1. Fine(old)
    BY DEF Filled
  <2>2. CASE c \notin kept
    <3>1. column = old
      BY <1>1, <2>2
    <3> QED
      BY <2>1, <3>1
  <2>3. CASE c \in kept
    <3>1. Whole(new) \/ \A k \in Elevs : new[k] = NaN
      <4> DEFINE map == pair.map
                 ice == {p \in MaskOf(look) : map[p] = c}
                 part_ == [k \in Elevs |-> {p \in ice : InClass(k, look[p].topo)}]
      <4>1. IsFiniteSet(ice)
        BY LookIs, FS_Subset
      <4>2. \A k \in Elevs : part_[k] \subseteq ice /\ IsFiniteSet(part_[k])
        BY <4>1, FS_Subset
      <4>3. \A k \in Elevs : new[k] = ClassMean(value, ice, part_[k], TRUE)
        BY <2>3 DEF mean_to_global_mec
      <4> HIDE DEF new
      <4>4. MeansOverAll(new, ice, value, part_)
        <5> HIDE DEF part_, ice, value
        <5> QED
          BY <4>2, <4>3, SumOfSome DEF ClassMean, MeansOverAll
      <4>5. BoxOf(look, map, c, ice, value, part_) /\ look \in Looks(s)
        BY DEF BoxOf
      <4> HIDE DEF ice, map, c, part_, value, look
      <4> QED
        BY <4>4, <4>5, ClassesOfBox
    <3>2. \A k \in Elevs : old[k] # Masked
      BY <2>1, NumberIs DEF Fine, NaN, Masked
    <3>3. \A k \in Elevs : column[k] = NanPlus(NanTimes(new[k], part(c)),
                                               NanTimes(Minus(Q(1), part(c)), old[k]))
      <4> TAKE k \in Elevs
      <4>1. column[k] = splice_global(old[k], new[k], part(c))
        <5>1. column[k] = atm'.frac[k][b] /\ old[k] = atm.frac[k][b] /\ new[k] = region[k][c]
          OBVIOUS
        <5> HIDE DEF column, old, new, region, kept, base, value, look, pair
        <5>2. atm'.frac[k][b] = splice_global(atm.frac[k][b], region[k][c], part(c))
          BY <1>1, <2>3
        <5> QED
          BY <5>1, <5>2
      <4> HIDE DEF column, old, new, part
      <4> QED
        BY <3>2, <4>1 DEF splice_global
    <3> DEFINE w == part(c)
    <3>4. w \in Rationals /\ AtMost(Zero, w) /\ AtMost(w, Q(1))
      BY <1>2, <2>3
    <3> HIDE DEF w, old, new, column
    <3>5. \A k \in Elevs : column[k] = NanPlus(NanTimes(new[k], w), NanTimes(Minus(Q(1), w), old[k]))
      BY <3>3 DEF w
    <3>6. Fine(column)
      BY <2>1, <3>1, <3>4, <3>5, Blended
    <3> QED
      BY <3>6 DEF column
  <2> QED
    BY <2>2, <2>3
<1> QED
  BY <1>1, <1>3 DEF Filled

-------------------------------------------------------------------------------
(* The year *)

Inputs ==
  /\ um \in DOMAIN Means
  /\ \A s \in Sheets : surface[s] \in DOMAIN Surfaces[s]
  /\ pairs = [s \in Sheets |-> GridPair(s)]

Made == forcing = Forcing(Means[um], options.exclude, options.do_snow_shuffling)

AsRead(f) ==
  [k \in Elevs |-> [b \in Boxes |-> IF b \in forcing.land THEN Q(f[k][b]) ELSE Masked]]

AtmIs ==
  /\ DOMAIN atm = AtmFields
  /\ atm.smb = AsRead(forcing.ice_smb) /\ atm.temp = AsRead(forcing.ice_stemp)
  /\ pc[1] = "atm_to_ism" => atm.snow = AsRead(forcing.nonice_snowdepth)
  /\ Filled(atm.frac)

YearInv ==
  /\ Inputs
  /\ pc[1] \in {"um_to_unicicles", "read"} => atm = None
  /\ pc[1] \in {"read", "atm_to_ism", "ism_to_atm"} => Made
  /\ pc[1] \in {"atm_to_ism", "ism_to_atm"} => atm # None
  /\ atm # None => Made /\ AtmIs

\* A sheet looks like one of its surfaces, and its pair of grids is its own.
LEMMA LooksAre ==
  ASSUME NEW s \in Sheets, Inputs
  PROVE  Look(s) \in Looks(s) /\ pairs[s] = GridPair(s)
<1>1. \A i \in DOMAIN Surfaces[s] : Surfaces[s][i] \in [Points(s) -> [thk : Nat, topo : Int, frac : 0..FracUnit]]
  BY PyGlintAssumption, Zenon
<1> QED
  BY <1>1 DEF Inputs, Look, Looks

\* Bringing the forcing down to a sheet leaves the climate's as it is.
LEMMA AfterBringing ==
  ASSUME NEW s \in Sheets, atm_to_ism(s)
  PROVE  /\ UNCHANGED inputVars /\ forcing' = forcing /\ atm' = atm /\ pc[1] = "atm_to_ism"
         /\ pc'[1] \in {"failed", "atm_to_ism", "ism_to_atm"}
<1>1. UNCHANGED inputVars /\ forcing' = forcing /\ atm' = atm /\ pc = <<"atm_to_ism", Turn(s)>>
  BY Zenon DEF atm_to_ism
<1>2. pc' = <<"failed", 0>> \/ pc' = After("atm_to_ism", s, "ism_to_atm")
  BY Zenon DEF atm_to_ism
<1> QED
  BY <1>1, <1>2 DEF After

\* No array is there at first.
LEMMA YearInit == Init => YearInv
<1> SUFFICES ASSUME Init PROVE YearInv
  OBVIOUS
<1>1. um \in DOMAIN Means /\ pairs = [s \in Sheets |-> GridPair(s)] /\ atm = None
      /\ pc = <<"um_to_unicicles", 0>>
  BY DEF Init
<1>2. \A s \in Sheets : surface[s] \in DOMAIN Surfaces[s]
  BY DEF Init, Sheets
<1> QED
  BY <1>1, <1>2 DEF YearInv, Inputs

\* A climate that is there is not none.
LEMMA FieldsAreNotNone == \A x : DOMAIN x = AtmFields => x # None
BY DEF AtmFields, None

\* Whole numbers, as rationals, have the arithmetic of the integers.
LEMMA WholeNumbers ==
  ASSUME NEW m \in Int, NEW n \in Int
  PROVE  /\ Q(m) \in Rationals /\ Q(n) \in Rationals
         /\ Plus(Q(m), Q(n)) = Q(m + n) /\ Minus(Q(m), Q(n)) = Q(m - n)
         /\ Times(Q(m), Q(n)) = Q(m * n)
         /\ AtMost(Q(m), Q(n)) <=> m <= n
         /\ Less(Q(m), Q(n)) <=> m < n
         /\ Q(m) = Q(n) <=> m = n
<1> DEFINE k == m * n
<1>1. k \in Int /\ m + n \in Int /\ m - n \in Int
  OBVIOUS
<1>2. Times(Ratio(m, 1), Ratio(n, 1)) = Ratio(k, 1 * 1)
  BY TimesIs
<1> HIDE DEF k
<1>3. /\ Q(m) = Ratio(m, 1) /\ Q(n) = Ratio(n, 1) /\ Q(k) = Ratio(k, 1)
      /\ Q(m + n) = Ratio(m + n, 1) /\ Q(m - n) = Ratio(m - n, 1)
      /\ Q(m) \in Rationals /\ Q(n) \in Rationals
  BY <1>1, QIs
<1>4. \A d \in Nat \ {0} :
        /\ Plus(Ratio(m, d), Ratio(n, d)) = Ratio(m + n, d)
        /\ Minus(Ratio(m, d), Ratio(n, d)) = Ratio(m - n, d)
        /\ Ratio(m, d) = Ratio(n, d) <=> m = n
        /\ Less(Ratio(m, d), Ratio(n, d)) <=> m < n
        /\ AtMost(Ratio(m, d), Ratio(n, d)) <=> m <= n
  BY InUnits
<1>5. 1 \in Nat \ {0} /\ 1 * 1 = 1
  OBVIOUS
<1>6. Times(Q(m), Q(n)) = Q(k)
  BY <1>2, <1>3, <1>5
<1>7. /\ Plus(Q(m), Q(n)) = Q(m + n) /\ Minus(Q(m), Q(n)) = Q(m - n)
      /\ AtMost(Q(m), Q(n)) <=> m <= n
      /\ Less(Q(m), Q(n)) <=> m < n
      /\ Q(m) = Q(n) <=> m = n
  BY <1>3, <1>4, <1>5
<1> QED
  BY <1>3, <1>6, <1>7 DEF k

\* A climate that has made no ice has filled no box.
LEMMA NothingFills ==
  ASSUME NEW frac, frac = [k \in Elevs |-> [b \in Boxes |-> Zero]]
  PROVE  Filled(frac)
<1> SUFFICES ASSUME NEW b \in Boxes PROVE Fine([k \in Elevs |-> frac[k][b]])
  BY DEF Filled
<1> DEFINE column == [k \in Elevs |-> frac[k][b]]
           F == {k \in Elevs : Finite(column[k])}
<1>1. \A k \in Elevs : column[k] = Zero
  OBVIOUS
<1> HIDE DEF column
<1>2. IsFiniteSet(F) /\ \A k \in F : column[k] = Zero
  BY <1>1, ElevsAre, FS_Subset
<1> HIDE DEF F
<1>3. SumOver(column, F) = Zero
  BY <1>2, SumZero
<1>4. AtMost(Zero, Zero) /\ Zero \in Rationals
  <2>1. \A a, c \in Rationals : AtMost(a, c) <=> Less(a, c) \/ a = c
    BY OrderLaws
  <2> QED
    BY <2>1, ZeroIs
<1>5. AtMost(Zero, Q(1))
  <2>1. Zero = Q(0)
    BY ZeroIs
  <2>2. AtMost(Q(0), Q(1)) <=> 0 <= 1
    BY WholeNumbers
  <2> QED
    BY <2>1, <2>2
<1> QED
  BY <1>1, <1>3, <1>4, <1>5 DEF Fine, F, column

\* No step of the program, nor of what is around it, breaks the invariant.
LEMMA YearStep == YearInv /\ [Next]_vars => YearInv'
<1> SUFFICES ASSUME YearInv, [Next]_vars PROVE YearInv'
  OBVIOUS
<1>1. ASSUME UNCHANGED inputVars PROVE Inputs'
  BY <1>1 DEF Inputs, YearInv, inputVars
<1>2. CASE um_to_unicicles
  <2>1. /\ UNCHANGED inputVars /\ atm' = atm /\ pc = <<"um_to_unicicles", 0>>
        /\ pc' = <<"failed", 0>> \/ (pc' = <<"read", 0>> /\ Made')
    BY <1>2, Zenon DEF um_to_unicicles, Made, inputVars
  <2>2. atm' = None
    BY <2>1 DEF YearInv
  <2> QED
    BY <1>1, <2>1, <2>2 DEF YearInv
<1>3. CASE ReadForcing
  <2>1. /\ UNCHANGED inputVars /\ forcing' = forcing /\ pc = <<"read", 0>> /\ pc' = <<"atm_to_ism", 1>>
        /\ DOMAIN atm' = AtmFields
        /\ atm'.smb = AsRead(forcing.ice_smb) /\ atm'.temp = AsRead(forcing.ice_stemp)
        /\ atm'.snow = AsRead(forcing.nonice_snowdepth)
        /\ atm'.frac = [k \in Elevs |-> [b \in Boxes |-> Zero]]
    BY <1>3 DEF ReadForcing, AsRead, AtmFields
  <2>2. Made /\ Made'
    BY <2>1 DEF YearInv, Made, inputVars
  <2>3. AtmIs'
    BY <2>1, NothingFills DEF AtmIs, AsRead
  <2>4. atm' # None
    BY <2>1, FieldsAreNotNone
  <2> QED
    BY <1>1, <2>1, <2>2, <2>3, <2>4 DEF YearInv
<1>4. ASSUME NEW s \in Sheets, atm_to_ism(s) PROVE YearInv'
  <2>1. /\ UNCHANGED inputVars /\ forcing' = forcing /\ atm' = atm /\ pc[1] = "atm_to_ism"
        /\ pc'[1] \in {"failed", "atm_to_ism", "ism_to_atm"}
    BY <1>4, AfterBringing
  <2>2. Made /\ Made' /\ atm # None /\ AtmIs
    BY <2>1 DEF YearInv, Made, inputVars
  <2>3. AtmIs'
    <3>1. Filled(atm.frac)'
      BY <2>1, <2>2 DEF AtmIs, Filled, Fine
    <3>2. atm'.smb = AsRead(forcing.ice_smb)' /\ atm'.temp = AsRead(forcing.ice_stemp)'
      BY <2>1, <2>2 DEF AtmIs, AsRead
    <3>3. atm'.snow = AsRead(forcing.nonice_snowdepth)'
      BY <2>1, <2>2 DEF AtmIs, AsRead
    <3> QED
      BY <2>1, <2>2, <3>1, <3>2, <3>3 DEF AtmIs
  <2> QED
    BY <1>1, <2>1, <2>2, <2>3 DEF YearInv
<1>5. ASSUME NEW s \in Sheets, ism_to_atm(s) PROVE YearInv'
  <2>1. /\ UNCHANGED inputVars /\ forcing' = forcing /\ pc[1] = "ism_to_atm"
        /\ pc'[1] \in {"done", "ism_to_atm"}
    BY <1>5 DEF ism_to_atm, After
  <2>2. Made /\ Made' /\ atm # None /\ AtmIs /\ Inputs
    BY <2>1 DEF YearInv, Made, inputVars
  <2>3. /\ DOMAIN atm' = AtmFields /\ Filled(atm'.frac)
        /\ atm'.smb = atm.smb /\ atm'.temp = atm.temp
    BY <1>5, <2>2, LooksAre, UpIs DEF AtmIs
  <2>4. AtmIs'
    <3>1. Filled(atm.frac)'
      BY <2>3 DEF Filled, Fine
    <3>2. atm'.smb = AsRead(forcing.ice_smb)' /\ atm'.temp = AsRead(forcing.ice_stemp)'
      BY <2>1, <2>2, <2>3 DEF AtmIs, AsRead
    <3> QED
      BY <2>1, <2>3, <3>1, <3>2 DEF AtmIs
  <2>5. atm' # None
    BY <2>3, FieldsAreNotNone
  <2> QED
    BY <1>1, <2>1, <2>2, <2>4, <2>5 DEF YearInv
<1>6. CASE UNCHANGED vars
  <2>1. UNCHANGED <<um, surface, options, pairs, forcing, atm, pc>>
    BY <1>6 DEF vars, inputVars
  <2>2. AtmIs => AtmIs'
    <3>1. Filled(atm.frac)' <=> Filled(atm.frac)
      BY <2>1 DEF Filled, Fine
    <3>2. \A f : AsRead(f)' = AsRead(f)
      BY <2>1 DEF AsRead
    <3> QED
      BY <2>1, <3>1, <3>2 DEF AtmIs, AsRead
  <2>3. Inputs' /\ (Made <=> Made')
    BY <2>1 DEF YearInv, Inputs, Made
  <2> QED
    BY <2>1, <2>2, <2>3 DEF YearInv
<1> QED
  BY <1>2, <1>3, <1>4, <1>5, <1>6 DEF Next

\* The invariant of the program: the climate's fields are as read, but for the
\* fractions, which ism_to_atm has filled in; the steps come in order.
THEOREM YearHolds == Spec => []YearInv
BY YearInit, YearStep, PTL DEF Spec

\* Whatever the sheets' ice and grids, the fractions that ism_to_atm blends into a box
\* are none of them negative, and come to no more than the box (IceWithinBox).
THEOREM IceIsWithinBox == Spec => []IceWithinBox
<1>1. YearInv => IceWithinBox
  <2> SUFFICES ASSUME Filled(atm.frac), NEW b \in Boxes
               PROVE  LET fracs == [k \in {j \in Elevs : Finite(atm.frac[j][b])} |-> atm.frac[k][b]]
                      IN  AtMost(Sum(fracs), Q(1)) /\ \A k \in DOMAIN fracs : AtMost(Zero, fracs[k])
    BY DEF YearInv, AtmIs, IceWithinBox
  <2> DEFINE column == [k \in Elevs |-> atm.frac[k][b]]
             F == {k \in Elevs : Finite(column[k])}
             G == {j \in Elevs : Finite(atm.frac[j][b])}
             fracs == [k \in G |-> atm.frac[k][b]]
  <2>1. Fine(column)
    BY DEF Filled
  <2>2. G = F /\ DOMAIN fracs = F /\ \A k \in F : fracs[k] = column[k]
    OBVIOUS
  <2>3. /\ \A k \in Elevs : column[k] = NaN \/ (column[k] \in Rationals /\ AtMost(Zero, column[k]))
        /\ AtMost(SumOver(column, F), Q(1))
    BY <2>1 DEF Fine
  <2> HIDE DEF column, G, fracs
  <2>4. IsFiniteSet(F) /\ \A k \in F : AtMost(Zero, column[k])
    BY <2>3, ElevsAre, FS_Subset, NumberIs
  <2> HIDE DEF F
  <2>5. Sum(fracs) = SumOver(column, F)
    BY <2>2, <2>4, SumIs, SumEqual
  <2> QED
    BY <2>2, <2>3, <2>4, <2>5 DEF fracs, G
<1> QED
  BY <1>1, YearHolds, PTL

-------------------------------------------------------------------------------
(* What is brought down, between the least and the greatest *)

\* A finite set of rationals has a least one.
LEMMA LeastRational ==
  ASSUME NEW S \in SUBSET Rationals, IsFiniteSet(S), S # {}
  PROVE  \E a \in S : \A b \in S : AtMost(a, b)
<1> DEFINE Good == {T \in SUBSET S : T = {} \/ \E a \in T : \A b \in T : AtMost(a, b)}
<1>1. {} \in Good
  OBVIOUS
<1>2. \A a, b \in Rationals : (AtMost(a, b) <=> Less(a, b) \/ a = b) /\ (Less(a, b) <=> ~AtMost(b, a))
  BY OrderLaws
<1>3. \A T \in SUBSET S : T # {} => \E x \in T : T \ {x} \in Good => T \in Good
  <2> SUFFICES ASSUME NEW T \in SUBSET S, NEW x \in T, T \ {x} \in Good PROVE T \in Good
    OBVIOUS
  <2>1. CASE T \ {x} = {}
    <3>1. AtMost(x, x)
      BY <1>2
    <3> QED
      BY <2>1, <3>1
  <2>2. CASE T \ {x} # {}
    <3>1. PICK a \in T \ {x} : \A b \in T \ {x} : AtMost(a, b)
      BY <2>2
    <3>2. AtMost(x, x) /\ (AtMost(a, x) \/ AtMost(x, a))
      BY <1>2
    <3>3. CASE AtMost(a, x)
      BY <3>1, <3>3
    <3>4. CASE AtMost(x, a)
      <4>1. \A b \in T : AtMost(x, b)
        BY <3>1, <3>2, <3>4, NoMoreThan
      <4> QED
        BY <4>1
    <3> QED
      BY <3>2, <3>3, <3>4
  <2> QED
    BY <2>1, <2>2
<1> HIDE DEF Good
<1>4. S \in Good
  BY <1>1, <1>3, FiniteSetsGrow
<1> QED
  BY <1>4 DEF Good

\* A finite set of rationals has a greatest one.
LEMMA MostRational ==
  ASSUME NEW S \in SUBSET Rationals, IsFiniteSet(S), S # {}
  PROVE  \E a \in S : \A b \in S : AtMost(b, a)
<1> DEFINE Good == {T \in SUBSET S : T = {} \/ \E a \in T : \A b \in T : AtMost(b, a)}
<1>1. {} \in Good
  OBVIOUS
<1>2. \A a, b \in Rationals : (AtMost(a, b) <=> Less(a, b) \/ a = b) /\ (Less(a, b) <=> ~AtMost(b, a))
  BY OrderLaws
<1>3. \A T \in SUBSET S : T # {} => \E x \in T : T \ {x} \in Good => T \in Good
  <2> SUFFICES ASSUME NEW T \in SUBSET S, NEW x \in T, T \ {x} \in Good PROVE T \in Good
    OBVIOUS
  <2>1. CASE T \ {x} = {}
    <3>1. AtMost(x, x)
      BY <1>2
    <3> QED
      BY <2>1, <3>1
  <2>2. CASE T \ {x} # {}
    <3>1. PICK a \in T \ {x} : \A b \in T \ {x} : AtMost(b, a)
      BY <2>2
    <3>2. AtMost(x, x) /\ (AtMost(a, x) \/ AtMost(x, a))
      BY <1>2
    <3>3. CASE AtMost(x, a)
      BY <3>1, <3>3
    <3>4. CASE AtMost(a, x)
      <4>1. \A b \in T : AtMost(b, x)
        BY <3>1, <3>2, <3>4, NoMoreThan
      <4> QED
        BY <4>1
    <3> QED
      BY <3>2, <3>3, <3>4
  <2> QED
    BY <2>1, <2>2
<1> HIDE DEF Good
<1>4. S \in Good
  BY <1>1, <1>3, FiniteSetsGrow
<1> QED
  BY <1>4 DEF Good

Within(q, lo, hi) == q \in Rationals /\ AtMost(lo, q) /\ AtMost(q, hi)

\* Between two numbers that are within bounds there are no others.
LEMMA MixedWithin ==
  ASSUME NEW lo \in Rationals, NEW hi \in Rationals,
         NEW a, Within(a, lo, hi), NEW b, Within(b, lo, hi),
         NEW w \in Rationals, AtMost(Zero, w), AtMost(w, Q(1))
  PROVE  Within(NanPlus(NanTimes(Minus(Q(1), w), a), NanTimes(w, b)), lo, hi)
<1> DEFINE v == Minus(Q(1), w)
<1>1. v \in Rationals /\ AtMost(Zero, v) /\ Plus(w, v) = Q(1) /\ Q(1) \in Rationals
  BY Weighted, QIs
<1>2. a \in Rationals /\ b \in Rationals /\ AtMost(lo, a) /\ AtMost(a, hi)
      /\ AtMost(lo, b) /\ AtMost(b, hi)
  BY DEF Within
<1> SUFFICES Within(NanPlus(NanTimes(v, a), NanTimes(w, b)), lo, hi)
  OBVIOUS
<1> HIDE DEF v
<1>3. \A r \in Rationals : Times(v, r) \in Rationals /\ Times(w, r) \in Rationals
  BY <1>1, TimesLaws
<1>4. NanPlus(NanTimes(v, a), NanTimes(w, b)) = Plus(Times(v, a), Times(w, b))
  BY <1>1, <1>2, <1>3, NanOperations
<1>5. Plus(Times(v, a), Times(w, b)) \in Rationals
  BY <1>2, <1>3, PlusLaws
<1>6. ASSUME NEW r \in Rationals PROVE Plus(Times(v, r), Times(w, r)) = r
  <2>1. \A p, q, t \in Rationals : Times(Plus(p, q), t) = Plus(Times(p, t), Times(q, t))
    BY TimesLaws
  <2>2. Plus(v, w) = Q(1)
    BY <1>1, PlusLaws
  <2>3. Times(Q(1), r) = r
    BY TimesLaws
  <2> QED
    BY <1>1, <2>1, <2>2, <2>3
<1>7. AtMost(Times(v, lo), Times(v, a)) /\ AtMost(Times(w, lo), Times(w, b))
      /\ AtMost(Times(v, a), Times(v, hi)) /\ AtMost(Times(w, b), Times(w, hi))
  BY <1>1, <1>2, TimesKeepsOrder
<1>8. AtMost(Plus(Times(v, lo), Times(w, lo)), Plus(Times(v, a), Times(w, b)))
  BY <1>2, <1>3, <1>7, PlusOrder
<1>9. AtMost(Plus(Times(v, a), Times(w, b)), Plus(Times(v, hi), Times(w, hi)))
  BY <1>2, <1>3, <1>7, PlusOrder
<1> QED
  BY <1>4, <1>5, <1>6, <1>8, <1>9 DEF Within

\* Parts of a whole number of units add up as the units do.
LEMMA SumOfUnits ==
  ASSUME NEW S, IsFiniteSet(S), NEW weight, \A b \in S : weight[b] \in Int,
         NEW d \in Nat \ {0}, NEW g, \A b \in S : g[b] = Ratio(weight[b], d)
  PROVE  SumOver(g, S) = Ratio(Total(weight, S), d)
<1> DEFINE Good == {T \in SUBSET S : SumOver(g, T) = Ratio(Total(weight, T), d)}
<1>1. {} \in Good
  BY SumEmpty, TotalEmpty, ZeroIs
<1>2. \A T \in SUBSET S : T # {} => \E x \in T : T \ {x} \in Good => T \in Good
  <2> SUFFICES ASSUME NEW T \in SUBSET S, NEW x \in T, T \ {x} \in Good PROVE T \in Good
    OBVIOUS
  <2> DEFINE R == T \ {x}
  <2>1. IsFiniteSet(T) /\ IsFiniteSet(R)
    BY FS_Subset
  <2>2. \A b \in T : g[b] = Ratio(weight[b], d) /\ g[b] \in Rationals /\ weight[b] \in Int
    BY RatioInRationals
  <2>3. SumOver(g, T) = Plus(g[x], SumOver(g, R))
    BY <2>1, <2>2, SumRemove
  <2>4. Total(weight, T) = weight[x] + Total(weight, R)
    BY <2>1, <2>2, TotalRemove
  <2>5. SumOver(g, R) = Ratio(Total(weight, R), d)
    OBVIOUS
  <2>6. Total(weight, R) \in Int
    BY <2>1, <2>2, TotalInt
  <2> HIDE DEF R
  <2> DEFINE m == weight[x]
             n == Total(weight, R)
  <2>7. m \in Int /\ n \in Int /\ g[x] = Ratio(m, d)
    BY <2>2, <2>6
  <2> HIDE DEF m, n
  <2>8. Plus(Ratio(m, d), Ratio(n, d)) = Ratio(m + n, d)
    BY <2>7, InUnits
  <2> QED
    BY <2>3, <2>4, <2>5, <2>7, <2>8 DEF m, n
<1> HIDE DEF Good
<1>3. S \in Good
  BY <1>1, <1>2, FiniteSetsGrow
<1> QED
  BY <1>3 DEF Good

\* The weights of a point's triangle, which Linear has in units.
LEMMA LinearIs ==
  ASSUME NEW s \in Sheets, NEW p \in Points(s)
  PROVE  LET weight == Linear[s][p]
             S == DOMAIN weight
         IN  /\ S \subseteq Boxes /\ IsFiniteSet(S)
             /\ \A b \in S : weight[b] \in Nat
             /\ Total(weight, S) = Unit /\ Unit \in Nat \ {0}
<1> DEFINE weight == Linear[s][p]
           S == DOMAIN weight
<1>1. S \subseteq Boxes /\ weight \in [S -> Nat] /\ FoldFunction(+, 0, weight) = Unit
  BY PyGlintAssumption, Zenon
<1>2. Unit \in Nat \ {0}
  BY PyGlintAssumption, Zenon
<1>3. IsFiniteSet(S)
  BY <1>1, GridIs, FS_Subset
<1>4. Total(weight, S) = FoldFunction(+, 0, weight)
  BY DEF Total, MapThenSumSet, FoldFunction, FoldFunctionOnSet
<1> QED
  BY <1>1, <1>2, <1>3, <1>4

\* A part in units is multiplied as the ratio that it is.
LEMMA TimesPart ==
  ASSUME NEW n \in Nat, NEW d \in Nat \ {0}, NEW v \in Rationals
  PROVE  /\ NanTimes(<<n, d>>, v) = Times(Ratio(n, d), v)
         /\ Ratio(n, d) \in Rationals /\ AtMost(Zero, Ratio(n, d))
         /\ Times(Ratio(n, d), v) \in Rationals
<1> DEFINE p == <<n, d>>
<1>1. p \in Pairs /\ p[1] = n /\ p[2] = d /\ d # 0
  BY DEF Pairs
<1>2. v \in Pairs /\ v[1] \in Int /\ v[2] \in Nat \ {0} /\ Ratio(v[1], v[2]) = v
  BY RationalIs
<1> HIDE DEF p
<1>3. Times(p, v) = Ratio(n * v[1], d * v[2])
  BY <1>1, <1>2, OperationsAre
<1>4. Times(Ratio(n, d), Ratio(v[1], v[2])) = Ratio(n * v[1], d * v[2])
  <2> DEFINE a == v[1]
             b == v[2]
  <2>1. n \in Int /\ a \in Int /\ b \in Nat \ {0}
    BY <1>2
  <2> HIDE DEF a, b
  <2>2. Times(Ratio(n, d), Ratio(a, b)) = Ratio(n * a, d * b)
    BY <2>1, TimesIs
  <2> QED
    BY <2>2 DEF a, b
<1>5. NanTimes(p, v) = Times(p, v)
  BY <1>1, NumberIs DEF NanTimes, Finite
<1>6. Ratio(n, d) \in Rationals
  BY RatioInRationals
<1>7. AtMost(Zero, Ratio(n, d))
  <2>1. n \in Int /\ 0 \in Int /\ 0 <= n /\ Zero = Ratio(0, d)
    BY ZeroIs
  <2>2. AtMost(Ratio(0, d), Ratio(n, d)) <=> 0 <= n
    BY <2>1, InUnits
  <2> QED
    BY <2>1, <2>2
<1>8. Times(Ratio(n, d), v) \in Rationals
  BY <1>6, TimesLaws
<1> QED
  BY <1>2, <1>3, <1>4, <1>5, <1>6, <1>7, <1>8 DEF p

\* The boxes of a triangle, weighted.
LEMMA TriangleWithin ==
  ASSUME NEW lo \in Rationals, NEW hi \in Rationals,
         NEW S, IsFiniteSet(S), NEW weight, \A b \in S : weight[b] \in Nat,
         NEW d \in Nat \ {0}, Total(weight, S) = d,
         NEW value, \A b \in S : Within(value[b], lo, hi),
         NEW f, \A b \in S : f[b] = NanTimes(<<weight[b], d>>, value[b])
  PROVE  Within(SumOver(f, S), lo, hi)
<1> DEFINE part == [b \in S |-> Ratio(weight[b], d)]
           low == [b \in S |-> Times(part[b], lo)]
           high == [b \in S |-> Times(part[b], hi)]
<1>1. ASSUME NEW b \in S
      PROVE  /\ f[b] = Times(part[b], value[b]) /\ f[b] \in Rationals
             /\ part[b] = Ratio(weight[b], d) /\ part[b] \in Rationals
             /\ low[b] = Times(part[b], lo) /\ low[b] \in Rationals /\ AtMost(low[b], f[b])
             /\ high[b] = Times(part[b], hi) /\ high[b] \in Rationals /\ AtMost(f[b], high[b])
  <2>1. value[b] \in Rationals /\ AtMost(lo, value[b]) /\ AtMost(value[b], hi)
    BY DEF Within
  <2> DEFINE n == weight[b]
             q == Ratio(n, d)
  <2>2. n \in Nat
    OBVIOUS
  <2> HIDE DEF n
  <2>3. /\ NanTimes(<<n, d>>, value[b]) = Times(q, value[b])
        /\ q \in Rationals /\ AtMost(Zero, q) /\ Times(q, value[b]) \in Rationals
    BY <2>1, <2>2, TimesPart
  <2>4. part[b] = q /\ low[b] = Times(q, lo) /\ high[b] = Times(q, hi)
        /\ f[b] = NanTimes(<<n, d>>, value[b])
    BY DEF n
  <2> HIDE DEF q
  <2>5. Times(q, lo) \in Rationals /\ Times(q, hi) \in Rationals
    BY <2>3, TimesLaws
  <2>6. AtMost(Times(q, lo), Times(q, value[b])) /\ AtMost(Times(q, value[b]), Times(q, hi))
    BY <2>1, <2>3, TimesKeepsOrder
  <2> QED
    BY <2>3, <2>4, <2>5, <2>6 DEF q, n
<1> HIDE DEF part, low, high
<1>2. SumOver(f, S) \in Rationals /\ SumOver(part, S) \in Rationals
  BY <1>1, SumRational
<1>3. AtMost(SumOver(low, S), SumOver(f, S)) /\ AtMost(SumOver(f, S), SumOver(high, S))
  BY <1>1, SumOrder
<1>4. SumOver(part, S) = Ratio(d, d)
  <2>1. \A b \in S : weight[b] \in Int /\ part[b] = Ratio(weight[b], d)
    BY <1>1
  <2> QED
    BY <2>1, SumOfUnits
<1>5. Ratio(d, d) = Q(1)
  <2>1. Q(1) = Ratio(1, 1)
    BY QIs
  <2>2. Ratio(1, 1) = Ratio(1 * d, 1 * d)
    BY Scaled
  <2>3. 1 * d = d
    OBVIOUS
  <2> QED
    BY <2>1, <2>2, <2>3
<1>6. SumOver(low, S) = Times(SumOver(part, S), lo)
  BY <1>1, SumTimes
<1>7. SumOver(high, S) = Times(SumOver(part, S), hi)
  BY <1>1, SumTimes
<1>8. Times(Q(1), lo) = lo /\ Times(Q(1), hi) = hi
  BY TimesLaws
<1> QED
  BY <1>2, <1>3, <1>4, <1>5, <1>6, <1>7, <1>8 DEF Within

\* Of two classes, the one that a height is above and the one that it is below.
LEMMA AroundHeight ==
  ASSUME NEW topo \in Int, ~(topo < topo_mid[1]), ~(topo > topo_mid[Top]), topo # topo_mid[Top]
  PROVE  LET k == LeastOf({j \in Elevs : topo_mid[j] > topo})
             w == Ratio(topo_mid[k] - topo, topo_mid[k] - topo_mid[k - 1])
         IN  /\ k \in Elevs /\ k - 1 \in Elevs
             /\ w \in Rationals /\ AtMost(Zero, w) /\ AtMost(w, Q(1))
<1> DEFINE above == {j \in Elevs : topo_mid[j] > topo}
           k == LeastOf(above)
<1>1. PICK n \in 2..25 : /\ Elevs = 1..n /\ IsFiniteSet(Elevs) /\ Top = n /\ Top \in Elevs
                         /\ \A j \in Elevs : j \in Nat /\ topo_mid[j] \in Int
  BY ElevsAre
<1>2. IsFiniteSet(above) /\ above # {} /\ above \in SUBSET Int
  <2>1. topo_mid[Top] > topo
    BY <1>1
  <2> QED
    BY <1>1, <2>1, FS_Subset
<1>3. k \in above /\ \A j \in above : k <= j
  <2> HIDE DEF above
  <2> QED
    BY <1>2, LeastOfIs
<1> HIDE DEF k
<1>4. k \in Elevs /\ topo_mid[k] > topo /\ k # 1 /\ k - 1 \in Elevs
  BY <1>1, <1>3
<1>5. topo_mid[k - 1] <= topo
  <2>1. k - 1 \notin above
    BY <1>1, <1>3, <1>4
  <2> QED
    BY <1>1, <1>4, <2>1
<1> DEFINE a == topo_mid[k] - topo
           d == topo_mid[k] - topo_mid[k - 1]
<1>6. a \in Int /\ d \in Nat \ {0} /\ 0 <= a /\ a <= d /\ d \in Int /\ 0 \in Int
  <2> DEFINE upper == topo_mid[k]
             lower == topo_mid[k - 1]
  <2>1. upper \in Int /\ lower \in Int /\ upper > topo /\ lower <= topo
    BY <1>1, <1>4, <1>5
  <2> HIDE DEF upper, lower
  <2>2. upper - topo \in Int /\ upper - lower \in Nat \ {0} /\ 0 <= upper - topo
        /\ upper - topo <= upper - lower
    BY <2>1
  <2> QED
    BY <2>2 DEF upper, lower
<1> HIDE DEF a, d
<1>7. Ratio(a, d) \in Rationals /\ Zero = Ratio(0, d)
  BY <1>6, RatioInRationals, ZeroIs
<1>8. Q(1) = Ratio(d, d)
  <2>1. Q(1) = Ratio(1, 1)
    BY QIs
  <2>2. Ratio(1, 1) = Ratio(1 * d, 1 * d)
    BY <1>6, Scaled
  <2>3. 1 * d = d
    BY <1>6
  <2> QED
    BY <2>1, <2>2, <2>3
<1>9. AtMost(Ratio(0, d), Ratio(a, d)) <=> 0 <= a
  BY <1>6, InUnits
<1>10. AtMost(Ratio(a, d), Ratio(d, d)) <=> a <= d
  BY <1>6, InUnits
<1>11. Ratio(a, d) \in Rationals /\ AtMost(Zero, Ratio(a, d)) /\ AtMost(Ratio(a, d), Q(1))
  BY <1>6, <1>7, <1>8, <1>9, <1>10
<1> QED
  BY <1>4, <1>11 DEF k, a, d

\* The heights of the classes rise.
LEMMA HighestIs == ~(topo_mid[Top] > topo_mid[Top]) /\ ~(topo_mid[Top] < topo_mid[1])
<1>1. PICK n \in 2..25 : /\ Elevs = 1..n /\ Top = n
                         /\ \A k \in Elevs : /\ k \in Nat /\ topo_mid[k] \in Int
                                             /\ topo_max[k] \in Int /\ topo_max[k + 1] \in Int
                                             /\ topo_max[k] <= topo_mid[k] /\ topo_mid[k] < topo_max[k + 1]
  BY ElevsAre
<1> DEFINE Good == {i \in Nat : i + 1 \in Elevs => topo_mid[1] <= topo_mid[i + 1]}
<1>2. 0 \in Good
  BY <1>1
<1>3. ASSUME NEW i \in 0..(n - 1), i \in Good PROVE i + 1 \in Good
  <2> SUFFICES ASSUME (i + 1) + 1 \in Elevs PROVE topo_mid[1] <= topo_mid[(i + 1) + 1]
    OBVIOUS
  <2>1. i + 1 \in Elevs /\ 1 \in Elevs
    BY <1>1
  <2> DEFINE j == i + 1
  <2>2. topo_mid[1] <= topo_mid[j] /\ j \in Elevs /\ j + 1 \in Elevs
    BY <1>3, <2>1
  <2>3. topo_mid[j] < topo_max[j + 1] /\ topo_max[j + 1] <= topo_mid[j + 1]
    BY <1>1, <2>2
  <2>4. /\ topo_mid[1] \in Int /\ topo_mid[j] \in Int /\ topo_max[j + 1] \in Int
        /\ topo_mid[j + 1] \in Int
    BY <1>1, <2>1, <2>2
  <2> HIDE DEF j
  <2>5. topo_mid[1] <= topo_mid[j + 1]
    BY <2>2, <2>3, <2>4
  <2> QED
    BY <2>5 DEF j
<1> HIDE DEF Good
<1>4. n \in Nat /\ n - 1 \in 0..n /\ (n - 1) + 1 = n /\ n \in Elevs /\ 1 \in Elevs
  BY <1>1
<1>5. \A i \in 0..n : i \in Good
  BY <1>2, <1>3, <1>4, OneByOne
<1>6. n - 1 \in Good
  BY <1>4, <1>5
<1>7. topo_mid[1] <= topo_mid[n]
  BY <1>4, <1>6 DEF Good
<1> QED
  BY <1>1, <1>4, <1>7

\* interp_to_surface stays between bounds that hold for every class.
LEMMA SurfaceWithin ==
  ASSUME NEW lo \in Rationals, NEW hi \in Rationals,
         NEW value, \A k \in Elevs : Within(value[k], lo, hi),
         NEW topo \in Int, topo # topo_mid[Top]
  PROVE  Within(interp_to_surface(value, topo), lo, hi)
<1>1. 1 \in Elevs /\ Top \in Elevs /\ topo_mid[Top] \in Int /\ topo_mid[1] \in Int
  BY ElevsAre
<1>2. CASE topo < topo_mid[1]
  BY <1>1, <1>2 DEF interp_to_surface
<1>3. CASE ~(topo < topo_mid[1]) /\ topo > topo_mid[Top]
  BY <1>1, <1>3 DEF interp_to_surface
<1>4. \A k \in Elevs \ {1} : Finite(value[k]) /\ Finite(value[k - 1])
  <2> TAKE k \in Elevs \ {1}
  <2>1. k - 1 \in Elevs
    BY ElevsAre
  <2> QED
    BY <2>1, NumberIs DEF Within
<1>5. CASE ~(topo < topo_mid[1]) /\ ~(topo > topo_mid[Top])
  <2> DEFINE k == LeastOf({j \in Elevs : topo_mid[j] > topo})
             w == Ratio(topo_mid[k] - topo, topo_mid[k] - topo_mid[k - 1])
  <2>1. k \in Elevs /\ k - 1 \in Elevs /\ w \in Rationals /\ AtMost(Zero, w) /\ AtMost(w, Q(1))
    BY <1>5, AroundHeight
  <2>2. interp_to_surface(value, topo) = NanPlus(NanTimes(Minus(Q(1), w), value[k]), NanTimes(w, value[k - 1]))
    BY <1>4, <1>5 DEF interp_to_surface, Between
  <2> HIDE DEF w, k
  <2>3. Within(value[k], lo, hi) /\ Within(value[k - 1], lo, hi)
    BY <2>1
  <2> DEFINE a == value[k]
             b == value[k - 1]
  <2>4. Within(a, lo, hi) /\ Within(b, lo, hi)
    BY <2>3
  <2> HIDE DEF a, b
  <2>5. Within(NanPlus(NanTimes(Minus(Q(1), w), a), NanTimes(w, b)), lo, hi)
    BY <2>1, <2>4, MixedWithin
  <2> QED
    BY <2>2, <2>5 DEF a, b
<1> QED
  BY <1>2, <1>3, <1>5

\* What the file of forcing has: a tile with an area has land under it.
LEMMA ForcingIs ==
  ASSUME Inputs, Made
  PROVE  \A k \in Elevs, b \in Boxes :
           /\ Area(k, b) \in Nat /\ (Area(k, b) > 0 => b \in forcing.land)
           /\ forcing.ice_smb[k][b] \in Int /\ forcing.nonice_snowdepth[k][b] \in Int
           /\ forcing.ice_stemp[k][b] \in Int
<1> DEFINE mean == Means[um]
           exclude == options.exclude
           snow == Extracted(mean, "snow_mass", exclude)
           smb == Extracted(mean, "smb", exclude)
           temp == Extracted(mean, "snow_temp", exclude)
           fractions == Extracted(mean, "fractions", exclude)
<1>1. DOMAIN BoxArea = Boxes /\ BoxArea \in [Boxes -> Nat \ {0}]
  BY PyGlintAssumption, ForcingAssumption, Zenon
<1>2. /\ mean.land \in [Boxes -> Nat]
      /\ \A field \in TileFields : mean[field] \in
           [Kinds -> [Elevs -> [Boxes -> IF field = "fractions" THEN Nat ELSE Int]]]
  BY <1>1, ForcingAssumption DEF Inputs
<1>3. ASSUME NEW k \in Elevs, NEW b \in Boxes
      PROVE  /\ fractions[k][b] \in Nat /\ smb[k][b] \in Int /\ snow[k][b] \in Int
             /\ temp[k][b] \in Int
  <2>1. \A kind \in Kinds : /\ mean["fractions"][kind][k][b] \in Nat
                            /\ mean["smb"][kind][k][b] \in Int
                            /\ mean["snow_mass"][kind][k][b] \in Int
                            /\ mean["snow_temp"][kind][k][b] \in Int
    BY <1>2 DEF TileFields
  <2>2. \A field, faked : TilesOf(field, faked) \in Kinds
    BY DEF TilesOf, Kinds
  <2>3. \A field : Extracted(mean, field, exclude)[k][b] =
                   IF field \in exclude THEN 0 ELSE mean[field][TilesOf(field, field \in exclude)][k][b]
    BY <1>1 DEF Extracted
  <2> HIDE DEF mean, exclude
  <2>4. fractions[k][b] = 0 \/ \E kind \in Kinds : fractions[k][b] = mean["fractions"][kind][k][b]
    BY <2>2, <2>3, Zenon
  <2>5. smb[k][b] = 0 \/ \E kind \in Kinds : smb[k][b] = mean["smb"][kind][k][b]
    BY <2>2, <2>3, Zenon
  <2>6. snow[k][b] = 0 \/ \E kind \in Kinds : snow[k][b] = mean["snow_mass"][kind][k][b]
    BY <2>2, <2>3, Zenon
  <2>7. temp[k][b] = 0 \/ \E kind \in Kinds : temp[k][b] = mean["snow_temp"][kind][k][b]
    BY <2>2, <2>3, Zenon
  <2> QED
    BY <2>1, <2>4, <2>5, <2>6, <2>7
<1> HIDE DEF snow, smb, temp, fractions
<1>4. /\ forcing.tile_surface_area = TileArea(mean, fractions)
      /\ forcing.ice_smb = smb /\ forcing.ice_stemp = temp
      /\ forcing.nonice_snowdepth = IF options.do_snow_shuffling THEN snow
                                    ELSE [k \in Elevs |-> [b \in DOMAIN BoxArea |-> 0]]
      /\ forcing.land = {b \in Boxes : mean.land[b] > 0}
  BY <1>1, Zenon DEF Made, Forcing, snow, smb, temp, fractions
<1>5. ASSUME NEW k \in Elevs, NEW b \in Boxes
      PROVE  Area(k, b) \in Nat /\ (Area(k, b) > 0 => b \in forcing.land)
  <2> DEFINE f == fractions[k][b]
             l == mean.land[b]
             a == BoxArea[b]
  <2>1. f \in Nat /\ l \in Nat /\ a \in Nat
    BY <1>1, <1>2, <1>3
  <2>2. Area(k, b) = f * l * a
    BY <1>1, <1>4 DEF Area, TileArea
  <2>3. b \in forcing.land <=> l > 0
    BY <1>4
  <2> HIDE DEF f, l, a
  <2>4. f * l * a \in Nat /\ (l = 0 => f * l * a = 0)
    BY <2>1
  <2> QED
    BY <2>1, <2>2, <2>3, <2>4
<1>6. ASSUME NEW k \in Elevs, NEW b \in Boxes
      PROVE  /\ forcing.ice_smb[k][b] \in Int /\ forcing.nonice_snowdepth[k][b] \in Int
             /\ forcing.ice_stemp[k][b] \in Int
  <2>1. forcing.ice_smb[k][b] \in Int /\ forcing.ice_stemp[k][b] \in Int
    BY <1>3, <1>4
  <2>2. CASE options.do_snow_shuffling
    BY <1>3, <1>4, <2>1, <2>2
  <2>3. CASE ~options.do_snow_shuffling
    BY <1>1, <1>4, <2>1, <2>3
  <2> QED
    BY <2>2, <2>3
<1> QED
  BY <1>5, <1>6

\* A sheet has boxes of the climate.
LEMMA RowsAre ==
  ASSUME NEW s \in Sheets, Inputs
  PROVE  BoxesOf(s) \in SUBSET Boxes /\ IsFiniteSet(BoxesOf(s)) /\ BoxesOf(s) # {}
<1>1. pairs[s] = GridPair(s) /\ GridPair(s).crop = Crop(s)
  BY PairIs DEF Inputs
<1>2. BoxesOf(s) = {InWhole(Crop(s), c) : c \in Kept(Crop(s))}
  BY <1>1 DEF BoxesOf
<1>3. BoxesOf(s) \in SUBSET Boxes /\ BoxesOf(s) # {}
  BY <1>2, KeptAre
<1> QED
  BY <1>3, GridIs, FS_Subset

\* interp_to_local stays between bounds that hold for the boxes it uses.
LEMMA LocalWithin ==
  ASSUME NEW s \in Sheets, NEW boxes \in SUBSET Boxes, NEW field, NEW k,
         Valid(field, k, boxes) # {}, NEW p \in Points(s),
         NEW lo \in Rationals, NEW hi \in Rationals,
         \A b \in Valid(field, k, boxes) : Within(atm[field][k][b], lo, hi)
  PROVE  Within(interp_to_local(s, field, k, boxes, p), lo, hi)
<1> DEFINE valid == Valid(field, k, boxes)
           weight == Linear[s][p]
           S == DOMAIN weight
           from == [b \in S |-> IF b \in valid THEN b ELSE NearestBox(s, valid, Down[s][b])]
           value == [b \in S |-> atm[field][k][from[b]]]
           f == [b \in S |-> NanTimes(<<weight[b], Unit>>, value[b])]
<1>1. /\ S \subseteq Boxes /\ IsFiniteSet(S)
      /\ \A b \in S : weight[b] \in Nat
      /\ Total(weight, S) = Unit /\ Unit \in Nat \ {0}
  BY LinearIs
<1>2. valid \in SUBSET Boxes
  BY DEF Valid
<1>3. \A b \in Boxes : Down[s][b] \in Int \X Int
  BY GridAssumption
<1>4. interp_to_local(s, field, k, boxes, p) = Sum(f)
  BY DEF interp_to_local
<1>5. ASSUME NEW b \in S PROVE Within(value[b], lo, hi)
  <2>1. from[b] \in valid
    <3>1. CASE b \in valid
      BY <3>1
    <3>2. CASE b \notin valid
      <4>1. from[b] = NearestBox(s, valid, Down[s][b])
        BY <3>2
      <4>2. b \in Boxes /\ valid # {}
        BY <1>1
      <4> HIDE DEF from, valid
      <4> QED
        BY <1>2, <1>3, <4>1, <4>2, NearestIs
    <3> QED
      BY <3>1, <3>2
  <2>2. value[b] = atm[field][k][from[b]]
    OBVIOUS
  <2> HIDE DEF from, value
  <2> QED
    BY <2>1, <2>2
<1>6. DOMAIN f = S /\ \A b \in S : f[b] = NanTimes(<<weight[b], Unit>>, value[b])
  OBVIOUS
<1> HIDE DEF f, value, from, weight, valid
<1>7. Within(SumOver(f, S), lo, hi)
  BY <1>1, <1>5, <1>6, TriangleWithin
<1>8. Sum(f) = SumOver(f, S)
  BY <1>6, SumIs
<1> QED
  BY <1>4, <1>7, <1>8

\* Of the temperatures on the land of a sheet's rows there are a least and a greatest.
LEMMA GivenAre ==
  ASSUME NEW s \in Sheets, Inputs, Made, atm["temp"] = AsRead(forcing.ice_stemp), Given(s) # {}
  PROVE  \E lo, hi \in Given(s) :
           /\ lo \in Rationals /\ hi \in Rationals
           /\ \A k \in Elevs : \A b \in BoxesOf(s) \intersect forcing.land :
                Within(atm["temp"][k][b], lo, hi)
<1> DEFINE boxes == BoxesOf(s) \intersect forcing.land
           tiles == Elevs \X boxes
           at == [t \in tiles |-> atm["temp"][t[1]][t[2]]]
           read == forcing.ice_stemp
           values == Given(s)
<1>1. BoxesOf(s) \in SUBSET Boxes /\ IsFiniteSet(BoxesOf(s))
  BY RowsAre
<1>2. boxes \in SUBSET Boxes /\ IsFiniteSet(boxes) /\ boxes \subseteq forcing.land
  BY <1>1, FS_Subset
<1>3. \A k \in Elevs, b \in Boxes : read[k][b] \in Int
  BY ForcingIs
<1>4. values = {atm["temp"][k][b] : k \in Elevs, b \in boxes}
  BY DEF Given
<1> HIDE DEF boxes, read, values
<1>5. ASSUME NEW k \in Elevs, NEW b \in boxes
      PROVE  atm["temp"][k][b] \in Rationals /\ atm["temp"][k][b] \in values
  <2>1. b \in Boxes /\ b \in forcing.land /\ read[k][b] \in Int
    BY <1>2, <1>3
  <2>2. atm["temp"][k][b] = Q(read[k][b])
    BY <2>1 DEF AsRead, read
  <2>3. atm["temp"][k][b] \in values
    BY <1>4
  <2>4. Q(read[k][b]) \in Rationals
    BY <2>1, QIs
  <2> QED
    BY <2>2, <2>3, <2>4
<1>6. IsFiniteSet(tiles)
  BY <1>2, ElevsAre, FS_Product
<1>7. values = {at[t] : t \in tiles}
  <2>1. ASSUME NEW v \in values PROVE \E t \in tiles : v = at[t]
    <3>1. PICK k \in Elevs, b \in boxes : v = atm["temp"][k][b]
      BY <1>4
    <3>2. <<k, b>> \in tiles /\ at[<<k, b>>] = v
      BY <3>1
    <3> QED
      BY <3>2
  <2>2. ASSUME NEW t \in tiles PROVE at[t] \in values
    BY <1>4
  <2> QED
    BY <2>1, <2>2
<1>8. IsFiniteSet(values)
  <2> HIDE DEF at, tiles
  <2>1. IsFiniteSet({at[t] : t \in tiles})
    BY <1>6, ImageFinite
  <2> QED
    BY <1>7, <2>1
<1>9. values \in SUBSET Rationals /\ values # {}
  <2>1. \A v \in values : v \in Rationals
    BY <1>4, <1>5
  <2> QED
    BY <2>1 DEF values
<1>10. PICK lo \in values : \A v \in values : AtMost(lo, v)
  BY <1>8, <1>9, LeastRational
<1>11. PICK hi \in values : \A v \in values : AtMost(v, hi)
  BY <1>8, <1>9, MostRational
<1>12. ASSUME NEW k \in Elevs, NEW b \in boxes PROVE Within(atm["temp"][k][b], lo, hi)
  BY <1>5, <1>10, <1>11 DEF Within
<1> QED
  BY <1>9, <1>10, <1>11, <1>12 DEF values, boxes

\* The temperature brought down to the surface of a sheet.
LEMMA TemperatureIs ==
  ASSUME NEW s \in Sheets, Inputs, Made, atm["temp"] = AsRead(forcing.ice_stemp), Given(s) # {}
  PROVE  LET f == ToSurface(s, "temp", BoxesOf(s))
         IN  \E lo, hi \in Given(s) : \A p \in Points(s) :
               Look(s)[p].topo # topo_mid[Top] => Within(f[p], lo, hi)
<1> DEFINE boxes == BoxesOf(s)
           local(p) == [k \in Elevs |-> interp_to_local(s, "temp", k, boxes, p)]
           f == ToSurface(s, "temp", boxes)
<1>1. PICK lo, hi \in Given(s) :
        /\ lo \in Rationals /\ hi \in Rationals
        /\ \A k \in Elevs : \A b \in boxes \intersect forcing.land :
             Within(atm["temp"][k][b], lo, hi)
  BY GivenAre
<1>2. \A p \in Points(s) : Look(s)[p].topo \in Int
  BY LooksAre, LookIs
<1>3. boxes \in SUBSET Boxes /\ boxes \intersect forcing.land # {}
  BY RowsAre DEF Given
<1>4. \A k \in Elevs : Valid("temp", k, boxes) = boxes \intersect forcing.land
  BY DEF Valid
<1>5. \A p \in Points(s) : f[p] = interp_to_surface(local(p), Look(s)[p].topo)
  BY DEF ToSurface
<1> HIDE DEF boxes
<1>6. ASSUME NEW p \in Points(s), Look(s)[p].topo # topo_mid[Top] PROVE Within(f[p], lo, hi)
  <2>1. ASSUME NEW k \in Elevs PROVE Within(local(p)[k], lo, hi)
    <3>1. Valid("temp", k, boxes) # {}
      BY <1>3, <1>4
    <3>2. \A b \in Valid("temp", k, boxes) : Within(atm["temp"][k][b], lo, hi)
      BY <1>1, <1>4
    <3>3. Within(interp_to_local(s, "temp", k, boxes, p), lo, hi)
      BY <1>1, <1>3, <3>1, <3>2, LocalWithin
    <3> QED
      BY <3>3
  <2> DEFINE value == local(p)
             topo == Look(s)[p].topo
  <2>2. f[p] = interp_to_surface(value, topo)
    BY <1>5
  <2>3. topo \in Int /\ topo # topo_mid[Top] /\ \A k \in Elevs : Within(value[k], lo, hi)
    BY <1>2, <1>6, <2>1
  <2> HIDE DEF value, topo, f
  <2> QED
    BY <1>1, <2>2, <2>3, SurfaceWithin
<1> HIDE DEF f
<1> QED
  BY <1>1, <1>6 DEF f, boxes

\* A number, or none of the usual kind.
Numeric(q) == q \in Rationals \/ q = NaN

\* A field brought down to a point in one class is a number or none: none where no
\* box of the class has a value.
LEMMA LocalNumeric ==
  ASSUME NEW s \in Sheets, Inputs, Made,
         NEW field, NEW read, atm[field] = AsRead(read),
         \A k \in Elevs, b \in Boxes : read[k][b] \in Int,
         NEW k \in Elevs, NEW p \in Points(s)
  PROVE  Numeric(interp_to_local(s, field, k, BoxesOf(s), p))
<1> DEFINE valid == Valid(field, k, BoxesOf(s))
           weight == Linear[s][p]
           S == DOMAIN weight
           from == [b \in S |-> IF b \in valid THEN b ELSE NearestBox(s, valid, Down[s][b])]
           value == [b \in S |-> IF valid = {} THEN NaN ELSE atm[field][k][from[b]]]
           f == [b \in S |-> NanTimes(<<weight[b], Unit>>, value[b])]
<1>1. /\ S \subseteq Boxes /\ IsFiniteSet(S)
      /\ \A b \in S : weight[b] \in Nat
      /\ Unit \in Nat \ {0}
  BY LinearIs
<1>2. valid \in SUBSET Boxes /\ valid \subseteq forcing.land
  BY RowsAre DEF Valid
<1>3. \A b \in Boxes : Down[s][b] \in Int \X Int
  BY GridAssumption
<1>4. interp_to_local(s, field, k, BoxesOf(s), p) = Sum(f)
  BY DEF interp_to_local
<1>5. ASSUME NEW b \in S PROVE Numeric(value[b])
  <2>1. valid # {} => from[b] \in valid
    <3>1. CASE b \in valid
      BY <3>1
    <3>2. CASE b \notin valid
      <4>1. from[b] = NearestBox(s, valid, Down[s][b])
        BY <3>2
      <4>2. b \in Boxes
        BY <1>1
      <4> HIDE DEF from, valid
      <4> QED
        BY <1>2, <1>3, <4>1, <4>2, NearestIs
    <3> QED
      BY <3>1, <3>2
  <2>2. value[b] = IF valid = {} THEN NaN ELSE atm[field][k][from[b]]
    OBVIOUS
  <2>3. \A a \in valid : atm[field][k][a] = Q(read[k][a]) /\ read[k][a] \in Int
    <3> HIDE DEF valid
    <3> QED
      BY <1>2 DEF AsRead
  <2> HIDE DEF from, value, valid
  <2> QED
    BY <2>1, <2>2, <2>3, QIs DEF Numeric
<1>6. DOMAIN f = S /\ \A b \in S : f[b] = NanTimes(<<weight[b], Unit>>, value[b])
  OBVIOUS
<1> HIDE DEF f, value, from, weight, valid
<1>7. ASSUME NEW b \in S PROVE Numeric(f[b])
  <2> DEFINE v == value[b]
             n == weight[b]
  <2>1. Numeric(v) /\ n \in Nat /\ f[b] = NanTimes(<<n, Unit>>, v)
    BY <1>1, <1>5, <1>6
  <2> HIDE DEF v, n
  <2>2. CASE v \in Rationals
    BY <1>1, <2>1, <2>2, TimesPart DEF Numeric
  <2>3. CASE v = NaN
    BY <2>1, <2>3, NumberIs DEF NanTimes, Numeric
  <2> QED
    BY <2>1, <2>2, <2>3 DEF Numeric
<1>8. Sum(f) = SumOver(f, S)
  BY <1>6, SumIs
<1>9. CASE \A b \in S : f[b] \in Rationals
  BY <1>1, <1>4, <1>8, <1>9, SumRational DEF Numeric
<1>10. CASE \E b \in S : f[b] \notin Rationals
  <2>1. \E b \in S : ~Finite(f[b])
    BY <1>7, <1>10, NumberIs DEF Numeric
  <2> QED
    BY <1>1, <1>4, <1>8, <2>1, SumNaN DEF Numeric
<1> QED
  BY <1>9, <1>10

\* So is the field at the surface.
LEMMA SurfaceNumeric ==
  ASSUME NEW value, \A k \in Elevs : Numeric(value[k]), NEW topo \in Int
  PROVE  Numeric(interp_to_surface(value, topo))
<1>1. 1 \in Elevs /\ Top \in Elevs /\ topo_mid[Top] \in Int /\ topo_mid[1] \in Int
  BY ElevsAre
<1>2. CASE topo < topo_mid[1] \/ topo > topo_mid[Top]
  BY <1>1, <1>2 DEF interp_to_surface
<1>3. CASE /\ ~(topo < topo_mid[1]) /\ ~(topo > topo_mid[Top])
           /\ \/ \E k \in Elevs \ {1} : ~Finite(value[k]) \/ ~Finite(value[k - 1])
              \/ topo = topo_mid[Top]
  BY <1>3, NumberIs DEF interp_to_surface, Numeric
<1>4. CASE /\ ~(topo < topo_mid[1]) /\ ~(topo > topo_mid[Top]) /\ topo # topo_mid[Top]
           /\ ~ \E k \in Elevs \ {1} : ~Finite(value[k]) \/ ~Finite(value[k - 1])
  <2> DEFINE k == LeastOf({j \in Elevs : topo_mid[j] > topo})
             w == Ratio(topo_mid[k] - topo, topo_mid[k] - topo_mid[k - 1])
             a == value[k]
             b == value[k - 1]
  <2>1. k \in Elevs /\ k - 1 \in Elevs /\ w \in Rationals
    BY <1>4, AroundHeight
  <2>2. interp_to_surface(value, topo) = NanPlus(NanTimes(Minus(Q(1), w), a), NanTimes(w, b))
    BY <1>4 DEF interp_to_surface, Between
  <2> HIDE DEF w, k
  <2>3. k # 1
    BY <2>1, ElevsAre
  <2>4. a \in Rationals /\ b \in Rationals
    BY <1>4, <2>1, <2>3, NumberIs DEF Numeric
  <2> HIDE DEF a, b
  <2>5. Minus(Q(1), w) \in Rationals
    BY <2>1, QIs, PlusLaws
  <2>6. NanTimes(Minus(Q(1), w), a) \in Rationals /\ NanTimes(w, b) \in Rationals
    BY <2>1, <2>4, <2>5, NanOperations
  <2> QED
    BY <2>2, <2>6, NanOperations DEF Numeric
<1> QED
  BY <1>2, <1>3, <1>4

\* A field brought down to the surface of a sheet, at all its points.
LEMMA SurfaceIs ==
  ASSUME NEW s \in Sheets, Inputs, Made,
         NEW field, NEW read, atm[field] = AsRead(read),
         \A k \in Elevs, b \in Boxes : read[k][b] \in Int
  PROVE  \A p \in Points(s) : Numeric(ToSurface(s, field, BoxesOf(s))[p])
<1> TAKE p \in Points(s)
<1> DEFINE value == [k \in Elevs |-> interp_to_local(s, field, k, BoxesOf(s), p)]
           topo == Look(s)[p].topo
<1>1. ToSurface(s, field, BoxesOf(s))[p] = interp_to_surface(value, topo)
  BY DEF ToSurface
<1>2. topo \in Int
  BY LooksAre, LookIs
<1>3. \A k \in Elevs : Numeric(value[k])
  BY LocalNumeric
<1> HIDE DEF value, topo
<1> QED
  BY <1>1, <1>2, <1>3, SurfaceNumeric

-------------------------------------------------------------------------------
(* What the sheets have been brought *)

\* The temperature is as it was brought down.
Level(s) ==
  Given(s) # {} =>
    \A p \in DOMAIN ism[s].temp : Look(s)[p].topo # topo_mid[Top] =>
      /\ Finite(ism[s].temp[p])
      /\ \E v \in Given(s) : AtMost(v, ism[s].temp[p])
      /\ \E v \in Given(s) : AtMost(ism[s].temp[p], v)

LevelInv ==
  /\ DOMAIN ism = Sheets
  /\ pc[1] \in {"um_to_unicicles", "read"} => \A s \in Sheets : ism[s] = None
  /\ \A s \in Sheets : ism[s] # None => Level(s)

\* What a sheet is brought, and the snow it gives away.
LEMMA BroughtIs ==
  ASSUME NEW s \in Sheets, atm_to_ism(s), ism'[s] # ism[s], DOMAIN ism = Sheets
  PROVE  LET snow == Brought(s, "snow", pairs[s])
             smb == Brought(s, "smb", pairs[s])
             delta == [p \in DOMAIN snow |->
                         IF options.snow_to_ice THEN delta_h_snow(Look(s)[p].thk, snow[p]) ELSE Zero]
         IN  /\ ism'[s].temp = Brought(s, "temp", pairs[s])
             /\ ism'[s].smb = [p \in DOMAIN smb |-> NanPlus(smb[p], Minus(Zero, delta[p]))]
             /\ ism'[s].delta_snow = delta
<1> DEFINE snow == Brought(s, "snow", pairs[s])
           smb == Brought(s, "smb", pairs[s])
           delta == [p \in DOMAIN snow |->
                       IF options.snow_to_ice THEN delta_h_snow(Look(s)[p].thk, snow[p]) ELSE Zero]
           made == [smb |-> [p \in DOMAIN smb |-> NanPlus(smb[p], Minus(Zero, delta[p]))],
                    temp |-> Brought(s, "temp", pairs[s]), delta_snow |-> delta]
<1>1. ism' = [ism EXCEPT ![s] = made]
  BY Zenon DEF atm_to_ism
<1>2. ism'[s] = made
  <2> HIDE DEF made
  <2> QED
    BY <1>1
<1> QED
  BY <1>2

\* What atm_to_ism brings down is between these two.
LEMMA LevelMade ==
  ASSUME NEW s \in Sheets, YearInv, atm_to_ism(s), ism'[s] # ism[s], DOMAIN ism = Sheets
  PROVE  Level(s)'
<1> DEFINE f == ToSurface(s, "temp", BoxesOf(s))
           temp == Brought(s, "temp", pairs[s])
<1>1. /\ UNCHANGED <<um, surface, options, pairs, forcing, atm>> /\ pc[1] = "atm_to_ism"
  BY AfterBringing DEF inputVars
<1>2. Inputs /\ Made /\ AtmIs
  BY <1>1 DEF YearInv
<1>3. ism'[s].temp = temp
  BY BroughtIs
<1>4. atm["temp"] = AsRead(forcing.ice_stemp)
  BY <1>2 DEF AtmIs
<1>5. temp = [p \in MaskOf(Look(s)) |-> f[p]]
  BY DEF Brought
<1>6. MaskOf(Look(s)) \subseteq Points(s)
  BY <1>2, LooksAre, LookIs
<1> HIDE DEF f, temp
<1> SUFFICES ASSUME Given(s) # {}, NEW p \in DOMAIN temp, Look(s)[p].topo # topo_mid[Top]
             PROVE  /\ Finite(temp[p])
                    /\ \E v \in Given(s) : AtMost(v, temp[p])
                    /\ \E v \in Given(s) : AtMost(temp[p], v)
  <2>1. Given(s)' = Given(s) /\ Look(s)' = Look(s)
    BY <1>1 DEF Given, BoxesOf, Look
  <2> QED
    BY <1>3, <2>1 DEF Level
<1>7. PICK lo, hi \in Given(s) : \A q \in Points(s) :
        Look(s)[q].topo # topo_mid[Top] => Within(f[q], lo, hi)
  BY <1>2, <1>4, TemperatureIs DEF f
<1>8. p \in Points(s) /\ temp[p] = f[p]
  BY <1>5, <1>6
<1> QED
  BY <1>7, <1>8, NumberIs DEF Within

\* A step brings down what is between, or leaves what a sheet has been brought.
LEMMA LevelStep == YearInv /\ LevelInv /\ [Next]_vars => LevelInv'
<1> SUFFICES ASSUME YearInv, LevelInv, [Next]_vars PROVE LevelInv'
  OBVIOUS
<1>1. ASSUME NEW s \in Sheets, UNCHANGED <<surface, options, pairs, forcing>>,
             atm'.temp = atm.temp, ism'[s] = ism[s], Level(s)
      PROVE  Level(s)'
  <2>1. Given(s)' = Given(s)
    BY <1>1 DEF Given, BoxesOf
  <2> QED
    BY <1>1, <2>1 DEF Level, Look
<1>2. CASE um_to_unicicles \/ ReadForcing
  <2>1. ism' = ism /\ pc[1] \in {"um_to_unicicles", "read"}
    BY <1>2 DEF um_to_unicicles, ReadForcing
  <2>2. \A s \in Sheets : ism'[s] = None
    BY <2>1 DEF LevelInv
  <2> QED
    BY <2>1, <2>2 DEF LevelInv
<1>3. ASSUME NEW s \in Sheets, atm_to_ism(s) PROVE LevelInv'
  <2>1. /\ UNCHANGED <<surface, options, pairs, forcing>> /\ atm' = atm
        /\ DOMAIN ism' = DOMAIN ism /\ pc'[1] \notin {"um_to_unicicles", "read"}
        /\ \A t \in Sheets : t # s => ism'[t] = ism[t]
    <3>1. UNCHANGED inputVars /\ forcing' = forcing /\ atm' = atm
          /\ pc'[1] \in {"failed", "atm_to_ism", "ism_to_atm"}
      BY <1>3, AfterBringing
    <3>2. DOMAIN ism' = DOMAIN ism /\ \A t \in Sheets : t # s => ism'[t] = ism[t]
      BY <1>3 DEF atm_to_ism, LevelInv
    <3> QED
      BY <3>1, <3>2 DEF inputVars
  <2>2. ASSUME NEW t \in Sheets, ism'[t] # None PROVE Level(t)'
    <3>1. CASE ism'[t] = ism[t]
      BY <1>1, <2>1, <2>2, <3>1 DEF LevelInv
    <3>2. CASE ism'[t] # ism[t]
      <4>1. t = s
        BY <2>1, <3>2
      <4> QED
        BY <1>3, <3>2, <4>1, LevelMade DEF LevelInv
    <3> QED
      BY <3>1, <3>2
  <2> QED
    BY <2>1, <2>2 DEF LevelInv
<1>4. ASSUME NEW s \in Sheets, ism_to_atm(s) PROVE LevelInv'
  <2>1. /\ UNCHANGED <<surface, options, pairs, forcing, ism>>
        /\ pc'[1] \notin {"um_to_unicicles", "read"} /\ pc[1] = "ism_to_atm"
    BY <1>4 DEF ism_to_atm, After, inputVars
  <2>2. atm'.temp = atm.temp
    BY <1>4, <2>1, LooksAre, UpIs DEF YearInv, AtmIs
  <2> QED
    BY <1>1, <2>1, <2>2 DEF LevelInv
<1>5. CASE UNCHANGED vars
  <2>1. UNCHANGED <<surface, options, pairs, forcing, atm, ism, pc>>
    BY <1>5 DEF vars, inputVars
  <2> QED
    BY <1>1, <2>1 DEF LevelInv
<1> QED
  BY <1>2, <1>3, <1>4, <1>5 DEF Next

\* Nothing has been brought down at first.
LEMMA LevelInit == Init => LevelInv
BY DEF Init, LevelInv

\* The temperature that a sheet is brought lies between the least and the greatest on the
\* climate's land in the sheet's rows (BetweenClasses): neither interp_to_local nor
\* interp_to_surface extrapolates or takes a box of sea, but for a surface at the very
\* height of the highest class.
THEOREM IsBetweenClasses == Spec => []BetweenClasses
<1>1. LevelInv => BetweenClasses
  BY DEF LevelInv, Level, BetweenClasses
<1>2. Init /\ YearInv => LevelInv
  BY LevelInit
<1> QED
  BY <1>1, <1>2, YearHolds, LevelInit, LevelStep, PTL DEF Spec

-------------------------------------------------------------------------------
(* What is brought down, made to keep its total *)

\* A sum of one term.
LEMMA SumOfOne ==
  ASSUME NEW f, NEW x, f[x] \in Rationals
  PROVE  SumOver(f, {x}) = f[x]
<1>1. IsFiniteSet({x})
  BY FS_Singleton
<1>2. SumOver(f, {x}) = Plus(f[x], SumOver(f, {x} \ {x}))
  BY <1>1, SumRemove
<1>3. {x} \ {x} = {}
  OBVIOUS
<1>4. Plus(f[x], Zero) = f[x]
  BY PlusLaws
<1> QED
  BY <1>2, <1>3, <1>4, SumEmpty

\* The sum of a field over the places that others stand for, one each.
LEMMA SumOfPairs ==
  ASSUME NEW S, IsFiniteSet(S), NEW f, \A x \in S : f[x] \in Rationals,
         NEW C, IsFiniteSet(C), NEW to, \A c \in C : to[c] \in S,
         \A c, d \in C : to[c] = to[d] => c = d, \A x \in S : \E c \in C : to[c] = x,
         NEW g, \A c \in C : g[c] = f[to[c]]
  PROVE  SumOver(g, C) = SumOver(f, S)
<1> DEFINE part == [c \in C |-> {to[c]}]
<1>1. \A c \in C : part[c] \subseteq S /\ g[c] = SumOver(f, part[c])
  <2> TAKE c \in C
  <2> DEFINE x == to[c]
  <2>1. x \in S /\ f[x] \in Rationals /\ g[c] = f[x]
    OBVIOUS
  <2> HIDE DEF x
  <2>2. SumOver(f, {x}) = f[x]
    BY <2>1, SumOfOne
  <2>3. part[c] = {x}
    BY DEF x
  <2> QED
    BY <2>1, <2>2, <2>3
<1>2. \A c, d \in C : c # d => part[c] \intersect part[d] = {}
  OBVIOUS
<1>3. UNION {part[c] : c \in C} = S
  OBVIOUS
<1> HIDE DEF part
<1>4. SumOver(g, C) = SumOver(f, UNION {part[c] : c \in C})
  BY <1>1, <1>2, SumByParts
<1> QED
  BY <1>3, <1>4

\* A field on the points of M, which are in the boxes of C, that is scaled so that its
\* total is that of what the boxes have.
Scaling(M, C, home, ice, moved, total, has, area, scale, g) ==
  /\ IsFiniteSet(M) /\ IsFiniteSet(C) /\ area \in Rationals
  /\ \A p \in M : home[p] \in C /\ moved[p] \in Rationals
  /\ \A c \in C : /\ ice[c] = {p \in M : home[p] = c}
                  /\ total[c] = NanTimes(SumOver(moved, ice[c]), area)
                  /\ has[c] \in Rationals
  /\ scale = NanOver(SumOver(has, C), SumOver(total, C))
  /\ \A p \in M : g[p] = NanTimes(moved[p], scale)

\* A field scaled, box by box, by what the box had over what was brought down has the
\* total the boxes had; or a box was brought nothing, and no point has a number.
LEMMA ScaledToTotal ==
  ASSUME NEW M, NEW C, NEW home, NEW ice, NEW moved, NEW total, NEW has, NEW area, NEW scale, NEW g,
         Scaling(M, C, home, ice, moved, total, has, area, scale, g)
  PROVE  \/ \A p \in M : g[p] = NaN
         \/ /\ \A p \in M : g[p] \in Rationals
            /\ Times(SumOver(g, M), area) = SumOver(has, C)
<1> USE DEF Scaling
<1> DEFINE part == [c \in C |-> SumOver(moved, ice[c])]
           all == SumOver(total, C)
           given == SumOver(has, C)
           sum == SumOver(moved, M)
<1>1. ASSUME NEW c \in C
      PROVE  /\ ice[c] \subseteq M /\ part[c] = SumOver(moved, ice[c]) /\ part[c] \in Rationals
             /\ total[c] = Times(part[c], area) /\ total[c] \in Rationals
  <2>1. ice[c] \in SUBSET M
    OBVIOUS
  <2>2. IsFiniteSet(ice[c])
    BY <2>1, FS_Subset
  <2>3. part[c] = SumOver(moved, ice[c]) /\ part[c] \in Rationals
    BY <2>1, <2>2, SumRational
  <2> HIDE DEF part
  <2> QED
    BY <2>1, <2>3, NanOperations
<1>2. all \in Rationals /\ given \in Rationals /\ sum \in Rationals
  BY <1>1, SumRational
<1>3. SumOver(part, C) = sum
  <2>1. \A c, d \in C : c # d => ice[c] \intersect ice[d] = {}
    OBVIOUS
  <2>2. UNION {ice[c] : c \in C} = M
    OBVIOUS
  <2>3. \A c \in C : part[c] = SumOver(moved, ice[c]) /\ ice[c] \subseteq M
    BY <1>1
  <2>4. IsFiniteSet(M) /\ IsFiniteSet(C) /\ \A p \in M : moved[p] \in Rationals
    OBVIOUS
  <2> HIDE DEF part, Scaling
  <2>5. SumOver(part, C) = SumOver(moved, UNION {ice[c] : c \in C})
    BY <2>1, <2>3, <2>4, SumByParts
  <2> QED
    BY <2>2, <2>5
<1>4. all = Times(sum, area)
  <2>1. \A c \in C : part[c] \in Rationals /\ total[c] = Times(part[c], area)
    BY <1>1
  <2> HIDE DEF part
  <2>2. SumOver(total, C) = Times(SumOver(part, C), area)
    BY <2>1, SumTimes
  <2> QED
    BY <1>3, <2>2
<1> HIDE DEF part
<1>5. scale = NanOver(given, all)
  OBVIOUS
<1>6. CASE all = Zero
  <2>1. scale = NaN
    BY <1>5, <1>6 DEF NanOver
  <2> QED
    BY <2>1, NanOperations, NumberIs
<1>7. CASE all # Zero
  <2>1. scale = Over(given, all) /\ scale \in Rationals /\ Times(scale, all) = given
    <3> HIDE DEF all, given
    <3>1. scale = Over(given, all)
      BY <1>2, <1>5, <1>7, NanOperations
    <3> QED
      BY <1>2, <1>7, <3>1, OverIs
  <2>2. \A p \in M : g[p] = Times(moved[p], scale) /\ g[p] \in Rationals /\ moved[p] \in Rationals
    BY <2>1, NanOperations
  <2>3. SumOver(g, M) = Times(sum, scale)
    BY <2>1, <2>2, SumTimes
  <2>4. Times(Times(sum, scale), area) = Times(scale, Times(sum, area))
    <3> HIDE DEF sum, all, given
    <3>1. Times(sum, scale) = Times(scale, sum)
      BY <1>2, <2>1, TimesLaws
    <3>2. \A p, q, r \in Rationals : Times(p, Times(q, r)) = Times(Times(p, q), r)
      BY TimesLaws
    <3> QED
      BY <1>2, <2>1, <3>1, <3>2
  <2> QED
    BY <1>4, <2>1, <2>2, <2>3, <2>4
<1> QED
  BY <1>6, <1>7

\* What the climate has in a box: the classes without a tile have nothing of it.
LEMMA ColumnIs ==
  ASSUME Inputs, Made, NEW field, NEW read, atm[field] = AsRead(read),
         \A k \in Elevs, b \in Boxes : read[k][b] \in Int, NEW b \in Boxes
  PROVE  /\ ColumnTotal(field, b) \in Rationals
         /\ ColumnTotal(field, b) = Sum([k \in Elevs |-> Q(read[k][b] * Area(k, b))])
<1> DEFINE valid == {k \in Elevs : Area(k, b) > 0}
           f == [k \in valid |-> NanTimes(atm[field][k][b], Q(Area(k, b)))]
           g == [k \in Elevs |-> Q(read[k][b] * Area(k, b))]
<1>1. IsFiniteSet(Elevs) /\ IsFiniteSet(valid)
  BY ElevsAre, FS_Subset
<1>2. ASSUME NEW k \in Elevs
      PROVE  /\ g[k] \in Rationals
             /\ k \in valid => f[k] = g[k]
             /\ k \notin valid => g[k] = Zero
  <2>1. Area(k, b) \in Nat /\ (Area(k, b) > 0 => b \in forcing.land) /\ read[k][b] \in Int
    BY ForcingIs
  <2> DEFINE m == read[k][b]
             n == Area(k, b)
  <2>2. m \in Int /\ n \in Int /\ g[k] = Q(m * n) /\ m * n \in Int
    BY <2>1
  <2>3. g[k] \in Rationals
    BY <2>2, QIs
  <2>4. ASSUME k \in valid PROVE f[k] = g[k]
    <3>1. atm[field][k][b] = Q(m) /\ f[k] = NanTimes(Q(m), Q(n))
      BY <2>1, <2>4 DEF AsRead
    <3>2. Times(Q(m), Q(n)) = Q(m * n) /\ Q(m) \in Rationals /\ Q(n) \in Rationals
      BY <2>2, WholeNumbers
    <3> HIDE DEF m, n, f, g
    <3> QED
      BY <2>2, <3>1, <3>2, NanOperations
  <2>5. ASSUME k \notin valid PROVE g[k] = Zero
    <3>1. n = 0
      BY <2>1, <2>5
    <3> HIDE DEF n, m
    <3>2. m * n = 0
      BY <2>2, <3>1
    <3> QED
      BY <2>2, <3>2, ZeroIs
  <2> QED
    BY <2>3, <2>4, <2>5
<1>3. DOMAIN f = valid /\ DOMAIN g = Elevs /\ valid \in SUBSET Elevs
  OBVIOUS
<1>4. ColumnTotal(field, b) = Sum(f)
  BY DEF ColumnTotal
<1> HIDE DEF f, g, valid
<1>5. Sum(f) = SumOver(f, valid) /\ Sum(g) = SumOver(g, Elevs)
  BY <1>3, SumIs
<1>6. SumOver(f, valid) = SumOver(g, valid)
  BY <1>1, <1>2, <1>3, SumEqual
<1>7. SumOver(g, Elevs) = Plus(SumOver(g, valid), SumOver(g, Elevs \ valid))
  BY <1>1, <1>2, <1>3, SumOfParts
<1>8. SumOver(g, Elevs \ valid) = Zero
  <2>1. IsFiniteSet(Elevs \ valid)
    BY <1>1, FS_Subset
  <2>2. \A k \in Elevs \ valid : g[k] = Zero
    BY <1>2
  <2> QED
    BY <2>1, <2>2, SumZero
<1>9. SumOver(g, valid) \in Rationals
  BY <1>1, <1>2, <1>3, SumRational
<1>10. Plus(SumOver(g, valid), Zero) = SumOver(g, valid)
  BY <1>9, PlusLaws
<1> QED
  BY <1>4, <1>5, <1>6, <1>7, <1>8, <1>9, <1>10 DEF g

\* The points of a sheet that are ice have boxes among those kept.
LEMMA MapIs ==
  ASSUME NEW s \in Sheets, Inputs
  PROVE  LET pair == pairs[s]
             mask == MaskOf(Look(s))
         IN  /\ pair.crop = Crop(s) /\ IsFiniteSet(mask)
             /\ \A p \in mask : pair.map[p] \in Kept(pair.crop) /\ p \in DOMAIN pair.map
             /\ IsFiniteSet(DOMAIN pair.map)
             /\ \A p \in mask : Look(s)[p].thk \in Nat
<1>1. pairs[s] = GridPair(s) /\ Look(s) \in Looks(s)
  BY LooksAre
<1>2. GridPair(s).crop = Crop(s) /\ GridPair(s).map \in [Points(s) -> Kept(GridPair(s).crop)]
  BY PairIs
<1>3. /\ MaskOf(Look(s)) \subseteq Points(s) /\ IsFiniteSet(MaskOf(Look(s)))
      /\ \A p \in Points(s) : Look(s)[p].thk \in Nat
  BY <1>1, LookIs
<1>4. IsFiniteSet(Points(s))
  BY PointsAre
<1> QED
  BY <1>1, <1>2, <1>3, <1>4

\* Conserved keeps the total of a field, or is no number anywhere.
LEMMA ConservedIs ==
  ASSUME NEW s \in Sheets, Inputs, Made, NEW field, NEW read, atm[field] = AsRead(read),
         \A k \in Elevs, b \in Boxes : read[k][b] \in Int,
         NEW f, DOMAIN f = MaskOf(Look(s)), \A p \in DOMAIN f : f[p] \in Rationals
  PROVE  LET pair == pairs[s]
             g == Conserved(s, field, pair, f)
             iced == {pair.map[p] : p \in DOMAIN f}
             has == [c \in iced |-> ColumnTotal(field, InWhole(pair.crop, c))]
         IN  /\ DOMAIN g = DOMAIN f
             /\ \/ \A p \in DOMAIN f : g[p] = NaN
                \/ /\ \A p \in DOMAIN f : g[p] \in Rationals
                   /\ Times(SumOver(g, DOMAIN f), Q(PointArea(s))) = SumOver(has, iced)
<1> DEFINE pair == pairs[s]
           M == DOMAIN f
           map == pair.map
           C == {map[p] : p \in M}
           point == PointArea(s)
           area == Q(point)
           ice == [c \in C |-> {p \in M : map[p] = c}]
           box(c) == InWhole(pair.crop, c)
           has == [c \in C |-> ColumnTotal(field, box(c))]
           g == Conserved(s, field, pair, f)
<1>1. /\ IsFiniteSet(M) /\ \A p \in M : map[p] \in Kept(pair.crop) /\ p \in DOMAIN map
      /\ IsFiniteSet(DOMAIN map) /\ pair.crop = Crop(s)
  BY MapIs
<1>2. IsFiniteSet(C) /\ \A c \in C : c \in Kept(pair.crop)
  BY <1>1, ImageFinite
<1>3. \A c \in C : box(c) \in Boxes
  BY <1>1, <1>2, KeptAre
<1>4. point \in Nat \ {0} /\ area \in Rationals
  BY PointsAre, QIs
<1>5. ASSUME NEW c \in C
      PROVE  /\ ice[c] \subseteq M /\ IsFiniteSet(ice[c])
             /\ Cardinality(ice[c]) \in Nat \ {0} /\ bincount(map, c) \in Nat \ {0}
  <2>1. ice[c] = {p \in M : map[p] = c} /\ ice[c] # {}
    OBVIOUS
  <2>2. {p \in DOMAIN map : map[p] = c} # {} /\ {p \in DOMAIN map : map[p] = c} \subseteq DOMAIN map
    BY <1>1
  <2>3. IsFiniteSet(ice[c]) /\ IsFiniteSet({p \in DOMAIN map : map[p] = c})
    BY <1>1, <2>1, <2>2, FS_Subset
  <2>4. \A S : IsFiniteSet(S) /\ S # {} => Cardinality(S) \in Nat \ {0}
    BY FS_CardinalityType, FS_EmptySet
  <2> QED
    BY <2>1, <2>2, <2>3, <2>4 DEF bincount
<1>6. ASSUME NEW c \in C PROVE has[c] \in Rationals
  <2> DEFINE b == box(c)
  <2>1. b \in Boxes
    BY <1>3
  <2>2. has[c] = ColumnTotal(field, b)
    OBVIOUS
  <2> HIDE DEF b
  <2> QED
    BY <2>1, <2>2, ColumnIs
<1>7. ASSUME NEW h, NEW c \in C
      PROVE  Sum([p \in {q \in DOMAIN f : pair.map[q] = c} |-> h[p]]) = SumOver(h, ice[c])
  BY <1>5, SumOfSome
<1> DEFINE iceOf(c) == {p \in DOMAIN f : pair.map[p] = c}
           hasOf(c) == ColumnTotal(field, InWhole(pair.crop, c))
           totalOf(c, h) == NanTimes(Sum([p \in iceOf(c) |-> h[p]]), Q(PointArea(s)))
           moveOf(c) ==
             IF \A k \in Elevs : Area(k, InWhole(pair.crop, c)) = 0 THEN Zero
             ELSE NanOver(NanPlus(NanTimes(hasOf(c), Ratio(Cardinality(iceOf(c)), bincount(pair.map, c))),
                                  NanTimes(Q(-1), totalOf(c, f))),
                          Q(PointArea(s) * Cardinality(iceOf(c))))
           moves == [c \in C |-> moveOf(c)]
           after == [p \in DOMAIN f |-> NanPlus(f[p], moves[pair.map[p]])]
           by == NanOver(Sum([c \in C |-> hasOf(c)]), Sum([c \in C |-> totalOf(c, after)]))
<1>8. g = [p \in DOMAIN f |-> NanTimes(after[p], by)]
  BY DEF Conserved
<1>9. ASSUME NEW c \in C PROVE moveOf(c) \in Rationals
  <2> DEFINE n == Cardinality(ice[c])
             all == bincount(map, c)
             now == SumOver(f, ice[c])
             h == has[c]
  <2>1. iceOf(c) = ice[c]
    OBVIOUS
  <2>2. n \in Nat \ {0} /\ all \in Nat \ {0} /\ now \in Rationals /\ h \in Rationals
    BY <1>5, <1>6, SumRational
  <2>3. totalOf(c, f) = NanTimes(now, area)
    BY <1>7
  <2>4. moveOf(c) = IF \A k \in Elevs : Area(k, InWhole(pair.crop, c)) = 0 THEN Zero
                    ELSE NanOver(NanPlus(NanTimes(h, Ratio(n, all)), NanTimes(Q(-1), NanTimes(now, area))),
                                 Q(point * n))
    BY <2>1, <2>3
  <2> HIDE DEF n, all, now, h, moveOf, area, point
  <2>5. Ratio(n, all) \in Rationals
    <3>1. n \in Int
      BY <2>2
    <3> QED
      BY <2>2, <3>1, RatioInRationals
  <2>6. Q(-1) \in Rationals
    BY QIs
  <2>7. NanTimes(h, Ratio(n, all)) \in Rationals /\ NanTimes(now, area) \in Rationals
    BY <1>4, <2>2, <2>5, NanOperations
  <2>8. NanTimes(Q(-1), NanTimes(now, area)) \in Rationals
    BY <2>6, <2>7, NanOperations
  <2>9. NanPlus(NanTimes(h, Ratio(n, all)), NanTimes(Q(-1), NanTimes(now, area))) \in Rationals
    BY <2>7, <2>8, NanOperations
  <2>10. Q(point * n) \in Rationals /\ Q(point * n) # Zero
    <3>1. point * n \in Nat \ {0}
      BY <1>4, <2>2, ProductNotZero
    <3> DEFINE m == point * n
    <3> HIDE DEF m
    <3> QED
      BY <3>1, OverCount
  <2> QED
    BY <2>4, <2>9, <2>10, NanOperations, ZeroIs
<1> HIDE DEF moveOf
<1>10. ASSUME NEW p \in M PROVE after[p] \in Rationals /\ map[p] \in C
  <2>1. map[p] \in C /\ moves[map[p]] \in Rationals
    BY <1>9
  <2>2. after[p] = NanPlus(f[p], moves[map[p]])
    OBVIOUS
  <2> HIDE DEF moves, after
  <2> QED
    BY <2>1, <2>2, NanOperations
<1> DEFINE total == [c \in C |-> NanTimes(SumOver(after, ice[c]), area)]
<1>11. \A c \in C : totalOf(c, after) = total[c]
  <2> TAKE c \in C
  <2> HIDE DEF after
  <2> QED
    BY <1>7
<1>12. by = NanOver(SumOver(has, C), SumOver(total, C))
  <2> DEFINE first == [c \in C |-> hasOf(c)]
             second == [c \in C |-> totalOf(c, after)]
  <2>1. DOMAIN first = C /\ first = has
    OBVIOUS
  <2>2. DOMAIN second = C /\ \A c \in C : second[c] = total[c]
    BY <1>11
  <2>3. by = NanOver(Sum(first), Sum(second))
    OBVIOUS
  <2> HIDE DEF first, second, total, has, by
  <2>4. Sum(first) = SumOver(has, C)
    BY <2>1, SumIs
  <2>5. Sum(second) = SumOver(total, C)
    BY <1>2, <2>2, SumIs, SumEqual
  <2> QED
    BY <2>3, <2>4, <2>5
<1>13. \A p \in M : g[p] = NanTimes(after[p], by)
  BY <1>8
<1>14. DOMAIN g = M
  BY <1>8
<1>15. \A c \in C : /\ ice[c] = {p \in M : map[p] = c}
                    /\ total[c] = NanTimes(SumOver(after, ice[c]), area)
  OBVIOUS
<1> DEFINE others == [c \in C |-> ColumnTotal(field, InWhole(pair.crop, c))]
<1>16. has = others
  OBVIOUS
<1> HIDE DEF M, C, map, ice, after, total, has, area, by, g, others
<1>17. Scaling(M, C, map, ice, after, total, has, area, by, g)
  BY <1>1, <1>2, <1>4, <1>6, <1>10, <1>12, <1>13, <1>15 DEF Scaling
<1>18. \/ \A p \in M : g[p] = NaN
       \/ /\ \A p \in M : g[p] \in Rationals
          /\ Times(SumOver(g, M), area) = SumOver(has, C)
  BY <1>17, ScaledToTotal
<1> QED
  BY <1>14, <1>16, <1>18 DEF M, C, map, area, g, others

\* All that fell on the boxes that have ice of a sheet is what the climate has in them.
LEMMA FellIs ==
  ASSUME NEW s \in Sheets, Inputs, Made, atm["smb"] = AsRead(forcing.ice_smb)
  PROVE  LET pair == pairs[s]
             iced == {pair.map[p] : p \in MaskOf(Look(s))}
             has == [c \in iced |-> ColumnTotal("smb", InWhole(pair.crop, c))]
         IN  Fell(s) = SumOver(has, iced)
<1> DEFINE pair == pairs[s]
           map == pair.map
           M == MaskOf(Look(s))
           C == {map[p] : p \in M}
           has == [c \in C |-> ColumnTotal("smb", InWhole(pair.crop, c))]
           to == [c \in C |-> InWhole(pair.crop, c)]
           S == {InWhole(pair.crop, map[p]) : p \in M}
           f == [b \in S |-> Sum([k \in Elevs |-> Q(forcing.ice_smb[k][b] * Area(k, b))])]
<1>1. Fell(s) = Sum(f)
  BY DEF Fell, IcedBoxes
<1>2. /\ pair.crop = Crop(s) /\ IsFiniteSet(M)
      /\ \A p \in M : map[p] \in Kept(pair.crop)
  BY MapIs
<1>3. IsFiniteSet(C) /\ \A c \in C : c \in Kept(pair.crop)
  BY <1>2, ImageFinite
<1>4. /\ \A c \in C : to[c] \in S /\ to[c] \in Boxes
      /\ \A c, d \in C : to[c] = to[d] => c = d
      /\ \A b \in S : \E c \in C : to[c] = b
  <2> DEFINE base == cell_id(0, pair.crop.ilo)
  <2>1. /\ base \in Nat /\ Kept(pair.crop) \subseteq Nat
        /\ \A c \in C : to[c] = c + base /\ to[c] \in Boxes
    BY <1>2, <1>3, KeptAre
  <2>2. \A c, d \in C : to[c] = to[d] => c = d
    <3>1. \A c \in C : c \in Nat /\ to[c] = c + base
      BY <1>3, <2>1
    <3> HIDE DEF base, to, C
    <3> QED
      BY <2>1, <3>1
  <2>3. \A c \in C : to[c] \in S
    OBVIOUS
  <2>4. \A b \in S : \E c \in C : to[c] = b
    OBVIOUS
  <2> QED
    BY <2>1, <2>2, <2>3, <2>4
<1>5. IsFiniteSet(S)
  <2>1. S = {to[c] : c \in C}
    OBVIOUS
  <2> HIDE DEF S, to, C
  <2>2. IsFiniteSet({to[c] : c \in C})
    BY <1>3, ImageFinite
  <2> QED
    BY <2>1, <2>2
<1>6. ASSUME NEW b \in S PROVE f[b] = ColumnTotal("smb", b) /\ f[b] \in Rationals
  <2>1. b \in Boxes
    <3> HIDE DEF S, to, C, f
    <3> QED
      BY <1>4
  <2>2. \A k \in Elevs, a \in Boxes : forcing.ice_smb[k][a] \in Int
    BY ForcingIs
  <2> DEFINE read == forcing.ice_smb
  <2>3. f[b] = Sum([k \in Elevs |-> Q(read[k][b] * Area(k, b))])
    OBVIOUS
  <2>4. atm["smb"] = AsRead(read) /\ \A k \in Elevs, a \in Boxes : read[k][a] \in Int
    BY <2>2
  <2> HIDE DEF read, f, S
  <2> QED
    BY <2>1, <2>3, <2>4, ColumnIs
<1>7. DOMAIN f = S
  OBVIOUS
<1>8. \A c \in C : has[c] = f[to[c]]
  <2> TAKE c \in C
  <2>1. to[c] \in S /\ has[c] = ColumnTotal("smb", to[c])
    BY <1>4
  <2> HIDE DEF f, to, has, S
  <2> QED
    BY <1>6, <2>1
<1> DEFINE given == [c \in C |-> ColumnTotal("smb", InWhole(pair.crop, c))]
<1>9. has = given
  OBVIOUS
<1> HIDE DEF f, S, to, has, C, given
<1>10. SumOver(has, C) = SumOver(f, S)
  BY <1>3, <1>4, <1>5, <1>6, <1>8, SumOfPairs
<1>11. Sum(f) = SumOver(f, S)
  BY <1>7, SumIs
<1> QED
  BY <1>1, <1>9, <1>10, <1>11 DEF C, given

\* Conserved, what the sheet gains and the snow that it gives away are what fell.
Water(s) ==
  options.conservation /\ (\E p \in DOMAIN ism[s].smb : Finite(ism[s].smb[p])) =>
    NanTimes(Sum([p \in DOMAIN ism[s].smb |-> NanPlus(ism[s].smb[p], ism[s].delta_snow[p])]),
             Q(PointArea(s))) = Fell(s)

WaterInv == \A s \in Sheets : ism[s] # None => Water(s)

\* The snow that is made ice is a number, whatever the snow is.
LEMMA DeltaIs ==
  ASSUME NEW thk \in Nat, NEW snow, snow \in Rationals \/ snow = NaN
  PROVE  delta_h_snow(thk, snow) \in Rationals
<1>1. Q(thk) \in Rationals
  BY QIs
<1>2. snow \in Rationals => Minus(Zero, snow) \in Rationals
  BY PlusLaws, ZeroIs
<1> QED
  BY <1>1, <1>2, ZeroIs, NumberIs DEF delta_h_snow

\* What atm_to_ism brings down has the water that the climate had.
LEMMA WaterMade ==
  ASSUME NEW s \in Sheets, YearInv, LevelInv, atm_to_ism(s), ism'[s] # ism[s]
  PROVE  Water(s)'
<1> DEFINE pair == pairs[s]
           M == MaskOf(Look(s))
           thk == [p \in M |-> Look(s)[p].thk]
           f == ToSurface(s, "smb", BoxesOf(s))
           h == ToSurface(s, "snow", BoxesOf(s))
           smb == Brought(s, "smb", pair)
           snow == Brought(s, "snow", pair)
           delta == [p \in DOMAIN snow |->
                       IF options.snow_to_ice THEN delta_h_snow(Look(s)[p].thk, snow[p]) ELSE Zero]
           C == {pair.map[p] : p \in M}
           has == [c \in C |-> ColumnTotal("smb", InWhole(pair.crop, c))]
           area == Q(PointArea(s))
           new == ism'[s]
<1>1. /\ UNCHANGED <<um, surface, options, pairs, forcing, atm>> /\ pc[1] = "atm_to_ism"
  BY AfterBringing DEF inputVars
<1>2. Inputs /\ Made /\ AtmIs
  BY <1>1 DEF YearInv
<1>3. /\ new.smb = [p \in DOMAIN smb |-> NanPlus(smb[p], Minus(Zero, delta[p]))]
      /\ new.delta_snow = delta
  BY BroughtIs DEF LevelInv
<1>4. /\ \A k \in Elevs, b \in Boxes : forcing.ice_smb[k][b] \in Int
      /\ \A k \in Elevs, b \in Boxes : forcing.nonice_snowdepth[k][b] \in Int
  BY <1>2, ForcingIs
<1>5. atm["smb"] = AsRead(forcing.ice_smb) /\ atm["snow"] = AsRead(forcing.nonice_snowdepth)
  BY <1>1, <1>2 DEF AtmIs
<1> SUFFICES ASSUME options.conservation, \E p \in DOMAIN new.smb : Finite(new.smb[p])
             PROVE  NanTimes(Sum([p \in DOMAIN new.smb |-> NanPlus(new.smb[p], new.delta_snow[p])]), area)
                      = Fell(s)
  <2>1. Fell(s)' = Fell(s)
    BY <1>1 DEF Fell, IcedBoxes, Look, Area
  <2> QED
    BY <1>1, <2>1 DEF Water
<1> DEFINE ice == [p \in M |-> f[p]]
           iceSnow == [p \in M |-> h[p]]
<1>6. /\ smb = IF \A p \in Points(s) : Finite(f[p]) THEN Conserved(s, "smb", pair, ice)
               ELSE [p \in M |-> NaN]
      /\ snow = IF \A p \in Points(s) : Finite(h[p]) THEN Conserved(s, "snow", pair, iceSnow)
                ELSE [p \in M |-> NaN]
  BY DEF Brought
<1>7. M \subseteq Points(s)
  BY <1>2, LooksAre, LookIs
<1>8. (\A p \in Points(s) : Finite(f[p])) => \A p \in M : ice[p] \in Rationals
  <2>1. \A p \in Points(s) : Numeric(f[p])
    BY <1>2, <1>4, <1>5, SurfaceIs
  <2> HIDE DEF f
  <2> QED
    BY <1>7, <2>1, NumberIs DEF Numeric
<1>9. (\A p \in Points(s) : Finite(h[p])) => \A p \in M : iceSnow[p] \in Rationals
  <2>1. \A p \in Points(s) : Numeric(h[p])
    BY <1>2, <1>4, <1>5, SurfaceIs
  <2> HIDE DEF h
  <2> QED
    BY <1>7, <2>1, NumberIs DEF Numeric
<1> DEFINE all == \A p \in Points(s) : Finite(f[p])
           allSnow == \A p \in Points(s) : Finite(h[p])
<1>10. /\ DOMAIN smb = M
       /\ \/ \A p \in M : smb[p] = NaN
          \/ /\ \A p \in M : smb[p] \in Rationals
             /\ Times(SumOver(smb, M), area) = SumOver(has, C)
  <2>1. CASE ~all
    <3>1. smb = [p \in M |-> NaN]
      BY <1>6, <2>1
    <3> HIDE DEF smb, M
    <3> QED
      BY <3>1
  <2>2. CASE all
    <3> DEFINE g == Conserved(s, "smb", pair, ice)
               D == {pair.map[p] : p \in DOMAIN ice}
               column == [c \in D |-> ColumnTotal("smb", InWhole(pair.crop, c))]
               read == forcing.ice_smb
    <3>1. atm["smb"] = AsRead(read) /\ \A k \in Elevs, b \in Boxes : read[k][b] \in Int
      BY <1>4, <1>5
    <3>2. DOMAIN ice = MaskOf(Look(s)) /\ \A p \in DOMAIN ice : ice[p] \in Rationals
      BY <1>8, <2>2
    <3>3. DOMAIN ice = M
      OBVIOUS
    <3>4. smb = g
      BY <1>6, <2>2
    <3>5. D = C /\ column = has
      OBVIOUS
    <3> HIDE DEF ice, read
    <3>6. /\ DOMAIN g = DOMAIN ice
          /\ \/ \A p \in DOMAIN ice : g[p] = NaN
             \/ /\ \A p \in DOMAIN ice : g[p] \in Rationals
                /\ Times(SumOver(g, DOMAIN ice), Q(PointArea(s))) = SumOver(column, D)
      BY <1>2, <3>1, <3>2, ConservedIs
    <3> HIDE DEF g, D, column, C, has, smb
    <3> QED
      BY <3>3, <3>4, <3>5, <3>6
  <2> QED
    BY <2>1, <2>2
<1>11. DOMAIN snow = M /\ \A p \in M : snow[p] \in Rationals \/ snow[p] = NaN
  <2>1. CASE ~allSnow
    <3>1. snow = [p \in M |-> NaN]
      BY <1>6, <2>1
    <3> HIDE DEF snow, M
    <3> QED
      BY <3>1
  <2>2. CASE allSnow
    <3> DEFINE g == Conserved(s, "snow", pair, iceSnow)
               read == forcing.nonice_snowdepth
    <3>1. atm["snow"] = AsRead(read) /\ \A k \in Elevs, b \in Boxes : read[k][b] \in Int
      BY <1>4, <1>5
    <3>2. DOMAIN iceSnow = MaskOf(Look(s)) /\ \A p \in DOMAIN iceSnow : iceSnow[p] \in Rationals
      BY <1>9, <2>2
    <3>3. DOMAIN iceSnow = M
      OBVIOUS
    <3>4. snow = g
      BY <1>6, <2>2
    <3> HIDE DEF iceSnow, read
    <3>5. /\ DOMAIN g = DOMAIN iceSnow
          /\ \/ \A p \in DOMAIN iceSnow : g[p] = NaN
             \/ \A p \in DOMAIN iceSnow : g[p] \in Rationals
      BY <1>2, <3>1, <3>2, ConservedIs
    <3> HIDE DEF g, snow
    <3> QED
      BY <3>3, <3>4, <3>5
  <2> QED
    BY <2>1, <2>2
<1>12. ASSUME NEW p \in M PROVE delta[p] \in Rationals
  <2>1. Look(s)[p].thk \in Nat
    BY <1>2, MapIs
  <2> DEFINE deep == Look(s)[p].thk
             there == snow[p]
  <2>2. delta[p] = IF options.snow_to_ice THEN delta_h_snow(deep, there) ELSE Zero
    BY <1>11
  <2>3. deep \in Nat /\ (there \in Rationals \/ there = NaN)
    BY <1>11, <2>1
  <2> HIDE DEF deep, there, delta
  <2> QED
    BY <2>2, <2>3, DeltaIs, ZeroIs
<1>13. Fell(s) = SumOver(has, C)
  BY <1>2, <1>5, FellIs
<1>14. IsFiniteSet(M)
  BY <1>2, MapIs
<1> HIDE DEF M, C, has, smb, snow, delta, area, new
<1>15. DOMAIN new.smb = M /\ \A p \in M : new.smb[p] = NanPlus(smb[p], Minus(Zero, delta[p]))
  BY <1>3, <1>10
<1>16. \A p \in M : Minus(Zero, delta[p]) \in Rationals
  BY <1>12, ZeroIs, PlusLaws
<1>17. ~ \A p \in M : smb[p] = NaN
  <2>1. PICK p \in M : Finite(new.smb[p])
    BY <1>15
  <2>2. ~Finite(smb[p]) => new.smb[p] = NaN
    BY <1>15, NanOperations
  <2> QED
    BY <2>1, <2>2, NumberIs
<1>18. /\ \A p \in M : smb[p] \in Rationals
       /\ Times(SumOver(smb, M), area) = SumOver(has, C)
  BY <1>10, <1>17
<1>19. \A p \in M : NanPlus(new.smb[p], new.delta_snow[p]) = smb[p]
  <2> TAKE p \in M
  <2> DEFINE a == smb[p]
             d == delta[p]
  <2>1. a \in Rationals /\ d \in Rationals /\ Minus(Zero, d) \in Rationals
    BY <1>12, <1>16, <1>18
  <2>2. new.smb[p] = NanPlus(a, Minus(Zero, d)) /\ new.delta_snow[p] = d
    BY <1>3, <1>15
  <2> HIDE DEF a, d
  <2>3. NanPlus(a, Minus(Zero, d)) = Plus(a, Minus(Zero, d)) /\ Plus(a, Minus(Zero, d)) \in Rationals
    BY <2>1, NanOperations
  <2>4. NanPlus(Plus(a, Minus(Zero, d)), d) = Plus(Plus(a, Minus(Zero, d)), d)
    BY <2>1, <2>3, NanOperations
  <2>5. Plus(Plus(a, Minus(Zero, d)), d) = Plus(a, Plus(Minus(Zero, d), d))
    <3>1. \A p_, q, r \in Rationals : Plus(p_, Plus(q, r)) = Plus(Plus(p_, q), r)
      BY PlusLaws
    <3> QED
      BY <2>1, <3>1
  <2>6. Plus(Minus(Zero, d), d) = Zero /\ Plus(a, Zero) = a
    BY <2>1, ZeroIs, PlusLaws
  <2> QED
    BY <2>2, <2>3, <2>4, <2>5, <2>6 DEF a
<1> DEFINE sum == [p \in DOMAIN new.smb |-> NanPlus(new.smb[p], new.delta_snow[p])]
<1>20. DOMAIN sum = M /\ \A p \in M : sum[p] = smb[p]
  BY <1>15, <1>19
<1> HIDE DEF sum
<1>21. Sum(sum) = SumOver(smb, M)
  BY <1>14, <1>20, SumIs, SumEqual
<1>22. SumOver(smb, M) \in Rationals
  BY <1>14, <1>18, SumRational
<1>23. area \in Rationals
  BY PointsAre, QIs DEF area
<1>24. NanTimes(Sum(sum), area) = Times(SumOver(smb, M), area)
  BY <1>21, <1>22, <1>23, NanOperations
<1> QED
  BY <1>13, <1>18, <1>24 DEF sum

\* A step brings down the water of the boxes, or leaves what a sheet has.
LEMMA WaterStep == YearInv /\ LevelInv /\ WaterInv /\ [Next]_vars => WaterInv'
<1> SUFFICES ASSUME YearInv, LevelInv, WaterInv, [Next]_vars PROVE WaterInv'
  OBVIOUS
<1>1. ASSUME NEW s \in Sheets, UNCHANGED <<surface, options, pairs, forcing>>,
             ism'[s] = ism[s], Water(s)
      PROVE  Water(s)'
  <2>1. Fell(s)' = Fell(s)
    BY <1>1 DEF Fell, IcedBoxes, Look, Area
  <2> QED
    BY <1>1, <2>1 DEF Water
<1>2. CASE um_to_unicicles \/ ReadForcing
  <2>1. ism' = ism /\ pc[1] \in {"um_to_unicicles", "read"}
    BY <1>2 DEF um_to_unicicles, ReadForcing
  <2> QED
    BY <2>1 DEF LevelInv, WaterInv
<1>3. ASSUME NEW s \in Sheets, atm_to_ism(s) PROVE WaterInv'
  <2>1. /\ UNCHANGED <<surface, options, pairs, forcing>>
        /\ \A t \in Sheets : t # s => ism'[t] = ism[t]
    <3>1. UNCHANGED inputVars /\ forcing' = forcing
      BY <1>3, AfterBringing
    <3>2. \A t \in Sheets : t # s => ism'[t] = ism[t]
      BY <1>3 DEF atm_to_ism, LevelInv
    <3> QED
      BY <3>1, <3>2 DEF inputVars
  <2>2. ASSUME NEW t \in Sheets, ism'[t] # None PROVE Water(t)'
    <3>1. CASE ism'[t] = ism[t]
      BY <1>1, <2>1, <2>2, <3>1 DEF WaterInv
    <3>2. CASE ism'[t] # ism[t]
      <4>1. t = s
        BY <2>1, <3>2
      <4> QED
        BY <1>3, <3>2, <4>1, WaterMade
    <3> QED
      BY <3>1, <3>2
  <2> QED
    BY <2>2 DEF WaterInv
<1>4. ASSUME NEW s \in Sheets, ism_to_atm(s) PROVE WaterInv'
  <2>1. UNCHANGED <<surface, options, pairs, forcing, ism>>
    BY <1>4 DEF ism_to_atm, inputVars
  <2> QED
    BY <1>1, <2>1 DEF WaterInv
<1>5. CASE UNCHANGED vars
  <2>1. UNCHANGED <<surface, options, pairs, forcing, ism>>
    BY <1>5 DEF vars, inputVars
  <2> QED
    BY <1>1, <2>1 DEF WaterInv
<1> QED
  BY <1>2, <1>3, <1>4, <1>5 DEF Next

\* Brought down with conservation, what a sheet gains and the snow it gives away are in
\* total what fell on the boxes with ice, or no numbers at all (WaterReceived).
THEOREM IsWaterReceived == Spec => []WaterReceived
<1>1. WaterInv => WaterReceived
  BY DEF WaterInv, Water, WaterReceived
<1>2. Init => WaterInv
  BY DEF Init, WaterInv
<1> QED
  BY <1>1, <1>2, YearHolds, YearInit, YearStep, LevelInit, LevelStep, WaterStep, PTL DEF Spec

===============================================================================
