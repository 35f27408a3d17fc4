----------------------------- MODULE Finite_proofs -----------------------------
(***************************************************************************)
(* What the models calculate with.  A total over a finite set does not      *)
(* depend on the order in which it is added up, splits over a partition,    *)
(* and respects the arithmetic of its terms: induction is over finite sets, *)
(* by a smallest counterexample.  Rationals, pairs in lowest terms, have    *)
(* the laws of an ordered field, and lists of them have totals.             *)
(***************************************************************************)
EXTENDS Finite, Ratios, FiniteSetTheorems, SequenceTheorems, WellFoundedInduction, TLAPS

\* A set that has every finite set of whose proper subsets it has all, has them all.
LEMMA BySmallerSets ==
  ASSUME NEW S, IsFiniteSet(S), NEW Good,
         \A T \in SUBSET S : (\A U \in SUBSET T : U # T => U \in Good) => T \in Good
  PROVE  S \in Good
<1> SUFFICES ASSUME S \notin Good PROVE FALSE
  OBVIOUS
<1> DEFINE Bad == {T \in SUBSET S : T \notin Good}
<1>1. Bad \subseteq FiniteSubsetsOf(S) /\ Bad # {}
  BY FS_Subset DEF FiniteSubsetsOf
<1>2. PICK T \in Bad : \A U \in Bad : <<U, T>> \notin StrictSubsetOrdering(S)
  <2> HIDE DEF Bad
  <2> QED
    BY <1>1, FS_StrictSubsetOrderingWellFounded, WFMin
<1>3. T \in SUBSET S /\ T \notin Good
  BY <1>2
<1>4. PICK U \in SUBSET T : U # T /\ U \notin Good
  BY <1>3
<1>5. U \in Bad /\ <<U, T>> \in StrictSubsetOrdering(S)
  BY <1>3, <1>4 DEF StrictSubsetOrdering
<1> QED
  BY <1>2, <1>5

\* The same, one element at a time.
LEMMA FiniteSetsGrow ==
  ASSUME NEW S, IsFiniteSet(S), NEW Good, {} \in Good,
         \A T \in SUBSET S : T # {} => \E x \in T : T \ {x} \in Good => T \in Good
  PROVE  S \in Good
<1>1. ASSUME NEW T \in SUBSET S, \A U \in SUBSET T : U # T => U \in Good PROVE T \in Good
  <2>1. CASE T = {}
    BY <2>1, Zenon
  <2>2. CASE T # {}
    <3>1. PICK x \in T : T \ {x} \in Good => T \in Good
      BY <2>2
    <3>2. T \ {x} \in SUBSET T /\ T \ {x} # T
      OBVIOUS
    <3> QED
      BY <1>1, <3>1, <3>2
  <2> QED
    BY <2>1, <2>2
<1> QED
  BY <1>1, BySmallerSets

-------------------------------------------------------------------------------
(* The definition of a total *)

OneOf(s) == CHOOSE x \in s : TRUE

IsSumming(sum, field, S) ==
  sum = [s \in SUBSET S |-> IF s = {} THEN 0 ELSE field[OneOf(s)] + sum[s \ {OneOf(s)}]]

Summing(field, S) == CHOOSE sum : IsSumming(sum, field, S)

\* Total is a fold, one term at a time.
LEMMA TotalIs == ASSUME NEW field, NEW S PROVE Total(field, S) = Summing(field, S)[S]
BY DEF Total, MapThenSumSet, MapThenFoldSet, Summing, IsSumming, OneOf

\* There is such a function over the subsets of a finite set: one over those of n elements
\* can be extended to those of n + 1.
LEMMA SummingExists ==
  ASSUME NEW field, NEW S, IsFiniteSet(S)
  PROVE  IsSumming(Summing(field, S), field, S)
<1> DEFINE UpTo(n) == {s \in SUBSET S : Cardinality(s) <= n}
           Body(sum, s) == IF s = {} THEN 0 ELSE field[OneOf(s)] + sum[s \ {OneOf(s)}]
           IsPart(sum, n) == sum = [s \in UpTo(n) |-> Body(sum, s)]
           None == {n \in Nat : ~ \E sum : IsPart(sum, n)}
<1>1. \A s \in SUBSET S : IsFiniteSet(s) /\ Cardinality(s) \in Nat
  BY FS_Subset, FS_CardinalityType
<1>2. \A s \in SUBSET S : s # {} => /\ OneOf(s) \in s
                                    /\ Cardinality(s \ {OneOf(s)}) = Cardinality(s) - 1
  <2> SUFFICES ASSUME NEW s \in SUBSET S, s # {}
               PROVE  OneOf(s) \in s /\ Cardinality(s \ {OneOf(s)}) = Cardinality(s) - 1
    OBVIOUS
  <2>1. OneOf(s) \in s
    BY DEF OneOf
  <2> QED
    BY <1>1, <2>1, FS_RemoveElement
<1>3. None = {}
  <2> SUFFICES ASSUME None # {} PROVE FALSE
    OBVIOUS
  <2>1. PICK n \in None : \A m \in None : <<m, n>> \notin OpToRel(<, Nat)
    <3>1. None \subseteq Nat
      OBVIOUS
    <3> HIDE DEF None
    <3> QED
      BY <3>1, NatLessThanWellFounded, WFMin
  <2>2. n \in Nat /\ \A m \in None : ~(m < n)
    BY <2>1 DEF OpToRel
  <2>3. CASE n = 0
    <3>1. \A s \in UpTo(0) : s = {}
      BY <1>1, FS_EmptySet
    <3> DEFINE sum == [s \in UpTo(0) |-> 0]
    <3>2. IsPart(sum, 0)
      BY <3>1
    <3> QED
      BY <2>3, <3>2
  <2>4. CASE n # 0
    <3>0. n - 1 \in Nat /\ n - 1 < n
      BY <2>2, <2>4
    <3>1. n - 1 \notin None
      <4> HIDE DEF None
      <4> QED
        BY <2>2, <3>0
    <3>2. PICK part : IsPart(part, n - 1)
      BY <3>0, <3>1
    <3> DEFINE sum == [s \in UpTo(n) |-> Body(part, s)]
    <3>3. ASSUME NEW s \in UpTo(n) PROVE Body(part, s) = Body(sum, s)
      <4>1. CASE s = {}
        BY <4>1
      <4>2. CASE s # {}
        <5> DEFINE t == s \ {OneOf(s)}
        <5>1. t \in UpTo(n - 1) /\ t \in UpTo(n)
          BY <1>1, <1>2, <2>2, <4>2
        <5>2. part[t] = Body(part, t)
          BY <3>2, <5>1
        <5>3. sum[t] = part[t]
          BY <5>1, <5>2
        <5> QED
          BY <4>2, <5>3
      <4> QED
        BY <4>1, <4>2
    <3>4. IsPart(sum, n)
      BY <3>3
    <3> QED
      BY <3>4
  <2> QED
    BY <2>3, <2>4
<1>4. Cardinality(S) \in Nat
  BY <1>1
<1>5. PICK sum : IsPart(sum, Cardinality(S))
  BY <1>3, <1>4
<1>6. UpTo(Cardinality(S)) = SUBSET S
  BY <1>1, FS_Subset
<1>7. IsSumming(sum, field, S)
  BY <1>5, <1>6 DEF IsSumming
<1> QED
  BY <1>7 DEF Summing

\* A total over a subset of a finite set, whichever set it is found in.
LEMMA SummingAgrees ==
  ASSUME NEW field, NEW S, IsFiniteSet(S), NEW T \in SUBSET S
  PROVE  Summing(field, S)[T] = Total(field, T)
<1> DEFINE f == Summing(field, S)
           g == Summing(field, T)
           Good == {s \in SUBSET T : f[s] = g[s]}
<1>1. IsFiniteSet(T)
  BY FS_Subset
<1>2. IsSumming(f, field, S) /\ IsSumming(g, field, T)
  BY <1>1, SummingExists
<1>3. {} \in Good
  BY <1>2 DEF IsSumming
<1>4. ASSUME NEW s \in SUBSET T, s # {} PROVE \E x \in s : s \ {x} \in Good => s \in Good
  <2>1. OneOf(s) \in s
    BY <1>4 DEF OneOf
  <2>2. /\ f[s] = field[OneOf(s)] + f[s \ {OneOf(s)}]
        /\ g[s] = field[OneOf(s)] + g[s \ {OneOf(s)}]
    BY <1>2, <1>4 DEF IsSumming
  <2> QED
    BY <2>1, <2>2
<1>5. T \in Good
  <2> HIDE DEF Good
  <2> QED
    BY <1>1, <1>3, <1>4, FiniteSetsGrow
<1> QED
  BY <1>5, TotalIs

\* Nothing adds up to zero.
LEMMA TotalEmpty == ASSUME NEW field PROVE Total(field, {}) = 0
<1>1. IsSumming(Summing(field, {}), field, {})
  BY SummingExists, FS_EmptySet
<1> QED
  BY <1>1, TotalIs DEF IsSumming

\* One term, and the rest.
LEMMA TotalStep ==
  ASSUME NEW field, NEW S, IsFiniteSet(S), S # {}
  PROVE  OneOf(S) \in S /\ Total(field, S) = field[OneOf(S)] + Total(field, S \ {OneOf(S)})
<1>1. OneOf(S) \in S
  BY DEF OneOf
<1>2. IsSumming(Summing(field, S), field, S)
  BY SummingExists
<1>3. Summing(field, S)[S] = field[OneOf(S)] + Summing(field, S)[S \ {OneOf(S)}]
  BY <1>2 DEF IsSumming
<1> QED
  BY <1>1, <1>3, TotalIs, SummingAgrees

-------------------------------------------------------------------------------
(* What is added up *)

\* Integers add up to an integer.
LEMMA TotalInt ==
  ASSUME NEW field, NEW S, IsFiniteSet(S), \A x \in S : field[x] \in Int
  PROVE  Total(field, S) \in Int
<1> DEFINE Good == {T \in SUBSET S : Total(field, T) \in Int}
<1>1. {} \in Good
  BY TotalEmpty
<1>2. ASSUME NEW T \in SUBSET S, T # {} PROVE \E x \in T : T \ {x} \in Good => T \in Good
  <2>1. IsFiniteSet(T)
    BY FS_Subset
  <2>2. PICK x \in T : Total(field, T) = field[x] + Total(field, T \ {x})
    BY <1>2, <2>1, TotalStep
  <2> DEFINE rest == Total(field, T \ {x})
  <2>3. field[x] \in Int
    OBVIOUS
  <2>4. rest \in Int => Total(field, T) \in Int
    <3> HIDE DEF rest
    <3> QED
      BY <2>2, <2>3 DEF rest
  <2> QED
    BY <2>4
<1>3. S \in Good
  <2> HIDE DEF Good
  <2> QED
    BY <1>1, <1>2, FiniteSetsGrow
<1> QED
  BY <1>3

\* The order does not matter: any element may be the one that is added last.
LEMMA TotalRemove ==
  ASSUME NEW field, NEW S, IsFiniteSet(S), \A x \in S : field[x] \in Int, NEW x \in S
  PROVE  Total(field, S) = field[x] + Total(field, S \ {x})
<1> DEFINE Splits(T) == \A y \in T : Total(field, T) = field[y] + Total(field, T \ {y})
           Good == {T \in SUBSET S : Splits(T)}
<1>1. ASSUME NEW T \in SUBSET S, \A U \in SUBSET T : U # T => U \in Good, NEW y \in T
      PROVE  Total(field, T) = field[y] + Total(field, T \ {y})
  <2> DEFINE a == OneOf(T)
             R == T \ {a}
  <2>1. \A U \in SUBSET T : IsFiniteSet(U) /\ Total(field, U) \in Int
    BY FS_Subset, TotalInt
  <2>2. a \in T /\ Total(field, T) = field[a] + Total(field, R)
    BY <2>1, TotalStep
  <2> HIDE DEF a
  <2>3. CASE y = a
    BY <2>2, <2>3
  <2>4. CASE y # a
    <3>1. R \in Good /\ T \ {y} \in Good
      <4> HIDE DEF Good
      <4> QED
        BY <1>1, <2>2
    <3>2. Total(field, R) = field[y] + Total(field, R \ {y})
      BY <2>4, <3>1
    <3>3. Total(field, T \ {y}) = field[a] + Total(field, (T \ {y}) \ {a})
      BY <2>2, <2>4, <3>1
    <3>4. (T \ {y}) \ {a} = R \ {y} /\ R \ {y} \in SUBSET T
      OBVIOUS
    <3> DEFINE rest == Total(field, R \ {y})
    <3>5. rest \in Int /\ field[a] \in Int /\ field[y] \in Int
      BY <2>1, <2>2, <3>4
    <3>6. Total(field, T \ {y}) = field[a] + rest
      BY <3>3, <3>4
    <3>7. Total(field, T) = field[a] + (field[y] + rest)
      BY <2>2, <3>2
    <3> HIDE DEF rest
    <3> QED
      BY <3>5, <3>6, <3>7
  <2> QED
    BY <2>3, <2>4
<1>2. ASSUME NEW T \in SUBSET S, \A U \in SUBSET T : U # T => U \in Good PROVE T \in Good
  <2>1. Splits(T)
    <3> HIDE DEF Good
    <3> QED
      BY <1>1, <1>2
  <2> QED
    BY <2>1
<1>3. S \in Good
  <2> HIDE DEF Good
  <2> QED
    BY <1>2, BySmallerSets
<1> QED
  BY <1>3

\* Fields that agree on a set have the same total over it.
LEMMA TotalEqual ==
  ASSUME NEW S, IsFiniteSet(S), NEW f, NEW g, \A x \in S : f[x] = g[x]
  PROVE  Total(f, S) = Total(g, S)
<1> DEFINE Good == {T \in SUBSET S : Total(f, T) = Total(g, T)}
<1>1. {} \in Good
  BY TotalEmpty
<1>2. ASSUME NEW T \in SUBSET S, T # {} PROVE \E x \in T : T \ {x} \in Good => T \in Good
  <2>1. IsFiniteSet(T)
    BY FS_Subset
  <2>2. /\ OneOf(T) \in T /\ Total(f, T) = f[OneOf(T)] + Total(f, T \ {OneOf(T)})
        /\ Total(g, T) = g[OneOf(T)] + Total(g, T \ {OneOf(T)})
    BY <1>2, <2>1, TotalStep
  <2>3. T \ {OneOf(T)} \in Good => T \in Good
    BY <2>2
  <2> HIDE DEF Good
  <2> QED
    BY <2>2, <2>3
<1>3. S \in Good
  <2> HIDE DEF Good
  <2> QED
    BY <1>1, <1>2, FiniteSetsGrow
<1> QED
  BY <1>3

\* Zeros add up to zero.
LEMMA TotalZero ==
  ASSUME NEW S, IsFiniteSet(S), NEW f, \A x \in S : f[x] = 0
  PROVE  Total(f, S) = 0
<1> DEFINE Good == {T \in SUBSET S : Total(f, T) = 0}
<1>1. {} \in Good
  BY TotalEmpty
<1>2. ASSUME NEW T \in SUBSET S, T # {} PROVE \E x \in T : T \ {x} \in Good => T \in Good
  <2>1. IsFiniteSet(T)
    BY FS_Subset
  <2>2. OneOf(T) \in T /\ Total(f, T) = f[OneOf(T)] + Total(f, T \ {OneOf(T)})
    BY <1>2, <2>1, TotalStep
  <2>3. T \ {OneOf(T)} \in Good => T \in Good
    BY <2>2
  <2> HIDE DEF Good
  <2> QED
    BY <2>2, <2>3
<1>3. S \in Good
  <2> HIDE DEF Good
  <2> QED
    BY <1>1, <1>2, FiniteSetsGrow
<1> QED
  BY <1>3

\* Naturals add up to a natural.
LEMMA TotalNat ==
  ASSUME NEW field, NEW S, IsFiniteSet(S), \A x \in S : field[x] \in Nat
  PROVE  Total(field, S) \in Nat
<1> DEFINE Good == {T \in SUBSET S : Total(field, T) \in Nat}
<1>1. {} \in Good
  BY TotalEmpty
<1>2. ASSUME NEW T \in SUBSET S, T # {} PROVE \E x \in T : T \ {x} \in Good => T \in Good
  <2>1. IsFiniteSet(T)
    BY FS_Subset
  <2>2. PICK x \in T : Total(field, T) = field[x] + Total(field, T \ {x})
    BY <1>2, <2>1, TotalStep
  <2> DEFINE rest == Total(field, T \ {x})
  <2>3. field[x] \in Nat
    OBVIOUS
  <2>4. rest \in Nat => Total(field, T) \in Nat
    <3> HIDE DEF rest
    <3> QED
      BY <2>2, <2>3 DEF rest
  <2> QED
    BY <2>4
<1>3. S \in Good
  <2> HIDE DEF Good
  <2> QED
    BY <1>1, <1>2, FiniteSetsGrow
<1> QED
  BY <1>3

\* A total over a set is that over a part of it and that over the rest.
LEMMA TotalOfParts ==
  ASSUME NEW field, NEW S, IsFiniteSet(S), \A x \in S : field[x] \in Int, NEW T \in SUBSET S
  PROVE  Total(field, S) = Total(field, T) + Total(field, S \ T)
<1> DEFINE Good == {U \in SUBSET T : Total(field, S) = Total(field, U) + Total(field, S \ U)}
<1>0. \A U \in SUBSET S : IsFiniteSet(U) /\ Total(field, U) \in Int
  BY FS_Subset, TotalInt
<1>1. {} \in Good
  <2>1. S \ {} = S /\ Total(field, S) \in Int
    BY <1>0
  <2> QED
    BY <2>1, TotalEmpty
<1>2. ASSUME NEW U \in SUBSET T, U # {} PROVE \E x \in U : U \ {x} \in Good => U \in Good
  <2>1. PICK x \in U : TRUE
    BY <1>2
  <2> DEFINE rest == Total(field, U \ {x})
             out == Total(field, S \ U)
  <2>2. Total(field, U) = field[x] + rest
    BY <1>0, TotalRemove
  <2>3. Total(field, S \ (U \ {x})) = field[x] + out
    <3>1. (S \ (U \ {x})) \ {x} = S \ U /\ x \in S \ (U \ {x})
      OBVIOUS
    <3> QED
      BY <1>0, <3>1, TotalRemove
  <2>4. rest \in Int /\ out \in Int /\ field[x] \in Int
    BY <1>0
  <2>5. rest + (field[x] + out) = (field[x] + rest) + out
    <3> HIDE DEF rest, out
    <3> QED
      BY <2>4
  <2>6. U \ {x} \in Good => U \in Good
    BY <2>2, <2>3, <2>5
  <2> QED
    BY <2>6
<1>3. T \in Good
  <2> HIDE DEF Good
  <2> QED
    BY <1>0, <1>1, <1>2, FiniteSetsGrow
<1> QED
  BY <1>3

\* What is zero does not count.
LEMMA TotalOfRest ==
  ASSUME NEW field, NEW S, IsFiniteSet(S), \A x \in S : field[x] \in Int,
         NEW T \in SUBSET S, \A x \in S \ T : field[x] = 0
  PROVE  Total(field, S) = Total(field, T)
<1>1. Total(field, S) = Total(field, T) + Total(field, S \ T)
  BY TotalOfParts
<1>2. IsFiniteSet(S \ T) /\ IsFiniteSet(T)
  BY FS_Subset
<1>3. Total(field, S \ T) = 0
  BY <1>2, TotalZero
<1>4. Total(field, T) \in Int
  BY <1>2, TotalInt
<1> QED
  BY <1>1, <1>3, <1>4

\* A common factor comes out of a total.
LEMMA TotalTimes ==
  ASSUME NEW S, IsFiniteSet(S), NEW f, \A x \in S : f[x] \in Int,
         NEW k \in Int, NEW g, \A x \in S : g[x] = k * f[x]
  PROVE  Total(g, S) = k * Total(f, S)
<1> DEFINE Good == {T \in SUBSET S : Total(g, T) = k * Total(f, T)}
<1>0. \A T \in SUBSET S : IsFiniteSet(T) /\ Total(f, T) \in Int
  BY FS_Subset, TotalInt
<1>1. {} \in Good
  BY TotalEmpty
<1>2. ASSUME NEW T \in SUBSET S, T # {} PROVE \E x \in T : T \ {x} \in Good => T \in Good
  <2>1. \A x \in T : f[x] \in Int /\ g[x] \in Int
    OBVIOUS
  <2>2. PICK x \in T : TRUE
    BY <1>2
  <2> DEFINE rest == Total(f, T \ {x})
  <2>3. Total(f, T) = f[x] + rest /\ Total(g, T) = k * f[x] + Total(g, T \ {x})
    BY <1>0, <2>1, TotalRemove
  <2>4. rest \in Int /\ f[x] \in Int
    BY <1>0, <2>1
  <2>5. k * (f[x] + rest) = k * f[x] + k * rest
    <3> HIDE DEF rest
    <3> QED
      BY <2>4
  <2>6. T \ {x} \in Good => T \in Good
    BY <2>3, <2>5
  <2> QED
    BY <2>6
<1>3. S \in Good
  <2> HIDE DEF Good
  <2> QED
    BY <1>1, <1>2, FiniteSetsGrow
<1> QED
  BY <1>3

\* A field of multiples of k has a multiple of k for its total.
LEMMA TotalMultiple ==
  ASSUME NEW S, IsFiniteSet(S), NEW f, NEW k \in Nat,
         \A x \in S : \E n \in Nat : f[x] = k * n
  PROVE  \E n \in Nat : Total(f, S) = k * n
<1> DEFINE h == [x \in S |-> CHOOSE n \in Nat : f[x] = k * n]
<1>1. \A x \in S : h[x] \in Nat /\ f[x] = k * h[x]
  OBVIOUS
<1> HIDE DEF h
<1>2. Total(h, S) \in Nat
  BY <1>1, TotalNat
<1>3. Total(f, S) = k * Total(h, S)
  BY <1>1, TotalTimes
<1> QED
  BY <1>2, <1>3

\* What is gathered box by box is all there is: every point is in one box.
LEMMA TotalByBoxes ==
  ASSUME NEW S, IsFiniteSet(S), NEW f, \A x \in S : f[x] \in Int,
         NEW C, IsFiniteSet(C), NEW home, \A x \in S : home[x] \in C,
         NEW box, \A c \in C : box[c] \subseteq S /\ \A x \in S : x \in box[c] <=> home[x] = c,
         NEW g, \A c \in C : g[c] = Total(f, box[c])
  PROVE  Total(g, C) = Total(f, S)
<1> DEFINE In(D) == {x \in S : home[x] \in D}
           Good == {D \in SUBSET C : Total(g, D) = Total(f, In(D))}
<1>0. /\ \A T \in SUBSET S : IsFiniteSet(T) /\ Total(f, T) \in Int
      /\ \A D \in SUBSET C : IsFiniteSet(D)
  BY FS_Subset, TotalInt
<1>1. {} \in Good
  <2>1. In({}) = {}
    OBVIOUS
  <2> QED
    BY <2>1, TotalEmpty
<1>2. ASSUME NEW D \in SUBSET C, D # {} PROVE \E c \in D : D \ {c} \in Good => D \in Good
  <2>1. PICK c \in D : TRUE
    BY <1>2
  <2>2. \A d \in D : g[d] \in Int
    <3> TAKE d \in D
    <3>1. box[d] \in SUBSET S
      OBVIOUS
    <3> QED
      BY <1>0, <3>1
  <2>3. Total(g, D) = Total(f, box[c]) + Total(g, D \ {c})
    <3>1. IsFiniteSet(D) /\ g[c] = Total(f, box[c])
      BY <1>0
    <3>2. Total(g, D) = g[c] + Total(g, D \ {c})
      BY <2>2, <3>1, TotalRemove
    <3> QED
      BY <3>1, <3>2
  <2>4. box[c] \in SUBSET In(D) /\ In(D) \ box[c] = In(D \ {c}) /\ In(D) \in SUBSET S
    OBVIOUS
  <2>5. Total(f, In(D)) = Total(f, box[c]) + Total(f, In(D \ {c}))
    <3> HIDE DEF In
    <3>1. \A x \in In(D) : f[x] \in Int
      BY <2>4
    <3> DEFINE all == In(D)
    <3>2. IsFiniteSet(all) /\ (\A x \in all : f[x] \in Int) /\ box[c] \in SUBSET all
      BY <1>0, <2>4, <3>1
    <3> HIDE DEF all
    <3>3. Total(f, all) = Total(f, box[c]) + Total(f, all \ box[c])
      BY <3>2, TotalOfParts
    <3> QED
      BY <2>4, <3>3 DEF all
  <2>6. D \ {c} \in Good => D \in Good
    <3> HIDE DEF In
    <3> QED
      BY <2>3, <2>5
  <2> QED
    BY <2>6
<1>3. C \in Good
  <2> HIDE DEF Good
  <2> QED
    BY <1>1, <1>2, FiniteSetsGrow
<1>4. In(C) = S
  OBVIOUS
<1> QED
  BY <1>3, <1>4

\* A sum over one set is a sum over another with as many elements, pair by pair.
LEMMA TotalOfPairs ==
  ASSUME NEW S, IsFiniteSet(S), NEW f, \A x \in S : f[x] \in Int,
         NEW C, IsFiniteSet(C), NEW pair, \A c \in C : pair[c] \in S,
         NEW home, \A x \in S : home[x] \in C /\ pair[home[x]] = x,
         \A c \in C : home[pair[c]] = c,
         NEW g, \A c \in C : g[c] = f[pair[c]]
  PROVE  Total(g, C) = Total(f, S)
<1> DEFINE box == [c \in C |-> {pair[c]}]
<1>1. \A c \in C : box[c] \subseteq S /\ \A x \in S : x \in box[c] <=> home[x] = c
  OBVIOUS
<1>2. ASSUME NEW c \in C PROVE g[c] = Total(f, box[c])
  <2>1. IsFiniteSet({pair[c]}) /\ {pair[c]} \ {pair[c]} = {}
    BY FS_Singleton
  <2>2. Total(f, {pair[c]}) = f[pair[c]] + Total(f, {pair[c]} \ {pair[c]})
    BY <2>1, TotalRemove
  <2>3. Total(f, {pair[c]} \ {pair[c]}) = 0
    BY <2>1, TotalEmpty
  <2> QED
    BY <2>2, <2>3
<1> HIDE DEF box
<1> QED
  BY <1>1, <1>2, TotalByBoxes

-------------------------------------------------------------------------------
(* Ranks *)

\* In a finite set that is put in order, under[k] being what comes before k, as much comes
\* before no two of its members, and every count is met.
LEMMA RankedBy ==
  ASSUME NEW S, IsFiniteSet(S), NEW under, \A k \in S : under[k] \in SUBSET S /\ k \notin under[k],
         \A k, m \in S : k # m => k \in under[m] \/ m \in under[k],
         \A k, m \in S : k \in under[m] => under[k] \subseteq under[m]
  PROVE  /\ Cardinality(S) \in Nat
         /\ \A i \in 1..Cardinality(S) : \E k \in S : Cardinality(under[k]) = i - 1
         /\ \A k \in S : Cardinality(under[k]) + 1 \in 1..Cardinality(S)
         /\ \A k, m \in S : Cardinality(under[k]) = Cardinality(under[m]) => k = m
         /\ \A k, m \in S : k \in under[m] <=> Cardinality(under[k]) < Cardinality(under[m])
<1> DEFINE n == Cardinality(S)
           rank == [k \in S |-> Cardinality(under[k]) + 1]
<1>1. n \in Nat
  BY FS_CardinalityType
<1>2. ASSUME NEW k \in S PROVE IsFiniteSet(under[k]) /\ Cardinality(under[k]) \in Nat
  BY FS_Subset, FS_CardinalityType
<1>3. ASSUME NEW k \in S PROVE rank[k] \in 1..n
  <2>1. IsFiniteSet(S \ {k}) /\ Cardinality(S \ {k}) = n - 1
    BY FS_RemoveElement
  <2>2. under[k] \in SUBSET (S \ {k})
    OBVIOUS
  <2>3. Cardinality(under[k]) <= n - 1
    BY <2>1, <2>2, FS_Subset
  <2> QED
    BY <1>1, <1>2, <2>3
<1>4. ASSUME NEW k \in S, NEW m \in S, k \in under[m] PROVE rank[k] < rank[m]
  <2>1. IsFiniteSet(under[m] \ {k}) /\ Cardinality(under[m] \ {k}) = Cardinality(under[m]) - 1
    BY <1>2, <1>4, FS_RemoveElement
  <2>2. under[k] \in SUBSET (under[m] \ {k})
    BY <1>4
  <2>3. Cardinality(under[k]) <= Cardinality(under[m]) - 1
    BY <2>1, <2>2, FS_Subset
  <2> QED
    BY <1>2, <2>3
<1>5. ASSUME NEW a \in S, NEW b \in S, rank[a] = rank[b] PROVE a = b
  <2>1. rank[a] \in Int /\ rank[b] \in Int
    BY <1>1, <1>3
  <2>2. ~(a \in under[b]) /\ ~(b \in under[a])
    <3> HIDE DEF rank
    <3> QED
      BY <1>4, <1>5, <2>1
  <2> QED
    BY <2>2
<1>6. rank \in Injection(S, 1..n)
  <2>1. rank \in [S -> 1..n]
    BY <1>3
  <2> HIDE DEF rank, n
  <2> QED
    BY <1>5, <2>1 DEF Injection, IsInjective
<1>7. IsFiniteSet(1..n) /\ Cardinality(1..n) = n
  BY <1>1, FS_Interval
<1>8. rank \in Surjection(S, 1..n)
  <2> HIDE DEF rank, n
  <2> QED
    BY <1>6, <1>7, FS_Injection DEF n
<1>9. \A i \in 1..n : \E k \in S : rank[k] = i
  BY <1>8 DEF Surjection
<1>10. \A k \in S : rank[k] = Cardinality(under[k]) + 1
  OBVIOUS
<1> HIDE DEF rank
<1>11. \A k, m \in S : Cardinality(under[k]) = Cardinality(under[m]) => k = m
  BY <1>5, <1>10
<1>12. \A i \in 1..n : \E k \in S : Cardinality(under[k]) = i - 1
  BY <1>1, <1>2, <1>9, <1>10
<1>13. \A k \in S : Cardinality(under[k]) + 1 \in 1..n
  BY <1>3, <1>10
<1>14. ASSUME NEW k \in S, NEW m \in S
       PROVE  k \in under[m] <=> Cardinality(under[k]) < Cardinality(under[m])
  <2>1. CASE k \in under[m]
    BY <1>2, <1>4, <1>10, <2>1
  <2>2. CASE k = m
    BY <1>2, <2>2
  <2>3. CASE m \in under[k]
    <3>1. k \notin under[m]
      BY <2>3
    <3> QED
      BY <1>2, <1>4, <1>10, <2>3, <3>1
  <2> QED
    BY <2>1, <2>2, <2>3
<1> QED
  BY <1>1, <1>11, <1>12, <1>13, <1>14 DEF n

-------------------------------------------------------------------------------
(* A set of whole numbers in order *)

\* As many are smaller than no two of its numbers, and every count is met.
LEMMA RankIs ==
  ASSUME NEW S \in SUBSET Int, IsFiniteSet(S)
  PROVE  /\ Cardinality(S) \in Nat
         /\ \A i \in 1..Cardinality(S) : \E k \in S : Cardinality({j \in S : j < k}) = i - 1
         /\ \A k \in S : Cardinality({j \in S : j < k}) + 1 \in 1..Cardinality(S)
         /\ \A k, m \in S :
              Cardinality({j \in S : j < k}) = Cardinality({j \in S : j < m}) => k = m
         /\ \A k, m \in S :
              Cardinality({j \in S : j < k}) < Cardinality({j \in S : j < m}) => k < m
<1> DEFINE under == [k \in S |-> {j \in S : j < k}]
<1>1. \A k \in S : under[k] \in SUBSET S /\ k \notin under[k]
  OBVIOUS
<1>2. \A k, m \in S : k # m => k \in under[m] \/ m \in under[k]
  <2> TAKE k, m \in S
  <2>1. k \in Int /\ m \in Int
    OBVIOUS
  <2> QED
    BY <2>1
<1>3. ASSUME NEW k \in S, NEW m \in S, k \in under[m] PROVE under[k] \subseteq under[m]
  <2>1. k \in Int /\ m \in Int /\ k < m
    BY <1>3
  <2>2. ASSUME NEW a \in S, a < k PROVE a < m
    <3>1. a \in Int
      OBVIOUS
    <3> QED
      BY <2>1, <2>2, <3>1
  <2> QED
    BY <2>2
<1>4. \A k \in S : under[k] = {j \in S : j < k}
  OBVIOUS
<1> HIDE DEF under
<1>5. /\ Cardinality(S) \in Nat
      /\ \A i \in 1..Cardinality(S) : \E k \in S : Cardinality(under[k]) = i - 1
      /\ \A k \in S : Cardinality(under[k]) + 1 \in 1..Cardinality(S)
      /\ \A k, m \in S : Cardinality(under[k]) = Cardinality(under[m]) => k = m
      /\ \A k, m \in S : k \in under[m] <=> Cardinality(under[k]) < Cardinality(under[m])
  BY <1>1, <1>2, <1>3, RankedBy
<1>6. \A k, m \in S : Cardinality(under[k]) < Cardinality(under[m]) => k < m
  BY <1>4, <1>5
<1> DEFINE Fewer(k) == Cardinality({j \in S : j < k})
<1>7. \A k \in S : Cardinality(under[k]) = Fewer(k)
  BY <1>4
<1> HIDE DEF Fewer
<1>8. /\ Cardinality(S) \in Nat
      /\ \A i \in 1..Cardinality(S) : \E k \in S : Fewer(k) = i - 1
      /\ \A k \in S : Fewer(k) + 1 \in 1..Cardinality(S)
      /\ \A k, m \in S : Fewer(k) = Fewer(m) => k = m
      /\ \A k, m \in S : Fewer(k) < Fewer(m) => k < m
  BY <1>5, <1>6, <1>7
<1> QED
  BY <1>8 DEF Fewer

\* In order, each of its numbers is there, and they ascend.
LEMMA InOrderIs ==
  ASSUME NEW S \in SUBSET Int, IsFiniteSet(S)
  PROVE  /\ Cardinality(S) \in Nat
         /\ DOMAIN InOrder(S) = 1..Cardinality(S)
         /\ \A i \in DOMAIN InOrder(S) : InOrder(S)[i] \in S
         /\ \A k \in S : \E i \in DOMAIN InOrder(S) : InOrder(S)[i] = k
         /\ \A i, j \in DOMAIN InOrder(S) : i < j => InOrder(S)[i] < InOrder(S)[j]
<1> DEFINE n == Cardinality(S)
           Fewer(k) == Cardinality({j \in S : j < k})
<1>1. n \in Nat /\ \A i \in 1..n : \E k \in S : Fewer(k) = i - 1
  BY RankIs
<1>2. \A k \in S : Fewer(k) + 1 \in 1..n
  BY RankIs
<1>3. \A k, m \in S : Fewer(k) = Fewer(m) => k = m
  BY RankIs
<1>8. \A k, m \in S : Fewer(k) < Fewer(m) => k < m
  BY RankIs
<1>4. \A k \in S : Fewer(k) \in Int
  <2> TAKE k \in S
  <2>1. {j \in S : j < k} \in SUBSET S
    OBVIOUS
  <2> QED
    BY <2>1, FS_Subset, FS_CardinalityType
<1>5. InOrder(S) = [i \in 1..n |-> CHOOSE k \in S : Fewer(k) = i - 1]
  BY DEF InOrder
<1> HIDE DEF n, Fewer
<1>6. \A i \in 1..n : InOrder(S)[i] \in S /\ Fewer(InOrder(S)[i]) = i - 1
  BY <1>1, <1>5
<1>7. ASSUME NEW k \in S PROVE \E i \in 1..n : InOrder(S)[i] = k
  <2>1. Fewer(k) = (Fewer(k) + 1) - 1
    BY <1>4
  <2>2. \A m \in S : Fewer(m) = (Fewer(k) + 1) - 1 => m = k
    BY <1>3, <2>1
  <2>3. InOrder(S)[Fewer(k) + 1] = k
    BY <1>2, <1>5, <2>1, <2>2
  <2> QED
    BY <1>2, <2>3
<1>9. ASSUME NEW i \in 1..n, NEW j \in 1..n, i < j PROVE InOrder(S)[i] < InOrder(S)[j]
  <2>1. i - 1 < j - 1
    BY <1>9
  <2> QED
    BY <1>6, <1>8, <2>1
<1> QED
  BY <1>1, <1>5, <1>6, <1>7, <1>9 DEF n

\* All the first n numbers in order are themselves.
LEMMA InOrderOfAll ==
  ASSUME NEW n \in Nat, NEW i \in 1..n
  PROVE  InOrder(1..n)[i] = i
<1> DEFINE S == 1..n
           Fewer(k) == Cardinality({j \in S : j < k})
<1>1. IsFiniteSet(S) /\ Cardinality(S) = n
  BY FS_Interval
<1>2. \A k, m \in S : Fewer(k) = Fewer(m) => k = m
  <2>1. S \in SUBSET Int
    OBVIOUS
  <2> HIDE DEF S
  <2> QED
    BY <1>1, <2>1, RankIs
<1>3. {j \in S : j < i} = 1..(i - 1)
  OBVIOUS
<1>4. Fewer(i) = i - 1
  <2>1. Cardinality(1..(i - 1)) = IF 1 > i - 1 THEN 0 ELSE (i - 1) - 1 + 1
    BY FS_Interval
  <2>2. (IF 1 > i - 1 THEN 0 ELSE (i - 1) - 1 + 1) = i - 1
    OBVIOUS
  <2>3. Fewer(i) = Cardinality(1..(i - 1))
    BY <1>3, Zenon
  <2> QED
    BY <2>1, <2>2, <2>3, Zenon
<1>5. InOrder(S)[i] = CHOOSE k \in S : Fewer(k) = i - 1
  BY <1>1 DEF InOrder
<1> HIDE DEF S, Fewer
<1>6. i \in S
  BY DEF S
<1>7. InOrder(S)[i] = i
  BY <1>2, <1>4, <1>5, <1>6
<1> QED
  BY <1>7 DEF S

\* What is selected from a list is what is at one of the places, and from all places it is
\* the list; there is no more than there are places.
LEMMA SelectedIs ==
  ASSUME NEW n \in Nat, NEW s, DOMAIN s = 1..n, NEW places \in SUBSET (1..n)
  PROVE  /\ Cardinality(places) \in 0..n
         /\ DOMAIN Selected(s, places) = 1..Cardinality(places)
         /\ \A k \in DOMAIN Selected(s, places) : \E i \in places : Selected(s, places)[k] = s[i]
         /\ \A i \in places : \E k \in DOMAIN Selected(s, places) : Selected(s, places)[k] = s[i]
         /\ Cardinality(places) = n => places = 1..n
<1> DEFINE at == InOrder(places)
<1>1. IsFiniteSet(1..n) /\ Cardinality(1..n) = n
  BY FS_Interval
<1>2. IsFiniteSet(places) /\ Cardinality(places) <= n /\ (Cardinality(places) = n => places = 1..n)
  <2> DEFINE all == 1..n
  <2>1. IsFiniteSet(all) /\ Cardinality(all) = n /\ places \in SUBSET all
    BY <1>1
  <2> HIDE DEF all
  <2>2. /\ IsFiniteSet(places) /\ Cardinality(places) <= Cardinality(all)
        /\ Cardinality(places) = Cardinality(all) => places = all
    BY <2>1, FS_Subset
  <2> QED
    BY <2>1, <2>2 DEF all
<1>3. places \in SUBSET Int
  OBVIOUS
<1>4. /\ Cardinality(places) \in Nat
      /\ DOMAIN at = 1..Cardinality(places)
      /\ \A i \in DOMAIN at : at[i] \in places
      /\ \A k \in places : \E i \in DOMAIN at : at[i] = k
  BY <1>2, <1>3, InOrderIs
<1>5. Selected(s, places) = [k \in 1..Cardinality(places) |-> s[at[k]]]
  BY DEF Selected
<1> HIDE DEF at
<1>6. /\ DOMAIN Selected(s, places) = 1..Cardinality(places)
      /\ \A k \in 1..Cardinality(places) : Selected(s, places)[k] = s[at[k]]
  BY <1>5
<1>7. Cardinality(places) \in 0..n
  BY <1>2, <1>4
<1>8. \A k \in DOMAIN Selected(s, places) : \E i \in places : Selected(s, places)[k] = s[i]
  BY <1>4, <1>6
<1>9. \A i \in places : \E k \in DOMAIN Selected(s, places) : Selected(s, places)[k] = s[i]
  BY <1>4, <1>6
<1> QED
  BY <1>2, <1>6, <1>7, <1>8, <1>9

\* All of a sequence is that sequence.
LEMMA SelectedAll ==
  ASSUME NEW n \in Nat, NEW s, s = [i \in 1..n |-> s[i]]
  PROVE  Selected(s, 1..n) = s
<1>1. Cardinality(1..n) = n
  BY FS_Interval
<1>2. \A k \in 1..n : InOrder(1..n)[k] = k
  BY InOrderOfAll
<1> QED
  BY <1>1, <1>2 DEF Selected

\* The smallest of some whole numbers is one of them; the largest is no smaller.
LEMMA MinIs ==
  ASSUME NEW S \in SUBSET Int, IsFiniteSet(S), S # {}
  PROVE  Min(S) \in S
<1>1. Cardinality(S) \in Nat /\ 1 \in 1..Cardinality(S)
  BY FS_CardinalityType, FS_EmptySet
<1>2. PICK k \in S : Cardinality({j \in S : j < k}) = 1 - 1
  BY <1>1, RankIs
<1>3. {j \in S : j < k} \in SUBSET S
  OBVIOUS
<1>4. {j \in S : j < k} = {}
  BY <1>2, <1>3, FS_Subset, FS_EmptySet
<1>5. \A j \in S : k <= j
  <2> TAKE j \in S
  <2>1. j \in Int /\ k \in Int /\ ~ (j < k)
    BY <1>4
  <2> QED
    BY <2>1
<1> QED
  BY <1>5 DEF Min

\* Max is the greatest.
LEMMA MaxIs ==
  ASSUME NEW S \in SUBSET Int, NEW m \in S, \A k \in S : k <= m
  PROVE  Max(S) = m
<1>1. Max(S) \in S /\ \A k \in S : Max(S) >= k
  BY DEF Max
<1>2. Max(S) \in Int /\ m \in Int /\ Max(S) >= m /\ Max(S) <= m
  BY <1>1
<1> QED
  BY <1>2

-------------------------------------------------------------------------------
(* Ratios *)

\* A set of naturals has a least one.
LEMMA LeastOne ==
  ASSUME NEW S \in SUBSET Nat, S # {}
  PROVE  \E n \in S : \A m \in S : n <= m
<1>1. PICK n \in S : \A m \in S : <<m, n>> \notin OpToRel(<, Nat)
  BY NatLessThanWellFounded, WFMin
<1>2. \A m \in S : ~(m < n)
  BY <1>1 DEF OpToRel
<1> QED
  BY <1>2

\* What is true of zero, and of the next number whenever of a number, is of all numbers.
LEMMA OneByOne ==
  ASSUME NEW Good, 0 \in Good, NEW m \in Nat, \A n \in 0..(m - 1) : n \in Good => n + 1 \in Good
  PROVE  \A n \in 0..m : n \in Good
<1> SUFFICES ASSUME NEW k \in 0..m, k \notin Good PROVE FALSE
  OBVIOUS
<1> DEFINE Bad == {n \in 0..m : n \notin Good}
<1>1. PICK n \in Bad : \A l \in Bad : n <= l
  <2>1. Bad \in SUBSET Nat /\ Bad # {}
    OBVIOUS
  <2> HIDE DEF Bad
  <2> QED
    BY <2>1, LeastOne
<1>2. n # 0 /\ n - 1 \in 0..(m - 1) /\ n - 1 \notin Bad
  BY <1>1
<1>3. n - 1 \in Good /\ (n - 1) + 1 = n
  BY <1>2
<1> QED
  BY <1>1, <1>2, <1>3

\* Division without remainder.
LEMMA DividesIs ==
  ASSUME NEW a \in Int, NEW d \in Nat \ {0}
  PROVE  /\ a % d = 0 => (a \div d) \in Int /\ a = (a \div d) * d
         /\ \A k \in Int : a = k * d => a % d = 0 /\ a \div d = k
<1>1. a \div d \in Int /\ a % d \in 0..(d - 1) /\ a = d * (a \div d) + (a % d)
  OBVIOUS
<1>2. ASSUME NEW k \in Int, a = k * d PROVE a % d = 0 /\ a \div d = k
  <2> DEFINE q == a \div d
             r == a % d
  <2>1. q \in Int /\ r \in 0..(d - 1) /\ (k - q) * d = r
    BY <1>1, <1>2
  <2> HIDE DEF q, r
  <2>2. k - q = 0
    <3>1. k - q >= 1 => (k - q) * d >= d
      BY <2>1
    <3>2. k - q <= -1 => (k - q) * d <= -d
      BY <2>1
    <3> QED
      BY <2>1, <3>1, <3>2
  <2>3. q = k /\ r = 0
    BY <2>1, <2>2
  <2> QED
    BY <2>3 DEF q, r
<1>3. a % d = 0 => (a \div d) \in Int /\ a = (a \div d) * d
  BY <1>1
<1> QED
  BY <1>2, <1>3

\* Denominators that n / d can have.
LEMMA DenominatorIs ==
  ASSUME NEW n \in Int, NEW d \in Nat \ {0}
  PROVE  LET b == Denominator(n, d)
         IN  /\ b \in 1..d /\ (n * b) % d = 0
             /\ \A c \in Nat \ {0} : (n * c) % d = 0 => b <= c
<1> DEFINE Can == {b \in Nat \ {0} : (n * b) % d = 0}
           Is(b) == b \in 1..d /\ (n * b) % d = 0 /\ \A c \in 1..(b - 1) : (n * c) % d # 0
<1>1. d \in Can
  <2> DEFINE product == n * d
  <2>1. product \in Int /\ product = n * d
    OBVIOUS
  <2>2. product % d = 0
    <3> HIDE DEF product
    <3> QED
      BY <2>1, DividesIs
  <2> QED
    BY <2>2
<1>2. PICK b \in Can : \A c \in Can : b <= c
  <2>1. Can \in SUBSET Nat /\ Can # {}
    BY <1>1
  <2> HIDE DEF Can
  <2> QED
    BY <2>1, LeastOne
<1>3. Is(b)
  <2>1. b \in 1..d
    BY <1>1, <1>2
  <2>2. ASSUME NEW c \in 1..(b - 1) PROVE (n * c) % d # 0
    <3>1. c \notin Can /\ c \in Nat \ {0}
      BY <1>2, <2>1
    <3> QED
      BY <3>1
  <2>3. (n * b) % d = 0
    BY <1>2
  <2> QED
    BY <2>1, <2>2, <2>3
<1>4. Denominator(n, d) = CHOOSE x : Is(x)
  BY DEF Denominator
<1>5. Is(Denominator(n, d))
  <2> HIDE DEF Is
  <2> QED
    BY <1>3, <1>4
<1> DEFINE e == Denominator(n, d)
<1> HIDE DEF e
<1>6. e \in 1..d /\ (n * e) % d = 0 /\ \A c \in 1..(e - 1) : (n * c) % d # 0
  BY <1>5 DEF e
<1>7. ASSUME NEW c \in Nat \ {0}, (n * c) % d = 0 PROVE e <= c
  BY <1>6, <1>7
<1> QED
  BY <1>6, <1>7 DEF e

\* A ratio is what it says, and in lowest terms.
LEMMA RatioIs ==
  ASSUME NEW n \in Int, NEW d \in Nat \ {0}
  PROVE  LET r == Ratio(n, d)
         IN  /\ r \in Int \X Int /\ r = <<r[1], r[2]>>
             /\ r[1] \in Int /\ r[2] \in Nat \ {0} /\ r[1] * d = n * r[2]
             /\ \A c \in Nat \ {0}, m \in Int : m * d = n * c => r[2] <= c
<1> DEFINE b == Denominator(n, d)
           nb == n * b
<1>1. b \in 1..d /\ nb % d = 0 /\ \A c \in Nat \ {0} : (n * c) % d = 0 => b <= c
  BY DenominatorIs
<1> HIDE DEF b
<1>2. nb \in Int /\ b \in Nat \ {0}
  BY <1>1
<1>3. nb \div d \in Int /\ nb = (nb \div d) * d
  <2> HIDE DEF nb
  <2> QED
    BY <1>1, <1>2, DividesIs
<1>4. Ratio(n, d) = <<nb \div d, b>>
  BY DEF Ratio, b
<1>5. ASSUME NEW c \in Nat \ {0}, NEW m \in Int, m * d = n * c PROVE b <= c
  <2> DEFINE nc == n * c
  <2>1. nc \in Int /\ nc = m * d
    BY <1>5
  <2>2. nc % d = 0
    <3> HIDE DEF nc
    <3> QED
      BY <2>1, DividesIs
  <2> QED
    BY <1>1, <2>2
<1> DEFINE k == nb \div d
<1>6. k \in Int /\ k * d = n * b
  BY <1>3
<1>7. Ratio(n, d) = <<k, b>>
  BY <1>4
<1> HIDE DEF k, nb
<1> DEFINE r == Ratio(n, d)
<1>8. r = <<k, b>>
  BY <1>7
<1> HIDE DEF r
<1>9. r[1] = k /\ r[2] = b /\ r \in Int \X Int /\ r = <<r[1], r[2]>>
  BY <1>2, <1>6, <1>8
<1> QED
  BY <1>2, <1>5, <1>6, <1>9 DEF r

\* A common factor that is not zero cancels.
LEMMA Cancel ==
  ASSUME NEW a \in Int, NEW b \in Int, NEW c \in Int, c # 0, a * c = b * c
  PROVE  a = b
<1> DEFINE e == a - b
<1>1. e \in Int /\ e * c = 0 /\ a = b + e
  OBVIOUS
<1> HIDE DEF e
<1>2. e = 0
  <2>1. e >= 1 /\ c >= 1 => e * c >= 1
    BY <1>1
  <2>2. e >= 1 /\ c <= -1 => e * c <= -1
    BY <1>1
  <2>3. e <= -1 /\ c >= 1 => e * c <= -1
    BY <1>1
  <2>4. e <= -1 /\ c <= -1 => e * c >= 1
    BY <1>1
  <2> QED
    BY <1>1, <2>1, <2>2, <2>3, <2>4
<1> QED
  BY <1>1, <1>2

\* Half of the next lemma.
LEMMA RatioLeast ==
  ASSUME NEW n \in Int, NEW d \in Nat \ {0}, NEW m \in Int, NEW e \in Nat \ {0}, n * e = m * d
  PROVE  /\ Ratio(n, d)[2] <= Ratio(m, e)[2]
         /\ Ratio(m, e)[1] * d = n * Ratio(m, e)[2]
<1> DEFINE x == Ratio(m, e)[1]
           y == Ratio(m, e)[2]
<1>1. x \in Int /\ y \in Nat \ {0} /\ x * e = m * y
  BY RatioIs
<1> HIDE DEF x, y
<1>2. (x * d) * e = (n * y) * e
  <2>1. (x * d) * e = (x * e) * d
    BY <1>1
  <2>2. (m * y) * d = (m * d) * y
    BY <1>1
  <2>3. (n * e) * y = (n * y) * e
    BY <1>1
  <2> QED
    BY <1>1, <2>1, <2>2, <2>3
<1>3. x * d = n * y
  <2>1. x * d \in Int /\ n * y \in Int
    BY <1>1
  <2> QED
    BY <1>2, <2>1, Cancel
<1>4. Ratio(n, d)[2] <= y
  BY <1>1, <1>3, RatioIs
<1> QED
  BY <1>3, <1>4 DEF x, y

\* Ratios are equal when they are equal as fractions, and only then.
LEMMA RatioSame ==
  ASSUME NEW n \in Int, NEW d \in Nat \ {0}, NEW m \in Int, NEW e \in Nat \ {0}
  PROVE  Ratio(n, d) = Ratio(m, e) <=> n * e = m * d
<1> DEFINE r == Ratio(n, d)
           s == Ratio(m, e)
<1>1. /\ r = <<r[1], r[2]>> /\ r[1] \in Int /\ r[2] \in Nat \ {0} /\ r[1] * d = n * r[2]
      /\ s = <<s[1], s[2]>> /\ s[1] \in Int /\ s[2] \in Nat \ {0} /\ s[1] * e = m * s[2]
  BY RatioIs
<1>2. ASSUME n * e = m * d PROVE r = s
  <2>1. r[2] <= s[2] /\ s[2] <= r[2] /\ s[1] * d = n * s[2]
    BY <1>2, RatioLeast
  <2> HIDE DEF r, s
  <2>2. r[2] = s[2]
    BY <1>1, <2>1
  <2>3. r[1] * d = s[1] * d
    BY <1>1, <2>1, <2>2
  <2>4. r[1] = s[1]
    BY <1>1, <2>3, Cancel
  <2> QED
    BY <1>1, <2>2, <2>4
<1>3. ASSUME r = s PROVE n * e = m * d
  <2> DEFINE x == r[1]
             y == r[2]
  <2>1. x \in Int /\ y \in Nat \ {0} /\ x * d = n * y /\ x * e = m * y
    BY <1>1, <1>3
  <2> HIDE DEF x, y
  <2>2. (n * y) * e = (m * y) * d
    <3>1. (x * d) * e = (x * e) * d
      BY <2>1
    <3> QED
      BY <2>1, <3>1
  <2>3. (n * e) * y = (m * d) * y
    <3>1. (n * y) * e = (n * e) * y /\ (m * y) * d = (m * d) * y
      BY <2>1
    <3> QED
      BY <2>2, <3>1
  <2>4. n * e \in Int /\ m * d \in Int
    OBVIOUS
  <2> QED
    BY <2>1, <2>3, <2>4, Cancel
<1> QED
  BY <1>2, <1>3

\* What is in lowest terms is the ratio of its two parts.
LEMMA RationalIs ==
  ASSUME NEW q \in Rationals
  PROVE  /\ q \in Pairs /\ q = <<q[1], q[2]>> /\ q[1] \in Int /\ q[2] \in Nat \ {0}
         /\ Ratio(q[1], q[2]) = q
BY DEF Rationals, Pairs

\* A ratio of integers is a rational.
LEMMA RatioInRationals ==
  ASSUME NEW n \in Int, NEW d \in Nat \ {0}
  PROVE  Ratio(n, d) \in Rationals
<1> DEFINE r == Ratio(n, d)
<1>1. r = <<r[1], r[2]>> /\ r[1] \in Int /\ r[2] \in Nat \ {0} /\ r[1] * d = n * r[2]
  BY RatioIs
<1>2. Ratio(r[1], r[2]) = r
  <2> DEFINE x == r[1]
             y == r[2]
  <2>1. x \in Int /\ y \in Nat \ {0} /\ x * d = n * y
    BY <1>1
  <2> HIDE DEF x, y
  <2>2. Ratio(x, y) = Ratio(n, d)
    BY <2>1, RatioSame
  <2> QED
    BY <2>2 DEF x, y
<1> HIDE DEF r
<1>3. r \in Rationals
  BY <1>1, <1>2 DEF Rationals
<1> QED
  BY <1>3 DEF r

\* Every rational is a ratio.
LEMMA IsRatio ==
  ASSUME NEW q \in Rationals
  PROVE  \E n \in Int, d \in Nat \ {0} : q = Ratio(n, d)
BY RationalIs

\* A whole number is a rational.
LEMMA QIs ==
  ASSUME NEW n \in Int
  PROVE  Q(n) = Ratio(n, 1) /\ Q(n) \in Rationals /\ Q(n)[1] = n /\ Q(n)[2] = 1
<1> DEFINE r == Ratio(n, 1)
<1>1. /\ r = <<r[1], r[2]>> /\ r[1] \in Int /\ r[2] \in Nat \ {0} /\ r[1] * 1 = n * r[2]
      /\ n * 1 = n * 1 => r[2] <= 1
  BY RatioIs
<1>2. r \in Rationals
  BY RatioInRationals
<1> HIDE DEF r
<1>3. r[2] = 1 /\ r[1] = n
  BY <1>1
<1> QED
  BY <1>1, <1>2, <1>3 DEF Q, r

\* Zero, over any denominator.
LEMMA ZeroIs ==
  /\ Zero \in Rationals /\ Zero[1] = 0 /\ Zero[2] = 1 /\ Q(0) = Zero
  /\ \A d \in Nat \ {0} : Ratio(0, d) = Zero
  /\ \A n \in Int, d \in Nat \ {0} : Ratio(n, d) = Zero <=> n = 0
<1>1. Zero = Ratio(0, 1) /\ Zero \in Rationals /\ Zero[1] = 0 /\ Zero[2] = 1
  BY QIs DEF Zero
<1>2. ASSUME NEW n \in Int, NEW d \in Nat \ {0} PROVE Ratio(n, d) = Zero <=> n = 0
  <2>1. Ratio(n, d) = Ratio(0, 1) <=> n * 1 = 0 * d
    BY RatioSame
  <2> QED
    BY <1>1, <2>1
<1> QED
  BY <1>1, <1>2 DEF Zero

\* Sums, differences, products and quotients of ratios, and their order.
LEMMA ProductNotZero ==
  ASSUME NEW d \in Nat \ {0}, NEW e \in Nat \ {0}
  PROVE  d * e \in Nat \ {0}
<1>1. d * e >= 1
  OBVIOUS
<1> QED
  BY <1>1

\* The operations on pairs.
LEMMA OperationsAre ==
  ASSUME NEW p \in Pairs, NEW q \in Pairs
  PROVE  /\ Plus(p, q) = Ratio(p[1] * q[2] + q[1] * p[2], p[2] * q[2])
         /\ Times(p, q) = Ratio(p[1] * q[1], p[2] * q[2])
         /\ Less(p, q) <=> p[1] * q[2] < q[1] * p[2]
<1>1. Added[p][q] = Ratio(p[1] * q[2] + q[1] * p[2], p[2] * q[2])
  BY DEF Added
<1>2. Multiplied[p][q] = Ratio(p[1] * q[1], p[2] * q[2])
  BY DEF Multiplied
<1>3. Smaller[p][q] = (p[1] * q[2] < q[1] * p[2])
  BY DEF Smaller
<1> QED
  BY <1>1, <1>2, <1>3 DEF Plus, Times, Less

\* The sum of two ratios, in lowest terms or not.
LEMMA PlusIs ==
  ASSUME NEW a \in Int, NEW d \in Nat \ {0}, NEW b \in Int, NEW e \in Nat \ {0}
  PROVE  Plus(Ratio(a, d), Ratio(b, e)) = Ratio(a * e + b * d, d * e)
<1> DEFINE p == Ratio(a, d)
           q == Ratio(b, e)
<1>1. /\ p \in Pairs /\ p[1] \in Int /\ p[2] \in Nat \ {0} /\ p[1] * d = a * p[2]
      /\ q \in Pairs /\ q[1] \in Int /\ q[2] \in Nat \ {0} /\ q[1] * e = b * q[2]
  BY RatioIs DEF Pairs
<1>2. Plus(p, q) = Ratio(p[1] * q[2] + q[1] * p[2], p[2] * q[2])
  BY <1>1, OperationsAre
<1> DEFINE u == p[1]
           v == p[2]
           x == q[1]
           y == q[2]
<1>3. u \in Int /\ v \in Nat \ {0} /\ u * d = a * v /\ x \in Int /\ y \in Nat \ {0} /\ x * e = b * y
  BY <1>1
<1>4. Plus(p, q) = Ratio(u * y + x * v, v * y)
  BY <1>2
<1> HIDE DEF u, v, x, y, p, q
<1>5. (u * y + x * v) * (d * e) = (a * e + b * d) * (v * y)
  <2>1. (u * y + x * v) * (d * e) = (u * d) * (y * e) + (x * e) * (v * d)
    BY <1>3
  <2>2. (a * v) * (y * e) + (b * y) * (v * d) = (a * e + b * d) * (v * y)
    BY <1>3
  <2> QED
    BY <1>3, <2>1, <2>2
<1>6. Ratio(u * y + x * v, v * y) = Ratio(a * e + b * d, d * e)
  <2>1. v * y \in Nat \ {0} /\ d * e \in Nat \ {0}
    BY <1>3, ProductNotZero
  <2>2. u * y + x * v \in Int /\ a * e + b * d \in Int
    BY <1>3
  <2> QED
    BY <1>5, <2>1, <2>2, RatioSame
<1> QED
  BY <1>4, <1>6 DEF p, q

\* The product of two ratios.
LEMMA TimesIs ==
  ASSUME NEW a \in Int, NEW d \in Nat \ {0}, NEW b \in Int, NEW e \in Nat \ {0}
  PROVE  Times(Ratio(a, d), Ratio(b, e)) = Ratio(a * b, d * e)
<1> DEFINE p == Ratio(a, d)
           q == Ratio(b, e)
<1>1. /\ p \in Pairs /\ p[1] \in Int /\ p[2] \in Nat \ {0} /\ p[1] * d = a * p[2]
      /\ q \in Pairs /\ q[1] \in Int /\ q[2] \in Nat \ {0} /\ q[1] * e = b * q[2]
  BY RatioIs DEF Pairs
<1>2. Times(p, q) = Ratio(p[1] * q[1], p[2] * q[2])
  BY <1>1, OperationsAre
<1> DEFINE u == p[1]
           v == p[2]
           x == q[1]
           y == q[2]
<1>3. u \in Int /\ v \in Nat \ {0} /\ u * d = a * v /\ x \in Int /\ y \in Nat \ {0} /\ x * e = b * y
  BY <1>1
<1>4. Times(p, q) = Ratio(u * x, v * y)
  BY <1>2
<1> HIDE DEF u, v, x, y, p, q
<1>5. (u * x) * (d * e) = (a * b) * (v * y)
  <2>1. (u * x) * (d * e) = (u * d) * (x * e)
    BY <1>3
  <2>2. (a * v) * (b * y) = (a * b) * (v * y)
    BY <1>3
  <2> QED
    BY <1>3, <2>1, <2>2
<1>6. Ratio(u * x, v * y) = Ratio(a * b, d * e)
  <2>1. v * y \in Nat \ {0} /\ d * e \in Nat \ {0}
    BY <1>3, ProductNotZero
  <2>2. u * x \in Int /\ a * b \in Int
    BY <1>3
  <2> QED
    BY <1>5, <2>1, <2>2, RatioSame
<1> QED
  BY <1>4, <1>6 DEF p, q

\* The order of two ratios.
LEMMA LessIs ==
  ASSUME NEW a \in Int, NEW d \in Nat \ {0}, NEW b \in Int, NEW e \in Nat \ {0}
  PROVE  Less(Ratio(a, d), Ratio(b, e)) <=> a * e < b * d
<1> DEFINE p == Ratio(a, d)
           q == Ratio(b, e)
<1>1. /\ p \in Pairs /\ p[1] \in Int /\ p[2] \in Nat \ {0} /\ p[1] * d = a * p[2]
      /\ q \in Pairs /\ q[1] \in Int /\ q[2] \in Nat \ {0} /\ q[1] * e = b * q[2]
  BY RatioIs DEF Pairs
<1>2. Less(p, q) <=> p[1] * q[2] < q[1] * p[2]
  BY <1>1, OperationsAre
<1> DEFINE u == p[1]
           v == p[2]
           x == q[1]
           y == q[2]
<1>3. u \in Int /\ v \in Nat \ {0} /\ u * d = a * v /\ x \in Int /\ y \in Nat \ {0} /\ x * e = b * y
  BY <1>1
<1>4. Less(p, q) <=> u * y < x * v
  BY <1>2
<1> HIDE DEF u, v, x, y, p, q
<1> DEFINE k == x * v - u * y
           l == b * d - a * e
<1>5. k * (d * e) = l * (v * y)
  <2>1. k * (d * e) = (x * e) * (v * d) - (u * d) * (y * e)
    BY <1>3
  <2>2. (b * y) * (v * d) - (a * v) * (y * e) = l * (v * y)
    BY <1>3
  <2> QED
    BY <1>3, <2>1, <2>2
<1>6. k \in Int /\ l \in Int /\ d * e \in Nat \ {0} /\ v * y \in Nat \ {0}
  <2>1. v * y \in Nat \ {0} /\ d * e \in Nat \ {0}
    BY <1>3, ProductNotZero
  <2> QED
    BY <1>3, <2>1
<1>7. k > 0 <=> l > 0
  <2> DEFINE f == d * e
             g == v * y
  <2>1. k \in Int /\ l \in Int /\ f \in Nat \ {0} /\ g \in Nat \ {0} /\ k * f = l * g
    BY <1>5, <1>6
  <2> HIDE DEF f, g, k, l
  <2>2. k >= 1 => k * f >= 1
    BY <2>1
  <2>3. k <= 0 => k * f <= 0
    BY <2>1
  <2>4. l >= 1 => l * g >= 1
    BY <2>1
  <2>5. l <= 0 => l * g <= 0
    BY <2>1
  <2> QED
    BY <2>1, <2>2, <2>3, <2>4, <2>5
<1>8. (u * y < x * v) <=> k > 0
  BY <1>3
<1>9. (a * e < b * d) <=> l > 0
  OBVIOUS
<1> QED
  BY <1>4, <1>7, <1>8, <1>9 DEF p, q

\* The opposite of a ratio.
LEMMA NegatedIs ==
  ASSUME NEW a \in Int, NEW d \in Nat \ {0}
  PROVE  Negated[Ratio(a, d)] = Ratio(-a, d)
<1> DEFINE p == Ratio(a, d)
           q == Ratio(-a, d)
<1>1. /\ p \in Pairs /\ p = <<p[1], p[2]>> /\ p[1] \in Int /\ p[2] \in Nat \ {0} /\ p[1] * d = a * p[2]
      /\ \A c \in Nat \ {0}, m \in Int : m * d = a * c => p[2] <= c
  BY RatioIs DEF Pairs
<1>2. /\ q = <<q[1], q[2]>> /\ q[1] \in Int /\ q[2] \in Nat \ {0} /\ q[1] * d = (-a) * q[2]
      /\ \A c \in Nat \ {0}, m \in Int : m * d = (-a) * c => q[2] <= c
  BY RatioIs
<1>3. Negated[p] = <<-p[1], p[2]>>
  BY <1>1 DEF Negated
<1> DEFINE u == p[1]
           v == p[2]
           x == q[1]
           y == q[2]
<1>4. /\ u \in Int /\ v \in Nat \ {0} /\ u * d = a * v
      /\ x \in Int /\ y \in Nat \ {0} /\ x * d = (-a) * y
  BY <1>1, <1>2
<1>5. (-u) * d = (-a) * v => y <= v
  BY <1>2, <1>4
<1>6. (-x) * d = a * y => v <= y
  BY <1>1, <1>4
<1> HIDE DEF u, v, x, y, p, q
<1>7. v = y
  <2>1. (-u) * d = (-a) * v /\ (-x) * d = a * y
    BY <1>4
  <2> QED
    BY <1>4, <1>5, <1>6, <2>1
<1>8. x = -u
  <2>1. x * d = (-u) * d
    BY <1>4, <1>7
  <2> QED
    BY <1>4, <2>1, Cancel
<1> QED
  BY <1>2, <1>3, <1>7, <1>8 DEF p, q, u, v, x, y

\* In one unit the ratios are as many whole numbers.
LEMMA InUnits ==
  ASSUME NEW d \in Nat \ {0}, NEW a \in Int, NEW b \in Int
  PROVE  /\ Plus(Ratio(a, d), Ratio(b, d)) = Ratio(a + b, d)
         /\ Minus(Ratio(a, d), Ratio(b, d)) = Ratio(a - b, d)
         /\ Ratio(a, d) = Ratio(b, d) <=> a = b
         /\ Less(Ratio(a, d), Ratio(b, d)) <=> a < b
         /\ AtMost(Ratio(a, d), Ratio(b, d)) <=> a <= b
<1>1. \A m \in Int : Plus(Ratio(a, d), Ratio(m, d)) = Ratio(a + m, d)
  <2> SUFFICES ASSUME NEW m \in Int PROVE Plus(Ratio(a, d), Ratio(m, d)) = Ratio(a + m, d)
    OBVIOUS
  <2>1. Plus(Ratio(a, d), Ratio(m, d)) = Ratio(a * d + m * d, d * d)
    BY PlusIs
  <2>2. (a * d + m * d) * d = (a + m) * (d * d)
    OBVIOUS
  <2>3. d * d \in Nat \ {0} /\ a * d + m * d \in Int /\ a + m \in Int
    BY ProductNotZero
  <2>4. Ratio(a * d + m * d, d * d) = Ratio(a + m, d)
    BY <2>2, <2>3, RatioSame
  <2> QED
    BY <2>1, <2>4
<1>2. Minus(Ratio(a, d), Ratio(b, d)) = Ratio(a - b, d)
  <2>1. Minus(Ratio(a, d), Ratio(b, d)) = Plus(Ratio(a, d), Ratio(-b, d))
    BY NegatedIs DEF Minus, Plus
  <2>2. -b \in Int /\ a + (-b) = a - b
    OBVIOUS
  <2> QED
    BY <1>1, <2>1, <2>2
<1>3. \A m, n \in Int : Less(Ratio(m, d), Ratio(n, d)) <=> m < n
  <2> SUFFICES ASSUME NEW m \in Int, NEW n \in Int PROVE Less(Ratio(m, d), Ratio(n, d)) <=> m < n
    OBVIOUS
  <2>1. Less(Ratio(m, d), Ratio(n, d)) <=> m * d < n * d
    BY LessIs
  <2> DEFINE k == n - m
  <2>2. k \in Int /\ n = m + k /\ n * d = m * d + k * d
    OBVIOUS
  <2> HIDE DEF k
  <2>3. k >= 1 => k * d >= 1
    BY <2>2
  <2>4. k <= 0 => k * d <= 0
    BY <2>2
  <2> QED
    BY <2>1, <2>2, <2>3, <2>4
<1>4. Ratio(a, d) = Ratio(b, d) <=> a = b
  <2>1. Ratio(a, d) = Ratio(b, d) <=> a * d = b * d
    BY RatioSame
  <2>2. a * d = b * d => a = b
    BY Cancel
  <2> QED
    BY <2>1, <2>2
<1>5. AtMost(Ratio(a, d), Ratio(b, d)) <=> a <= b
  BY <1>3 DEF AtMost
<1> QED
  BY <1>1, <1>2, <1>3, <1>4, <1>5

\* A ratio with numerator and denominator times the same.
LEMMA Scaled ==
  ASSUME NEW a \in Int, NEW d \in Nat \ {0}, NEW e \in Nat \ {0}
  PROVE  Ratio(a, d) = Ratio(a * e, d * e) /\ Ratio(a, d) = Ratio(a * e, e * d)
<1>1. a * (d * e) = (a * e) * d /\ d * e = e * d
  OBVIOUS
<1>2. d * e \in Nat \ {0} /\ a * e \in Int
  BY ProductNotZero
<1> QED
  BY <1>1, <1>2, RatioSame

\* A unit: what its multiples are, as rationals.
IsUnit(u) ==
  /\ u[0] = Zero
  /\ \A m, n \in Int :
       /\ u[m] \in Rationals
       /\ Plus(u[m], u[n]) = u[m + n]
       /\ Minus(u[m], u[n]) = u[m - n]
       /\ u[m] = u[n] <=> m = n
       /\ Less(u[m], u[n]) <=> m < n
       /\ AtMost(u[m], u[n]) <=> m <= n

\* Ratios of one denominator are added and compared as their numerators.
LEMMA UnitIs ==
  ASSUME NEW d \in Nat \ {0}
  PROVE  IsUnit([m \in Int |-> Ratio(m, d)])
<1> DEFINE u == [m \in Int |-> Ratio(m, d)]
<1>1. u[0] = Zero
  BY ZeroIs
<1>2. ASSUME NEW m \in Int, NEW n \in Int
      PROVE  /\ u[m] \in Rationals
             /\ Plus(u[m], u[n]) = u[m + n]
             /\ Minus(u[m], u[n]) = u[m - n]
             /\ u[m] = u[n] <=> m = n
             /\ Less(u[m], u[n]) <=> m < n
             /\ AtMost(u[m], u[n]) <=> m <= n
  <2>1. u[m] = Ratio(m, d) /\ u[n] = Ratio(n, d) /\ u[m + n] = Ratio(m + n, d)
        /\ u[m - n] = Ratio(m - n, d)
    OBVIOUS
  <2>2. u[m] \in Rationals
    BY RatioInRationals
  <2>3. /\ Plus(Ratio(m, d), Ratio(n, d)) = Ratio(m + n, d)
        /\ Minus(Ratio(m, d), Ratio(n, d)) = Ratio(m - n, d)
        /\ Ratio(m, d) = Ratio(n, d) <=> m = n
        /\ Less(Ratio(m, d), Ratio(n, d)) <=> m < n
        /\ AtMost(Ratio(m, d), Ratio(n, d)) <=> m <= n
    BY InUnits, Zenon
  <2> HIDE DEF u
  <2> QED
    BY <2>1, <2>2, <2>3
<1> HIDE DEF u
<1>3. IsUnit(u)
  BY <1>1, <1>2 DEF IsUnit
<1> QED
  BY <1>3 DEF u

\* Any four rationals have a unit.
LEMMA OneUnit ==
  ASSUME NEW p \in Rationals, NEW q \in Rationals, NEW r \in Rationals, NEW s \in Rationals
  PROVE  \E u : \E a, b, c, e \in Int :
           IsUnit(u) /\ p = u[a] /\ q = u[b] /\ r = u[c] /\ s = u[e]
<1>1. ASSUME NEW x \in Rationals, NEW y \in Rationals
      PROVE  \E d \in Nat \ {0}, a, b \in Int : x = Ratio(a, d) /\ y = Ratio(b, d)
  <2>1. PICK m \in Int, k \in Nat \ {0} : x = Ratio(m, k)
    BY IsRatio
  <2>2. PICK n \in Int, l \in Nat \ {0} : y = Ratio(n, l)
    BY IsRatio
  <2>3. x = Ratio(m * l, k * l) /\ y = Ratio(n * k, k * l)
    BY <2>1, <2>2, Scaled
  <2>4. k * l \in Nat \ {0} /\ m * l \in Int /\ n * k \in Int
    BY ProductNotZero
  <2> QED
    BY <2>3, <2>4
<1>2. PICK d \in Nat \ {0}, a, b \in Int : p = Ratio(a, d) /\ q = Ratio(b, d)
  BY <1>1
<1>3. PICK f \in Nat \ {0}, c, e \in Int : r = Ratio(c, f) /\ s = Ratio(e, f)
  BY <1>1
<1>4. /\ p = Ratio(a * f, d * f) /\ q = Ratio(b * f, d * f)
      /\ r = Ratio(c * d, d * f) /\ s = Ratio(e * d, d * f)
  BY <1>2, <1>3, Scaled, ZenonT(60)
<1>5. d * f \in Nat \ {0} /\ a * f \in Int /\ b * f \in Int /\ c * d \in Int /\ e * d \in Int
  BY ProductNotZero
<1> DEFINE g == d * f
           u == [m \in Int |-> Ratio(m, g)]
<1>6. IsUnit(u)
  BY <1>5, UnitIs
<1>7. p = u[a * f] /\ q = u[b * f] /\ r = u[c * d] /\ s = u[e * d]
  BY <1>4, <1>5
<1> HIDE DEF u
<1> QED
  BY <1>5, <1>6, <1>7

\* Rationals can be added and taken away.
LEMMA PlusLaws ==
  /\ \A p, q \in Rationals :
       /\ Plus(p, q) \in Rationals /\ Minus(p, q) \in Rationals
       /\ Plus(p, q) = Plus(q, p)
       /\ Plus(Minus(p, q), q) = p /\ Minus(Plus(p, q), q) = p /\ Plus(p, Minus(q, p)) = q
  /\ \A p \in Rationals :
       /\ Plus(p, Zero) = p /\ Plus(Zero, p) = p
       /\ Minus(p, Zero) = p /\ Minus(p, p) = Zero
  /\ \A p, q, r \in Rationals :
       /\ Plus(p, Plus(q, r)) = Plus(Plus(p, q), r)
       /\ Minus(p, Plus(q, r)) = Minus(Minus(p, q), r)
       /\ Minus(Plus(p, q), r) = Plus(p, Minus(q, r))
       /\ Plus(p, r) = Plus(q, r) => p = q
<1> SUFFICES ASSUME NEW p \in Rationals, NEW q \in Rationals, NEW r \in Rationals
    PROVE  /\ Plus(p, q) \in Rationals /\ Minus(p, q) \in Rationals
           /\ Plus(p, q) = Plus(q, p) /\ Plus(p, Zero) = p /\ Plus(Zero, p) = p
           /\ Minus(p, Zero) = p /\ Minus(p, p) = Zero
           /\ Plus(Minus(p, q), q) = p /\ Minus(Plus(p, q), q) = p
           /\ Plus(p, Minus(q, p)) = q
           /\ Plus(p, Plus(q, r)) = Plus(Plus(p, q), r)
           /\ Minus(p, Plus(q, r)) = Minus(Minus(p, q), r)
           /\ Minus(Plus(p, q), r) = Plus(p, Minus(q, r))
           /\ Plus(p, r) = Plus(q, r) => p = q
  BY ZeroIs
<1>1. PICK u : \E a, b, c, e \in Int :
        IsUnit(u) /\ p = u[a] /\ q = u[b] /\ r = u[c] /\ r = u[e]
  BY OneUnit
<1>2. PICK a \in Int, b \in Int, c \in Int : IsUnit(u) /\ p = u[a] /\ q = u[b] /\ r = u[c]
  BY <1>1
<1>3. /\ Plus(p, q) = u[a + b] /\ Minus(p, q) = u[a - b] /\ Plus(q, p) = u[b + a]
      /\ Minus(q, p) = u[b - a] /\ Plus(q, r) = u[b + c] /\ Minus(q, r) = u[b - c]
      /\ Plus(p, r) = u[a + c] /\ Minus(p, p) = u[a - a] /\ Zero = u[0]
  BY <1>2, ZenonT(60) DEF IsUnit
<1>0. /\ a + b \in Int /\ a - b \in Int /\ b + c \in Int /\ b - a \in Int /\ b - c \in Int
      /\ a + c \in Int /\ 0 \in Int
  OBVIOUS
<1>4. /\ Plus(u[a], u[0]) = u[a + 0] /\ Plus(u[0], u[a]) = u[0 + a] /\ Minus(u[a], u[0]) = u[a - 0]
      /\ u[a + b] \in Rationals /\ u[a - b] \in Rationals
      /\ u[a + c] = u[b + c] <=> a + c = b + c
  <2>1. \A m, n \in Int : /\ Plus(u[m], u[n]) = u[m + n] /\ Minus(u[m], u[n]) = u[m - n]
                          /\ u[m] \in Rationals
                          /\ u[m] = u[n] <=> m = n
    BY <1>2, ZenonT(60) DEF IsUnit
  <2>2. /\ Plus(u[a], u[0]) = u[a + 0] /\ Plus(u[0], u[a]) = u[0 + a] /\ Minus(u[a], u[0]) = u[a - 0]
    BY <1>0, <1>2, <2>1, ZenonT(60)
  <2>3. u[a + b] \in Rationals /\ u[a - b] \in Rationals
    BY <1>0, <2>1, Zenon
  <2>4. u[a + c] = u[b + c] <=> a + c = b + c
    BY <1>0, <2>1, Zenon
  <2> QED
    BY <2>2, <2>3, <2>4
<1>5. /\ Plus(Minus(p, q), q) = u[(a - b) + b] /\ Minus(Plus(p, q), q) = u[(a + b) - b]
      /\ Plus(p, Minus(q, p)) = u[a + (b - a)]
      /\ Plus(p, Plus(q, r)) = u[a + (b + c)] /\ Plus(Plus(p, q), r) = u[(a + b) + c]
      /\ Minus(p, Plus(q, r)) = u[a - (b + c)] /\ Minus(Minus(p, q), r) = u[(a - b) - c]
      /\ Minus(Plus(p, q), r) = u[(a + b) - c] /\ Plus(p, Minus(q, r)) = u[a + (b - c)]
  BY <1>0, <1>2, <1>3 DEF IsUnit
<1>6. /\ (a - b) + b = a /\ (a + b) - b = a /\ a + (b - a) = b /\ a + (b + c) = (a + b) + c
      /\ a - (b + c) = (a - b) - c /\ (a + b) - c = a + (b - c) /\ b + a = a + b
      /\ a + 0 = a /\ 0 + a = a /\ a - 0 = a /\ a - a = 0 /\ (a + c = b + c => a = b)
  OBVIOUS
<1> QED
  BY <1>2, <1>3, <1>4, <1>5, <1>6

\* They are in order, which adding respects.
LEMMA OrderLaws ==
  /\ \A p, q \in Rationals :
       /\ Less(p, q) <=> ~AtMost(q, p)
       /\ AtMost(p, q) <=> Less(p, q) \/ p = q
       /\ AtMost(p, q) /\ AtMost(q, p) => p = q
       /\ Less(p, q) <=> Less(Zero, Minus(q, p))
       /\ AtMost(p, q) <=> AtMost(Zero, Minus(q, p))
  /\ \A p, q, r \in Rationals :
       /\ AtMost(p, q) /\ AtMost(q, r) => AtMost(p, r)
       /\ Less(p, q) /\ AtMost(q, r) => Less(p, r)
       /\ AtMost(p, q) /\ Less(q, r) => Less(p, r)
       /\ AtMost(Plus(p, r), Plus(q, r)) <=> AtMost(p, q)
       /\ Less(Plus(p, r), Plus(q, r)) <=> Less(p, q)
       /\ AtMost(p, Plus(q, r)) <=> AtMost(Minus(p, q), r)
       /\ AtMost(Plus(q, r), p) <=> AtMost(r, Minus(p, q))
<1> SUFFICES ASSUME NEW p \in Rationals, NEW q \in Rationals, NEW r \in Rationals
    PROVE  /\ Less(p, q) <=> ~AtMost(q, p)
           /\ AtMost(p, q) <=> Less(p, q) \/ p = q
           /\ AtMost(p, q) /\ AtMost(q, p) => p = q
           /\ Less(p, q) <=> Less(Zero, Minus(q, p))
           /\ AtMost(p, q) <=> AtMost(Zero, Minus(q, p))
           /\ AtMost(p, q) /\ AtMost(q, r) => AtMost(p, r)
           /\ Less(p, q) /\ AtMost(q, r) => Less(p, r)
           /\ AtMost(p, q) /\ Less(q, r) => Less(p, r)
           /\ AtMost(Plus(p, r), Plus(q, r)) <=> AtMost(p, q)
           /\ Less(Plus(p, r), Plus(q, r)) <=> Less(p, q)
           /\ AtMost(p, Plus(q, r)) <=> AtMost(Minus(p, q), r)
           /\ AtMost(Plus(q, r), p) <=> AtMost(r, Minus(p, q))
  BY ZeroIs
<1>1. PICK u : \E a, b, c, e \in Int :
        IsUnit(u) /\ p = u[a] /\ q = u[b] /\ r = u[c] /\ r = u[e]
  BY OneUnit
<1>2. PICK a \in Int, b \in Int, c \in Int : IsUnit(u) /\ p = u[a] /\ q = u[b] /\ r = u[c]
  BY <1>1
<1>3. /\ Plus(p, r) = u[a + c] /\ Plus(q, r) = u[b + c] /\ Minus(p, q) = u[a - b]
      /\ Minus(q, p) = u[b - a] /\ Zero = u[0]
  BY <1>2 DEF IsUnit
<1>4. /\ (Less(p, q) <=> a < b) /\ (Less(q, r) <=> b < c) /\ (Less(p, r) <=> a < c)
      /\ (AtMost(p, q) <=> a <= b) /\ (AtMost(q, p) <=> b <= a) /\ (AtMost(q, r) <=> b <= c)
      /\ (AtMost(p, r) <=> a <= c) /\ (p = q <=> a = b)
  BY <1>2 DEF IsUnit
<1>0. /\ a + c \in Int /\ a - b \in Int /\ b + c \in Int /\ b - a \in Int /\ 0 \in Int
  OBVIOUS
<1>5. /\ Less(u[0], u[b - a]) <=> 0 < b - a
      /\ AtMost(u[0], u[b - a]) <=> 0 <= b - a
      /\ AtMost(u[a + c], u[b + c]) <=> a + c <= b + c
      /\ Less(u[a + c], u[b + c]) <=> a + c < b + c
      /\ AtMost(u[a], u[b + c]) <=> a <= b + c
      /\ AtMost(u[a - b], u[c]) <=> a - b <= c
      /\ AtMost(u[b + c], u[a]) <=> b + c <= a
      /\ AtMost(u[c], u[a - b]) <=> c <= a - b
  BY <1>0, <1>2, Zenon DEF IsUnit
<1>6. /\ Less(Zero, Minus(q, p)) <=> 0 < b - a
      /\ AtMost(Zero, Minus(q, p)) <=> 0 <= b - a
      /\ AtMost(Plus(p, r), Plus(q, r)) <=> a + c <= b + c
      /\ Less(Plus(p, r), Plus(q, r)) <=> a + c < b + c
      /\ AtMost(p, Plus(q, r)) <=> a <= b + c
      /\ AtMost(Minus(p, q), r) <=> a - b <= c
      /\ AtMost(Plus(q, r), p) <=> b + c <= a
      /\ AtMost(r, Minus(p, q)) <=> c <= a - b
  BY <1>2, <1>3, <1>5, Zenon
<1> QED
  BY <1>4, <1>6

\* They can be multiplied.
LEMMA TimesLaws ==
  /\ \A p, q \in Rationals : Times(p, q) \in Rationals /\ Times(p, q) = Times(q, p)
  /\ \A p \in Rationals :
       Times(p, Q(1)) = p /\ Times(Q(1), p) = p /\ Times(p, Zero) = Zero /\ Times(Zero, p) = Zero
  /\ \A p, q, r \in Rationals :
       /\ Times(p, Times(q, r)) = Times(Times(p, q), r)
       /\ Times(Plus(p, q), r) = Plus(Times(p, r), Times(q, r))
       /\ Times(p, Plus(q, r)) = Plus(Times(p, q), Times(p, r))
<1>1. ASSUME NEW p \in Rationals, NEW q \in Rationals
      PROVE  /\ Times(p, q) \in Rationals /\ Times(p, q) = Times(q, p)
             /\ Times(p, Q(1)) = p /\ Times(p, Zero) = Zero
  <2>1. PICK a \in Int, d \in Nat \ {0} : p = Ratio(a, d)
    BY IsRatio
  <2>2. PICK b \in Int, e \in Nat \ {0} : q = Ratio(b, e)
    BY IsRatio
  <2>3. a * b \in Int /\ d * e \in Nat \ {0} /\ b * a = a * b /\ e * d = d * e
    BY ProductNotZero
  <2>4. Times(p, q) = Ratio(a * b, d * e) /\ Times(q, p) = Ratio(b * a, e * d)
    BY <2>1, <2>2, TimesIs
  <2>5. Times(p, Q(1)) = Ratio(a * 1, d * 1)
    BY <2>1, QIs, TimesIs
  <2>6. Times(p, Zero) = Ratio(a * 0, d * 1)
    BY <2>1, QIs, TimesIs DEF Zero
  <2>7. a * 1 = a /\ d * 1 = d /\ a * 0 = 0
    OBVIOUS
  <2>8. Times(p, q) \in Rationals
    BY <2>3, <2>4, RatioInRationals
  <2>9. Times(p, Q(1)) = p
    BY <2>1, <2>5, <2>7
  <2>10. Times(p, Zero) = Zero
    BY <2>6, <2>7, ZeroIs
  <2> QED
    BY <2>3, <2>4, <2>8, <2>9, <2>10
<1>2. ASSUME NEW p \in Rationals, NEW q \in Rationals, NEW r \in Rationals
      PROVE  /\ Times(p, Times(q, r)) = Times(Times(p, q), r)
             /\ Times(Plus(p, q), r) = Plus(Times(p, r), Times(q, r))
  <2>1. PICK a \in Int, d \in Nat \ {0} : p = Ratio(a, d)
    BY IsRatio
  <2>2. PICK b \in Int, e \in Nat \ {0} : q = Ratio(b, e)
    BY IsRatio
  <2>3. PICK c \in Int, f \in Nat \ {0} : r = Ratio(c, f)
    BY IsRatio
  <2> DEFINE de == d * e
             ef == e * f
             df == d * f
             ab == a * b
             bc == b * c
             ac == a * c
             s == a * e + b * d
  <2>4. /\ de \in Nat \ {0} /\ ef \in Nat \ {0} /\ df \in Nat \ {0}
        /\ ab \in Int /\ bc \in Int /\ ac \in Int /\ s \in Int
    BY ProductNotZero
  <2>5. /\ Times(p, q) = Ratio(ab, de) /\ Times(q, r) = Ratio(bc, ef) /\ Times(p, r) = Ratio(ac, df)
        /\ Plus(p, q) = Ratio(s, de)
    <3>1. Times(p, q) = Ratio(ab, de)
      BY <2>1, <2>2, TimesIs
    <3>2. Times(q, r) = Ratio(bc, ef)
      BY <2>2, <2>3, TimesIs
    <3>3. Times(p, r) = Ratio(ac, df)
      BY <2>1, <2>3, TimesIs
    <3>4. Plus(p, q) = Ratio(s, de)
      BY <2>1, <2>2, PlusIs
    <3> QED
      BY <3>1, <3>2, <3>3, <3>4
  <2>6. a * bc = ab * c /\ d * ef = de * f
    OBVIOUS
  <2>7. (s * c) * (df * ef) = (ac * ef + bc * df) * (de * f)
    OBVIOUS
  <2> HIDE DEF de, ef, df, ab, bc, ac, s
  <2>8. /\ de * f \in Nat \ {0} /\ df * ef \in Nat \ {0}
        /\ s * c \in Int /\ ac * ef + bc * df \in Int
    BY <2>4, ProductNotZero
  <2>9. Times(p, Times(q, r)) = Ratio(a * bc, d * ef)
    BY <2>1, <2>4, <2>5, TimesIs
  <2>10. Times(Times(p, q), r) = Ratio(ab * c, de * f)
    BY <2>3, <2>4, <2>5, TimesIs
  <2>11. Times(Plus(p, q), r) = Ratio(s * c, de * f)
    BY <2>3, <2>4, <2>5, TimesIs
  <2>12. Plus(Times(p, r), Times(q, r)) = Ratio(ac * ef + bc * df, df * ef)
    BY <2>4, <2>5, PlusIs
  <2>13. Ratio(s * c, de * f) = Ratio(ac * ef + bc * df, df * ef)
    BY <2>7, <2>8, RatioSame
  <2> QED
    BY <2>6, <2>9, <2>10, <2>11, <2>12, <2>13
<1>3. Zero \in Rationals /\ Q(1) \in Rationals
  BY ZeroIs, QIs
<1>4. ASSUME NEW p \in Rationals
      PROVE  Times(p, Q(1)) = p /\ Times(Q(1), p) = p /\ Times(p, Zero) = Zero /\ Times(Zero, p) = Zero
  BY <1>1, <1>3
<1>5. ASSUME NEW p \in Rationals, NEW q \in Rationals, NEW r \in Rationals
      PROVE  Times(p, Plus(q, r)) = Plus(Times(p, q), Times(p, r))
  <2>1. Plus(q, r) \in Rationals
    BY PlusLaws
  <2>2. Times(p, Plus(q, r)) = Times(Plus(q, r), p) /\ Times(p, q) = Times(q, p) /\ Times(p, r) = Times(r, p)
    BY <1>1, <2>1
  <2> QED
    BY <1>2, <2>2
<1>6. \A p, q \in Rationals : Times(p, q) \in Rationals /\ Times(p, q) = Times(q, p)
  BY <1>1, Zenon
<1>7. \A p, q, r \in Rationals :
        /\ Times(p, Times(q, r)) = Times(Times(p, q), r)
        /\ Times(Plus(p, q), r) = Plus(Times(p, r), Times(q, r))
        /\ Times(p, Plus(q, r)) = Plus(Times(p, q), Times(p, r))
  BY <1>2, <1>5, ZenonT(60)
<1> QED
  BY <1>4, <1>6, <1>7, Zenon

\* And divided, but by zero.
LEMMA OverIs ==
  ASSUME NEW p \in Rationals, NEW q \in Rationals, q # Zero
  PROVE  /\ Over(p, q) \in Rationals /\ Times(Over(p, q), q) = p
         /\ \A r \in Rationals : Times(r, q) = p => r = Over(p, q)
<1> DEFINE inverse == Inverted[q]
           a == p[1]
           d == p[2]
           b == q[1]
           e == q[2]
<1>1. /\ a \in Int /\ d \in Nat \ {0} /\ p = Ratio(a, d) /\ p \in Pairs /\ q \in Pairs
      /\ b \in Int /\ e \in Nat \ {0} /\ q = Ratio(b, e)
  BY RationalIs
<1>2. b # 0
  BY <1>1, ZeroIs
<1>3. inverse = IF b > 0 THEN <<e, b>> ELSE <<-e, -b>>
  BY <1>1 DEF Inverted
<1> HIDE DEF a, d, b, e
<1> DEFINE m == IF b > 0 THEN e ELSE -e
           n == IF b > 0 THEN b ELSE -b
<1>4. /\ inverse = <<m, n>> /\ inverse \in Pairs /\ inverse[1] = m /\ inverse[2] = n
      /\ m \in Int /\ n \in Nat \ {0}
  BY <1>1, <1>2, <1>3 DEF Pairs
<1>5. m * b = n * e
  BY <1>1
<1> HIDE DEF m, n, inverse
<1>6. Over(p, q) = Ratio(a * m, d * n)
  <2>1. Over(p, q) = Times(p, inverse)
    BY DEF Over, Times, inverse
  <2> QED
    BY <1>1, <1>4, <2>1, OperationsAre DEF a, d
<1>7. d * n \in Nat \ {0} /\ a * m \in Int /\ (d * n) * e \in Nat \ {0} /\ (a * m) * b \in Int
  BY <1>1, <1>4, ProductNotZero
<1>8. Over(p, q) \in Rationals
  BY <1>6, <1>7, RatioInRationals
<1>9. Times(Over(p, q), q) = p
  <2>1. Times(Over(p, q), q) = Ratio((a * m) * b, (d * n) * e)
    <3> DEFINE x == a * m
               y == d * n
    <3>1. x \in Int /\ y \in Nat \ {0} /\ Over(p, q) = Ratio(x, y)
      BY <1>6, <1>7
    <3> HIDE DEF x, y
    <3>2. Times(Over(p, q), q) = Ratio(x * b, y * e)
      BY <1>1, <3>1, TimesIs
    <3> QED
      BY <3>2 DEF x, y
  <2>2. ((a * m) * b) * d = a * ((d * n) * e)
    <3>1. ((a * m) * b) * d = (m * b) * (a * d)
      BY <1>1, <1>4
    <3>2. (n * e) * (a * d) = a * ((d * n) * e)
      BY <1>1, <1>4
    <3> QED
      BY <1>5, <3>1, <3>2
  <2> QED
    BY <1>1, <1>7, <2>1, <2>2, RatioSame
<1>10. ASSUME NEW r \in Rationals, Times(r, q) = p PROVE r = Over(p, q)
  <2>1. PICK c \in Int, f \in Nat \ {0} : r = Ratio(c, f)
    BY IsRatio
  <2>2. Ratio(c * b, f * e) = Ratio(a, d)
    BY <1>1, <1>10, <2>1, TimesIs
  <2>3. (c * b) * d = a * (f * e)
    <3>1. c * b \in Int /\ f * e \in Nat \ {0}
      BY <1>1, ProductNotZero
    <3> QED
      BY <1>1, <2>2, <3>1, RatioSame
  <2>4. (c * (d * n)) * e = ((a * m) * f) * e
    <3>1. (c * (d * n)) * e = (n * e) * (c * d)
      BY <1>1, <1>4
    <3>2. (m * b) * (c * d) = m * ((c * b) * d)
      BY <1>1, <1>4
    <3>3. m * (a * (f * e)) = ((a * m) * f) * e
      BY <1>1, <1>4
    <3> QED
      BY <1>5, <2>3, <3>1, <3>2, <3>3
  <2>5. c * (d * n) = (a * m) * f
    <3>1. c * (d * n) \in Int /\ (a * m) * f \in Int /\ e \in Int /\ e # 0
      BY <1>1, <1>7
    <3> QED
      BY <2>4, <3>1, Cancel
  <2> QED
    BY <1>6, <1>7, <2>1, <2>5, RatioSame
<1> QED
  BY <1>8, <1>9, <1>10

-------------------------------------------------------------------------------
(* Totals of lists of rationals *)

\* The total of the first n, by n.
IsTotalling(total, seq) ==
  total = [n \in 0..Len(seq) |-> IF n = 0 THEN Zero ELSE Plus(total[n - 1], seq[n])]
Totalling(seq) == CHOOSE total : IsTotalling(total, seq)

\* The running total that SeqTotal is defined by exists.
LEMMA TotallingExists ==
  ASSUME NEW seq, Len(seq) \in Nat
  PROVE  IsTotalling(Totalling(seq), seq)
<1> DEFINE Body(total, n) == IF n = 0 THEN Zero ELSE Plus(total[n - 1], seq[n])
           UpTo(total, m) == total = [n \in 0..m |-> Body(total, n)]
           Good == {m \in 0..Len(seq) : \E total : UpTo(total, m)}
<1>1. 0 \in Good
  <2> DEFINE total == [n \in 0..0 |-> Zero]
  <2>1. UpTo(total, 0)
    OBVIOUS
  <2>2. 0 \in 0..Len(seq)
    OBVIOUS
  <2> HIDE DEF total, UpTo
  <2> QED
    BY <2>1, <2>2
<1>2. ASSUME NEW m \in 0..(Len(seq) - 1), m \in Good PROVE m + 1 \in Good
  <2>1. PICK part : UpTo(part, m)
    BY <1>2
  <2> DEFINE total == [n \in 0..(m + 1) |-> Body(part, n)]
  <2>2. ASSUME NEW n \in 0..(m + 1) PROVE Body(part, n) = Body(total, n)
    <3>1. CASE n = 0
      BY <3>1
    <3>2. CASE n # 0
      <4>1. n - 1 \in 0..m /\ n - 1 \in 0..(m + 1)
        BY <3>2
      <4>2. part[n - 1] = Body(part, n - 1)
        BY <2>1, <4>1
      <4>3. total[n - 1] = part[n - 1]
        BY <4>1, <4>2
      <4> QED
        BY <3>2, <4>3
    <3> QED
      BY <3>1, <3>2
  <2>3. UpTo(total, m + 1)
    BY <2>2
  <2>4. m + 1 \in 0..Len(seq)
    OBVIOUS
  <2> HIDE DEF total, UpTo
  <2> QED
    BY <2>3, <2>4
<1>3. Len(seq) \in Good
  <2> HIDE DEF Good
  <2>1. \A n \in 0..Len(seq) : n \in Good
    BY <1>1, <1>2, OneByOne
  <2> QED
    BY <2>1
<1>4. \E total : IsTotalling(total, seq)
  BY <1>3 DEF IsTotalling
<1> QED
  BY <1>4 DEF Totalling

\* It grows by a term at a time.
LEMMA TotallingStep ==
  ASSUME NEW seq, Len(seq) \in Nat
  PROVE  /\ Totalling(seq)[0] = Zero
         /\ \A n \in 1..Len(seq) : Totalling(seq)[n] = Plus(Totalling(seq)[n - 1], seq[n])
         /\ SeqTotal(seq) = Totalling(seq)[Len(seq)]
<1> DEFINE t == Totalling(seq)
<1>1. t = [n \in 0..Len(seq) |-> IF n = 0 THEN Zero ELSE Plus(t[n - 1], seq[n])]
  BY TotallingExists DEF IsTotalling
<1>2. SeqTotal(seq) = t[Len(seq)]
  BY DEF SeqTotal, Totalling, IsTotalling
<1> HIDE DEF t
<1>3. t[0] = Zero
  BY <1>1
<1>4. ASSUME NEW n \in 1..Len(seq) PROVE t[n] = Plus(t[n - 1], seq[n])
  BY <1>1
<1> QED
  BY <1>2, <1>3, <1>4 DEF t

\* Rationals add up to a rational.
LEMMA TotallingRational ==
  ASSUME NEW seq, Len(seq) \in Nat, \A n \in 1..Len(seq) : seq[n] \in Rationals
  PROVE  /\ \A n \in 0..Len(seq) : Totalling(seq)[n] \in Rationals
         /\ SeqTotal(seq) \in Rationals
<1> DEFINE t == Totalling(seq)
           Good == {n \in 0..Len(seq) : t[n] \in Rationals}
<1>1. 0 \in Good
  BY TotallingStep, ZeroIs
<1>2. ASSUME NEW n \in 0..(Len(seq) - 1), n \in Good PROVE n + 1 \in Good
  <2>1. n + 1 \in 1..Len(seq) /\ (n + 1) - 1 = n /\ n + 1 \in 0..Len(seq)
    OBVIOUS
  <2>2. t[n + 1] = Plus(t[n], seq[n + 1])
    BY <2>1, TotallingStep
  <2>3. t[n] \in Rationals /\ seq[n + 1] \in Rationals
    BY <1>2, <2>1
  <2>4. t[n + 1] \in Rationals
    <3>1. Plus(t[n], seq[n + 1]) \in Rationals
      BY <2>3, PlusLaws, Zenon
    <3> QED
      BY <2>2, <3>1
  <2> QED
    BY <2>1, <2>4
<1>3. \A n \in 0..Len(seq) : n \in Good
  <2> HIDE DEF Good
  <2> QED
    BY <1>1, <1>2, OneByOne
<1> QED
  BY <1>3, TotallingStep

\* Lists that agree on their first m have the same totals up to there.
LEMMA TotallingAgrees ==
  ASSUME NEW s, NEW t, Len(s) \in Nat, Len(t) \in Nat,
         NEW m \in Nat, m <= Len(s), m <= Len(t), \A n \in 1..m : s[n] = t[n]
  PROVE  \A n \in 0..m : Totalling(s)[n] = Totalling(t)[n]
<1> DEFINE f == Totalling(s)
           g == Totalling(t)
           Good == {n \in 0..m : f[n] = g[n]}
<1>1. 0 \in Good
  BY TotallingStep
<1>2. ASSUME NEW n \in 0..(m - 1), n \in Good PROVE n + 1 \in Good
  <2>1. n + 1 \in 1..Len(s) /\ n + 1 \in 1..Len(t) /\ (n + 1) - 1 = n /\ n + 1 \in 1..m /\ n + 1 \in 0..m
    OBVIOUS
  <2>2. f[n + 1] = Plus(f[n], s[n + 1]) /\ g[n + 1] = Plus(g[n], t[n + 1])
    BY <2>1, TotallingStep
  <2>3. f[n] = g[n] /\ s[n + 1] = t[n + 1]
    BY <1>2, <2>1
  <2> QED
    BY <2>1, <2>2, <2>3
<1>3. \A n \in 0..m : n \in Good
  <2> HIDE DEF Good
  <2> QED
    BY <1>1, <1>2, OneByOne
<1> QED
  BY <1>3

\* The total of the first n, as a list of its own.
LEMMA TotalOfFirst ==
  ASSUME NEW seq, Len(seq) \in Nat, \A i \in 1..Len(seq) : seq[i] \in Rationals,
         NEW n \in 0..Len(seq)
  PROVE  SeqTotal(SubSeq(seq, 1, n)) = Totalling(seq)[n]
<1> DEFINE part == SubSeq(seq, 1, n)
<1>1. /\ part \in Seq(Rationals) /\ Len(part) = n /\ \A i \in 1..n : part[i] = seq[i]
  <2>1. \A i \in 1..n : seq[i] \in Rationals
    OBVIOUS
  <2> QED
    BY <2>1, SubSeqProperties
<1> HIDE DEF part
<1>2. SeqTotal(part) = Totalling(part)[n]
  BY <1>1, TotallingStep
<1>3. Totalling(part)[n] = Totalling(seq)[n]
  <2>1. n \in Nat /\ n <= Len(part) /\ n <= Len(seq) /\ Len(part) \in Nat /\ n \in 0..n
    BY <1>1
  <2>2. \A m \in 0..n : Totalling(part)[m] = Totalling(seq)[m]
    BY <1>1, <2>1, TotallingAgrees
  <2> QED
    BY <2>1, <2>2
<1> QED
  BY <1>2, <1>3 DEF part

\* Nothing comes after the first m.
LEMMA TotallingZeros ==
  ASSUME NEW seq, Len(seq) \in Nat, \A n \in 1..Len(seq) : seq[n] \in Rationals,
         NEW m \in 0..Len(seq), \A n \in (m + 1)..Len(seq) : seq[n] = Zero
  PROVE  SeqTotal(seq) = Totalling(seq)[m]
<1> DEFINE t == Totalling(seq)
           Good == {n \in 0..(Len(seq) - m) : t[m + n] = t[m]}
<1>1. 0 \in Good
  OBVIOUS
<1>2. ASSUME NEW n \in 0..((Len(seq) - m) - 1), n \in Good PROVE n + 1 \in Good
  <2>1. /\ m + n + 1 \in 1..Len(seq) /\ (m + n + 1) - 1 = m + n /\ m + n + 1 \in (m + 1)..Len(seq)
        /\ m + (n + 1) = m + n + 1 /\ n + 1 \in 0..(Len(seq) - m) /\ m + n \in 0..Len(seq)
    OBVIOUS
  <2>2. t[m + n + 1] = Plus(t[m + n], Zero)
    BY <2>1, TotallingStep
  <2>3. t[m + n] \in Rationals
    BY <2>1, TotallingRational
  <2>4. t[m + n + 1] = t[m + n]
    BY <2>2, <2>3, PlusLaws
  <2> QED
    BY <1>2, <2>1, <2>4
<1>3. \A n \in 0..(Len(seq) - m) : n \in Good
  <2> HIDE DEF Good
  <2>1. Len(seq) - m \in Nat
    OBVIOUS
  <2> QED
    BY <1>1, <1>2, <2>1, OneByOne
<1>4. t[m + (Len(seq) - m)] = t[m] /\ m + (Len(seq) - m) = Len(seq)
  BY <1>3
<1> QED
  BY <1>4, TotallingStep

\* Twice is what is added to itself.
LEMMA Twice ==
  ASSUME NEW p \in Rationals
  PROVE  Times(Q(2), p) = Plus(p, p)
<1>1. /\ Q(1) \in Rationals /\ Q(1) = Ratio(1, 1) /\ Q(2) = Ratio(2, 1)
  BY QIs
<1>2. Plus(Q(1), Q(1)) = Q(2)
  <2>1. 1 \in Nat \ {0} /\ 1 \in Int
    OBVIOUS
  <2>3. Plus(Ratio(1, 1), Ratio(1, 1)) = Ratio(1 + 1, 1)
    BY <2>1, InUnits, ZenonT(60)
  <2>2. 1 + 1 = 2
    OBVIOUS
  <2> QED
    BY <1>1, <2>3, <2>2
<1>3. Times(Plus(Q(1), Q(1)), p) = Plus(Times(Q(1), p), Times(Q(1), p))
  BY <1>1, TimesLaws
<1>4. Times(Q(1), p) = p
  BY TimesLaws
<1> QED
  BY <1>2, <1>3, <1>4

-------------------------------------------------------------------------------
(* Signs *)

\* A positive factor keeps the order.
LEMMA ScaleOrder ==
  ASSUME NEW x \in Int, NEW y \in Int, NEW k \in Nat \ {0}
  PROVE  x * k < y * k <=> x < y
<1>1. ASSUME x < y PROVE x * k < y * k
  <2>1. y - x >= 1 /\ (y - x) * k = y * k - x * k
    BY <1>1
  <2>2. (y - x) * k >= k
    <3> DEFINE z == y - x
    <3>1. z \in Nat \ {0}
      BY <1>1
    <3> HIDE DEF z
    <3>2. z * k \in Nat \ {0} /\ z * k >= k
      <4>1. z * k = (z - 1) * k + k
        BY <3>1
      <4>2. (z - 1) * k >= 0
        <5>1. z - 1 \in Nat
          BY <3>1
        <5> QED
          BY <5>1
      <4>3. (z - 1) * k \in Int
        BY <3>1
      <4> QED
        BY <4>1, <4>2, <4>3
    <3> QED
      BY <3>2 DEF z
  <2>3. x * k \in Int /\ y * k \in Int
    OBVIOUS
  <2> DEFINE xk == x * k
             yk == y * k
             zk == (y - x) * k
  <2>4. xk \in Int /\ yk \in Int /\ zk = yk - xk /\ zk >= k
    BY <2>1, <2>2, <2>3
  <2> HIDE DEF xk, yk, zk
  <2>5. xk < yk
    BY <2>4
  <2> QED
    BY <2>5 DEF xk, yk
<1>2. ASSUME y < x PROVE y * k < x * k
  <2>1. x - y >= 1 /\ (x - y) * k = x * k - y * k
    BY <1>2
  <2>2. (x - y) * k >= k
    <3> DEFINE z == x - y
    <3>1. z \in Nat \ {0}
      BY <1>2
    <3> HIDE DEF z
    <3>2. z * k \in Nat \ {0} /\ z * k >= k
      <4>1. z * k = (z - 1) * k + k
        BY <3>1
      <4>2. (z - 1) * k >= 0
        <5>1. z - 1 \in Nat
          BY <3>1
        <5> QED
          BY <5>1
      <4>3. (z - 1) * k \in Int
        BY <3>1
      <4> QED
        BY <4>1, <4>2, <4>3
    <3> QED
      BY <3>2 DEF z
  <2>3. x * k \in Int /\ y * k \in Int
    OBVIOUS
  <2> DEFINE xk == x * k
             yk == y * k
             zk == (x - y) * k
  <2>4. xk \in Int /\ yk \in Int /\ zk = xk - yk /\ zk >= k
    BY <2>1, <2>2, <2>3
  <2> HIDE DEF xk, yk, zk
  <2>5. yk < xk
    BY <2>4
  <2> QED
    BY <2>5 DEF xk, yk
<1>3. ASSUME x = y PROVE x * k = y * k
  BY <1>3
<1>4. x < y \/ x = y \/ y < x
  OBVIOUS
<1> DEFINE xk == x * k
           yk == y * k
<1>5. xk \in Int /\ yk \in Int
  OBVIOUS
<1> HIDE DEF xk, yk
<1>6. (x < y => xk < yk) /\ (x = y => xk = yk) /\ (y < x => yk < xk)
  BY <1>1, <1>2, <1>3 DEF xk, yk
<1>7. xk < yk <=> x < y
  BY <1>4, <1>5, <1>6
<1> QED
  BY <1>7 DEF xk, yk

\* Multiplying by what is positive keeps the order.
LEMMA TimesOrder ==
  ASSUME NEW p \in Rationals, NEW q \in Rationals, NEW r \in Rationals, Less(Zero, r)
  PROVE  /\ Less(Times(p, r), Times(q, r)) <=> Less(p, q)
         /\ AtMost(Times(p, r), Times(q, r)) <=> AtMost(p, q)
<1>1. \A x, y \in Rationals : Less(Times(x, r), Times(y, r)) <=> Less(x, y)
  <2> SUFFICES ASSUME NEW x \in Rationals, NEW y \in Rationals
               PROVE  Less(Times(x, r), Times(y, r)) <=> Less(x, y)
    OBVIOUS
  <2>1. PICK a \in Int, d \in Nat \ {0} : x = Ratio(a, d)
    BY IsRatio
  <2>2. PICK b \in Int, e \in Nat \ {0} : y = Ratio(b, e)
    BY IsRatio
  <2>3. PICK c \in Int, f \in Nat \ {0} : r = Ratio(c, f)
    BY IsRatio
  <2>4. c > 0
    <3>1. Zero = Ratio(0, 1)
      BY ZeroIs
    <3>2. Less(Ratio(0, 1), Ratio(c, f)) <=> 0 * f < c * 1
      BY LessIs
    <3> QED
      BY <2>3, <3>1, <3>2
  <2> DEFINE ac == a * c
             bc == b * c
             df == d * f
             ef == e * f
             k == c * f
             m == a * e
             n == b * d
  <2>5. ac \in Int /\ bc \in Int /\ df \in Nat \ {0} /\ ef \in Nat \ {0} /\ k \in Nat \ {0}
        /\ m \in Int /\ n \in Int
    <3>1. c \in Nat \ {0}
      BY <2>4
    <3> QED
      BY <3>1, ProductNotZero
  <2>6. Times(x, r) = Ratio(ac, df) /\ Times(y, r) = Ratio(bc, ef)
    BY <2>1, <2>2, <2>3, TimesIs
  <2>7. ac * ef = m * k /\ bc * df = n * k
    OBVIOUS
  <2> HIDE DEF ac, bc, df, ef, k
  <2>8. Less(Times(x, r), Times(y, r)) <=> ac * ef < bc * df
    BY <2>5, <2>6, LessIs
  <2>9. Less(x, y) <=> m < n
    BY <2>1, <2>2, LessIs
  <2> HIDE DEF m, n
  <2>10. m * k < n * k <=> m < n
    BY <2>5, ScaleOrder
  <2> QED
    BY <2>7, <2>8, <2>9, <2>10
<1> QED
  BY <1>1 DEF AtMost

\* The sign of a product.
LEMMA TimesSign ==
  ASSUME NEW p \in Rationals, NEW q \in Rationals
  PROVE  /\ Less(Zero, q) => /\ Less(Zero, Times(p, q)) <=> Less(Zero, p)
                             /\ Less(Times(p, q), Zero) <=> Less(p, Zero)
                             /\ AtMost(Zero, Times(p, q)) <=> AtMost(Zero, p)
                             /\ AtMost(Times(p, q), Zero) <=> AtMost(p, Zero)
         /\ AtMost(Zero, p) /\ AtMost(Zero, q) => AtMost(Zero, Times(p, q))
         /\ Times(p, q) = Zero <=> p = Zero \/ q = Zero
<1>1. Zero \in Rationals /\ Times(Zero, q) = Zero /\ Times(p, Zero) = Zero
  BY ZeroIs, TimesLaws
<1>2. Less(Zero, q) => /\ Less(Zero, Times(p, q)) <=> Less(Zero, p)
                       /\ Less(Times(p, q), Zero) <=> Less(p, Zero)
                       /\ AtMost(Zero, Times(p, q)) <=> AtMost(Zero, p)
                       /\ AtMost(Times(p, q), Zero) <=> AtMost(p, Zero)
  <2> SUFFICES ASSUME Less(Zero, q)
               PROVE  /\ Less(Zero, Times(p, q)) <=> Less(Zero, p)
                      /\ Less(Times(p, q), Zero) <=> Less(p, Zero)
                      /\ AtMost(Zero, Times(p, q)) <=> AtMost(Zero, p)
                      /\ AtMost(Times(p, q), Zero) <=> AtMost(p, Zero)
    OBVIOUS
  <2>1. \A x, y \in Rationals : /\ Less(Times(x, q), Times(y, q)) <=> Less(x, y)
                                /\ AtMost(Times(x, q), Times(y, q)) <=> AtMost(x, y)
    BY TimesOrder
  <2>2. /\ Less(Times(Zero, q), Times(p, q)) <=> Less(Zero, p)
        /\ Less(Times(p, q), Times(Zero, q)) <=> Less(p, Zero)
        /\ AtMost(Times(Zero, q), Times(p, q)) <=> AtMost(Zero, p)
        /\ AtMost(Times(p, q), Times(Zero, q)) <=> AtMost(p, Zero)
    BY <1>1, <2>1
  <2> QED
    BY <1>1, <2>2
<1>3. ASSUME AtMost(Zero, p), AtMost(Zero, q) PROVE AtMost(Zero, Times(p, q))
  <2>1. CASE q = Zero
    BY <1>1, <2>1, OrderLaws
  <2>2. CASE Less(Zero, q)
    BY <1>2, <1>3, <2>2
  <2> QED
    BY <1>1, <1>3, <2>1, <2>2, OrderLaws
<1>4. Times(p, q) = Zero <=> p = Zero \/ q = Zero
  <2>1. PICK a \in Int, d \in Nat \ {0} : p = Ratio(a, d)
    BY IsRatio
  <2>2. PICK b \in Int, e \in Nat \ {0} : q = Ratio(b, e)
    BY IsRatio
  <2>3. Times(p, q) = Ratio(a * b, d * e)
    BY <2>1, <2>2, TimesIs
  <2> DEFINE ab == a * b
             de == d * e
  <2>4. ab \in Int /\ de \in Nat \ {0} /\ (ab = 0 <=> a = 0 \/ b = 0)
    BY ProductNotZero
  <2> HIDE DEF ab, de
  <2>5. Ratio(ab, de) = Zero <=> ab = 0
    BY <2>4, ZeroIs
  <2>6. (p = Zero <=> a = 0) /\ (q = Zero <=> b = 0)
    BY <2>1, <2>2, ZeroIs
  <2> QED
    BY <2>3, <2>4, <2>5, <2>6 DEF ab, de
<1> QED
  BY <1>2, <1>3, <1>4

\* What is divided by something positive keeps its sign.
LEMMA OverSign ==
  ASSUME NEW p \in Rationals, NEW q \in Rationals, Less(Zero, q)
  PROVE  /\ q # Zero /\ Over(p, q) \in Rationals /\ Times(Over(p, q), q) = p
         /\ Less(Zero, Over(p, q)) <=> Less(Zero, p)
         /\ Less(Over(p, q), Zero) <=> Less(p, Zero)
         /\ AtMost(Zero, Over(p, q)) <=> AtMost(Zero, p)
         /\ AtMost(Over(p, q), Zero) <=> AtMost(p, Zero)
         /\ Over(p, q) = Zero <=> p = Zero
<1>1. q # Zero /\ Zero \in Rationals
  BY ZeroIs, OrderLaws
<1>2. Over(p, q) \in Rationals /\ Times(Over(p, q), q) = p
  BY <1>1, OverIs
<1> DEFINE r == Over(p, q)
<1> HIDE DEF r
<1>3. r \in Rationals /\ Times(r, q) = p
  BY <1>2 DEF r
<1>4. /\ Less(Zero, Times(r, q)) <=> Less(Zero, r)
      /\ Less(Times(r, q), Zero) <=> Less(r, Zero)
      /\ AtMost(Zero, Times(r, q)) <=> AtMost(Zero, r)
      /\ AtMost(Times(r, q), Zero) <=> AtMost(r, Zero)
      /\ Times(r, q) = Zero <=> r = Zero \/ q = Zero
  BY <1>3, TimesSign
<1> QED
  BY <1>1, <1>2, <1>3, <1>4 DEF r

\* Two terms change places.
LEMMA PlusSwaps ==
  ASSUME NEW p \in Rationals, NEW q \in Rationals, NEW r \in Rationals
  PROVE  Plus(p, Plus(q, r)) = Plus(q, Plus(p, r))
<1>1. \A x, y, z \in Rationals : Plus(x, Plus(y, z)) = Plus(Plus(x, y), z) /\ Plus(x, y) = Plus(y, x)
  BY PlusLaws
<1> QED
  BY <1>1

\* Two sums, added term by term.
LEMMA PlusPairs ==
  ASSUME NEW p \in Rationals, NEW q \in Rationals, NEW r \in Rationals, NEW s \in Rationals
  PROVE  Plus(Plus(p, q), Plus(r, s)) = Plus(Plus(p, r), Plus(q, s))
<1>1. \A x, y, z \in Rationals : Plus(x, Plus(y, z)) = Plus(Plus(x, y), z) /\ Plus(x, y) \in Rationals
  BY PlusLaws
<1>2. Plus(Plus(p, q), Plus(r, s)) = Plus(p, Plus(q, Plus(r, s)))
  BY <1>1
<1>3. Plus(Plus(p, r), Plus(q, s)) = Plus(p, Plus(r, Plus(q, s)))
  BY <1>1
<1>4. Plus(q, Plus(r, s)) = Plus(r, Plus(q, s))
  BY PlusSwaps
<1> QED
  BY <1>2, <1>3, <1>4

\* Sums of what is ordered are ordered.
LEMMA PlusOrder ==
  ASSUME NEW p \in Rationals, NEW q \in Rationals, NEW r \in Rationals, NEW s \in Rationals,
         AtMost(p, q), AtMost(r, s)
  PROVE  AtMost(Plus(p, r), Plus(q, s))
<1>1. \A x, y, z \in Rationals : AtMost(Plus(x, z), Plus(y, z)) <=> AtMost(x, y)
  BY OrderLaws
<1>2. \A x, y \in Rationals : Plus(x, y) = Plus(y, x) /\ Plus(x, y) \in Rationals
  BY PlusLaws
<1>3. AtMost(Plus(p, r), Plus(q, r)) /\ AtMost(Plus(q, r), Plus(q, s))
  BY <1>1, <1>2
<1>4. \A x, y, z \in Rationals : AtMost(x, y) /\ AtMost(y, z) => AtMost(x, z)
  BY OrderLaws
<1> QED
  BY <1>2, <1>3, <1>4

\* A number times a rational, once more.
LEMMA OneTermMore ==
  ASSUME NEW n \in Nat, NEW r \in Rationals
  PROVE  Times(Q(n + 1), r) = Plus(r, Times(Q(n), r))
<1>1. Q(1) \in Rationals /\ Q(n) \in Rationals /\ Q(1) = Ratio(1, 1) /\ Q(n) = Ratio(n, 1)
      /\ Q(1 + n) = Ratio(1 + n, 1)
  BY QIs
<1>2. Plus(Q(1), Q(n)) = Q(1 + n)
  <2>1. 1 \in Nat \ {0} /\ 1 \in Int /\ n \in Int
    OBVIOUS
  <2>2. Plus(Ratio(1, 1), Ratio(n, 1)) = Ratio(1 + n, 1)
    BY <2>1, InUnits, ZenonT(60)
  <2> QED
    BY <1>1, <2>2
<1>3. Times(Plus(Q(1), Q(n)), r) = Plus(Times(Q(1), r), Times(Q(n), r)) /\ Times(Q(1), r) = r
  BY <1>1, TimesLaws
<1>4. 1 + n = n + 1
  OBVIOUS
<1> QED
  BY <1>2, <1>3, <1>4

-------------------------------------------------------------------------------
(* Differences, products and quotients *)

\* Differences from the same, or to the same.
LEMMA MinusLaws ==
  \A p, q, r \in Rationals :
    /\ Minus(Minus(p, q), Minus(r, q)) = Minus(p, r)
    /\ Less(Minus(p, q), Minus(r, q)) <=> Less(p, r)
    /\ AtMost(Minus(p, q), Minus(r, q)) <=> AtMost(p, r)
    /\ Minus(Minus(p, r), Minus(q, r)) = Minus(p, q)
    /\ Plus(Minus(p, q), Minus(q, r)) = Minus(p, r)
    /\ Minus(Plus(p, q), p) = q
    /\ Plus(p, Minus(q, r)) = Minus(Plus(p, q), r)
    /\ p = Plus(q, r) => Minus(p, q) = r
    /\ AtMost(p, q) => AtMost(Zero, Minus(q, p))
<1> SUFFICES ASSUME NEW p \in Rationals, NEW q \in Rationals, NEW r \in Rationals
    PROVE  /\ Minus(Minus(p, q), Minus(r, q)) = Minus(p, r)
           /\ Less(Minus(p, q), Minus(r, q)) <=> Less(p, r)
           /\ AtMost(Minus(p, q), Minus(r, q)) <=> AtMost(p, r)
           /\ Minus(Minus(p, r), Minus(q, r)) = Minus(p, q)
           /\ Plus(Minus(p, q), Minus(q, r)) = Minus(p, r)
           /\ Minus(Plus(p, q), p) = q
           /\ Plus(p, Minus(q, r)) = Minus(Plus(p, q), r)
           /\ p = Plus(q, r) => Minus(p, q) = r
           /\ AtMost(p, q) => AtMost(Zero, Minus(q, p))
  OBVIOUS
<1>1. PICK u : \E a, b, c, e \in Int :
        IsUnit(u) /\ p = u[a] /\ q = u[b] /\ r = u[c] /\ r = u[e]
  BY OneUnit
<1>2. PICK a \in Int, b \in Int, c \in Int : IsUnit(u) /\ p = u[a] /\ q = u[b] /\ r = u[c]
  BY <1>1
<1>0. /\ a - b \in Int /\ c - b \in Int /\ a - c \in Int /\ b - c \in Int /\ a + b \in Int
      /\ b + c \in Int /\ b - a \in Int /\ 0 \in Int
  OBVIOUS
<1>3. /\ Minus(p, q) = u[a - b] /\ Minus(r, q) = u[c - b] /\ Minus(p, r) = u[a - c]
      /\ Minus(q, r) = u[b - c] /\ Plus(p, q) = u[a + b] /\ Plus(q, r) = u[b + c]
      /\ Minus(q, p) = u[b - a] /\ Zero = u[0]
      /\ (Less(p, r) <=> a < c) /\ (AtMost(p, r) <=> a <= c) /\ (AtMost(p, q) <=> a <= b)
  BY <1>2, ZenonT(60) DEF IsUnit
<1>4. /\ Minus(u[a - b], u[c - b]) = u[(a - b) - (c - b)]
      /\ Less(u[a - b], u[c - b]) <=> (a - b) < (c - b)
      /\ AtMost(u[a - b], u[c - b]) <=> (a - b) <= (c - b)
      /\ Minus(u[a - c], u[b - c]) = u[(a - c) - (b - c)]
      /\ Plus(u[a - b], u[b - c]) = u[(a - b) + (b - c)]
      /\ Minus(u[a + b], u[a]) = u[(a + b) - a]
      /\ Plus(u[a], u[b - c]) = u[a + (b - c)]
      /\ Minus(u[a + b], u[c]) = u[(a + b) - c]
      /\ u[a] = u[b + c] <=> a = b + c
      /\ AtMost(u[0], u[b - a]) <=> 0 <= b - a
  <2>1. /\ \A m, n \in Int : Plus(u[m], u[n]) = u[m + n] /\ Minus(u[m], u[n]) = u[m - n]
        /\ \A m, n \in Int : u[m] = u[n] <=> m = n
        /\ \A m, n \in Int : (Less(u[m], u[n]) <=> m < n) /\ (AtMost(u[m], u[n]) <=> m <= n)
    BY <1>2, ZenonT(60) DEF IsUnit
  <2>2. /\ Minus(u[a - b], u[c - b]) = u[(a - b) - (c - b)]
        /\ Minus(u[a - c], u[b - c]) = u[(a - c) - (b - c)]
        /\ Plus(u[a - b], u[b - c]) = u[(a - b) + (b - c)]
    BY <1>0, <2>1, Zenon
  <2>3. /\ Minus(u[a + b], u[a]) = u[(a + b) - a]
        /\ Plus(u[a], u[b - c]) = u[a + (b - c)]
        /\ Minus(u[a + b], u[c]) = u[(a + b) - c]
    BY <1>0, <2>1, Zenon
  <2>4. /\ Less(u[a - b], u[c - b]) <=> (a - b) < (c - b)
        /\ AtMost(u[a - b], u[c - b]) <=> (a - b) <= (c - b)
        /\ u[a] = u[b + c] <=> a = b + c
        /\ AtMost(u[0], u[b - a]) <=> 0 <= b - a
    BY <1>0, <2>1, Zenon
  <2> QED
    BY <2>2, <2>3, <2>4
<1>5. /\ (a - b) - (c - b) = a - c /\ (a - c) - (b - c) = a - b /\ (a - b) + (b - c) = a - c
      /\ (a + b) - a = b /\ a + (b - c) = (a + b) - c
      /\ ((a - b) < (c - b) <=> a < c) /\ ((a - b) <= (c - b) <=> a <= c)
      /\ (a = b + c => a - b = c) /\ (a <= b => 0 <= b - a)
  OBVIOUS
<1> QED
  BY <1>2, <1>3, <1>4, <1>5, Zenon

\* What two are over the same, together.
LEMMA OverLaws ==
  ASSUME NEW f \in Rationals, f # Zero
  PROVE  \A p, q \in Rationals : /\ Plus(Over(p, f), Over(q, f)) = Over(Plus(p, q), f)
                                 /\ Over(p, f) \in Rationals
                                 /\ Times(q, Over(p, f)) = Over(Times(q, p), f)
                                 /\ Over(Zero, f) = Zero /\ Over(f, f) = Q(1)
                                 /\ Over(Times(p, f), f) = p
<1> SUFFICES ASSUME NEW p \in Rationals, NEW q \in Rationals
    PROVE  /\ Plus(Over(p, f), Over(q, f)) = Over(Plus(p, q), f)
           /\ Over(p, f) \in Rationals
           /\ Times(q, Over(p, f)) = Over(Times(q, p), f)
           /\ Over(Zero, f) = Zero /\ Over(f, f) = Q(1)
           /\ Over(Times(p, f), f) = p
  OBVIOUS
<1> DEFINE a == Over(p, f)
           b == Over(q, f)
<1>1. a \in Rationals /\ Times(a, f) = p /\ b \in Rationals /\ Times(b, f) = q
  BY OverIs
<1> HIDE DEF a, b
<1>2. Plus(a, b) \in Rationals /\ Times(Plus(a, b), f) = Plus(p, q) /\ Plus(p, q) \in Rationals
  <2>1. \A x, y, z \in Rationals : Times(Plus(x, y), z) = Plus(Times(x, z), Times(y, z))
    BY TimesLaws
  <2>2. \A x, y \in Rationals : Plus(x, y) \in Rationals
    BY PlusLaws
  <2> QED
    BY <1>1, <2>1, <2>2
<1>3. Plus(a, b) = Over(Plus(p, q), f)
  BY <1>2, OverIs
<1>4. Times(q, a) \in Rationals /\ Times(Times(q, a), f) = Times(q, p) /\ Times(q, p) \in Rationals
  <2>1. \A x, y, z \in Rationals : Times(x, Times(y, z)) = Times(Times(x, y), z)
    BY TimesLaws
  <2>2. \A x, y \in Rationals : Times(x, y) \in Rationals
    BY TimesLaws
  <2> QED
    BY <1>1, <2>1, <2>2
<1>5. Times(q, a) = Over(Times(q, p), f)
  BY <1>4, OverIs
<1>6. Zero \in Rationals /\ Times(Zero, f) = Zero /\ Q(1) \in Rationals /\ Times(Q(1), f) = f
  BY ZeroIs, QIs, TimesLaws
<1>7. Zero = Over(Zero, f) /\ Q(1) = Over(f, f)
  BY <1>6, OverIs
<1>8. Times(p, f) \in Rationals
  BY TimesLaws
<1>9. p = Over(Times(p, f), f)
  BY <1>8, OverIs
<1> QED
  BY <1>1, <1>3, <1>5, <1>7, <1>9 DEF a, b

\* Factors may be taken in any order.
LEMMA TimesSwap ==
  ASSUME NEW p \in Rationals, NEW q \in Rationals, NEW r \in Rationals
  PROVE  Times(Times(p, q), r) = Times(Times(p, r), q)
<1>1. \A x, y \in Rationals : Times(x, y) = Times(y, x)
  BY TimesLaws
<1>2. \A x, y, z \in Rationals : Times(x, Times(y, z)) = Times(Times(x, y), z)
  BY TimesLaws
<1>3. Times(p, Times(q, r)) = Times(Times(p, q), r) /\ Times(p, Times(r, q)) = Times(Times(p, r), q)
  BY <1>2
<1> QED
  BY <1>1, <1>3

\* A factor that is not zero cancels.
LEMMA TimesCancels ==
  ASSUME NEW p \in Rationals, NEW q \in Rationals, NEW r \in Rationals, r # Zero,
         Times(p, r) = Times(q, r)
  PROVE  p = q
<1> DEFINE v == Times(p, r)
<1>1. v \in Rationals
  BY TimesLaws
<1>2. Times(p, r) = v /\ Times(q, r) = v
  OBVIOUS
<1> HIDE DEF v
<1>3. p = Over(v, r) /\ q = Over(v, r)
  BY <1>1, <1>2, OverIs
<1> QED
  BY <1>3

-------------------------------------------------------------------------------
(* Totals of lists, compared *)

\* A total of amounts grows.
LEMMA TotallingGrows ==
  ASSUME NEW seq, Len(seq) \in Nat,
         \A n \in 1..Len(seq) : seq[n] \in Rationals /\ AtMost(Zero, seq[n])
  PROVE  /\ \A n \in 0..Len(seq) : AtMost(Zero, Totalling(seq)[n])
         /\ \A m, n \in 0..Len(seq) : m <= n => AtMost(Totalling(seq)[m], Totalling(seq)[n])
<1> DEFINE t == Totalling(seq)
<1>1. /\ t[0] = Zero /\ \A n \in 1..Len(seq) : t[n] = Plus(t[n - 1], seq[n])
      /\ \A n \in 0..Len(seq) : t[n] \in Rationals
  BY TotallingStep, TotallingRational
<1>2. /\ \A x, y, z \in Rationals : AtMost(x, y) /\ AtMost(y, z) => AtMost(x, z)
      /\ \A x \in Rationals : AtMost(x, x)
      /\ \A x, y, z \in Rationals : AtMost(Plus(x, z), Plus(y, z)) <=> AtMost(x, y)
  BY OrderLaws
<1> HIDE DEF t
<1>3. ASSUME NEW n \in 1..Len(seq) PROVE AtMost(t[n - 1], t[n])
  <2>1. t[n - 1] \in Rationals /\ seq[n] \in Rationals /\ AtMost(Zero, seq[n]) /\ t[n] = Plus(t[n - 1], seq[n])
    BY <1>1
  <2>2. \A x \in Rationals : Plus(Zero, x) = x
    BY PlusLaws
  <2>3. \A x, y \in Rationals : Plus(x, y) = Plus(y, x)
    BY PlusLaws
  <2> QED
    BY <1>2, <2>1, <2>2, <2>3, ZeroIs
<1>4. ASSUME NEW m \in 0..Len(seq), NEW n \in 0..Len(seq), m <= n PROVE AtMost(t[m], t[n])
  <2> DEFINE Good == {k \in 0..(Len(seq) - m) : AtMost(t[m], t[m + k])}
  <2>1. 0 \in Good
    BY <1>1, <1>2
  <2>2. ASSUME NEW k \in 0..((Len(seq) - m) - 1), k \in Good PROVE k + 1 \in Good
    <3>1. /\ m + k + 1 \in 1..Len(seq) /\ (m + k + 1) - 1 = m + k /\ m + (k + 1) = m + k + 1
          /\ m + k \in 0..Len(seq) /\ k + 1 \in 0..(Len(seq) - m) /\ m + k + 1 \in 0..Len(seq)
      OBVIOUS
    <3>2. AtMost(t[m + k], t[m + k + 1])
      BY <1>3, <3>1
    <3> QED
      BY <1>1, <1>2, <2>2, <3>1, <3>2
  <2>3. \A k \in 0..(Len(seq) - m) : k \in Good
    <3> HIDE DEF Good
    <3>1. Len(seq) - m \in Nat
      OBVIOUS
    <3> QED
      BY <2>1, <2>2, <3>1, OneByOne
  <2>4. n - m \in 0..(Len(seq) - m) /\ m + (n - m) = n
    BY <1>4
  <2> QED
    BY <2>3, <2>4
<1>5. 0 \in 0..Len(seq) /\ \A n \in 0..Len(seq) : 0 <= n
  OBVIOUS
<1> QED
  BY <1>1, <1>4, <1>5 DEF t

\* The total of the sums, term by term.
LEMMA TotallingPairs ==
  ASSUME NEW s, NEW t, NEW both, Len(s) \in Nat, Len(t) = Len(s), Len(both) = Len(s),
         \A n \in 1..Len(s) : s[n] \in Rationals /\ t[n] \in Rationals /\ both[n] = Plus(s[n], t[n])
  PROVE  \A n \in 0..Len(s) : Totalling(both)[n] = Plus(Totalling(s)[n], Totalling(t)[n])
<1> DEFINE f == Totalling(s)
           g == Totalling(t)
           h == Totalling(both)
           Good == {n \in 0..Len(s) : h[n] = Plus(f[n], g[n])}
<1>1. /\ f[0] = Zero /\ \A n \in 1..Len(s) : f[n] = Plus(f[n - 1], s[n])
      /\ \A n \in 0..Len(s) : f[n] \in Rationals
  BY TotallingStep, TotallingRational
<1>2. /\ g[0] = Zero /\ \A n \in 1..Len(s) : g[n] = Plus(g[n - 1], t[n])
      /\ \A n \in 0..Len(s) : g[n] \in Rationals
  BY TotallingStep, TotallingRational
<1>3. h[0] = Zero /\ \A n \in 1..Len(s) : h[n] = Plus(h[n - 1], both[n])
  BY TotallingStep
<1> HIDE DEF f, g, h
<1>4. 0 \in Good
  BY <1>1, <1>2, <1>3, PlusLaws, ZeroIs
<1>5. ASSUME NEW n \in 0..(Len(s) - 1), n \in Good PROVE n + 1 \in Good
  <2>1. n + 1 \in 1..Len(s) /\ (n + 1) - 1 = n /\ n \in 0..Len(s) /\ n + 1 \in 0..Len(s)
    OBVIOUS
  <2>2. /\ f[n + 1] = Plus(f[n], s[n + 1]) /\ g[n + 1] = Plus(g[n], t[n + 1])
        /\ h[n + 1] = Plus(Plus(f[n], g[n]), Plus(s[n + 1], t[n + 1]))
    BY <1>1, <1>2, <1>3, <1>5, <2>1
  <2>3. f[n] \in Rationals /\ g[n] \in Rationals /\ s[n + 1] \in Rationals /\ t[n + 1] \in Rationals
    BY <1>1, <1>2, <2>1
  <2>4. h[n + 1] = Plus(f[n + 1], g[n + 1])
    BY <2>2, <2>3, PlusPairs
  <2> QED
    BY <2>1, <2>4
<1>6. \A n \in 0..Len(s) : n \in Good
  <2> HIDE DEF Good
  <2> QED
    BY <1>4, <1>5, OneByOne
<1> QED
  BY <1>6 DEF f, g, h

\* The total of what has been spread.
LEMMA TotallingOver ==
  ASSUME NEW s, NEW t, NEW f \in Rationals, f # Zero, Len(s) \in Nat, Len(t) = Len(s),
         \A n \in 1..Len(s) : s[n] \in Rationals /\ t[n] = Over(s[n], f)
  PROVE  \A n \in 0..Len(s) : Totalling(t)[n] = Over(Totalling(s)[n], f)
<1> DEFINE a == Totalling(s)
           b == Totalling(t)
           Good == {n \in 0..Len(s) : b[n] = Over(a[n], f)}
<1>1. /\ a[0] = Zero /\ \A n \in 1..Len(s) : a[n] = Plus(a[n - 1], s[n])
      /\ \A n \in 0..Len(s) : a[n] \in Rationals
  BY TotallingStep, TotallingRational
<1>2. b[0] = Zero /\ \A n \in 1..Len(s) : b[n] = Plus(b[n - 1], t[n])
  BY TotallingStep
<1> HIDE DEF a, b
<1>3. \A p, q \in Rationals : Plus(Over(p, f), Over(q, f)) = Over(Plus(p, q), f) /\ Over(Zero, f) = Zero
  BY OverLaws
<1>4. 0 \in Good
  BY <1>1, <1>2, <1>3, ZeroIs
<1>5. ASSUME NEW n \in 0..(Len(s) - 1), n \in Good PROVE n + 1 \in Good
  <2>1. n + 1 \in 1..Len(s) /\ (n + 1) - 1 = n /\ n \in 0..Len(s) /\ n + 1 \in 0..Len(s)
    OBVIOUS
  <2>2. a[n + 1] = Plus(a[n], s[n + 1]) /\ b[n + 1] = Plus(Over(a[n], f), Over(s[n + 1], f))
    BY <1>1, <1>2, <1>5, <2>1
  <2>3. b[n + 1] = Over(a[n + 1], f)
    BY <1>1, <1>3, <2>1, <2>2
  <2> QED
    BY <2>1, <2>3
<1>6. \A n \in 0..Len(s) : n \in Good
  <2> HIDE DEF Good
  <2> QED
    BY <1>4, <1>5, OneByOne
<1> QED
  BY <1>6 DEF a, b

\* A running total stays where it is while there is nothing to add.
LEMMA TotallingStays ==
  ASSUME NEW seq, Len(seq) \in Nat, \A n \in 1..Len(seq) : seq[n] \in Rationals,
         NEW m \in 0..Len(seq), \A n \in (m + 1)..Len(seq) : seq[n] = Zero
  PROVE  \A n \in m..Len(seq) : Totalling(seq)[n] = Totalling(seq)[m]
<1> DEFINE t == Totalling(seq)
           Good == {n \in 0..(Len(seq) - m) : t[m + n] = t[m]}
<1>1. 0 \in Good
  OBVIOUS
<1>2. ASSUME NEW n \in 0..((Len(seq) - m) - 1), n \in Good PROVE n + 1 \in Good
  <2>1. /\ m + n + 1 \in 1..Len(seq) /\ (m + n + 1) - 1 = m + n /\ m + n + 1 \in (m + 1)..Len(seq)
        /\ m + (n + 1) = m + n + 1 /\ n + 1 \in 0..(Len(seq) - m) /\ m + n \in 0..Len(seq)
    OBVIOUS
  <2>2. t[m + n + 1] = Plus(t[m + n], Zero)
    BY <2>1, TotallingStep
  <2>3. t[m + n] \in Rationals
    BY <2>1, TotallingRational
  <2>4. t[m + n + 1] = t[m + n]
    BY <2>2, <2>3, PlusLaws
  <2> QED
    BY <1>2, <2>1, <2>4
<1>3. \A n \in 0..(Len(seq) - m) : n \in Good
  <2> HIDE DEF Good
  <2>1. Len(seq) - m \in Nat
    OBVIOUS
  <2> QED
    BY <1>1, <1>2, <2>1, OneByOne
<1>4. ASSUME NEW n \in m..Len(seq) PROVE t[n] = t[m]
  <2>1. n - m \in 0..(Len(seq) - m) /\ m + (n - m) = n
    OBVIOUS
  <2> QED
    BY <1>3, <2>1, SMTT(40)
<1> QED
  BY <1>4

-------------------------------------------------------------------------------
(* Folds *)

\* A fold from the left over m terms, over any of them: the last is applied last.
IsFolding(fold, m, base, steps) ==
  fold = [s \in SUBSET (1..m) |->
            IF s = {} THEN base ELSE steps[Max(s)][fold[s \ {Max(s)}]]]

\* The greatest of a set of numbers up to m that m is in.
LEMMA MaxOfUpTo ==
  ASSUME NEW m \in Nat, NEW s \in SUBSET (1..m), m \in s
  PROVE  Max(s) = m
<1>1. s \in SUBSET Int /\ \A n \in s : n <= m
  OBVIOUS
<1> QED
  BY <1>1, MaxIs

\* A set of such numbers has a greatest.
LEMMA MaxInUpTo ==
  ASSUME NEW m \in Nat, NEW s \in SUBSET (1..m), s # {}
  PROVE  Max(s) \in s /\ Max(s) \in 1..m
<1> DEFINE Bounds == {n \in Nat : \A k \in s : k <= n}
<1>1. Bounds \in SUBSET Nat /\ Bounds # {}
  <2>1. m \in Bounds
    OBVIOUS
  <2> QED
    BY <2>1
<1> HIDE DEF Bounds
<1>2. PICK n \in Bounds : \A k \in Bounds : n <= k
  BY <1>1, LeastOne
<1>3. n \in Nat /\ \A k \in s : k <= n
  BY <1>2 DEF Bounds
<1>4. n \in s
  <2> SUFFICES ASSUME n \notin s PROVE FALSE
    OBVIOUS
  <2>1. \A k \in s : k <= n - 1 /\ k >= 1
    BY <1>3
  <2>2. n - 1 \in Nat
    <3>1. PICK k \in s : TRUE
      OBVIOUS
    <3>2. k \in Nat /\ k <= n - 1
      BY <2>1
    <3> QED
      BY <1>3, <3>2
  <2>3. n - 1 \in Bounds
    BY <2>1, <2>2 DEF Bounds
  <2> QED
    BY <1>2, <1>3, <2>3
<1> QED
  BY <1>3, <1>4, MaxIs

\* Whatever the steps from state to state, there is such a fold: one over the first m terms
\* can be extended to those of m + 1.
LEMMA FoldingExists ==
  ASSUME NEW N \in Nat, NEW State, NEW base \in State, NEW steps \in [1..N -> [State -> State]]
  PROVE  \E fold \in [SUBSET (1..N) -> State] : IsFolding(fold, N, base, steps)
<1> DEFINE Good == {m \in 0..N : \E fold \in [SUBSET (1..m) -> State] : IsFolding(fold, m, base, steps)}
<1>1. 0 \in Good
  <2> DEFINE fold == [s \in SUBSET (1..0) |-> base]
  <2>1. \A s \in SUBSET (1..0) : s = {}
    OBVIOUS
  <2>2. fold \in [SUBSET (1..0) -> State] /\ IsFolding(fold, 0, base, steps)
    BY <2>1 DEF IsFolding
  <2> QED
    BY <2>2
<1>2. ASSUME NEW m \in 0..(N - 1), m \in Good PROVE m + 1 \in Good
  <2>1. PICK part \in [SUBSET (1..m) -> State] : IsFolding(part, m, base, steps)
    BY <1>2
  <2> DEFINE fold == [s \in SUBSET (1..(m + 1)) |->
                        IF m + 1 \in s THEN steps[m + 1][part[s \ {m + 1}]] ELSE part[s]]
  <2>2. m + 1 \in 1..N /\ m + 1 \in Nat /\ m \in Nat
    OBVIOUS
  <2>3. ASSUME NEW s \in SUBSET (1..(m + 1)), m + 1 \in s
        PROVE  s \ {m + 1} \in SUBSET (1..m) /\ Max(s) = m + 1
    BY <2>2, <2>3, MaxOfUpTo
  <2>4. ASSUME NEW s \in SUBSET (1..(m + 1)), m + 1 \notin s
        PROVE  s \in SUBSET (1..m) /\ s \ {Max(s)} \in SUBSET (1..m)
    <3>1. s \in SUBSET (1..m)
      BY <2>2, <2>4
    <3> DEFINE l == Max(s)
    <3> HIDE DEF l
    <3>2. s \ {l} \in SUBSET (1..m)
      BY <3>1
    <3> QED
      BY <3>1, <3>2 DEF l
  <2>5. \A s \in SUBSET (1..m) : fold[s] = part[s]
    BY <2>2
  <2>6. fold \in [SUBSET (1..(m + 1)) -> State]
    <3>1. ASSUME NEW s \in SUBSET (1..(m + 1)) PROVE fold[s] \in State
      <4>1. CASE m + 1 \in s
        BY <2>2, <2>3, <4>1
      <4>2. CASE m + 1 \notin s
        BY <2>4, <4>2
      <4> QED
        BY <4>1, <4>2
    <3> QED
      BY <3>1
  <2>7. ASSUME NEW s \in SUBSET (1..(m + 1))
        PROVE  fold[s] = IF s = {} THEN base ELSE steps[Max(s)][fold[s \ {Max(s)}]]
    <3>1. CASE m + 1 \in s
      <4>1. Max(s) = m + 1 /\ fold[s \ {m + 1}] = part[s \ {m + 1}]
        BY <2>3, <2>5, <3>1
      <4> QED
        BY <3>1, <4>1
    <3>2. CASE m + 1 \notin s
      <4>1. s \in SUBSET (1..m) /\ fold[s] = part[s]
        BY <2>4, <2>5, <3>2
      <4>2. part[s] = IF s = {} THEN base ELSE steps[Max(s)][part[s \ {Max(s)}]]
        BY <2>1, <4>1 DEF IsFolding
      <4>3. s # {} => fold[s \ {Max(s)}] = part[s \ {Max(s)}]
        BY <2>4, <2>5, <3>2
      <4> QED
        BY <4>1, <4>2, <4>3
    <3> QED
      BY <3>1, <3>2
  <2> DEFINE body == [s \in SUBSET (1..(m + 1)) |->
                        IF s = {} THEN base ELSE steps[Max(s)][fold[s \ {Max(s)}]]]
  <2>8. fold = body
    <3>1. fold = [s \in SUBSET (1..(m + 1)) |-> fold[s]]
      OBVIOUS
    <3> HIDE DEF fold
    <3> QED
      BY <2>7, <3>1
  <2>9. IsFolding(fold, m + 1, base, steps)
    BY <2>8 DEF IsFolding
  <2> HIDE DEF fold
  <2>10. m + 1 \in 0..N
    OBVIOUS
  <2> QED
    BY <2>6, <2>9, <2>10
<1>3. N \in Good
  <2> HIDE DEF Good
  <2>1. \A n \in 0..N : n \in Good
    BY <1>1, <1>2, OneByOne
  <2> QED
    BY <2>1
<1> QED
  BY <1>3

-------------------------------------------------------------------------------
(* Totals of rationals over finite sets *)

Summed(f, S) == FoldSet(LAMBDA c, sum : Plus(sum, f[c]), Zero, S)

IsFolded(sum, f, S) ==
  sum = [s \in SUBSET S |-> IF s = {} THEN Zero ELSE Plus(sum[s \ {OneOf(s)}], f[OneOf(s)])]

Folded(f, S) == CHOOSE sum : IsFolded(sum, f, S)

\* Such a total is a fold as well.
LEMMA SummedIs == ASSUME NEW f, NEW S PROVE Summed(f, S) = Folded(f, S)[S]
BY DEF Summed, FoldSet, MapThenFoldSet, Folded, IsFolded, OneOf

\* There is such a function over the subsets of a finite set.
LEMMA FoldedExists ==
  ASSUME NEW f, NEW S, IsFiniteSet(S)
  PROVE  IsFolded(Folded(f, S), f, S)
<1> DEFINE UpTo(n) == {s \in SUBSET S : Cardinality(s) <= n}
           Body(sum, s) == IF s = {} THEN Zero ELSE Plus(sum[s \ {OneOf(s)}], f[OneOf(s)])
           IsPart(sum, n) == sum = [s \in UpTo(n) |-> Body(sum, s)]
           None == {n \in Nat : ~ \E sum : IsPart(sum, n)}
<1>1. \A s \in SUBSET S : IsFiniteSet(s) /\ Cardinality(s) \in Nat
  BY FS_Subset, FS_CardinalityType
<1>2. \A s \in SUBSET S : s # {} => /\ OneOf(s) \in s
                                    /\ Cardinality(s \ {OneOf(s)}) = Cardinality(s) - 1
  <2> SUFFICES ASSUME NEW s \in SUBSET S, s # {}
               PROVE  OneOf(s) \in s /\ Cardinality(s \ {OneOf(s)}) = Cardinality(s) - 1
    OBVIOUS
  <2>1. OneOf(s) \in s
    BY DEF OneOf
  <2> QED
    BY <1>1, <2>1, FS_RemoveElement
<1>3. None = {}
  <2> SUFFICES ASSUME None # {} PROVE FALSE
    OBVIOUS
  <2>1. PICK n \in None : \A m \in None : <<m, n>> \notin OpToRel(<, Nat)
    <3>1. None \subseteq Nat
      OBVIOUS
    <3> HIDE DEF None
    <3> QED
      BY <3>1, NatLessThanWellFounded, WFMin
  <2>2. n \in Nat /\ \A m \in None : ~(m < n)
    BY <2>1 DEF OpToRel
  <2>3. CASE n = 0
    <3>1. \A s \in UpTo(0) : s = {}
      BY <1>1, FS_EmptySet
    <3> DEFINE sum == [s \in UpTo(0) |-> Zero]
    <3>2. IsPart(sum, 0)
      BY <3>1
    <3> QED
      BY <2>3, <3>2
  <2>4. CASE n # 0
    <3>0. n - 1 \in Nat /\ n - 1 < n
      BY <2>2, <2>4
    <3>1. n - 1 \notin None
      <4> HIDE DEF None
      <4> QED
        BY <2>2, <3>0
    <3>2. PICK part : IsPart(part, n - 1)
      BY <3>0, <3>1
    <3> DEFINE sum == [s \in UpTo(n) |-> Body(part, s)]
    <3>3. ASSUME NEW s \in UpTo(n) PROVE Body(part, s) = Body(sum, s)
      <4>1. CASE s = {}
        BY <4>1
      <4>2. CASE s # {}
        <5> DEFINE t == s \ {OneOf(s)}
        <5>1. t \in UpTo(n - 1) /\ t \in UpTo(n)
          BY <1>1, <1>2, <2>2, <4>2
        <5>2. part[t] = Body(part, t)
          BY <3>2, <5>1
        <5>3. sum[t] = part[t]
          BY <5>1, <5>2
        <5> QED
          BY <4>2, <5>3
      <4> QED
        BY <4>1, <4>2
    <3>4. IsPart(sum, n)
      BY <3>3
    <3> QED
      BY <3>4
  <2> QED
    BY <2>3, <2>4
<1>4. Cardinality(S) \in Nat
  BY <1>1
<1>5. PICK sum : IsPart(sum, Cardinality(S))
  BY <1>3, <1>4
<1>6. UpTo(Cardinality(S)) = SUBSET S
  BY <1>1, FS_Subset
<1>7. IsFolded(sum, f, S)
  BY <1>5, <1>6 DEF IsFolded
<1> QED
  BY <1>7 DEF Folded

\* Over a subset of a finite set, whichever set it is found in.
LEMMA FoldedAgrees ==
  ASSUME NEW f, NEW S, IsFiniteSet(S), NEW T \in SUBSET S
  PROVE  Folded(f, S)[T] = Summed(f, T)
<1> DEFINE g == Folded(f, S)
           h == Folded(f, T)
           Good == {s \in SUBSET T : g[s] = h[s]}
<1>1. IsFiniteSet(T)
  BY FS_Subset
<1>2. IsFolded(g, f, S) /\ IsFolded(h, f, T)
  BY <1>1, FoldedExists
<1>3. {} \in Good
  BY <1>2 DEF IsFolded
<1>4. ASSUME NEW s \in SUBSET T, s # {} PROVE \E x \in s : s \ {x} \in Good => s \in Good
  <2>1. OneOf(s) \in s
    BY <1>4 DEF OneOf
  <2>2. /\ g[s] = Plus(g[s \ {OneOf(s)}], f[OneOf(s)])
        /\ h[s] = Plus(h[s \ {OneOf(s)}], f[OneOf(s)])
    BY <1>2, <1>4 DEF IsFolded
  <2> QED
    BY <2>1, <2>2
<1>5. T \in Good
  <2> HIDE DEF Good
  <2> QED
    BY <1>1, <1>3, <1>4, FiniteSetsGrow
<1> QED
  BY <1>5, SummedIs

\* Nothing adds up to zero; one term, and the rest.
LEMMA SummedStep ==
  ASSUME NEW f, NEW S, IsFiniteSet(S)
  PROVE  /\ Summed(f, {}) = Zero
         /\ S # {} => /\ OneOf(S) \in S
                      /\ Summed(f, S) = Plus(Summed(f, S \ {OneOf(S)}), f[OneOf(S)])
<1>1. Summed(f, {}) = Zero
  <2>1. IsFolded(Folded(f, {}), f, {})
    BY FoldedExists, FS_EmptySet
  <2> QED
    BY <2>1, SummedIs DEF IsFolded
<1>2. ASSUME S # {}
      PROVE  OneOf(S) \in S /\ Summed(f, S) = Plus(Summed(f, S \ {OneOf(S)}), f[OneOf(S)])
  <2>1. OneOf(S) \in S
    BY <1>2 DEF OneOf
  <2>2. IsFolded(Folded(f, S), f, S)
    BY FoldedExists
  <2>3. Folded(f, S)[S] = Plus(Folded(f, S)[S \ {OneOf(S)}], f[OneOf(S)])
    BY <1>2, <2>2 DEF IsFolded
  <2> QED
    BY <2>1, <2>3, SummedIs, FoldedAgrees
<1> QED
  BY <1>1, <1>2

\* Rationals add up to a rational.
LEMMA SummedRational ==
  ASSUME NEW f, NEW S, IsFiniteSet(S), \A c \in S : f[c] \in Rationals
  PROVE  Summed(f, S) \in Rationals
<1> DEFINE Good == {T \in SUBSET S : Summed(f, T) \in Rationals}
<1>1. {} \in Good
  BY FS_EmptySet, SummedStep, ZeroIs
<1>2. ASSUME NEW T \in SUBSET S, T # {} PROVE \E x \in T : T \ {x} \in Good => T \in Good
  <2>1. IsFiniteSet(T)
    BY FS_Subset
  <2> DEFINE x == OneOf(T)
             rest == Summed(f, T \ {x})
  <2>2. x \in T /\ Summed(f, T) = Plus(rest, f[x])
    BY <1>2, <2>1, SummedStep
  <2>3. f[x] \in Rationals
    BY <2>2
  <2> HIDE DEF x
  <2>4. rest \in Rationals => Summed(f, T) \in Rationals
    <3>1. \A a, b \in Rationals : Plus(a, b) \in Rationals
      BY PlusLaws
    <3> QED
      BY <2>2, <2>3, <3>1
  <2> QED
    BY <2>2, <2>4
<1>3. S \in Good
  <2> HIDE DEF Good
  <2> QED
    BY <1>1, <1>2, FiniteSetsGrow
<1> QED
  BY <1>3

\* Term by term: sums of sums, of multiples, of what is ordered.
LEMMA SummedLaws ==
  ASSUME NEW f, NEW g, NEW h, NEW k \in Rationals, NEW S, IsFiniteSet(S),
         \A c \in S : f[c] \in Rationals /\ g[c] \in Rationals /\ h[c] \in Rationals
  PROVE  /\ (\A c \in S : h[c] = Plus(f[c], g[c])) => Summed(h, S) = Plus(Summed(f, S), Summed(g, S))
         /\ (\A c \in S : g[c] = Times(k, f[c])) => Summed(g, S) = Times(k, Summed(f, S))
         /\ (\A c \in S : AtMost(f[c], g[c])) => AtMost(Summed(f, S), Summed(g, S))
<1> DEFINE Added2(T) == Summed(h, T) = Plus(Summed(f, T), Summed(g, T))
           Scaled2(T) == Summed(g, T) = Times(k, Summed(f, T))
           Below(T) == AtMost(Summed(f, T), Summed(g, T))
<1>0. ASSUME NEW T \in SUBSET S, T # {}
      PROVE  \E x \in T : \E a, b, e \in Rationals :
               /\ a = Summed(f, T \ {x}) /\ Summed(f, T) = Plus(a, f[x])
               /\ b = Summed(g, T \ {x}) /\ Summed(g, T) = Plus(b, g[x])
               /\ e = Summed(h, T \ {x}) /\ Summed(h, T) = Plus(e, h[x])
  <2>1. IsFiniteSet(T)
    BY FS_Subset
  <2> DEFINE x == OneOf(T)
  <2>2. /\ x \in T /\ Summed(f, T) = Plus(Summed(f, T \ {x}), f[x])
        /\ Summed(g, T) = Plus(Summed(g, T \ {x}), g[x])
        /\ Summed(h, T) = Plus(Summed(h, T \ {x}), h[x])
    BY <1>0, <2>1, SummedStep
  <2> HIDE DEF x
  <2>3. T \ {x} \in SUBSET S /\ IsFiniteSet(T \ {x})
    BY FS_Subset
  <2>4. /\ Summed(f, T \ {x}) \in Rationals /\ Summed(g, T \ {x}) \in Rationals
        /\ Summed(h, T \ {x}) \in Rationals
    BY <2>3, SummedRational
  <2> QED
    BY <2>2, <2>4
<1>1. Summed(f, {}) = Zero /\ Summed(g, {}) = Zero /\ Summed(h, {}) = Zero
  BY FS_EmptySet, SummedStep
<1>2. ASSUME \A c \in S : h[c] = Plus(f[c], g[c]) PROVE Added2(S)
  <2> DEFINE Good == {T \in SUBSET S : Added2(T)}
  <2>1. {} \in Good
    BY <1>1, ZeroIs, PlusLaws
  <2>2. ASSUME NEW T \in SUBSET S, T # {} PROVE \E x \in T : T \ {x} \in Good => T \in Good
    <3>1. PICK x \in T : \E a, b, e \in Rationals :
               /\ a = Summed(f, T \ {x}) /\ Summed(f, T) = Plus(a, f[x])
               /\ b = Summed(g, T \ {x}) /\ Summed(g, T) = Plus(b, g[x])
               /\ e = Summed(h, T \ {x}) /\ Summed(h, T) = Plus(e, h[x])
      BY <1>0, <2>2
    <3>2. PICK a \in Rationals, b \in Rationals, e \in Rationals :
               /\ a = Summed(f, T \ {x}) /\ Summed(f, T) = Plus(a, f[x])
               /\ b = Summed(g, T \ {x}) /\ Summed(g, T) = Plus(b, g[x])
               /\ e = Summed(h, T \ {x}) /\ Summed(h, T) = Plus(e, h[x])
      BY <3>1
    <3>3. f[x] \in Rationals /\ g[x] \in Rationals /\ h[x] = Plus(f[x], g[x])
      BY <1>2
    <3>4. Plus(Plus(a, b), Plus(f[x], g[x])) = Plus(Plus(a, f[x]), Plus(b, g[x]))
      BY <3>2, <3>3, PlusPairs
    <3> QED
      BY <3>2, <3>3, <3>4
  <2>3. S \in Good
    <3> HIDE DEF Good
    <3> QED
      BY <2>1, <2>2, FiniteSetsGrow
  <2> QED
    BY <2>3
<1>3. ASSUME \A c \in S : g[c] = Times(k, f[c]) PROVE Scaled2(S)
  <2> DEFINE Good == {T \in SUBSET S : Scaled2(T)}
  <2>1. {} \in Good
    BY <1>1, TimesLaws
  <2>2. ASSUME NEW T \in SUBSET S, T # {} PROVE \E x \in T : T \ {x} \in Good => T \in Good
    <3>1. PICK x \in T : \E a, b \in Rationals :
               /\ a = Summed(f, T \ {x}) /\ Summed(f, T) = Plus(a, f[x])
               /\ b = Summed(g, T \ {x}) /\ Summed(g, T) = Plus(b, g[x])
      BY <1>0, <2>2
    <3>2. PICK a \in Rationals, b \in Rationals :
               /\ a = Summed(f, T \ {x}) /\ Summed(f, T) = Plus(a, f[x])
               /\ b = Summed(g, T \ {x}) /\ Summed(g, T) = Plus(b, g[x])
      BY <3>1
    <3>3. f[x] \in Rationals /\ g[x] = Times(k, f[x])
      BY <1>3
    <3>4. Times(k, Plus(a, f[x])) = Plus(Times(k, a), Times(k, f[x]))
      <4>1. \A p, q, r \in Rationals : Times(p, Plus(q, r)) = Plus(Times(p, q), Times(p, r))
        BY TimesLaws
      <4> QED
        BY <3>3, <4>1
    <3> QED
      BY <3>2, <3>3, <3>4
  <2>3. S \in Good
    <3> HIDE DEF Good
    <3> QED
      BY <2>1, <2>2, FiniteSetsGrow
  <2> QED
    BY <2>3
<1>4. ASSUME \A c \in S : AtMost(f[c], g[c]) PROVE Below(S)
  <2> DEFINE Good == {T \in SUBSET S : Below(T)}
  <2>1. {} \in Good
    BY <1>1, ZeroIs, OrderLaws
  <2>2. ASSUME NEW T \in SUBSET S, T # {} PROVE \E x \in T : T \ {x} \in Good => T \in Good
    <3>1. PICK x \in T : \E a, b \in Rationals :
               /\ a = Summed(f, T \ {x}) /\ Summed(f, T) = Plus(a, f[x])
               /\ b = Summed(g, T \ {x}) /\ Summed(g, T) = Plus(b, g[x])
      BY <1>0, <2>2
    <3>2. PICK a \in Rationals, b \in Rationals :
               /\ a = Summed(f, T \ {x}) /\ Summed(f, T) = Plus(a, f[x])
               /\ b = Summed(g, T \ {x}) /\ Summed(g, T) = Plus(b, g[x])
      BY <3>1
    <3>3. f[x] \in Rationals /\ g[x] \in Rationals /\ AtMost(f[x], g[x])
      BY <1>4
    <3>4. AtMost(a, b) => AtMost(Plus(a, f[x]), Plus(b, g[x]))
      BY <3>2, <3>3, PlusOrder
    <3> QED
      BY <3>2, <3>4
  <2>3. S \in Good
    <3> HIDE DEF Good
    <3> QED
      BY <2>1, <2>2, FiniteSetsGrow
  <2> QED
    BY <2>3
<1> QED
  BY <1>2, <1>3, <1>4

\* Few things are finitely many.
LEMMA FiveAreFinite ==
  ASSUME NEW a, NEW b, NEW c, NEW d, NEW e PROVE IsFiniteSet({a, b, c, d, e})
<1>1. IsFiniteSet({a})
  BY FS_Singleton
<1>2. IsFiniteSet({a} \union {b})
  BY <1>1, FS_AddElement
<1>3. IsFiniteSet(({a} \union {b}) \union {c})
  BY <1>2, FS_AddElement
<1>4. IsFiniteSet((({a} \union {b}) \union {c}) \union {d})
  BY <1>3, FS_AddElement
<1>5. IsFiniteSet(((({a} \union {b}) \union {c}) \union {d}) \union {e})
  BY <1>4, FS_AddElement
<1>6. {a, b, c, d, e} = ((({a} \union {b}) \union {c}) \union {d}) \union {e}
  OBVIOUS
<1> QED
  BY <1>5, <1>6

\* Finitely many rationals have a common denominator, and so a unit.
LEMMA UnitOf ==
  ASSUME NEW S, IsFiniteSet(S), S \subseteq Rationals
  PROVE  \E u : IsUnit(u) /\ \A q \in S : \E n \in Int : q = u[n]
<1> DEFINE Common(T) == \E d \in Nat \ {0} : \A q \in T : \E n \in Int : q = Ratio(n, d)
           Good == {T \in SUBSET S : Common(T)}
<1>1. {} \in Good
  OBVIOUS
<1>2. ASSUME NEW T \in SUBSET S, T # {} PROVE \E x \in T : T \ {x} \in Good => T \in Good
  <2>1. PICK x \in T : TRUE
    BY <1>2
  <2>2. ASSUME Common(T \ {x}) PROVE Common(T)
    <3>1. PICK d \in Nat \ {0} : \A q \in T \ {x} : \E n \in Int : q = Ratio(n, d)
      BY <2>2
    <3>2. PICK m \in Int, k \in Nat \ {0} : x = Ratio(m, k)
      <4>1. x \in Rationals
        OBVIOUS
      <4> QED
        BY <4>1, IsRatio
    <3>3. d * k \in Nat \ {0} /\ m * d \in Int
      BY ProductNotZero
    <3>4. x = Ratio(m * d, d * k)
      BY <3>2, Scaled
    <3>5. ASSUME NEW q \in T \ {x} PROVE \E n \in Int : q = Ratio(n, d * k)
      <4>1. PICK n \in Int : q = Ratio(n, d)
        BY <3>1
      <4>2. q = Ratio(n * k, d * k) /\ n * k \in Int
        BY <4>1, Scaled, ProductNotZero
      <4> QED
        BY <4>2
    <3>6. \A q \in T : \E n \in Int : q = Ratio(n, d * k)
      BY <3>3, <3>4, <3>5
    <3> QED
      BY <3>3, <3>6
  <2> HIDE DEF Common
  <2> QED
    BY <2>1, <2>2
<1>3. S \in Good
  <2> HIDE DEF Good
  <2> QED
    BY <1>1, <1>2, FiniteSetsGrow
<1>4. PICK d \in Nat \ {0} : \A q \in S : \E n \in Int : q = Ratio(n, d)
  BY <1>3
<1> DEFINE u == [m \in Int |-> Ratio(m, d)]
<1>5. IsUnit(u)
  BY UnitIs
<1>6. \A n \in Int : u[n] = Ratio(n, d)
  OBVIOUS
<1> HIDE DEF u
<1>7. \A q \in S : \E n \in Int : q = u[n]
  BY <1>4, <1>6
<1> QED
  BY <1>5, <1>7

===============================================================================
