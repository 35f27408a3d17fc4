---------------------------- MODULE OceanYear_proofs ----------------------------
(***************************************************************************)
(* Proofs about the ocean's year, for any grid, any number of years and     *)
(* months and any sheets: the melt an ice sheet is run with, the shape of   *)
(* the ocean's surface, and the ice that is taken and given.                *)
(***************************************************************************)
EXTENDS OceanYear, Finite_proofs

-------------------------------------------------------------------------------
(* The melt on an ice sheet's grid: whichever script is used, whatever the ocean masks and
   however the two grids lie, a point gets the melt of the cavities it lies among. *)

\* A set of numbers has a least one, and Min is it.
LEMMA LeastIsOne ==
  ASSUME NEW S, S \subseteq Nat, S # {}
  PROVE  Min(S) \in S /\ \A y \in S : Min(S) <= y
<1>1. \E x \in S : \A y \in S : x <= y
  <2>1. PICK x \in S : \A y \in S : <<y, x>> \notin OpToRel(<, Nat)
    BY NatLessThanWellFounded, WFMin
  <2>2. \A y \in S : ~(y < x)
    BY <2>1 DEF OpToRel
  <2> QED
    BY <2>2
<1> QED
  BY <1>1, Zenon DEF Min

LEMMA CellsAreNumbers == Cells \subseteq Nat
<1>1. NJ \in Nat /\ NI \in Nat
  BY GeometryAssumption
<1>2. NJ * NI \in Nat
  BY <1>1
<1> QED
  BY <1>2 DEF Cells

\* What is between two melts, in parts, has their sign and is no larger than one that
\* counts.
IsBetween(w, a, b, m) ==
  /\ m \in Int
  /\ (w > 0 => a >= 0) /\ (w < Parts => b >= 0) /\ ((w > 0 /\ a > 0) \/ (w < Parts /\ b > 0))
       => m < 0
  /\ (w > 0 => a <= 0) /\ (w < Parts => b <= 0) /\ ((w > 0 /\ a < 0) \/ (w < Parts /\ b < 0))
       => m > 0
  /\ (w > 0 => a = 0) /\ (w < Parts => b = 0) => m = 0
  /\ \/ w > 0 /\ Abs(m) <= Parts * Abs(a)
     \/ w < Parts /\ Abs(m) <= Parts * Abs(b)

LEMMA WeightedMelt ==
  ASSUME NEW w \in 0..Parts, NEW a \in Int, NEW b \in Int
  PROVE  IsBetween(w, a, b, -(w * a + (Parts - w) * b))
<1> USE DEF IsBetween
<1>1. CASE w = 0
  BY <1>1 DEF Parts, Abs
<1>2. CASE w = 1
  BY <1>2 DEF Parts, Abs
<1>3. CASE w = 2
  BY <1>3 DEF Parts, Abs
<1>4. CASE w = 3
  BY <1>4 DEF Parts, Abs
<1>5. CASE w = 4
  BY <1>5 DEF Parts, Abs
<1> QED
  BY <1>1, <1>2, <1>3, <1>4, <1>5 DEF Parts

-------------------------------------------------------------------------------
(* The scripts that interpolate only *)

\* With the mask filled in, a cell without a cavity has no melt and none has no value.
LEMMA FilledMelt ==
  ASSUME NEW draft, NEW c \in Cells
  PROVE  LET sign == IF MeltScript = "nemo4.2" THEN 1 ELSE -1
         IN  /\ Filled(OceanMelt(draft)).mask = {}
             /\ Filled(OceanMelt(draft)).data[c] =
                  IF c \in Cavities(draft) THEN sign * Rate[c] ELSE 0
  BY DEF Filled, OceanMelt, Cavities

LEMMA InterpolatedMelt ==
  ASSUME NEW draft, NEW p \in GridPoints, MeltScript # "NNR"
  PROVE  IsMeltOf(Reach(draft, p), RegriddedMelt(OceanMelt(draft), p))
<1> DEFINE field == Filled(OceanMelt(draft))
           melt == RegriddedMelt(OceanMelt(draft), p)
           rate(c) == IF c \in Cavities(draft) THEN Rate[c] ELSE 0
           w == Weight[p]
           a == rate(Corner[p])
           b == rate(OtherCorner[p])
<1>1. /\ Corner[p] \in Cells /\ OtherCorner[p] \in Cells /\ w \in 0..Parts
      /\ \A c \in Cells : Rate[c] \in Int
  BY MeltAssumption
<1>2. a \in Int /\ b \in Int
  BY <1>1
<1>3. HasValue(field, p) <=> p \notin Outside
  BY <1>1, FilledMelt DEF HasValue
<1>4. melt = IF MeltScript = "nemo4.2" THEN -Linear(field, p) ELSE Linear(field, p)
  BY DEF RegriddedMelt, MeltNemo42, MeltNemo36
<1>5. CASE p \in Outside
  <2>1. Linear(field, p) = 0
    BY <1>3, <1>5 DEF Linear
  <2>2. melt = 0
    <3>1. \A x \in Int : -x = 0 - x
      OBVIOUS
    <3>2. melt = 0 \/ melt = -Linear(field, p)
      BY <1>4, <2>1, Zenon
    <3>3. -Linear(field, p) = 0 - Linear(field, p) /\ Linear(field, p) \in Int
      BY <2>1, <3>1, 0 \in Int, Zenon
    <3> HIDE DEF melt, field
    <3>4. melt = 0 \/ melt = 0 - Linear(field, p)
      BY <3>2, <3>3, Zenon
    <3> QED
      BY <2>1, <3>4
  <2>3. Reach(draft, p) = {}
    BY <1>5 DEF Reach
  <2> QED
    BY <2>2, <2>3 DEF IsMeltOf
<1>6. CASE p \notin Outside
  <2> HIDE DEF melt
  <2>1. melt = -(w * a + (Parts - w) * b)
    <3>1. Linear(field, p) = w * field.data[Corner[p]] + (Parts - w) * field.data[OtherCorner[p]]
      BY <1>3, <1>6 DEF Linear
    <3>2. CASE MeltScript = "nemo4.2"
      <4>1. field.data[Corner[p]] = a /\ field.data[OtherCorner[p]] = b
        BY <1>1, <3>2, FilledMelt
      <4> QED
        BY <1>4, <3>1, <3>2, <4>1
    <3>3. CASE MeltScript # "nemo4.2"
      <4>1. field.data[Corner[p]] = -a /\ field.data[OtherCorner[p]] = -b
        BY <1>1, <3>3, FilledMelt
      <4>2. ASSUME NEW u \in 0..Parts, NEW x \in Int, NEW y \in Int
            PROVE  u * (-x) + (Parts - u) * (-y) = -(u * x + (Parts - u) * y)
        BY DEF Parts
      <4>3. w * (-a) + (Parts - w) * (-b) = -(w * a + (Parts - w) * b)
        BY <1>1, <1>2, <4>2
      <4> QED
        BY <1>4, <3>1, <3>3, <4>1, <4>3
    <3> QED
      BY <3>2, <3>3
  <2>2. Reach(draft, p) = {c \in Cavities(draft) : (c = Corner[p] /\ w > 0)
                                                    \/ (c = OtherCorner[p] /\ w < Parts)}
    BY <1>6 DEF Reach
  <2> DEFINE reach == Reach(draft, p)
  <2>3. /\ w > 0 /\ Corner[p] \notin reach => a = 0
        /\ w < Parts /\ OtherCorner[p] \notin reach => b = 0
        /\ Corner[p] \in reach => a = Rate[Corner[p]]
        /\ OtherCorner[p] \in reach => b = Rate[OtherCorner[p]]
        /\ \A c \in reach : (c = Corner[p] /\ w > 0 /\ a = Rate[c])
                             \/ (c = OtherCorner[p] /\ w < Parts /\ b = Rate[c])
    BY <2>2
  <2> HIDE DEF a, b, w, reach
  <2>4. IsBetween(w, a, b, melt)
    BY <1>1, <1>2, <2>1, WeightedMelt
  <2>5. ASSUME reach # {}, \A c \in reach : Rate[c] > 0 PROVE melt < 0
    <3>1. (w > 0 => a >= 0) /\ (w < Parts => b >= 0)
      BY <1>2, <2>3, <2>5
    <3>2. (w > 0 /\ a > 0) \/ (w < Parts /\ b > 0)
      BY <2>3, <2>5
    <3> QED
      BY <2>4, <3>1, <3>2 DEF IsBetween
  <2>6. ASSUME reach # {}, \A c \in reach : Rate[c] < 0 PROVE melt > 0
    <3>1. (w > 0 => a <= 0) /\ (w < Parts => b <= 0)
      BY <1>2, <2>3, <2>6
    <3>2. (w > 0 /\ a < 0) \/ (w < Parts /\ b < 0)
      BY <2>3, <2>6
    <3> QED
      BY <2>4, <3>1, <3>2 DEF IsBetween
  <2>7. reach = {} => melt = 0
    BY <2>3, <2>4 DEF IsBetween
  <2>8. ASSUME reach # {} PROVE \E c \in reach : Abs(melt) <= Parts * Abs(Rate[c])
    <3>0. PICK r \in reach : TRUE
      BY <2>8
    <3>1. CASE melt = 0
      <4>1. Rate[r] \in Int
        BY <1>2, <2>3
      <4> QED
        BY <3>1, <4>1 DEF Abs, Parts
    <3>2. CASE melt # 0
      <4>1. ASSUME NEW x \in Int, Abs(melt) <= Parts * Abs(x) PROVE x # 0
        BY <2>4, <3>2, <4>1 DEF Abs, Parts, IsBetween
      <4>2. CASE w > 0 /\ Abs(melt) <= Parts * Abs(a)
        BY <1>2, <2>3, <4>1, <4>2
      <4>3. CASE w < Parts /\ Abs(melt) <= Parts * Abs(b)
        BY <1>2, <2>3, <4>1, <4>3
      <4> QED
        BY <2>4, <4>2, <4>3 DEF IsBetween
    <3> QED
      BY <3>1, <3>2
  <2> QED
    BY <2>5, <2>6, <2>7, <2>8 DEF IsMeltOf, reach, melt
<1> QED
  BY <1>5, <1>6

-------------------------------------------------------------------------------
(* The script that goes on to the nearest *)

\* The cells that have a value once zeros are masked are those with melt.
LEMMA ValuedMelt ==
  ASSUME NEW draft, MeltScript = "NNR"
  PROVE  LET field == ZerosMasked(OceanMelt(draft))
             reach == {c \in Cavities(draft) : Rate[c] # 0}
         IN  /\ Cells \ field.mask = reach
             /\ \A c \in reach : field.data[c] = -Rate[c]
<1> DEFINE ocean == OceanMelt(draft)
           reach == {c \in Cavities(draft) : Rate[c] # 0}
<1>1. \A c \in Cells : Rate[c] \in Int
  BY MeltAssumption
<1>2. \A c \in Cells : c \in Cavities(draft) => c \notin ocean.mask /\ ocean.data[c] = -Rate[c]
  BY <1>1 DEF OceanMelt
<1>3. \A c \in Cells : c \notin Cavities(draft) => c \in ocean.mask \/ ocean.data[c] = 0
  BY MeltAssumption DEF OceanMelt
<1>4. /\ ZerosMasked(ocean).data = ocean.data
      /\ ZerosMasked(ocean).mask = ocean.mask \union {c \in Cells : ocean.data[c] = 0}
  BY DEF ZerosMasked, OceanMelt
<1>5. Cavities(draft) \subseteq Cells
  BY DEF Cavities
<1> HIDE DEF ocean
<1>6. Cells \ ZerosMasked(ocean).mask = reach
  BY <1>1, <1>2, <1>3, <1>4, <1>5
<1>7. \A c \in reach : ZerosMasked(ocean).data[c] = -Rate[c]
  BY <1>2, <1>4, <1>5
<1> QED
  BY <1>6, <1>7 DEF ocean

LEMMA NearestMelt ==
  ASSUME NEW draft, NEW p \in GridPoints, MeltScript = "NNR"
  PROVE  IsMeltOf(Reach(draft, p), RegriddedMelt(OceanMelt(draft), p))
<1> DEFINE field == ZerosMasked(OceanMelt(draft))
           melt == RegriddedMelt(OceanMelt(draft), p)
           reach == Reach(draft, p)
           w == Weight[p]
<1>1. /\ reach \subseteq Cells /\ Cells \ field.mask = reach
      /\ \A c \in reach : field.data[c] = -Rate[c] /\ Rate[c] # 0
  BY ValuedMelt DEF Reach, Cavities
<1>2. /\ Corner[p] \in Cells /\ OtherCorner[p] \in Cells /\ w \in 0..Parts
      /\ \A c \in Cells : Rate[c] \in Int /\ HowFar[p][c] \in Nat
  BY MeltAssumption
<1>3. melt = IF Linear(field, p) = 0 THEN NearestValue(field, p) ELSE Linear(field, p)
  BY DEF RegriddedMelt, MeltNNR
<1> HIDE DEF field, melt, reach, w
<1>4. CASE reach = {}
  BY <1>4 DEF IsMeltOf, reach
<1>5. CASE reach # {} /\ Linear(field, p) = 0
  <2> DEFINE nearest == {c \in reach : \A d \in reach : HowFar[p][c] <= HowFar[p][d]}
             distances == {HowFar[p][c] : c \in reach}
  <2>1. nearest # {} /\ nearest \subseteq Nat
    <3>0. distances \subseteq Nat /\ distances # {}
      BY <1>1, <1>2, <1>5
    <3>1. Min(distances) \in distances /\ \A y \in distances : Min(distances) <= y
      <4> HIDE DEF distances
      <4> QED
        BY <3>0, LeastIsOne
    <3>2. PICK c \in reach : HowFar[p][c] = Min(distances)
      BY <3>1
    <3>3. c \in nearest
      BY <3>1, <3>2
    <3>4. nearest \subseteq Cells
      BY <1>1
    <3> QED
      BY <3>3, <3>4, CellsAreNumbers
  <2>2. PICK c \in reach : c = Min(nearest)
    BY <2>1, LeastIsOne
  <2>3. melt = Parts * field.data[c]
    BY <1>1, <1>3, <1>5, <2>2 DEF NearestValue
  <2>4. melt = Parts * (-Rate[c]) /\ Rate[c] \in Int
    BY <1>1, <1>2, <2>3
  <2>5. (Rate[c] > 0 => melt < 0) /\ (Rate[c] < 0 => melt > 0)
        /\ Abs(melt) <= Parts * Abs(Rate[c])
    BY <2>4 DEF Parts, Abs
  <2> QED
    BY <1>5, <2>5 DEF IsMeltOf, reach, melt
<1>6. CASE reach # {} /\ Linear(field, p) # 0
  <2> DEFINE a == Rate[Corner[p]]
             b == Rate[OtherCorner[p]]
  <2>1. HasValue(field, p)
    BY <1>6 DEF Linear
  <2>2. Corner[p] \in reach /\ OtherCorner[p] \in reach
    BY <1>1, <1>2, <2>1 DEF HasValue
  <2>3. a \in Int /\ b \in Int
    BY <1>2
  <2>4. melt = w * (-a) + (Parts - w) * (-b)
    BY <1>1, <1>3, <1>6, <2>1, <2>2 DEF Linear, w
  <2> HIDE DEF a, b
  <2>5. ASSUME NEW u \in 0..Parts, NEW x \in Int, NEW y \in Int
        PROVE  u * (-x) + (Parts - u) * (-y) = -(u * x + (Parts - u) * y)
    BY DEF Parts
  <2>6. melt = -(w * a + (Parts - w) * b)
    BY <1>2, <2>3, <2>4, <2>5
  <2>7. /\ a > 0 /\ b > 0 => melt < 0
        /\ a < 0 /\ b < 0 => melt > 0
        /\ Abs(melt) <= Parts * Abs(a) \/ Abs(melt) <= Parts * Abs(b)
    <3>1. IsBetween(w, a, b, melt)
      BY <1>2, <2>3, <2>6, WeightedMelt
    <3> QED
      BY <1>2, <2>3, <3>1 DEF IsBetween, Parts
  <2> QED
    BY <2>2, <2>7 DEF IsMeltOf, reach, melt, a, b
<1> QED
  BY <1>4, <1>5, <1>6

\* Whichever script is used, a point melts as the cavities it may take melt from do, and
\* not at all if there are none (nemo4.2_to_regional_bisicles.py and its siblings).
THEOREM MeltOfItsCavities ==
  \A draft : \A p \in GridPoints :
    IsMeltOf(Reach(draft, p), RegriddedMelt(OceanMelt(draft), p))
  BY InterpolatedMelt, NearestMelt

-------------------------------------------------------------------------------
(* The melt of the year *)

\* The months that are there are months the ocean has run, a mean is of all of them, and
\* until the ocean has a new draft it is of the cavities of the present one.
AverageOfTheYear ==
  Missing(average) \/
    /\ average.of.of = year /\ average.of.months = 1..Months
    /\ gpc # "done" => average.of.melt = OceanMelt(shelf.of)

MeltInv ==
  /\ month \in 0..Months /\ copied \subseteq 1..month
  /\ AverageOfTheYear
  /\ pc = [s \in Coupled |-> pc[s]] /\ melted = [s \in Coupled |-> melted[s]]
  /\ MeltOfTheYear

LEMMA MeltInit == ASSUME Init PROVE MeltInv
<1>1. 0 \in 0..Months
  BY OceanAssumption
<1>2. pc = [s \in Coupled |-> pc[s]] /\ melted = [s \in Coupled |-> melted[s]] /\ MeltOfTheYear
  BY DEF Init, MeltOfTheYear
<1> QED
  BY <1>1, <1>2 DEF Init, MeltInv, AverageOfTheYear, NoFile, Missing

\* What MeltInv says of a step that leaves the mean and what the ice sheets ran with.
LEMMA MeltUntouched ==
  ASSUME MeltInv, UNCHANGED <<year, average, melted>>,
         month' \in 0..Months, copied' \subseteq 1..month',
         pc' = [t \in Coupled |-> pc'[t]],
         \A t \in Coupled : pc'[t] # "ocean" => pc[t] # "ocean",
         gpc' # "done" => gpc # "done" /\ UNCHANGED shelf
  PROVE  MeltInv'
<1>1. AverageOfTheYear'
  BY DEF MeltInv, AverageOfTheYear, Missing
<1>2. MeltOfTheYear'
  <2> SUFFICES ASSUME NEW s \in Coupled, pc'[s] # "ocean"
               PROVE  /\ melted[s].of.of = year /\ melted[s].of.months = 1..Months
                      /\ gpc' # "done" =>
                           \A p \in Grid[s] : IsMeltOf(Reach(shelf'.of, p), melted[s].of.melt[p])
    BY DEF MeltOfTheYear
  <2>1. pc[s] # "ocean"
    OBVIOUS
  <2> QED
    BY <2>1 DEF MeltInv, MeltOfTheYear
<1> QED
  BY <1>1, <1>2 DEF MeltInv

LEMMA MeltCopy == ASSUME MeltInv, copy_nemo_for_unicicles PROVE MeltInv'
<1>1. /\ month' = month + 1 /\ month < Months /\ month \in 0..Months /\ Months \in Nat
      /\ copied \subseteq 1..month /\ copied' \in {copied, copied \union {month + 1}}
  BY OceanAssumption DEF MeltInv, copy_nemo_for_unicicles
<1>2. month' \in 0..Months /\ copied' \subseteq 1..month'
  BY <1>1
<1>3. UNCHANGED <<year, average, melted, pc, gpc, shelf>>
  BY DEF copy_nemo_for_unicicles, iceVars, fileVars
<1> QED
  BY <1>2, <1>3, MeltUntouched DEF MeltInv

\* ncra fails on a month that is not there.
LEMMA MeltAverage == ASSUME MeltInv, process_nemo_for_unicicles PROVE MeltInv'
<1>1. copied = 1..Months
  BY DEF MeltInv, process_nemo_for_unicicles, AllListedExist
<1>2. average' = File([of |-> year, months |-> 1..Months, melt |-> OceanMelt(shelf.of)])
  BY <1>1 DEF process_nemo_for_unicicles
<1>3. UNCHANGED <<year, month, copied, melted, pc, gpc, shelf>>
  BY DEF process_nemo_for_unicicles, iceVars, fileVars
<1>4. AverageOfTheYear'
  BY <1>2, <1>3 DEF AverageOfTheYear, File
<1> QED
  BY <1>3, <1>4 DEF MeltInv, MeltOfTheYear

\* Whichever of the scripts puts the melt on the grid, it is that of the cavities near.
LEMMA MeltToIce ==
  ASSUME MeltInv, NEW s \in Coupled, nemo_to_regional_bisicles(s)
  PROVE  MeltInv'
<1>1. UNCHANGED <<year, month, copied, average, gpc, shelf>>
  BY DEF nemo_to_regional_bisicles, oceanVars, fileVars
<1>2. AverageOfTheYear /\ ~Missing(average)
  BY DEF MeltInv, nemo_to_regional_bisicles
<1>3. /\ pc' = [t \in Coupled |-> pc'[t]] /\ melted' = [t \in Coupled |-> melted'[t]]
      /\ \A t \in Coupled \ {s} : pc'[t] = pc[t] /\ melted'[t] = melted[t]
  BY DEF MeltInv, nemo_to_regional_bisicles
<1>4. /\ melted'[s].of.of = year /\ melted'[s].of.months = 1..Months
      /\ melted'[s].of.melt = [p \in Grid[s] |-> RegriddedMelt(average.of.melt, p)]
  BY <1>2 DEF MeltInv, nemo_to_regional_bisicles, File, AverageOfTheYear
<1>5. ASSUME gpc # "done", NEW p \in Grid[s]
      PROVE  IsMeltOf(Reach(shelf.of, p), melted'[s].of.melt[p])
  <2>1. p \in GridPoints
    BY OceanAssumption DEF GridPoints
  <2>2. melted'[s].of.melt[p] = RegriddedMelt(OceanMelt(shelf.of), p)
    BY <1>2, <1>4, <1>5 DEF AverageOfTheYear
  <2> QED
    BY <2>1, <2>2, MeltOfItsCavities
<1>6. MeltOfTheYear'
  <2> SUFFICES ASSUME NEW t \in Coupled, pc'[t] # "ocean"
               PROVE  /\ melted'[t].of.of = year /\ melted'[t].of.months = 1..Months
                      /\ gpc # "done" =>
                           \A p \in Grid[t] : IsMeltOf(Reach(shelf.of, p), melted'[t].of.melt[p])
    BY <1>1 DEF MeltOfTheYear
  <2>1. CASE t = s
    BY <1>4, <1>5, <2>1
  <2>2. CASE t # s
    BY <1>3, <2>2 DEF MeltInv, MeltOfTheYear
  <2> QED
    BY <2>1, <2>2
<1>7. AverageOfTheYear'
  BY <1>1, <1>2 DEF AverageOfTheYear, Missing
<1> QED
  BY <1>1, <1>3, <1>6, <1>7 DEF MeltInv

\* The tasks of a sheet that come after the melt.
LEMMA MeltRegional ==
  ASSUME MeltInv, NEW s \in Coupled,
         IceSheet(s) \/ make_BISICLES_melange_sink(s) \/ reroute_calving_to_ocean(s)
           \/ RegionalAgain(s)
  PROVE  MeltInv'
<1>1. UNCHANGED <<oceanVars, melted, gpc, shelf>>
  BY DEF IceSheet, make_BISICLES_melange_sink, reroute_calving_to_ocean, RegionalAgain, iceVars,
         fileVars
<1>2. PICK task : pc' = [pc EXCEPT ![s] = task] /\ pc[s] # "ocean"
  BY DEF IceSheet, make_BISICLES_melange_sink, reroute_calving_to_ocean, RegionalAgain
<1>3. pc' = [t \in Coupled |-> pc'[t]] /\ \A t \in Coupled : pc'[t] # "ocean" => pc[t] # "ocean"
  BY <1>2 DEF MeltInv
<1> QED
  BY <1>1, <1>3, MeltUntouched DEF MeltInv, oceanVars

\* The global task: the ocean has its new draft only when it has ended.
LEMMA MeltGlobal ==
  ASSUME MeltInv,
         SubmitGlobal \/ splice_iceberg_seeds \/ WriteShelf \/ GlobalAgain \/ UNCHANGED vars
  PROVE  MeltInv'
<1>1. /\ UNCHANGED <<oceanVars, pc, melted>>
      /\ gpc' # "done" => gpc # "done" /\ UNCHANGED shelf
  BY DEF SubmitGlobal, splice_iceberg_seeds, WriteShelf, GlobalAgain, vars, iceVars, fileVars
<1> QED
  BY <1>1, MeltUntouched DEF MeltInv, oceanVars

LEMMA MeltNextYear == ASSUME MeltInv, NextYear PROVE MeltInv'
<1>1. 0 \in 0..Months
  BY OceanAssumption
<1>2. /\ month' = 0 /\ copied' = {} /\ Missing(average') /\ melted' = melted
      /\ pc' = [s \in Coupled |-> "ocean"]
  BY DEF NextYear, NoFile, Missing
<1>3. MeltOfTheYear' /\ AverageOfTheYear'
  BY <1>2 DEF MeltOfTheYear, AverageOfTheYear, Missing
<1> QED
  BY <1>1, <1>2, <1>3 DEF MeltInv

\* An ice sheet is run with the melt of the whole of this year, however many of the
\* ocean's files failed to appear, and with that of the cavities the ocean has
\* (copy_nemo_for_unicicles, process_nemo_for_unicicles, nemo_to_regional_bisicles).
THEOREM WholeYearsMelt == Spec => []MeltOfTheYear
<1>1. Init => MeltInv
  BY MeltInit
<1>2. MeltInv /\ [Next]_vars => MeltInv'
  <2> SUFFICES ASSUME MeltInv, [Next]_vars PROVE MeltInv'
    OBVIOUS
  <2>1. CASE copy_nemo_for_unicicles \/ process_nemo_for_unicicles \/ NextYear
    BY <2>1, MeltCopy, MeltAverage, MeltNextYear
  <2>2. ASSUME NEW s \in Coupled, Regional(s) PROVE MeltInv'
    BY <2>2, MeltToIce, MeltRegional DEF Regional
  <2>3. CASE SubmitGlobal \/ splice_iceberg_seeds \/ WriteShelf \/ GlobalAgain \/ UNCHANGED vars
    BY <2>3, MeltGlobal
  <2> QED
    BY <2>1, <2>2, <2>3 DEF Next
<1>3. MeltInv => MeltOfTheYear
  BY DEF MeltInv
<1> QED
  BY <1>1, <1>2, <1>3, PTL DEF Spec

-------------------------------------------------------------------------------
(* The ocean's surface *)

\* Whatever the first draft of a cell is, what comes of matching it with the template
\* and grounding what is thin leaves the surface as the template has it.
LEMMA MatchKeepsSurface ==
  ASSUME NEW c \in Cells, NEW first, NEW isf, isf = MatchSurface(TemBathy[c], first, TemIsf[c]),
         NEW draft, draft = isf \/ (IsThin(TemBathy[c], isf) /\ draft = TemBathy[c])
  PROVE  Closed(TemBathy[c], draft) <=> c \notin OpenOcean
<1> DEFINE bathy == TemBathy[c]
           tem == TemIsf[c]
<1>1. /\ bathy \in Nat /\ tem \in Nat /\ bathy # Thresh /\ Thresh \in Nat \ {0}
      /\ MinDepIsf \in Nat /\ MinCav \in Nat /\ TopOpen \in Nat
      /\ TopOpen > Thresh /\ MinDepIsf + MinCav > Thresh
  BY GeometryAssumption, TemplateAssumption
<1>2. c \notin OpenOcean <=> Closed(bathy, tem)
  BY DEF OpenOcean
<1>3. CASE Closed(bathy, first) /\ ~Closed(bathy, tem)
  <2>1. isf = 0
    BY <1>3 DEF MatchSurface
  <2> QED
    BY <1>1, <1>2, <1>3, <2>1 DEF Closed, IsThin
<1>4. CASE ~Closed(bathy, first) /\ Closed(bathy, tem)
  <2>1. isf = IF bathy < MinDepIsf + MinCav THEN bathy ELSE TopOpen
    BY <1>4 DEF MatchSurface
  <2>2. bathy > Thresh
    BY <1>1, <1>4 DEF Closed
  <2>3. isf > Thresh /\ draft > Thresh
    BY <1>1, <2>1, <2>2
  <2> QED
    BY <1>2, <1>4, <2>3 DEF Closed
<1>5. CASE Closed(bathy, first) <=> Closed(bathy, tem)
  <2>1. isf = first
    BY <1>5 DEF MatchSurface
  <2>2. CASE IsThin(bathy, isf) /\ draft = bathy
    <3>1. Closed(bathy, bathy) /\ Closed(bathy, isf)
      BY <1>1, <2>2 DEF IsThin, Closed
    <3> QED
      BY <1>2, <1>5, <2>1, <2>2, <3>1
  <2>3. CASE draft = isf
    BY <1>2, <1>5, <2>1, <2>3
  <2> QED
    BY <2>2, <2>3
<1> QED
  BY <1>3, <1>4, <1>5

LEMMA ShelfKeepsSurface ==
  ASSUME NEW ice, NEW c \in Cells
  PROVE  Closed(TemBathy[c], ShelfFile(ice)[c]) <=> c \notin OpenOcean
<1>1. ASSUME NEW d \in Cells PROVE Closed(TemBathy[d], NewDraft(ice, d)) <=> d \notin OpenOcean
  BY MatchKeepsSurface DEF NewDraft
<1>2. CASE Script = "global"
  <2>1. ShelfFile(ice)[c] = NewDraft(ice, c)
    BY <1>2 DEF ShelfFile
  <2> QED
    BY <1>1, <2>1
<1>3. CASE Script = "global with halo"
  <2>1. ShelfFile(ice)[c] = NewDraft(ice, Wrapped(c))
    BY <1>3 DEF ShelfFile
  <2>2. /\ Wrapped(c) \in Cells /\ TemBathy[Wrapped(c)] = TemBathy[c]
        /\ TemIsf[Wrapped(c)] = TemIsf[c]
    BY <1>3, TemplateAssumption
  <2>3. Wrapped(c) \in OpenOcean <=> c \in OpenOcean
    BY <2>2 DEF OpenOcean
  <2> QED
    BY <1>1, <2>1, <2>2, <2>3
<1>4. CASE Script = "active mask"
  <2>1. ShelfFile(ice)[c] = ActiveDraft(ice, c)
    BY <1>4 DEF ShelfFile
  <2> DEFINE column == ActiveColumn(ice, c)
             grounded == column < 0 /\ column > NFlag + 1
             first == enforce_minima(FirstDraft(TemBathy[c], column, grounded), MinDepIsf)
             isf == MatchSurface(TemBathy[c], first, TemIsf[c])
             draft == ActiveDraft(ice, c)
  <2>2. \/ draft = TemIsf[c] \/ draft = isf
        \/ IsThin(TemBathy[c], isf) /\ draft = TemBathy[c]
    BY DEF ActiveDraft
  <2>3. Closed(TemBathy[c], TemIsf[c]) <=> c \notin OpenOcean
    BY DEF OpenOcean
  <2> HIDE DEF draft
  <2>4. draft # TemIsf[c] => (Closed(TemBathy[c], draft) <=> c \notin OpenOcean)
    BY <2>2, MatchKeepsSurface
  <2> QED
    BY <2>1, <2>3, <2>4 DEF draft
<1> QED
  BY <1>2, <1>3, <1>4, GeometryAssumption

\* The ocean's surface is open and closed where its template's is, whatever the ice sheet
\* has become (bisicles_global_to_nemo.py and its sibling for the active mask).
THEOREM SurfaceStays == Spec => []SurfaceKept
<1>1. Init => SurfaceKept
  BY DEF Init, SurfaceKept, OpenOcean, File
<1>2. SurfaceKept /\ [Next]_vars => SurfaceKept'
  <2> SUFFICES ASSUME SurfaceKept, [Next]_vars PROVE SurfaceKept'
    OBVIOUS
  <2>1. CASE WriteShelf
    <3>1. shelf' = shelf \/ shelf' = File(ShelfFile(plot.of))
      BY <2>1 DEF WriteShelf
    <3>2. CASE shelf' = shelf
      BY <3>2 DEF SurfaceKept
    <3>3. CASE shelf' = File(ShelfFile(plot.of))
      BY <3>3, ShelfKeepsSurface DEF SurfaceKept, File
    <3> QED
      BY <3>1, <3>2, <3>3
  <2>2. ASSUME UNCHANGED shelf PROVE SurfaceKept'
    BY <2>2 DEF SurfaceKept
  <2>3. ASSUME NEW s \in Coupled, Regional(s) PROVE UNCHANGED shelf
    BY <2>3 DEF Regional, nemo_to_regional_bisicles, IceSheet, make_BISICLES_melange_sink,
                reroute_calving_to_ocean, RegionalAgain, fileVars
  <2>4. CASE \/ copy_nemo_for_unicicles \/ process_nemo_for_unicicles \/ SubmitGlobal
             \/ splice_iceberg_seeds \/ GlobalAgain \/ NextYear \/ UNCHANGED vars
    BY <2>2, <2>4 DEF copy_nemo_for_unicicles, process_nemo_for_unicicles, SubmitGlobal,
                      splice_iceberg_seeds, GlobalAgain, NextYear, vars, fileVars
  <2> QED
    BY <2>1, <2>2, <2>3, <2>4 DEF Next
<1> QED
  BY <1>1, <1>2, PTL DEF Spec

-------------------------------------------------------------------------------
(* The routing of the icebergs *)

LEMMA SquaresPositive == ASSUME NEW x \in Int PROVE x * x \in Nat
OBVIOUS

LEMMA RowsAndColumns ==
  ASSUME NEW n \in Nat, NEW k \in Nat \ {0}
  PROVE  n \div k \in Int /\ n % k \in Int
OBVIOUS

LEMMA CellNumbers == \A c \in Cells : c \in Nat /\ Row(c) \in Int /\ Col(c) \in Int
<1>0. NJ \in Nat \ {0} /\ NI \in Nat /\ NI > 4
  BY Zenon, GeometryAssumption
<1>1. NJ \in Nat /\ NI \in Nat \ {0}
  BY <1>0
<1>2. NJ * NI \in Nat
  BY <1>1
<1>3. \A c \in Cells : c \in Nat
  BY <1>2 DEF Cells
<1> QED
  BY <1>1, <1>3, RowsAndColumns DEF Row, Col

\* The nearest cell of open ocean is one.
LEMMA NearestIsOpen == ASSUME NEW c \in Cells PROVE Nearest(c) \in OpenOcean
<1> DEFINE Square(x) == x * x
           Distance(o) == Square(Row(c) - Row(o)) + Square(Col(c) - Col(o))
           distances == {Distance(o) : o \in OpenOcean}
           nearest == Min(distances)
           candidates == {o \in OpenOcean : Distance(o) = nearest}
<1>1. \A o \in Cells :
       o \in Nat /\ Row(o) \in Int /\ Col(o) \in Int /\ Row(c) \in Int /\ Col(c) \in Int
  BY CellNumbers
<1>2. OpenOcean \subseteq Cells /\ OpenOcean # {}
  BY OceanAssumption DEF OpenOcean
<1>3. \A o \in Cells : Distance(o) \in Nat
  <2> TAKE o \in Cells
  <2>1. Row(c) - Row(o) \in Int /\ Col(c) - Col(o) \in Int
    BY <1>1
  <2>2. Square(Row(c) - Row(o)) \in Nat /\ Square(Col(c) - Col(o)) \in Nat
    BY <2>1, SquaresPositive
  <2> HIDE DEF Square
  <2> QED
    BY <2>2
<1> HIDE DEF Distance
<1>4. nearest \in distances
  <2> HIDE DEF distances
  <2>1. distances \subseteq Nat /\ distances # {}
    BY <1>2, <1>3 DEF distances
  <2> QED
    BY <2>1, LeastIsOne
<1>5. candidates # {} /\ candidates \subseteq Nat
  BY <1>1, <1>2, <1>4
<1>6. Min(candidates) \in candidates
  BY <1>5, LeastIsOne
<1>7. Nearest(c) = Min(candidates)
  BY Zenon DEF Nearest, Distance
<1> QED
  BY <1>6, <1>7

\* Nothing is routed to a cell that is not open ocean, but from itself.
LEMMA RouteToWater ==
  ASSUME NEW c \in Cells, Route[c] \notin OpenOcean
  PROVE  Route[c] = c /\ c \notin OpenOcean /\ c \notin IceLand
<1>1. CASE c \in IceLand \ OpenOcean
  BY <1>1, NearestIsOpen DEF Route
<1>2. CASE c \notin IceLand \ OpenOcean
  BY <1>2 DEF Route
<1> QED
  BY <1>1, <1>2

\* Nothing calves onto a cell that icebergs could not be routed from.
LEMMA NothingOnLand ==
  ASSUME NEW s \in Coupled, NEW c \in Cells, c \notin OpenOcean, c \notin IceLand
  PROVE  Regridded(s, c) = 0
<1>1. \A p \in MelangePoints : Home[p] # c
  BY OceanAssumption
<1>2. Melange[s] \subseteq MelangePoints
  BY OceanAssumption DEF MelangePoints
<1>3. From(s, c) = {}
  BY <1>1, <1>2 DEF From
<1> QED
  BY <1>3, TotalEmpty DEF Regridded

LEMMA RoutedToWater ==
  ASSUME NEW calv, NEW d \in Cells, d \notin OpenOcean,
         \A c \in Cells : c \notin OpenOcean /\ c \notin IceLand => calv[c] = 0
  PROVE  Routed(calv, {c \in Cells : calv[c] > 0}, d) = 0
<1> DEFINE laden == {c \in Cells : calv[c] > 0}
           from == {c \in laden : Route[c] = d /\ d # 0 /\ (Route[d] = 0 => d < c)}
<1>1. from = {}
  <2> SUFFICES ASSUME NEW c \in Cells, calv[c] > 0, Route[c] = d PROVE FALSE
    OBVIOUS
  <2>1. c \notin OpenOcean /\ c \notin IceLand
    BY RouteToWater
  <2>2. calv[c] = 0
    BY <2>1
  <2> QED
    BY <2>2
<1>2. Total(calv, from) = 0
  BY <1>1, TotalEmpty
<1>3. Route[d] = 0 => calv[d] = 0
  BY OceanAssumption, RouteToWater
<1>4. Routed(calv, laden, d) = Total(calv, from) + IF Route[d] = 0 THEN calv[d] ELSE 0
  BY Zenon DEF Routed
<1> HIDE DEF from, laden
<1> QED
  BY <1>2, <1>3, <1>4 DEF laden

LEMMA NoYearsOfNothing == ASSUME NEW n \in Nat \ {0} PROVE 0 \div n = 0
OBVIOUS

LEMMA NoMoreThanNothing == ~(0 > 0)
OBVIOUS

LEMMA FileOf == ASSUME NEW fields PROVE File(fields).of = fields
BY DEF File

\* What a field has for icebergs lies on open ocean.
OnWater(field) == \A c \in Cells : c \notin OpenOcean => field[c] = 0

WaterInv ==
  /\ seed = [s \in Coupled |-> seed[s]]
  /\ \A s \in Coupled : Missing(seed[s]) \/ OnWater(seed[s].of)
  /\ gpc \in {"shelf", "done"} => OnWater(bergs.of)

LEMMA WaterReroute ==
  ASSUME Script # "active mask", WaterInv, NEW s \in Coupled, reroute_calving_to_ocean(s)
  PROVE  WaterInv'
<1> DEFINE calv == [c \in Cells |-> Regridded(s, c) \div IceTstepMultiply]
           laden == {c \in Cells : calv[c] > 0}
           active == {c \in Cells : From(s, c) \ Inactive # {}}
           kept == {c \in Cells : HaloStripped => Col(c) \in 1..NI - 2}
           Value(c) == CASE c \notin kept -> 0
                         [] c \in kept /\ Script = "active mask" -> RoutedActive(calv, active, c)
                         [] OTHER -> Routed(calv, laden, c)
           routed == [c \in Cells |-> Value(c)]
<1>1. \A c \in Cells : c \notin OpenOcean /\ c \notin IceLand => calv[c] = 0
  <2> TAKE c \in Cells
  <2> HAVE c \notin OpenOcean /\ c \notin IceLand
  <2>1. Regridded(s, c) = 0
    BY NothingOnLand
  <2>2. 0 \div IceTstepMultiply = 0
    <3>1. IceTstepMultiply \in Nat \ {0}
      BY Zenon, OceanAssumption
    <3> QED
      BY <3>1, NoYearsOfNothing
  <2> QED
    BY <2>1, <2>2
<1>2. seed' = [seed EXCEPT ![s] = File(routed)]
  BY Zenon DEF reroute_calving_to_ocean
<1>3. OnWater(routed)
  <2> SUFFICES ASSUME NEW d \in Cells, d \notin OpenOcean PROVE Value(d) = 0
    BY Zenon DEF OnWater
  <2> HIDE DEF calv, active, kept
  <2>1. Routed(calv, laden, d) = 0
    BY <1>1, RoutedToWater
  <2> HIDE DEF laden
  <2>2. CASE d \notin kept
    BY <2>2, Zenon
  <2>3. CASE d \in kept
    BY <2>1, <2>3, Zenon
  <2> QED
    BY <2>2, <2>3, Zenon
<1> HIDE DEF routed
<1>4. /\ seed' = [t \in Coupled |-> seed'[t]] /\ seed'[s] = File(routed)
      /\ \A t \in Coupled \ {s} : seed'[t] = seed[t]
  BY <1>2 DEF WaterInv
<1>5. UNCHANGED <<gpc, bergs>>
  BY DEF reroute_calving_to_ocean
<1> QED
  <2>1. seed'[s].of = routed
    BY <1>4, FileOf, Zenon
  <2>2. ASSUME NEW t \in Coupled PROVE Missing(seed'[t]) \/ OnWater(seed'[t].of)
    <3>1. CASE t = s
      BY <1>3, <2>1, <3>1, Zenon
    <3>2. CASE t # s
      <4>1. seed'[t] = seed[t]
        BY <1>4, <3>2, Zenon
      <4>2. Missing(seed[t]) \/ OnWater(seed[t].of)
        BY DEF WaterInv
      <4> QED
        BY <4>1, <4>2, Zenon
    <3> QED
      BY <3>1, <3>2
  <2>3. gpc' \in {"shelf", "done"} => OnWater(bergs'.of)
    BY <1>5 DEF WaterInv
  <2> QED
    BY <1>4, <2>2, <2>3 DEF WaterInv, OnWater, Missing

LEMMA WaterSplice == ASSUME WaterInv, splice_iceberg_seeds PROVE WaterInv'
<1> DEFINE Regions(c) == {s \in Coupled : ~Missing(seed[s]) /\ c \in Half(s)}
           Value(c) == CASE Regions(c) = {} -> 0
                         [] "AIS" \in Regions(c) -> seed["AIS"].of[c]
                         [] OTHER -> seed["GrIS"].of[c]
           spliced == [c \in Cells |-> Value(c)]
<1>1. bergs' = File(spliced)
  BY Zenon DEF splice_iceberg_seeds
<1>2. OnWater(spliced)
  <2> SUFFICES ASSUME NEW c \in Cells, c \notin OpenOcean PROVE Value(c) = 0
    BY Zenon DEF OnWater
  <2>1. \A s \in Regions(c) : seed[s].of[c] = 0
    BY DEF WaterInv, OnWater
  <2>2. Regions(c) \subseteq {"GrIS", "AIS"}
    BY OceanAssumption DEF Sheets
  <2> HIDE DEF Regions
  <2>3. CASE Regions(c) = {}
    BY <2>3, Zenon
  <2>4. CASE "AIS" \in Regions(c)
    <3>1. Regions(c) # {} /\ seed["AIS"].of[c] = 0
      BY <2>1, <2>4, Zenon
    <3> QED
      BY <2>4, <3>1, Zenon
  <2>5. CASE Regions(c) # {} /\ "AIS" \notin Regions(c)
    <3>1. "GrIS" \in Regions(c)
      BY <2>2, <2>5
    <3>2. seed["GrIS"].of[c] = 0
      BY <2>1, <3>1, Zenon
    <3> QED
      BY <2>5, <3>2, Zenon
  <2> QED
    BY <2>3, <2>4, <2>5, Zenon
<1> HIDE DEF spliced
<1>3. UNCHANGED seed
  BY DEF splice_iceberg_seeds
<1> QED
  BY <1>1, <1>2, <1>3 DEF WaterInv, OnWater, File

LEMMA WaterStep ==
  ASSUME Script # "active mask", WaterInv, [Next]_vars PROVE WaterInv'
<1>1. CASE \/ copy_nemo_for_unicicles \/ process_nemo_for_unicicles \/ SubmitGlobal
           \/ GlobalAgain \/ UNCHANGED vars
  BY <1>1 DEF WaterInv, OnWater, copy_nemo_for_unicicles, process_nemo_for_unicicles,
              SubmitGlobal, GlobalAgain, vars, fileVars
<1>2. CASE WriteShelf
  BY <1>2 DEF WaterInv, OnWater, WriteShelf
<1>3. CASE NextYear
  BY <1>3 DEF WaterInv, NextYear, NoFile, Missing
<1>4. CASE splice_iceberg_seeds
  BY <1>4, WaterSplice
<1>5. ASSUME NEW s \in Coupled, Regional(s) PROVE WaterInv'
  <2>1. CASE reroute_calving_to_ocean(s)
    BY <2>1, WaterReroute
  <2>2. CASE ~reroute_calving_to_ocean(s)
    <3>1. UNCHANGED <<seed, bergs, gpc>>
      BY <1>5, <2>2 DEF Regional, nemo_to_regional_bisicles, IceSheet, make_BISICLES_melange_sink,
                        RegionalAgain, fileVars
    <3> QED
      BY <3>1 DEF WaterInv, OnWater
  <2> QED
    BY <2>1, <2>2
<1> QED
  BY <1>1, <1>2, <1>3, <1>4, <1>5 DEF Next

\* No iceberg is set where the ocean has no open surface: what calves on land that the
\* routing file knows is carried to water, nothing calves on other land, and the surface is
\* the one that the routing was made from (create_iceberg_routfile.py,
\* reroute_calving_to_ocean; the scripts without an active mask).
THEOREM IcebergsFloat == Script # "active mask" => (Spec => []BergsOnWater)
<1> SUFFICES ASSUME Script # "active mask" PROVE Spec => []BergsOnWater
  OBVIOUS
<1>1. Init => WaterInv
  <2> SUFFICES ASSUME Init PROVE WaterInv
    OBVIOUS
  <2>1. seed = [s \in Coupled |-> NoFile] /\ gpc = "wait"
    BY DEF Init
  <2> QED
    BY <2>1 DEF WaterInv, NoFile, Missing
<1>2. WaterInv /\ [Next]_vars => WaterInv'
  BY WaterStep
<1>3. WaterInv /\ SurfaceKept => BergsOnWater
  <2> SUFFICES ASSUME WaterInv, SurfaceKept, gpc = "done", NEW c \in Cells, bergs.of[c] > 0
               PROVE  ~Closed(TemBathy[c], shelf.of[c])
    BY Zenon DEF BergsOnWater
  <2>1. c \in OpenOcean
    <3>1. OnWater(bergs.of)
      BY DEF WaterInv
    <3>2. c \notin OpenOcean => bergs.of[c] = 0
      BY <3>1, Zenon DEF OnWater
    <3> QED
      BY <3>2, NoMoreThanNothing, Zenon
  <2> QED
    BY <2>1, Zenon DEF SurfaceKept
<1> QED
  BY <1>1, <1>2, <1>3, SurfaceStays, PTL DEF Spec

-------------------------------------------------------------------------------
(* The ground *)

\* The draft of a column that is flagged as without ocean, under a template with ice.
LEMMA GroundedDraft ==
  ASSUME NEW bathy \in Nat, NEW temIsf \in Nat, NEW column, column = NFlag,
         bathy > Thresh, Closed(bathy, temIsf)
  PROVE  LET first == enforce_minima(FirstDraft(bathy, column, column < 0), MinDepIsf)
             isf == MatchSurface(bathy, first, temIsf)
         IN  (IF IsThin(bathy, isf) THEN bathy ELSE isf) >= bathy
<1> DEFINE draft == FirstDraft(bathy, column, column < 0)
           first == enforce_minima(draft, MinDepIsf)
           isf == MatchSurface(bathy, first, temIsf)
<1>1. Thresh \in Nat /\ MinDepIsf \in Nat
  BY GeometryAssumption
<1>2. draft = bathy
  <2>1. column < 0 /\ ~(column > Thresh)
    BY <1>1 DEF NFlag
  <2> QED
    BY <2>1, Zenon DEF FirstDraft
<1>3. first \in Nat /\ first >= bathy
  <2>1. enforce_minima(bathy, MinDepIsf) = IF bathy < MinDepIsf THEN MinDepIsf ELSE bathy
    BY <1>1 DEF enforce_minima
  <2> HIDE DEF draft
  <2> QED
    BY <1>1, <1>2, <2>1
<1> HIDE DEF first
<1>4. Closed(bathy, first)
  BY <1>1, <1>3 DEF Closed
<1>5. isf = first
  BY <1>4, Zenon DEF MatchSurface
<1> HIDE DEF isf
<1> QED
  BY <1>3, <1>5 DEF isf, first

Unmasked == Script # "active mask"

LEMMA GroundedColumn ==
  ASSUME Unmasked, NEW ice, NEW c \in Mapped, OnGround(ice, c)
  PROVE  Column(ice, c) = NFlag
<1> DEFINE points == Counted(ice, c)
           column == isf_from_bisicles_median(ice, PointsOf[c], PFlag)
<1>1. Cardinality(points) \in Nat /\ Cardinality(points) # 0 /\ Cardinality(points) > 0
  <2>1. IsFiniteSet(ShelfPoints) /\ PointsOf[c] \subseteq ShelfPoints
    BY GeometryAssumption
  <2>2. points \subseteq ShelfPoints
    BY <2>1 DEF Counted
  <2>3. IsFiniteSet(points)
    BY <2>1, <2>2, FS_Subset
  <2>4. Cardinality(points) \in Nat /\ Cardinality(points) # 0
    BY <2>3, FS_EmptySet, FS_CardinalityType DEF OnGround
  <2> HIDE DEF points
  <2> QED
    BY <2>4
<1>2. MostlyDry(Cardinality(WithWater(ice, points)), Cardinality(points))
  BY DEF OnGround, MostlyDry
<1> DEFINE wet == WithWater(ice, points)
           all == Cardinality(points)
           mean == Abs(MapThenSumSet(LAMBDA p : ice[p].bed - ice[p].base, points)) \div all
           open == \A p \in points : IsOpen(ice[p])
<1>3. column = NFlag
  <2>1. points = {p \in PointsOf[c] : ice[p].bed > BathyThreshold}
    <3>1. \A p \in PointsOf[c] : p \in points <=> ice[p].bed > BathyThreshold
      <4> TAKE p \in PointsOf[c]
      <4>1. ~(Script = "active mask")
        BY Zenon DEF Unmasked
      <4>2. p \in points <=> ((Script = "active mask" => ice[p].active) /\ ice[p].bed > BathyThreshold)
        BY Zenon DEF Counted
      <4> HIDE DEF points
      <4> QED
        BY <4>1, <4>2, Zenon
    <3>2. points \subseteq PointsOf[c]
      BY Zenon DEF Counted
    <3> HIDE DEF points
    <3> QED
      BY <3>1, <3>2, Zenon
  <2> HIDE DEF points
  <2>2. column = CASE all = 0 -> PFlag
                   [] all > 0 /\ MostlyDry(Cardinality(wet), all) -> NFlag
                   [] all > 0 /\ open -> 0
                   [] OTHER -> mean
    BY <2>1, Zenon DEF isf_from_bisicles_median, WithWater
  <2> HIDE DEF all, wet, mean, open, column
  <2>3. all # 0 /\ all > 0 /\ MostlyDry(Cardinality(wet), all)
    BY <1>1, <1>2, Zenon DEF all, wet
  <2>4. ~open
    <3>1. open => wet = points
      BY Zenon DEF open, wet, WithWater
    <3>2. wet = points => MostlyDry(all, all)
      BY <2>3, Zenon DEF all
    <3>3. ~MostlyDry(all, all)
      BY <1>1 DEF MostlyDry, all
    <3> QED
      BY <3>1, <3>2, <3>3, Zenon
  <2> QED
    BY <2>2, <2>3, <2>4, Zenon
<1>4. NFlag # PFlag
  BY DEF NFlag, PFlag
<1> HIDE DEF column
<1>5. Column(ice, c) = CASE c \notin Mapped -> 0
                         [] c \in Mapped /\ column = PFlag -> IF c \in South THEN NFlag ELSE 0
                         [] OTHER -> column
  BY Zenon DEF Column, column
<1> QED
  BY <1>3, <1>4, <1>5, Zenon

LEMMA Above == ASSUME NEW x \in Nat, x >= Thresh, x # Thresh PROVE x > Thresh
<1>1. Thresh \in Nat
  BY GeometryAssumption
<1> QED
  BY <1>1

LEMMA GroundInFile ==
  ASSUME NEW ice, NEW c \in Mapped \ OpenOcean, OnGround(ice, c),
         Unmasked, Script = "global with halo" => Wrapped(c) = c, TemBathy[c] >= Thresh
  PROVE  ShelfFile(ice)[c] >= TemBathy[c]
<1>1. c \in Cells /\ TemBathy[c] \in Nat /\ TemIsf[c] \in Nat
  BY GeometryAssumption
<1>2. TemBathy[c] > Thresh
  BY <1>1, TemplateAssumption, Above, Zenon
<1>3. Closed(TemBathy[c], TemIsf[c])
  BY <1>1 DEF OpenOcean
<1>4. Column(ice, c) = NFlag
  BY GroundedColumn
<1>5. NewDraft(ice, c) >= TemBathy[c]
  BY <1>1, <1>2, <1>3, <1>4, GroundedDraft, Zenon DEF NewDraft
<1>6. ShelfFile(ice)[c] = NewDraft(ice, c)
  <2>1. CASE Script = "global"
    BY <1>1, <2>1, Zenon DEF ShelfFile
  <2>2. CASE Script = "global with halo"
    BY <1>1, <2>2, Zenon DEF ShelfFile
  <2> QED
    BY <2>1, <2>2, GeometryAssumption DEF Unmasked
<1> QED
  BY <1>5, <1>6

\* The global task starts when the regions are done, so that the plot file it reads stays.
GroundInv ==
  /\ pc = [s \in Coupled |-> pc[s]]
  /\ gpc # "wait" => \A s \in Coupled : pc[s] = "done"
  /\ gpc = "done" /\ "AIS" \in Coupled => shelf = File(ShelfFile(plot.of))

LEMMA GroundStep == ASSUME GroundInv, [Next]_vars PROVE GroundInv'
<1>1. CASE \/ copy_nemo_for_unicicles \/ process_nemo_for_unicicles \/ SubmitGlobal
           \/ splice_iceberg_seeds \/ GlobalAgain \/ UNCHANGED vars
  BY <1>1 DEF GroundInv, copy_nemo_for_unicicles, process_nemo_for_unicicles, SubmitGlobal,
              splice_iceberg_seeds, GlobalAgain, vars, fileVars, iceVars
<1>2. CASE WriteShelf
  <2>1. UNCHANGED <<pc, plot>> /\ gpc = "shelf"
    BY <1>2 DEF WriteShelf, iceVars
  <2>2. "AIS" \in Coupled => shelf' = File(ShelfFile(plot.of))
    BY <1>2, Zenon DEF WriteShelf
  <2>3. \A s \in Coupled : pc[s] = "done"
    BY <2>1 DEF GroundInv
  <2>4. "AIS" \in Coupled => shelf' = File(ShelfFile(plot'.of))
    BY <2>1, <2>2, Zenon
  <2> QED
    BY <2>1, <2>3, <2>4 DEF GroundInv
<1>3. CASE NextYear
  BY <1>3 DEF GroundInv, NextYear
<1>4. ASSUME NEW s \in Coupled, Regional(s) PROVE GroundInv'
  <2>1. pc[s] # "done" /\ UNCHANGED gpc
    BY <1>4 DEF Regional, nemo_to_regional_bisicles, IceSheet, make_BISICLES_melange_sink,
                reroute_calving_to_ocean, RegionalAgain
  <2>2. gpc = "wait"
    BY <2>1 DEF GroundInv
  <2>3. \E task : pc' = [pc EXCEPT ![s] = task]
    BY <1>4 DEF Regional, nemo_to_regional_bisicles, IceSheet, make_BISICLES_melange_sink,
                reroute_calving_to_ocean, RegionalAgain
  <2>4. pc' = [t \in Coupled |-> pc'[t]]
    BY <2>3 DEF GroundInv
  <2> QED
    BY <2>1, <2>2, <2>4 DEF GroundInv
<1> QED
  BY <1>1, <1>2, <1>3, <1>4 DEF Next

\* Under ice that the template knows, a cell that is mostly ground in the ice sheet's plot
\* file has no water in the ocean's, whatever the least depths of ice and of water are
\* (bisicles_global_to_nemo.py; the sibling for the active mask gives such cells back to the
\* template).
THEOREM GroundStays == Script # "active mask" => (Spec => []GroundIsGround)
<1> SUFFICES ASSUME Unmasked PROVE Spec => []GroundIsGround
  BY DEF Unmasked
<1>1. Init => GroundInv
  <2> SUFFICES ASSUME Init PROVE GroundInv
    OBVIOUS
  <2>1. pc = [s \in Coupled |-> "ocean"] /\ gpc = "wait"
    BY DEF Init
  <2> QED
    BY <2>1 DEF GroundInv
<1>2. GroundInv /\ [Next]_vars => GroundInv'
  BY GroundStep
<1>3. GroundInv => GroundIsGround
  <2> SUFFICES ASSUME GroundInv, gpc = "done", "AIS" \in Coupled, NEW c \in Mapped \ OpenOcean,
                      OnGround(plot.of, c), TemBathy[c] >= Thresh,
                      Script = "global with halo" => Wrapped(c) = c
               PROVE  shelf.of[c] >= TemBathy[c]
    BY Zenon DEF GroundIsGround
  <2>1. shelf.of = ShelfFile(plot.of)
    BY FileOf DEF GroundInv
  <2> QED
    BY <2>1, GroundInFile, Zenon
<1> QED
  BY <1>1, <1>2, <1>3, PTL DEF Spec

-------------------------------------------------------------------------------
(* The ledger *)

\* The scripts, files and ice sheets for which what is taken can be what is given: the
\* active mask adds its flag to the icebergs, a file without a halo has no room for some,
\* and an accelerated ice sheet runs with its sink for more years than the ocean.
AllGiven == Script # "active mask" /\ ~HaloStripped /\ IceTstepMultiply = 1

Multiple(x) == x \in Nat /\ x % IceTstepMultiply = 0
MelangeOf(s) == [p \in Melange[s] |-> melange[p]]

\* By sheet: until it has run, the sink that it is given is what its melange is, and that
\* is what the ocean was given; after that the new sink is, and its icebergs are as much.
Due(s) ==
  IF Missing(sinkIn[s]) THEN owed[s] = 0
  ELSE sinkIn[s].of = MelangeOf(s) /\ owed[s] = 0 - Total(MelangeOf(s), Melange[s])

SheetLedger(s) ==
  /\ pc[s] \in {"ocean", "ice_sheet"} => Due(s)
  /\ pc[s] \in {"reroute", "done"} => sink[s] = File(MelangeOf(s))
  /\ pc[s] = "done" => /\ ~Missing(seed[s])
                       /\ IceTstepMultiply * Total(seed[s].of, Half(s))
                            = Total(MelangeOf(s), Melange[s])

LedgerInv ==
  /\ pc = [s \in Coupled |-> pc[s]] /\ sink = [s \in Coupled |-> sink[s]]
  /\ seed = [s \in Coupled |-> seed[s]] /\ owed = [s \in Coupled |-> owed[s]]
  /\ \A p \in MelangePoints : Multiple(melange[p])
  /\ \A s \in Coupled : SheetLedger(s)
  /\ gpc # "wait" => \A s \in Coupled : pc[s] = "done"
  /\ gpc \in {"shelf", "done"} => \A s \in Coupled : \A c \in Half(s) : bergs.of[c] = seed[s].of[c]
  /\ TakenOnce

LEMMA YearsOfIce == ASSUME NEW k \in Nat \ {0}, NEW x \in Nat, x % k = 0
                    PROVE  x \div k \in Nat /\ x = k * (x \div k)
OBVIOUS

LEMMA IceOfYears == ASSUME NEW k \in Nat \ {0}, NEW n \in Nat
                    PROVE  (k * n) % k = 0 /\ (k * n) \div k = n /\ k * n \in Nat
OBVIOUS

LEMMA MultipleIs ==
  /\ \A x : Multiple(x) <=> \E n \in Nat : x = IceTstepMultiply * n
  /\ \A n \in Nat : (IceTstepMultiply * n) \div IceTstepMultiply = n
<1>1. IceTstepMultiply \in Nat \ {0}
  BY Zenon, OceanAssumption
<1> QED
  BY <1>1, YearsOfIce, IceOfYears DEF Multiple

LEMMA MultiplesAdd == ASSUME NEW x, NEW y, Multiple(x), Multiple(y) PROVE Multiple(x + y)
<1>1. PICK m \in Nat, n \in Nat : x = IceTstepMultiply * m /\ y = IceTstepMultiply * n
  BY MultipleIs
<1>2. IceTstepMultiply \in Nat
  BY OceanAssumption
<1>3. x + y = IceTstepMultiply * (m + n) /\ m + n \in Nat
  BY <1>1, <1>2
<1> QED
  BY <1>3, MultipleIs

LEMMA CellsFinite == IsFiniteSet(Cells) /\ \A c \in Cells : c \in Nat
<1>1. NJ * NI - 1 \in Int
  <2>1. NJ \in Nat /\ NI \in Nat
    BY GeometryAssumption
  <2> QED
    BY <2>1
<1>2. IsFiniteSet(0..NJ * NI - 1)
  BY <1>1, FS_Interval
<1> QED
  BY <1>2, CellsAreNumbers DEF Cells

\* The corner, which stands for no route, is no cell that anything is routed to.
LEMMA RoutedElsewhere ==
  /\ \A c \in Cells : c \in OpenOcean \union IceLand => Route[c] \in OpenOcean /\ Route[c] # 0
  /\ \A d \in Cells : Route[d] = 0 => d = 0 /\ d \notin OpenOcean \union IceLand
<1>1. OpenOcean \subseteq Cells /\ 0 \notin OpenOcean
  BY OceanAssumption DEF OpenOcean
<1>2. ASSUME NEW c \in Cells, Route[c] \notin OpenOcean
      PROVE  Route[c] = c /\ c \notin OpenOcean \union IceLand
  BY <1>2, RouteToWater
<1> QED
  BY <1>1, <1>2

\* What a field of icebergs may be: on cells that are routed within the hemisphere.
Routable(calv, s) ==
  \A c \in Cells : /\ calv[c] \in Nat
                   /\ calv[c] > 0 => c \in OpenOcean \union IceLand /\ Route[c] \in Half(s)

LEMMA RoutedIs ==
  ASSUME NEW s, NEW calv, Routable(calv, s), NEW d \in Cells
  PROVE  LET laden == {c \in Cells : calv[c] > 0}
         IN  Routed(calv, laden, d) = Total(calv, {c \in laden : Route[c] = d})
<1> DEFINE laden == {c \in Cells : calv[c] > 0}
           stays == Route[d] = 0
           from == {c \in laden : Route[c] = d /\ d # 0 /\ (stays => d < c)}
           to == {c \in laden : Route[c] = d}
<1>1. \A c \in laden : Route[c] # 0
  BY RoutedElsewhere DEF Routable
<1>2. Routed(calv, laden, d) = Total(calv, from) + IF stays THEN calv[d] ELSE 0
  BY Zenon DEF Routed
<1>3. Total(calv, to) \in Int
  <2>1. IsFiniteSet(to) /\ \A c \in to : calv[c] \in Int
    BY CellsFinite, FS_Subset DEF Routable
  <2> HIDE DEF to
  <2> QED
    BY <2>1, TotalInt
<1>4. CASE stays
  <2>1. d = 0 /\ calv[d] = 0
    <3>1. d = 0 /\ d \notin OpenOcean \union IceLand
      BY <1>4, RoutedElsewhere
    <3>2. calv[d] \in Nat /\ ~(calv[d] > 0)
      BY <3>1 DEF Routable
    <3> QED
      BY <3>1, <3>2
  <2>2. from = {} /\ to = {}
    BY <1>1, <2>1
  <2> HIDE DEF from, to
  <2> QED
    BY <1>2, <1>4, <2>1, <2>2, TotalEmpty DEF to
<1>5. CASE ~stays
  <2>1. from = to
    <3>1. \A c \in laden : Route[c] = d => d # 0
      BY <1>1
    <3> QED
      BY <1>5, <3>1
  <2>2. Routed(calv, laden, d) = Total(calv, to) + 0
    BY <1>2, <1>5, <2>1
  <2> HIDE DEF to
  <2> QED
    BY <1>3, <2>2 DEF to
<1> QED
  BY <1>4, <1>5

\* Routing moves icebergs, and all of them stay in the sheet's hemisphere.
LEMMA RoutingConserves ==
  ASSUME NEW s, NEW calv, Routable(calv, s),
         NEW field, \A d \in Half(s) : field[d] = Routed(calv, {c \in Cells : calv[c] > 0}, d)
  PROVE  Total(field, Half(s)) = Total(calv, Cells)
<1> DEFINE laden == {c \in Cells : calv[c] > 0}
<1>1. Half(s) \in SUBSET Cells /\ laden \in SUBSET Cells
  BY DEF Half
<1>2. IsFiniteSet(Half(s)) /\ IsFiniteSet(laden) /\ IsFiniteSet(Cells)
  BY <1>1, CellsFinite, FS_Subset
<1>3. /\ \A c \in Cells : calv[c] \in Int
      /\ \A c \in laden : Route[c] \in Half(s)
      /\ \A c \in Cells \ laden : calv[c] = 0
  BY DEF Routable
<1>4. \A d \in Half(s) : field[d] = Total(calv, {c \in laden : Route[c] = d})
  <2> TAKE d \in Half(s)
  <2>1. Routed(calv, laden, d) = Total(calv, {c \in laden : Route[c] = d})
    <3>1. d \in Cells
      BY <1>1
    <3> QED
      BY <3>1, RoutedIs
  <2> QED
    BY <2>1
<1> HIDE DEF laden
<1>5. \A c \in laden : calv[c] \in Int
  BY <1>1, <1>3
<1>6. Total(field, Half(s)) = Total(calv, laden)
  <2> DEFINE box == [d \in Half(s) |-> {c \in laden : Route[c] = d}]
  <2>1. \A d \in Half(s) : /\ box[d] \subseteq laden
                           /\ \A c \in laden : c \in box[d] <=> Route[c] = d
                           /\ field[d] = Total(calv, box[d])
    BY <1>4
  <2> HIDE DEF box
  <2> QED
    BY <1>2, <1>3, <1>5, <2>1, TotalByBoxes
<1>7. Total(calv, Cells) = Total(calv, laden)
  BY <1>1, <1>2, <1>3, TotalOfRest
<1> QED
  BY <1>6, <1>7

\* The regrid gives every point of the melange to one cell, on the sheet's side of the
\* ocean and where icebergs are or can be routed to.
LEMMA RegriddedIs ==
  ASSUME AllGiven, LedgerInv, NEW s \in Coupled,
         NEW calv, \A c \in Cells : calv[c] = Regridded(s, c) \div IceTstepMultiply
  PROVE  /\ Routable(calv, s)
         /\ IceTstepMultiply * Total(calv, Cells) = Total(MelangeOf(s), Melange[s])
<1> DEFINE m == MelangeOf(s)
           S == Melange[s]
           k == IceTstepMultiply
           given == [c \in Cells |-> Regridded(s, c)]
<1>1. /\ s \in Sheets /\ S \subseteq MelangePoints /\ IsFiniteSet(S)
      /\ \A p \in S : Home[p] \in Cells
      /\ k \in Nat \ {0}
  BY OceanAssumption DEF MelangePoints
<1>2. \A p \in S : m[p] = melange[p] /\ Multiple(m[p]) /\ m[p] \in Nat
  <2>1. \A p \in S : m[p] = melange[p] /\ Multiple(m[p])
    BY <1>1 DEF LedgerInv, MelangeOf
  <2> QED
    BY <2>1 DEF Multiple
<1>3. m = [p \in S |-> Extracted(p)]
  BY DEF AllGiven, Extracted, extract_bisicles_calving, MelangeOf
<1>4. \A c \in Cells : Regridded(s, c) = Total(m, From(s, c))
  BY <1>3 DEF Regridded
<1> HIDE DEF m, S, k
<1>5. \A c \in Cells : From(s, c) \subseteq S /\ \A p \in S : p \in From(s, c) <=> Home[p] = c
  BY DEF From, S
<1>6. \A c \in Cells : \E n \in Nat : Regridded(s, c) = k * n /\ calv[c] = n
  <2> TAKE c \in Cells
  <2>1. IsFiniteSet(From(s, c)) /\ \A p \in From(s, c) : \E n \in Nat : m[p] = k * n
    BY <1>1, <1>2, <1>5, FS_Subset, MultipleIs DEF k
  <2>2. PICK n \in Nat : Total(m, From(s, c)) = k * n
    BY <1>1, <2>1, TotalMultiple
  <2>3. (k * n) \div k = n
    BY MultipleIs DEF k
  <2> QED
    BY <1>4, <2>2, <2>3 DEF k
<1>7. \A c \in Cells : calv[c] > 0 => \E p \in S : Home[p] = c
  <2> SUFFICES ASSUME NEW c \in Cells, \A p \in S : Home[p] # c PROVE ~(calv[c] > 0)
    OBVIOUS
  <2>1. From(s, c) = {}
    BY <1>5
  <2>2. Regridded(s, c) = 0
    BY <1>4, <2>1, TotalEmpty
  <2>3. PICK n \in Nat : 0 = k * n /\ calv[c] = n
    BY <1>6, <2>2
  <2>4. n = 0
    BY <1>1, <2>3
  <2> QED
    BY <2>3, <2>4
<1>8. Routable(calv, s)
  <2> SUFFICES ASSUME NEW c \in Cells
               PROVE  /\ calv[c] \in Nat
                      /\ calv[c] > 0 => c \in OpenOcean \union IceLand /\ Route[c] \in Half(s)
    BY DEF Routable
  <2>1. calv[c] \in Nat
    BY <1>6
  <2>2. ASSUME NEW p \in S, Home[p] = c
        PROVE  c \in OpenOcean \union IceLand /\ Route[c] \in Half(s)
    BY <1>1, <2>2, OceanAssumption DEF S
  <2> QED
    BY <1>7, <2>1, <2>2
<1>9. Total(given, Cells) = Total(m, S)
  <2> DEFINE box == [c \in Cells |-> From(s, c)]
  <2>1. \A c \in Cells : /\ box[c] \subseteq S /\ \A p \in S : p \in box[c] <=> Home[p] = c
                         /\ given[c] = Total(m, box[c])
    BY <1>4, <1>5
  <2>2. \A p \in S : m[p] \in Int
    BY <1>2
  <2> HIDE DEF box, given
  <2> QED
    BY <1>1, <2>1, <2>2, CellsFinite, TotalByBoxes
<1>10. Total(given, Cells) = k * Total(calv, Cells)
  <2>1. /\ \A c \in Cells : calv[c] \in Int /\ given[c] = k * calv[c]
        /\ k \in Int
    BY <1>1, <1>6
  <2> HIDE DEF given
  <2> QED
    BY <2>1, CellsFinite, TotalTimes
<1> QED
  BY <1>8, <1>9, <1>10 DEF m, S, k

LEMMA LedgerReroute ==
  ASSUME AllGiven, LedgerInv, NEW s \in Coupled, reroute_calving_to_ocean(s)
  PROVE  LedgerInv'
<1> DEFINE calv == [c \in Cells |-> Regridded(s, c) \div IceTstepMultiply]
           laden == {c \in Cells : calv[c] > 0}
           active == {c \in Cells : From(s, c) \ Inactive # {}}
           kept == {c \in Cells : HaloStripped => Col(c) \in 1..NI - 2}
           Value(c) == CASE c \notin kept -> 0
                         [] c \in kept /\ Script = "active mask" -> RoutedActive(calv, active, c)
                         [] OTHER -> Routed(calv, laden, c)
           routed == [c \in Cells |-> Value(c)]
<1>1. /\ seed' = [seed EXCEPT ![s] = File(routed)] /\ pc' = [pc EXCEPT ![s] = "done"]
      /\ pc[s] = "reroute" /\ UNCHANGED <<melange, sinkIn, sink, bergs, gpc, owed>>
  BY DEF reroute_calving_to_ocean, iceVars, inVars
<1>2. \A c \in Half(s) : routed[c] = Routed(calv, laden, c)
  <2> TAKE c \in Half(s)
  <2>1. c \in Cells /\ c \in kept
    BY DEF Half, AllGiven
  <2> HIDE DEF calv, laden, active, kept
  <2>2. routed[c] = Value(c)
    BY <2>1
  <2> QED
    BY <2>1, <2>2, Zenon DEF AllGiven
<1>3. \A c \in Cells : calv[c] = Regridded(s, c) \div IceTstepMultiply
  OBVIOUS
<1> HIDE DEF routed, calv
<1>4. IceTstepMultiply * Total(routed, Half(s)) = Total(MelangeOf(s), Melange[s])
  BY <1>2, <1>3, RegriddedIs, RoutingConserves
<1>5. /\ pc' = [t \in Coupled |-> pc'[t]] /\ seed' = [t \in Coupled |-> seed'[t]]
      /\ pc'[s] = "done" /\ seed'[s] = File(routed)
      /\ \A t \in Coupled \ {s} : pc'[t] = pc[t] /\ seed'[t] = seed[t]
  BY <1>1 DEF LedgerInv
<1>6. \A t \in Coupled : SheetLedger(t)'
  <2> TAKE t \in Coupled
  <2>1. CASE t = s
    <3>1. sink'[s] = File(MelangeOf(s)')
      BY <1>1 DEF LedgerInv, SheetLedger, MelangeOf
    <3>2. ~Missing(seed'[s]) /\ seed'[s].of = routed
      BY <1>5 DEF File, Missing
    <3>3. MelangeOf(s)' = MelangeOf(s)
      BY <1>1 DEF MelangeOf
    <3> QED
      BY <1>4, <1>5, <2>1, <3>1, <3>2, <3>3 DEF SheetLedger
  <2>2. CASE t # s
    <3>1. /\ SheetLedger(t) /\ UNCHANGED <<pc[t], sinkIn, sink, seed[t], owed>>
          /\ MelangeOf(t)' = MelangeOf(t)
      BY <1>1, <1>5, <2>2 DEF LedgerInv, MelangeOf
    <3> QED
      BY <3>1 DEF SheetLedger, Due, Missing
  <2> QED
    BY <2>1, <2>2
<1>7. gpc = "wait"
  BY <1>1 DEF LedgerInv
<1> QED
  BY <1>1, <1>5, <1>6, <1>7 DEF LedgerInv, TakenOnce, Multiple

\* The ice sheet's sink takes what was left, so that what is left is what it calves, and
\* what is taken is what the ocean was given.
LEMMA LedgerIce ==
  ASSUME AllGiven, LedgerInv, NEW s \in Coupled, IceSheet(s) PROVE LedgerInv'
<1> DEFINE Asked(p) == IF Missing(sinkIn[s]) THEN 0 ELSE IceTstepMultiply * sinkIn[s].of[p]
           S == Melange[s]
<1>1. PICK calved \in [S -> Volumes] :
        /\ melange' = [p \in MelangePoints |->
             IF p \in S THEN melange[p] + calved[p] - Taken(s, calved)[p] ELSE melange[p]]
        /\ owed' = [owed EXCEPT ![s] = @ + Total(Taken(s, calved), S)]
  BY DEF IceSheet
<1> DEFINE taken == Taken(s, calved)
<1>2. /\ melange' = [p \in MelangePoints |->
           IF p \in S THEN melange[p] + calved[p] - taken[p] ELSE melange[p]]
      /\ owed' = [owed EXCEPT ![s] = @ + Total(taken, S)]
  BY <1>1, Zenon
<1>3. /\ pc' = [pc EXCEPT ![s] = "sink"] /\ pc[s] = "ice_sheet"
      /\ UNCHANGED <<sinkIn, sink, seed, bergs, gpc>>
  BY DEF IceSheet, fileVars
<1>4. Due(s)
  BY <1>3 DEF LedgerInv, SheetLedger
<1>5. /\ s \in Sheets /\ S \subseteq MelangePoints /\ IsFiniteSet(S)
      /\ \A p \in S : melange[p] \in Nat /\ calved[p] \in Nat
  <2>1. s \in Sheets /\ S \subseteq MelangePoints /\ IsFiniteSet(S)
    BY OceanAssumption DEF MelangePoints
  <2>2. \A p \in S : calved[p] \in Volumes
    OBVIOUS
  <2> QED
    BY <2>1, <2>2, OceanAssumption DEF LedgerInv, Multiple
<1>6. \A p \in S : taken[p] = IF Missing(sinkIn[s]) THEN 0 ELSE melange[p]
  <2> TAKE p \in S
  <2> DEFINE asked == Asked(p)
             held == melange[p] + calved[p]
  <2>1. asked = IF Missing(sinkIn[s]) THEN 0 ELSE melange[p]
    <3>1. CASE Missing(sinkIn[s])
      BY <3>1
    <3>2. CASE ~Missing(sinkIn[s])
      <4>1. sinkIn[s].of[p] = melange[p]
        BY <1>4, <3>2 DEF Due, MelangeOf
      <4>2. asked = IceTstepMultiply * melange[p]
        BY <3>2, <4>1, Zenon
      <4>3. IceTstepMultiply = 1 /\ melange[p] \in Nat
        BY <1>5 DEF AllGiven
      <4> HIDE DEF asked
      <4>4. asked = melange[p]
        BY <4>2, <4>3
      <4> QED
        BY <3>2, <4>4
    <3> QED
      BY <3>1, <3>2
  <2>2. asked \in Nat /\ held \in Nat /\ asked <= held
    BY <1>5, <2>1
  <2>3. taken[p] = Min({asked, held})
    BY DEF Taken
  <2> HIDE DEF asked, held, taken
  <2>4. Min({asked, held}) = asked
    <3>1. /\ Min({asked, held}) \in {asked, held}
          /\ \A y \in {asked, held} : Min({asked, held}) <= y
      <4> DEFINE both == {asked, held}
      <4>1. both \subseteq Nat /\ both # {}
        BY <2>2
      <4> HIDE DEF both
      <4>2. Min(both) \in both /\ \A y \in both : Min(both) <= y
        BY <4>1, LeastIsOne
      <4> QED
        BY <4>2 DEF both
    <3> QED
      BY <2>2, <3>1
  <2> QED
    BY <2>1, <2>3, <2>4
<1> HIDE DEF taken, Asked
<1>7. \A p \in MelangePoints : Multiple(melange'[p])
  <2> TAKE p \in MelangePoints
  <2>1. Multiple(melange[p]) /\ melange[p] \in Nat
    BY DEF LedgerInv, Multiple
  <2>2. CASE p \notin S
    BY <1>2, <2>1, <2>2
  <2>3. CASE p \in S
    <3>1. melange'[p] \in Nat
      <4>1. melange'[p] = melange[p] + calved[p] - taken[p] /\ calved[p] \in Nat
        BY <1>2, <1>5, <2>3
      <4>2. taken[p] = 0 \/ taken[p] = melange[p]
        BY <1>6, <2>3
      <4> QED
        BY <2>1, <4>1, <4>2
    <3>2. IceTstepMultiply = 1
      BY DEF AllGiven
    <3>3. \A left \in Nat : left = IceTstepMultiply * left
      BY <3>2
    <3>4. \A left \in Nat : Multiple(left)
      BY <3>3, MultipleIs
    <3> QED
      BY <3>1, <3>4
  <2> QED
    BY <2>2, <2>3
<1>8. /\ pc' = [t \in Coupled |-> pc'[t]] /\ pc'[s] = "sink"
      /\ \A t \in Coupled \ {s} : pc'[t] = pc[t]
      /\ owed' = [t \in Coupled |-> owed'[t]] /\ owed'[s] = owed[s] + Total(taken, S)
      /\ \A t \in Coupled \ {s} : owed'[t] = owed[t]
  BY <1>2, <1>3 DEF LedgerInv
<1>9. owed'[s] = 0
  <2>1. CASE Missing(sinkIn[s])
    <3>1. owed[s] = 0
      BY <1>4, <2>1 DEF Due
    <3>2. Total(taken, S) = 0
      <4>1. \A p \in S : taken[p] = 0
        BY <1>6, <2>1
      <4> QED
        BY <1>5, <4>1, TotalZero
    <3> QED
      BY <1>8, <3>1, <3>2
  <2>2. CASE ~Missing(sinkIn[s])
    <3>1. owed[s] = 0 - Total(MelangeOf(s), S)
      BY <1>4, <2>2 DEF Due
    <3>2. \A p \in S : taken[p] = MelangeOf(s)[p] /\ MelangeOf(s)[p] \in Int
      BY <1>5, <1>6, <2>2 DEF MelangeOf
    <3>3. Total(taken, S) = Total(MelangeOf(s), S)
      BY <1>5, <3>2, TotalEqual
    <3>4. Total(MelangeOf(s), S) \in Int
      BY <1>5, <3>2, TotalInt
    <3> QED
      BY <1>8, <3>1, <3>3, <3>4
  <2> QED
    BY <2>1, <2>2
<1>10. \A t \in Coupled \ {s} : \A p \in Melange[t] : melange'[p] = melange[p]
  <2> TAKE t \in Coupled \ {s}
  <2> TAKE p \in Melange[t]
  <2>1. t \in Sheets /\ p \in MelangePoints
    BY OceanAssumption DEF MelangePoints
  <2>2. p \notin Melange[s]
    <3>1. s \in Sheets /\ t \in {"GrIS", "AIS"} /\ s \in {"GrIS", "AIS"} /\ s # t
      BY OceanAssumption DEF Sheets
    <3>2. ASSUME p \in Melange[s] PROVE FALSE
      <4>1. Home[p] \in Half(s) /\ Home[p] \in Half(t)
        BY <2>1, <3>1, <3>2, OceanAssumption
      <4> QED
        BY <3>1, <4>1 DEF Half
    <3> QED
      BY <3>2
  <2> QED
    BY <1>2, <2>1, <2>2
<1>11. \A t \in Coupled : SheetLedger(t)'
  <2> TAKE t \in Coupled
  <2>1. CASE t = s
    BY <1>8, <2>1 DEF SheetLedger
  <2>2. CASE t # s
    <3>1. SheetLedger(t) /\ UNCHANGED <<pc[t], owed[t], sinkIn, sink, seed>>
      BY <1>3, <1>8, <2>2 DEF LedgerInv
    <3>2. MelangeOf(t)' = MelangeOf(t)
      BY <1>10, <2>2 DEF MelangeOf
    <3> QED
      BY <3>1, <3>2 DEF SheetLedger, Due, Missing
  <2> QED
    BY <2>1, <2>2
<1>12. gpc = "wait"
  BY <1>3 DEF LedgerInv
<1>13. TakenOnce'
  BY <1>8, <1>9 DEF LedgerInv, TakenOnce
<1> QED
  BY <1>3, <1>7, <1>8, <1>11, <1>12, <1>13 DEF LedgerInv

\* The other tasks of a sheet: its melt, its sink, and those that are submitted again.
LEMMA LedgerRegional ==
  ASSUME AllGiven, LedgerInv, NEW s \in Coupled,
         \/ nemo_to_regional_bisicles(s) \/ make_BISICLES_melange_sink(s) \/ RegionalAgain(s)
  PROVE  LedgerInv'
<1>1. UNCHANGED <<melange, sinkIn, seed, bergs, gpc, owed>> /\ pc[s] # "done"
  BY DEF nemo_to_regional_bisicles, make_BISICLES_melange_sink, RegionalAgain, iceVars, fileVars,
         inVars
<1>2. \/ pc' = [pc EXCEPT ![s] = "ice_sheet"] /\ pc[s] = "ocean" /\ UNCHANGED sink
      \/ pc' = [pc EXCEPT ![s] = "sink"] /\ pc[s] \notin {"ocean", "ice_sheet"} /\ UNCHANGED sink
      \/ pc' = [pc EXCEPT ![s] = "reroute"] /\ pc[s] = "sink" /\ sink' = [sink EXCEPT ![s] = File(MelangeOf(s))]
  <2>1. CASE nemo_to_regional_bisicles(s) \/ RegionalAgain(s)
    BY <2>1 DEF nemo_to_regional_bisicles, RegionalAgain, fileVars
  <2>2. CASE make_BISICLES_melange_sink(s)
    <3>1. [p \in Melange[s] |-> SinkOf(p)] = MelangeOf(s)
      BY DEF SinkOf, AllGiven, Extracted, extract_bisicles_calving, MelangeOf
    <3> QED
      BY <2>2, <3>1 DEF make_BISICLES_melange_sink
  <2> QED
    BY <2>1, <2>2
<1>3. /\ pc' = [t \in Coupled |-> pc'[t]] /\ sink' = [t \in Coupled |-> sink'[t]]
      /\ \A t \in Coupled \ {s} : pc'[t] = pc[t] /\ sink'[t] = sink[t]
      /\ \/ pc'[s] = "ice_sheet" /\ pc[s] = "ocean"
         \/ pc'[s] = "sink" /\ pc[s] \notin {"ocean", "ice_sheet"}
         \/ pc'[s] = "reroute" /\ pc[s] = "sink" /\ sink'[s] = File(MelangeOf(s))
  BY <1>2 DEF LedgerInv
<1>4. \A t \in Coupled : SheetLedger(t)'
  <2> TAKE t \in Coupled
  <2>1. MelangeOf(t)' = MelangeOf(t) /\ SheetLedger(t) /\ UNCHANGED <<sinkIn, seed, owed>>
    BY <1>1 DEF MelangeOf, LedgerInv
  <2>2. CASE t = s
    BY <1>3, <2>1, <2>2 DEF SheetLedger, Due, Missing
  <2>3. CASE t # s
    BY <1>3, <2>1, <2>3 DEF SheetLedger, Due, Missing
  <2> QED
    BY <2>2, <2>3
<1>5. gpc = "wait"
  BY <1>1 DEF LedgerInv
<1> QED
  BY <1>1, <1>3, <1>4, <1>5 DEF LedgerInv, TakenOnce, Multiple

LEMMA LedgerSplice == ASSUME LedgerInv, splice_iceberg_seeds PROVE LedgerInv'
<1> DEFINE Regions(c) == {s \in Coupled : ~Missing(seed[s]) /\ c \in Half(s)}
           Value(c) == CASE Regions(c) = {} -> 0
                         [] "AIS" \in Regions(c) -> seed["AIS"].of[c]
                         [] OTHER -> seed["GrIS"].of[c]
           spliced == [c \in Cells |-> Value(c)]
<1>1. bergs' = File(spliced) /\ gpc = "bergs" /\ UNCHANGED <<oceanVars, pc, iceVars, sink, seed, inVars>>
  BY DEF splice_iceberg_seeds
<1>2. \A s \in Coupled : pc[s] = "done" /\ ~Missing(seed[s])
  BY <1>1 DEF LedgerInv, SheetLedger
<1>3. \A s \in Coupled : \A c \in Half(s) : spliced[c] = seed[s].of[c]
  <2> TAKE s \in Coupled
  <2> TAKE c \in Half(s)
  <2>1. c \in Cells /\ s \in Regions(c) /\ s \in {"GrIS", "AIS"}
    BY <1>2, OceanAssumption DEF Half, Sheets
  <2>2. Regions(c) # {} /\ (s = "GrIS" => "AIS" \notin Regions(c))
    <3>1. ~(c \in Half("GrIS") /\ c \in Half("AIS"))
      BY DEF Half
    <3> QED
      BY <2>1, <3>1
  <2>3. Value(c) = seed[s].of[c]
    <3> HIDE DEF Regions
    <3>1. CASE s = "AIS"
      BY <2>1, <2>2, <3>1, Zenon
    <3>2. CASE s = "GrIS"
      BY <2>1, <2>2, <3>2, Zenon
    <3> QED
      BY <2>1, <3>1, <3>2
  <2> HIDE DEF Value
  <2> QED
    BY <2>1, <2>3
<1> HIDE DEF spliced
<1>4. \A s \in Coupled : \A c \in Half(s) : bergs'.of[c] = seed'[s].of[c]
  BY <1>1, <1>3 DEF File
<1>5. \A s \in Coupled : SheetLedger(s)'
  BY <1>1 DEF LedgerInv, SheetLedger, Due, MelangeOf, Missing, iceVars, inVars
<1> QED
  BY <1>1, <1>2, <1>4, <1>5 DEF LedgerInv, TakenOnce, Multiple, iceVars, inVars

\* At the year's end as much has been taken as has been given.
LEMMA LedgerNextYear == ASSUME LedgerInv, NextYear PROVE LedgerInv'
<1>1. /\ gpc = "done" /\ gpc' = "wait" /\ sinkIn' = sink /\ UNCHANGED melange
      /\ pc' = [s \in Coupled |-> "ocean"]
      /\ owed' = [s \in Coupled |-> owed[s] - IceTstepMultiply * Total(bergs.of, Half(s))]
      /\ sink' = [s \in Coupled |-> NoFile] /\ seed' = [s \in Coupled |-> NoFile]
  BY DEF NextYear
<1>2. \A s \in Coupled : sink[s] = File(MelangeOf(s))
  BY <1>1 DEF LedgerInv, SheetLedger
<1>3. \A s \in Coupled : owed'[s] = 0 - Total(MelangeOf(s), Melange[s])
  <2> TAKE s \in Coupled
  <2>1. IceTstepMultiply * Total(seed[s].of, Half(s)) = Total(MelangeOf(s), Melange[s])
    BY <1>1 DEF LedgerInv, SheetLedger
  <2>2. Total(bergs.of, Half(s)) = Total(seed[s].of, Half(s))
    <3>1. IsFiniteSet(Half(s)) /\ \A c \in Half(s) : bergs.of[c] = seed[s].of[c]
      BY <1>1, CellsFinite, FS_Subset DEF LedgerInv, Half
    <3> QED
      BY <3>1, TotalEqual
  <2>3. pc[s] = "done" /\ owed[s] = 0
    BY <1>1 DEF LedgerInv, TakenOnce
  <2> QED
    BY <1>1, <2>1, <2>2, <2>3
<1>4. \A s \in Coupled : SheetLedger(s)'
  <2> TAKE s \in Coupled
  <2>1. pc'[s] = "ocean" /\ MelangeOf(s)' = MelangeOf(s)
    BY <1>1 DEF MelangeOf
  <2>2. sinkIn'[s].of = MelangeOf(s) /\ ~Missing(sinkIn'[s])
    <3>1. sinkIn'[s] = File(MelangeOf(s))
      BY <1>1, <1>2
    <3>2. ~Missing(sinkIn'[s])
      BY <3>1 DEF File, Missing
    <3> QED
      BY <3>1, <3>2, FileOf, Zenon
  <2>3. Due(s)'
    BY <1>3, <2>1, <2>2 DEF Due, Missing
  <2> QED
    BY <2>1, <2>3 DEF SheetLedger
<1>5. TakenOnce'
  BY <1>1 DEF TakenOnce
<1>6. owed' = [s \in Coupled |-> owed'[s]]
  BY <1>1
<1> QED
  BY <1>1, <1>4, <1>5, <1>6 DEF LedgerInv, Multiple

LEMMA LedgerRest ==
  ASSUME LedgerInv,
         \/ copy_nemo_for_unicicles \/ process_nemo_for_unicicles \/ SubmitGlobal
         \/ WriteShelf \/ GlobalAgain \/ UNCHANGED vars
  PROVE  LedgerInv'
<1>1. UNCHANGED <<pc, melange, sink, seed, bergs, sinkIn, owed>>
  BY DEF copy_nemo_for_unicicles, process_nemo_for_unicicles, SubmitGlobal, WriteShelf, GlobalAgain,
         vars, iceVars, fileVars, inVars
<1>2. /\ gpc' # "wait" => \A s \in Coupled : pc[s] = "done"
      /\ gpc' \in {"shelf", "done"} => gpc \in {"shelf", "done"}
  BY DEF LedgerInv, copy_nemo_for_unicicles, process_nemo_for_unicicles, SubmitGlobal, WriteShelf,
         GlobalAgain, vars
<1>3. \A s \in Coupled : SheetLedger(s)'
  BY <1>1 DEF LedgerInv, SheetLedger, Due, MelangeOf, Missing
<1> QED
  BY <1>1, <1>2, <1>3 DEF LedgerInv, TakenOnce, Multiple

\* What a sink takes from an ice sheet's melange is what the ocean was given for the same
\* year, once and whole: regridded, routed off the land within the hemisphere and spliced,
\* with tasks killed between the two files (regional_bisicles_calving_to_nemo,
\* bisicles_global_to_nemo; without an active mask, with halos in both or neither, and for
\* ice sheets that are not accelerated).
THEOREM GivenWhole == AllGiven => (Spec => []TakenOnce)
<1> SUFFICES ASSUME AllGiven PROVE Spec => []TakenOnce
  OBVIOUS
<1>1. Init => LedgerInv
  <2> SUFFICES ASSUME Init PROVE LedgerInv
    OBVIOUS
  <2>1. /\ pc = [s \in Coupled |-> "ocean"] /\ gpc = "wait" /\ melange = [p \in MelangePoints |-> 0]
        /\ sink = [s \in Coupled |-> NoFile] /\ seed = [s \in Coupled |-> NoFile]
        /\ sinkIn = [s \in Coupled |-> NoFile] /\ owed = [s \in Coupled |-> 0]
    BY DEF Init
  <2>2. Multiple(0)
    <3>1. IceTstepMultiply \in Nat \ {0}
      BY Zenon, OceanAssumption
    <3>2. 0 = IceTstepMultiply * 0
      BY <3>1
    <3> QED
      BY <3>2, MultipleIs
  <2>3. \A s \in Coupled : SheetLedger(s)
    BY <2>1 DEF SheetLedger, Due, NoFile, Missing
  <2> QED
    BY <2>1, <2>2, <2>3 DEF LedgerInv, TakenOnce
<1>2. LedgerInv /\ [Next]_vars => LedgerInv'
  <2> SUFFICES ASSUME LedgerInv, [Next]_vars PROVE LedgerInv'
    OBVIOUS
  <2>1. ASSUME NEW s \in Coupled, Regional(s) PROVE LedgerInv'
    BY <2>1, LedgerReroute, LedgerIce, LedgerRegional DEF Regional
  <2> QED
    BY <2>1, LedgerSplice, LedgerNextYear, LedgerRest DEF Next
<1>3. LedgerInv => TakenOnce
  BY DEF LedgerInv
<1> QED
  BY <1>1, <1>2, <1>3, PTL DEF Spec
=============================================================================
