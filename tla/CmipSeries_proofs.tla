--------------------------- MODULE CmipSeries_proofs ---------------------------
(***************************************************************************)
(* Proofs about the post-processing of plot files, for any archive and any  *)
(* commands: what is left after a failure, that success is complete, that   *)
(* the series are in the order of time, and the ice that is grounded or     *)
(* floating.                                                                *)
(***************************************************************************)
EXTENDS CmipSeries, Finite_proofs, SequenceTheorems

-------------------------------------------------------------------------------
(* Lists *)

\* What is numbered from 1 is a list.
LEMMA ListOf ==
  ASSUME NEW n \in Int, NEW s, s = [i \in 1..n |-> s[i]]
  PROVE  s \in Seq(ToSet(s)) /\ (n \in Nat => Len(s) = n)
<1>1. CASE n \in Nat
  <2>1. s \in [1..n -> ToSet(s)]
    BY DEF ToSet
  <2> QED
    BY <1>1, <2>1, SeqDef
<1>2. CASE n \notin Nat
  <2>1. 1..n = 1..0
    BY <1>2
  <2>2. s \in [1..0 -> ToSet(s)]
    BY <2>1 DEF ToSet
  <2> QED
    BY <1>2, <2>2, SeqDef
<1> QED
  BY <1>1, <1>2

LEMMA ListIs ==
  ASSUME NEW S, NEW s \in Seq(S)
  PROVE  /\ Len(s) \in Nat /\ DOMAIN s = 1..Len(s) /\ s = [i \in 1..Len(s) |-> s[i]]
         /\ \A i \in 1..Len(s) : s[i] \in S
         /\ s \in Seq(ToSet(s))
<1>1. Len(s) \in Nat /\ s \in [1..Len(s) -> S] /\ DOMAIN s = 1..Len(s)
  BY LenProperties
<1>2. s = [i \in 1..Len(s) |-> s[i]]
  BY <1>1
<1> HIDE DEF ToSet
<1>3. s \in Seq(ToSet(s))
  BY <1>1, <1>2, ListOf
<1> QED
  BY <1>1, <1>2, <1>3

\* Two lists one after the other hold what either holds.
LEMMA BothLists ==
  ASSUME NEW s, s \in Seq(ToSet(s)), NEW t, t \in Seq(ToSet(t))
  PROVE  s \o t \in Seq(ToSet(s \o t)) /\ ToSet(s \o t) = ToSet(s) \cup ToSet(t)
<1> DEFINE S == ToSet(s) \cup ToSet(t)
<1>1. s \in Seq(S) /\ t \in Seq(S)
  BY SeqMonotonic
<1>2. \A x : ToSet(x) = Range(x)
  BY DEF ToSet, Range
<1> HIDE DEF S
<1>3. s \o t \in Seq(S)
  BY <1>1, ConcatProperties
<1>4. Range(s \o t) = Range(s) \cup Range(t)
  BY <1>1, RangeConcatenation
<1>5. s \o t \in Seq(Range(s \o t))
  BY <1>3, SeqOfRange
<1> QED
  BY <1>2, <1>4, <1>5

\* What is selected from a list is a list of some of what is in it.
LEMMA SelectedList ==
  ASSUME NEW s, s \in Seq(ToSet(s)), NEW places \in SUBSET DOMAIN s
  PROVE  /\ Selected(s, places) \in Seq(ToSet(Selected(s, places)))
         /\ ToSet(Selected(s, places)) = {s[i] : i \in places}
         /\ Len(Selected(s, places)) <= Len(s)
         /\ Len(Selected(s, places)) = Len(s) => Selected(s, places) = s /\ places = DOMAIN s
<1> DEFINE n == Len(s)
           part == Selected(s, places)
<1>1. n \in Nat /\ DOMAIN s = 1..n /\ s = [i \in 1..n |-> s[i]]
  BY ListIs
<1>2. /\ Cardinality(places) \in 0..n
      /\ DOMAIN part = 1..Cardinality(places)
      /\ \A k \in DOMAIN part : \E i \in places : part[k] = s[i]
      /\ \A i \in places : \E k \in DOMAIN part : part[k] = s[i]
      /\ Cardinality(places) = n => places = 1..n
  <2> HIDE DEF n
  <2> QED
    BY <1>1, SelectedIs
<1>3. part = [k \in 1..Cardinality(places) |-> part[k]]
  BY <1>2 DEF Selected
<1> HIDE DEF part, n
<1>4. part \in Seq(ToSet(part)) /\ Len(part) = Cardinality(places)
  BY <1>2, <1>3, ListOf
<1>5. Cardinality(places) = n => part = s /\ places = DOMAIN s
  BY <1>1, <1>2, SelectedAll DEF part
<1>6. ToSet(part) = {s[i] : i \in places}
  BY <1>2 DEF ToSet
<1> QED
  BY <1>2, <1>4, <1>5, <1>6 DEF part, n

-------------------------------------------------------------------------------
(* Grounded and floating ice *)

\* Ice of a cell is all grounded or all floating, floats where it is light enough, and
\* there is none outside.
IceIsRight(held, c) ==
  LET ice == Fractions(held, c)
      floats == (1028 - 918) * c.h >= 1028 * (c.h + c.b)
  IN /\ c.h > HMin => ice.grounded + ice.floating = IceFraction(held, c)
     /\ ice.floating > 0 => floats
     /\ ice.grounded > 0 => ~floats
     /\ ~c.there => ice = [grounded |-> 0, floating |-> 0]

\* By the mask made from the geometry, on any grid.
LEMMA MaskMade ==
  ASSUME NEW held, "mask" \notin held, NEW c, c.h \in Int, c.b \in Int, c.frac \in Int, c.there
  PROVE  IceIsRight(held, c)
<1> DEFINE floats == (1028 - 918) * c.h >= 1028 * (c.h + c.b)
           part == IceFraction(held, c)
           mask == compute_flotation_mask(c)
<1>1. part \in Int /\ (c.h > HMin \/ part = 0 \/ "iceFrac" \in held)
  BY DEF IceFraction, HMin
<1>2. CASE c.h > HMin /\ floats
  <2>1. mask = 2
    BY <1>2 DEF compute_flotation_mask, HMin, FLOATING_MASK_VAL
  <2> QED
    BY <1>1, <1>2, <2>1 DEF IceIsRight, Fractions, MaskOf, FLOATING_MASK_VAL, GROUNDED_MASK_VAL
<1>3. CASE c.h > HMin /\ ~floats
  <2>1. mask = 1
    BY <1>3 DEF compute_flotation_mask, HMin, FLOATING_MASK_VAL, GROUNDED_MASK_VAL
  <2> QED
    BY <1>1, <1>3, <2>1 DEF IceIsRight, Fractions, MaskOf, FLOATING_MASK_VAL, GROUNDED_MASK_VAL
<1>4. CASE ~(c.h > HMin)
  <2>1. mask \in {4, 8}
    BY <1>4 DEF compute_flotation_mask, HMin, OPEN_SEA_MASK_VAL, OPEN_LAND_MASK_VAL
  <2> QED
    BY <1>1, <1>4, <2>1 DEF IceIsRight, Fractions, MaskOf, FLOATING_MASK_VAL, GROUNDED_MASK_VAL
<1> QED
  BY <1>2, <1>3, <1>4

\* By the mask of the file, on its grid.
LEMMA MaskRead ==
  ASSUME NEW held, "mask" \in held, NEW t \in DOMAIN Transects, NEW i \in DOMAIN Transects[t]
  PROVE  IceIsRight(held, Between(Transects[t][i], Transects[t][i], 0))
<1> DEFINE d == Transects[t][i]
           c == Between(d, d, 0)
           part == IceFraction(held, c)
<1>1. /\ d \in [h : Nat, b : Int, frac : Nat, mask : {1, 2, 4, 8}]
      /\ d.h > 0 => d.mask \in {1, 2}
      /\ d.mask = 2 => 918 * d.h <= -1028 * d.b
      /\ d.mask = 1 => 918 * d.h > -1028 * d.b
  <2>1. Transects[t] \in Seq([h : Nat, b : Int, frac : Nat, mask : {1, 2, 4, 8}])
    BY TransectsAssumption
  <2>2. d \in [h : Nat, b : Int, frac : Nat, mask : {1, 2, 4, 8}]
    <3> DEFINE Cell == [h : Nat, b : Int, frac : Nat, mask : {1, 2, 4, 8}]
               u == Transects[t]
    <3>1. u \in Seq(Cell) /\ i \in DOMAIN u
      BY <2>1
    <3> HIDE DEF u, Cell
    <3>2. u[i] \in Cell
      BY <3>1, ListIs
    <3> QED
      BY <3>2 DEF u, Cell
  <2>3. /\ d.h > 0 => d.mask \in {1, 2}
        /\ d.mask = 2 => 918 * d.h <= -1028 * d.b
        /\ d.mask = 1 => 918 * d.h > -1028 * d.b
    BY TransectsAssumption DEF FLOATING_MASK_VAL, GROUNDED_MASK_VAL
  <2> QED
    BY <2>2, <2>3
<1>2. c.h = 4 * d.h /\ c.b = 4 * d.b /\ c.frac = 4 * d.frac /\ c.mask = 4 * d.mask /\ c.there
  <2> HIDE DEF d
  <2>1. d.h \in Int /\ d.b \in Int /\ d.frac \in Int /\ d.mask \in Int
    BY <1>1
  <2>2. \A x \in Int : (4 - 0) * x + 0 * x = 4 * x
    OBVIOUS
  <2>3. /\ c.h = (4 - 0) * d.h + 0 * d.h /\ c.b = (4 - 0) * d.b + 0 * d.b
        /\ c.frac = (4 - 0) * d.frac + 0 * d.frac /\ c.mask = (4 - 0) * d.mask + 0 * d.mask
        /\ c.there
    BY DEF Between
  <2> QED
    BY <2>1, <2>2, <2>3
<1>3. MaskOf(held, c) = d.mask
  <2> HIDE DEF c, d
  <2>1. Rint(c.mask) = d.mask
    BY <1>1, <1>2 DEF Rint
  <2> QED
    BY <2>1 DEF MaskOf
<1> HIDE DEF c, d
<1>4. part \in Int
  BY <1>1, <1>2 DEF IceFraction
<1>5. (1028 - 918) * c.h >= 1028 * (c.h + c.b) <=> 918 * d.h <= -1028 * d.b
  BY <1>1, <1>2
<1>6. c.h > HMin => d.h > 0
  BY <1>1, <1>2 DEF HMin
<1>7. IceIsRight(held, c)
  BY <1>1, <1>2, <1>3, <1>4, <1>5, <1>6 DEF IceIsRight, Fractions, FLOATING_MASK_VAL, GROUNDED_MASK_VAL
<1> QED
  BY <1>7 DEF c, d

LEMMA NoneOutside == ASSUME NEW held PROVE IceIsRight(held, Outside)
  BY DEF IceIsRight, Outside, Fractions, IceFraction, HMin

\* A point of another grid is outside or between two cells.
LEMMA InterpolatedIs ==
  ASSUME NEW t \in DOMAIN Transects, NEW c \in ToSet(Interpolated(Transects[t]))
  PROVE  c = Outside \/ (c.h \in Int /\ c.b \in Int /\ c.frac \in Int /\ c.there)
<1> DEFINE s == Transects[t]
           Cell == [h : Nat, b : Int, frac : Nat, mask : {1, 2, 4, 8}]
           m == 3 * (Len(s) - 1)
           At(k) == Between(s[(k + 2) \div 3], s[(k + 2) \div 3 + 1], 1 + ((k - 1) % 3))
           inner == [k \in 1..m |-> At(k)]
<1>1. s \in Seq(Cell)
  BY TransectsAssumption
<1>2. Len(s) \in Nat /\ DOMAIN s = 1..Len(s) /\ \A k \in 1..Len(s) : s[k] \in Cell
  BY <1>1, LenProperties
<1> HIDE DEF s
<1>3. ASSUME NEW a \in Cell, NEW b \in Cell, NEW w \in 1..3
      PROVE  LET d == Between(a, b, w) IN d.h \in Int /\ d.b \in Int /\ d.frac \in Int /\ d.there
  <2>1. a.h \in Int /\ a.b \in Int /\ a.frac \in Int /\ b.h \in Int /\ b.b \in Int /\ b.frac \in Int
    OBVIOUS
  <2> QED
    BY <2>1 DEF Between
<1> HIDE DEF Cell
<1>4. ASSUME NEW k \in 1..m
      PROVE  At(k).h \in Int /\ At(k).b \in Int /\ At(k).frac \in Int /\ At(k).there
  <2>1. (k + 2) \div 3 \in 1..Len(s) /\ (k + 2) \div 3 + 1 \in 1..Len(s) /\ 1 + ((k - 1) % 3) \in 1..3
    BY <1>2
  <2> QED
    BY <1>2, <1>3, <2>1
<1> HIDE DEF At
<1>5. Interpolated(s) = <<Outside>> \o inner
  BY DEF Interpolated, At
<1> DEFINE margin == <<Outside>>
<1> HIDE DEF m
<1>6. m \in Int /\ m >= -3
  BY <1>2 DEF m
<1>7. margin \in Seq(ToSet(margin)) /\ inner \in Seq(ToSet(inner))
  <2>1. inner = [k \in 1..m |-> inner[k]]
    OBVIOUS
  <2>2. margin \in Seq({Outside})
    OBVIOUS
  <2> HIDE DEF inner, margin
  <2> QED
    BY <1>6, <2>1, <2>2, ListOf, ListIs
<1>8. ToSet(margin \o inner) = ToSet(margin) \cup ToSet(inner)
  <2> HIDE DEF inner, margin
  <2> QED
    BY <1>7, BothLists
<1>9. c \in ToSet(margin) \cup ToSet(inner)
  BY <1>5, <1>8 DEF s
<1>10. ToSet(margin) = {Outside}
  BY DEF ToSet
<1>11. \A e \in ToSet(inner) : \E k \in 1..m : e = At(k)
  BY DEF ToSet
<1> QED
  BY <1>4, <1>9, <1>10, <1>11 DEF m
-------------------------------------------------------------------------------
(* The plot files of a command *)

\* What the prover knows of an archive.
LEMMA ArchiveIs ==
  ASSUME NEW a \in Archives
  PROVE  /\ a \in Seq(PlotFile) /\ Len(a) \in Nat /\ DOMAIN a = 1..Len(a)
         /\ ToSet(a) \subseteq PlotFile /\ IsFiniteSet(ToSet(a))
         /\ \A f \in ToSet(a) : IsFiniteSet(f.vars)
         /\ \A f, g \in ToSet(a) : f.name = g.name => f = g
<1>1. /\ a \in Seq(PlotFile)
      /\ \A i \in DOMAIN a : IsFiniteSet(a[i].vars)
      /\ \A i, j \in DOMAIN a : a[i].name = a[j].name => i = j
  BY ArchivesAssumption
<1>2. Len(a) \in Nat /\ DOMAIN a = 1..Len(a) /\ \A i \in 1..Len(a) : a[i] \in PlotFile
  BY <1>1, ListIs
<1>3. IsFiniteSet(ToSet(a))
  <2> DEFINE nth == [i \in 1..Len(a) |-> a[i]]
  <2>1. nth \in Surjection(1..Len(a), ToSet(a))
    BY <1>2 DEF Surjection, ToSet
  <2>2. IsFiniteSet(1..Len(a))
    BY <1>2, FS_Interval
  <2> HIDE DEF nth
  <2> QED
    BY <2>1, <2>2, FS_Surjection
<1> QED
  BY <1>1, <1>2, <1>3 DEF ToSet

\* The files found are files that are there and match, each once.
LEMMA FoundAre ==
  ASSUME NEW a \in Archives, NEW there \in SUBSET ToSet(a), NEW pattern
  PROVE  LET l == find_plot_files(there, pattern)
         IN  /\ l \in Seq(ToSet(l))
             /\ \A i \in DOMAIN l : l[i] \in there /\ Matches(pattern, l[i])
             /\ \A i, j \in DOMAIN l : l[i] = l[j] => i = j
<1> DEFINE found == {f \in there : Matches(pattern, f)}
           under == [f \in found |-> {g \in found : g.name < f.name}]
           l == find_plot_files(there, pattern)
           n == Cardinality(found)
<1>1. /\ ToSet(a) \subseteq PlotFile /\ IsFiniteSet(ToSet(a))
      /\ \A f, g \in ToSet(a) : f.name = g.name => f = g
  BY ArchiveIs
<1>2. found \in SUBSET ToSet(a) /\ \A f \in found : f \in there /\ Matches(pattern, f)
  OBVIOUS
<1>3. IsFiniteSet(found)
  BY <1>1, <1>2, FS_Subset
<1>4. l = [i \in 1..n |-> CHOOSE f \in found : Cardinality({g \in found : g.name < f.name}) = i - 1]
  BY DEF find_plot_files
<1> HIDE DEF found, l
<1>5. \A f \in found : f.name \in Int
  BY <1>1, <1>2 DEF PlotFile
<1>6. \A f \in found : under[f] = {g \in found : g.name < f.name}
  OBVIOUS
<1> HIDE DEF under
<1>7. \A f \in found : under[f] \in SUBSET found /\ f \notin under[f]
  BY <1>5, <1>6
<1>8. \A f, g \in found : f # g => f \in under[g] \/ g \in under[f]
  BY <1>1, <1>2, <1>5, <1>6
<1>9. ASSUME NEW f \in found, NEW g \in found, f \in under[g] PROVE under[f] \subseteq under[g]
  <2>1. ASSUME NEW h \in under[f] PROVE h \in under[g]
    <3>1. h \in found /\ h.name < f.name /\ f.name < g.name
      BY <1>6, <1>9
    <3>2. h.name < g.name
      BY <1>5, <3>1
    <3> QED
      BY <1>6, <3>1, <3>2
  <2> QED
    BY <2>1
<1>10. /\ n \in Nat
       /\ \A i \in 1..n : \E f \in found : Cardinality(under[f]) = i - 1
  BY <1>3, <1>7, <1>8, <1>9, RankedBy
<1> HIDE DEF n
<1>11. ASSUME NEW i \in 1..n PROVE l[i] \in found /\ Cardinality(under[l[i]]) = i - 1
  <2> DEFINE Before(f) == Cardinality({g \in found : g.name < f.name})
  <2>1. PICK f \in found : Cardinality(under[f]) = i - 1
    BY <1>10
  <2>2. Before(f) = i - 1
    BY <1>6, <2>1
  <2>3. l[i] = CHOOSE h \in found : Before(h) = i - 1
    BY <1>4
  <2> HIDE DEF Before
  <2>4. l[i] \in found /\ Before(l[i]) = i - 1
    BY <2>2, <2>3
  <2> QED
    BY <1>6, <2>4 DEF Before
<1>12. l = [i \in 1..n |-> l[i]]
  <2> DEFINE Item(i) == CHOOSE f \in found : Cardinality({g \in found : g.name < f.name}) = i - 1
  <2>1. l = [i \in 1..n |-> Item(i)]
    BY <1>4
  <2> HIDE DEF Item
  <2> QED
    BY <2>1
<1>13. \A i, j \in 1..n : l[i] = l[j] => i = j
  BY <1>11
<1>14. DOMAIN l = 1..n /\ l \in Seq(ToSet(l))
  BY <1>10, <1>12, ListOf
<1> QED
  BY <1>2, <1>11, <1>13, <1>14 DEF l

\* What is read from a plot file keeps its name and cells, and its fields but not its
\* coordinates.
LEMMA DataIs ==
  ASSUME NEW f \in PlotFile, NEW grid \in BOOLEAN
  PROVE  /\ Data(f, grid).name = f.name /\ Data(f, grid).cells = f.cells
         /\ Data(f, grid).own = ~grid
         /\ Data(f, grid).vars = f.vars \ Coordinates
         /\ Data(f, grid).style = f.style /\ Data(f, grid).mean = f.mean /\ Data(f, grid).time = f.time
         /\ Data(f, grid).start = f.start /\ Data(f, grid).end = f.end
         /\ compute_derived_fields(Data(f, grid)) = compute_derived_fields(f)
<1> DEFINE d == read_flatten_nc(f)
           e == regrid(d)
<1>1. f = [name |-> f.name, style |-> f.style, sheet |-> f.sheet, period |-> f.period,
           start |-> f.start, end |-> f.end, mean |-> f.mean, time |-> f.time,
           bounds |-> f.bounds, vars |-> f.vars, epsg |-> f.epsg, cells |-> f.cells, own |-> TRUE]
  BY DEF PlotFile
<1>2. /\ d.name = f.name /\ d.cells = f.cells /\ d.own = TRUE /\ d.vars = Flattened(f) \ Coordinates
      /\ d.style = f.style /\ d.mean = f.mean /\ d.time = f.time /\ d.start = f.start /\ d.end = f.end
      /\ DOMAIN d = DOMAIN f
  BY <1>1 DEF read_flatten_nc
<1>3. /\ e.name = d.name /\ e.cells = d.cells /\ e.own = FALSE /\ e.vars = d.vars
      /\ e.style = d.style /\ e.mean = d.mean /\ e.time = d.time /\ e.start = d.start /\ e.end = d.end
  <2> HIDE DEF d
  <2> QED
    BY <1>1, <1>2 DEF regrid
<1>4. Flattened(f) \ Coordinates = f.vars \ Coordinates
  BY DEF Flattened, Coordinates
<1> DEFINE g == Data(f, grid)
<1>5. /\ g.name = f.name /\ g.cells = f.cells /\ g.own = ~grid /\ g.vars = f.vars \ Coordinates
      /\ g.style = f.style /\ g.mean = f.mean /\ g.time = f.time /\ g.start = f.start /\ g.end = f.end
  BY <1>2, <1>3, <1>4 DEF Data
<1>6. \A v \in {"iceFrac", "thickness", "mask", "Z_base"} : v \in g.vars <=> v \in f.vars
  BY <1>5 DEF Coordinates
<1>7. compute_derived_fields(g) = compute_derived_fields(f)
  BY <1>6 DEF compute_derived_fields
<1> QED
  BY <1>5, <1>7
-------------------------------------------------------------------------------
(* Times *)

LEMMA DaysAreNumbers ==
  /\ \A m \in 1..12 : DaysBefore(m) \in Int
  /\ DaysBefore(1) = 0 /\ DaysBefore(7) = 181
<1> DEFINE days == [k \in 0..12 |-> CASE k = 0 -> 0 [] k = 1 -> 31 [] k = 2 -> 59 [] k = 3 -> 90
                      [] k = 4 -> 120 [] k = 5 -> 151 [] k = 6 -> 181 [] k = 7 -> 212 [] k = 8 -> 243
                      [] k = 9 -> 273 [] k = 10 -> 304 [] k = 11 -> 334 [] OTHER -> 365]
           Sums(f) == f = [k \in 0..12 |-> IF k = 0 THEN 0 ELSE f[k - 1] + DaysInMonth[k]]
           sum == CHOOSE f : Sums(f)
<1>1. \A k \in 0..12 : days[k] = IF k = 0 THEN 0 ELSE days[k - 1] + DaysInMonth[k]
  BY DEF DaysInMonth
<1>2. Sums(days)
  <2> HIDE DEF days
  <2>1. days = [k \in 0..12 |-> days[k]]
    BY DEF days
  <2> QED
    BY <1>1, <2>1
<1> HIDE DEF days, Sums
<1>3. Sums(sum)
  BY <1>2
<1>4. \A m \in 1..12 : DaysBefore(m) = sum[m - 1]
  BY DEF DaysBefore, Sums
<1> HIDE DEF sum
<1>5. \A k \in 0..12 : sum[k] = IF k = 0 THEN 0 ELSE sum[k - 1] + DaysInMonth[k]
  BY <1>3 DEF Sums
<1>6. \A k \in 1..12 : DaysInMonth[k] \in Int
  BY DEF DaysInMonth
<1>7. sum[0] \in Int /\ sum[1] \in Int /\ sum[2] \in Int /\ sum[3] \in Int
  BY <1>5, <1>6
<1>8. sum[4] \in Int /\ sum[5] \in Int /\ sum[6] \in Int /\ sum[7] \in Int
  BY <1>5, <1>6, <1>7
<1>9. sum[8] \in Int /\ sum[9] \in Int /\ sum[10] \in Int /\ sum[11] \in Int
  BY <1>5, <1>6, <1>8
<1>10. \A m \in 1..12 : m - 1 \in {0, 1, 2, 3, 4, 5, 6, 7, 8, 9, 10, 11}
  OBVIOUS
<1>11. \A m \in 1..12 : sum[m - 1] \in Int
  BY <1>7, <1>8, <1>9, <1>10
<1>12. sum[0] = 0 /\ sum[6] = 181
  <2>1. sum[0] = 0 /\ sum[1] = 31 /\ sum[2] = 59 /\ sum[3] = 90
    BY <1>5 DEF DaysInMonth
  <2>2. sum[4] = 120 /\ sum[5] = 151
    BY <1>5, <2>1 DEF DaysInMonth
  <2> QED
    BY <1>5, <2>1, <2>2 DEF DaysInMonth
<1>13. DaysBefore(1) = sum[0] /\ DaysBefore(7) = sum[6]
  BY <1>4
<1> QED
  BY <1>4, <1>11, <1>12, <1>13

\* The time given to a plot file is a number.
LEMMA TimeIs ==
  ASSUME NEW f \in PlotFile, NEW grid \in BOOLEAN
  PROVE  TimeMetadata(Data(f, grid)).t \in Int
<1> DEFINE d == Data(f, grid)
           info == parse_bisicles_filename(d)
<1>1. /\ d.start \in Nat \X (1..12) /\ d.end \in Nat \X (1..12) /\ d.time \in Int
      /\ d.style \in {"old", "new", "plain"}
  <2>1. d.start = f.start /\ d.end = f.end /\ d.time = f.time /\ d.style = f.style
    BY DataIs
  <2>2. /\ f.start \in Nat \X (1..12) /\ f.end \in Nat \X (1..12) /\ f.time \in Int
        /\ f.style \in {"old", "new", "plain"}
    BY DEF PlotFile
  <2> HIDE DEF d
  <2> QED
    BY <2>1, <2>2
<1> HIDE DEF d
<1>2. ASSUME NEW date \in Nat \X (1..12) PROVE yyyymmdd_to_year(date) \in Int
  <2>1. date[1] \in Int /\ DaysBefore(date[2]) \in Int
    BY DaysAreNumbers
  <2> QED
    BY <2>1 DEF yyyymmdd_to_year, Year
<1>3. \A x \in Int : Rounded(x) \in Int /\ InferredYear(x) \in Int
  BY DEF Rounded, InferredYear, Year
<1>4. CASE info # NoInfo
  <2>1. d.style # "plain"
    BY <1>4 DEF parse_bisicles_filename
  <2>2. info.end = d.end /\ info.start \in {d.start, d.end}
    BY <2>1 DEF parse_bisicles_filename
  <2> HIDE DEF info
  <2>3. yyyymmdd_to_year(info.start) \in Int /\ yyyymmdd_to_year(info.end) \in Int
    BY <1>1, <1>2, <2>2
  <2>4. time_years(info) \in Int
    BY <2>3 DEF time_years
  <2>5. TimeMetadata(d).t = time_years(info)
    BY <1>4 DEF TimeMetadata, info
  <2> QED
    BY <2>4, <2>5 DEF d
<1>5. CASE info = NoInfo
  <2> DEFINE start == IF d.bounds THEN yyyymmdd_to_year(d.start) ELSE InferredYear(d.time) * Year
             end == IF d.bounds THEN yyyymmdd_to_year(d.end) ELSE (InferredYear(d.time) + 1) * Year
  <2>1. start \in Int /\ end \in Int
    BY <1>1, <1>2, <1>3 DEF Year
  <2>2. TimeMetadata(d).t = IF d.mean THEN (start + end) \div 2 ELSE d.time
    BY <1>5 DEF TimeMetadata
  <2> HIDE DEF start, end
  <2>3. TimeMetadata(d).t \in Int
    BY <1>1, <2>1, <2>2
  <2> QED
    BY <2>3 DEF d
<1> QED
  BY <1>4, <1>5

\* The order of the steps has each place once, and times do not go back in it.
LEMMA SortIs ==
  ASSUME NEW n \in Nat, NEW times, DOMAIN times = 1..n, \A i \in 1..n : times[i] \in Int
  PROVE  LET idx == sort_idx(times)
         IN  /\ DOMAIN idx = 1..n /\ \A k \in 1..n : idx[k] \in 1..n
             /\ \A i \in 1..n : \E k \in 1..n : idx[k] = i
             /\ \A j, k \in 1..n : j < k => times[idx[j]] <= times[idx[k]] /\ idx[j] # idx[k]
<1> DEFINE Earlier(j, i) == times[j] < times[i] \/ (times[j] = times[i] /\ j < i)
           under == [i \in 1..n |-> {j \in 1..n : Earlier(j, i)}]
           idx == sort_idx(times)
           Item(k) == CHOOSE i \in 1..n : Cardinality({j \in 1..n : Earlier(j, i)}) = k - 1
<1>1. IsFiniteSet(1..n) /\ Cardinality(1..n) = n
  BY FS_Interval
<1>2. \A i \in 1..n : under[i] = {j \in 1..n : Earlier(j, i)}
  OBVIOUS
<1> HIDE DEF under
<1>3. \A i \in 1..n : under[i] \in SUBSET (1..n) /\ i \notin under[i]
  BY <1>2
<1>4. \A i, j \in 1..n : i # j => i \in under[j] \/ j \in under[i]
  <2> TAKE i, j \in 1..n
  <2>1. times[i] \in Int /\ times[j] \in Int /\ i \in Int /\ j \in Int
    OBVIOUS
  <2>2. i # j => Earlier(i, j) \/ Earlier(j, i)
    BY <2>1
  <2> QED
    BY <1>2, <2>2
<1>5. ASSUME NEW i \in 1..n, NEW j \in 1..n, i \in under[j] PROVE under[i] \subseteq under[j]
  <2>1. ASSUME NEW h \in under[i] PROVE h \in under[j]
    <3>1. h \in 1..n /\ Earlier(h, i) /\ Earlier(i, j)
      BY <1>2, <1>5
    <3>2. times[h] \in Int /\ times[i] \in Int /\ times[j] \in Int /\ h \in Int /\ i \in Int /\ j \in Int
      BY <3>1
    <3>3. Earlier(h, j)
      BY <3>1, <3>2
    <3> QED
      BY <1>2, <3>1, <3>3
  <2> QED
    BY <2>1
<1>6. /\ \A k \in 1..n : \E i \in 1..n : Cardinality(under[i]) = k - 1
      /\ \A i \in 1..n : Cardinality(under[i]) + 1 \in 1..n
      /\ \A i, j \in 1..n : Cardinality(under[i]) = Cardinality(under[j]) => i = j
      /\ \A i, j \in 1..n : i \in under[j] <=> Cardinality(under[i]) < Cardinality(under[j])
  BY <1>1, <1>3, <1>4, <1>5, RankedBy
<1>7. idx = [k \in 1..n |-> Item(k)]
  BY DEF sort_idx
<1>8. ASSUME NEW k \in 1..n PROVE idx[k] \in 1..n /\ Cardinality(under[idx[k]]) = k - 1
  <2> DEFINE Count(i) == Cardinality({j \in 1..n : Earlier(j, i)})
  <2>1. PICK i \in 1..n : Cardinality(under[i]) = k - 1
    BY <1>6
  <2>2. Count(i) = k - 1
    BY <1>2, <2>1
  <2>3. idx[k] = CHOOSE h \in 1..n : Count(h) = k - 1
    BY <1>7
  <2> HIDE DEF Count, idx
  <2>4. idx[k] \in 1..n /\ Count(idx[k]) = k - 1
    BY <2>2, <2>3
  <2> QED
    BY <1>2, <2>4 DEF Count
<1> HIDE DEF idx, Item
<1>9. ASSUME NEW i \in 1..n PROVE \E k \in 1..n : idx[k] = i
  <2> DEFINE k == Cardinality(under[i]) + 1
  <2>1. k \in 1..n
    BY <1>6
  <2>2. Cardinality(under[i]) \in Int
    <3>1. IsFiniteSet(under[i])
      BY <1>1, <1>3, FS_Subset
    <3> QED
      BY <3>1, FS_CardinalityType
  <2>3. k - 1 = Cardinality(under[i])
    BY <2>2
  <2> HIDE DEF k
  <2>4. idx[k] = i
    BY <1>6, <1>8, <2>1, <2>3
  <2> QED
    BY <2>1, <2>4
<1>10. ASSUME NEW j \in 1..n, NEW k \in 1..n, j < k
       PROVE  times[idx[j]] <= times[idx[k]] /\ idx[j] # idx[k]
  <2>1. idx[j] \in under[idx[k]]
    <3>1. j - 1 < k - 1
      BY <1>10
    <3>2. idx[j] \in 1..n /\ idx[k] \in 1..n
      BY <1>8
    <3>3. Cardinality(under[idx[j]]) = j - 1 /\ Cardinality(under[idx[k]]) = k - 1
      BY <1>8
    <3>4. Cardinality(under[idx[j]]) < Cardinality(under[idx[k]])
      BY <3>1, <3>3
    <3> QED
      BY <1>6, <3>2, <3>4
  <2>2. Earlier(idx[j], idx[k])
    BY <1>2, <1>8, <2>1
  <2>3. times[idx[j]] \in Int /\ times[idx[k]] \in Int /\ idx[j] \in Int /\ idx[k] \in Int
    BY <1>8
  <2> QED
    BY <2>2, <2>3
<1>11. DOMAIN idx = 1..n
  BY <1>7
<1> QED
  BY <1>8, <1>9, <1>10, <1>11 DEF idx
-------------------------------------------------------------------------------
(* The command at work *)

\* Files listed are of the archive and of different times, on whatever grid.
TimesApart(l) ==
  \A grid \in BOOLEAN : \A i, j \in DOMAIN l :
    TimeMetadata(Data(l[i], grid)).t = TimeMetadata(Data(l[j], grid)).t => i = j

\* Its options are what was typed amounts to, and its files are some of the archive's.
RunInv ==
  /\ archive \in Archives /\ present \in Int /\ present <= Len(archive) /\ attempt \in Nat
  /\ pc \in {"idle"} \cup Working \cup Final
  /\ pc # "idle" => command \in DOMAIN Commands /\ opt = Effective(Commands[command])
  /\ listed \in Seq(ToSet(archive)) /\ TimesApart(listed)
  /\ pc \in Working => listed # <<>> /\ ~IsRefused(opt)

\* What is in memory is the data of the files the tool has been run on, in their order.
DataInv ==
  /\ at \in 0..Len(listed)
  /\ pc = "idle" => at = 0 /\ data = <<>> /\ todo = <<>>
  /\ data \in Seq(ToSet(data))
  /\ pc # "idle" /\ Diagnosing => data = <<>>
  /\ pc # "idle" /\ ~Diagnosing => Len(data) = at /\ \A i \in 1..at : data[i] = DataOf(listed[i])
  /\ pc \in {"open", "tool"} => at < Len(listed)
  /\ pc \in {"sort", "gather", "write", "fill", "done"} /\ ~Diagnosing => at = Len(listed)

Starts(n) == \/ Refuse(n) \/ FlattenDirectory(n) \/ FlattenFile(n)
             \/ DiagnoseDirectory(n) \/ DiagnoseFile(n)

\* However a command begins, its files are of the archive and of different times.
LEMMA StartIs ==
  ASSUME RunInv, NEW n \in DOMAIN Commands, Starts(n)
  PROVE  /\ pc = "idle"
         /\ \E l \in Seq(ToSet(archive)) : \E next \in {"open", "failed", "refused"} :
              Start(n, l, next) /\ TimesApart(l) /\ (next = "open" => l # <<>> /\ ~IsRefused(Effective(Commands[n])))
<1> DEFINE o == Effective(Commands[n])
<1>1. /\ ToSet(archive) \subseteq PlotFile /\ DOMAIN archive = 1..Len(archive) /\ Len(archive) \in Nat
      /\ archive \in Archives
  BY ArchiveIs DEF RunInv
<1>2. Present \in SUBSET ToSet(archive)
  BY <1>1 DEF Present, ToSet, RunInv
<1>3. ASSUME ~IsRefused(o)
      PROVE  LET l == find_plot_files(Present, o["plot_pattern"])
             IN  l \in Seq(ToSet(archive)) /\ TimesApart(l)
  <2> DEFINE pattern == o["plot_pattern"]
             l == find_plot_files(Present, pattern)
  <2>1. /\ l \in Seq(ToSet(l))
        /\ \A i \in DOMAIN l : l[i] \in Present /\ Matches(pattern, l[i])
        /\ \A i, j \in DOMAIN l : l[i] = l[j] => i = j
    <3> HIDE DEF pattern
    <3> QED
      BY <1>1, <1>2, FoundAre
  <2>2. \A grid \in BOOLEAN : \A f, g \in ToSet(archive) :
          /\ Matches(pattern, f) /\ Matches(pattern, g)
          /\ TimeMetadata(Data(f, grid)).t = TimeMetadata(Data(g, grid)).t
          => f = g
    BY <1>1, <1>3, ArchivesAssumption
  <2> HIDE DEF l, pattern
  <2>3. \A i \in DOMAIN l : l[i] \in ToSet(archive)
    BY <1>2, <2>1
  <2>4. l \in Seq(ToSet(archive))
    <3>1. ToSet(l) \subseteq ToSet(archive)
      <4>1. \A x \in ToSet(l) : \E i \in DOMAIN l : x = l[i]
        BY DEF ToSet
      <4> QED
        BY <2>3, <4>1
    <3> QED
      BY <2>1, <3>1, SeqMonotonic
  <2>5. TimesApart(l)
    BY <2>1, <2>2, <2>3 DEF TimesApart
  <2> QED
    BY <2>4, <2>5 DEF l, pattern
<1>4. ASSUME NEW f \in Present PROVE <<f>> \in Seq(ToSet(archive)) /\ TimesApart(<<f>>) /\ <<f>> # <<>>
  <2>1. f \in ToSet(archive)
    BY <1>2
  <2>2. DOMAIN <<f>> = {1}
    OBVIOUS
  <2> QED
    BY <2>1, <2>2 DEF TimesApart
<1>5. <<>> \in Seq(ToSet(archive)) /\ TimesApart(<<>>)
  BY DEF TimesApart
<1> DEFINE Begins == \E l \in Seq(ToSet(archive)) : \E next \in {"open", "failed", "refused"} :
                       Start(n, l, next) /\ TimesApart(l) /\ (next = "open" => l # <<>> /\ ~IsRefused(Effective(Commands[n])))
<1> HIDE DEF o
<1>6. ASSUME Refuse(n) PROVE pc = "idle" /\ Begins
  BY <1>5, <1>6 DEF Refuse, AtPrompt
<1>7. ASSUME FlattenDirectory(n) PROVE pc = "idle" /\ Begins
  BY <1>3, <1>7 DEF FlattenDirectory, Accepted, AtPrompt, o
<1>8. ASSUME FlattenFile(n) PROVE pc = "idle" /\ Begins
  BY <1>4, <1>8 DEF FlattenFile, Accepted, AtPrompt
<1>9. ASSUME DiagnoseDirectory(n) PROVE pc = "idle" /\ Begins
  BY <1>3, <1>9 DEF DiagnoseDirectory, Accepted, AtPrompt, o
<1>10. ASSUME DiagnoseFile(n) PROVE pc = "idle" /\ Begins
  BY <1>4, <1>10 DEF DiagnoseFile, Accepted, AtPrompt
<1> QED
  BY <1>6, <1>7, <1>8, <1>9, <1>10 DEF Starts

\* A step of the program leaves the command and its files alone.
LEMMA StepIs ==
  ASSUME Step
  PROVE  /\ archive' = archive /\ present' = present /\ attempt' = attempt /\ command' = command
         /\ opt' = opt /\ listed' = listed
         /\ pc \in Working /\ pc' \in Working \cup Final
<1>1. CASE OpenTemp
  BY <1>1 DEF OpenTemp, inputs, request, Working, Final
<1>2. CASE SortSteps
  BY <1>2 DEF SortSteps, inputs, request, Working, Final
<1>3. CASE SortTimes
  BY <1>3 DEF SortTimes, inputs, request, Working, Final
<1>4. CASE GatherFields
  BY <1>4 DEF GatherFields, inputs, request, Working, Final
<1>5. CASE GatherScalars
  BY <1>5 DEF GatherScalars, inputs, request, Working, Final
<1>6. CASE OpenOutput
  BY <1>6 DEF OpenOutput, inputs, request, Working, Final
<1>7. CASE FillOutput
  BY <1>7 DEF FillOutput, inputs, request, Working, Final
<1>8. CASE Finish
  BY <1>8 DEF Finish, inputs, request, Working, Final
<1>9. ASSUME NEW ok \in BOOLEAN, run_flatten(ok)
      PROVE  /\ archive' = archive /\ present' = present /\ attempt' = attempt /\ command' = command
             /\ opt' = opt /\ listed' = listed
             /\ pc \in Working /\ pc' \in Working \cup Final
  BY <1>9 DEF run_flatten, inputs, request, Working, Final
<1>10. ASSUME NEW ok \in BOOLEAN, run_diagnostics(ok)
       PROVE  /\ archive' = archive /\ present' = present /\ attempt' = attempt /\ command' = command
              /\ opt' = opt /\ listed' = listed
              /\ pc \in Working /\ pc' \in Working \cup Final
  BY <1>10 DEF run_diagnostics, inputs, request, Working, Final
<1> QED
  BY <1>1, <1>2, <1>3, <1>4, <1>5, <1>6, <1>7, <1>8, <1>9, <1>10 DEF Step

LEMMA RunStep ==
  ASSUME RunInv, [Next]_vars
  PROVE  RunInv'
<1>1. CASE UNCHANGED vars
  BY <1>1 DEF RunInv, vars, inputs, request, TimesApart
<1>2. CASE WritePlot
  BY <1>2 DEF RunInv, WritePlot, request, TimesApart
<1>3. CASE Step
  BY <1>3, StepIs DEF RunInv, TimesApart, Working
<1>4. CASE Kill
  BY <1>4 DEF RunInv, Kill, inputs, request, TimesApart, Working, Final
<1>5. CASE Return
  <2>1. listed' = <<>> /\ TimesApart(<<>>)
    BY <1>5 DEF Return, TimesApart
  <2> QED
    BY <1>5, <2>1 DEF RunInv, Return, inputs, TimesApart, Working
<1>6. ASSUME NEW n \in DOMAIN Commands, Starts(n) PROVE RunInv'
  <2>1. PICK l \in Seq(ToSet(archive)), next \in {"open", "failed", "refused"} :
          Start(n, l, next) /\ TimesApart(l) /\ (next = "open" => l # <<>> /\ ~IsRefused(Effective(Commands[n])))
    BY <1>6, StartIs
  <2>2. /\ attempt' = attempt + 1 /\ command' = n /\ opt' = Effective(Commands[n])
        /\ listed' = l /\ pc' = next /\ archive' = archive /\ present' = present
    BY <2>1 DEF Start, inputs
  <2>3. TimesApart(listed)'
    BY <2>1, <2>2 DEF TimesApart
  <2>4. pc' \in Working => listed' # <<>> /\ ~IsRefused(opt')
    BY <2>1, <2>2 DEF Working
  <2>5. pc' \in {"idle"} \cup Working \cup Final
    BY <2>2 DEF Working, Final
  <2> QED
    BY <2>2, <2>3, <2>4, <2>5 DEF RunInv
<1> QED
  BY <1>1, <1>2, <1>3, <1>4, <1>5, <1>6 DEF Next, Starts
\* A file more is read.
LEMMA OneMore ==
  ASSUME NEW s, s \in Seq(ToSet(s)), NEW e
  PROVE  /\ Append(s, e) \in Seq(ToSet(Append(s, e))) /\ Len(Append(s, e)) = Len(s) + 1
         /\ \A i \in 1..Len(s) : Append(s, e)[i] = s[i]
         /\ Append(s, e)[Len(s) + 1] = e
<1> DEFINE S == ToSet(s) \cup {e}
<1>1. s \in Seq(S)
  BY SeqMonotonic
<1>2. e \in S
  OBVIOUS
<1> HIDE DEF S
<1>3. /\ Append(s, e) \in Seq(S) /\ Len(Append(s, e)) = Len(s) + 1
      /\ \A i \in 1..Len(s) : Append(s, e)[i] = s[i]
      /\ Append(s, e)[Len(s) + 1] = e
  BY <1>1, <1>2, AppendProperties
<1>4. Append(s, e) \in Seq(ToSet(Append(s, e)))
  BY <1>3, ListIs
<1> QED
  BY <1>3, <1>4

LEMMA NoList == <<>> \in Seq(ToSet(<<>>)) /\ Len(<<>>) = 0 /\ DOMAIN <<>> = {} /\ ToSet(<<>>) = {}
  BY DEF ToSet

LEMMA DataStep ==
  ASSUME RunInv, DataInv, [Next]_vars
  PROVE  DataInv'
<1>1. Len(listed) \in Nat
  BY ListIs DEF RunInv
<1>2. CASE UNCHANGED vars
  BY <1>2 DEF DataInv, vars, inputs, request, Diagnosing, Typed, DataOf, Regrids
<1>3. CASE WritePlot
  BY <1>3 DEF DataInv, WritePlot, request, Diagnosing, Typed, DataOf, Regrids
<1>4. CASE Kill
  BY <1>4 DEF DataInv, Kill, inputs, request, Diagnosing, Typed, DataOf, Regrids, Working
<1>5. CASE Return
  <2>1. Len(<<>>) = 0
    OBVIOUS
  <2> QED
    BY <1>5, <2>1, NoList DEF DataInv, Return
<1>6. ASSUME NEW n \in DOMAIN Commands, Starts(n) PROVE DataInv'
  <2>1. PICK l \in Seq(ToSet(archive)), next \in {"open", "failed", "refused"} :
          Start(n, l, next) /\ TimesApart(l) /\ (next = "open" => l # <<>> /\ ~IsRefused(Effective(Commands[n])))
    BY <1>6, StartIs
  <2>2. pc = "idle"
    BY <1>6, StartIs
  <2>3. /\ command' = n /\ listed' = l /\ pc' = next
        /\ at' = 0 /\ data' = <<>> /\ todo' = <<>>
    BY <2>1, <2>2 DEF Start, DataInv
  <2>4. Len(l) \in Nat /\ (l # <<>> => 0 < Len(l))
    BY EmptySeq, ListIs
  <2> QED
    BY <2>1, <2>3, <2>4, NoList DEF DataInv
<1>7. CASE Step
  <2>1. /\ command' = command /\ opt' = opt /\ listed' = listed
        /\ pc \in Working
    BY <1>7, StepIs
  <2>2. Diagnosing' = Diagnosing /\ \A f : DataOf(f)' = DataOf(f)
    BY <2>1 DEF Diagnosing, Typed, DataOf, Regrids
  <2>3. pc # "idle"
    BY <2>1 DEF Working
  <2>4. CASE UNCHANGED <<data, at>> /\ pc' # "idle" /\ (pc' \in {"open", "tool"} => pc \in {"open", "tool"})
             /\ (pc' \in {"sort", "gather", "write", "fill", "done"}
                 => pc \in {"sort", "gather", "write", "fill", "done"} \/ Diagnosing)
    BY <2>1, <2>2, <2>3, <2>4 DEF DataInv
  <2>5. ASSUME NEW ok \in BOOLEAN, run_flatten(ok) PROVE DataInv'
    <3>1. CASE ~ok
      BY <2>4, <2>5, <3>1 DEF run_flatten
    <3>2. CASE ok
      <4> DEFINE e == DataOf(listed[at + 1])
      <4>1. /\ data' = Append(data, e) /\ at' = at + 1 /\ ~Diagnosing
            /\ pc' = IF at + 1 = Len(listed) THEN "sort" ELSE "open"
        BY <2>5, <3>2 DEF run_flatten
      <4>2. /\ data \in Seq(ToSet(data)) /\ Len(data) = at /\ at < Len(listed) /\ at \in Nat
            /\ \A i \in 1..at : data[i] = DataOf(listed[i])
        BY <2>3, <2>5, <4>1 DEF run_flatten, DataInv
      <4>3. /\ data' \in Seq(ToSet(data')) /\ Len(data') = at + 1
            /\ \A i \in 1..at : data'[i] = data[i]
            /\ data'[at + 1] = e
        <5> HIDE DEF e
        <5> QED
          BY <4>1, <4>2, OneMore
      <4>4. \A i \in 1..at + 1 : data'[i] = DataOf(listed[i])
        BY <4>2, <4>3
      <4> QED
        BY <1>1, <2>1, <2>2, <4>1, <4>2, <4>3, <4>4 DEF DataInv
    <3> QED
      BY <3>1, <3>2
  <2>6. ASSUME NEW ok \in BOOLEAN, run_diagnostics(ok) PROVE DataInv'
    <3>1. Diagnosing /\ data' = data /\ pc = "tool"
      BY <2>6 DEF run_diagnostics
    <3>2. CASE at' = at
      BY <2>4, <2>6, <3>1, <3>2 DEF run_diagnostics
    <3>3. CASE at' # at
      <4>1. at' = at + 1 /\ pc' = IF at + 1 = Len(listed) THEN "sort" ELSE "tool"
        BY <2>6, <3>3 DEF run_diagnostics
      <4>2. at < Len(listed) /\ at \in Nat /\ data = <<>>
        BY <2>3, <3>1 DEF DataInv
      <4> QED
        BY <1>1, <2>1, <2>2, <3>1, <4>1, <4>2, NoList DEF DataInv
    <3> QED
      BY <3>2, <3>3
  <2>7. CASE OpenTemp
    BY <2>4, <2>7 DEF OpenTemp
  <2>8. CASE SortSteps
    BY <2>4, <2>8 DEF SortSteps
  <2>9. CASE SortTimes
    BY <2>4, <2>9 DEF SortTimes
  <2>10. CASE GatherFields
    BY <2>4, <2>10 DEF GatherFields
  <2>11. CASE GatherScalars
    BY <2>4, <2>11 DEF GatherScalars
  <2>12. CASE OpenOutput
    BY <2>4, <2>12 DEF OpenOutput
  <2>13. CASE FillOutput
    BY <2>4, <2>13 DEF FillOutput
  <2>14. CASE Finish
    BY <2>4, <2>14 DEF Finish
  <2> QED
    BY <1>7, <2>5, <2>6, <2>7, <2>8, <2>9, <2>10, <2>11, <2>12, <2>13, <2>14 DEF Step
<1> QED
  BY <1>2, <1>3, <1>4, <1>5, <1>6, <1>7 DEF Next, Starts

LEMMA Beginning == Init => RunInv /\ DataInv
<1> SUFFICES ASSUME Init PROVE RunInv /\ DataInv
  OBVIOUS
<1>1. archive \in Archives /\ Len(archive) \in Nat
  BY ArchiveIs DEF Init
<1>2. TimesApart(<<>>)
  BY DEF TimesApart
<1> QED
  BY <1>1, <1>2, NoList DEF Init, RunInv, DataInv, Working

\* The command's files, options and data are at every moment what was asked for.
THEOREM RunHolds == Spec => [](RunInv /\ DataInv)
<1>1. RunInv /\ DataInv /\ [Next]_vars => (RunInv /\ DataInv)'
  BY RunStep, DataStep
<1> QED
  BY <1>1, Beginning, PTL DEF Spec

\* Whatever is on the cells of the plot files and whichever grid is asked for, the ice of a
\* cell is all grounded or all floating, and floats where it is light enough (IceGroundedOrFloating).
THEOREM IceHolds == Spec => []IceGroundedOrFloating
<1>1. RunInv /\ DataInv => IceGroundedOrFloating
  <2> SUFFICES ASSUME RunInv, DataInv, pc = "gather", NEW i \in DOMAIN data,
                      compute_derived_fields(data[i]) # {},
                      ~("mask" \in data[i].vars /\ Regrids),
                      NEW c \in ToSet(CellsOf(data[i]))
               PROVE  IceIsRight(data[i].vars, c)
    BY DEF IceGroundedOrFloating, IceIsRight
  <2> DEFINE d == data[i]
             t == d.cells
  <2>1. ~Diagnosing
    BY NoList DEF DataInv
  <2>2. at = Len(listed) /\ Len(data) = at /\ DOMAIN data = 1..at
        /\ \A j \in 1..at : data[j] = DataOf(listed[j])
    BY <2>1, ListIs DEF DataInv
  <2>3. listed[i] \in PlotFile
    BY <2>2, ListIs, ArchiveIs DEF RunInv
  <2>4. d = Data(listed[i], Regrids) /\ Regrids \in BOOLEAN
    BY <2>2 DEF DataOf, Regrids
  <2>5. d.own = ~Regrids /\ t = listed[i].cells
    BY <2>3, <2>4, DataIs
  <2>6. t \in DOMAIN Transects
    BY <2>3, <2>5 DEF PlotFile
  <2> HIDE DEF d, t
  <2>7. c \in ToSet(IF Regrids THEN Interpolated(Transects[t]) ELSE OwnGrid(Transects[t]))
    BY <2>5 DEF CellsOf, d, t
  <2>8. CASE Regrids
    <3>1. c = Outside \/ (c.h \in Int /\ c.b \in Int /\ c.frac \in Int /\ c.there)
      BY <2>6, <2>7, <2>8, InterpolatedIs
    <3> QED
      BY <2>8, <3>1, MaskMade, NoneOutside DEF d
  <2>9. CASE ~Regrids
    <3>1. PICK k \in DOMAIN Transects[t] : c = Between(Transects[t][k], Transects[t][k], 0)
      BY <2>7, <2>9 DEF OwnGrid, ToSet
    <3>2. CASE "mask" \in d.vars
      BY <2>6, <3>1, <3>2, MaskRead DEF d
    <3>3. CASE "mask" \notin d.vars
      <4>1. Transects[t][k] \in [h : Nat, b : Int, frac : Nat, mask : {1, 2, 4, 8}]
        <5>1. Transects[t] \in Seq([h : Nat, b : Int, frac : Nat, mask : {1, 2, 4, 8}])
          BY <2>6, TransectsAssumption
        <5> QED
          BY <5>1, ListIs
      <4>2. c.h \in Int /\ c.b \in Int /\ c.frac \in Int /\ c.there
        BY <3>1, <4>1 DEF Between
      <4> QED
        BY <3>3, <4>2, MaskMade DEF d
    <3> QED
      BY <3>2, <3>3
  <2> QED
    BY <2>8, <2>9
<1> QED
  BY <1>1, RunHolds, PTL
-------------------------------------------------------------------------------
(* What is to be written *)

\* A set as a list has each member, if there is an end to them.
LEMMA ListOfSet ==
  ASSUME NEW S, IsFiniteSet(S)
  PROVE  SetToSeq(S) \in Seq(ToSet(SetToSeq(S))) /\ ToSet(SetToSeq(S)) = S
<1> DEFINE n == Cardinality(S)
           l == SetToSeq(S)
<1>1. n \in Nat /\ ExistsBijection(1..n, S)
  BY FS_CardinalityType
<1>2. \E f \in [1..n -> S] : IsInjective(f)
  BY <1>1 DEF ExistsBijection, Bijection, Injection
<1>3. l \in [1..n -> S] /\ IsInjective(l)
  BY <1>2 DEF SetToSeq
<1> HIDE DEF l
<1>4. IsFiniteSet(1..n) /\ Cardinality(1..n) = n
  BY <1>1, FS_Interval
<1>5. l \in Injection(1..n, S)
  BY <1>3 DEF Injection
<1>6. l \in Surjection(1..n, S)
  BY <1>4, <1>5, FS_Injection
<1>7. ToSet(l) = S
  BY <1>3, <1>6 DEF Surjection, ToSet
<1>8. l \in Seq(ToSet(l))
  BY <1>1, <1>3, ListOf
<1> QED
  BY <1>7, <1>8 DEF l

\* An output is of this attempt, and whole once it is written.
LEMMA OutputIs ==
  ASSUME NEW name, NEW table, NEW ready, NEW files, NEW axis
  PROVE  LET o == Output(name, table, ready, files, axis)
         IN  /\ o.name = name /\ o.ready = ready
             /\ o.file.attempt = attempt /\ o.file.whole /\ o.file.table = table
             /\ o.file.files = files /\ o.file.axis = axis
  BY DEF Output

\* The steps are those of all data, in the order of their times.
StepsAreSorted ==
  /\ steps \in Seq(ToSet(steps)) /\ DOMAIN steps = DOMAIN data
  /\ \A k \in DOMAIN steps : /\ steps[k].index \in DOMAIN data
                             /\ steps[k].meta = TimeMetadata(data[steps[k].index])
  /\ \A i \in DOMAIN data : \E k \in DOMAIN steps : steps[k].index = i
  /\ \A j, k \in DOMAIN steps : j < k => steps[j].meta.t < steps[k].meta.t

\* A file of all steps: each value is from the plot file of its time.
InOrderOfTime(r) ==
  /\ r.files = [k \in DOMAIN steps |-> data[steps[k].index].name]
  /\ r.axis = FieldAxis /\ r.axis.years = [k \in DOMAIN steps |-> steps[k].meta.t]

\* What is to be written of a field: its file is opened only if all plot files have it.
IsFieldFile(o) ==
  /\ o.file.attempt = attempt /\ o.file.whole /\ o.file.table # "scalar"
  /\ o.ready => InOrderOfTime(o.file)

LEMMA FieldFileIs ==
  ASSUME StepsAreSorted, data \in Seq(ToSet(data)), NEW places \in SUBSET DOMAIN data,
         NEW name, NEW table, table # "scalar"
  PROVE  LET o == FieldFile(name, table, Selected(data, places))
         IN  o.name = name /\ IsFieldFile(o)
<1> DEFINE from == Selected(data, places)
           there == Selected(steps, {k \in DOMAIN steps : steps[k].index \in DOMAIN from})
           files == [k \in DOMAIN there |-> from[there[k].index].name]
           o == FieldFile(name, table, from)
<1>1. o = Output(name, table, CanSort(from), files, FieldAxis)
  BY DEF FieldFile
<1>2. FieldAxis.years = [k \in DOMAIN steps |-> steps[k].meta.t]
  BY DEF FieldAxis
<1> HIDE DEF o, files, from
<1>3. /\ o.name = name /\ o.ready = CanSort(from)
      /\ o.file.attempt = attempt /\ o.file.whole /\ o.file.table = table
      /\ o.file.files = files /\ o.file.axis = FieldAxis
  BY <1>1, OutputIs
<1>4. ASSUME CanSort(from) PROVE InOrderOfTime(o.file)
  <2>1. /\ from \in Seq(ToSet(from)) /\ Len(from) <= Len(data)
        /\ Len(from) = Len(data) => from = data
    BY SelectedList DEF from
  <2>2. Len(from) \in Nat /\ DOMAIN from = 1..Len(from) /\ Len(data) \in Nat /\ DOMAIN data = 1..Len(data)
    BY <2>1, ListIs
  <2>3. \A i \in DOMAIN data : i \in DOMAIN from
    BY <1>4 DEF CanSort, StepsAreSorted
  <2>4. Len(data) <= Len(from)
    <3>1. CASE Len(data) = 0
      BY <2>2, <3>1
    <3>2. CASE Len(data) # 0
      BY <2>2, <2>3, <3>2
    <3> QED
      BY <3>1, <3>2
  <2>5. from = data
    <3> DEFINE n == Len(from)
               m == Len(data)
    <3>1. n \in Nat /\ m \in Nat /\ n <= m /\ m <= n
      BY <2>1, <2>2, <2>4
    <3> HIDE DEF n, m
    <3>2. n = m
      BY <3>1
    <3> QED
      BY <2>1, <3>2, Zenon DEF n, m
  <2>6. {k \in DOMAIN steps : steps[k].index \in DOMAIN from} = DOMAIN steps
    BY <2>5 DEF StepsAreSorted
  <2>7. steps \in Seq(ToSet(steps))
    BY DEF StepsAreSorted
  <2>8. Len(steps) \in Nat /\ DOMAIN steps = 1..Len(steps) /\ steps = [k \in 1..Len(steps) |-> steps[k]]
    BY <2>7, ListIs
  <2>9. there = steps
    BY <2>6, <2>8, SelectedAll
  <2>10. files = [k \in DOMAIN steps |-> data[steps[k].index].name]
    <3> HIDE DEF there
    <3> QED
      BY <2>5, <2>9 DEF files
  <2> QED
    BY <1>2, <1>3, <2>10 DEF InOrderOfTime
<1>5. o.name = name /\ IsFieldFile(o)
  BY <1>3, <1>4 DEF IsFieldFile
<1> QED
  BY <1>5 DEF o, from
\* Entries of a table are a list, and come from the fields they are given.
LEMMA EntriesAre ==
  ASSUME NEW names, Len(names) \in Nat, NEW from, NEW factor, NEW to
  PROVE  LET l == Entries(names, from, factor, to)
         IN  /\ l \in Seq(ToSet(l))
             /\ \A e \in ToSet(l) : \E i \in 1..Len(names) :
                  e.name = names[i][1] /\ e.cmip7_name = names[i][2]
<1> DEFINE l == Entries(names, from, factor, to)
<1>1. l = [i \in 1..Len(names) |-> [name |-> names[i][1], cmip7_name |-> names[i][2],
                                    from |-> from, factor |-> factor, to |-> to]]
  BY DEF Entries
<1> HIDE DEF l
<1>2. l = [i \in 1..Len(names) |-> l[i]]
  BY <1>1
<1>3. l \in Seq(ToSet(l))
  BY <1>2, ListOf
<1>4. \A e \in ToSet(l) : \E i \in 1..Len(names) :
        e.name = names[i][1] /\ e.cmip7_name = names[i][2]
  BY <1>1 DEF ToSet
<1> QED
  BY <1>3, <1>4 DEF l

\* A table whose entries are of fields, never of coordinates.
IsTable(t) == t \in Seq(ToSet(t)) /\ \A e \in ToSet(t) : e.name \notin Coordinates

LEMMA TableOf ==
  ASSUME NEW names, Len(names) \in Nat, \A i \in 1..Len(names) : names[i][1] \notin Coordinates
  PROVE  \A from, factor, to : IsTable(Entries(names, from, factor, to))
  BY EntriesAre DEF IsTable

LEMMA BothTables == ASSUME NEW s, IsTable(s), NEW t, IsTable(t) PROVE IsTable(s \o t)
  BY BothLists DEF IsTable

LEMMA FieldTable == IsTable(FIELD_MAPPING)
<1>1. \A from, factor, to : IsTable(Entries(<<<<"thickness", "lithk">>, <<"Z_surface", "orog">>,
                                              <<"Z_base", "topg">>>>,
                                            from, factor, to))
  <2> DEFINE names == <<<<"thickness", "lithk">>, <<"Z_surface", "orog">>, <<"Z_base", "topg">>>>
  <2>1. Len(names) = 3
    OBVIOUS
  <2>2. \A i \in 1..3 : names[i][1] \notin Coordinates
    BY DEF Coordinates
  <2> HIDE DEF names
  <2>3. \A from, factor, to : IsTable(Entries(names, from, factor, to))
    BY <2>1, <2>2, TableOf
  <2> QED
    BY <2>3 DEF names
<1>2. \A from, factor, to : IsTable(Entries(<<<<"activeSurfaceThicknessSource", "acabf">>,
                                              <<"activeBasalThicknessSource", "libmassbf">>,
                                              <<"calvingFlux", "licalvf">>>>,
                                            from, factor, to))
  <2> DEFINE names == <<<<"activeSurfaceThicknessSource", "acabf">>,
                        <<"activeBasalThicknessSource", "libmassbf">>, <<"calvingFlux", "licalvf">>>>
  <2>1. Len(names) = 3
    OBVIOUS
  <2>2. \A i \in 1..3 : names[i][1] \notin Coordinates
    BY DEF Coordinates
  <2> HIDE DEF names
  <2>3. \A from, factor, to : IsTable(Entries(names, from, factor, to))
    BY <2>1, <2>2, TableOf
  <2> QED
    BY <2>3 DEF names
<1>3. \A from, factor, to : IsTable(Entries(<<<<"dragCoef", "strbasemag">>>>,
                                            from, factor, to))
  BY TableOf DEF Coordinates
<1>4. \A from, factor, to : IsTable(Entries(<<<<"xVel", "xvelmean">>, <<"yVel", "yvelmean">>>>,
                                            from, factor, to))
  BY TableOf DEF Coordinates
<1>5. \A from, factor, to : IsTable(Entries(<<<<"iceFrac", "sftgif">>>>,
                                            from, factor, to))
  BY TableOf DEF Coordinates
<1>6. \A from, factor, to : IsTable(Entries(<<<<"Z_bottom", "base">>>>,
                                            from, factor, to))
  BY TableOf DEF Coordinates
<1>7. \A from, factor, to : IsTable(Entries(<<<<"dThickness/dt", "dlithkdt">>,
                                              <<"divergenceThicknessFlux", "divflux">>>>,
                                            from, factor, to))
  BY TableOf DEF Coordinates
<1>8. \A from, factor, to : IsTable(Entries(<<<<"tillWaterDepth", "tillwatd">>,
                                              <<"melangeThickness", "melangeThickness">>>>,
                                            from, factor, to))
  BY TableOf DEF Coordinates
<1> QED
  BY <1>1, <1>2, <1>3, <1>4, <1>5, <1>6, <1>7, <1>8, BothTables DEF FIELD_MAPPING

LEMMA SameTable ==
  ASSUME NEW names, Len(names) \in Nat, \A i \in 1..Len(names) : names[i] \notin Coordinates
  PROVE  \A from, factor, to : IsTable(Entries(Same(names), from, factor, to))
<1> DEFINE pairs == Same(names)
<1>1. pairs = [i \in 1..Len(names) |-> <<names[i], names[i]>>]
  BY DEF Same
<1> HIDE DEF pairs
<1>2. pairs = [i \in 1..Len(names) |-> pairs[i]] /\ \A i \in 1..Len(names) : pairs[i][1] = names[i]
  BY <1>1
<1>3. Len(pairs) = Len(names)
  BY <1>2, ListOf
<1>4. \A from, factor, to : IsTable(Entries(pairs, from, factor, to))
  BY <1>2, <1>3, TableOf
<1> QED
  BY <1>4 DEF pairs

LEMMA MeansTable == IsTable(CF_FIELD_MAPPING) /\ IsTable(DERIVED_FIELDS)
<1>1. \A from, factor, to : IsTable(Entries(Same(<<"lithk", "orog", "topg">>), from, factor, to))
  BY SameTable DEF Coordinates
<1>2. \A from, factor, to : IsTable(Entries(Same(<<"xvelbase", "yvelbase", "xvelsurf", "yvelsurf">>), from, factor, to))
  BY SameTable DEF Coordinates
<1>3. \A from, factor, to : IsTable(Entries(Same(<<"litemptop", "litempbot">>), from, factor, to))
  BY SameTable DEF Coordinates
<1>4. \A from, factor, to : IsTable(Entries(Same(<<"sftgrf", "sftflf">>), from, factor, to))
  BY SameTable DEF Coordinates
<1>5. \A from, factor, to : IsTable(Entries(Same(<<"acabf", "libmassbf", "licalvf">>), from, factor, to))
  BY SameTable DEF Coordinates
<1>6. \A from, factor, to : IsTable(Entries(Same(<<"strbasemag">>), from, factor, to))
  BY SameTable DEF Coordinates
<1>7. \A from, factor, to : IsTable(Entries(Same(<<"hfgeoubed">>), from, factor, to))
  BY SameTable DEF Coordinates
<1>8. \A from, factor, to : IsTable(Entries(Same(<<"sftgif">>), from, factor, to))
  BY SameTable DEF Coordinates
<1>9. \A from, factor, to : IsTable(Entries(Same(<<"libmassbfgr", "libmassbffl">>), from, factor, to))
  BY SameTable DEF Coordinates
<1>10. \A from, factor, to : IsTable(Entries(Same(<<"dlithkdt">>), from, factor, to))
  BY SameTable DEF Coordinates
<1>11. \A from, factor, to : IsTable(Entries(Same(<<"litempbotgr", "litempbotfl">>), from, factor, to))
  BY SameTable DEF Coordinates
<1> DEFINE l1 == Entries(Same(<<"lithk", "orog", "topg">>), "m", "1", "m")
           l2 == Entries(Same(<<"xvelbase", "yvelbase", "xvelsurf", "yvelsurf">>), "m a-1", "1/s", "m s-1")
           l3 == Entries(Same(<<"litemptop", "litempbot">>), "K", "1", "K")
           l4 == Entries(Same(<<"sftgrf", "sftflf">>), "1", "100", "%")
           l5 == Entries(Same(<<"acabf", "libmassbf", "licalvf">>), "kg m-2 a-1", "1/s", "kg m-2 s-1")
           l6 == Entries(Same(<<"strbasemag">>), "Pa", "1", "Pa")
           l7 == Entries(Same(<<"hfgeoubed">>), "W m-2", "1", "W m-2")
           l8 == Entries(Same(<<"sftgif">>), "1", "1", "1")
           l9 == Entries(Same(<<"libmassbfgr", "libmassbffl">>), "kg m-2 a-1", "1/s", "kg m-2 s-1")
           l10 == Entries(Same(<<"dlithkdt">>), "m a-1", "1/s", "m s-1")
           l11 == Entries(Same(<<"litempbotgr", "litempbotfl">>), "K", "1", "K")
<1>12. CF_FIELD_MAPPING = l1 \o l2 \o l3 \o l4 \o l5 \o l6 \o l7 \o l8 \o l9 \o l10 \o l11
  BY DEF CF_FIELD_MAPPING, CFTable
<1>13. DERIVED_FIELDS = l4
  BY DEF DERIVED_FIELDS
<1>14. /\ IsTable(l1) /\ IsTable(l2) /\ IsTable(l3) /\ IsTable(l4) /\ IsTable(l5) /\ IsTable(l6)
       /\ IsTable(l7) /\ IsTable(l8) /\ IsTable(l9) /\ IsTable(l10) /\ IsTable(l11)
  BY <1>1, <1>2, <1>3, <1>4, <1>5, <1>6, <1>7, <1>8, <1>9, <1>10, <1>11
<1> HIDE DEF l1, l2, l3, l4, l5, l6, l7, l8, l9, l10, l11
<1>15. IsTable(l1 \o l2 \o l3 \o l4 \o l5 \o l6)
  BY <1>14, BothTables
<1>16. IsTable(l1 \o l2 \o l3 \o l4 \o l5 \o l6 \o l7 \o l8 \o l9 \o l10 \o l11)
  BY <1>14, <1>15, BothTables
<1> QED
  BY <1>12, <1>13, <1>14, <1>16

\* The files of a table are fields' files, one at least for every entry that a plot file has.
LEMMA TableFilesAre ==
  ASSUME StepsAreSorted, data \in Seq(ToSet(data)),
         NEW table, table \in Seq(ToSet(table)), NEW tag, tag # "scalar"
  PROVE  LET l == TableFiles(table, tag)
         IN  /\ l \in Seq(ToSet(l)) /\ \A o \in ToSet(l) : IsFieldFile(o)
             /\ \A e \in ToSet(table) : With(data, e.name) # <<>>
                  => \E o \in ToSet(l) : o.name[1] = e.cmip7_name
<1> DEFINE places == {i \in DOMAIN table : With(data, table[i].name) # <<>>}
           there == Selected(table, places)
           Name(e) == ismip7_drs_filename(e.cmip7_name, 0, FieldAxis.years)
           File(e) == FieldFile(Name(e), tag, With(data, e.name))
           l == TableFiles(table, tag)
<1>1. l = [i \in DOMAIN there |-> File(there[i])]
  BY DEF TableFiles
<1>2. \A e : Name(e)[1] = e.cmip7_name
  BY DEF ismip7_drs_filename
<1> HIDE DEF Name
<1>3. ASSUME NEW e PROVE IsFieldFile(File(e)) /\ File(e).name[1] = e.cmip7_name
  <2> DEFINE those == {i \in DOMAIN data : e.name \in Variables(data[i])}
  <2>1. With(data, e.name) = Selected(data, those) /\ those \in SUBSET DOMAIN data
    BY DEF With
  <2> HIDE DEF those
  <2>2. File(e).name = Name(e) /\ IsFieldFile(File(e))
    BY <2>1, FieldFileIs
  <2> QED
    BY <1>2, <2>2
<1>4. places \in SUBSET DOMAIN table
  OBVIOUS
<1> HIDE DEF File, l
<1>5. there \in Seq(ToSet(there)) /\ ToSet(there) = {table[i] : i \in places}
  <2> HIDE DEF places
  <2> QED
    BY <1>4, SelectedList
<1>6. ASSUME NEW e \in ToSet(table), With(data, e.name) # <<>> PROVE e \in ToSet(there)
  <2>1. PICK i \in DOMAIN table : e = table[i]
    BY DEF ToSet
  <2> QED
    BY <1>5, <1>6, <2>1
<1> HIDE DEF there
<1>7. Len(there) \in Nat /\ DOMAIN there = 1..Len(there)
  BY <1>5, ListIs
<1>8. l \in Seq(ToSet(l))
  <2> DEFINE n == Len(there)
  <2>1. l = [i \in 1..n |-> l[i]] /\ n \in Int
    BY <1>1, <1>7
  <2> HIDE DEF n
  <2> QED
    BY <2>1, ListOf
<1>9. ASSUME NEW o \in ToSet(l) PROVE IsFieldFile(o)
  <2>1. PICK i \in DOMAIN there : o = File(there[i])
    BY <1>1 DEF ToSet
  <2> QED
    BY <1>3, <2>1
<1>10. ASSUME NEW e \in ToSet(there) PROVE \E o \in ToSet(l) : o.name[1] = e.cmip7_name
  <2>1. PICK i \in DOMAIN there : e = there[i]
    BY DEF ToSet
  <2>2. File(e) \in ToSet(l)
    BY <1>1, <2>1 DEF ToSet
  <2> QED
    BY <1>3, <2>2
<1> QED
  BY <1>6, <1>8, <1>9, <1>10 DEF l
\* So are the files of the fields no table knows.
LEMMA OtherFilesAre ==
  ASSUME RunInv, DataInv, pc = "gather", ~Diagnosing, StepsAreSorted
  PROVE  OtherFiles \in Seq(ToSet(OtherFiles)) /\ \A o \in ToSet(OtherFiles) : IsFieldFile(o)
<1> DEFINE fields == UNION {data[i].vars : i \in DOMAIN data} \ InTables
           other == SetToSeq(fields)
           File(v) == FieldFile(<<v, 0>>, "unmapped", With(data, v))
           l == OtherFiles
<1>1. /\ data \in Seq(ToSet(data)) /\ Len(data) \in Nat /\ DOMAIN data = 1..Len(data)
      /\ Len(data) = Len(listed) /\ \A i \in 1..Len(data) : data[i] = DataOf(listed[i])
  BY ListIs DEF DataInv
<1>2. IsFiniteSet(fields)
  <2> DEFINE all == {data[i].vars : i \in DOMAIN data}
             at_ == [i \in 1..Len(data) |-> data[i].vars]
  <2>1. at_ \in Surjection(1..Len(data), all)
    BY <1>1 DEF Surjection
  <2>2. IsFiniteSet(1..Len(data))
    BY <1>1, FS_Interval
  <2> HIDE DEF at_
  <2>3. IsFiniteSet(all)
    BY <2>1, <2>2, FS_Surjection
  <2>4. ASSUME NEW i \in DOMAIN data PROVE IsFiniteSet(data[i].vars)
    <3>1. listed[i] \in ToSet(archive) /\ archive \in Archives
      BY <1>1, ListIs DEF RunInv
    <3>2. listed[i] \in PlotFile /\ IsFiniteSet(listed[i].vars)
      BY <3>1, ArchiveIs
    <3>3. data[i] = Data(listed[i], Regrids) /\ Regrids \in BOOLEAN
      BY <1>1 DEF DataOf, Regrids
    <3>4. data[i].vars = listed[i].vars \ Coordinates
      BY <3>2, <3>3, DataIs
    <3>5. data[i].vars \in SUBSET listed[i].vars
      BY <3>4
    <3> QED
      BY <3>2, <3>5, FS_Subset
  <2>5. \A T \in all : IsFiniteSet(T)
    BY <2>4
  <2> HIDE DEF all
  <2>6. IsFiniteSet(UNION all)
    BY <2>3, <2>5, FS_UNION
  <2>7. fields \in SUBSET UNION all
    BY DEF all
  <2> HIDE DEF fields
  <2> QED
    BY <2>6, <2>7, FS_Subset
<1>3. l = [i \in DOMAIN other |-> File(other[i])]
  BY DEF OtherFiles
<1> HIDE DEF fields, l
<1>4. other \in Seq(ToSet(other))
  BY <1>2, ListOfSet
<1> HIDE DEF other
<1>5. Len(other) \in Nat /\ DOMAIN other = 1..Len(other)
  BY <1>4, ListIs
<1>6. ASSUME NEW v PROVE IsFieldFile(File(v))
  <2> DEFINE those == {i \in DOMAIN data : v \in Variables(data[i])}
  <2>1. With(data, v) = Selected(data, those) /\ those \in SUBSET DOMAIN data
    BY DEF With
  <2> HIDE DEF those
  <2> QED
    BY <1>1, <2>1, FieldFileIs
<1> HIDE DEF File
<1>7. l = [i \in 1..Len(other) |-> l[i]]
  BY <1>3, <1>5
<1>8. l \in Seq(ToSet(l))
  BY <1>5, <1>7, ListOf
<1>9. \A o \in ToSet(l) : IsFieldFile(o)
  BY <1>3, <1>6 DEF ToSet
<1> QED
  BY <1>8, <1>9 DEF l

FieldFiles(l) == l \in Seq(ToSet(l)) /\ \A o \in ToSet(l) : IsFieldFile(o)

LEMMA BothFieldFiles ==
  ASSUME NEW s, FieldFiles(s), NEW t, FieldFiles(t)
  PROVE  FieldFiles(s \o t) /\ ToSet(s \o t) = ToSet(s) \cup ToSet(t)
  BY BothLists DEF FieldFiles

LEMMA FieldsAre ==
  ASSUME RunInv, DataInv, pc = "gather", ~Diagnosing, StepsAreSorted
  PROVE  /\ FieldFiles(Fields)
         /\ \A e \in ToSet(FIELD_MAPPING) \cup ToSet(CF_FIELD_MAPPING) :
              With(data, e.name) # <<>> => \E o \in ToSet(Fields) : o.name[1] = e.cmip7_name
<1> DEFINE derived == Selected(DERIVED_FIELDS, {i \in DOMAIN DERIVED_FIELDS : NotTaken(DERIVED_FIELDS[i])})
           l1 == TableFiles(FIELD_MAPPING, "field")
           l2 == TableFiles(CF_FIELD_MAPPING, "cf")
           l3 == TableFiles(derived, "derived")
           l4 == IF opt["cmip7_only"] THEN <<>> ELSE OtherFiles
           l5 == [i \in DOMAIN GRID_GEOMETRY_FIELDS |->
                    FieldFile(<<GRID_GEOMETRY_FIELDS[i], 0>>, "geometry", data)]
<1>1. data \in Seq(ToSet(data)) /\ Len(data) \in Nat /\ data = [i \in 1..Len(data) |-> data[i]]
      /\ DOMAIN data = 1..Len(data)
  BY ListIs DEF DataInv
<1>2. FieldFiles(l1) /\ \A e \in ToSet(FIELD_MAPPING) :
                    With(data, e.name) # <<>> => \E o \in ToSet(l1) : o.name[1] = e.cmip7_name
  BY <1>1, FieldTable, TableFilesAre DEF IsTable, FieldFiles
<1>3. FieldFiles(l2) /\ \A e \in ToSet(CF_FIELD_MAPPING) :
                    With(data, e.name) # <<>> => \E o \in ToSet(l2) : o.name[1] = e.cmip7_name
  BY <1>1, MeansTable, TableFilesAre DEF IsTable, FieldFiles
<1>4. FieldFiles(l3)
  <2> DEFINE places == {i \in DOMAIN DERIVED_FIELDS : NotTaken(DERIVED_FIELDS[i])}
  <2>1. DERIVED_FIELDS \in Seq(ToSet(DERIVED_FIELDS)) /\ places \in SUBSET DOMAIN DERIVED_FIELDS
    BY MeansTable DEF IsTable
  <2> HIDE DEF places
  <2>2. Selected(DERIVED_FIELDS, places) \in Seq(ToSet(Selected(DERIVED_FIELDS, places)))
    BY <2>1, SelectedList
  <2>3. derived = Selected(DERIVED_FIELDS, places)
    BY DEF places
  <2> HIDE DEF derived
  <2>4. derived \in Seq(ToSet(derived))
    BY <2>2, <2>3
  <2> QED
    BY <1>1, <2>4, TableFilesAre DEF FieldFiles
<1>5. FieldFiles(l4)
  BY NoList, OtherFilesAre DEF FieldFiles
<1>6. FieldFiles(l5)
  <2>1. DOMAIN GRID_GEOMETRY_FIELDS = 1..1
    BY DEF GRID_GEOMETRY_FIELDS
  <2>2. l5 = [i \in 1..1 |-> l5[i]]
    BY <2>1
  <2>3. l5 \in Seq(ToSet(l5))
    <3> HIDE DEF l5
    <3> QED
      BY <2>2, ListOf
  <2>4. Selected(data, DOMAIN data) = data
    BY <1>1, SelectedAll
  <2>5. ASSUME NEW name PROVE IsFieldFile(FieldFile(name, "geometry", data))
    <3>1. IsFieldFile(FieldFile(name, "geometry", Selected(data, DOMAIN data)))
      BY <1>1, FieldFileIs
    <3> QED
      BY <2>4, <3>1
  <2>6. \A o \in ToSet(l5) : IsFieldFile(o)
    BY <2>5 DEF ToSet
  <2> QED
    BY <2>3, <2>6 DEF FieldFiles
<1>7. Fields = l1 \o l2 \o l3 \o l4 \o l5
  BY DEF Fields
<1> HIDE DEF l1, l2, l3, l4, l5
<1>8. FieldFiles(l1 \o l2) /\ ToSet(l1 \o l2) = ToSet(l1) \cup ToSet(l2)
  BY <1>2, <1>3, BothFieldFiles
<1> DEFINE a == l1 \o l2
           b == a \o l3
           c == b \o l4
           d == c \o l5
<1>9. FieldFiles(a)
  BY <1>8
<1>10. ToSet(a) = ToSet(l1) \cup ToSet(l2)
  BY <1>8
<1>11. Fields = d
  BY <1>7
<1> HIDE DEF a
<1>12. FieldFiles(b) /\ ToSet(b) = ToSet(a) \cup ToSet(l3)
  BY <1>4, <1>9, BothFieldFiles
<1> HIDE DEF b
<1>13. FieldFiles(c) /\ ToSet(c) = ToSet(b) \cup ToSet(l4)
  BY <1>5, <1>12, BothFieldFiles
<1> HIDE DEF c
<1>14. FieldFiles(d) /\ ToSet(d) = ToSet(c) \cup ToSet(l5)
  BY <1>6, <1>13, BothFieldFiles
<1> HIDE DEF d
<1>15. ToSet(l1) \cup ToSet(l2) \subseteq ToSet(Fields)
  BY <1>10, <1>11, <1>12, <1>13, <1>14
<1> QED
  BY <1>2, <1>3, <1>11, <1>14, <1>15

-------------------------------------------------------------------------------
(* The integrals *)

\* The time a record is given is a number, and that of its file.
LEMMA RecordTimeIs ==
  ASSUME NEW f \in PlotFile
  PROVE  RecordTime(f) \in Int /\ RecordTime(f) = OwnTime(f)
<1> DEFINE info == parse_bisicles_filename(f)
<1>1. CASE f.style = "plain"
  <2>1. info = NoInfo
    BY <1>1 DEF parse_bisicles_filename
  <2>2. RecordTime(f) = f.time
    BY <2>1 DEF RecordTime
  <2> QED
    BY <1>1, <2>2 DEF OwnTime, PlotFile
<1>2. CASE f.style # "plain"
  <2>1. info = [mean |-> f.mean /\ f.style = "new",
                start |-> IF f.style = "old" THEN f.end ELSE f.start,
                end |-> f.end, sheet |-> f.sheet,
                period |-> IF f.style = "old" THEN "" ELSE f.period]
    BY <1>2 DEF parse_bisicles_filename
  <2>2. info # NoInfo
    <3>1. DOMAIN info = {"mean", "start", "end", "sheet", "period"}
      BY <2>1
    <3>2. DOMAIN NoInfo = {"mean", "start"}
      BY DEF NoInfo
    <3>3. "sheet" \in DOMAIN info
      BY <3>1
    <3>4. "sheet" \notin DOMAIN NoInfo
      BY <3>2
    <3> HIDE DEF info
    <3>5. SUFFICES ASSUME info = NoInfo PROVE FALSE
      OBVIOUS
    <3> QED
      BY <3>3, <3>4, <3>5, Zenon
  <2>3. info.start \in Nat \X (1..12) /\ info.end \in Nat \X (1..12)
    <3>1. f.start \in Nat \X (1..12) /\ f.end \in Nat \X (1..12)
      BY DEF PlotFile
    <3>2. info.end = f.end /\ info.start \in {f.start, f.end}
      BY <1>2 DEF parse_bisicles_filename
    <3> HIDE DEF info
    <3> QED
      BY <3>1, <3>2
  <2> HIDE DEF info
  <2>4. ASSUME NEW date \in Nat \X (1..12) PROVE yyyymmdd_to_year(date) \in Int
    <3>1. date[1] \in Int /\ DaysBefore(date[2]) \in Int
      BY DaysAreNumbers
    <3> QED
      BY <3>1 DEF yyyymmdd_to_year, Year
  <2>5. yyyymmdd_to_year(info.start) \in Int /\ yyyymmdd_to_year(info.end) \in Int
    BY <2>3, <2>4
  <2>6. time_years(info) \in Int
    BY <2>5 DEF time_years
  <2>7. RecordTime(f) = time_years(info) /\ TimeMetadata(f).t = time_years(info)
    BY <2>2 DEF RecordTime, TimeMetadata, info
  <2> QED
    BY <1>2, <2>6, <2>7 DEF OwnTime
<1> QED
  BY <1>1, <1>2

\* Times in order, with a file listed of each.
InTimes(s) ==
  /\ s \in Seq(ToSet(s))
  /\ \A k \in DOMAIN s : s[k].file \in ToSet(listed) /\ RecordTime(s[k].file) = s[k].t
  /\ \A j, k \in DOMAIN s : j < k => s[j].t < s[k].t
  /\ {s[k].t : k \in DOMAIN s} = {RecordTime(f) : f \in ToSet(listed)}

LEMMA TimelineIs ==
  ASSUME listed \in Seq(ToSet(listed)), ToSet(listed) \subseteq PlotFile
  PROVE  InTimes(Timeline(listed))
<1> DEFINE T == {RecordTime(listed[i]) : i \in DOMAIN listed}
           ts == InOrder(T)
           Latest(t) == CHOOSE i \in DOMAIN listed :
                        /\ RecordTime(listed[i]) = t
                        /\ \A j \in DOMAIN listed : RecordTime(listed[j]) = t => j <= i
           s == Timeline(listed)
<1>1. Len(listed) \in Nat /\ DOMAIN listed = 1..Len(listed)
  BY ListIs
<1>2. \A i \in DOMAIN listed : listed[i] \in ToSet(listed) /\ RecordTime(listed[i]) \in Int
  BY RecordTimeIs DEF ToSet
<1>3. IsFiniteSet(T)
  <2> DEFINE at_ == [i \in 1..Len(listed) |-> RecordTime(listed[i])]
  <2>1. at_ \in Surjection(1..Len(listed), T)
    BY <1>1 DEF Surjection
  <2>2. IsFiniteSet(1..Len(listed))
    BY <1>1, FS_Interval
  <2> HIDE DEF at_, T
  <2> QED
    BY <2>1, <2>2, FS_Surjection
<1>4. T \in SUBSET Int
  BY <1>2
<1>5. s = [k \in DOMAIN ts |-> [t |-> ts[k], file |-> listed[Latest(ts[k])]]]
  BY DEF Timeline
<1>6. ASSUME NEW t \in T PROVE Latest(t) \in DOMAIN listed /\ RecordTime(listed[Latest(t)]) = t
  <2> DEFINE Of == {i \in DOMAIN listed : RecordTime(listed[i]) = t}
             m == Max(Of)
  <2>1. Of \in SUBSET Int /\ Of # {} /\ Of \in SUBSET (1..Len(listed))
    BY <1>1
  <2>2. \E i \in Of : \A j \in Of : j <= i
    <3>1. IsFiniteSet(Of)
      <4>1. IsFiniteSet(1..Len(listed))
        BY <1>1, FS_Interval
      <4> QED
        BY <2>1, <4>1, FS_Subset
    <3> DEFINE n == Cardinality(Of)
    <3> HIDE DEF Of
    <3>2. /\ n \in Nat /\ DOMAIN InOrder(Of) = 1..n
          /\ \A i \in DOMAIN InOrder(Of) : InOrder(Of)[i] \in Of
          /\ \A k \in Of : \E i \in DOMAIN InOrder(Of) : InOrder(Of)[i] = k
          /\ \A i, j \in DOMAIN InOrder(Of) : i < j => InOrder(Of)[i] < InOrder(Of)[j]
      BY <2>1, <3>1, InOrderIs
    <3> HIDE DEF n
    <3>3. 1 <= n
      <4>1. PICK k \in Of : TRUE
        BY <2>1 DEF Of
      <4>2. PICK i \in 1..n : InOrder(Of)[i] = k
        BY <3>2
      <4> QED
        BY <3>2, <4>2
    <3>4. n \in DOMAIN InOrder(Of) /\ InOrder(Of)[n] \in Of
      BY <3>2, <3>3
    <3>5. ASSUME NEW j \in Of PROVE j <= InOrder(Of)[n]
      <4>1. PICK i \in 1..n : InOrder(Of)[i] = j
        BY <3>2
      <4>2. i = n \/ i < n
        BY <3>2
      <4>3. j \in Int /\ InOrder(Of)[n] \in Int
        BY <2>1, <3>4
      <4> QED
        BY <3>2, <3>4, <4>1, <4>2, <4>3
    <3> QED
      BY <3>4, <3>5
  <2>3. \E i \in DOMAIN listed : /\ RecordTime(listed[i]) = t
                                /\ \A j \in DOMAIN listed : RecordTime(listed[j]) = t => j <= i
    BY <2>2
  <2> QED
    BY <2>3
<1> HIDE DEF T, Latest
<1>7. /\ Cardinality(T) \in Nat /\ DOMAIN ts = 1..Cardinality(T)
      /\ \A k \in DOMAIN ts : ts[k] \in T
      /\ \A t \in T : \E k \in DOMAIN ts : ts[k] = t
      /\ \A j, k \in DOMAIN ts : j < k => ts[j] < ts[k]
  BY <1>3, <1>4, InOrderIs
<1> HIDE DEF ts, s
<1>8. \A k \in DOMAIN s : /\ s[k].t = ts[k]
                          /\ s[k].file \in ToSet(listed) /\ RecordTime(s[k].file) = s[k].t
  BY <1>2, <1>5, <1>6, <1>7
<1>9. \A j, k \in DOMAIN s : j < k => s[j].t < s[k].t
  BY <1>5, <1>7, <1>8
<1>10. {s[k].t : k \in DOMAIN s} = {RecordTime(f) : f \in ToSet(listed)}
  <2>1. {RecordTime(f) : f \in ToSet(listed)} = T
    BY DEF T, ToSet
  <2>2. {s[k].t : k \in DOMAIN s} = T
    BY <1>5, <1>7, <1>8
  <2> QED
    BY <2>1, <2>2
<1>11. s \in Seq(ToSet(s))
  <2>1. s = [k \in 1..Cardinality(T) |-> s[k]]
    BY <1>5, <1>7
  <2> QED
    BY <1>7, <2>1, ListOf
<1> QED
  BY <1>8, <1>9, <1>10, <1>11 DEF InTimes, s
-------------------------------------------------------------------------------
(* The output files of a command *)

\* The days and the bounds that a step gets from the plot file its value is from.
DaysOf(n) == to_exact_days(TimeMetadata(DataOf(FileNamed(n))), ReferenceYear, opt["calendar"])
InDays(r) ==
  /\ DOMAIN r.axis.days = DOMAIN r.files /\ DOMAIN r.axis.years = DOMAIN r.files
  /\ \A k \in DOMAIN r.files :
       /\ r.axis.days[k] = DaysOf(r.files[k]).day
       /\ TimeMetadata(DataOf(FileNamed(r.files[k]))).mean
            => r.axis.bounds[k] = <<DaysOf(r.files[k]).start, DaysOf(r.files[k]).end>>

\* The file of a field: each value is from the plot file of its time, and all files are there.
Aligned(r) ==
  /\ \A k \in DOMAIN r.files : TimeMetadata(DataOf(FileNamed(r.files[k]))).t = r.axis.years[k]
  /\ Increasing(r.axis.years)
  /\ Len(r.files) = Len(listed)
  /\ ToSet(r.files) = {f.name : f \in ToSet(listed)}
  /\ InDays(r)

\* The file of a scalar: the times are those of the files, and each value is from a file of its time.
Timed(r) ==
  /\ Increasing(r.axis.years)
  /\ ToSet(r.axis.years) = {OwnTime(f) : f \in ToSet(listed)}
  /\ \A k \in DOMAIN r.files : OwnTime(FileNamed(r.files[k])) = r.axis.years[k]

FileFor(r) ==
  IF Diagnosing THEN r.table = "scalar" /\ Timed(r) ELSE r.table # "scalar" /\ Aligned(r)

\* The files of a command are plot files, and found by their names.
LEMMA ListedAre ==
  ASSUME RunInv
  PROVE  /\ listed \in Seq(ToSet(listed)) /\ Len(listed) \in Nat /\ DOMAIN listed = 1..Len(listed)
         /\ ToSet(listed) \subseteq PlotFile
         /\ \A f \in ToSet(listed) : FileNamed(f.name) = f
<1>1. /\ listed \in Seq(ToSet(archive)) /\ ToSet(archive) \subseteq PlotFile
      /\ \A f, g \in ToSet(archive) : f.name = g.name => f = g
  BY ArchiveIs DEF RunInv
<1>2. ToSet(listed) \subseteq ToSet(archive)
  BY <1>1, ListIs DEF ToSet
<1>3. \A f \in ToSet(listed) : FileNamed(f.name) = f
  BY <1>1, <1>2 DEF FileNamed
<1> QED
  BY <1>1, <1>2, <1>3, ListIs

\* Sorted, the steps are in the order of time.
LEMMA SortedIs ==
  ASSUME RunInv, DataInv, pc = "sort", ~Diagnosing, SortSteps
  PROVE  StepsAreSorted'
<1> DEFINE n == Len(data)
           times == [i \in DOMAIN data |-> TimeMetadata(data[i]).t]
           idx == sort_idx(times)
<1>1. /\ data \in Seq(ToSet(data)) /\ n \in Nat /\ DOMAIN data = 1..n /\ n = Len(listed)
      /\ \A i \in 1..n : data[i] = Data(listed[i], Regrids)
  BY ListIs DEF DataInv, DataOf
<1>2. DOMAIN listed = 1..n /\ Regrids \in BOOLEAN /\ \A i \in 1..n : listed[i] \in PlotFile
  BY <1>1, ListedAre DEF Regrids, ToSet
<1>3. data' = data /\ steps' = [k \in DOMAIN data |-> [index |-> idx[k], meta |-> TimeMetadata(data[idx[k]])]]
  BY DEF SortSteps
<1> HIDE DEF n
<1>4. DOMAIN times = 1..n /\ \A i \in 1..n : times[i] = TimeMetadata(Data(listed[i], Regrids)).t
  BY <1>1
<1>5. \A i \in 1..n : times[i] = TimeMetadata(data[i]).t
  BY <1>1
<1> HIDE DEF times
<1>6. \A i \in 1..n : times[i] \in Int
  BY <1>2, <1>4, TimeIs
<1>7. \A i, j \in 1..n : times[i] = times[j] => i = j
  BY <1>2, <1>4 DEF RunInv, TimesApart
<1>8. /\ DOMAIN idx = 1..n /\ \A k \in 1..n : idx[k] \in 1..n
      /\ \A i \in 1..n : \E k \in 1..n : idx[k] = i
      /\ \A j, k \in 1..n : j < k => times[idx[j]] <= times[idx[k]] /\ idx[j] # idx[k]
  <2> DEFINE m == n
  <2>1. m \in Nat /\ DOMAIN times = 1..m /\ \A i \in 1..m : times[i] \in Int
    BY <1>1, <1>4, <1>6
  <2> HIDE DEF m
  <2>2. /\ DOMAIN idx = 1..m /\ \A k \in 1..m : idx[k] \in 1..m
        /\ \A i \in 1..m : \E k \in 1..m : idx[k] = i
        /\ \A j, k \in 1..m : j < k => times[idx[j]] <= times[idx[k]] /\ idx[j] # idx[k]
    BY <2>1, SortIs
  <2> QED
    BY <2>2 DEF m
<1> HIDE DEF idx
<1> DEFINE s == [k \in 1..n |-> [index |-> idx[k], meta |-> TimeMetadata(data[idx[k]])]]
<1>9. steps' = s
  BY <1>1, <1>3
<1>10. /\ DOMAIN s = 1..n /\ s = [k \in 1..n |-> s[k]]
       /\ \A k \in 1..n : s[k].index = idx[k] /\ s[k].meta = TimeMetadata(data[idx[k]])
  OBVIOUS
<1> HIDE DEF s
<1>11. s \in Seq(ToSet(s))
  BY <1>1, <1>10, ListOf
<1>12. \A k \in 1..n : s[k].meta.t = times[idx[k]]
  BY <1>5, <1>8, <1>10
<1>13. \A j, k \in 1..n : j < k => s[j].meta.t < s[k].meta.t
  <2> TAKE j, k \in 1..n
  <2> HAVE j < k
  <2>1. times[idx[j]] <= times[idx[k]] /\ times[idx[j]] # times[idx[k]]
    BY <1>7, <1>8
  <2>2. times[idx[j]] \in Int /\ times[idx[k]] \in Int
    BY <1>6, <1>8
  <2> QED
    BY <1>12, <2>1, <2>2
<1>14. \A k \in 1..n : s[k].index \in 1..n /\ s[k].meta = TimeMetadata(data[s[k].index])
  BY <1>8, <1>10
<1>15. \A i \in 1..n : \E k \in 1..n : s[k].index = i
  BY <1>8, <1>10
<1>16. DOMAIN s = 1..n /\ DOMAIN data = 1..n
  BY <1>1, <1>10
<1> QED
  BY <1>3, <1>9, <1>11, <1>13, <1>14, <1>15, <1>16 DEF StepsAreSorted

\* A file of all steps is aligned.
LEMMA AlignedIs ==
  ASSUME RunInv, DataInv, pc = "gather", ~Diagnosing, StepsAreSorted, NEW r, InOrderOfTime(r)
  PROVE  Aligned(r)
<1> DEFINE n == Len(data)
<1>1. /\ data \in Seq(ToSet(data)) /\ n \in Nat /\ DOMAIN data = 1..n /\ n = Len(listed)
      /\ \A i \in 1..n : data[i] = DataOf(listed[i])
  BY ListIs DEF DataInv
<1>2. /\ DOMAIN listed = 1..n /\ ToSet(listed) \subseteq PlotFile
      /\ \A f \in ToSet(listed) : FileNamed(f.name) = f
  BY <1>1, ListedAre
<1> HIDE DEF n
<1>3. \A i \in 1..n : listed[i] \in ToSet(listed)
  BY <1>2 DEF ToSet
<1>4. \A i \in 1..n : data[i].name = listed[i].name
  <2>1. Regrids \in BOOLEAN
    BY DEF Regrids
  <2> QED
    BY <1>1, <1>2, <1>3, <2>1, DataIs DEF DataOf
<1>5. /\ DOMAIN steps = 1..n /\ \A k \in 1..n : steps[k].index \in 1..n
      /\ \A k \in 1..n : steps[k].meta = TimeMetadata(data[steps[k].index])
      /\ \A i \in 1..n : \E k \in 1..n : steps[k].index = i
      /\ \A j, k \in 1..n : j < k => steps[j].meta.t < steps[k].meta.t
  BY <1>1 DEF StepsAreSorted
<1>6. /\ DOMAIN r.files = 1..n /\ \A k \in 1..n : r.files[k] = listed[steps[k].index].name
      /\ DOMAIN r.axis.years = 1..n /\ \A k \in 1..n : r.axis.years[k] = steps[k].meta.t
      /\ r.files = [k \in 1..n |-> r.files[k]]
  BY <1>4, <1>5 DEF InOrderOfTime
<1>7. \A k \in DOMAIN r.files : TimeMetadata(DataOf(FileNamed(r.files[k]))).t = r.axis.years[k]
  <2> SUFFICES ASSUME NEW k \in 1..n
               PROVE  TimeMetadata(DataOf(FileNamed(r.files[k]))).t = r.axis.years[k]
    BY <1>6
  <2> DEFINE i == steps[k].index
  <2>1. i \in 1..n /\ steps[k].meta = TimeMetadata(data[i])
    BY <1>5
  <2>2. r.files[k] = listed[i].name /\ r.axis.years[k] = steps[k].meta.t
    BY <1>6
  <2> HIDE DEF i
  <2>3. FileNamed(r.files[k]) = listed[i]
    BY <1>2, <1>3, <2>1, <2>2
  <2>4. DataOf(FileNamed(r.files[k])) = data[i]
    BY <1>1, <2>1, <2>3
  <2> QED
    BY <2>1, <2>2, <2>4
<1>8. Increasing(r.axis.years)
  BY <1>5, <1>6 DEF Increasing
<1>9. Len(r.files) = Len(listed)
  BY <1>1, <1>6, ListOf
<1>10. ToSet(r.files) = {f.name : f \in ToSet(listed)}
  <2>1. ASSUME NEW f \in ToSet(listed) PROVE \E k \in 1..n : r.files[k] = f.name
    <3>1. PICK i \in 1..n : f = listed[i]
      BY <1>2 DEF ToSet
    <3>2. PICK k \in 1..n : steps[k].index = i
      BY <1>5
    <3>3. r.files[k] = listed[i].name
      BY <1>6, <3>2
    <3> QED
      BY <3>1, <3>3
  <2> QED
    BY <1>3, <1>5, <1>6, <2>1 DEF ToSet
<1>11. InDays(r)
  <2> DEFINE exact == [k \in DOMAIN steps |->
                        to_exact_days(steps[k].meta, ReferenceYear, opt["calendar"])]
             days == [k \in DOMAIN steps |-> exact[k].day]
             means == [k \in DOMAIN steps |-> steps[k].meta.mean]
             bounds == [k \in DOMAIN steps |-> <<exact[k].start, exact[k].end>>]
  <2>1. /\ FieldAxis.days = add_time_variable([k \in DOMAIN steps |-> steps[k].meta.t], days)
        /\ FieldAxis.bounds = IF TRUE \in Range(means) THEN bounds ELSE <<>>
    BY DEF FieldAxis, add_time_bounds
  <2>2. DOMAIN days = 1..n /\ \A k \in 1..n : days[k] = to_exact_days(steps[k].meta, ReferenceYear, opt["calendar"]).day
    BY <1>5
  <2>3. listed # <<>>
    BY DEF RunInv, Working
  <2>4. n # 0
    BY <1>1, <2>3, ListedAre, EmptySeq
  <2> HIDE DEF days
  <2>5. days # <<>>
    BY <1>1, <2>2, <2>4
  <2>6. r.axis.days = days
    BY <2>1, <2>5 DEF add_time_variable, InOrderOfTime
  <2>7. ASSUME NEW k \in 1..n PROVE TimeMetadata(DataOf(FileNamed(r.files[k]))) = steps[k].meta
    <3> DEFINE i == steps[k].index
    <3>1. i \in 1..n /\ steps[k].meta = TimeMetadata(data[i])
      BY <1>5
    <3>2. r.files[k] = listed[i].name
      BY <1>6
    <3> HIDE DEF i
    <3>3. FileNamed(r.files[k]) = listed[i]
      BY <1>2, <1>3, <3>1, <3>2
    <3> QED
      BY <1>1, <3>1, <3>3
  <2>8. ASSUME NEW k \in 1..n, steps[k].meta.mean
        PROVE  r.axis.bounds[k] = <<DaysOf(r.files[k]).start, DaysOf(r.files[k]).end>>
    <3>1. TRUE \in Range(means)
      BY <1>5, <2>8 DEF Range
    <3>2. r.axis.bounds = bounds
      BY <2>1, <3>1 DEF InOrderOfTime
    <3> HIDE DEF means
    <3> QED
      BY <1>5, <2>7, <3>2 DEF DaysOf
  <2> QED
    BY <1>6, <2>2, <2>6, <2>7, <2>8 DEF InDays, DaysOf
<1> QED
  BY <1>7, <1>8, <1>9, <1>10, <1>11 DEF Aligned

\* A file of the times reported is right.
LEMMA TimedIs ==
  ASSUME RunInv, InTimes(steps), NEW r, r.files = [k \in DOMAIN steps |-> steps[k].file.name],
         r.axis.years = [k \in DOMAIN steps |-> steps[k].t]
  PROVE  Timed(r)
<1>1. ToSet(listed) \subseteq PlotFile /\ \A f \in ToSet(listed) : FileNamed(f.name) = f
  BY ListedAre
<1>2. \A f \in ToSet(listed) : RecordTime(f) = OwnTime(f)
  BY <1>1, RecordTimeIs
<1>3. /\ \A k \in DOMAIN steps : steps[k].file \in ToSet(listed) /\ RecordTime(steps[k].file) = steps[k].t
      /\ \A j, k \in DOMAIN steps : j < k => steps[j].t < steps[k].t
      /\ {steps[k].t : k \in DOMAIN steps} = {RecordTime(f) : f \in ToSet(listed)}
  BY DEF InTimes
<1>4. Increasing(r.axis.years)
  BY <1>3 DEF Increasing
<1>5. ToSet(r.axis.years) = {OwnTime(f) : f \in ToSet(listed)}
  <2>1. ToSet(r.axis.years) = {steps[k].t : k \in DOMAIN steps}
    BY DEF ToSet
  <2>2. {RecordTime(f) : f \in ToSet(listed)} = {OwnTime(f) : f \in ToSet(listed)}
    BY <1>2
  <2> QED
    BY <1>3, <2>1, <2>2
<1>6. \A k \in DOMAIN r.files : OwnTime(FileNamed(r.files[k])) = r.axis.years[k]
  <2> TAKE k \in DOMAIN r.files
  <2>1. k \in DOMAIN steps /\ r.files[k] = steps[k].file.name /\ r.axis.years[k] = steps[k].t
    OBVIOUS
  <2>2. FileNamed(r.files[k]) = steps[k].file
    BY <1>1, <1>3, <2>1
  <2> QED
    BY <1>2, <1>3, <2>1, <2>2
<1> QED
  BY <1>4, <1>5, <1>6 DEF Timed

LEMMA ScalarTable == SCALAR_MAPPING \in Seq(ToSet(SCALAR_MAPPING))
<1>1. ASSUME NEW names, Len(names) \in Nat
      PROVE  \A from, factor, to :
               Entries(names, from, factor, to) \in Seq(ToSet(Entries(names, from, factor, to)))
  BY <1>1, EntriesAre
<1> DEFINE n1 == <<<<<<"entire", "volume">>, "lim">>, <<<<"entire", "volumeAbove">>, "limnsw">>>>
           n2 == <<<<<<"grounded", "area">>, "iareagr">>, <<<<"floating", "area">>, "iareafl">>>>
           n3 == <<<<<<"ice", "SMB">>, "tendacabf">>, <<<<"ice", "BMB">>, "tendlibmassbf">>,
                   <<<<"ice", "calving">>, "tendlicalvf">>>>
           n4 == <<<<<<"ice", "fracArea">>, "iarea">>>>
           n5 == <<<<<<"ice", "discharge">>, "discharge_total">>, <<<<"ice", "dhdt">>, "tendlim_dhdt">>,
                   <<<<"entire", "SMB">>, "tendacabf_domain">>>>
           l1 == Entries(n1, "m3", "rho", "kg")
           l2 == Entries(n2, "m2", "1", "m2")
           l3 == Entries(n3, "m3 a-1", "rho/s", "kg s-1")
           l4 == Entries(n4, "m2", "1", "m2")
           l5 == Entries(n5, "m3 a-1", "rho/s", "kg s-1")
<1>2. Len(n1) \in Nat /\ Len(n2) \in Nat /\ Len(n3) \in Nat /\ Len(n4) \in Nat /\ Len(n5) \in Nat
  OBVIOUS
<1>3. SCALAR_MAPPING = l1 \o l2 \o l3 \o l4 \o l5
  BY DEF SCALAR_MAPPING
<1> HIDE DEF n1, n2, n3, n4, n5
<1>4. /\ l1 \in Seq(ToSet(l1)) /\ l2 \in Seq(ToSet(l2)) /\ l3 \in Seq(ToSet(l3))
      /\ l4 \in Seq(ToSet(l4)) /\ l5 \in Seq(ToSet(l5))
  BY <1>1, <1>2
<1> HIDE DEF l1, l2, l3, l4, l5
<1> QED
  BY <1>3, <1>4, BothLists

\* The files of the integrals are scalars of the times reported.
LEMMA ScalarsAre ==
  ASSUME RunInv, pc = "gather", Diagnosing, InTimes(steps)
  PROVE  /\ Scalars \in Seq(ToSet(Scalars))
         /\ \A o \in ToSet(Scalars) : o.file.attempt = attempt /\ o.file.whole /\ FileFor(o.file)
<1> DEFINE years == [k \in DOMAIN steps |-> steps[k].t]
           means == [k \in DOMAIN steps |-> check_not_cf_mean(steps[k].file)]
           Bound(i) == add_time_variable([k \in DOMAIN steps |-> RecordBounds(steps[k].file)[i]], <<>>)
           axis == [years |-> years, days |-> add_time_variable(years, <<>>), grid |-> <<>>,
                    bounds |-> add_time_bounds(means, Bound(1), Bound(2)),
                    mean |-> TRUE \in Range(means)]
           wanted == {e \in ToSet(SCALAR_MAPPING) : e.name \in Quantities}
           files == [k \in DOMAIN steps |-> steps[k].file.name]
           File(e, mask) == Output(ismip7_drs_filename(e.cmip7_name, mask, years), "scalar", TRUE,
                                   files, axis)
           S == {File(e, mask) : e \in wanted, mask \in opt["masks"]}
<1>1. Scalars = SetToSeq(S)
  BY DEF Scalars
<1>2. axis.years = years
  OBVIOUS
<1>3. IsFiniteSet(wanted)
  <2> DEFINE table == SCALAR_MAPPING
             n == Len(table)
  <2>1. table \in Seq(ToSet(table))
    BY ScalarTable
  <2> HIDE DEF table
  <2>2. n \in Nat /\ DOMAIN table = 1..n
    BY <2>1, ListIs
  <2> HIDE DEF n
  <2> DEFINE at_ == [i \in 1..n |-> table[i]]
  <2>3. at_ \in Surjection(1..n, ToSet(table))
    BY <2>2 DEF Surjection, ToSet
  <2>4. IsFiniteSet(1..n)
    BY <2>2, FS_Interval
  <2> HIDE DEF at_
  <2>5. IsFiniteSet(ToSet(table))
    BY <2>3, <2>4, FS_Surjection
  <2>6. wanted \in SUBSET ToSet(table)
    BY DEF table
  <2> QED
    BY <2>5, <2>6, FS_Subset
<1>4. IsFiniteSet(opt["masks"])
  BY CommandsAssumption DEF RunInv, Working, Diagnosing, Typed
<1> DEFINE masks == opt["masks"]
<1> HIDE DEF axis, years, files, wanted, masks
<1>5. IsFiniteSet(S)
  <2> DEFINE at_ == [p \in wanted \X masks |-> File(p[1], p[2])]
  <2>1. IsFiniteSet(wanted \X masks)
    BY <1>3, <1>4, FS_Product DEF masks
  <2>2. at_ \in Surjection(wanted \X masks, S)
    <3> HIDE DEF File
    <3>1. S = {File(e, mask) : e \in wanted, mask \in masks}
      BY DEF masks
    <3> HIDE DEF S
    <3>2. ASSUME NEW p \in wanted \X masks PROVE at_[p] \in S
      <4>1. p[1] \in wanted /\ p[2] \in masks
        OBVIOUS
      <4> QED
        BY <3>1, <4>1
    <3>3. ASSUME NEW o \in S PROVE \E p \in wanted \X masks : at_[p] = o
      <4>1. PICK e \in wanted, mask \in masks : o = File(e, mask)
        BY <3>1
      <4>2. at_[<<e, mask>>] = o /\ <<e, mask>> \in wanted \X masks
        BY <4>1
      <4> QED
        BY <4>2
    <3>4. at_ \in [wanted \X masks -> S]
      BY <3>2
    <3> HIDE DEF at_
    <3> QED
      BY <3>3, <3>4 DEF Surjection
  <2> HIDE DEF at_, S
  <2> QED
    BY <2>1, <2>2, FS_Surjection
<1>6. \A o \in S : o.file.attempt = attempt /\ o.file.whole /\ o.file.table = "scalar"
                   /\ o.file.files = files /\ o.file.axis = axis
  <2>1. ASSUME NEW e, NEW mask
        PROVE  LET o == File(e, mask)
               IN  /\ o.file.attempt = attempt /\ o.file.whole /\ o.file.table = "scalar"
                   /\ o.file.files = files /\ o.file.axis = axis
    <3> DEFINE name == ismip7_drs_filename(e.cmip7_name, mask, years)
               o == Output(name, "scalar", TRUE, files, axis)
    <3>1. File(e, mask) = o
      OBVIOUS
    <3> HIDE DEF name, File
    <3>2. /\ o.file.attempt = attempt /\ o.file.whole /\ o.file.table = "scalar"
          /\ o.file.files = files /\ o.file.axis = axis
      BY DEF Output
    <3> HIDE DEF o
    <3> QED
      BY <3>1, <3>2
  <2> HIDE DEF File
  <2> QED
    BY <2>1
<1> HIDE DEF S
<1>7. Scalars \in Seq(ToSet(Scalars)) /\ ToSet(Scalars) = S
  BY <1>1, <1>5, ListOfSet
<1>8. ASSUME NEW o \in S PROVE FileFor(o.file)
  <2>1. o.file.files = [k \in DOMAIN steps |-> steps[k].file.name]
    BY <1>6 DEF files
  <2>2. o.file.axis.years = [k \in DOMAIN steps |-> steps[k].t]
    BY <1>2, <1>6 DEF years
  <2>3. Timed(o.file)
    BY <2>1, <2>2, TimedIs
  <2> QED
    BY <1>6, <2>3 DEF FileFor
<1> QED
  BY <1>6, <1>7, <1>8

\* What has been reported is of the files listed so far; then the steps are in the order of time.
StepsInv ==
  /\ pc = "idle" => csv = <<>>
  /\ pc # "idle" /\ Diagnosing => /\ csv \in Seq(ToSet(csv)) /\ Len(csv) = at
                                  /\ \A i \in 1..at : csv[i] = listed[i]
  /\ pc = "sort" /\ Diagnosing => at = Len(listed)
  /\ pc = "gather" => IF Diagnosing THEN InTimes(steps) ELSE StepsAreSorted

LEMMA StepsStep ==
  ASSUME RunInv, DataInv, StepsInv, [Next]_vars
  PROVE  StepsInv'
<1>1. CASE UNCHANGED vars
  BY <1>1 DEF StepsInv, vars, inputs, request, Diagnosing, Typed, InTimes, StepsAreSorted
<1>2. CASE WritePlot
  BY <1>2 DEF StepsInv, WritePlot, request, Diagnosing, Typed, InTimes, StepsAreSorted
<1>3. CASE Kill
  BY <1>3 DEF StepsInv, Kill, inputs, request, Diagnosing, Typed, Working
<1>4. CASE Return
  BY <1>4 DEF StepsInv, Return
<1>5. ASSUME NEW n \in DOMAIN Commands, Starts(n) PROVE StepsInv'
  <2>1. PICK l \in Seq(ToSet(archive)), next \in {"open", "failed", "refused"} : Start(n, l, next)
    BY <1>5, StartIs
  <2>2. pc = "idle"
    BY <1>5, StartIs
  <2>3. pc' = next /\ csv' = <<>> /\ at' = 0
    BY <2>1, <2>2 DEF Start, StepsInv, DataInv
  <2> QED
    BY <2>3, NoList DEF StepsInv
<1>6. CASE Step
  <2>1. /\ command' = command /\ opt' = opt /\ listed' = listed /\ pc \in Working /\ pc # "idle"
        /\ pc' # "idle"
    BY <1>6, StepIs DEF Working, Final
  <2>2. Diagnosing' = Diagnosing
    BY <2>1 DEF Diagnosing, Typed
  <2>3. CASE UNCHANGED <<csv, at>> /\ pc' \notin {"sort", "gather"}
    BY <2>1, <2>2, <2>3 DEF StepsInv
  <2>4. ASSUME NEW ok \in BOOLEAN, run_flatten(ok) PROVE StepsInv'
    BY <2>1, <2>2, <2>4 DEF StepsInv, run_flatten
  <2>5. ASSUME NEW ok \in BOOLEAN, run_diagnostics(ok) PROVE StepsInv'
    <3>1. CASE ~(ok /\ ~check_not_cf_mean(listed[at + 1]))
      BY <2>3, <2>5, <3>1 DEF run_diagnostics
    <3>2. CASE ok /\ ~check_not_cf_mean(listed[at + 1])
      <4> DEFINE f == listed[at + 1]
      <4>1. /\ csv' = Reported(at + 1, csv, f) /\ at' = at + 1 /\ Diagnosing
            /\ pc' = IF at + 1 = Len(listed) THEN "sort" ELSE "tool"
        BY <2>5, <3>2 DEF run_diagnostics
      <4>2. /\ csv \in Seq(ToSet(csv)) /\ Len(csv) = at /\ at \in Nat
            /\ \A i \in 1..at : csv[i] = listed[i]
        BY <2>1, <4>1, ListIs DEF StepsInv
      <4>3. csv' = Append(csv, f)
        <5>1. CASE at = 0
          <6>1. csv = <<>>
            BY <4>2, <5>1, EmptySeq
          <6> HIDE DEF f
          <6> QED
            BY <4>1, <5>1, <6>1 DEF Reported
        <5>2. CASE at # 0
          BY <4>1, <4>2, <5>2 DEF Reported
        <5> QED
          BY <5>1, <5>2
      <4> HIDE DEF f
      <4>4. /\ csv' \in Seq(ToSet(csv')) /\ Len(csv') = at + 1
            /\ \A i \in 1..at : csv'[i] = csv[i]
            /\ csv'[at + 1] = f
        BY <4>2, <4>3, OneMore
      <4>5. \A i \in 1..at + 1 : csv'[i] = listed[i]
        BY <4>2, <4>4 DEF f
      <4> QED
        BY <2>1, <2>2, <4>1, <4>4, <4>5 DEF StepsInv
    <3> QED
      BY <3>1, <3>2
  <2>6. ASSUME SortSteps PROVE StepsInv'
    <3>1. pc = "sort" /\ ~Diagnosing /\ pc' = "gather" /\ csv' = csv /\ at' = at
      BY <2>6 DEF SortSteps
    <3>2. StepsAreSorted'
      BY <2>6, <3>1, SortedIs
    <3> QED
      BY <2>1, <2>2, <3>1, <3>2 DEF StepsInv
  <2>7. ASSUME SortTimes PROVE StepsInv'
    <3>1. pc = "sort" /\ Diagnosing /\ pc' = "gather" /\ csv' = csv /\ at' = at /\ steps' = Timeline(csv)
      BY <2>7 DEF SortTimes
    <3>2. /\ csv \in Seq(ToSet(csv)) /\ Len(csv) = Len(listed) /\ at = Len(listed)
          /\ \A i \in 1..Len(listed) : csv[i] = listed[i]
      BY <3>1 DEF StepsInv
    <3>3. /\ listed \in Seq(ToSet(listed)) /\ ToSet(listed) \subseteq PlotFile
          /\ listed = [i \in 1..Len(listed) |-> listed[i]] /\ csv = [i \in 1..Len(csv) |-> csv[i]]
      BY <3>2, ListedAre, ListIs
    <3>4. csv = listed
      BY <3>2, <3>3
    <3>5. InTimes(Timeline(listed))
      BY <3>3, TimelineIs
    <3>6. InTimes(steps)'
      BY <2>1, <3>1, <3>4, <3>5 DEF InTimes
    <3> QED
      BY <2>1, <2>2, <3>1, <3>2, <3>6 DEF StepsInv
  <2>8. CASE OpenTemp
    BY <2>3, <2>8 DEF OpenTemp
  <2>9. CASE GatherFields
    BY <2>3, <2>9 DEF GatherFields
  <2>10. CASE GatherScalars
    BY <2>3, <2>10 DEF GatherScalars
  <2>11. CASE OpenOutput
    BY <2>3, <2>11 DEF OpenOutput
  <2>12. CASE FillOutput
    BY <2>3, <2>12 DEF FillOutput
  <2>13. CASE Finish
    BY <2>3, <2>13 DEF Finish
  <2> QED
    BY <1>6, <2>4, <2>5, <2>6, <2>7, <2>8, <2>9, <2>10, <2>11, <2>12, <2>13 DEF Step
<1> QED
  BY <1>1, <1>2, <1>3, <1>4, <1>5, <1>6 DEF Next, Starts

\* A file written is whole and right, or is the one being filled when the command was killed.
SeriesInv ==
  /\ todo \in Seq(ToSet(todo))
  /\ \A o \in ToSet(todo) : o.file.attempt = attempt /\ o.file.whole /\ (o.ready => FileFor(o.file))
  /\ \A n \in DOMAIN out : out[n].attempt \in Nat /\ out[n].attempt <= attempt
  /\ pc = "fill" => /\ todo # <<>> /\ Head(todo).ready /\ Head(todo).name \in DOMAIN out
                    /\ out[Head(todo).name].attempt = attempt
  /\ pc = "done" => todo = <<>>
  /\ pc # "idle" => \A n \in DOMAIN out : out[n].attempt = attempt =>
       IF out[n].whole THEN FileFor(out[n])
       ELSE pc = "killed" \/ (pc = "fill" /\ n = Head(todo).name)

\* A file less is to be written.
LEMMA OneLess ==
  ASSUME NEW s, s \in Seq(ToSet(s)), s # <<>>
  PROVE  /\ Head(s) \in ToSet(s) /\ Tail(s) \in Seq(ToSet(Tail(s)))
         /\ ToSet(Tail(s)) \subseteq ToSet(s) /\ ToSet(s) \subseteq ToSet(Tail(s)) \cup {Head(s)}
<1> DEFINE t == Tail(s)
<1>1. /\ Len(s) \in Nat /\ DOMAIN s = 1..Len(s) /\ Len(s) # 0
      /\ \A i \in 1..Len(s) : s[i] \in ToSet(s)
  BY EmptySeq, ListIs
<1>2. /\ Head(s) = s[1] /\ t \in Seq(ToSet(s)) /\ Len(t) = Len(s) - 1
      /\ \A i \in 1..Len(t) : t[i] = s[i + 1]
  BY HeadTailProperties
<1> HIDE DEF t
<1>3. t \in Seq(ToSet(t)) /\ DOMAIN t = 1..Len(t)
  BY <1>2, ListIs
<1>4. ToSet(t) \subseteq ToSet(s)
  BY <1>1, <1>2, <1>3 DEF ToSet
<1>5. ASSUME NEW x \in ToSet(s) PROVE x \in ToSet(t) \cup {Head(s)}
  <2>1. PICK i \in 1..Len(s) : x = s[i]
    BY <1>1 DEF ToSet
  <2>2. CASE i = 1
    BY <1>2, <2>1, <2>2
  <2>3. CASE i # 1
    <3>1. i - 1 \in 1..Len(t) /\ (i - 1) + 1 = i
      BY <1>1, <1>2, <2>3
    <3>2. t[i - 1] = x
      BY <1>2, <2>1, <3>1
    <3> QED
      BY <1>3, <3>1, <3>2 DEF ToSet
  <2> QED
    BY <2>2, <2>3
<1>6. Head(s) \in ToSet(s)
  BY <1>1, <1>2
<1> QED
  BY <1>3, <1>4, <1>5, <1>6 DEF t

LEMMA SeriesStep ==
  ASSUME RunInv, DataInv, StepsInv, SeriesInv, [Next]_vars
  PROVE  SeriesInv'
<1> DEFINE Same_ == archive' = archive /\ command' = command /\ opt' = opt /\ listed' = listed
<1>1. ASSUME Same_, NEW r PROVE FileFor(r)' <=> FileFor(r)
  BY <1>1 DEF FileFor, Diagnosing, Typed, Timed, Aligned, InDays, DaysOf, DataOf, Regrids, FileNamed
<1>2. CASE UNCHANGED vars
  BY <1>1, <1>2 DEF SeriesInv, vars, inputs, request
<1>3. CASE WritePlot
  BY <1>1, <1>3 DEF SeriesInv, WritePlot, request
<1>4. CASE Kill
  BY <1>1, <1>4 DEF SeriesInv, Kill, inputs, request, Working
<1>5. CASE Return
  BY <1>5, NoList DEF SeriesInv, Return
<1>6. ASSUME NEW n \in DOMAIN Commands, Starts(n) PROVE SeriesInv'
  <2>1. PICK l \in Seq(ToSet(archive)), next \in {"open", "failed", "refused"} : Start(n, l, next)
    BY <1>6, StartIs
  <2>2. pc = "idle"
    BY <1>6, StartIs
  <2>3. pc' = next /\ todo' = <<>> /\ out' = out /\ attempt' = attempt + 1
    BY <2>1, <2>2 DEF Start, DataInv
  <2>4. \A m \in DOMAIN out : out[m].attempt \in Nat /\ out[m].attempt <= attempt + 1 /\ out[m].attempt # attempt + 1
    BY DEF SeriesInv, RunInv
  <2> QED
    BY <2>3, <2>4, NoList DEF SeriesInv
<1>7. CASE Step
  <2>1. Same_ /\ attempt' = attempt /\ pc \in Working /\ pc # "idle" /\ pc # "killed"
    BY <1>7, StepIs DEF Working
  <2>2. \A r : FileFor(r)' <=> FileFor(r)
    BY <1>1, <2>1
  <2> HIDE DEF Same_
  <2>3. CASE UNCHANGED <<todo, out>> /\ pc # "fill" /\ pc' \notin {"fill", "done"}
    BY <2>1, <2>2, <2>3 DEF SeriesInv
  <2>4. ASSUME NEW ok \in BOOLEAN, run_flatten(ok) PROVE SeriesInv'
    BY <2>3, <2>4 DEF run_flatten
  <2>5. ASSUME NEW ok \in BOOLEAN, run_diagnostics(ok) PROVE SeriesInv'
    BY <2>3, <2>5 DEF run_diagnostics
  <2>6. CASE OpenTemp
    BY <2>3, <2>6 DEF OpenTemp
  <2>7. CASE SortSteps
    BY <2>3, <2>7 DEF SortSteps
  <2>8. CASE SortTimes
    BY <2>3, <2>8 DEF SortTimes
  <2>9. CASE GatherFields
    <3>1. pc = "gather" /\ ~Diagnosing /\ todo' = Fields /\ out' = out /\ pc' = "write"
      BY <2>9 DEF GatherFields
    <3>2. StepsAreSorted
      BY <3>1 DEF StepsInv
    <3>3. FieldFiles(Fields)
      BY <3>1, <3>2, FieldsAre
    <3>4. ASSUME NEW o \in ToSet(Fields)
          PROVE  o.file.attempt = attempt /\ o.file.whole /\ (o.ready => FileFor(o.file))
      <4>1. /\ o.file.attempt = attempt /\ o.file.whole /\ o.file.table # "scalar"
            /\ o.ready => InOrderOfTime(o.file)
        BY <3>3 DEF FieldFiles, IsFieldFile
      <4>2. InOrderOfTime(o.file) => Aligned(o.file)
        BY <3>1, <3>2, AlignedIs
      <4> QED
        BY <3>1, <4>1, <4>2 DEF FileFor
    <3>5. Fields \in Seq(ToSet(Fields))
      BY <3>3 DEF FieldFiles
    <3> QED
      BY <2>1, <2>2, <3>1, <3>4, <3>5 DEF SeriesInv
  <2>10. CASE GatherScalars
    <3>1. /\ pc = "gather" /\ Diagnosing /\ todo' = Scalars /\ out' = out
          /\ pc' \in {"failed", "write"}
      BY <2>10 DEF GatherScalars
    <3>2. InTimes(steps)
      BY <3>1 DEF StepsInv
    <3>3. /\ Scalars \in Seq(ToSet(Scalars))
          /\ \A o \in ToSet(Scalars) : o.file.attempt = attempt /\ o.file.whole /\ FileFor(o.file)
      BY <3>1, <3>2, ScalarsAre
    <3> QED
      BY <2>1, <2>2, <3>1, <3>3 DEF SeriesInv
  <2>11. CASE OpenOutput
    <3> DEFINE h == Head(todo)
    <3>1. pc = "write" /\ todo # <<>> /\ todo' = todo
      BY <2>11 DEF OpenOutput
    <3>2. CASE ~h.ready
      BY <2>3, <2>11, <3>1, <3>2 DEF OpenOutput
    <3>3. CASE h.ready
      <4>1. pc' = "fill" /\ out' = Opened(h.name)
        BY <2>11, <3>3 DEF OpenOutput
      <4>2. /\ DOMAIN out' = DOMAIN out \cup {h.name}
            /\ out'[h.name].attempt = attempt /\ ~out'[h.name].whole
            /\ \A n \in DOMAIN out : n # h.name => out'[n] = out[n]
        BY <4>1 DEF Opened, Started
      <4> HIDE DEF h
      <4>3. \A n \in DOMAIN out' : out'[n].attempt \in Nat /\ out'[n].attempt <= attempt
        BY <4>2 DEF SeriesInv, RunInv
      <4>4. ASSUME NEW n \in DOMAIN out', out'[n].attempt = attempt
            PROVE  IF out'[n].whole THEN FileFor(out'[n]) ELSE n = h.name
        <5>1. CASE n = h.name
          BY <4>2, <5>1
        <5>2. CASE n # h.name
          BY <2>1, <3>1, <4>2, <4>4, <5>2 DEF SeriesInv
        <5> QED
          BY <5>1, <5>2
      <4> QED
        BY <2>1, <2>2, <3>1, <3>3, <4>1, <4>2, <4>3, <4>4 DEF SeriesInv, h
    <3> QED
      BY <3>2, <3>3
  <2>12. CASE FillOutput
    <3> DEFINE h == Head(todo)
    <3>1. /\ pc = "fill" /\ pc' = "write" /\ todo' = Tail(todo)
          /\ out' = [out EXCEPT ![h.name] = h.file]
      BY <2>12 DEF FillOutput
    <3>2. /\ todo \in Seq(ToSet(todo)) /\ todo # <<>> /\ h.ready /\ h.name \in DOMAIN out
      BY <3>1 DEF SeriesInv
    <3>3. /\ h \in ToSet(todo) /\ Tail(todo) \in Seq(ToSet(Tail(todo)))
          /\ ToSet(Tail(todo)) \subseteq ToSet(todo)
      BY <3>2, OneLess
    <3>4. h.file.attempt = attempt /\ h.file.whole /\ FileFor(h.file)
      BY <3>2, <3>3 DEF SeriesInv
    <3>5. DOMAIN out' = DOMAIN out /\ out'[h.name] = h.file /\ \A n \in DOMAIN out : n # h.name => out'[n] = out[n]
      BY <3>1, <3>2
    <3> HIDE DEF h
    <3>6. \A n \in DOMAIN out' : out'[n].attempt \in Nat /\ out'[n].attempt <= attempt
      BY <3>4, <3>5 DEF SeriesInv, RunInv
    <3>7. ASSUME NEW n \in DOMAIN out', out'[n].attempt = attempt
          PROVE  out'[n].whole /\ FileFor(out'[n])
      <4>1. CASE n = h.name
        BY <3>4, <3>5, <4>1
      <4>2. CASE n # h.name
        BY <2>1, <3>1, <3>5, <3>7, <4>2 DEF SeriesInv, h
      <4> QED
        BY <4>1, <4>2
    <3> QED
      BY <2>1, <2>2, <3>1, <3>3, <3>6, <3>7 DEF SeriesInv
  <2>13. CASE Finish
    BY <2>1, <2>2, <2>13 DEF SeriesInv, Finish
  <2> QED
    BY <1>7, <2>4, <2>5, <2>6, <2>7, <2>8, <2>9, <2>10, <2>11, <2>12, <2>13 DEF Step
<1> QED
  BY <1>2, <1>3, <1>4, <1>5, <1>6, <1>7 DEF Next, Starts

\* The files of this command, written or to be written.
Promised == {n \in DOMAIN out : out[n].attempt = attempt} \cup {o.name : o \in ToSet(todo)}

\* For every field of every file there is one, and for the diagnostics one at least.
CompleteInv == pc \in {"write", "fill", "done"} =>
  IF Diagnosing THEN Promised # {}
  ELSE \A f \in ToSet(listed) : \A e \in ToSet(FIELD_MAPPING) \cup ToSet(CF_FIELD_MAPPING) :
         e.name \in Variables(f) => \E n \in Promised : n[1] = e.cmip7_name

LEMMA CompleteStep ==
  ASSUME RunInv, DataInv, StepsInv, SeriesInv, CompleteInv, [Next]_vars
  PROVE  CompleteInv'
<1>1. CASE UNCHANGED vars
  BY <1>1 DEF CompleteInv, Promised, vars, inputs, request, Diagnosing, Typed
<1>2. CASE WritePlot
  BY <1>2 DEF CompleteInv, Promised, WritePlot, request, Diagnosing, Typed
<1>3. CASE Kill
  BY <1>3 DEF CompleteInv, Kill
<1>4. CASE Return
  BY <1>4 DEF CompleteInv, Return
<1>5. ASSUME NEW n \in DOMAIN Commands, Starts(n) PROVE CompleteInv'
  <2>1. PICK l \in Seq(ToSet(archive)), next \in {"open", "failed", "refused"} : Start(n, l, next)
    BY <1>5, StartIs
  <2>2. pc' = next
    BY <2>1 DEF Start
  <2> QED
    BY <2>2 DEF CompleteInv
<1>6. CASE Step
  <2>1. command' = command /\ listed' = listed /\ attempt' = attempt
    BY <1>6, StepIs
  <2>2. Diagnosing' = Diagnosing
    BY <2>1 DEF Diagnosing, Typed
  <2>3. CASE pc' \notin {"write", "fill", "done"}
    BY <2>3 DEF CompleteInv
  <2>4. CASE pc \in {"write", "fill", "done"} /\ Promised \subseteq Promised'
    BY <2>1, <2>2, <2>4 DEF CompleteInv
  <2>5. CASE GatherFields
    <3>1. pc = "gather" /\ ~Diagnosing /\ todo' = Fields /\ pc' = "write"
      BY <2>5 DEF GatherFields
    <3>2. StepsAreSorted
      BY <3>1 DEF StepsInv
    <3>3. \A e \in ToSet(FIELD_MAPPING) \cup ToSet(CF_FIELD_MAPPING) :
            With(data, e.name) # <<>> => \E o \in ToSet(Fields) : o.name[1] = e.cmip7_name
      BY <3>1, <3>2, FieldsAre
    <3>4. ASSUME NEW f \in ToSet(listed), NEW e \in ToSet(FIELD_MAPPING) \cup ToSet(CF_FIELD_MAPPING),
                 e.name \in Variables(f)
          PROVE  With(data, e.name) # <<>>
      <4> DEFINE those == {i \in DOMAIN data : e.name \in Variables(data[i])}
      <4>1. /\ data \in Seq(ToSet(data)) /\ DOMAIN data = 1..Len(listed)
            /\ \A i \in 1..Len(listed) : data[i] = Data(listed[i], Regrids)
        BY <3>1, ListIs DEF DataInv, DataOf
      <4>2. DOMAIN listed = 1..Len(listed) /\ f \in PlotFile /\ Regrids \in BOOLEAN
        BY ListedAre DEF Regrids
      <4>3. PICK i \in 1..Len(listed) : f = listed[i]
        BY <4>2 DEF ToSet
      <4>4. data[i] = Data(f, Regrids)
        BY <4>1, <4>3
      <4>5. e.name \notin Coordinates
        BY FieldTable, MeansTable DEF IsTable
      <4>6. e.name \in Variables(data[i])
        <5>1. /\ Data(f, Regrids).vars = f.vars \ Coordinates
              /\ compute_derived_fields(Data(f, Regrids)) = compute_derived_fields(f)
          BY <4>2, DataIs
        <5> QED
          BY <3>4, <4>4, <4>5, <5>1 DEF Variables
      <4>7. i \in those /\ those \in SUBSET DOMAIN data
        BY <4>1, <4>6
      <4> HIDE DEF those
      <4>8. data[i] \in ToSet(Selected(data, those))
        <5>1. ToSet(Selected(data, those)) = {data[j] : j \in those}
          BY <4>1, <4>7, SelectedList
        <5> QED
          BY <4>7, <5>1
      <4>9. With(data, e.name) = Selected(data, those)
        BY DEF With, those
      <4> QED
        BY <4>8, <4>9, NoList
    <3>5. ASSUME NEW f \in ToSet(listed), NEW e \in ToSet(FIELD_MAPPING) \cup ToSet(CF_FIELD_MAPPING),
                 e.name \in Variables(f)
          PROVE  \E n \in Promised' : n[1] = e.cmip7_name
      <4>1. PICK o \in ToSet(Fields) : o.name[1] = e.cmip7_name
        BY <3>3, <3>4, <3>5
      <4>2. o.name \in Promised'
        BY <3>1 DEF Promised
      <4> QED
        BY <4>1, <4>2
    <3> QED
      BY <2>1, <2>2, <3>1, <3>5 DEF CompleteInv
  <2>6. CASE GatherScalars
    <3>1. /\ pc = "gather" /\ Diagnosing /\ todo' = Scalars
          /\ Scalars = <<>> => pc' = "failed"
      BY <2>6 DEF GatherScalars
    <3>2. InTimes(steps)
      BY <3>1 DEF StepsInv
    <3>3. Scalars \in Seq(ToSet(Scalars))
      BY <3>1, <3>2, ScalarsAre
    <3>4. CASE Scalars # <<>>
      <4>1. Head(Scalars) \in ToSet(Scalars)
        BY <3>3, <3>4, OneLess
      <4>2. Head(Scalars).name \in Promised'
        BY <3>1, <4>1 DEF Promised
      <4> QED
        BY <2>2, <3>1, <4>2 DEF CompleteInv
    <3> QED
      BY <2>3, <3>1, <3>4
  <2>7. CASE OpenOutput
    <3>1. pc = "write" /\ todo' = todo /\ (out' = out \/ out' = Opened(Head(todo).name))
      BY <2>7 DEF OpenOutput
    <3>2. \A n \in DOMAIN out : n \in DOMAIN out' /\ (out'[n] = out[n] \/ out'[n].attempt = attempt)
      BY <3>1 DEF Opened, Started
    <3>3. Promised \subseteq Promised'
      BY <2>1, <3>1, <3>2 DEF Promised
    <3> QED
      BY <2>4, <3>1, <3>3
  <2>8. CASE FillOutput
    <3> DEFINE h == Head(todo)
    <3>1. pc = "fill" /\ todo' = Tail(todo) /\ out' = [out EXCEPT ![h.name] = h.file]
      BY <2>8 DEF FillOutput
    <3>2. todo \in Seq(ToSet(todo)) /\ todo # <<>> /\ h.name \in DOMAIN out
      BY <3>1 DEF SeriesInv
    <3>3. h \in ToSet(todo) /\ ToSet(todo) \subseteq ToSet(Tail(todo)) \cup {h}
      BY <3>2, OneLess
    <3>4. h.file.attempt = attempt
      BY <3>3 DEF SeriesInv
    <3>5. /\ h.name \in DOMAIN out' /\ out'[h.name].attempt = attempt
          /\ \A n \in DOMAIN out : n \in DOMAIN out' /\ (out'[n] = out[n] \/ out'[n].attempt = attempt)
      BY <3>1, <3>2, <3>4
    <3> HIDE DEF h
    <3>6. Promised \subseteq Promised'
      <4>1. ASSUME NEW o \in ToSet(todo) PROVE o.name \in Promised'
        BY <2>1, <3>1, <3>3, <3>5 DEF Promised
      <4>2. ASSUME NEW n \in DOMAIN out, out[n].attempt = attempt PROVE n \in Promised'
        BY <2>1, <3>5, <4>2 DEF Promised
      <4> QED
        BY <4>1, <4>2 DEF Promised
    <3> QED
      BY <2>4, <3>1, <3>6
  <2>9. CASE Finish
    <3>1. Promised' = Promised /\ pc = "write"
      BY <2>1, <2>9 DEF Finish, Promised
    <3> QED
      BY <2>4, <3>1
  <2>10. CASE OpenTemp
    BY <2>3, <2>10 DEF OpenTemp
  <2>11. CASE SortSteps
    BY <2>3, <2>11 DEF SortSteps
  <2>12. CASE SortTimes
    BY <2>3, <2>12 DEF SortTimes
  <2>13. ASSUME NEW ok \in BOOLEAN, run_flatten(ok) PROVE CompleteInv'
    BY <2>3, <2>13 DEF run_flatten
  <2>14. ASSUME NEW ok \in BOOLEAN, run_diagnostics(ok) PROVE CompleteInv'
    BY <2>3, <2>14 DEF run_diagnostics
  <2> QED
    BY <1>6, <2>5, <2>6, <2>7, <2>8, <2>9, <2>10, <2>11, <2>12, <2>13, <2>14 DEF Step
<1> QED
  BY <1>1, <1>2, <1>3, <1>4, <1>5, <1>6 DEF Next, Starts

\* The command's data, steps and files are at every moment right for what was asked.
THEOREM SeriesHolds == Spec => [](StepsInv /\ SeriesInv /\ CompleteInv)
<1>1. Init => StepsInv /\ SeriesInv /\ CompleteInv
  BY NoList DEF Init, StepsInv, SeriesInv, CompleteInv
<1>2. RunInv /\ DataInv /\ (StepsInv /\ SeriesInv /\ CompleteInv) /\ [Next]_vars
      => (StepsInv /\ SeriesInv /\ CompleteInv)'
  BY StepsStep, SeriesStep, CompleteStep
<1> QED
  BY <1>1, <1>2, RunHolds, PTL DEF Spec

\* The values of a field are those of the plot files of their times, all of them, in order.
THEOREM AlignedHolds == Spec => []SeriesAligned
<1>1. DataInv /\ SeriesInv => SeriesAligned
  <2> SUFFICES ASSUME DataInv, SeriesInv, NEW n \in FieldResults PROVE Aligned(out[n])
    BY DEF SeriesAligned, Aligned
  <2>1. /\ n \in DOMAIN out /\ out[n].attempt = attempt /\ out[n].whole /\ pc # "idle"
        /\ out[n].table # "scalar"
    BY DEF FieldResults, Results, Final
  <2> QED
    BY <2>1 DEF SeriesInv, FileFor
<1> QED
  BY <1>1, RunHolds, SeriesHolds, PTL

\* A failure leaves nothing half written.
THEOREM WholeHolds == Spec => []FailureLeavesWholeFiles
<1>1. SeriesInv => FailureLeavesWholeFiles
  BY DEF SeriesInv, FailureLeavesWholeFiles
<1> QED
  BY <1>1, SeriesHolds, PTL

\* Success is complete: no field of any plot file is left out.
THEOREM CompleteHolds == Spec => []SuccessIsComplete
<1>1. RunInv /\ SeriesInv /\ CompleteInv => SuccessIsComplete
  <2> SUFFICES ASSUME RunInv, SeriesInv, CompleteInv, pc = "done", ~Diagnosing,
                      NEW f \in ToSet(listed), NEW e \in ToSet(FIELD_MAPPING \o CF_FIELD_MAPPING),
                      e.name \in Variables(f)
               PROVE  \E n \in FieldResults : n[1] = e.cmip7_name /\ f.name \in ToSet(out[n].files)
    BY DEF SuccessIsComplete
  <2>1. e \in ToSet(FIELD_MAPPING) \cup ToSet(CF_FIELD_MAPPING)
    BY FieldTable, MeansTable, BothLists DEF IsTable
  <2>2. PICK n \in Promised : n[1] = e.cmip7_name
    BY <2>1 DEF CompleteInv
  <2>3. n \in DOMAIN out /\ out[n].attempt = attempt
    BY NoList DEF Promised, SeriesInv
  <2>4. out[n].whole /\ out[n].table # "scalar" /\ Aligned(out[n])
    BY <2>3 DEF SeriesInv, FileFor
  <2>5. f.name \in ToSet(out[n].files)
    BY <2>4 DEF Aligned
  <2>6. n \in FieldResults
    BY <2>3, <2>4 DEF FieldResults, Results, Final
  <2> QED
    BY <2>2, <2>5, <2>6
<1> QED
  BY <1>1, RunHolds, SeriesHolds, PTL

\* So are the scalars: a value for each time of the files, of a file of that time.
THEOREM ScalarsHold == Spec => []ScalarsComplete
<1>1. SeriesInv /\ CompleteInv => ScalarsComplete
  <2> SUFFICES ASSUME SeriesInv, CompleteInv, pc = "done", Diagnosing
               PROVE  Results # {} /\ \A n \in Results : Timed(out[n])
    BY DEF ScalarsComplete, Timed
  <2>1. \A n \in DOMAIN out : out[n].attempt = attempt => out[n].whole /\ Timed(out[n])
    BY DEF SeriesInv, FileFor
  <2>2. Promised # {} /\ Promised = {n \in DOMAIN out : out[n].attempt = attempt}
    BY NoList DEF CompleteInv, Promised, SeriesInv
  <2> QED
    BY <2>1, <2>2 DEF Results, Final
<1> QED
  BY <1>1, SeriesHolds, PTL

-------------------------------------------------------------------------------
(* Days of whole years *)

\* A first of July is between two firsts of January.
LEMMA DaysAscend ==
  ASSUME NEW ref \in Int, NEW y \in Int, y >= ref, NEW calendar
  PROVE  LET D(z, m) == exact_days_since(z, m, ref, calendar)
         IN  /\ D(y, 1) \in Int /\ D(y, 7) \in Int
             /\ D(y, 1) < D(y, 7) /\ D(y, 7) < D(y + 1, 1)
             /\ \A z \in Int : y <= z => D(y, 1) <= D(z, 1)
<1> DEFINE D(z, m) == exact_days_since(z, m, ref, calendar)
           leaps(z) == {x \in ref..(z - 1) : IsLeap(x)}
           C(z) == Cardinality(leaps(z))
<1>1. DaysBefore(1) = 0 /\ DaysBefore(7) = 181
  BY DaysAreNumbers
<1>2. CASE calendar = "360_day"
  BY <1>2 DEF exact_days_since
<1>3. CASE calendar # "360_day"
  <2>1. ASSUME NEW z \in Int PROVE IsFiniteSet(leaps(z)) /\ C(z) \in Nat
    <3>1. IsFiniteSet(ref..(z - 1)) /\ leaps(z) \in SUBSET (ref..(z - 1))
      BY FS_Interval
    <3> QED
      BY <3>1, FS_Subset, FS_CardinalityType
  <2>2. ASSUME NEW z \in Int, y <= z PROVE C(y) <= C(z)
    <3>1. leaps(y) \in SUBSET leaps(z)
      BY <2>2
    <3> QED
      BY <2>1, <3>1, FS_Subset
  <2>3. \A z \in Int : z >= ref => D(z, 1) = 365 * (z - ref) + C(z)
    BY <1>1, <1>3, <2>1 DEF exact_days_since
  <2>4. D(y, 7) = 365 * (y - ref) + C(y) + 181 + (IF IsLeap(y) THEN 1 ELSE 0)
    BY <1>1, <1>3, <2>1 DEF exact_days_since
  <2> HIDE DEF C, leaps, D
  <2>5. C(y) \in Nat /\ C(y + 1) \in Nat /\ C(y) <= C(y + 1)
    <3>1. y + 1 \in Int /\ y <= y + 1
      OBVIOUS
    <3> QED
      BY <2>1, <2>2, <3>1
  <2>6. D(y, 1) = 365 * (y - ref) + C(y) /\ D(y + 1, 1) = 365 * (y + 1 - ref) + C(y + 1)
    BY <2>3
  <2>7. /\ D(y, 1) \in Int /\ D(y, 7) \in Int
        /\ D(y, 1) < D(y, 7) /\ D(y, 7) < D(y + 1, 1)
    BY <2>4, <2>5, <2>6
  <2>8. ASSUME NEW z \in Int, y <= z PROVE D(y, 1) <= D(z, 1)
    <3>1. C(z) \in Nat /\ C(y) <= C(z)
      BY <2>1, <2>2, <2>8
    <3>2. z >= ref
      BY <2>8
    <3>3. D(z, 1) = 365 * (z - ref) + C(z)
      BY <2>3, <3>2
    <3> QED
      BY <2>5, <2>6, <2>8, <3>1, <3>3
  <2> QED
    BY <2>7, <2>8 DEF D
<1> QED
  BY <1>2, <1>3

\* A plot file of year y has its days in that year.
LEMMA YearIs ==
  ASSUME NEW f \in PlotFile, NEW grid \in BOOLEAN, NEW y \in Nat, OfYear(f, y), NEW ref, NEW calendar
  PROVE  LET m == TimeMetadata(Data(f, grid))
             days == to_exact_days(m, ref, calendar)
             D(z, month) == exact_days_since(z, month, ref, calendar)
         IN  IF f.mean THEN /\ m.mean /\ m.t = y * Year + 1461
                            /\ days = [day |-> D(y, 7), start |-> D(y, 1), end |-> D(y + 1, 1)]
             ELSE m.t = y * Year /\ days.day = D(y, 1)
<1> DEFINE d == Data(f, grid)
           info == parse_bisicles_filename(d)
           m == TimeMetadata(d)
           D(z, month) == exact_days_since(z, month, ref, calendar)
<1>1. /\ d.style = f.style /\ d.mean = f.mean /\ d.time = f.time /\ d.start = f.start /\ d.end = f.end
      /\ f.style \in {"old", "new", "plain"} /\ f.mean \in BOOLEAN
  <2>1. f.style \in {"old", "new", "plain"} /\ f.mean \in BOOLEAN
    BY DEF PlotFile
  <2> HIDE DEF d
  <2> QED
    BY <2>1, DataIs DEF d
<1> HIDE DEF d
<1>2. \A z \in Nat : yyyymmdd_to_year(<<z, 1>>) = z * Year
  BY DaysAreNumbers DEF yyyymmdd_to_year, Year
<1>3. \A z \in Int : Rounded(z * Year) = z
  BY DEF Rounded, Year
<1>4. (y * Year + (y + 1) * Year) \div 2 = y * Year + 1461
  BY DEF Year
<1>5. CASE f.mean
  <2>1. f.start = <<y, 1>> /\ f.end = <<y + 1, 1>> /\ f.style # "old"
    BY <1>5 DEF OfYear
  <2>2. yyyymmdd_to_year(d.start) = y * Year /\ yyyymmdd_to_year(d.end) = (y + 1) * Year
    BY <1>1, <1>2, <2>1
  <2>3. m.t = y * Year + 1461 /\ m.mean = TRUE /\ m.start = y * Year /\ m.end = (y + 1) * Year
    <3>1. CASE f.style = "plain"
      <4>1. info = NoInfo
        BY <1>1, <3>1 DEF parse_bisicles_filename
      <4>2. InferredYear(d.time) = y
        <5>1. d.time \in {y * Year + Year \div 2, (y + 1) * Year}
          BY <1>1, <1>5, <3>1 DEF OfYear
        <5>2. CASE d.time = y * Year + Year \div 2
          BY <5>2 DEF InferredYear, Distance, Year
        <5>3. CASE d.time = (y + 1) * Year
          <6>1. Rounded((y + 1) * Year) = y + 1
            BY <1>3
          <6>2. ((y + 1) * Year) % Year = 0
            BY DEF Year
          <6> QED
            BY <5>3, <6>1, <6>2 DEF InferredYear, Distance, Year
        <5> QED
          BY <5>1, <5>2, <5>3
      <4> DEFINE start == IF d.bounds THEN yyyymmdd_to_year(d.start) ELSE InferredYear(d.time) * Year
                 end == IF d.bounds THEN yyyymmdd_to_year(d.end) ELSE (InferredYear(d.time) + 1) * Year
      <4>3. start = y * Year /\ end = (y + 1) * Year
        BY <2>2, <4>2
      <4>4. m = [t |-> (start + end) \div 2, mean |-> TRUE, start |-> start, end |-> end]
        <5>1. d.mean = TRUE
          BY <1>1, <1>5
        <5> QED
          BY <4>1, <5>1 DEF TimeMetadata
      <4> HIDE DEF start, end
      <4> HIDE DEF m
      <4>5. m.t = (start + end) \div 2 /\ m.mean = TRUE /\ m.start = start /\ m.end = end
        BY <4>4
      <4> QED
        BY <1>4, <4>3, <4>5
    <3>2. CASE f.style = "new"
      <4>1. info # NoInfo /\ info.mean = TRUE /\ info.start = d.start /\ info.end = d.end
        <5>1. info = [mean |-> TRUE, start |-> d.start, end |-> d.end, sheet |-> d.sheet, period |-> d.period]
          BY <1>1, <1>5, <3>2 DEF parse_bisicles_filename
        <5> QED
          BY <5>1 DEF NoInfo
      <4> HIDE DEF info
      <4>2. time_years(info) = (y * Year + (y + 1) * Year) \div 2
        BY <2>2, <4>1 DEF time_years
      <4>3. m = [t |-> time_years(info), mean |-> info.mean,
                 start |-> yyyymmdd_to_year(info.start), end |-> yyyymmdd_to_year(info.end)]
        BY <4>1 DEF TimeMetadata, info
      <4> HIDE DEF m
      <4>4. m.t = time_years(info) /\ m.mean = TRUE /\ m.start = y * Year /\ m.end = (y + 1) * Year
        BY <2>2, <4>1, <4>3
      <4> QED
        BY <1>4, <4>2, <4>4
    <3> QED
      BY <1>1, <2>1, <3>1, <3>2
  <2> HIDE DEF m
  <2>4. to_exact_days(m, ref, calendar) = [day |-> D(y, 7), start |-> D(y, 1), end |-> D(y + 1, 1)]
    <3>1. Rounded(m.start) = y /\ Rounded(m.end) = y + 1
      BY <1>3, <2>3
    <3>2. Distance(m.start, y * Year) = 0 /\ Distance(m.end, (y + 1) * Year) = 0
      BY <2>3 DEF Distance, Year
    <3> QED
      BY <2>3, <3>1, <3>2 DEF to_exact_days, Year
  <2> QED
    BY <1>5, <2>3, <2>4 DEF m, d
<1>6. CASE ~f.mean
  <2>1. m.t = y * Year /\ m.mean = FALSE
    <3>1. CASE f.style = "plain"
      BY <1>1, <1>6, <3>1 DEF TimeMetadata, parse_bisicles_filename, OfYear, NoInfo
    <3>2. CASE f.style # "plain"
      <4>1. d.end = <<y, 1>>
        BY <1>1, <1>6, <3>2 DEF OfYear
      <4>2. info # NoInfo /\ info.mean = FALSE /\ info.end = d.end
        <5>1. info = [mean |-> FALSE, start |-> info.start, end |-> d.end, sheet |-> d.sheet, period |-> info.period]
          BY <1>1, <1>6, <3>2 DEF parse_bisicles_filename
        <5> HIDE DEF info
        <5> QED
          BY <5>1 DEF NoInfo
      <4> HIDE DEF info
      <4>3. time_years(info) = y * Year
        BY <1>2, <4>1, <4>2 DEF time_years
      <4> QED
        BY <4>2, <4>3 DEF TimeMetadata, info
    <3> QED
      BY <3>1, <3>2
  <2> HIDE DEF m
  <2>2. to_exact_days(m, ref, calendar).day = D(y, 1)
    BY <1>3, <2>1 DEF to_exact_days
  <2> QED
    BY <1>6, <2>1, <2>2 DEF m, d
<1> QED
  BY <1>1, <1>5, <1>6

\* For archives of whole years, the days of the axis ascend and means lie inside their bounds.
THEOREM AxisHolds == ASSUME WholeYears PROVE Spec => []AxisOrdered
<1>1. RunInv /\ SeriesInv => AxisOrdered
  <2> SUFFICES ASSUME RunInv, SeriesInv, NEW n \in FieldResults
               PROVE  LET r == out[n] IN
                      /\ Increasing(r.axis.days)
                      /\ \A k \in DOMAIN r.files : FileNamed(r.files[k]).mean =>
                           /\ r.axis.bounds[k][1] < r.axis.days[k]
                           /\ r.axis.days[k] < r.axis.bounds[k][2]
    BY DEF AxisOrdered
  <2> DEFINE r == out[n]
             F(k) == FileNamed(r.files[k])
             D(z, month) == exact_days_since(z, month, ReferenceYear, opt["calendar"])
  <2>1. Aligned(r)
    <3>1. pc # "idle" /\ n \in DOMAIN out /\ r.attempt = attempt /\ r.whole /\ r.table # "scalar"
      BY DEF FieldResults, Results, Final
    <3> QED
      BY <3>1 DEF SeriesInv, FileFor
  <2> HIDE DEF r
  <2>2. /\ DOMAIN r.axis.days = DOMAIN r.files /\ DOMAIN r.axis.years = DOMAIN r.files
        /\ Increasing(r.axis.years)
        /\ \A k \in DOMAIN r.files :
             /\ TimeMetadata(DataOf(F(k))).t = r.axis.years[k]
             /\ r.axis.days[k] = DaysOf(r.files[k]).day
             /\ TimeMetadata(DataOf(F(k))).mean => r.axis.bounds[k] = <<DaysOf(r.files[k]).start, DaysOf(r.files[k]).end>>
    BY <2>1 DEF Aligned, InDays
  <2>3. ASSUME NEW k \in DOMAIN r.files
        PROVE  F(k) \in PlotFile /\ \E y \in Nat : y >= ReferenceYear /\ OfYear(F(k), y)
    <3>1. /\ ToSet(listed) \subseteq PlotFile /\ \A f \in ToSet(listed) : FileNamed(f.name) = f
          /\ listed \in Seq(ToSet(archive)) /\ archive \in Archives
      BY ListedAre DEF RunInv
    <3>2. r.files[k] \in {f.name : f \in ToSet(listed)}
      BY <2>1, <2>3 DEF Aligned, ToSet
    <3>3. F(k) \in ToSet(listed)
      BY <3>1, <3>2
    <3>4. F(k) \in ToSet(archive)
      BY <3>1, <3>3, ListIs DEF ToSet
    <3> QED
      BY <3>1, <3>3, <3>4 DEF WholeYears
  <2>4. ASSUME NEW k \in DOMAIN r.files
        PROVE  \E y \in Int : /\ y >= ReferenceYear
               /\ IF F(k).mean
                  THEN /\ r.axis.years[k] = y * Year + 1461 /\ r.axis.days[k] = D(y, 7)
                       /\ r.axis.bounds[k] = <<D(y, 1), D(y + 1, 1)>>
                  ELSE r.axis.years[k] = y * Year /\ r.axis.days[k] = D(y, 1)
    <3>1. F(k) \in PlotFile /\ Regrids \in BOOLEAN
      BY <2>3 DEF Regrids
    <3>2. PICK y \in Nat : y >= ReferenceYear /\ OfYear(F(k), y)
      BY <2>3
    <3> DEFINE f == F(k)
               m == TimeMetadata(Data(f, Regrids))
               days == to_exact_days(m, ReferenceYear, opt["calendar"])
    <3>3. m = TimeMetadata(DataOf(f)) /\ days = DaysOf(r.files[k])
      BY DEF DataOf, DaysOf
    <3> HIDE DEF f, D
    <3>4. IF f.mean THEN /\ m.mean /\ m.t = y * Year + 1461
                         /\ days = [day |-> D(y, 7), start |-> D(y, 1), end |-> D(y + 1, 1)]
          ELSE m.t = y * Year /\ days.day = D(y, 1)
      BY <3>1, <3>2, YearIs DEF D, f
    <3> HIDE DEF m, days
    <3>5. r.axis.years[k] = m.t /\ r.axis.days[k] = days.day /\ (m.mean => r.axis.bounds[k] = <<days.start, days.end>>)
      BY <2>2, <3>3 DEF f
    <3>6. y \in Int /\ y >= ReferenceYear
      BY <3>2
    <3>7. IF f.mean
          THEN /\ r.axis.years[k] = y * Year + 1461 /\ r.axis.days[k] = D(y, 7)
               /\ r.axis.bounds[k] = <<D(y, 1), D(y + 1, 1)>>
          ELSE r.axis.years[k] = y * Year /\ r.axis.days[k] = D(y, 1)
      BY <3>4, <3>5
    <3> QED
      BY <3>6, <3>7 DEF f
  <2>5. ASSUME NEW y \in Int, y >= ReferenceYear
        PROVE  /\ D(y, 1) \in Int /\ D(y, 7) \in Int /\ D(y, 1) < D(y, 7) /\ D(y, 7) < D(y + 1, 1)
               /\ \A z \in Int : y <= z => D(y, 1) <= D(z, 1)
    BY <2>5, BoundsAssumption, DaysAscend
  <2> HIDE DEF D, F
  <2>6. ASSUME NEW j \in DOMAIN r.files, NEW k \in DOMAIN r.files, j < k
        PROVE  r.axis.days[j] < r.axis.days[k]
    <3>1. r.axis.years[j] < r.axis.years[k]
      BY <2>2, <2>6 DEF Increasing
    <3>2. PICK y \in Int : /\ y >= ReferenceYear
            /\ \/ r.axis.years[j] = y * Year + 1461 /\ r.axis.days[j] = D(y, 7)
               \/ r.axis.years[j] = y * Year /\ r.axis.days[j] = D(y, 1)
      BY <2>4
    <3>3. PICK z \in Int : /\ z >= ReferenceYear
            /\ \/ r.axis.years[k] = z * Year + 1461 /\ r.axis.days[k] = D(z, 7)
               \/ r.axis.years[k] = z * Year /\ r.axis.days[k] = D(z, 1)
      BY <2>4
    <3>4. y < z \/ (y = z /\ r.axis.days[j] = D(y, 1) /\ r.axis.days[k] = D(z, 7))
      BY <3>1, <3>2, <3>3 DEF Year
    <3>5. CASE y < z
      <4>1. y + 1 \in Int /\ y + 1 >= ReferenceYear /\ y + 1 <= z /\ ReferenceYear \in Int
        BY <3>2, <3>5, BoundsAssumption
      <4>2. D(y + 1, 1) \in Int /\ D(y + 1, 1) <= D(z, 1)
        BY <2>5, <4>1
      <4>3. /\ D(y, 1) \in Int /\ D(y, 7) \in Int /\ D(y, 1) < D(y, 7) /\ D(y, 7) < D(y + 1, 1)
            /\ D(z, 1) \in Int /\ D(z, 7) \in Int /\ D(z, 1) < D(z, 7)
        BY <2>5, <3>2, <3>3
      <4> QED
        BY <3>2, <3>3, <4>2, <4>3
    <3>6. CASE y = z /\ r.axis.days[j] = D(y, 1) /\ r.axis.days[k] = D(z, 7)
      BY <2>5, <3>2, <3>6
    <3> QED
      BY <3>4, <3>5, <3>6
  <2>7. Increasing(r.axis.days)
    BY <2>2, <2>6 DEF Increasing
  <2>8. ASSUME NEW k \in DOMAIN r.files, F(k).mean
        PROVE  r.axis.bounds[k][1] < r.axis.days[k] /\ r.axis.days[k] < r.axis.bounds[k][2]
    <3>1. PICK y \in Int : /\ y >= ReferenceYear /\ r.axis.days[k] = D(y, 7)
                           /\ r.axis.bounds[k] = <<D(y, 1), D(y + 1, 1)>>
      BY <2>4, <2>8
    <3>2. D(y, 1) < D(y, 7) /\ D(y, 7) < D(y + 1, 1)
      BY <2>5, <3>1
    <3> QED
      BY <3>1, <3>2
  <2> QED
    BY <2>7, <2>8 DEF F, r
<1> QED
  BY <1>1, RunHolds, SeriesHolds, PTL
===============================================================================
