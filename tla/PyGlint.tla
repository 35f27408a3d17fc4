------------------------------- MODULE PyGlint -------------------------------
(***************************************************************************)
(* The exchange of a year between the climate and two ice sheets, in Python *)
(* (src/pyglint: coupling.py, downscale.py and upscale.py), in the order of *)
(* test_coupling.py: the climate's fields, which have a value by class of   *)
(* elevation and box, are brought down to the surface of each ice sheet,    *)
(* made to keep their total, and some of the snow is made ice; then what    *)
(* the ice sheets have become is brought up, one after the other, into the  *)
(* same arrays that the climate's fields were read into.                    *)
(*                                                                         *)
(* Quantities are exact.  Of two fields that are treated alike one stands   *)
(* for both: the flux of heat is brought down as snow is and up as the snow *)
(* that changed, and so is calving.  External: the ice sheets, and the      *)
(* triangulation that LinearNDInterpolator interpolates on.                 *)
(***************************************************************************)
EXTENDS GridPair, UmForcing, Ratios

CONSTANTS
  Linear,      \* by sheet and point: boxes of the triangle it is in, with their weights
  Unit,        \* the sum of the weights of a triangle
  FracUnit,    \* a point that is all ice
  topo_mid,    \* by class: the height its values are for
  topo_max,    \* the bounds of the classes: topo_max[k] <= class k < topo_max[k + 1]
  Surfaces,    \* by sheet: what it may look like, by point [thk, topo, frac]
  Thresh,      \* thickness, in the unit of Surfaces, that snow is made ice below
  Excluded     \* sets of fields that um_to_unicicles may be told to make up

VARIABLES
  um, surface,   \* which of Means and, by sheet, of Surfaces there is this year
  options,       \* of the programs, and what SciPy's nearest neighbour among none is
  pairs,         \* by sheet: GlobalLocalGridPair, which the programs make anew, of the same grids
  forcing,       \* the file um_to_unicicles writes
  atm,           \* the climate's arrays
  ism,           \* by sheet: what has been brought down to it
  pc

inputVars == <<um, surface, options, pairs>>
vars == <<inputVars, forcing, atm, ism, pc>>

ASSUME PyGlintAssumption ==
  /\ DOMAIN BoxArea = Boxes
  /\ Unit \in Nat \ {0} /\ FracUnit \in Nat \ {0} /\ Thresh \in Nat
  /\ \A s \in Sheets : \A p \in Points(s) :
       /\ DOMAIN Linear[s][p] \subseteq Boxes
       /\ Linear[s][p] \in [DOMAIN Linear[s][p] -> Nat]
       /\ FoldFunction(+, 0, Linear[s][p]) = Unit
  /\ \A k \in Elevs : /\ topo_mid[k] \in Int /\ topo_max[k] \in Int /\ topo_max[k + 1] \in Int
                      /\ topo_max[k] <= topo_mid[k] /\ topo_mid[k] < topo_max[k + 1]
  /\ \A s \in Sheets : \A i \in DOMAIN Surfaces[s] :
       Surfaces[s][i] \in [Points(s) -> [thk : Nat, topo : Int, frac : 0..FracUnit]]

\* What 0/0 gives, what a masked array has where it is masked, and no array.
NaN == <<0, 0>>
Masked == <<1, 0>>
None == [is |-> "nothing"]
Finite(q) == q[2] # 0
\* An operation of which an operand is not finite has no finite result.
NanPlus(p, q) == IF Finite(p) /\ Finite(q) THEN Plus(p, q) ELSE NaN
NanTimes(p, q) == IF Finite(p) /\ Finite(q) THEN Times(p, q) ELSE NaN
NanOver(p, q) == IF Finite(p) /\ Finite(q) /\ q # Zero THEN Over(p, q) ELSE NaN
Sum(f) == FoldFunction(NanPlus, Zero, f)

BoxesOf(s) == {InWhole(pairs[s].crop, c) : c \in Kept(pairs[s].crop)}

Look(s) == Surfaces[s][surface[s]]
\* read_ism_nc: the points that count as ice.
MaskOf(look) == {p \in DOMAIN look : look[p].frac > 0}

Fields == {"smb", "snow", "temp"}
Top == CHOOSE k \in Elevs : k + 1 \notin Elevs
\* The order of the sheets, down and up.
Turn(s) == IF s = "GrIS" THEN 1 ELSE 2
After(step, s, then) == IF Turn(s) = 1 THEN <<step, 2>>
                        ELSE <<then, IF then = "done" THEN 0 ELSE 1>>

Init ==
  /\ um \in DOMAIN Means
  /\ \E gris \in DOMAIN Surfaces["GrIS"], ais \in DOMAIN Surfaces["AIS"] :
       surface = [s \in Sheets |-> IF s = "GrIS" THEN gris ELSE ais]
  /\ options \in [conservation : BOOLEAN, snow_to_ice : BOOLEAN,
                  do_snow_shuffling : BOOLEAN, exclude : Excluded,
                  nearest_of_none : {"an error", "NaN"}]
  /\ pairs = [s \in Sheets |-> GridPair(s)]
  /\ forcing = None /\ atm = None
  /\ ism = [s \in Sheets |-> None]
  /\ pc = <<"um_to_unicicles", 0>>

um_to_unicicles ==
  /\ pc = <<"um_to_unicicles", 0>>
  /\ IF NineTiles(Means[um]) THEN pc' = <<"failed", 0>> /\ UNCHANGED forcing
     ELSE /\ forcing' = Forcing(Means[um], options.exclude, options.do_snow_shuffling)
          /\ pc' = <<"read", 0>>
  /\ UNCHANGED <<inputVars, atm, ism>>

\* read_atm_nc; frac_um is made of zeros, and no mask.
ReadForcing ==
  LET Read(f) == [k \in Elevs |-> [b \in Boxes |-> IF b \in forcing.land THEN Q(f[k][b]) ELSE Masked]]
      All(v(_)) == [k \in Elevs |-> [b \in Boxes |-> v(k)]]
      OfClass(k) == Q(topo_mid[k])
      Nothing(k) == Zero
  IN  /\ pc = <<"read", 0>>
      /\ atm' = [smb |-> Read(forcing.ice_smb), snow |-> Read(forcing.nonice_snowdepth),
                 temp |-> Read(forcing.ice_stemp), topo |-> All(OfClass), frac |-> All(Nothing)]
      /\ pc' = <<"atm_to_ism", 1>>
      /\ UNCHANGED <<inputVars, forcing, ism>>

-------------------------------------------------------------------------------
(* Down: to the surface of an ice sheet *)

Area(k, b) == forcing.tile_surface_area[k][b]

\* Faulty variant: the masks of the fields are not looked at.
Unmasked(field, k, boxes) == boxes

\* valid: where a tile has an area there is land, so the value is not masked;
\* for the temperature it is enough that there is land.
Valid(field, k, boxes) ==
  {b \in boxes : b \in forcing.land /\ (field = "temp" \/ Area(k, b) > 0)}

\* interp_to_local, for one class: boxes with no value take the nearest one's,
\* then the boxes of the point's triangle are weighted.  Where no box has a value
\* the nearest is NaN, or atm_to_ism has failed.
interp_to_local(s, field, k, boxes, p) ==
  LET valid == Valid(field, k, boxes)
      Filled(b) == IF valid = {} THEN NaN
                   ELSE atm[field][k][IF b \in valid THEN b ELSE NearestBox(s, valid, Down[s][b])]
  IN  Sum([b \in DOMAIN Linear[s][p] |-> NanTimes(<<Linear[s][p][b], Unit>>, Filled(b))])

\* Between two classes; w is the weight of the lower.
Between(value, topo, k) ==
  LET w == Ratio(topo_mid[k] - topo, topo_mid[k] - topo_mid[k - 1])
  IN  NanPlus(NanTimes(Minus(Q(1), w), value[k]), NanTimes(w, value[k - 1]))

\* Faulty variant: the line of the two highest classes goes on above them.
Extrapolated(value, topo) ==
  IF topo < topo_mid[1] THEN value[1]
  ELSE Between(value, topo, LeastOf({Top} \union {k \in Elevs : topo_mid[k] > topo}))

\* interp_to_surface, whose lapse rate nobody gives: the nearest class beyond the
\* highest and the lowest, between the two around it otherwise.  That is a sum over
\* all classes, most with a weight of zero: one that is NaN makes it NaN.  A surface
\* at the very height of the highest class is in neither case and gets zero.
interp_to_surface(value, topo) ==
  IF topo < topo_mid[1] THEN value[1]
  ELSE IF topo > topo_mid[Top] THEN value[Top]
  ELSE IF \E k \in Elevs \ {1} : ~Finite(value[k]) \/ ~Finite(value[k - 1]) THEN NaN
  ELSE IF topo = topo_mid[Top] THEN Zero
  ELSE Between(value, topo, LeastOf({k \in Elevs : topo_mid[k] > topo}))

\* The heights are brought down as the fields are, and are the same for every box.
ToSurface(s, field, boxes) ==
  [p \in Points(s) |->
     interp_to_surface([k \in Elevs |-> interp_to_local(s, field, k, boxes, p)], Look(s)[p].topo)]

\* What the climate has in a box, in all its classes.
ColumnTotal(field, b) ==
  LET valid == {k \in Elevs : Area(k, b) > 0}
  IN  Sum([k \in valid |-> NanTimes(atm[field][k][b], Q(Area(k, b)))])

\* Faulty variant: each box for itself, its total spread over all its points.
ConservedByBox(s, field, pair, f) ==
  [p \in DOMAIN f |-> NanOver(ColumnTotal(field, InWhole(pair.crop, pair.map[p])),
                              Q(PointArea(s) * bincount(pair.map, pair.map[p])))]

\* glint_conservation_adjust: the ice of a box is moved by the same amount, so
\* that it has its part of the box's total, then all ice is scaled so that it has
\* the total of all the boxes that have any.
Conserved(s, field, pair, f) ==
  LET ice(c) == {p \in DOMAIN f : pair.map[p] = c}
      iced == {pair.map[p] : p \in DOMAIN f}
      Atm(c) == ColumnTotal(field, InWhole(pair.crop, c))
      IceArea(c) == Q(PointArea(s) * Cardinality(ice(c)))
      Share(c) == Ratio(Cardinality(ice(c)), bincount(pair.map, c))
      IsmTotal(c, g) == NanTimes(Sum([p \in ice(c) |-> g[p]]), Q(PointArea(s)))
      Move(c) ==
        IF \A k \in Elevs : Area(k, InWhole(pair.crop, c)) = 0 THEN Zero
        ELSE NanOver(NanPlus(NanTimes(Atm(c), Share(c)), NanTimes(Q(-1), IsmTotal(c, f))),
                     IceArea(c))
      move == [c \in iced |-> Move(c)]
      moved == [p \in DOMAIN f |-> NanPlus(f[p], move[pair.map[p]])]
      scale == NanOver(Sum([c \in iced |-> Atm(c)]), Sum([c \in iced |-> IsmTotal(c, moved)]))
  IN  [p \in DOMAIN f |-> NanTimes(moved[p], scale)]

\* delta_h_snow: where the ice is thin, deep snow is made ice, or the ice snow.
delta_h_snow(thk, snow) ==
  IF thk >= Thresh THEN Zero
  ELSE IF Finite(snow) /\ Less(Q(Thresh), snow) THEN Minus(Zero, snow) ELSE Q(thk)

\* A class that no box has: NearestNDInterpolator is given nothing.
ClassEmpty(s) ==
  \E field \in Fields, k \in Elevs :
    Valid(field, k, BoxesOf(s)) = {}

\* The sums that are made to conserve go over all points, with a weight of zero where
\* there is no ice: one that is NaN makes all of them NaN.
Brought(s, field, pair) ==
  LET f == ToSurface(s, field, BoxesOf(s))
      onIce == [p \in MaskOf(Look(s)) |-> f[p]]
  IN  IF ~options.conservation \/ field = "temp" THEN onIce
      ELSE IF \A p \in Points(s) : Finite(f[p]) THEN Conserved(s, field, pair, onIce)
      ELSE [p \in MaskOf(Look(s)) |-> NaN]

\* The time-step is one.  Which SciPy there is decides on a class that no box has:
\* up to 1.11 it fails, later ones go on.
atm_to_ism(s) ==
  /\ pc = <<"atm_to_ism", Turn(s)>>
  /\ IF ClassEmpty(s) /\ options.nearest_of_none = "an error"
     THEN pc' = <<"failed", 0>> /\ UNCHANGED ism
     ELSE LET pair == pairs[s]
              snow == Brought(s, "snow", pair)
              delta == [p \in DOMAIN snow |->
                          IF options.snow_to_ice THEN delta_h_snow(Look(s)[p].thk, snow[p])
                          ELSE Zero]
              smb == Brought(s, "smb", pair)
          IN  /\ ism' = [ism EXCEPT ![s] =
                           [smb |-> [p \in DOMAIN smb |-> NanPlus(smb[p], Minus(Zero, delta[p]))],
                            temp |-> Brought(s, "temp", pair), delta_snow |-> delta]]
              /\ pc' = After("atm_to_ism", s, "ism_to_atm")
  /\ UNCHANGED <<inputVars, forcing, atm>>

-------------------------------------------------------------------------------
(* Up: to the classes of a box *)

\* subset_ec
InClass(k, topo) == topo_max[k] <= topo /\ topo < topo_max[k + 1]

\* Faulty variant: all fields over the class.
MeanOfClass(value, ice, inClass, column) ==
  IF inClass = {} THEN NaN ELSE NanOver(Sum([p \in inClass |-> value[p]]), Q(Cardinality(inClass)))

\* Over a box's ice of the class, or over all its ice (local_to_global_cell_agg).
ClassMean(value, ice, inClass, column) ==
  LET n == IF column THEN Cardinality(ice) ELSE Cardinality(inClass)
  IN  IF n = 0 THEN NaN ELSE NanOver(Sum([p \in inClass |-> value[p]]), Q(n))

\* A field of the sheet's grid in the rows that are kept: its fraction of ice is over
\* all the ice of a box, the other fields over that of the class.
mean_to_global_mec(pair, look, value, column) ==
  [k \in Elevs |-> [c \in Kept(pair.crop) |->
     LET ice == {p \in MaskOf(look) : pair.map[p] = c}
     IN  ClassMean(value, ice, {p \in ice : InClass(k, look[p].topo)}, column)]]

\* splice_global: where an array is masked it stays so.
splice_global(old, new, cover) ==
  IF old = Masked THEN Masked
  ELSE NanPlus(NanTimes(new, cover), NanTimes(Minus(Q(1), cover), old))

ism_to_atm(s) ==
  LET pair == pairs[s]
      look == Look(s)
      Up(array, value, column) ==
        LET region == mean_to_global_mec(pair, look, value, column)
        IN  [k \in Elevs |-> [b \in Boxes |->
               LET c == b - cell_id(0, pair.crop.ilo)
               IN  IF c \notin Kept(pair.crop) THEN array[k][b]
                   ELSE splice_global(array[k][b], region[k][c],
                                      Ratio(pair.cover[c][1], pair.cover[c][2]))]]
      Of(field) == [p \in DOMAIN look |-> Q(look[p][field])]
  IN  /\ pc = <<"ism_to_atm", Turn(s)>>
      /\ atm' = [atm EXCEPT
           !.frac = Up(@, [p \in DOMAIN look |-> Ratio(look[p].frac, FracUnit)], TRUE),
           !.topo = Up(@, Of("topo"), FALSE),
           !.snow = Up(@, ism[s].delta_snow, FALSE)]
      /\ pc' = After("ism_to_atm", s, "done")
      /\ UNCHANGED <<inputVars, forcing, ism>>

Next == um_to_unicicles \/ ReadForcing \/ \E s \in Sheets : atm_to_ism(s) \/ ism_to_atm(s)

Spec == Init /\ [][Next]_vars

-------------------------------------------------------------------------------
(* Properties *)

IsNumber(q) == q = NaN \/ (q[1] \in Int /\ q[2] \in Nat \ {0})
Steps == {"um_to_unicicles", "read", "atm_to_ism", "ism_to_atm", "done", "failed"}

TypeOK ==
  /\ pc \in Steps \X (0..2)
  /\ forcing = None <=> pc[1] = "um_to_unicicles" \/ NineTiles(Means[um])
  /\ \A s \in Sheets : ism[s] # None =>
       /\ DOMAIN ism[s].smb = MaskOf(Look(s))
       /\ \A p \in MaskOf(Look(s)) : IsNumber(ism[s].smb[p]) /\ IsNumber(ism[s].delta_snow[p])
  /\ atm # None => \A k \in Elevs, b \in Boxes :
       /\ IsNumber(atm.frac[k][b]) /\ IsNumber(atm.topo[k][b])
       /\ atm.snow[k][b] = Masked <=> b \notin forcing.land

\* The boxes that have ice of a sheet, and all that fell on them.
IcedBoxes(s) ==
  LET pair == pairs[s] IN {InWhole(pair.crop, pair.map[p]) : p \in MaskOf(Look(s))}
Fell(s) == Sum([b \in IcedBoxes(s) |->
                  Sum([k \in Elevs |-> Q(forcing.ice_smb[k][b] * Area(k, b))])])

\* Brought down with conservation, what the ice sheet gains and the snow it gives
\* away add up to the climate's total for the boxes with ice (the sum that
\* test_TerraFIRMA takes of every file), whatever the shapes of the two grids, the
\* classes without a tile, and the ice that is thin; unless there is no scaling to
\* that total, because the ice's own comes to nothing, or a class has no value in
\* any box of its rows and SciPy goes on: then nothing is a number.
WaterReceived ==
  \A s \in Sheets :
    ism[s] # None /\ options.conservation /\ (\E p \in DOMAIN ism[s].smb : Finite(ism[s].smb[p])) =>
      NanTimes(Sum([p \in DOMAIN ism[s].smb |-> NanPlus(ism[s].smb[p], ism[s].delta_snow[p])]),
               Q(PointArea(s))) = Fell(s)

\* The temperatures that the climate has on the land of a sheet's rows, in any class.
Given(s) == {atm.temp[k][b] : k \in Elevs, b \in BoxesOf(s) \intersect forcing.land}

\* The temperature of a point, which is brought down as it is, lies between the least
\* and the greatest of those: no box of sea leaks what it holds instead of a value
\* (downscale.py:63-67), nothing is extrapolated, and that another field has a class
\* without a value is no matter.  But for a surface at the very height of the highest
\* class.
BetweenClasses ==
  \A s \in Sheets : ism[s] # None /\ Given(s) # {} =>
    \A p \in DOMAIN ism[s].temp : Look(s)[p].topo # topo_mid[Top] =>
      /\ Finite(ism[s].temp[p])
      /\ \E v \in Given(s) : AtMost(v, ism[s].temp[p])
      /\ \E v \in Given(s) : AtMost(ism[s].temp[p], v)

\* However its ice lies among the classes, and whatever part of it the sheets'
\* grids cover, a box is told of no more ice than fills it.
IceWithinBox ==
  atm # None => \A b \in Boxes :
    LET fracs == [k \in {j \in Elevs : Finite(atm.frac[j][b])} |-> atm.frac[k][b]]
    IN  AtMost(Sum(fracs), Q(1)) /\ \A k \in DOMAIN fracs : AtMost(Zero, fracs[k])

\* coupling.py: the climate's fields are blended with the sheet's "using ice
\* coverage fraction as weight": where no sheet's grid comes, they stay.
OthersKept ==
  pc[1] = "done" => \A s \in Sheets :
    LET pair == pairs[s]
    IN  \A c \in Kept(pair.crop) : pair.cover[c][1] = 0 => LET b == InWhole(pair.crop, c) IN
          b \in forcing.land => \A k \in Elevs : atm.snow[k][b] = Q(forcing.nonice_snowdepth[k][b])
===============================================================================
