------------------------------- MODULE GridPair -------------------------------
(***************************************************************************)
(* The climate's grid and an ice sheet's, and which box of the one each     *)
(* point of the other is in (src/pyglint/transformation.py, and crop_global *)
(* of coupling.py).                                                         *)
(*                                                                         *)
(* The boxes of the climate's grid are numbered row by row, from the south. *)
(* An ice sheet's points are in a plane of its own, on two uniform axes;    *)
(* where the boxes are in that plane, and at which latitude its points are, *)
(* is for the projection to say, which is external.                         *)
(***************************************************************************)
EXTENDS Integers, FiniteSets

CONSTANTS
  NLon, NLat,     \* longitudes and latitudes of the climate's grid
  Lat,            \* by row: its latitude
  XAxis, YAxis,   \* by sheet: the axes of its grid
  Down,           \* by sheet and box: where the box is in the sheet's plane
  UpLat           \* by sheet and point: the latitude of the point

Sheets == {"GrIS", "AIS"}
Rows == 0..NLat - 1
Boxes == 0..NLat * NLon - 1
Axis == [first : Int, step : Nat \ {0}, size : Nat \ {0, 1}]

\* The coordinates on an axis: ascending and uniform, or Uniform2DGrid refuses them.
Coords(axis) == {axis.first + k * axis.step : k \in 0..axis.size - 1}
EndOf(axis) == axis.first + (axis.size - 1) * axis.step
Grid(x, y) == Coords(x) \X Coords(y)
Points(s) == Grid(XAxis[s], YAxis[s])
PointArea(s) == XAxis[s].step * YAxis[s].step

ASSUME GridAssumption ==
  /\ NLon \in Nat \ {0} /\ NLat \in Nat \ {0, 1}
  /\ Lat \in [Rows -> Int] /\ \A j \in Rows : j > 0 => Lat[j - 1] < Lat[j]
  /\ XAxis \in [Sheets -> Axis] /\ YAxis \in [Sheets -> Axis]
  /\ \A s \in Sheets : Down[s] \in [Boxes -> Int \X Int] /\ UpLat[s] \in [Points(s) -> Int]

LeastOf(S) == CHOOSE a \in S : \A b \in S : a <= b
MostOf(S) == CHOOSE a \in S : \A b \in S : a >= b
Abs(n) == IF n < 0 THEN -n ELSE n

-------------------------------------------------------------------------------
(* The rows of the climate's grid that have to do with an ice sheet *)

NearestRow(lat) ==
  LeastOf({j \in Rows : \A k \in Rows : Abs(Lat[j] - lat) <= Abs(Lat[k] - lat)})

\* crop_global: a row's margin, and one more in the south; every longitude.
\* Row ihi is the first that is left out.
Crop(s) ==
  LET lats == {UpLat[s][p] : p \in Points(s)}
      dlat == MostOf({Lat[j] - Lat[j - 1] : j \in Rows \ {0}})
  IN  [ilo |-> MostOf({0, NearestRow(LeastOf(lats) - dlat) - 1}),
       ihi |-> LeastOf({NearestRow(MostOf(lats) + dlat) + 1, NLat})]

\* Box (i, j) of the rows that are kept is number cell_id(i, j) among them, and
\* number InWhole(crop, .) of the whole grid.
cell_id(i, j) == i + NLon * j
Kept(crop) == 0..cell_id(0, crop.ihi - crop.ilo) - 1
InWhole(crop, cell) == cell + cell_id(0, crop.ilo)

-------------------------------------------------------------------------------
(* Points to boxes *)

Distance(a, b) == (a[1] - b[1]) * (a[1] - b[1]) + (a[2] - b[2]) * (a[2] - b[2])

\* NearestNDInterpolator: of the given boxes the one nearest to a place.
NearestBox(s, boxes, place) ==
  CHOOSE a \in boxes : \A b \in boxes : Distance(Down[s][a], place) <= Distance(Down[s][b], place)

\* local_to_global_map, by its default method.
LocalToGlobal(s, crop, points) ==
  LET boxes == {InWhole(crop, cell) : cell \in Kept(crop)}
  IN  [p \in points |-> NearestBox(s, boxes, p) - cell_id(0, crop.ilo)]

\* Steps of an axis to a coordinate that lies beyond its end, and one more;
\* int() rounds towards zero.
StepsBeyond(axis, beyond) ==
  LET steps == IF beyond >= 0 THEN beyond \div axis.step ELSE -((-beyond) \div axis.step)
  IN  MostOf({0, steps + 1})

\* The axis of grown_grid: of the last point np.arange keeps clear.
GrownAxis(axis, places) ==
  LET m == StepsBeyond(axis, axis.first - LeastOf(places))
      n == StepsBeyond(axis, MostOf(places) - EndOf(axis))
  IN  [axis EXCEPT !.first = @ - m * axis.step, !.size = @ + m + n - 1]

grown_grid(s, crop) ==
  LET places == {Down[s][InWhole(crop, cell)] : cell \in Kept(crop)}
  IN  Grid(GrownAxis(XAxis[s], {place[1] : place \in places}),
           GrownAxis(YAxis[s], {place[2] : place \in places}))

bincount(map, cell) == Cardinality({p \in DOMAIN map : map[p] = cell})

\* GlobalLocalGridPair, which atm_to_ism and ism_to_atm each make for themselves;
\* fraction_covered: of the points a box would have if the sheet's grid went on,
\* those that the grid has.
Pair(s) ==
  LET crop == Crop(s)
      map == LocalToGlobal(s, crop, Points(s))
      grown == LocalToGlobal(s, crop, grown_grid(s, crop))
  IN  [crop |-> crop, map |-> map,
       cover |-> [c \in Kept(crop) |-> IF bincount(grown, c) = 0 THEN <<0, 1>>
                                       ELSE <<bincount(map, c), bincount(grown, c)>>]]
PairGrIS == Pair("GrIS")
PairAIS == Pair("AIS")
GridPair(s) == IF s = "GrIS" THEN PairGrIS ELSE PairAIS

\* What the row's margin of the crop is for: the boxes that are kept go on beyond the
\* upper ends of the sheet's axes, so that its grid, grown, has the points it had.
ASSUME ReachAssumption == \A s \in Sheets :
  LET places == {Down[s][InWhole(Crop(s), cell)] : cell \in Kept(Crop(s))}
  IN  /\ \E place \in places : EndOf(XAxis[s]) <= place[1]
      /\ \E place \in places : EndOf(YAxis[s]) <= place[2]
===============================================================================
