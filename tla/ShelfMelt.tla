------------------------------ MODULE ShelfMelt ------------------------------
(***************************************************************************)
(* How the melt under the ocean's ice shelves comes to an ice sheet's grid: *)
(* nemo4.2_to_regional_bisicles.py and the scripts for NEMO 3.6, plain,     *)
(* -BMBTOTAL and _NNR (unicicles_coupling_refactor/active/python3).  They   *)
(* differ in the sign the ocean writes, in what stands for no melt, and in  *)
(* what is done where linear interpolation finds none.                      *)
(*                                                                         *)
(* Interpolation is between two cells, with weights in parts of Parts, and  *)
(* a melt on an ice sheet's grid is in those parts; units are the ocean's.  *)
(* The flux of heat goes the same way, with the ocean's sign.               *)
(*                                                                         *)
(* External: the ocean, cf's regridding, and the grid files, whose axes are *)
(* taken to be in the order that a script expects (the scripts for NEMO 3.6 *)
(* swap them and print that this should be checked).                        *)
(***************************************************************************)
EXTENDS ShelfGeometry, Finite

CONSTANTS
  MeltScript,   \* "nemo4.2", "nemo3.6", "BMBTOTAL" or "NNR"
  OceanMasks,   \* the ocean's file has no values where it has no cavity
  Rate,         \* by cell: what a cavity there melts (freezes, if negative)
  Area,         \* by cell: cell_x_length * cell_y_length
  Grid,         \* by ice sheet: the points of its grid
  Outside,      \* those of them that the ocean's grid does not enclose
  Corner, OtherCorner,   \* by point: the cells it lies between
  Weight,       \* by point: the weight of the first
  HowFar      \* by point: how far it is from each cell

Sheets == {"GrIS", "AIS"}
GridPoints == UNION {Grid[s] : s \in Sheets}
Parts == 4

ASSUME MeltAssumption ==
  /\ MeltScript \in {"nemo4.2", "nemo3.6", "BMBTOTAL", "NNR"}
  /\ OceanMasks \in BOOLEAN
  /\ Rate \in [Cells -> Int] /\ Area \in [Cells -> Nat]
  /\ Outside \subseteq GridPoints
  /\ Corner \in [GridPoints -> Cells] /\ OtherCorner \in [GridPoints -> Cells]
  /\ Weight \in [GridPoints -> 0..Parts]
  /\ HowFar \in [GridPoints -> [Cells -> Nat]]

-------------------------------------------------------------------------------
(* The ocean's file *)

\* Water under ice.
Cavities(draft) == {c \in Cells : draft[c] > 0 /\ draft[c] < TemBathy[c]}

\* What is under a mask is the fill value of the file.
Under == PFlag

\* A masked array: melting is positive for NEMO 4.2 and negative for NEMO 3.6.
OceanMelt(draft) ==
  LET none == Cells \ Cavities(draft)
      written == IF MeltScript = "nemo4.2" THEN 1 ELSE -1
  IN  [data |-> [c \in Cells |-> CASE c \notin none -> written * Rate[c]
                                   [] c \in none /\ OceanMasks -> Under
                                   [] OTHER -> 0],
       mask |-> IF OceanMasks THEN none ELSE {}]

-------------------------------------------------------------------------------
(* The regridding *)

\* A point has a value if both its cells have one.
HasValue(field, p) == p \notin Outside /\ {Corner[p], OtherCorner[p]} \cap field.mask = {}

\* method='linear', with 0 filled in where there is no value.
Linear(field, p) ==
  IF HasValue(field, p)
  THEN Weight[p] * field.data[Corner[p]] + (Parts - Weight[p]) * field.data[OtherCorner[p]]
  ELSE 0

\* method='nearest_stod': the nearest cell that has a value.
NearestValue(field, p) ==
  LET valued == Cells \ field.mask
      nearest == {c \in valued : \A d \in valued : HowFar[p][c] <= HowFar[p][d]}
  IN  Parts * IF valued = {} THEN Under ELSE field.data[Min(nearest)]

\* Faulty variant: the mask is left on, and spreads over the edges of the cavities.
KeepMask(field) == field

\* "replace mask with 0s if it exists"
Filled(field) ==
  [data |-> [c \in Cells |-> IF c \in field.mask THEN 0 ELSE field.data[c]], mask |-> {}]

\* masked_equal(melt_water, 0.)
ZerosMasked(field) == [field EXCEPT !.mask = @ \union {c \in Cells : field.data[c] = 0}]

\* nemo4.2_to_regional_bisicles: the ice sheet's sign is the other one.
MeltNemo42(field, p) == -Linear(Filled(field), p)

\* nemo3.6_to_regional_bisicles, with and without the total.
MeltNemo36(field, p) == Linear(Filled(field), p)

\* nemo3.6_to_regional_bisicles_NNR: out to the grounding line with the nearest melt.
MeltNNR(field, p) ==
  LET linear == Linear(ZerosMasked(field), p)
  IN  IF linear = 0 THEN NearestValue(ZerosMasked(field), p) ELSE linear

RegriddedMelt(field, p) ==
  CASE MeltScript = "nemo4.2" -> MeltNemo42(field, p)
    [] MeltScript = "NNR" -> MeltNNR(field, p)
    [] OTHER -> MeltNemo36(field, p)

\* Two of the scripts set the fill value of what regridding gives without a look
\* whether it is a masked array: they stop with an error if every point has a value.
FillValueTaken(field, s) ==
  /\ MeltScript = "nemo3.6" => \E p \in Grid[s] : ~HasValue(Filled(field), p)
  /\ MeltScript = "NNR" => \E p \in Grid[s] : ~HasValue(ZerosMasked(field), p)

\* nemo_bmbtotal: over the whole of the ocean's array, for the driver to conserve.
nemo_bmbtotal(field) == Total([c \in Cells |-> Filled(field).data[c] * Area[c]], Cells)

-------------------------------------------------------------------------------
(* What a melt is to be *)

\* The cells a point's melt may come from: for the script that takes the nearest
\* instead of none, any with melt.
Reach(draft, p) ==
  CASE MeltScript = "NNR" -> {c \in Cavities(draft) : Rate[c] # 0}
    [] MeltScript # "NNR" /\ p \in Outside -> {}
    [] OTHER -> {c \in Cavities(draft) : \/ (c = Corner[p] /\ Weight[p] > 0)
                                        \/ (c = OtherCorner[p] /\ Weight[p] < Parts)}

\* A point melts, which is negative for the ice sheet, if the cavities it lies among
\* do, does not if it lies among none, and never more than one of them.
IsMeltOf(reach, melt) ==
  /\ reach # {} /\ (\A c \in reach : Rate[c] > 0) => melt < 0
  /\ reach # {} /\ (\A c \in reach : Rate[c] < 0) => melt > 0
  /\ reach # {} => \E c \in reach : Abs(melt) <= Parts * Abs(Rate[c])
  /\ reach = {} /\ MeltScript # "NNR" => melt = 0
=============================================================================
