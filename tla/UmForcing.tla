------------------------------ MODULE UmForcing ------------------------------
(***************************************************************************)
(* The file of forcing for the ice sheets, made from the climate model's    *)
(* annual means (um_to_unicicles.py, in unicicles_coupling_refactor/        *)
(* active/python3).                                                         *)
(*                                                                         *)
(* A field on tiles has a value by tile and box; the tiles by elevation are *)
(* ice or bare rock.  Units are the ice sheet's throughout; temperatures,   *)
(* which go to degrees and back, have none.  The flux of heat goes the way  *)
(* of the temperature and is left out.  Where there is no land a field is   *)
(* masked.  External: the climate model.                                    *)
(***************************************************************************)
EXTENDS Integers

CONSTANTS
  Elevs,        \* classes of elevation, 1 the lowest
  BoxArea,      \* by box: its area, on the sphere
  Means         \* the climate model's annual means: see ForcingAssumption

Kinds == {"ice", "rock"}
TileFields == {"fractions", "smb", "snow_mass", "snow_temp"}

\* The tiles of a run without elevations: ice and rock have one each.
NineTiles(um) == um.tiles = 9

\* Of the snow it is the rock's that is wanted, unless the field is faked: then
\* the field read in its place is the fractions, and they are the ice's.
TilesOf(field, faked) == IF field = "snow_mass" /\ ~faked THEN "rock" ELSE "ice"

\* extract_fields: a field of the file, on one kind of tile; nothing at all if excluded.
Extracted(um, field, exclude) ==
  LET faked == field \in exclude
      kind == TilesOf(field, faked)
  IN  [k \in Elevs |-> [b \in DOMAIN BoxArea |-> IF faked THEN 0 ELSE um[field][kind][k][b]]]

\* calculate_area: of each tile of ice, by the land there is in its box.
TileArea(um, fractions) ==
  [k \in Elevs |-> [b \in DOMAIN BoxArea |-> fractions[k][b] * um.land[b] * BoxArea[b]]]

\* The fields of the file, by the names that change_names gives them.
Forcing(um, exclude, do_snow_shuffling) ==
  LET snow == Extracted(um, "snow_mass", exclude)
  IN  [tile_surface_area |-> TileArea(um, Extracted(um, "fractions", exclude)),
       ice_smb |-> Extracted(um, "smb", exclude),
       nonice_snowdepth |-> IF do_snow_shuffling THEN snow
                            ELSE [k \in Elevs |-> [b \in DOMAIN BoxArea |-> 0]],
       ice_stemp |-> Extracted(um, "snow_temp", exclude),
       land |-> {b \in DOMAIN BoxArea : um.land[b] > 0}]

\* What the climate model may leave: a tile with an area has land under it.
ASSUME ForcingAssumption ==
  /\ \E n \in 2..25 : Elevs = 1..n
  /\ BoxArea \in [DOMAIN BoxArea -> Nat \ {0}]
  /\ \A i \in DOMAIN Means :
       /\ Means[i].tiles \in {9, 27} /\ Means[i].land \in [DOMAIN BoxArea -> Nat]
       /\ \A field \in TileFields : Means[i][field] \in
            [Kinds -> [Elevs -> [DOMAIN BoxArea -> IF field = "fractions" THEN Nat ELSE Int]]]
===============================================================================
