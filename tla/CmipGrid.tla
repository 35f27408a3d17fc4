------------------------------ MODULE CmipGrid ------------------------------
(* The grid and the ice of a flattened plot file, in bisicles_cmip7_postproc:
   where its cells lie (cf_utils.py), how they are put on another grid and
   which of them hold grounded and floating ice (flatten.py).

   Cells are those of a transect.  A cell of a plot file has the thickness h of
   its ice and the height b of its bed in metres, the fraction frac of it that
   ice covers and its mask; in data read from it these are counted in quarters,
   so that the middle of two cells is exact.  Outside is a cell without data. *)
EXTENDS Integers, Sequences

GROUNDED_MASK_VAL == 1
FLOATING_MASK_VAL == 2
OPEN_SEA_MASK_VAL == 4
OPEN_LAND_MASK_VAL == 8

Outside == [h |-> 0, b |-> 0, frac |-> 0, mask |-> 0, there |-> FALSE]
HMin == 4  \* h_min: one metre

(* ------------------------------- regridding ------------------------------- *)

\* A point w quarters of the way from cell c to cell d.
Between(c, d, w) ==
    [h |-> (4 - w) * c.h + w * d.h, b |-> (4 - w) * c.b + w * d.b,
     frac |-> (4 - w) * c.frac + w * d.frac, mask |-> (4 - w) * c.mask + w * d.mask,
     there |-> TRUE]

OwnGrid(cells) == [i \in DOMAIN cells |-> Between(cells[i], cells[i], 0)]

\* Every field, the mask too, linearly in between, and nothing beyond the ends:
\* three points between each two cells and one outside.
Interpolated(cells) ==
    <<Outside>> \o [k \in 1..3 * (Len(cells) - 1) |->
        Between(cells[(k + 2) \div 3], cells[(k + 2) \div 3 + 1], 1 + ((k - 1) % 3))]

(* ------------------------- grounded and floating ice ---------------------- *)

\* Faulty variant: ice floats where it is thinner than the sea is deep.
AsHeavyAsWater(c) ==
    LET ice == c.there /\ c.h > HMin
        floating == ice /\ c.b < 0 /\ c.h <= -c.b
    IN CASE floating -> FLOATING_MASK_VAL
         [] ice /\ ~floating -> GROUNDED_MASK_VAL
         [] ~ice /\ c.there /\ c.b < 0 -> OPEN_SEA_MASK_VAL
         [] OTHER -> OPEN_LAND_MASK_VAL

\* Ice of density 918 floats on water of density 1028 if the bed is below the
\* sea and it is no thicker than the water can bear.
compute_flotation_mask(c) ==
    LET ice == c.there /\ c.h > HMin
        floating == ice /\ c.b < 0 /\ 918 * c.h <= -1028 * c.b
    IN CASE floating -> FLOATING_MASK_VAL
         [] ice /\ ~floating -> GROUNDED_MASK_VAL
         [] ~ice /\ c.there /\ c.b < 0 -> OPEN_SEA_MASK_VAL
         [] OTHER -> OPEN_LAND_MASK_VAL

\* numpy's round of a number of quarters: of two as near, the even one.
Rint(q) == LET low == q \div 4
               rest == q % 4
           IN IF rest < 2 \/ (rest = 2 /\ low % 2 = 0) THEN low ELSE low + 1

IceFraction(vars, c) ==
    CASE ~c.there -> 0
      [] c.there /\ "iceFrac" \in vars -> c.frac
      [] OTHER -> IF c.h > HMin THEN 4 ELSE 0

MaskOf(vars, c) == IF "mask" \in vars THEN Rint(c.mask) ELSE compute_flotation_mask(c)

\* sftgrf and sftflf of a cell.
Fractions(vars, c) ==
    [grounded |-> IF MaskOf(vars, c) = GROUNDED_MASK_VAL THEN IceFraction(vars, c) ELSE 0,
     floating |-> IF MaskOf(vars, c) = FLOATING_MASK_VAL THEN IceFraction(vars, c) ELSE 0]

(* ------------------------------- projections ------------------------------ *)

\* Projections known by their number; the origin of the domain is recorded if known.
get_crs_variable_attrs(epsg, origin) ==
    [epsg |-> epsg, origin |-> origin,
     pole |-> CASE epsg = 3031 -> "south" [] epsg = 3413 -> "north" [] OTHER -> "none"]

\* The coupled model's domains have an origin, which is looked up by the number given.
UKESM_GRID_ORIGINS(epsg) ==
    CASE epsg = 3031 -> <<-3072000, -3072000>> [] epsg = 3413 -> <<-654650, -3385950>>
      [] OTHER -> <<>>

add_xy_variables(epsg) == IF epsg = 4326 THEN "degrees" ELSE "m"

\* No projection, no variable for it.
add_crs_variable(epsg, origin) == IF epsg = 0 THEN <<>> ELSE <<get_crs_variable_attrs(epsg, origin)>>

\* Latitudes, by the sign they have, where pyproj is installed and the grid is a
\* projection.
compute_latlon_arrays(epsg, pyproj) ==
    IF pyproj /\ epsg \notin {0, 4326} THEN <<get_crs_variable_attrs(epsg, <<>>).pole>> ELSE <<>>

\* What every output file then holds beside its field: no arrays, no variables.
add_latlon_variables(arrays) ==
    {[name |-> v[1], units |-> v[2], of |-> pole] :
        v \in {<<"lat", "degrees_north">>, <<"lon", "degrees_east">>},
        pole \in {arrays[i] : i \in DOMAIN arrays}}
=============================================================================
