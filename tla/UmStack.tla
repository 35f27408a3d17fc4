-------------------------------- MODULE UmStack --------------------------------
(***************************************************************************)
(* The fields of a climate-model dump as the coupling scripts see them      *)
(* (common_um_to_np.py and common_mule_rss.py).                             *)
(*                                                                         *)
(* A dump is a sequence of two-dimensional fields.  A quantity that has a   *)
(* third dimension (the tile) or a fourth (the snow layer on the tile) is a *)
(* stack of them: the fields that share its stash code, in the order they   *)
(* have in the dump, each with a pseudo-level.  The scripts take the        *)
(* elevated tiles out of such a stack into an array, change the array and   *)
(* put it back; the stack has to come apart and together the same way.      *)
(*                                                                         *)
(* A field is a record of its stash code (by name), its pseudo-level (0 if  *)
(* it has none) and its data, one value for each row of the grid.           *)
(***************************************************************************)
EXTENDS Finite, Sequences, Functions

CONSTANT ny    \* the rows of the climate model's grid

ASSUME RowsAssumption == ny \in Nat \ {0}

Rows == 1..ny

\* land_tile_ids.F90: the identities of the tiles, and of their snow layers.
max_number_elevs == 25
start_tile_id_elev_ice == 901
start_tile_id_elev_rock == 926
start_tile_id_snowlayers == 1000
start_tile_id_elev_ice_snowlayers == start_tile_id_elev_ice * 1000

\* The positions in the dump of the fields of a stash code.
findindex(dump, stash) == {k \in DOMAIN dump : dump[k].stash = stash}

find_pslevs(dump, indices) == [i \in DOMAIN indices |-> dump[indices[i]].pslev]

IsElevated(p) ==
  \/ p >= start_tile_id_elev_ice /\ p < start_tile_id_snowlayers
  \/ p >= start_tile_id_elev_ice_snowlayers

\* Those of elevated tiles, in the order of the dump.
select_elev_indices(dump, indices) == InOrder({k \in indices : IsElevated(dump[k].pslev)})

ElevIndices(dump, stash) == select_elev_indices(dump, findindex(dump, stash))
ElevPslevs(dump, stash) == find_pslevs(dump, ElevIndices(dump, stash))

\* Slices of the stack, and the dump with its slices overwritten: nothing but
\* the data of a field changes (OverwriteData copies its header).
get_data3d(dump, indices) == [i \in DOMAIN indices |-> dump[indices[i]].data]

put_data3d(dump, indices, array) ==
  [k \in DOMAIN dump |->
     IF \E i \in DOMAIN indices : indices[i] = k
     THEN [dump[k] EXCEPT !.data = array[CHOOSE i \in DOMAIN indices : indices[i] = k]]
     ELSE dump[k]]

\* The first field of a stash code: the only one, if it has two dimensions.
um_to_np_2d(dump, stash) == dump[Min(findindex(dump, stash))].data
np_to_um_2d(dump, stash, array) ==
  put_data3d(dump, <<Min(findindex(dump, stash))>>, <<array>>)

um_to_np_3d(dump, stash) == get_data3d(dump, ElevIndices(dump, stash))
np_to_um_3d(dump, stash, array) == put_data3d(dump, ElevIndices(dump, stash), array)

\* Where slice i of a stack of snow layers belongs: its layer is in its
\* pseudo-level, its tile is told by its place in the stack alone.
Layer(p) == p % 1000
LayerCount(pslev) == Max({Layer(pslev[i]) : i \in DOMAIN pslev})
TileCount(pslev) == Len(pslev) \div LayerCount(pslev)

\* Faulty variant: the snow levels of a tile next to each other in the stack.
ByLevel(i, pslev) == (i - 1) \div LayerCount(pslev) + 1
TileIndex(i, pslev) == ((i - 1) % TileCount(pslev)) + 1

um_to_np_4d(dump, stash) ==
  LET pslev == ElevPslevs(dump, stash)
      field3d == um_to_np_3d(dump, stash)
      Slices(t, l) == {i \in DOMAIN pslev : TileIndex(i, pslev) = t /\ Layer(pslev[i]) = l}
  IN [t \in 1..TileCount(pslev) |-> [l \in 1..LayerCount(pslev) |->
        IF Slices(t, l) = {} THEN [y \in Rows |-> 0] ELSE field3d[Max(Slices(t, l))]]]

np_to_um_4d(dump, stash, field4d) ==
  LET pslev == ElevPslevs(dump, stash)
  IN put_data3d(dump, ElevIndices(dump, stash),
       [i \in DOMAIN pslev |-> field4d[TileIndex(i, pslev)][Layer(pslev[i])]])

\* A field of a Glint file, by tile: turned upside down where asked.
ice_to_np(field, ns_flip) ==
  [t \in DOMAIN field |->
     [y \in Rows |-> field[t][IF ns_flip THEN ny + 1 - y ELSE y]]]
===============================================================================
