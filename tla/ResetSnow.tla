------------------------------- MODULE ResetSnow -------------------------------
(***************************************************************************)
(* The climate model with elevated ice tiles and no ice-sheet model         *)
(* (um_reset_icesnowpack_no_icesheet_coupling.py, the suite's task          *)
(* ice_sheets_to_atmos_RESETSNOW).                                          *)
(*                                                                         *)
(* Once a year reset_icetile_snowpack takes the year's mass balance out of  *)
(* the packs on the ice tiles, so that the mass balance can be diagnosed    *)
(* for ever from packs of a standard depth.  UmUpdate has the same routine  *)
(* as one number; here are the fields it goes through, on which tiles and   *)
(* rows it may act, and the order the dump has them in.                     *)
(*                                                                         *)
(* A depth is counted as the mass of that much ice (times rho_ice_glimmer), *)
(* a density is the pair of the mass and the depth it is the quotient of.   *)
(*                                                                         *)
(* External: the climate model, and the suite.                              *)
(***************************************************************************)
EXTENDS UmStack

CONSTANTS
  Layouts,           \* dumps without data: sequences of a stash code and a pseudo-level
  nelev,             \* elevations the tiles stand for
  nsmax,             \* snow layers on a tile
  Fractions,         \* what the tile fractions of an ice row may be, by tile
  MassBalances,      \* what a year's mass balance may be, by elevation and row
  Snowfalls,         \* what may fall, by tile, where that is not the ice's
  coupling_period,
  LayerMass,         \* the mass, and the depth, of every layer of a standard pack
  LayerDepth,
  Years, MaxAttempts \* bounds

IceTiles == start_tile_id_elev_ice .. (start_tile_id_elev_ice + nelev - 1)
RockTiles == start_tile_id_elev_rock .. (start_tile_id_elev_rock + nelev - 1)
ElevTiles == IceTiles \cup RockTiles
TileTotals == {"snow_tile", "snowdep_grd_tile", "snowpack_bk_dens"}
OnLayers == {"snow_ice_tile", "snow_laythk_tiles", "snow_laydns_tiles"}
OnTiles == TileTotals \cup {"nsnow_layrs_tiles", "frac_surf_type"}
TileOf(f) == IF f.stash \in OnLayers THEN f.pslev \div 1000 ELSE f.pslev

TilesIn(layout) == {TileOf(layout[k]) : k \in DOMAIN layout}

\* The pseudo-level of place i in a stack of elevated tiles.
TileAt(i) ==
  IF i <= nelev THEN start_tile_id_elev_ice + i - 1 ELSE start_tile_id_elev_rock + i - nelev - 1
LayerAt(i) == ((i - 1) \div (2 * nelev)) + 1
PslevAt(stash, i) ==
  IF stash \in OnTiles THEN TileAt(i)
  ELSE 1000 * TileAt(((i - 1) % (2 * nelev)) + 1) + LayerAt(i)
Places(stash) == 1..(2 * nelev * (IF stash \in OnTiles THEN 1 ELSE nsmax))

\* The stacks of a dump have the elevated tiles in order, ice before rock, and
\* the tile varies fastest: all tiles of the first layer, then of the second.
ResetAssumption ==
  /\ nelev \in 1..(max_number_elevs - 1) /\ nsmax \in 1..999
  /\ Years \in Nat \ {0} /\ MaxAttempts \in Nat \ {0}
  /\ \A smb \in MassBalances : smb \in [1..nelev -> [Rows -> Int]]
  /\ \A fracs \in Fractions : fracs \in [ElevTiles -> Int]
  /\ coupling_period \in Nat \ {0}
  /\ LayerMass \in Nat \ {0} /\ LayerDepth \in Nat \ {0}
  /\ \A layout \in Layouts :
       /\ layout \in Seq([stash : STRING, pslev : Nat])
       /\ \A stash \in {"snow_amount", "vol_smc_sat"} : findindex(layout, stash) # {}
       /\ \A stash \in OnLayers \cup OnTiles :
            ElevPslevs(layout, stash) = [i \in Places(stash) |-> PslevAt(stash, i)]
       /\ \A w \in Snowfalls : \A p \in TilesIn(layout) : w[p] \in Int
ASSUME ResetAssumption

VARIABLES
  year, attempt, pc,
  um_input, um_output,   \* the dumps of the climate model, and for it
  toice_input,           \* ice_smb, by tile and row
  um_dump,               \* the task's memory: the dump
  np                     \* and its arrays

suiteVars == <<year, attempt, toice_input>>
vars == <<suiteVars, pc, um_input, um_output, um_dump, np>>

NoDump == <<>>
NoArrays == [is |-> "nothing"]

IsIce(dump, y) == um_to_np_2d(dump, "vol_smc_sat")[y] = 0

\* A dump of the climate model: packs that have gained so much since they were
\* standard, the snow of the year in the bottom layer and in the tile's totals.
ValueOf(f, y, ice, fracs, gain) ==
  LET p == TileOf(f)
      mass == nsmax * LayerMass + gain[p][y]
      depth == nsmax * LayerDepth + gain[p][y]
      bottom == IF Layer(f.pslev) = nsmax THEN gain[p][y] ELSE 0
  IN CASE f.stash = "vol_smc_sat" -> IF y \in ice THEN 0 ELSE 1
       [] f.stash = "snow_amount" ->
            IF y \in ice
            THEN Total([t \in ElevTiles |-> fracs[t] * (nsmax * LayerMass + gain[t][y])], ElevTiles)
            ELSE 0
       [] f.stash = "frac_surf_type" -> IF p \in ElevTiles /\ y \in ice THEN fracs[p] ELSE 0
       [] f.stash = "nsnow_layrs_tiles" ->
            IF LayerMass + gain[p][y] > 0 /\ LayerDepth + gain[p][y] > 0 THEN nsmax ELSE nsmax - 1
       [] f.stash = "snow_tile" -> mass
       [] f.stash = "snowdep_grd_tile" -> depth
       [] f.stash = "snowpack_bk_dens" -> <<mass, depth>>
       [] f.stash = "snow_ice_tile" -> LayerMass + bottom
       [] f.stash = "snow_laythk_tiles" -> LayerDepth + bottom
       [] f.stash = "snow_laydns_tiles" -> <<LayerMass + bottom, LayerDepth + bottom>>

DumpOf(layout, ice, fracs, gain) ==
  [k \in DOMAIN layout |->
     [stash |-> layout[k].stash, pslev |-> layout[k].pslev,
      data |-> [y \in Rows |-> ValueOf(layout[k], y, ice, fracs, gain)]]]

Init ==
  /\ year = 0 /\ attempt = 0 /\ pc = "done"
  /\ um_input = NoDump /\ um_dump = NoDump /\ np = NoArrays
  /\ toice_input = <<>>
  /\ \E layout \in Layouts, ice \in (SUBSET Rows) \ {{}}, fracs \in Fractions :
       um_output = DumpOf(layout, ice, fracs, [p \in TilesIn(layout) |-> [y \in Rows |-> 0]])

\* What a pack has gained since it was standard.
Gain(dump, p, y) ==
  LET At(stash) == {k \in DOMAIN dump : dump[k].stash = stash /\ dump[k].pslev = p}
  IN IF At("snow_tile") = {} THEN 0
     ELSE dump[CHOOSE k \in At("snow_tile") : TRUE].data[y] - nsmax * LayerMass

\* The mass balance of an ice tile is what its pack gains or loses in a year,
\* and is written to the file for the ice sheet, for every row.  It snows on
\* the other tiles and rows too.
ClimateYear ==
  /\ pc = "done" /\ year < Years
  /\ year' = year + 1 /\ attempt' = 0 /\ pc' = "idle"
  /\ \E smb \in MassBalances, w \in Snowfalls :
       LET ice == {y \in Rows : IsIce(um_output, y)}
           y0 == CHOOSE y \in ice : TRUE
           frac == um_to_np_3d(um_output, "frac_surf_type")
           tiles == ElevPslevs(um_output, "frac_surf_type")
           fracs == [p \in ElevTiles |->
                       frac[CHOOSE i \in DOMAIN tiles : tiles[i] = p][y0]]
           gain == [p \in TilesIn(um_output) |-> [y \in Rows |->
                      Gain(um_output, p, y)
                      + IF p \in IceTiles /\ y \in ice
                        THEN smb[p - start_tile_id_elev_ice + 1][y] * coupling_period
                        ELSE w[p]]]
       IN /\ toice_input' = smb
          /\ um_input' = DumpOf(um_output, ice, fracs, gain)
  /\ UNCHANGED <<um_output, um_dump, np>>

Submit ==
  /\ pc = "idle" /\ attempt < MaxAttempts
  /\ attempt' = attempt + 1 /\ pc' = "load"
  /\ UNCHANGED <<year, toice_input, um_input, um_output, um_dump, np>>

\* The copy of the dump has its fields taken out and put back one by one.
Load ==
  /\ pc = "load" /\ pc' = "read"
  /\ um_dump' = um_input
  /\ UNCHANGED <<suiteVars, um_input, um_output, np>>

\* The number of elevations, from the highest tile there is.
Elevs(pslev) == Max(Range(pslev)) % max_number_elevs

\* Faulty variants: the file turned as the ice sheet's own output is; the mass
\* balance left as the rate it is written as.
SmbFlipped(field) ==
  LET smb == ice_to_np(field, TRUE)
  IN [t \in DOMAIN smb |-> [y \in Rows |-> smb[t][y] * coupling_period]]
SmbIce(field) ==
  LET smb == ice_to_np(field, FALSE)
  IN [t \in DOMAIN smb |-> [y \in Rows |-> smb[t][y] * coupling_period]]

\* The arrays of the reset, and a pack with fewer than nsmax layers on a tile
\* and row of ice: the task ends.
ReadArrays ==
  /\ pc = "read"
  /\ LET nsnice == um_to_np_3d(um_dump, "nsnow_layrs_tiles")
         pslev == ElevPslevs(um_dump, "nsnow_layrs_tiles")
         n == Elevs(pslev)
         ice == {y \in Rows : IsIce(um_dump, y)}
     IN IF \E t \in 1..n, y \in ice : nsnice[t][y] < nsmax
        THEN pc' = "failed" /\ UNCHANGED np
        ELSE /\ pc' = "layers"
             /\ np' = [is |-> "arrays", n |-> n, nt |-> Len(pslev), ice |-> ice,
                       smb |-> SmbIce(toice_input),
                       frac |-> um_to_np_3d(um_dump, "frac_surf_type"),
                       gbm |-> um_to_np_2d(um_dump, "snow_amount"),
                       mass |-> um_to_np_3d(um_dump, "snow_tile"),
                       dep |-> um_to_np_3d(um_dump, "snowdep_grd_tile"),
                       rho |-> um_to_np_3d(um_dump, "snowpack_bk_dens"),
                       layer_mass |-> um_to_np_4d(um_dump, "snow_ice_tile"),
                       layer_dep |-> um_to_np_4d(um_dump, "snow_laythk_tiles"),
                       layer_den |-> um_to_np_4d(um_dump, "snow_laydns_tiles")]
  /\ UNCHANGED <<suiteVars, um_input, um_output, um_dump>>

\* An array over tiles and rows, less the mass balance on the ice.
InMask(t, y) == t \in 1..np.n /\ y \in np.ice
LessSmb(a) ==
  [t \in DOMAIN a |-> [y \in Rows |-> IF InMask(t, y) THEN a[t][y] - np.smb[t][y] ELSE a[t][y]]]
LayerDensity(a, m, d) ==
  [t \in DOMAIN a |-> [y \in Rows |-> IF InMask(t, y) THEN <<m[t][y], d[t][y]>> ELSE a[t][y]]]

\* The bottom layer of an array over tiles, layers and rows, and the array with
\* another one.
Bottom(a) == [t \in DOMAIN a |-> a[t][nsmax]]
WithBottom(a, b) == [t \in DOMAIN a |-> [a[t] EXCEPT ![nsmax] = b[t]]]

ResetLayers ==
  /\ pc = "layers" /\ pc' = "tiles"
  /\ LET m == LessSmb(Bottom(np.layer_mass))
         d == LessSmb(Bottom(np.layer_dep))
     IN np' = [np EXCEPT !.layer_mass = WithBottom(@, m), !.layer_dep = WithBottom(@, d),
                         !.layer_den = WithBottom(@, LayerDensity(Bottom(@), m, d))]
  /\ UNCHANGED <<suiteVars, um_input, um_output, um_dump>>

ResetTiles ==
  /\ pc = "tiles" /\ pc' = "mean"
  /\ LET m == LessSmb(np.mass)
         d == LessSmb(np.dep)
     IN np' = [np EXCEPT !.mass = m, !.dep = d, !.rho = LayerDensity(@, m, d)]
  /\ UNCHANGED <<suiteVars, um_input, um_output, um_dump>>

\* Faulty variant: the mean of the ice tiles, as icemask_3d would have it.
OnIceAlone(y) == Total([t \in 1..np.n |-> np.mass[t][y] * np.frac[t][y]], 1..np.n)
\* The mean over the row, of snow on ice and on rock.
GridboxMean(y) == Total([t \in 1..np.nt |-> np.mass[t][y] * np.frac[t][y]], 1..np.nt)

ResetMean ==
  /\ pc = "mean" /\ pc' = "store"
  /\ np' = [np EXCEPT !.gbm = [y \in Rows |-> IF y \in np.ice THEN GridboxMean(y) ELSE @[y]]]
  /\ UNCHANGED <<suiteVars, um_input, um_output, um_dump>>

Store ==
  /\ pc = "store" /\ pc' = "open"
  /\ LET d1 == np_to_um_2d(um_dump, "snow_amount", np.gbm)
         d2 == np_to_um_3d(d1, "snow_tile", np.mass)
         d3 == np_to_um_3d(d2, "snowdep_grd_tile", np.dep)
         d4 == np_to_um_3d(d3, "snowpack_bk_dens", np.rho)
         d5 == np_to_um_4d(d4, "snow_ice_tile", np.layer_mass)
         d6 == np_to_um_4d(d5, "snow_laythk_tiles", np.layer_dep)
     IN um_dump' = np_to_um_4d(d6, "snow_laydns_tiles", np.layer_den)
  /\ UNCHANGED <<suiteVars, um_input, um_output, np>>

\* to_file empties the file it writes to before it fills it.
OpenOutput ==
  /\ pc = "open" /\ pc' = "fill" /\ um_output' = NoDump
  /\ UNCHANGED <<suiteVars, um_input, um_dump, np>>

FillOutput ==
  /\ pc = "fill" /\ pc' = "done" /\ um_output' = um_dump
  /\ um_dump' = NoDump /\ np' = NoArrays
  /\ UNCHANGED <<suiteVars, um_input>>

\* A task stopped by the batch system, its memory gone.
Interrupt ==
  /\ pc \notin {"idle", "done", "failed"} /\ pc' = "idle"
  /\ um_dump' = NoDump /\ np' = NoArrays
  /\ UNCHANGED <<suiteVars, um_input, um_output>>

Task == Load \/ ReadArrays \/ ResetLayers \/ ResetTiles \/ ResetMean \/ Store
          \/ OpenOutput \/ FillOutput
Next == ClimateYear \/ Submit \/ Task \/ Interrupt
Spec == Init /\ [][Next]_vars

-------------------------------------------------------------------------------
(* Properties *)

Updated == pc = "done" /\ year > 0

\* Whatever the year brought, the update leaves the dump as it was but for the
\* snow on the ice tiles in the rows of ice and those rows' mean: the rock tiles,
\* the vegetated tiles, the rows without ice and every field that holds something
\* else go on as the climate model left them, in the order it left them.
OnlySnowOnIce ==
  Updated =>
    /\ DOMAIN um_output = DOMAIN um_input
    /\ \A k \in DOMAIN um_input :
         /\ um_output[k].stash = um_input[k].stash /\ um_output[k].pslev = um_input[k].pslev
         /\ \A y \in Rows : um_output[k].data[y] # um_input[k].data[y] =>
              /\ IsIce(um_input, y)
              /\ \/ um_input[k].stash = "snow_amount"
                 \/ um_input[k].stash \in TileTotals \cup OnLayers /\ TileOf(um_input[k]) \in IceTiles

\* Year after year, and whatever attempts were interrupted, the pack on every ice
\* tile is the standard one again: the mass, depth and density of each layer and
\* of the tile, all of one pack.
StandardPack ==
  Updated => \A k \in DOMAIN um_output, y \in Rows :
    LET f == um_output[k] IN
    IsIce(um_output, y) /\ TileOf(f) \in IceTiles /\ f.stash \in TileTotals \cup OnLayers =>
      f.data[y] = ValueOf(f, y, {}, <<>>, [p \in {TileOf(f)} |-> [x \in Rows |-> 0]])

\* The row's mean is that of the snow on its tiles as they are in the dump, ice
\* and rock.
MeanOfItsTiles ==
  Updated => \A y \in Rows : IsIce(um_output, y) =>
    LET Of(stash, p) == CHOOSE v \in {um_output[k].data[y] : k \in
                                        {j \in DOMAIN um_output : /\ um_output[j].stash = stash
                                                                  /\ um_output[j].pslev = p}} : TRUE
    IN um_to_np_2d(um_output, "snow_amount")[y] =
         Total([p \in ElevTiles |-> Of("snow_tile", p) * Of("frac_surf_type", p)], ElevTiles)
===============================================================================
