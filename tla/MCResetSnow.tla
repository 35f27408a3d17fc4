------------------------------ MODULE MCResetSnow ------------------------------
\* A grid of two rows, two elevations, one tile of vegetation, two snow layers.
EXTENDS ResetSnow, SequencesExt

MCTiles == <<5, 901, 902, 926, 927>>
MCStack(stash) ==
  [i \in 1..5 |-> [stash |-> stash, pslev |-> MCTiles[i]]]
MCLayers(stash) ==
  [i \in 1..10 |-> [stash |-> stash,
                    pslev |-> MCTiles[((i - 1) % 5) + 1] * 1000 + (i - 1) \div 5 + 1]]
MCSingle(stash) == <<[stash |-> stash, pslev |-> 0]>>

MCBlocks ==
  << MCSingle("snow_amount"), MCSingle("vol_smc_sat"), MCStack("frac_surf_type"),
     MCStack("snow_tile"), MCStack("snowdep_grd_tile"), MCStack("snowpack_bk_dens"),
     MCStack("nsnow_layrs_tiles"), MCLayers("snow_laythk_tiles"), MCLayers("snow_ice_tile"),
     MCLayers("snow_laydns_tiles") >>
MCLayouts == {FlattenSeq(MCBlocks), FlattenSeq(Reverse(MCBlocks))}

MCFractions == {(901 :> 1) @@ (902 :> 0) @@ (926 :> 2) @@ (927 :> 0),
                (901 :> 1) @@ (902 :> 1) @@ (926 :> 0) @@ (927 :> 1)}
MCSnowfalls ==
  {(0 :> 0) @@ (5 :> 0) @@ (901 :> 1) @@ (902 :> 0) @@ (926 :> 1) @@ (927 :> 2),
   (0 :> 0) @@ (5 :> 1) @@ (901 :> 0) @@ (902 :> 1) @@ (926 :> 0) @@ (927 :> 0)}

\* The last one melts more than the bottom layer of a tile.
MCMassBalances ==
  {<< <<1, -1>>, <<0, 1>> >>, << <<-1, 0>>, <<1, 2>> >>, << <<1, 1>>, <<0, -2>> >>}
===============================================================================
