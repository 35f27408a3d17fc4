------------------------------ MODULE SnowLayers ------------------------------
(***************************************************************************)
(* Layered snowpacks of JULES as the coupling changes them once a year      *)
(* (unicicles_coupling_refactor/active/fortran/adjust_snow): packs are       *)
(* spread over a larger tile, added to each other, or thinned from below,   *)
(* and divided again into layers of the standard thicknesses.               *)
(*                                                                         *)
(* sice and sliq always move together, by the same weights: a layer has one *)
(* mass.  Temperature and grain size follow those weights too and are left  *)
(* out, but for the divisions by a layer's mass.                            *)
(***************************************************************************)
EXTENDS Ratios

CONSTANTS
  dzsnow,               \* standard thickness of each layer, the top one first
  glimmer_ice_density

ASSUME LayerAssumption ==
  /\ dzsnow \in Seq(Rationals) \ {<<>>} /\ \A n \in 1..Len(dzsnow) : Less(Zero, dzsnow[n])
  /\ glimmer_ice_density \in Rationals /\ Less(Zero, glimmer_ice_density)

nsmax == Len(dzsnow)
NoLayers == [n \in 1..nsmax |-> Zero]

\* A pack: the number of its layers, their thicknesses and masses, and its mass
\* and depth as a whole, which the code keeps beside them.
Pack == [nsnow : 0..nsmax, ds : [1..nsmax -> Rationals], mass : [1..nsmax -> Rationals],
         snow_tile : Rationals, snowdepth : Rationals]
EmptyPack == [nsnow |-> 0, ds |-> NoLayers, mass |-> NoLayers,
              snow_tile |-> Zero, snowdepth |-> Zero]

Above(n) == SeqTotal(SubSeq(dzsnow, 1, n))

\* Faulty variants: the next layer's thickness decides, the last is not special.
NextLayerCount(depth) ==
  Min({n \in 1..nsmax : n = nsmax \/ AtMost(Minus(depth, Above(n)), dzsnow[n + 1])})

\* A layer is the last when what remains below it is no thicker than itself.
LayerCount(depth) ==
  Min({n \in 1..nsmax : n = nsmax \/ AtMost(Minus(depth, Above(n)), dzsnow[n])})

\* The last layer takes what remains, which in a thin pack is negative.
Divided(depth) ==
  LET last == LayerCount(depth) IN
  [n \in 1..nsmax |-> CASE n < last -> dzsnow[n]
                        [] n = last -> Minus(depth, Above(last - 1))
                        [] OTHER -> Zero]

KeepRoom(room, left) == room
RoomLeft(room, left) == Minus(room, left)

\* One old layer, of thickness d and mass m, is poured into new layer n: a holds
\* what is left of it, the first new layer with room, and the new layers.
PourInto(d, m, a, n) ==
  IF a.done \/ n < a.iznew THEN a
  ELSE IF Less(a.room[n], a.left)
  THEN [a EXCEPT !.left = Minus(@, a.room[n]), !.iznew = n + 1,
                 !.mass[n] = Plus(@, Over(Times(m, a.room[n]), d))]
  ELSE [a EXCEPT !.done = TRUE, !.room[n] = RoomLeft(@, a.left),
                 !.mass[n] = IF d = Zero THEN @ ELSE Plus(@, Over(Times(m, a.left), d))]

\* The properties of the old layers, from the top, go to the new ones.
Relayer(d0, s) ==
  LET ds == Divided(SeqTotal(d0))
      Layers == [n \in 1..LayerCount(SeqTotal(d0)) |-> n]
      Pour(a, old) == FoldLeft(LAMBDA b, n : PourInto(d0[old], s[old], b, n),
                               [a EXCEPT !.left = d0[old], !.done = FALSE], Layers)
  IN FoldLeft(Pour,
       [left |-> Zero, done |-> FALSE, iznew |-> 1, room |-> ds, mass |-> NoLayers],
       [n \in 1..nsmax |-> n]).mass

\* A pack with the given layers; its mass as a whole is left as it was.
WithLayers(pack, d0, s) ==
  [pack EXCEPT !.ds = Divided(SeqTotal(d0)), !.nsnow = LayerCount(SeqTotal(d0)),
               !.mass = Relayer(d0, s), !.snowdepth = SeqTotal(d0)]

\* scale_snowpack: the pack on an area area_factor times as large.
scale_snowpack(pack, area_factor) ==
  WithLayers(pack, [n \in 1..nsmax |-> Over(pack.ds[n], area_factor)],
    [n \in 1..nsmax |-> IF n <= pack.nsnow THEN Over(pack.mass[n], area_factor) ELSE Zero])

\* add_snowpacks
add_snowpacks(pack, in) ==
  WithLayers(pack, [n \in 1..nsmax |-> Plus(pack.ds[n], in.ds[n])],
                   [n \in 1..nsmax |-> Plus(pack.mass[n], in.mass[n])])

\* Mass comes off from the lowest layer up until some layer has mass left.
TakeOff(ds, a, n) ==
  IF a.done THEN a
  ELSE IF Less(Zero, Plus(a.mass[n], a.remains)) /\ Less(Zero, ds[n])
  THEN [a EXCEPT !.done = TRUE, !.mass[n] = Plus(@, a.remains)]
  ELSE [a EXCEPT !.mass[n] = Zero, !.remains = Plus(@, a.mass[n])]

\* subtract_snowpacks: sice0, which is negative, comes off as ice.  Below the
\* old layers the masses are not set here: adjust_snow clears them.
subtract_snowpacks(pack, sice0) ==
  LET nold  == pack.nsnow
      depth == Plus(SeqTotal(SubSeq(pack.ds, 1, nold)), Over(sice0, glimmer_ice_density))
      ds    == Divided(depth)
      s     == [pack.mass EXCEPT ![nold] = Plus(@, sice0)]
      left  == FoldLeft(LAMBDA a, n : TakeOff(ds, a, n),
                 [done |-> FALSE, remains |-> Zero, mass |-> s],
                 [k \in 1..nold |-> nold + 1 - k])
  IN [pack EXCEPT !.ds = ds, !.nsnow = LayerCount(depth), !.mass = left.mass,
                  !.snowdepth = depth]

\* The mass of a pack above depth z, if each layer is of one density.
MassAbove(ds, mass, z) ==
  LET Top(n) == SeqTotal(SubSeq(ds, 1, n - 1))
      Share(n) == CASE AtMost(Plus(Top(n), ds[n]), z) -> mass[n]
                    [] AtMost(z, Top(n)) -> Zero
                    [] OTHER -> Over(Times(mass[n], Minus(z, Top(n))), ds[n])
  IN SeqTotal([n \in 1..nsmax |-> Share(n)])
===============================================================================
