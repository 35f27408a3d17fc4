---------------------------- MODULE SnowIceExchange ----------------------------
(***************************************************************************)
(* The exchange of snow and ice between the climate model and an ice sheet: *)
(* GLINT makes ice of deep snow where there is little ice, and snow of ice   *)
(* that is thin, inside an ice call; the changes of the snow, averaged over  *)
(* the cells of a grid box and elevation class, and the area that is ice     *)
(* then, change the pack on the non-ice tile (SnowAdjust).  One grid box,    *)
(* one elevation class; its cells are land (GLIDE_IS_OCEAN and out_mask).    *)
(*                                                                         *)
(* Depths of snow are in metres of ice; the surface mass balance is in       *)
(* metres of water over one time-step of the ice, tinc.                      *)
(* External: the ice model, which adds the mass balance to the thickness and *)
(* leaves none negative; its flow is left out.                               *)
(***************************************************************************)
EXTENDS SnowAdjust, FiniteSets

CONSTANTS
  Cells,                 \* cells of the ice grid in the box and the class
  Thicknesses, Balances, \* of the ice at first; mean mass balances
  Neighbours,            \* depths of snow in the class next to this one
  Nearness,              \* by cell, the weight of this class in interpolation
  depth_snow2ice,        \* deeper snow, on thinner ice, becomes ice
  min_thck,              \* cells with more ice are ice to the climate model
  water_to_ice,          \* rhow / rhoi
  IceSteps               \* n_icetstep: time-steps of the ice in an ice call

ASSUME ExchangeAssumption ==
  /\ IsFiniteSet(Cells) /\ Cells # {} /\ IceSteps \in Nat \ {0}
  /\ Thicknesses \subseteq Amounts /\ Balances \subseteq Rationals /\ Neighbours \subseteq Amounts
  /\ Nearness \in [Cells -> {q \in Amounts : AtMost(q, Q(1))}]
  /\ {min_thck, depth_snow2ice, water_to_ice} \subseteq Rationals
  /\ Less(Zero, min_thck) /\ Less(min_thck, depth_snow2ice) /\ AtMost(Q(1), water_to_ice)

VARIABLES
  step,       \* time-steps the ice call has done; -1: there is no ice call
  thk,        \* the thickness of the ice in each cell
  sdep_l,     \* the depth of snow in each cell, later the change of it
  mbal        \* the mean mass balance of the accumulation, in each cell

iceVars == <<step, thk, sdep_l, mbal>>
allVars == <<snowVars, iceVars>>

Mean(f) == Over(FoldSet(LAMBDA c, sum : Plus(sum, f[c]), Zero, Cells), Q(Cardinality(Cells)))
Nothing == [c \in Cells |-> Zero]

\* get_i_upscaled_fields_gcm: the areas of the two tiles.
TilesOf(thickness) ==
  LET ice == Mean([c \in Cells |-> IF Less(min_thck, thickness[c]) THEN Q(1) ELSE Zero])
  IN [ni |-> Minus(Q(1), ice), ice |-> ice]

\* um_to_unicicles gives the snow on the non-ice tile as a depth of ice, and
\* glint_downscaling_gcm interpolates between this class and the next.
Downscaled(c, next) ==
  Plus(Times(Nearness[c], Over(pack.snow_tile, glimmer_ice_density)),
       Times(Minus(Q(1), Nearness[c]), next))

\* Ablation is masked where there is no ice.
Masked(c) == IF AtMost(thk[c], Zero) /\ Less(mbal[c], Zero) THEN Zero ELSE mbal[c]

\* glint_snow_ice_conversion_gcm
SnowToIce(c) == Less(depth_snow2ice, sdep_l[c]) /\ Less(thk[c], depth_snow2ice)
IceToSnow(c) == ~SnowToIce(c) /\ Less(thk[c], depth_snow2ice)

\* What is added to the mass balance, and what becomes of the snow.
Created(c) == CASE SnowToIce(c) -> sdep_l[c]
                [] IceToSnow(c) -> Minus(Zero, thk[c])
                [] OTHER -> Zero

\* A faulty variant: the depth is left where nothing is converted.
ChangeOrDepth(c) == IF SnowToIce(c) \/ IceToSnow(c) THEN Minus(Zero, Created(c)) ELSE sdep_l[c]
SnowChange(c) == Minus(Zero, Created(c))

StartIceCall ==
  /\ phase = "coupling" /\ step = -1
  /\ step' = 0
  /\ \E next \in Neighbours : sdep_l' = [c \in Cells |-> Downscaled(c, next)]
  /\ \E b \in Balances : mbal' = [c \in Cells |-> b]
  /\ UNCHANGED <<snowVars, thk>>

IceStep ==
  /\ step \in 0..(IceSteps - 1)
  /\ step' = step + 1
  /\ thk' = [c \in Cells |->
               Larger(Zero, Plus(thk[c], Times(water_to_ice, Plus(Masked(c), Created(c)))))]
  /\ sdep_l' = [c \in Cells |-> SnowChange(c)]
  /\ UNCHANGED <<snowVars, mbal>>

\* The ice call is over: its means go to adjust_snow of the next dump.
AdjustDump ==
  /\ step = IceSteps
  /\ \E new \in {TilesOf(thk)}, anomaly \in {Mean(sdep_l)}, elsewhere \in BOOLEAN :
       /\ Adjust(new, anomaly, elsewhere)
       /\ frac' = new /\ nonice_snowdepth' = anomaly
  /\ phase' = "season" /\ step' = -1 /\ sdep_l' = Nothing /\ mbal' = Nothing
  /\ UNCHANGED <<year, thk>>

ExchangeInit ==
  /\ AdjustInit /\ thk \in [Cells -> Thicknesses] /\ frac = TilesOf(thk)
  /\ step = -1 /\ sdep_l = Nothing /\ mbal = Nothing

ExchangeNext == StartIceCall \/ IceStep \/ AdjustDump \/ (Season /\ UNCHANGED iceVars)

ExchangeSpec == ExchangeInit /\ [][ExchangeNext]_allVars

-------------------------------------------------------------------------------
(* Properties *)

\* Mass of the ice, and of the snow including the changes that the ice call has
\* still to hand over: all per area of the class, as ice.
Ice(t)  == Mean(t)
Snow(p, f) == Over(Times(p.snow_tile, f.ni), glimmer_ice_density)
Pending == IF step > 0 THEN Mean(sdep_l) ELSE Zero

\* A time-step of an ice call makes ice and snow together less by no more than
\* the mass balance melts, and more by no more than it adds, up to the tenth by
\* which the snow grows that is taken for water.
StepKeepsMass ==
  LET Surface == Mean([c \in Cells |-> Times(water_to_ice, Masked(c))])
      Excess  == Times(Minus(water_to_ice, Q(1)),
                       Mean([c \in Cells |-> Larger(Created(c), SnowChange(c))]))
      Before == Plus(Ice(thk), Pending)
      After  == Plus(Ice(thk'), Pending')
  IN /\ AtMost(Minus(Plus(Before, Surface), Excess), After)
     /\ AtMost(After, Plus(Plus(Before, Larger(Zero, Surface)), Excess))

\* What the dump loses and gains of it: a change too small to be applied; snow of
\* a shrinking tile too little to be moved, which is its mass compared with a
\* thickness; snow given to a tile that is no longer there; what is taken twice from
\* a pack that gets thin; the snow of a layered pack that gets thin on a larger tile
\* and keeps its mass per area; and snow taken that the tile has not, or has given
\* to the ice already with its area.
Size(q) == Larger(q, Minus(Zero, q))
Unapplied == IF AtMost(Size(Pending), dzsnow[1]) THEN Size(Pending) ELSE Zero
Unmoved ==
  IF Shrinks(frac, frac') /\ AtMost(pack.snow_tile, dzsnow[1])
  THEN Minus(Snow(pack, frac), Snow(pack, frac')) ELSE Zero
NoTile  == IF frac'.ni = Zero THEN Larger(Zero, Pending) ELSE Zero
Thinned == IF pack'.nsnow = 0 THEN Size(Pending) ELSE Zero
Stretched ==
  IF pack.nsnow > 0 /\ pack'.nsnow = 0 /\ Grows(frac, frac') /\ frac.ni # Zero
  THEN Minus(Snow(pack, frac'), Snow(pack, frac)) ELSE Zero
Overdraft ==
  Larger(Zero, Minus(Minus(Zero, Pending), Over(Kept(frac, frac'), glimmer_ice_density)))
DumpKeepsMass ==
  LET Owed2Ice  == Over(Times(smb_from_nisnow', frac'.ice), glimmer_ice_density)
      Before == Plus(Snow(pack, frac), Pending)
      After  == Plus(Snow(pack', frac'), Owed2Ice)
      Lost   == Plus(Plus(Unapplied, Unmoved), Plus(NoTile, Thinned))
      Gained == Plus(Unapplied, Plus(Overdraft, Stretched))
  IN AtMost(Minus(Before, Lost), After) /\ AtMost(After, Plus(Before, Gained))

\* Making and removing ice keeps the mass of snow and ice, in every time-step of
\* an ice call and when the dump is adjusted to it, within these amounts.
ExchangeKeepsMass ==
  [][/\ step \in 0..(IceSteps - 1) /\ step' = step + 1 => StepKeepsMass
     /\ step = IceSteps /\ step' = -1 => DumpKeepsMass]_allVars

===============================================================================
