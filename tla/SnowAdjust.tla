------------------------------ MODULE SnowAdjust ------------------------------
(***************************************************************************)
(* adjust_snow: once a year the areas of the ice and the non-ice tile of an *)
(* elevation change, and the ice sheet gives snow to the non-ice tile or    *)
(* takes it (nonice_snowdepth of GLINT).  The snow on the non-ice tile is   *)
(* rearranged for the new area and the new amount, and what the ice sheet   *)
(* is owed is returned as smb_from_nisnow.  The elevations of a grid box    *)
(* are treated alike, one after the other: the module has one.              *)
(*                                                                         *)
(* icetile_tol is taken for zero: areas are zero or well above it.          *)
(* External: JULES, which makes of the pack what the weather wants, but     *)
(* leaves it in layers or as a thin one without; the reset of the ice       *)
(* tile's pack, which makes that the same every year.                       *)
(***************************************************************************)
EXTENDS SnowLayers

CONSTANTS
  Packs,        \* packs JULES may leave on the non-ice tile
  IcePack,      \* the pack on the ice tile
  Fracs,        \* areas of the two tiles, of the grid box
  Anomalies,    \* nonice_snowdepth: depths of ice, over both tiles
  MaxYears      \* bound: years

\* Standard layers but for the last, which is neither thinner than the one above it
\* nor could be divided again.
InLayers(p) ==
  /\ \A n \in 1..(p.nsnow - 1) : p.ds[n] = dzsnow[n]
  /\ AtMost(dzsnow[IF p.nsnow = 1 THEN 1 ELSE p.nsnow - 1], p.ds[p.nsnow])
  /\ p.nsnow < nsmax => AtMost(p.ds[p.nsnow], Times(Q(2), dzsnow[p.nsnow]))
  /\ \A n \in (p.nsnow + 1)..nsmax : p.ds[n] = Zero /\ p.mass[n] = Zero

\* The mass and the depth kept beside the layers are theirs.
Regular(p) == InLayers(p) /\ p.snowdepth = SeqTotal(p.ds) /\ p.snow_tile = SeqTotal(p.mass)

\* What the two tiles can cover.
Areas == [ni : Amounts, ice : Amounts]

\* JULES divides packs as adjust_snow does, from the thickness of the first layer on.
ASSUME SnowAssumption ==
  /\ \A p \in Packs \union {IcePack} :
       /\ p \in Pack
       /\ p.snow_tile \in Amounts /\ p.mass \in [1..nsmax -> Amounts]
       /\ IF p.nsnow = 0 THEN Less(p.snowdepth, dzsnow[1]) ELSE Regular(p)
  /\ IcePack.nsnow > 0 /\ Less(Zero, SeqTotal(IcePack.mass))
  /\ Fracs \subseteq Areas /\ Anomalies \subseteq Rationals

VARIABLES
  year, phase,          \* the year; "season", "coupling": what comes next
  pack,                 \* the pack on the non-ice tile
  frac,                 \* the areas of the non-ice and the ice tile
  nonice_snowdepth,     \* the anomaly the pack was last adjusted for
  smb_from_nisnow       \* what was returned for the ice tile

snowVars == <<year, phase, pack, frac, nonice_snowdepth, smb_from_nisnow>>

AdjustInit ==
  /\ year = 1 /\ phase = "coupling"
  /\ frac \in Fracs /\ pack \in IF frac.ni = Zero THEN {EmptyPack} ELSE Packs
  /\ nonice_snowdepth = Zero /\ smb_from_nisnow = Zero

Grows(old, new)   == Less(old.ni, new.ni)
Shrinks(old, new) == Less(new.ni, old.ni)

\* The pack of a growing tile is spread out; without layers only its mass is.
Spread(p, area_factor) ==
  IF p.nsnow > 0 THEN scale_snowpack(p, area_factor)
  ELSE [p EXCEPT !.snow_tile = Over(@, area_factor)]

Rearranged(p, old, new) ==
  CASE Grows(old, new) /\ old.ni = Zero -> EmptyPack
    [] Grows(old, new) /\ old.ni # Zero -> Spread(p, Over(new.ni, old.ni))
    [] OTHER -> p

\* A faulty variant: by the area of the wrong tile.
OwedPerNonice(p, old, new) ==
  IF Shrinks(old, new) /\ Less(dzsnow[1], p.snow_tile) /\ new.ice # Zero
  THEN Over(Times(p.snow_tile, Minus(old.ni, new.ni)), old.ni) ELSE Zero

\* A shrinking tile keeps its snow per area; the rest is owed to the ice.
Owed(p, old, new) ==
  IF Shrinks(old, new) /\ Less(dzsnow[1], p.snow_tile) /\ new.ice # Zero
  THEN Over(Times(p.snow_tile, Minus(old.ni, new.ni)), new.ice) ELSE Zero

Vanished(p, new) == IF new.ni = Zero THEN [p EXCEPT !.snow_tile = Zero] ELSE p

\* One layer of what has none, for snow to be added to.
OneLayer(p) ==
  [p EXCEPT !.nsnow = 1, !.snowdepth = dzsnow[1],
            !.ds = [NoLayers EXCEPT ![1] = dzsnow[1]],
            !.mass = [NoLayers EXCEPT ![1] = p.snow_tile]]

\* The share of the two tiles' area that the snow falls on.
NoniceShare(new) == Over(new.ni, Plus(new.ni, new.ice))

\* Snow from the ice sheet looks like that on the ice tile.
Give(p, new, anomaly) ==
  LET area_factor == Times(Over(SeqTotal(IcePack.mass), Times(anomaly, glimmer_ice_density)),
                           NoniceShare(new))
  IN add_snowpacks(IF p.nsnow = 0 THEN OneLayer(p) ELSE p,
                   scale_snowpack(IcePack, area_factor))

Clipped(mass) == Larger(mass, Zero)

\* Snow taken by the ice sheet: as much as makes the pack thin, or less.
Take(p, new, anomaly) ==
  LET depth == Over(anomaly, NoniceShare(new))
      mass  == Times(depth, glimmer_ice_density)
      q == [p EXCEPT !.snowdepth = Plus(@, depth), !.snow_tile = Plus(@, mass)]
      thin == \/ Less(q.snowdepth, dzsnow[1])
              \/ Less(q.snow_tile, Times(dzsnow[1], glimmer_ice_density))
  IN IF thin THEN [EmptyPack EXCEPT !.snow_tile = Clipped(Plus(q.snow_tile, mass))]
             ELSE subtract_snowpacks(q, mass)

Altered(p, new, anomaly) ==
  CASE new.ni # Zero /\ Less(dzsnow[1], anomaly) -> Give(p, new, anomaly)
    [] new.ni # Zero /\ Less(anomaly, Minus(Zero, dzsnow[1])) -> Take(p, new, anomaly)
    [] OTHER -> p

\* What is left as it was: the layers' thicknesses, if there are no layers.
Regularised(p) ==
  IF p.nsnow > 0 /\ AtMost(dzsnow[1], p.ds[1])
  THEN LET mass == [n \in 1..nsmax |-> IF n <= p.nsnow THEN p.mass[n] ELSE Zero]
       IN [p EXCEPT !.mass = mass, !.snow_tile = SeqTotal(mass),
                    !.snowdepth = SeqTotal(SubSeq(p.ds, 1, p.nsnow))]
  ELSE [p EXCEPT !.nsnow = 0, !.mass = NoLayers, !.snowdepth = Zero]

\* elsewhere: areas of another elevation of the grid box have changed.
Adjust(new, anomaly, elsewhere) ==
  LET changed == new # frac \/ elsewhere
      p == IF changed THEN Vanished(Rearranged(pack, frac, new), new) ELSE pack
  IN /\ pack' = Regularised(Altered(p, new, anomaly))
     /\ smb_from_nisnow' = IF changed THEN Owed(pack, frac, new) ELSE Zero

adjust_snow ==
  /\ phase = "coupling"
  /\ \E new \in Fracs, anomaly \in Anomalies, elsewhere \in BOOLEAN :
       /\ Adjust(new, anomaly, elsewhere)
       /\ frac' = new /\ nonice_snowdepth' = anomaly
  /\ phase' = "season"
  /\ UNCHANGED year

Season ==
  /\ phase = "season" /\ year < MaxYears
  /\ pack' \in IF frac.ni = Zero THEN {pack} ELSE Packs \cup {pack}
  /\ year' = year + 1 /\ phase' = "coupling"
  /\ UNCHANGED <<frac, nonice_snowdepth, smb_from_nisnow>>

AdjustNext == adjust_snow \/ Season

AdjustSpec == AdjustInit /\ [][AdjustNext]_snowVars

-------------------------------------------------------------------------------
(* Properties *)

IsAmount(q) == AtMost(Zero, q)
SnowTypeOK ==
  /\ year \in 1..MaxYears /\ phase \in {"season", "coupling"}
  /\ frac \in Fracs /\ nonice_snowdepth \in Anomalies \cup {Zero}
  /\ IsAmount(smb_from_nisnow)
  /\ pack.nsnow \in 0..nsmax /\ IsAmount(pack.snow_tile) /\ IsAmount(pack.snowdepth)
  /\ \A n \in 1..nsmax : IsAmount(pack.ds[n]) /\ IsAmount(pack.mass[n])

\* JULES gets packs it could have made itself: in regular layers, and with a mass and
\* a depth that are those of the layers.
LayersRegular ==
  phase = "season" =>
    IF pack.nsnow = 0 THEN pack.snowdepth = Zero ELSE Regular(pack)

\* The mass of snow in the grid box: what the tile keeps, what is owed to the
\* ice and what the ice sheet gave or took account for each other.  Snow of a
\* tile that gave way to no ice tile is lost, and traces are, as the code says.
AreaMass(p, f) == Times(p.snow_tile, f.ni)
Kept(f, g)  == IF Shrinks(f, g) THEN AreaMass(pack, g) ELSE AreaMass(pack, f)
Moved(f, g) == Times(smb_from_nisnow', g.ice)
Given(g, anomaly) ==
  IF g.ni = Zero \/ AtMost(IF Less(anomaly, Zero) THEN Minus(Zero, anomaly) ELSE anomaly,
                           dzsnow[1])
  THEN Zero ELSE Times(Times(anomaly, glimmer_ice_density), Plus(g.ni, g.ice))
Unaccounted(f, g) ==
  Shrinks(f, g) /\ (g.ice = Zero \/ AtMost(pack.snow_tile, dzsnow[1]))
Balanced ==
  ~Unaccounted(frac, frac') =>
    Plus(AreaMass(pack', frac'), Moved(frac, frac'))
      = Plus(Minus(AreaMass(pack, frac), Kept(frac, frac')),
             Larger(Zero, Plus(Kept(frac, frac'), Given(frac', nonice_snowdepth'))))

\* Adjusting keeps the mass of snow in the grid box, of packs that are in layers
\* afterwards, and of those without that had none before and from which nothing
\* is taken.  Of others it does not: a layered pack that gets thin keeps its mass
\* per area whatever area it is spread over, and is charged twice for what is taken.
LayeredBudgetKept ==
  [][phase' = "season"
       /\ (pack'.nsnow > 0 \/ (pack.nsnow = 0 /\ AtMost(Zero, nonice_snowdepth')))
     => Balanced]_snowVars

\* Dividing a pack again moves no snow within it: above every boundary of the
\* new layers there is what was there before, spread over the new area.
ProfileKept ==
  [][phase' = "season" /\ Grows(frac, frac') /\ nonice_snowdepth' = Zero
       /\ pack.nsnow > 0 /\ pack'.nsnow > 0 =>
       LET f == Over(frac'.ni, frac.ni)
           Spreading(q) == [n \in 1..nsmax |-> Over(q[n], f)]
       IN \A k \in 1..pack'.nsnow :
            LET z == SeqTotal(SubSeq(pack'.ds, 1, k)) IN
            SeqTotal(SubSeq(pack'.mass, 1, k))
              = MassAbove(Spreading(pack.ds), Spreading(pack.mass), z)]_snowVars

===============================================================================
