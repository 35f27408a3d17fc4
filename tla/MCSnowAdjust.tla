----------------------------- MODULE MCSnowAdjust -----------------------------
(* Packs, areas and anomalies for model checking SnowAdjust.               *)
EXTENDS SnowAdjust

CONSTANT
  Densities,           \* of the layers of packs
  Thin,                \* masses of those it leaves without, in halves
  Given2, Taken2       \* anomalies, in halves, given to the pack and taken from it

MCdzsnow == <<Q(1), Q(2), Q(4)>>
MCice_density == Q(8)

\* A pack of layers as thick as given, each of a density of its own.
LayeredPack(ds, rho) ==
  LET thick == [n \in 1..nsmax |-> Q(ds[n])]
      mass == [n \in 1..nsmax |-> Q(ds[n] * rho[n])]
  IN [nsnow |-> Cardinality({n \in 1..nsmax : ds[n] > 0}), ds |-> thick, mass |-> mass,
      snow_tile |-> SeqTotal(mass), snowdepth |-> SeqTotal(thick)]

\* Packs that JULES leaves in one, two or three layers.
Layerings == {<<1, 0, 0>>, <<1, 2, 0>>, <<1, 3, 0>>, <<1, 2, 7>>}
MCPacks ==
  {LayeredPack(ds, rho) : ds \in Layerings, rho \in [1..nsmax -> Densities]}
    \cup {[EmptyPack EXCEPT !.snow_tile = Ratio(t, 2)] : t \in Thin}

MCIcePack == LayeredPack(<<1, 2, 5>>, <<4, 4, 4>>)

\* Halves of the grid box.
MCFracs == {[ni |-> Ratio(n, 2), ice |-> Ratio(i, 2)] : n \in 0..2, i \in 0..1} 
             \ {[ni |-> Q(1), ice |-> Ratio(1, 2)]}

MCAnomalies == {Ratio(a, 2) : a \in Given2} \cup {Ratio(-a, 2) : a \in Taken2}
===============================================================================
