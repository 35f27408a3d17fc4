--------------------------- MODULE MCSnowIceExchange ---------------------------
(* A class of three cells, two of which lie on the way to the next class.   *)
EXTENDS SnowIceExchange

MCdzsnow == <<Ratio(1, 2), Q(1), Q(2)>>
MCice_density == Q(2)

\* A pack of layers as thick as given, in halves, of one density.
LayeredPack(ds, rho) ==
  LET thick == [n \in 1..nsmax |-> Ratio(ds[n], 2)]
      mass == [n \in 1..nsmax |-> Ratio(ds[n] * rho, 2)]
  IN [nsnow |-> Cardinality({n \in 1..nsmax : ds[n] > 0}), ds |-> thick, mass |-> mass,
      snow_tile |-> SeqTotal(mass), snowdepth |-> SeqTotal(thick)]

\* A pack without layers, of no more mass than the first layer is thick.
ThinPack == [EmptyPack EXCEPT !.snow_tile = Ratio(1, 2), !.snowdepth = Ratio(1, 4)]

MCPacks == {EmptyPack, ThinPack, LayeredPack(<<2, 0, 0>>, 2), LayeredPack(<<1, 3, 0>>, 2),
            LayeredPack(<<1, 2, 3>>, 2), LayeredPack(<<1, 2, 11>>, 2), LayeredPack(<<1, 2, 21>>, 2)}
MCIcePack == LayeredPack(<<1, 2, 5>>, 2)
MCFracs == {[ni |-> Ratio(n, 3), ice |-> Ratio(3 - n, 3)] : n \in 0..3}
MCNothing == {Zero}

MCCells == 1..3
MCThicknesses == {Zero, Q(3), Q(8)}
MCBalances == {Q(-6), Ratio(-1, 2), Zero, Q(2)}
MCNeighbours == {Zero, Q(14)}
MCNearness == <<Q(1), Q(1), Ratio(1, 2)>>
MCdepth == Q(6)
MCmin_thck == Q(1)
MCwater_to_ice == Ratio(3, 2)
================================================================================
