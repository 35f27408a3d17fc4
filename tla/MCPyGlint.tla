------------------------------ MODULE MCPyGlint ------------------------------
(* Small instances of PyGlint: six rows of four longitudes and two sheets.      *)
EXTENDS PyGlint

MCLat == [j \in 0..5 |-> 30 * j]
Line(first, step, size) == [first |-> first, step |-> step, size |-> size]
MCXAxis == [s \in {"GrIS", "AIS"} |-> IF s = "GrIS" THEN Line(1, 4, 2) ELSE Line(-3, 3, 3)]
MCYAxis == [s \in {"GrIS", "AIS"} |-> IF s = "GrIS" THEN Line(2, 4, 2) ELSE Line(-2, 3, 2)]

\* Four meridians at right angles, and the rows in circles around the pole.
Radius(fromPole) == 5 * fromPole + 2
OnMeridian(i, r) == CASE i = 0 -> <<r, 0>> [] i = 1 -> <<0, r>> [] i = 2 -> <<-r, 0>> [] i = 3 -> <<0, -r>>
MCDown == [s \in {"GrIS", "AIS"} |-> [b \in 0..23 |->
  OnMeridian(b % 4, Radius(IF s = "AIS" THEN b \div 4 ELSE 5 - (b \div 4)))]]

\* By the square of the distance to the pole.
LatAt(s, p) == LET d == p[1] * p[1] + p[2] * p[2]
                   south == IF d < 3 THEN 0 ELSE IF d < 6 THEN 1 ELSE IF d < 14 THEN 9
                            ELSE IF d < 30 THEN 20 ELSE IF d < 40 THEN 24 ELSE 34
               IN  IF s = "AIS" THEN south ELSE 150 - south
MCUpLat == [s \in {"GrIS", "AIS"} |-> [p \in Points(s) |-> LatAt(s, p)]]

\* The boxes on the two meridians around a point, those nearer the pole and, of a
\* point far out, those of the next row.
Pole(s, i) == IF s = "AIS" THEN i ELSE 20 + i
Next_(s, i) == IF s = "AIS" THEN 4 + i ELSE 16 + i
Triangle(s, p) ==
  LET i == IF p[1] >= 0 THEN 0 ELSE 2
      j == IF p[2] >= 0 THEN 1 ELSE 3
      far == p[1] * p[1] + p[2] * p[2] > 20
  IN  IF far THEN (Next_(s, i) :> 1) @@ (Next_(s, j) :> 1) @@ (Pole(s, j) :> 2)
      ELSE (Pole(s, i) :> 1) @@ (Pole(s, j) :> 2) @@ (Next_(s, i) :> 1)
MCLinear == [s \in {"GrIS", "AIS"} |-> [p \in Points(s) |-> Triangle(s, p)]]

MCElevs == 1..2
MCTopoMid == [k \in 1..2 |-> 4 * k - 2]
MCTopoMax == [k \in 1..3 |-> CASE k = 1 -> 0 [] k = 2 -> 4 [] k = 3 -> 10]
MCBoxArea == [b \in 0..23 |-> 2 + ((b \div 4) % 2)]

\* Ice at both heights, at one, or nowhere near a part of the coast.
OfKind(ice, rock) == [kind \in {"ice", "rock"} |-> IF kind = "ice" THEN ice ELSE rock]
ByTile(f(_, _)) == [k \in 1..2 |-> [b \in 0..23 |-> f(k, b)]]
Full(k, b) == 1
LowOnly(k, b) == IF b \in {4, 17, 21} THEN 0 ELSE IF k = 2 /\ b % 2 = 1 THEN 0 ELSE 1
NoHigh(k, b) == 2 - k
Nil(k, b) == 0
Snowing(k, b) == k + (b % 3)
Melting(k, b) == (b % 4) - 2 * (2 - k)
Deep(k, b) == 12 * (b % 2)
\* Some sea within reach of the points, and all of two rows.
Coasts == (0..23) \ ({3, 6, 18, 23} \union (8..15))
Means_(land, fractions(_, _), smb(_, _), snow(_, _)) ==
  [tiles |-> 27, land |-> [b \in 0..23 |-> IF b \in land THEN 1 ELSE 0],
   fractions |-> OfKind(ByTile(fractions), ByTile(Nil)),
   smb |-> OfKind(ByTile(smb), ByTile(Nil)),
   snow_mass |-> OfKind(ByTile(Full), ByTile(snow)),
   snow_temp |-> OfKind(ByTile(Snowing), ByTile(Nil))]
MCMeans == <<Means_(0..23, Full, Snowing, Deep), Means_(Coasts, LowOnly, Melting, Deep),
             Means_(0..23, Full, Melting, Snowing), Means_(0..23, NoHigh, Snowing, Deep),
             [Means_(0..23, Full, Snowing, Deep) EXCEPT !.tiles = 9]>>

Ice(thk, topo) == [thk |-> thk, topo |-> topo, frac |-> 2]
Bare(topo) == [thk |-> 0, topo |-> topo, frac |-> 0]
Edge(thk, topo) == [thk |-> thk, topo |-> topo, frac |-> 1]
Looks(s) ==
  LET All(v) == [p \in Points(s) |-> v]
      right == {p \in Points(s) : p[1] > 0}
      up == {p \in Points(s) : p[2] > 0}
      Two(S, v, w) == [p \in Points(s) |-> IF p \in S THEN v ELSE w]
  IN  <<All(Ice(9, 5)), Two(right \intersect up, Ice(9, 7), Bare(1)), Two(up, Edge(3, 1), Ice(9, 6)),
        Two(right, Ice(12, 12), Edge(2, 3)), All(Bare(1))>>
MCSurfaces == [s \in {"GrIS", "AIS"} |-> Looks(s)]
MCExcluded == {{}, {"snow_mass"}}
===============================================================================
