----------------------------- MODULE MCOceanYear -----------------------------
(* Small instances of OceanYear: four rows of five columns.  Row 0 is           *)
(* Antarctic ground, row 1 its coast, row 2 the ocean, row 3 Greenland's coast. *)
EXTENDS OceanYear

\* By row and column: o for open sea, s for an ice shelf, g for ice on the ground,
\* t for ice on shallow ground, l for land.  The last two columns repeat the first two.
MCMap == << <<"g", "g", "l", "g", "g">>,
            <<"o", "s", "t", "o", "s">>,
            <<"o", "o", "o", "o", "o">>,
            <<"l", "o", "l", "l", "o">> >>
At(c) == MCMap[Row(c) + 1][Col(c) + 1]
Cell(j, i) == j * NI + i

MCTemBathy == [c \in Cells |-> CASE At(c) = "l" -> 0 [] At(c) = "t" -> 3 [] OTHER -> 20]
MCTemIsf == [c \in Cells |-> CASE At(c) = "g" -> 20 [] At(c) = "t" -> 3 [] At(c) = "s" -> 12 [] OTHER -> 0]

MCShelfPoints == {"p1", "p2", "p3", "q", "r"}
MCPointsOf == [c \in Cells |->
  CASE c \in {Cell(1, 1), Cell(1, 4)} -> {"p1", "p2", "p3"}
    [] c \in {Cell(1, 0), Cell(1, 3)} -> {"q"}
    [] c = Cell(1, 2) -> {"r"}
    [] OTHER -> {}]
MCMapped == {c \in Cells : Row(c) < 2}
MCSouth == {c \in Cells : Row(c) = 0}
MCIceLand == {c \in Cells : Row(c) # 2}

MCBathyThreshold == -50

MCMelange == [s \in Sheets |-> IF s = "AIS" THEN {"a1", "a2"} ELSE {"g1"}]
MCHome == [p \in {"a1", "a2", "g1"} |->
  CASE p = "a1" -> Cell(1, 1) [] p = "a2" -> Cell(1, 0) [] OTHER -> Cell(3, 2)]

Point(bed, base) == [bed |-> bed, base |-> base, active |-> TRUE]
Sea == Point(-21, 0)
Cavity == Point(-21, -9)
Ground == Point(-21, -21)
ThinCavity == Point(-21, -18)
HighLand == Point(6, 6)
BelowCounting == Point(-60, -4)
Kinds == {Sea, Cavity, ThinCavity, Ground, HighLand, BelowCounting}

\* Of the three points under the ice shelf two are alike.
Found(p1, others, q, r) == [p \in MCShelfPoints |->
  CASE p = "p1" -> p1 [] p = "q" -> q [] p = "r" -> r [] OTHER -> others]
MCAsFound == {Found(kind, Cavity, Sea, Cavity) : kind \in Kinds}
      \union {Found(kind, Ground, Ground, Ground) : kind \in {Sea, Cavity, Ground}}
      \union {Found(Sea, Sea, HighLand, Sea), Found(BelowCounting, BelowCounting, Cavity, HighLand),
             Found(ThinCavity, ThinCavity, Ground, Ground)}

\* Points under the ice shelf, between it and shallow ground, on the open sea, beyond
\* the ocean's grid, and in Greenland.
MCGrid == [s \in Sheets |-> IF s = "AIS" THEN {"shelf", "edge", "sea", "off"} ELSE {"fjord"}]
MCOutside == {"off"}
MCCorner == [p \in GridPoints |->
  CASE p \in {"shelf", "edge", "off"} -> Cell(1, 1) [] p = "sea" -> Cell(2, 0) [] OTHER -> Cell(3, 1)]
MCOtherCorner == [p \in GridPoints |->
  CASE p = "shelf" -> Cell(1, 1) [] p = "edge" -> Cell(1, 2) [] p = "off" -> Cell(0, 1)
    [] p = "sea" -> Cell(2, 1) [] OTHER -> Cell(2, 1)]
MCWeight == [p \in GridPoints |-> CASE p = "shelf" -> 3 [] p = "edge" -> 1 [] OTHER -> 2]
MCRate == [c \in Cells |-> 5]
MCArea == [c \in Cells |-> 1]
MCHowFar == [p \in GridPoints |-> [c \in Cells |->
  Abs(Row(c) - Row(MCCorner[p])) + Abs(Col(c) - Col(MCCorner[p]))]]
=============================================================================
