--------------------------- MODULE MCRegionalMerge ---------------------------
(* Nine kinds of grid box, and ice sheets of three shapes, for TLC. *)
EXTENDS RegionalMerge

\* inner, edge, coast and lowland of Greenland; inner, edge, and the two southern
\* rows of Antarctica, the last of which no orography reaches (yoff_AIS = 1)
MCBoxes == {"inner", "edge", "coast", "untiled", "shelf", "plateau", "south", "pole", "sea"}

MCCover == [GrIS |-> [b \in MCBoxes |-> CASE b \in {"inner", "coast", "untiled"} -> 4
                                          [] b = "edge" -> 2
                                          [] OTHER -> 0],
            AIS |-> [b \in MCBoxes |-> CASE b \in {"plateau", "pole"} -> 4
                                         [] b = "south" -> 2
                                         [] b = "shelf" -> 4
                                         [] OTHER -> 0]]

MCBlock == [GrIS |-> {"inner", "edge", "coast", "untiled", "sea"},
            AIS |-> {"shelf", "plateau", "south"}]

MCCoast == [b \in MCBoxes |-> CASE b \in {"sea", "shelf"} -> 0
                                [] b = "coast" -> 2
                                [] OTHER -> 4]

MCElevated == {"inner", "edge", "coast", "plateau", "south", "pole"}
MCPolar == {"south", "pole"}
MCNewLand == MCBoxes \ {"sea"}

Shape(low, ice1, ice2, raised) ==
  [low |-> low, ice |-> [e \in Elevs |-> IF e = 1 THEN ice1 ELSE ice2], raised |-> raised]

MCShapes == {Shape(1, 2, 0, TRUE), Shape(0, 0, 4, TRUE), Shape(2, 0, 0, FALSE)}
=============================================================================
