---------------------------- MODULE ShelfGeometry ----------------------------
(***************************************************************************)
(* What the ocean is told of the Antarctic ice sheet once a year: the depth *)
(* of the ice above each of its cells (bisicles_global_to_nemo.py and its   *)
(* -ACTIVEMASK sibling, in unicicles_coupling_refactor/active/python3), and *)
(* the routing of icebergs off the land, worked out once for all from the   *)
(* ocean's first mask (utility/python3/create_iceberg_routfile.py).         *)
(*                                                                         *)
(* The ocean's cells are a grid of NJ by NI, whose last two columns repeat  *)
(* the first two if it has a halo.  Depths are counted down from the sea    *)
(* surface, the ice sheet's heights up, both in parts of THRESH.            *)
(***************************************************************************)
EXTENDS Integers, FiniteSets, FiniteSetsExt

CONSTANTS
  NJ, NI,        \* the ocean's grid
  TemBathy,      \* by cell: the bathymetry of the template, which stays
  TemIsf,        \* by cell: its ice draft
  ShelfPoints,   \* points of the ice sheet's grid
  PointsOf,      \* by cell: the points that the mapping file puts there
  Mapped,        \* the cells that the mapping file knows
  South,         \* the cells below bgtn_max_jindex
  IceLand,       \* the cells that icebergs are routed from, if they are land
  Script,        \* "global", "global with halo" or "active mask"
  Thresh, MinDepIsf, MinCav, TopOpen, BathyThreshold   \* bgtn_*

\* Cell (j, i) is number j * NI + i, as a loop over rows and columns comes to it.
Cells == 0..NJ * NI - 1
Row(c) == c \div NI
Col(c) == c % NI

\* The flags in a field of columns.
NFlag == -99999
PFlag == 99999

ASSUME GeometryAssumption ==
  /\ NJ \in Nat \ {0} /\ NI \in Nat /\ NI > 4
  /\ TemBathy \in [Cells -> Nat] /\ TemIsf \in [Cells -> Nat]
  /\ PointsOf \in [Cells -> SUBSET ShelfPoints] /\ IsFiniteSet(ShelfPoints)
  /\ Mapped \subseteq Cells /\ South \subseteq Cells /\ IceLand \subseteq Cells
  /\ Script \in {"global", "global with halo", "active mask"}
  /\ Thresh \in Nat \ {0} /\ {MinDepIsf, MinCav, TopOpen} \subseteq Nat
  /\ BathyThreshold \in Int /\ BathyThreshold > NFlag

\* What the ice sheet says of a point: the height of its bed and of the lower
\* surface of the ice (that of the sea, if there is none), and whether it may evolve.
PointState == [bed : Int, base : Int, active : BOOLEAN]

Abs(x) == IF x < 0 THEN -x ELSE x

-------------------------------------------------------------------------------
(* The water under the ice of a cell *)

IsCavity(point) == Abs(point.base - point.bed) > Thresh /\ Abs(point.base) > Thresh
IsOpen(point) == Abs(point.base) < Thresh

\* Faulty variant: a cell with any water is not grounded.
EntirelyDry(wet, all) == wet = 0

\* Too few of its points have water for a cell to have any.
MostlyDry(wet, all) == 2 * wet < all

\* isf_from_bisicles_median, for a cell's points: the mean column of those that
\* count, or a flag.
isf_from_bisicles_median(ice, points, noData) ==
  LET contrib == {p \in points : ice[p].bed > BathyThreshold}
      wet == {p \in contrib : IsCavity(ice[p]) \/ IsOpen(ice[p])}
      all == Cardinality(contrib)
  IN  CASE all = 0 -> noData
        [] all > 0 /\ MostlyDry(Cardinality(wet), all) -> NFlag
        [] all > 0 /\ \A p \in contrib : IsOpen(ice[p]) -> 0
        [] OTHER -> Abs(MapThenSumSet(LAMBDA p : ice[p].bed - ice[p].base, contrib)) \div all

\* No or bad data: open ocean, or ice on the ground far enough south.
Column(ice, c) ==
  LET column == isf_from_bisicles_median(ice, PointsOf[c], PFlag)
  IN  CASE c \notin Mapped -> 0
        [] c \in Mapped /\ column = PFlag -> IF c \in South THEN NFlag ELSE 0
        [] OTHER -> column

\* The active mask gives the points that may not evolve a bed too deep to count.
MaskedIce(ice) ==
  [p \in ShelfPoints |-> IF ice[p].active THEN ice[p]
                         ELSE [ice[p] EXCEPT !.bed = NFlag, !.base = NFlag]]

\* isf_from_bisicles_median of that script: one flag for no data and for no ocean.
ActiveMedian(ice, points) == isf_from_bisicles_median(ice, points, NFlag)

\* It is taken as it is.
ActiveColumn(ice, c) == IF c \in Mapped THEN ActiveMedian(MaskedIce(ice), PointsOf[c]) ELSE 0

-------------------------------------------------------------------------------
(* The draft of a cell *)

\* Water below, ice above, and never above the sea.
FirstDraft(bathy, column, grounded) ==
  CASE column > Thresh -> IF bathy > column THEN bathy - column ELSE 0
    [] grounded -> bathy
    [] OTHER -> 0

enforce_minima(depth, mindep) ==
  CASE depth < Thresh -> 0
    [] depth > Thresh /\ depth < mindep -> mindep
    [] OTHER -> depth

\* make_surface_mask: ice, or no water to speak of.
Closed(bathy, isf) == isf > Thresh \/ bathy < Thresh

\* Faulty variant: ice stays where the template has open sea.
MatchSurfaceHalf(bathy, isf, temIsf) ==
  IF ~Closed(bathy, isf) /\ Closed(bathy, temIsf) THEN TopOpen ELSE isf

\* The surface has to be open and closed where the template has it.
MatchSurface(bathy, isf, temIsf) ==
  LET shallow == bathy < MinDepIsf + MinCav
  IN  CASE Closed(bathy, isf) /\ ~Closed(bathy, temIsf) -> 0
        [] ~Closed(bathy, isf) /\ Closed(bathy, temIsf) -> IF shallow THEN bathy ELSE TopOpen
        [] OTHER -> isf

IsThin(bathy, isf) == isf > Thresh /\ Abs(bathy - isf) \in Thresh + 1..MinCav - 1

\* What the main program makes of the ice sheet's word for a cell.
NewDraft(ice, c) ==
  LET column == Column(ice, c)
      bathy == TemBathy[c]
      first == enforce_minima(FirstDraft(bathy, column, column < 0), MinDepIsf)
      isf == MatchSurface(bathy, first, TemIsf[c])
  IN  IF IsThin(bathy, isf) THEN bathy ELSE isf

\* The same with the active mask, which gives a flagged cell back to the template.
ActiveDraft(ice, c) ==
  LET column == ActiveColumn(ice, c)
      bathy == TemBathy[c]
      grounded == column < 0 /\ column > NFlag + 1
      first == enforce_minima(FirstDraft(bathy, column, grounded), MinDepIsf)
      isf == MatchSurface(bathy, first, TemIsf[c])
  IN  CASE column < NFlag + 1 -> TemIsf[c]
        [] column >= NFlag + 1 /\ IsThin(bathy, isf) -> bathy
        [] OTHER -> isf

\* The last two columns of a grid with a halo are its first.
Wrapped(c) == IF Col(c) < NI - 2 THEN c ELSE c - (NI - 2)

\* Of the template, and the values common_params_and_constants.py has: the halo is
\* one, no cell is as deep as the tolerance exactly, and a cavity that is made in
\* deep water is seen as one.
ASSUME TemplateAssumption ==
  /\ Script = "global with halo" =>
       \A c \in Cells : /\ Wrapped(c) \in Cells
                        /\ TemBathy[Wrapped(c)] = TemBathy[c] /\ TemIsf[Wrapped(c)] = TemIsf[c]
  /\ \A c \in Cells : TemBathy[c] # Thresh
  /\ TopOpen > Thresh /\ MinDepIsf + MinCav > Thresh

ShelfFile(ice) ==
  [c \in Cells |-> CASE Script = "global" -> NewDraft(ice, c)
                     [] Script = "global with halo" -> NewDraft(ice, Wrapped(c))
                     [] OTHER -> ActiveDraft(ice, c)]

-------------------------------------------------------------------------------
(* create_iceberg_routfile *)

\* The mesh mask is made from the template.
OpenOcean == {c \in Cells : ~Closed(TemBathy[c], TemIsf[c])}

\* argmin takes the first of the nearest.
Nearest(c) ==
  LET Square(x) == x * x
      Distance(o) == Square(Row(c) - Row(o)) + Square(Col(c) - Col(o))
      nearest == Min({Distance(o) : o \in OpenOcean})
  IN  Min({o \in OpenOcean : Distance(o) = nearest})

\* Faulty variant: only land without any water is routed.
RouteOffDryLand == [c \in Cells |-> IF c \in IceLand /\ TemBathy[c] < Thresh THEN Nearest(c) ELSE c]

Route == [c \in Cells |-> IF c \in IceLand \ OpenOcean THEN Nearest(c) ELSE c]
=============================================================================
