------------------------------ MODULE OceanYear ------------------------------
(***************************************************************************)
(* A year of the ice sheets and the ocean that bound each other.            *)
(*                                                                         *)
(* The ocean runs a year, month by month, and the melt under its ice        *)
(* shelves is copied, averaged and put on each ice sheet's grid (ShelfMelt); *)
(* each ice sheet runs its year with it.  What an ice sheet has calved lies in its   *)
(* inventory of melange: regional_bisicles_calving_to_nemo.py gives it to   *)
(* the ocean as the icebergs of the next year, and makes a sink that is to  *)
(* take it out of the inventory over the same year.  bisicles_global_to_nemo *)
(* puts the regions' icebergs into one global file and gives the ocean its  *)
(* new ice draft (ShelfGeometry).                                           *)
(*                                                                         *)
(* External: the ocean, the ice sheets, the regridding libraries, nctoamr2d *)
(* and the suite, which orders the tasks of a year as the documentation of  *)
(* the coupling has them and submits again one that has failed.             *)
(***************************************************************************)
EXTENDS ShelfMelt

CONSTANTS
  Years,          \* bound: years of the coupled model
  Months,         \* bound: the months of a year, 1..Months
  MaxAttempts,    \* bound: submissions of a task in a year
  Coupled,        \* the ice sheets of the configuration
  Melange,        \* by sheet: the points of its grid that hold melange
  Inactive,       \* those of them that the active mask leaves out
  Home,           \* by such a point: the ocean cell nearest to it
  Volumes,        \* bound: what a point may calve in a year
  IceTstepMultiply,   \* years of ice for a year of climate
  HaloStripped,   \* the ocean's files have no halo, the routing file has
  AsFound         \* bound: the states an ice sheet's geometry may be found in

MelangePoints == UNION {Melange[s] : s \in Sheets}

\* do_splice: the hemisphere of the global file that a sheet may write in.
Half(s) == {c \in Cells : (s = "GrIS") <=> (Row(c) >= NJ \div 2)}

ASSUME OceanAssumption ==
  /\ Years \in Nat \ {0} /\ Months \in Nat \ {0} /\ MaxAttempts \in Nat \ {0}
  /\ Coupled \subseteq Sheets /\ Coupled # {}
  /\ \A s \in Sheets : IsFiniteSet(Melange[s])
  /\ Home \in [MelangePoints -> Cells] /\ Inactive \subseteq MelangePoints
  /\ \A s \in Sheets : \A p \in Melange[s] : {Home[p], Route[Home[p]]} \subseteq Half(s)
  /\ IceTstepMultiply \in Nat \ {0}
  /\ \A v \in Volumes : v \in Nat /\ v % IceTstepMultiply = 0
  /\ HaloStripped \in BOOLEAN
  /\ AsFound \subseteq [ShelfPoints -> PointState]
  /\ 0 \notin OpenOcean    \* the corner of the ocean's grid is Antarctica
  /\ OpenOcean # {}
  /\ \A p \in MelangePoints : Home[p] \in OpenOcean \union IceLand    \* s_lim, n_lim

VARIABLES
  year, month,     \* of the ocean
  copied,          \* the months whose file is where the ice sheets look for it
  average,         \* the file of the year's mean melt, by cell
  pc, attempt,     \* by sheet: where its tasks of the year are; submissions of the last
  gpc, gattempt,   \* the same, of the global task
  melange,         \* by point of a sheet's grid, at the end of its last year
  plot,            \* the Antarctic geometry in this year's plot file
  sink, seed,      \* by sheet: this year's files, for the next
  bergs, shelf,    \* the ocean's files, for the next year
  sinkIn,          \* by sheet: the sink file it runs the year with
  melted,          \* by sheet: the melt its year was run with, by point of its grid
  owed             \* by sheet: volume taken from the melange less what the ocean was given

iceVars == <<melange, plot, melted>>
fileVars == <<sink, seed, bergs, shelf>>
inVars == <<sinkIn, owed>>
oceanVars == <<year, month, copied, average>>
vars == <<oceanVars, pc, attempt, gpc, gattempt, iceVars, fileVars, inVars>>

NoFile == [is |-> "no file"]
File(fields) == [is |-> "file", of |-> fields]
Missing(f) == f.is = "no file"

\* The first year has files of its own, linked by setup_unicicles; the shelf is the
\* template's.
Init ==
  /\ year = 1 /\ month = 0 /\ copied = {} /\ average = NoFile
  /\ pc = [s \in Coupled |-> "ocean"] /\ attempt = [s \in Coupled |-> 0]
  /\ gpc = "wait" /\ gattempt = 0
  /\ melange = [p \in MelangePoints |-> 0] /\ plot = NoFile
  /\ melted = [s \in Coupled |-> NoFile]
  /\ sink = [s \in Coupled |-> NoFile] /\ seed = [s \in Coupled |-> NoFile]
  /\ bergs = NoFile /\ shelf = File(TemIsf)
  /\ sinkIn = [s \in Coupled |-> NoFile]
  /\ owed = [s \in Coupled |-> 0]

-------------------------------------------------------------------------------
(* From the ocean to the ice *)

\* The suite copies what the ocean has left after each month; nothing to copy is no
\* error.
copy_nemo_for_unicicles ==
  /\ gpc = "wait" /\ month < Months
  /\ month' = month + 1
  /\ copied' \in {copied, copied \union {month + 1}}
  /\ UNCHANGED <<year, average, pc, attempt, gpc, gattempt, iceVars, fileVars, inVars>>

\* Faulty variant: the months that are there will do.
AnyMonth(there) == there # {}

\* A month without a file is passed over with a message (exit 2 is commented out),
\* but leaves its pattern in the list of files, and ncra fails on it.
AllListedExist(there) == 1..Months \subseteq there

process_nemo_for_unicicles ==
  /\ month = Months /\ Missing(average) /\ AllListedExist(copied)
  /\ average' = File([of |-> year, months |-> copied, melt |-> OceanMelt(shelf.of)])
  /\ UNCHANGED <<year, month, copied, pc, attempt, gpc, gattempt, iceVars, fileVars, inVars>>

\* nemo_to_regional_bisicles: for one sheet.  One of the scripts adds the total.
BmbTotalFile(field) == IF MeltScript = "BMBTOTAL" THEN File(nemo_bmbtotal(field)) ELSE NoFile

nemo_to_regional_bisicles(s) ==
  /\ pc[s] = "ocean" /\ ~Missing(average) /\ FillValueTaken(average.of.melt, s)
  /\ melted' = [melted EXCEPT ![s] = File(
       [of |-> average.of.of, months |-> average.of.months,
        melt |-> [p \in Grid[s] |-> RegriddedMelt(average.of.melt, p)],
        total |-> BmbTotalFile(average.of.melt)])]
  /\ pc' = [pc EXCEPT ![s] = "ice_sheet"]
  /\ UNCHANGED <<oceanVars, attempt, gpc, gattempt, melange, plot, fileVars, inVars>>

\* The ice sheet runs its years of ice for the year of climate: it calves, and the sink,
\* a rate, takes out of the melange in each of them, as long as there is any.
Taken(s, calved) ==
  LET Asked(p) == IF Missing(sinkIn[s]) THEN 0 ELSE IceTstepMultiply * sinkIn[s].of[p]
  IN  [p \in Melange[s] |-> Min({Asked(p), melange[p] + calved[p]})]

IceSheet(s) ==
  /\ pc[s] = "ice_sheet"
  /\ \E calved \in [Melange[s] -> Volumes] :
       /\ melange' = [p \in MelangePoints |->
            IF p \in Melange[s] THEN melange[p] + calved[p] - Taken(s, calved)[p]
            ELSE melange[p]]
       /\ owed' = [owed EXCEPT ![s] = @ + Total(Taken(s, calved), Melange[s])]
  /\ IF s = "AIS" THEN \E found \in AsFound : plot' = File(found) ELSE UNCHANGED plot
  /\ pc' = [pc EXCEPT ![s] = "sink"]
  /\ attempt' = [attempt EXCEPT ![s] = 1]
  /\ UNCHANGED <<oceanVars, gpc, gattempt, melted, fileVars, sinkIn>>

-------------------------------------------------------------------------------
(* regional_bisicles_calving_to_nemo *)

\* extract_bisicles_calving, which under the active mask flags the rest of the grid.
extract_bisicles_calving(p) == melange[p]
extract_active_calving(p) == IF p \in Inactive THEN NFlag ELSE melange[p]

Extracted(p) ==
  IF Script = "active mask" THEN extract_active_calving(p) ELSE extract_bisicles_calving(p)

\* The rate that takes all of the melange in one coupling period of the climate's, here
\* by year: unlike the icebergs it is not divided by the years of ice there are in it.
SinkOf(p) == Extracted(p)

\* The sink comes first.
make_BISICLES_melange_sink(s) ==
  /\ pc[s] = "sink"
  /\ sink' = [sink EXCEPT ![s] = File([p \in Melange[s] |-> SinkOf(p)])]
  /\ pc' = [pc EXCEPT ![s] = "reroute"]
  /\ UNCHANGED <<oceanVars, attempt, gpc, gattempt, iceVars, seed, bergs, shelf, inVars>>

\* regrid_to_NEMO: each point goes to the one cell nearest to it.
From(s, c) == {p \in Melange[s] : Home[p] = c}
Regridded(s, c) == Total([p \in Melange[s] |-> Extracted(p)], From(s, c))

\* Faulty variant: the last cell to be routed to another is all it gets.
RoutedLast(calv, laden, d) ==
  LET from == {c \in laden : Route[c] = d}
  IN  IF from = {} THEN 0 ELSE calv[Max(from)]

\* What ends in a cell: what the laden cells add to it; the corner in the routing
\* file stands for no route, and then what the cell has replaces what was added before.
Routed(calv, laden, d) ==
  LET stays == Route[d] = 0
      from == {c \in laden : Route[c] = d /\ d # 0 /\ (stays => d < c)}
  IN  Total(calv, from) + IF stays THEN calv[d] ELSE 0

\* With the active mask only the cells that an active point is nearest to are
\* routed, and what is added is added to the flag.
RoutedActive(calv, active, d) ==
  LET stays == d \in active /\ Route[d] = 0
      from == {c \in active : Route[c] = d /\ d # 0 /\ (stays => d < c)}
  IN  Total(calv, from) + IF stays THEN calv[d] ELSE NFlag

\* The seed file has the shape of its template: without a halo, it has no first and
\* last column.
reroute_calving_to_ocean(s) ==
  /\ pc[s] = "reroute"
  /\ LET calv == [c \in Cells |-> Regridded(s, c) \div IceTstepMultiply]
         laden == {c \in Cells : calv[c] > 0}
         active == {c \in Cells : From(s, c) \ Inactive # {}}
         kept == {c \in Cells : HaloStripped => Col(c) \in 1..NI - 2}
     IN  seed' = [seed EXCEPT ![s] = File([c \in Cells |->
           CASE c \notin kept -> 0
             [] c \in kept /\ Script = "active mask" -> RoutedActive(calv, active, c)
             [] OTHER -> Routed(calv, laden, c)])]
  /\ pc' = [pc EXCEPT ![s] = "done"] /\ attempt' = [attempt EXCEPT ![s] = 0]
  /\ UNCHANGED <<oceanVars, gpc, gattempt, iceVars, sink, bergs, shelf, inVars>>

\* nctoamr2d fails, or the task is killed, and the suite submits it again.
RegionalAgain(s) ==
  /\ pc[s] \in {"sink", "reroute"} /\ attempt[s] < MaxAttempts
  /\ attempt' = [attempt EXCEPT ![s] = @ + 1]
  /\ pc' = [pc EXCEPT ![s] = "sink"]
  /\ UNCHANGED <<oceanVars, gpc, gattempt, iceVars, fileVars, inVars>>

-------------------------------------------------------------------------------
(* bisicles_global_to_nemo *)

\* The suite waits for the regions.
SubmitGlobal ==
  /\ gpc = "wait" /\ \A s \in Coupled : pc[s] = "done"
  /\ gpc' = "bergs" /\ gattempt' = 1
  /\ UNCHANGED <<oceanVars, pc, attempt, iceVars, fileVars, inVars>>

\* splice_iceberg_seeds: a hemisphere without a file keeps the template's icebergs,
\* which are not counted here.
splice_iceberg_seeds ==
  /\ gpc = "bergs"
  /\ LET Regions(c) == {s \in Coupled : ~Missing(seed[s]) /\ c \in Half(s)}
     IN  bergs' = File([c \in Cells |->
           CASE Regions(c) = {} -> 0
             [] "AIS" \in Regions(c) -> seed["AIS"].of[c]
             [] OTHER -> seed["GrIS"].of[c]])
  /\ gpc' = "shelf"
  /\ UNCHANGED <<oceanVars, pc, attempt, gattempt, iceVars, sink, seed, shelf, inVars>>

\* --do_shelf_geometry, if there is an Antarctic plot file to read.
WriteShelf ==
  /\ gpc = "shelf"
  /\ shelf' = IF "AIS" \in Coupled THEN File(ShelfFile(plot.of)) ELSE shelf
  /\ gpc' = "done" /\ gattempt' = 0
  /\ UNCHANGED <<oceanVars, pc, attempt, iceVars, sink, seed, bergs, inVars>>

GlobalAgain ==
  /\ gpc \in {"bergs", "shelf"} /\ gattempt < MaxAttempts
  /\ gattempt' = gattempt + 1 /\ gpc' = "bergs"
  /\ UNCHANGED <<oceanVars, pc, attempt, iceVars, fileVars, inVars>>

-------------------------------------------------------------------------------
(* The coupled year ends *)

\* The models go on with the new files, and the names of the next year's are not
\* those of this year's.  Over the year the ocean gets the icebergs, each for as many
\* years of ice as there are in it.
NextYear ==
  /\ gpc = "done" /\ year < Years
  /\ year' = year + 1 /\ month' = 0 /\ copied' = {} /\ average' = NoFile
  /\ pc' = [s \in Coupled |-> "ocean"] /\ gpc' = "wait"
  /\ sinkIn' = sink
  /\ owed' = [s \in Coupled |-> owed[s] - IceTstepMultiply * Total(bergs.of, Half(s))]
  /\ sink' = [s \in Coupled |-> NoFile] /\ seed' = [s \in Coupled |-> NoFile]
  /\ bergs' = NoFile /\ plot' = NoFile
  /\ UNCHANGED <<attempt, gattempt, melange, melted, shelf>>

Regional(s) ==
  \/ nemo_to_regional_bisicles(s) \/ IceSheet(s) \/ make_BISICLES_melange_sink(s)
  \/ reroute_calving_to_ocean(s) \/ RegionalAgain(s)

Next ==
  \/ copy_nemo_for_unicicles \/ process_nemo_for_unicicles
  \/ \E s \in Coupled : Regional(s)
  \/ SubmitGlobal \/ splice_iceberg_seeds \/ WriteShelf \/ GlobalAgain
  \/ NextYear

Spec == Init /\ [][Next]_vars

-------------------------------------------------------------------------------
(* Properties *)

\* The files whose content the other invariants are about.
TypeOK ==
  /\ year \in 1..Years /\ month \in 0..Months /\ copied \subseteq 1..month
  /\ pc \in [Coupled -> {"ocean", "ice_sheet", "sink", "reroute", "done"}]
  /\ gpc \in {"wait", "bergs", "shelf", "done"}
  /\ melange \in [MelangePoints -> Nat]
  /\ \A s \in Coupled :
       /\ Missing(sink[s]) \/ sink[s].of \in [Melange[s] -> Nat]
       /\ Missing(seed[s]) \/ seed[s].of \in [Cells -> Nat]
  /\ Missing(bergs) \/ bergs.of \in [Cells -> Nat]
  /\ shelf.of \in [Cells -> Nat]

\* When an ice sheet has run its year, the ice that its sinks have taken from its melange,
\* as it now is, is what the ocean was given, once, and no more: through the regrid,
\* the routing off the land, the two hemispheres and tasks that are killed between
\* the two files (regional_bisicles_calving_to_nemo.py, "extract the amount of
\* calved ice we've just given to NEMO").  Of an ice sheet that is not accelerated.
TakenOnce == \A s \in Coupled : pc[s] \notin {"ocean", "ice_sheet"} => owed[s] = 0

\* The ocean's surface is open and closed where its template's is, whatever the ice
\* sheet has become: the routing of the icebergs and the ocean's own mask were made
\* from the template and are not made again.
SurfaceKept == \A c \in Cells : Closed(TemBathy[c], shelf.of[c]) <=> c \notin OpenOcean

\* No iceberg is set where the ocean that gets it has no open surface.
BergsOnWater ==
  gpc = "done" => \A c \in Cells : bergs.of[c] > 0 => ~Closed(TemBathy[c], shelf.of[c])

\* The points of a cell that count, and those of them with water.
Counted(ice, c) ==
  {p \in PointsOf[c] : (Script = "active mask" => ice[p].active) /\ ice[p].bed > BathyThreshold}
WithWater(ice, points) == {p \in points : IsCavity(ice[p]) \/ IsOpen(ice[p])}
OnGround(ice, c) ==
  /\ Counted(ice, c) # {}
  /\ 2 * Cardinality(WithWater(ice, Counted(ice, c))) < Cardinality(Counted(ice, c))

\* Under ice that the template knows, the ice sheet's ground is the ocean's: a cell
\* whose active points are mostly without water has none in the ocean's file, whatever
\* the least depths of ice and water (the cells of the halo follow their originals).
GroundIsGround ==
  gpc = "done" /\ "AIS" \in Coupled =>
    \A c \in Mapped \ OpenOcean :
      /\ OnGround(plot.of, c)
      /\ TemBathy[c] >= Thresh
      /\ Script = "global with halo" => Wrapped(c) = c
      => shelf.of[c] >= TemBathy[c]

\* An ice sheet is run with the melt of the whole of this year, however many of the
\* ocean's files failed to appear, and with that of the cavities the ocean has this
\* year: no mask of the ocean's spreads over a cavity (nemo4.2_to_regional_bisicles.py,
\* "cf regridding ends up putting missing_data flags into the real cavity").
MeltOfTheYear ==
  \A s \in Coupled : pc[s] # "ocean" =>
    /\ melted[s].of.of = year /\ melted[s].of.months = 1..Months
    /\ gpc # "done" =>
         \A p \in Grid[s] : IsMeltOf(Reach(shelf.of, p), melted[s].of.melt[p])
=============================================================================
