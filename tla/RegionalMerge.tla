---------------------------- MODULE RegionalMerge ----------------------------
(***************************************************************************)
(* How two regional ice sheets reach the climate model's one global dump    *)
(* (unicicles_cap_global_to_um.py and the modules it calls, in              *)
(* unicicles_coupling_refactor/active/python3).                             *)
(*                                                                         *)
(* Each year each ice sheet leaves two files: its orography, smoothed by    *)
(* another program and cut out as a rectangle of grid boxes, and icecouple, *)
(* with the land of each box by elevation, the ice on it and the height of  *)
(* its surface.  Every one of them is optional.  The task splices what it   *)
(* finds into one orography and one icecouple file, and then writes both    *)
(* into the dump, over a reference dump that never changes.  The two passes *)
(* choose their boxes by different masks.                                   *)
(*                                                                         *)
(* Fractions are whole numbers of 1/Unit, and those of the dump, which are  *)
(* products of two, of 1/Full.  A field that is replaced as a whole         *)
(* (orography, temperature) is known by where it comes from.                *)
(*                                                                         *)
(* The size of the dump and the snow in it are UmUpdate's.  External: the   *)
(* ice sheets and the program that smooths, which leave the files, and the  *)
(* suite.                                                                   *)
(***************************************************************************)
EXTENDS Integers, FiniteSets

CONSTANTS
  Years,          \* bound: years of the climate model
  MaxAttempts,    \* bound: times the suite submits the task for a year
  Boxes,          \* grid boxes of the climate model
  Unit,           \* the whole of a box
  Cover,          \* by sheet and box: how much of the box the sheet's domain covers
  Block,          \* by sheet: the boxes of its rectangle of orography
  Coast,          \* by box: how much of it is land, in the reference dump
  ElevatedTiles,  \* the boxes with tiles by elevation, in the reference dump
  PolarRows,      \* the boxes of the two southern rows
  NewLand,        \* the boxes that are land in the new mask
  Shapes          \* what an ice sheet may look like: see IceSheetYear

Sheets == {"GrIS", "AIS"}
Elevs == {1, 2}    \* bound: classes of elevation
Options == {"fix_polarrow_landfrac", "new_landseamask", "do_temp_boundary"}

ASSUME ConstantsAssumption ==
  /\ Years \in Nat \ {0} /\ MaxAttempts \in Nat \ {0}
  /\ Unit \in Nat \ {0}
  /\ Cover \in [Sheets -> [Boxes -> 0..Unit]]
  /\ \A b \in Boxes : \E s \in Sheets : Cover[s][b] = 0    \* a hemisphere each
  /\ Block \in [Sheets -> SUBSET Boxes]
  /\ \A s, t \in Sheets : s # t => \A b \in Block[s] : Cover[t][b] = 0
  /\ Coast \in [Boxes -> 0..Unit]
  /\ ElevatedTiles \subseteq {b \in Boxes : Coast[b] > 0}
  /\ PolarRows \subseteq Boxes /\ NewLand \subseteq Boxes
  /\ Shapes \subseteq [low : 0..2, ice : [Elevs -> 0..Unit], raised : BOOLEAN]

VARIABLES
  options,           \* of the task, fixed for a run of the suite
  year,              \* of the climate model
  orogIn, iceIn,     \* by sheet, the regional files of the year
  orogOut, iceOut,   \* the global files of the year
  attempt, pc,       \* the task: attempts for the year, the statement it is at
  final_orog, um_dump,      \* the task's memory
  um_output          \* the dump the climate model goes on with

inputVars  == <<options, year, orogIn, iceIn>>
globalVars == <<orogOut, iceOut>>
taskVars   == <<attempt, pc, final_orog, um_dump>>
vars == <<inputVars, globalVars, taskVars, um_output>>

NoFile == [is |-> "no file"]
File(fields) == [is |-> "file", of |-> fields]
Missing(f) == f.is = "no file"

\* Where a field of a box comes from: a sheet and a year, the reference dump,
\* or nowhere (the missing-data value).
Ref == <<"reference", 0>>
Mdi == <<"missing", 0>>

-------------------------------------------------------------------------------
(* The reference dump *)

None == [e \in Elevs |-> 0]
Sum(f) == f[1] + f[2]

\* The whole of a box in the dump.
Full == Unit * Unit

\* Where it has tiles by elevation the reference has nothing else; here, low ice.
RefFrac(b) == [rock |-> None,
               ice |-> IF b \in ElevatedTiles THEN [None EXCEPT ![1] = Full] ELSE None]

\* Of a field of land the sea boxes hold the missing-data value.
RefSource(b) == IF Coast[b] > 0 THEN Ref ELSE Mdi

RefDump == [b \in Boxes |->
  [orog |-> Ref, tiles |-> RefSource(b), frac |-> RefFrac(b),
   tsurf |-> RefSource(b), land |-> Coast[b] > 0]]

Init ==
  /\ options \in SUBSET Options
  /\ year = 0
  /\ orogIn = [s \in Sheets |-> NoFile] /\ iceIn = [s \in Sheets |-> NoFile]
  /\ orogOut = NoFile /\ iceOut = NoFile
  /\ attempt = 0 /\ pc = "done"
  /\ final_orog = NoFile /\ um_dump = RefDump
  /\ um_output = RefDump

-------------------------------------------------------------------------------
(* The files of a year *)

\* What icecouple says of a box: land and ice by elevation, whether the surface
\* is above sea level, and whose it is.  `low` is the part of the land in the
\* first class, in halves.
IceBox(s, b, shape) ==
  LET cover == Cover[s][b]
      low == (cover * shape.low) \div 2
  IN  IF cover = 0
      THEN [land |-> None, ice |-> None, raised |-> FALSE, from |-> Mdi]
      ELSE [land |-> [e \in Elevs |-> IF e = 1 THEN low ELSE cover - low],
            ice |-> shape.ice, raised |-> shape.raised, from |-> <<s, year + 1>>]

\* The climate model does not change what this module follows.  A year's files
\* have its date in their names.
NextYear ==
  /\ pc = "done" /\ year < Years
  /\ year' = year + 1
  /\ \E withOrog, withIce \in SUBSET Sheets, shape \in [Sheets -> Shapes] :
       /\ \A s \in Sheets \ withIce : shape[s] = CHOOSE any \in Shapes : TRUE
       /\ orogIn' = [s \in Sheets |-> IF s \in withOrog THEN File(<<s, year + 1>>) ELSE NoFile]
       /\ iceIn' = [s \in Sheets |-> IF s \in withIce
                                     THEN File([b \in Boxes |-> IceBox(s, b, shape[s])])
                                     ELSE NoFile]
  /\ orogOut' = NoFile /\ iceOut' = NoFile
  /\ attempt' = 0 /\ pc' = "idle"
  /\ UNCHANGED <<options, final_orog, um_dump, um_output>>

-------------------------------------------------------------------------------
(* unicicles_cap_global_to_um *)

\* The suite submits the task, whatever the ice sheets have left.
Submit ==
  /\ pc = "idle" /\ attempt < MaxAttempts
  /\ attempt' = attempt + 1 /\ pc' = "splice_cap"
  /\ UNCHANGED <<inputVars, globalVars, final_orog, um_dump, um_output>>

\* An attempt ends without a dump, and with the memory of the task.
GiveUp == pc' = "idle" /\ final_orog' = NoFile /\ um_dump' = RefDump

\* Faulty variant: every file has to be there.
SomeMissing(files) == \E s \in Sheets : Missing(files[s])

\* Both splices end the task only if they find no file at all.
NoneFound(files) == \A s \in Sheets : Missing(files[s])

\* splice_cap_ancil: each regional rectangle replaces that of the reference.
splice_cap_ancil ==
  /\ pc = "splice_cap"
  /\ IF NoneFound(orogIn) THEN GiveUp
     ELSE /\ final_orog' = [b \in Boxes |->
               LET given == {s \in Sheets : ~Missing(orogIn[s]) /\ b \in Block[s]}
               IN  IF given = {} THEN Ref
                   ELSE orogIn[IF "AIS" \in given THEN "AIS" ELSE "GrIS"].of]
          /\ pc' = "write_orog"
          /\ UNCHANGED um_dump
  /\ UNCHANGED <<inputVars, globalVars, attempt, um_output>>

WriteOrog ==
  /\ pc = "write_orog"
  /\ orogOut' = File(final_orog)
  /\ pc' = "splice_icecouple"
  /\ UNCHANGED <<inputVars, iceOut, attempt, final_orog, um_dump, um_output>>

\* Faulty variant: a box the two could share is given to the first.
GreenlandOnly(g, a) == g

\* The mean of two boxes, weighted by what each sheet covers of them.
Weighted(g, a) ==
  LET cg == Sum(g.land)
      ca == Sum(a.land)
      Mean(x, y) == [e \in Elevs |-> (x[e] * cg + y[e] * ca) \div (cg + ca)]
  IN  IF cg + ca = 0 THEN g
      ELSE [land |-> Mean(g.land, a.land), ice |-> Mean(g.ice, a.ice),
            raised |-> (g.raised /\ cg > 0) \/ (a.raised /\ ca > 0),
            from |-> IF cg > 0 THEN g.from ELSE a.from]


\* The shell's copy, whose status is not looked at: what was there before may stay.
Copied(f) == {f, iceOut}

\* splice_icecouple.  With one file it is copied.
splice_icecouple ==
  /\ pc = "splice_icecouple"
  /\ LET found == {s \in Sheets : ~Missing(iceIn[s])}
     IN  \/ NoneFound(iceIn) /\ GiveUp /\ UNCHANGED iceOut
         \/ /\ found = Sheets
            /\ iceOut' = File([b \in Boxes |-> Weighted(iceIn["GrIS"].of[b], iceIn["AIS"].of[b])])
            /\ pc' = "read" /\ UNCHANGED <<final_orog, um_dump>>
         \/ \E s \in Sheets :
              /\ found = {s}
              /\ iceOut' \in Copied(iceIn[s])
              /\ pc' = "read" /\ UNCHANGED <<final_orog, um_dump>>
  /\ UNCHANGED <<inputVars, orogOut, attempt, um_output>>

ReadInputs ==
  /\ pc = "read"
  /\ IF Missing(iceOut) THEN GiveUp
     ELSE um_dump' = um_output /\ pc' = "polar_rows" /\ UNCHANGED final_orog
  /\ UNCHANGED <<inputVars, globalVars, attempt, um_output>>

\* Fractions that do not fill a box are stretched to; none at all become the top.
Filled(f) == CASE Sum(f) = 0 -> [None EXCEPT ![2] = Unit]
               [] Sum(f) \in 1..Unit - 1 -> [e \in Elevs |-> (f[e] * Unit) \div Sum(f)]
               [] OTHER -> f

\* fix_polarrow_tilefrac works in the global file, opened for update.
fix_polarrow_tilefrac ==
  /\ pc = "polar_rows"
  /\ IF "fix_polarrow_landfrac" \in options
     THEN iceOut' = File([b \in Boxes |->
            IF b \in PolarRows
            THEN [iceOut.of[b] EXCEPT !.land = Filled(@), !.ice = Filled(@)]
            ELSE iceOut.of[b]])
     ELSE UNCHANGED iceOut
  /\ pc' = "land_mask"
  /\ UNCHANGED <<inputVars, orogOut, attempt, final_orog, um_dump, um_output>>

\* new_lsm: the mask is replaced in the dump; new land takes its fields from a
\* neighbour, new sea loses them.
new_lsm ==
  /\ pc = "land_mask"
  /\ IF "new_landseamask" \in options
     THEN \E near \in {b \in Boxes : um_dump[b].tiles # Mdi} :
            um_dump' = [b \in Boxes |->
              LET kept == IF um_dump[b].tiles = Mdi THEN um_dump[near] ELSE um_dump[b]
                  lost == [kept EXCEPT !.tiles = Mdi, !.tsurf = Mdi, !.frac = [ice |-> None, rock |-> None]]
              IN  [IF b \in NewLand THEN kept ELSE lost
                   EXCEPT !.land = b \in NewLand, !.orog = um_dump[b].orog]]
     ELSE UNCHANGED um_dump
  /\ pc' = "orography"
  /\ UNCHANGED <<inputVars, globalVars, attempt, final_orog, um_output>>

\* get_ice_um_grid_overlap
Overlap(b) == Sum(iceOut.of[b].land)

\* merge_ice_um_arrays(..., noFrac=True): the ice sheet's share of a box counts for
\* all or nothing.
WholeOnly(share, whole) == share = whole

\* Faulty variant: any share of the ice sheet is enough.
TakesOrographyAtEdges(b) == iceOut.of[b].raised /\ Coast[b] > 0 /\ Overlap(b) > 0

TakesOrography(b) ==
  /\ iceOut.of[b].raised /\ Coast[b] > 0
  /\ WholeOnly(Overlap(b) * Coast[b], Full)

\* insert_cap_ice_orog, over the orography of the reference.
insert_cap_ice_orog ==
  /\ pc = "orography"
  /\ um_dump' = [b \in Boxes |->
       [um_dump[b] EXCEPT !.orog = IF TakesOrography(b) THEN orogOut.of[b] ELSE RefDump[b].orog]]
  /\ pc' = "tile_fracs"
  /\ UNCHANGED <<inputVars, globalVars, attempt, final_orog, um_output>>

\* Faulty variant: the climate model is not asked whether it has such tiles.
TakesTilesByIce(b) == iceOut.of[b].raised /\ Overlap(b) = Unit

TakesTiles(b) ==
  /\ iceOut.of[b].raised /\ Sum(RefDump[b].frac.ice) + Sum(RefDump[b].frac.rock) > Full \div 2
  /\ WholeOnly(Overlap(b), Unit)

\* Faulty variant: those of the year before.
LastYears(b) == um_dump[b]

\* The fields a box has before the ice sheets' are put in.
Before(b) == RefDump[b]

\* insert_tile_fracs: the convention of the climate model is the part of the box
\* that is ice, and rock, in each class.
insert_tile_fracs ==
  /\ pc = "tile_fracs"
  /\ um_dump' = [b \in Boxes |->
       LET box == iceOut.of[b]
           Part(f) == [e \in Elevs |-> (f[e] * box.land[e] * Unit) \div Overlap(b)]
       IN  IF TakesTiles(b)
           THEN [um_dump[b] EXCEPT
                   !.tiles = box.from,
                   !.frac = [ice |-> Part(box.ice),
                             rock |-> Part([e \in Elevs |-> Unit - box.ice[e]])]]
           ELSE [um_dump[b] EXCEPT !.tiles = Before(b).tiles, !.frac = Before(b).frac]]
  /\ pc' = "temperatures"
  /\ UNCHANGED <<inputVars, globalVars, attempt, final_orog, um_output>>

\* insert_tsurf_elev; reset_icetile_snowpack and adjust_snow, which come between,
\* leave these fields alone.
insert_tsurf_elev ==
  /\ pc = "temperatures"
  /\ um_dump' = IF "do_temp_boundary" \in options
                THEN [b \in Boxes |-> [um_dump[b] EXCEPT
                        !.tsurf = IF TakesTiles(b) THEN iceOut.of[b].from ELSE Before(b).tsurf]]
                ELSE um_dump
  /\ pc' = "write"
  /\ UNCHANGED <<inputVars, globalVars, attempt, final_orog, um_output>>

WriteDump ==
  /\ pc = "write"
  /\ um_output' = um_dump
  /\ pc' = "done" /\ final_orog' = NoFile /\ um_dump' = RefDump
  /\ UNCHANGED <<inputVars, globalVars, attempt>>

\* The task is killed; the suite submits it again.
Killed ==
  /\ pc \notin {"idle", "done"} /\ attempt < MaxAttempts
  /\ GiveUp
  /\ UNCHANGED <<inputVars, globalVars, attempt, um_output>>

Statement ==
  \/ splice_cap_ancil \/ WriteOrog \/ splice_icecouple \/ ReadInputs
  \/ fix_polarrow_tilefrac \/ new_lsm \/ insert_cap_ice_orog \/ insert_tile_fracs
  \/ insert_tsurf_elev \/ WriteDump

Next == NextYear \/ Submit \/ Statement \/ Killed

\* The suite submits a task that is due, and a task that is running goes on.
Spec == Init /\ [][Next]_vars /\ WF_vars(Submit) /\ WF_vars(Statement)

-------------------------------------------------------------------------------
(* Properties *)

Source == {Ref, Mdi} \union (Sheets \X (1..Years))
Tiling == [Elevs -> 0..Unit]
Box == [orog : Source, tiles : Source, tsurf : Source, land : BOOLEAN,
        frac : [{"ice", "rock"} -> [Elevs -> 0..Full]]]

IceBoxType == [land : Tiling, ice : Tiling, raised : BOOLEAN, from : Source]

TypeOK ==
  /\ \A f \in {iceIn["GrIS"], iceIn["AIS"], iceOut} :
       Missing(f) \/ f.of \in [Boxes -> IceBoxType]
  /\ options \subseteq Options /\ year \in 0..Years /\ attempt \in 0..MaxAttempts
  /\ um_dump \in [Boxes -> Box] /\ um_output \in [Boxes -> Box]
  /\ pc \in {"idle", "done", "splice_cap", "write_orog", "splice_icecouple", "read",
             "polar_rows", "land_mask", "orography", "tile_fracs", "temperatures", "write"}

Finished == pc = "done" /\ year > 0

\* The tiles by elevation of a box fill it, in the dump that goes on, exactly
\* where those of the reference did: whatever the ice sheet covers of the box,
\* whichever files were there and however the polar rows were mended
\* (tile_fracs_to_um.py: normalisation, mask and the two merges together).
AreaKept ==
  Finished => \A b \in Boxes :
    Sum(um_output[b].frac.ice) + Sum(um_output[b].frac.rock)
      = IF b \in ElevatedTiles THEN Full ELSE 0

\* Nothing in the dump that goes on is an ice sheet's of an earlier year: a sheet
\* whose file is missing falls back to the reference, not to what it was.
\* Temperatures are followed where they are passed on.
NothingOld ==
  Finished => \A b \in Boxes :
    \A source \in {um_output[b].orog, um_output[b].tiles}
                  \union (IF "do_temp_boundary" \in options THEN {um_output[b].tsurf} ELSE {}) :
      source[1] \in Sheets => source[2] = year

\* A box of elevated tiles has the orography of an ice sheet only with its tiles
\* of the same year: cap_orog_to_um.py and tile_fracs_to_um.py take their boxes by
\* different masks, from files any of which may be missing.  (Not the other way
\* round: a box that is part sea, or whose orography is missing, takes the tiles.)
OrographyWithTiles ==
  Finished => \A b \in ElevatedTiles :
    um_output[b].orog[1] \in Sheets => um_output[b].tiles = um_output[b].orog

\* An ice sheet whose icecouple file is there reaches every box of elevated tiles
\* that it covers and raises above the sea, whatever the other sheet has left
\* (splice_icecouple's three ways).
SheetsArrive ==
  Finished => \A s \in Sheets, b \in ElevatedTiles :
    ~Missing(iceIn[s]) /\ Cover[s][b] = Unit /\ iceIn[s].of[b].raised
      => um_output[b].tiles = <<s, year>>

\* An attempt is still due, with one orography and one icecouple file to merge.
Due ==
  /\ pc = "idle" /\ attempt < MaxAttempts
  /\ \E s \in Sheets : ~Missing(orogIn[s])
  /\ \E s \in Sheets : ~Missing(iceIn[s])

\* There are no more attempts, and of the one icecouple file there is no copy.
NotCopied ==
  /\ pc = "idle" /\ attempt = MaxAttempts
  /\ \E s \in Sheets : Missing(iceIn[s])
  /\ Missing(iceOut)


=============================================================================
