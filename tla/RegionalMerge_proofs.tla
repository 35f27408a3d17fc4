-------------------------- MODULE RegionalMerge_proofs --------------------------
(***************************************************************************)
(* Proofs about the merge of the ice sheets' files, for any number of       *)
(* years, boxes and attempts and whatever the masks are.                    *)
(***************************************************************************)
EXTENDS RegionalMerge, TLAPS

-------------------------------------------------------------------------------
(* The strengthening *)

\* A box of a dump, and one of an icecouple file, have their fields.
HasFields(record, names) == record = [name \in names |-> record[name]]
IsBox(box) == HasFields(box, {"orog", "tiles", "frac", "tsurf", "land"})
IsIceBox(box) == HasFields(box, {"land", "ice", "raised", "from"})

\* What comes from an ice sheet is of this year.
Current(source) == source[1] \in Sheets => source[2] = year
Temperatures == "do_temp_boundary" \in options

CurrentIce(file) ==
  \A b \in Boxes : IsIceBox(file.of[b]) /\ Current(file.of[b].from)

\* The files, this year's and the global ones made of them.
FilesInv ==
  /\ \A s \in Sheets : /\ Missing(orogIn[s]) \/ Current(orogIn[s].of)
                       /\ Missing(iceIn[s]) \/ CurrentIce(iceIn[s])
  /\ Missing(orogOut) \/ \A b \in Boxes : Current(orogOut.of[b])
  /\ Missing(iceOut) \/ CurrentIce(iceOut)

\* The statements of the task after the first that writes.
AfterSplice == {"polar_rows", "land_mask", "orography", "tile_fracs", "temperatures", "write"}

\* What the task has in hand at each statement: a file it is about to read has
\* been made, and of the dump each pass leaves its own field current.
TaskInv ==
  /\ pc \in {"idle", "done", "splice_cap", "write_orog", "splice_icecouple", "read"} \union AfterSplice
  /\ pc = "write_orog" => \A b \in Boxes : Current(final_orog[b])
  /\ pc \in {"splice_icecouple", "read"} \union AfterSplice => ~Missing(orogOut)
  /\ pc \in AfterSplice => ~Missing(iceOut)
  /\ \A b \in Boxes : IsBox(um_dump[b]) /\ IsBox(um_output[b])
  /\ pc \in {"tile_fracs", "temperatures", "write"} => \A b \in Boxes : Current(um_dump[b].orog)
  /\ pc \in {"temperatures", "write"} => \A b \in Boxes : Current(um_dump[b].tiles)
  /\ pc = "write" /\ Temperatures => \A b \in Boxes : Current(um_dump[b].tsurf)

\* The dump the climate model goes on with.
OutputInv ==
  pc = "done" /\ year > 0 => \A b \in Boxes :
    /\ Current(um_output[b].orog) /\ Current(um_output[b].tiles)
    /\ Temperatures => Current(um_output[b].tsurf)

MergeInv == year \in Nat /\ FilesInv /\ TaskInv /\ OutputInv

LEMMA InvGivesNothingOld == MergeInv => NothingOld
BY DEF MergeInv, OutputInv, NothingOld, Finished, Current, Temperatures

-------------------------------------------------------------------------------
(* Sources and boxes *)

\* Neither the reference nor missing data is an ice sheet's.
LEMMA NotOfASheet == Ref[1] \notin Sheets /\ Mdi[1] \notin Sheets
BY DEF Ref, Mdi, Sheets

LEMMA ReferenceBoxes ==
  \A b \in Boxes : /\ IsBox(RefDump[b])
                   /\ RefDump[b].orog[1] \notin Sheets
                   /\ RefDump[b].tiles[1] \notin Sheets
                   /\ RefDump[b].tsurf[1] \notin Sheets
<1> TAKE b \in Boxes
<1>1. RefDump[b] = [orog |-> Ref, tiles |-> RefSource(b), frac |-> RefFrac(b),
                    tsurf |-> RefSource(b), land |-> Coast[b] > 0]
  BY DEF RefDump
<1>2. RefSource(b) \in {Ref, Mdi}
  BY DEF RefSource
<1>3. IsBox(RefDump[b])
  BY <1>1 DEF IsBox, HasFields
<1> QED
  BY <1>1, <1>2, <1>3, NotOfASheet

LEMMA InitInv == ASSUME Init PROVE MergeInv
<1> USE DEF Init
<1>1. FilesInv
  BY DEF FilesInv, NoFile, Missing
<1>2. TaskInv
  BY ReferenceBoxes DEF TaskInv, AfterSplice
<1>3. year \in Nat /\ OutputInv
  BY DEF OutputInv
<1> QED
  BY <1>1, <1>2, <1>3 DEF MergeInv

-------------------------------------------------------------------------------
(* The files of a year *)

LEMMA NextYearInv == ASSUME MergeInv, NextYear PROVE MergeInv'
<1> USE DEF NextYear
<1>1. year' \in Nat
  BY DEF MergeInv
<1>2. ASSUME NEW s \in Sheets
      PROVE  /\ Missing(orogIn'[s]) \/ Current(orogIn[s].of)'
             /\ Missing(iceIn'[s]) \/ CurrentIce(iceIn[s])'
  <2>1. PICK withOrog, withIce \in SUBSET Sheets, shape \in [Sheets -> Shapes] :
          /\ \A t \in Sheets \ withIce : shape[t] = CHOOSE any \in Shapes : TRUE
          /\ orogIn' = [t \in Sheets |-> IF t \in withOrog THEN File(<<t, year + 1>>) ELSE NoFile]
          /\ iceIn' = [t \in Sheets |-> IF t \in withIce
                                        THEN File([b \in Boxes |-> IceBox(t, b, shape[t])])
                                        ELSE NoFile]
    BY Zenon
  <2>2. Missing(orogIn'[s]) \/ orogIn'[s].of = <<s, year'>>
    BY <2>1 DEF File, NoFile, Missing
  <2>3. Missing(iceIn'[s]) \/ \A b \in Boxes : iceIn'[s].of[b] = IceBox(s, b, shape[s])
    BY <2>1 DEF File, NoFile, Missing
  <2>4. ASSUME NEW b \in Boxes
        PROVE  IsIceBox(IceBox(s, b, shape[s]))
               /\ IceBox(s, b, shape[s]).from \in {Mdi, <<s, year'>>}
    BY DEF IceBox, IsIceBox, HasFields
  <2>5. Missing(orogIn'[s]) \/ Current(orogIn[s].of)'
    BY <2>2 DEF Current
  <2>6. ASSUME ~Missing(iceIn'[s]), NEW b \in Boxes
        PROVE  IsIceBox(iceIn'[s].of[b]) /\ Current(iceIn[s].of[b].from)'
    <3>1. iceIn'[s].of[b] = IceBox(s, b, shape[s])
      BY <2>3, <2>6
    <3>2. IsIceBox(iceIn'[s].of[b]) /\ iceIn'[s].of[b].from \in {Mdi, <<s, year'>>}
      BY <2>4, <3>1
    <3> QED
      BY <3>2, NotOfASheet DEF Current
  <2> QED
    BY <2>5, <2>6 DEF CurrentIce
<1>3. Missing(orogOut') /\ Missing(iceOut')
  BY DEF NoFile, Missing
<1>4. FilesInv'
  BY <1>2, <1>3 DEF FilesInv, Missing
<1>5. TaskInv' /\ OutputInv'
  BY DEF MergeInv, TaskInv, OutputInv, AfterSplice
<1> QED
  BY <1>1, <1>4, <1>5 DEF MergeInv

-------------------------------------------------------------------------------
(* Ending and starting an attempt *)

\* What the inputs of the year say stays so, whatever the task does.
LEMMA SameYear ==
  ASSUME MergeInv, UNCHANGED inputVars
  PROVE  /\ year' \in Nat
         /\ \A s \in Sheets : /\ Missing(orogIn'[s]) \/ Current(orogIn[s].of)'
                              /\ Missing(iceIn'[s]) \/ CurrentIce(iceIn[s])'
BY DEF MergeInv, FilesInv, inputVars, Current, CurrentIce

LEMMA SameGlobal ==
  ASSUME MergeInv, UNCHANGED inputVars
  PROVE  /\ UNCHANGED orogOut => Missing(orogOut') \/ \A b \in Boxes : Current(orogOut.of[b])'
         /\ UNCHANGED iceOut => Missing(iceOut') \/ CurrentIce(iceOut)'
BY DEF MergeInv, FilesInv, inputVars, Current, CurrentIce

\* A task that gives up leaves its files.
LEMMA GiveUpInv ==
  ASSUME MergeInv, GiveUp, UNCHANGED <<inputVars, globalVars, um_output>>
  PROVE  MergeInv'
<1>1. FilesInv'
  BY SameYear, SameGlobal DEF FilesInv, globalVars
<1>2. TaskInv' /\ OutputInv'
  BY ReferenceBoxes DEF MergeInv, TaskInv, OutputInv, GiveUp, AfterSplice
<1> QED
  BY <1>1, <1>2, SameYear DEF MergeInv

LEMMA SubmitInv == ASSUME MergeInv, Submit PROVE MergeInv'
<1>1. FilesInv'
  BY SameYear, SameGlobal DEF FilesInv, globalVars, Submit
<1>2. TaskInv' /\ OutputInv'
  BY DEF MergeInv, TaskInv, OutputInv, Submit, AfterSplice
<1> QED
  BY <1>1, <1>2, SameYear DEF MergeInv, Submit

-------------------------------------------------------------------------------
(* The splices *)

LEMMA SpliceCapInv == ASSUME MergeInv, splice_cap_ancil PROVE MergeInv'
<1>1. CASE NoneFound(orogIn)
  BY <1>1, GiveUpInv DEF splice_cap_ancil
<1>2. CASE ~NoneFound(orogIn)
  <2> USE <1>2 DEF splice_cap_ancil
  <2>1. FilesInv'
    BY SameYear, SameGlobal DEF FilesInv, globalVars
  <2>2. ASSUME NEW b \in Boxes PROVE Current(final_orog[b])'
    <3> DEFINE given == {s \in Sheets : ~Missing(orogIn[s]) /\ b \in Block[s]}
               from == IF "AIS" \in given THEN "AIS" ELSE "GrIS"
    <3>1. final_orog'[b] = IF given = {} THEN Ref ELSE orogIn[from].of
      OBVIOUS
    <3>2. CASE given = {}
      BY <3>1, <3>2, NotOfASheet DEF Current
    <3>3. CASE given # {}
      <4>1. from \in Sheets /\ ~Missing(orogIn[from])
        BY <3>3 DEF Sheets
      <4> QED
        BY <3>1, <3>3, <4>1 DEF MergeInv, FilesInv, Current, inputVars
    <3> QED
      BY <3>2, <3>3
  <2>3. TaskInv' /\ OutputInv'
    BY <2>2 DEF MergeInv, TaskInv, OutputInv, AfterSplice
  <2> QED
    BY <2>1, <2>3, SameYear DEF MergeInv
<1> QED
  BY <1>1, <1>2

LEMMA WriteOrogInv == ASSUME MergeInv, WriteOrog PROVE MergeInv'
<1> USE DEF WriteOrog
<1>1. ~Missing(orogOut') /\ \A b \in Boxes : Current(orogOut.of[b])'
  BY DEF MergeInv, TaskInv, File, Missing, Current, inputVars
<1>2. FilesInv'
  BY <1>1, SameYear, SameGlobal DEF FilesInv
<1>3. TaskInv' /\ OutputInv'
  BY <1>1 DEF MergeInv, TaskInv, OutputInv, AfterSplice
<1> QED
  BY <1>2, <1>3, SameYear DEF MergeInv

LEMMA WeightedCurrent ==
  ASSUME NEW g, NEW a, IsIceBox(g), IsIceBox(a), Current(g.from), Current(a.from)
  PROVE  IsIceBox(Weighted(g, a)) /\ Current(Weighted(g, a).from)
BY DEF Weighted, IsIceBox, HasFields, Current

LEMMA SpliceIceInv == ASSUME MergeInv, splice_icecouple PROVE MergeInv'
<1>1. CASE NoneFound(iceIn) /\ GiveUp /\ UNCHANGED iceOut
  BY <1>1, GiveUpInv DEF splice_icecouple, Copied, globalVars
<1>2. ASSUME pc' = "read", UNCHANGED <<final_orog, um_dump>>,
             Missing(iceOut') \/ CurrentIce(iceOut)'
      PROVE  MergeInv'
  <2>1. FilesInv'
    BY <1>2, SameYear, SameGlobal DEF FilesInv, splice_icecouple, Copied
  <2>2. TaskInv' /\ OutputInv'
    BY <1>2 DEF MergeInv, TaskInv, OutputInv, AfterSplice, splice_icecouple, Copied
  <2> QED
    BY <2>1, <2>2, SameYear DEF MergeInv, splice_icecouple, Copied
<1> DEFINE found == {s \in Sheets : ~Missing(iceIn[s])}
<1>3. CASE /\ found = Sheets
           /\ iceOut' = File([b \in Boxes |-> Weighted(iceIn["GrIS"].of[b], iceIn["AIS"].of[b])])
           /\ pc' = "read" /\ UNCHANGED <<final_orog, um_dump>>
  <2>1. \A s \in Sheets : CurrentIce(iceIn[s])
    BY <1>3 DEF MergeInv, FilesInv
  <2>2. \A b \in Boxes : LET w == Weighted(iceIn["GrIS"].of[b], iceIn["AIS"].of[b])
                         IN  IsIceBox(w) /\ Current(w.from)
    BY <2>1, WeightedCurrent DEF CurrentIce, Sheets
  <2>3. CurrentIce(iceOut)'
    BY <1>3, <2>2 DEF CurrentIce, Current, File, splice_icecouple, Copied, inputVars
  <2> QED
    BY <1>2, <1>3, <2>3
<1>4. ASSUME NEW s \in Sheets, found = {s}, iceOut' \in {iceIn[s], iceOut},
             pc' = "read", UNCHANGED <<final_orog, um_dump>>
      PROVE  MergeInv'
  <2>1. Missing(iceOut') \/ CurrentIce(iceOut)'
    <3>1. CASE iceOut' = iceIn[s]
      BY <3>1, SameYear DEF CurrentIce, splice_icecouple, Copied, inputVars
    <3>2. CASE UNCHANGED iceOut
      BY <3>2, SameGlobal DEF splice_icecouple, Copied
    <3> QED
      BY <1>4, <3>1, <3>2
  <2> QED
    BY <1>2, <1>4, <2>1
<1> QED
  BY <1>1, <1>3, <1>4, Zenon DEF splice_icecouple, Copied

LEMMA ReadInv == ASSUME MergeInv, ReadInputs PROVE MergeInv'
<1>1. CASE Missing(iceOut)
  BY <1>1, GiveUpInv DEF ReadInputs
<1>2. CASE ~Missing(iceOut)
  <2> USE <1>2 DEF ReadInputs
  <2>1. FilesInv'
    BY SameYear, SameGlobal DEF FilesInv, globalVars
  <2>2. TaskInv' /\ OutputInv'
    BY DEF MergeInv, TaskInv, OutputInv, AfterSplice, globalVars
  <2> QED
    BY <2>1, <2>2, SameYear DEF MergeInv
<1> QED
  BY <1>1, <1>2

-------------------------------------------------------------------------------
(* The passes over the file and the dump *)

LEMMA PolarRowsInv == ASSUME MergeInv, fix_polarrow_tilefrac PROVE MergeInv'
<1> USE DEF fix_polarrow_tilefrac
<1>1. ~Missing(iceOut) /\ CurrentIce(iceOut)
  BY DEF MergeInv, FilesInv, TaskInv, AfterSplice
<1>2. ~Missing(iceOut') /\ CurrentIce(iceOut)'
  <2>1. ASSUME NEW box, IsIceBox(box)
        PROVE  LET mended == [box EXCEPT !.land = Filled(@), !.ice = Filled(@)]
               IN  IsIceBox(mended) /\ mended.from = box.from
    BY <2>1 DEF IsIceBox, HasFields
  <2>2. CASE "fix_polarrow_landfrac" \in options
    <3>1. iceOut' = File([b \in Boxes |->
            IF b \in PolarRows
            THEN [iceOut.of[b] EXCEPT !.land = Filled(@), !.ice = Filled(@)]
            ELSE iceOut.of[b]])
      BY <2>2
    <3>2. \A b \in Boxes : IsIceBox(iceOut'.of[b]) /\ iceOut'.of[b].from = iceOut.of[b].from
      BY <1>1, <2>1, <3>1 DEF CurrentIce, File
    <3>3. ~Missing(iceOut') /\ year' = year
      BY <3>1 DEF File, Missing, inputVars
    <3>4. ASSUME NEW b \in Boxes PROVE IsIceBox(iceOut'.of[b]) /\ Current(iceOut.of[b].from)'
      <4>1. Current(iceOut.of[b].from)
        BY <1>1 DEF CurrentIce
      <4> QED
        BY <3>2, <3>3, <4>1 DEF Current
    <3> QED
      BY <3>3, <3>4 DEF CurrentIce, Current
  <2>3. CASE "fix_polarrow_landfrac" \notin options
    <3>1. UNCHANGED iceOut /\ UNCHANGED inputVars
      BY <2>3
    <3>2. ~Missing(iceOut')
      BY <1>1, <3>1
    <3> QED
      BY <3>1, <3>2, SameGlobal
  <2> QED
    BY <2>2, <2>3
<1>3. FilesInv'
  BY <1>2, SameYear, SameGlobal DEF FilesInv
<1>4. TaskInv' /\ OutputInv'
  BY <1>2 DEF MergeInv, TaskInv, OutputInv, AfterSplice
<1> QED
  BY <1>3, <1>4, SameYear DEF MergeInv

\* The passes over the dump in the task's memory: it is enough to say of each what
\* it leaves of a box.
LEMMA PassInv ==
  ASSUME MergeInv, pc \in AfterSplice, UNCHANGED <<inputVars, globalVars, um_output>>,
         pc' \in AfterSplice,
         \A b \in Boxes : IsBox(um_dump'[b]),
         pc' \in {"tile_fracs", "temperatures", "write"}
           => \A b \in Boxes : Current(um_dump'[b].orog),
         pc' \in {"temperatures", "write"} => \A b \in Boxes : Current(um_dump'[b].tiles),
         pc' = "write" /\ Temperatures => \A b \in Boxes : Current(um_dump'[b].tsurf)
  PROVE  MergeInv'
<1>1. FilesInv'
  BY SameYear, SameGlobal DEF FilesInv, globalVars
<1>2. TaskInv' /\ OutputInv'
  BY DEF MergeInv, TaskInv, OutputInv, AfterSplice, Current, Temperatures, inputVars, globalVars
<1> QED
  BY <1>1, <1>2, SameYear DEF MergeInv

\* A pass that puts one field into a box leaves the box its others.
LEMMA OrographyPut ==
  ASSUME NEW box, IsBox(box), NEW o, NEW new, new = [box EXCEPT !.orog = o]
  PROVE  IsBox(new) /\ new.orog = o
BY DEF IsBox, HasFields

LEMMA TemperaturePut ==
  ASSUME NEW box, IsBox(box), NEW u, NEW new, new = [box EXCEPT !.tsurf = u]
  PROVE  IsBox(new) /\ new.tsurf = u /\ new.orog = box.orog /\ new.tiles = box.tiles
BY DEF IsBox, HasFields

\* The pass that puts two fields into a box.
TilesPut(b) == IF TakesTiles(b) THEN iceOut.of[b].from ELSE Before(b).tiles

LEMMA TileFracsStep ==
  ASSUME insert_tile_fracs
  PROVE  /\ pc = "tile_fracs" /\ pc' = "temperatures"
         /\ UNCHANGED <<inputVars, globalVars, um_output>>
         /\ \A b \in Boxes : IsBox(um_dump[b]) =>
              /\ IsBox(um_dump'[b])
              /\ um_dump'[b].tiles = TilesPut(b) /\ um_dump'[b].orog = um_dump[b].orog
<1>1. pc = "tile_fracs" /\ pc' = "temperatures" /\ UNCHANGED <<inputVars, globalVars, um_output>>
  BY Zenon DEF insert_tile_fracs
<1>2. ASSUME NEW b \in Boxes, IsBox(um_dump[b])
      PROVE  /\ IsBox(um_dump'[b])
             /\ um_dump'[b].tiles = TilesPut(b) /\ um_dump'[b].orog = um_dump[b].orog
  <2> DEFINE box == iceOut.of[b]
             Part(f) == [e \in Elevs |-> (f[e] * box.land[e] * Unit) \div Overlap(b)]
             split == [ice |-> Part(box.ice), rock |-> Part([e \in Elevs |-> Unit - box.ice[e]])]
             frac == IF TakesTiles(b) THEN split ELSE Before(b).frac
  <2>1. um_dump'[b] = [um_dump[b] EXCEPT !.tiles = TilesPut(b), !.frac = frac]
    BY Zenon DEF insert_tile_fracs, TilesPut
  <2> HIDE DEF frac
  <2> QED
    BY <1>2, <2>1 DEF IsBox, HasFields
<1> QED
  BY <1>1, <1>2, Zenon

LEMMA NewLsmInv == ASSUME MergeInv, new_lsm PROVE MergeInv'
<1> USE DEF new_lsm
<1>1. \A b \in Boxes : IsBox(um_dump'[b])
  <2>1. \A b \in Boxes : IsBox(um_dump[b])
    BY DEF MergeInv, TaskInv
  <2>2. CASE "new_landseamask" \in options
    <3>1. PICK near \in Boxes :
            um_dump' = [b \in Boxes |->
              LET kept == IF um_dump[b].tiles = Mdi THEN um_dump[near] ELSE um_dump[b]
                  lost == [kept EXCEPT !.tiles = Mdi, !.tsurf = Mdi, !.frac = [ice |-> None, rock |-> None]]
              IN  [IF b \in NewLand THEN kept ELSE lost
                   EXCEPT !.land = b \in NewLand, !.orog = um_dump[b].orog]]
      BY <2>2
    <3>2. \A box, mdi, none : IsBox(box)
            => IsBox([box EXCEPT !.tiles = mdi, !.tsurf = mdi, !.frac = none])
      BY ZenonT(30) DEF IsBox, HasFields
    <3>3. \A box, land, orog : IsBox(box) => IsBox([box EXCEPT !.land = land, !.orog = orog])
      BY ZenonT(30) DEF IsBox, HasFields
    <3> QED
      BY <2>1, <3>1, <3>2, <3>3
  <2>3. CASE "new_landseamask" \notin options
    BY <2>1, <2>3
  <2> QED
    BY <2>2, <2>3
<1> QED
  BY <1>1, PassInv DEF AfterSplice

LEMMA OrographyInv == ASSUME MergeInv, insert_cap_ice_orog PROVE MergeInv'
<1>1. ASSUME NEW b \in Boxes
      PROVE  IsBox(um_dump'[b]) /\ Current(um_dump'[b].orog)
  <2>1. IsBox(um_dump[b]) /\ Current(orogOut.of[b])
    BY DEF MergeInv, FilesInv, TaskInv, AfterSplice, insert_cap_ice_orog
  <2>2. Current(RefDump[b].orog)
    BY ReferenceBoxes DEF Current
  <2>3. um_dump'[b] = [um_dump[b] EXCEPT
                         !.orog = IF TakesOrography(b) THEN orogOut.of[b] ELSE RefDump[b].orog]
    BY DEF insert_cap_ice_orog
  <2>4. /\ IsBox(um_dump'[b])
        /\ um_dump'[b].orog = IF TakesOrography(b) THEN orogOut.of[b] ELSE RefDump[b].orog
    BY <2>1, <2>3, OrographyPut
  <2> QED
    BY <2>1, <2>2, <2>4
<1> QED
  BY <1>1, PassInv DEF AfterSplice, insert_cap_ice_orog

LEMMA TileFracsInv == ASSUME MergeInv, insert_tile_fracs PROVE MergeInv'
<1>1. ASSUME NEW b \in Boxes
      PROVE  IsBox(um_dump'[b]) /\ Current(um_dump'[b].orog) /\ Current(um_dump'[b].tiles)
  <2>1. IsBox(um_dump[b]) /\ Current(um_dump[b].orog) /\ Current(iceOut.of[b].from)
    BY TileFracsStep DEF MergeInv, FilesInv, TaskInv, AfterSplice, CurrentIce
  <2>2. Current(TilesPut(b))
    BY <2>1, ReferenceBoxes DEF Current, Before, TilesPut
  <2>3. IsBox(um_dump'[b]) /\ um_dump'[b].tiles = TilesPut(b) /\ um_dump'[b].orog = um_dump[b].orog
    BY <2>1, TileFracsStep, Zenon
  <2> QED
    BY <2>1, <2>2, <2>3
<1> QED
  BY <1>1, TileFracsStep, PassInv DEF AfterSplice

LEMMA TemperaturesInv == ASSUME MergeInv, insert_tsurf_elev PROVE MergeInv'
<1>1. ASSUME NEW b \in Boxes
      PROVE  /\ IsBox(um_dump'[b]) /\ Current(um_dump'[b].orog) /\ Current(um_dump'[b].tiles)
             /\ Temperatures => Current(um_dump'[b].tsurf)
  <2>1. /\ IsBox(um_dump[b]) /\ Current(um_dump[b].orog) /\ Current(um_dump[b].tiles)
        /\ Current(iceOut.of[b].from)
    BY DEF MergeInv, FilesInv, TaskInv, AfterSplice, CurrentIce, insert_tsurf_elev
  <2>2. CASE Temperatures
    <3> DEFINE tsurf == IF TakesTiles(b) THEN iceOut.of[b].from ELSE Before(b).tsurf
    <3>1. um_dump'[b] = [um_dump[b] EXCEPT !.tsurf = tsurf]
      BY <2>2 DEF Temperatures, insert_tsurf_elev
    <3>2. Current(tsurf)
      BY <2>1, ReferenceBoxes DEF Current, Before
    <3> HIDE DEF tsurf
    <3>3. /\ IsBox(um_dump'[b]) /\ um_dump'[b].tsurf = tsurf
          /\ um_dump'[b].orog = um_dump[b].orog /\ um_dump'[b].tiles = um_dump[b].tiles
      BY <2>1, <3>1 DEF IsBox, HasFields
    <3> QED
      BY <2>1, <3>2, <3>3
  <2>3. CASE ~Temperatures
    BY <2>1, <2>3 DEF Temperatures, insert_tsurf_elev
  <2> QED
    BY <2>2, <2>3
<1> QED
  BY <1>1, PassInv DEF AfterSplice, insert_tsurf_elev

LEMMA WriteDumpInv == ASSUME MergeInv, WriteDump PROVE MergeInv'
<1> USE DEF WriteDump
<1>1. FilesInv'
  BY SameYear, SameGlobal DEF FilesInv, globalVars
<1>2. TaskInv'
  BY ReferenceBoxes DEF MergeInv, TaskInv, AfterSplice
<1>3. OutputInv'
  BY DEF MergeInv, TaskInv, OutputInv, AfterSplice, Current, Temperatures, inputVars
<1> QED
  BY <1>1, <1>2, <1>3, SameYear DEF MergeInv

-------------------------------------------------------------------------------
(* The invariant, and the property it was made for *)

\* What any task has in hand of an ice sheet, and what the climate model goes on with,
\* is of the year: every field a pass leaves alone is overwritten by a later pass or
\* was written by an earlier one of the same attempt, whichever files are there.
THEOREM MergeCorrect == Spec => []MergeInv
<1>1. Init => MergeInv
  BY InitInv
<1>2. MergeInv /\ [Next]_vars => MergeInv'
  <2> SUFFICES ASSUME MergeInv, [Next]_vars PROVE MergeInv'
    OBVIOUS
  <2>1. CASE NextYear
    BY <2>1, NextYearInv
  <2>2. CASE Submit
    BY <2>2, SubmitInv
  <2>3. CASE Statement
    BY <2>3, SpliceCapInv, WriteOrogInv, SpliceIceInv, ReadInv, PolarRowsInv, NewLsmInv,
       OrographyInv, TileFracsInv, TemperaturesInv, WriteDumpInv DEF Statement
  <2>4. CASE Killed
    BY <2>4, GiveUpInv DEF Killed
  <2>5. CASE UNCHANGED vars
    <3>1. FilesInv'
      BY <2>5, SameYear, SameGlobal DEF FilesInv, vars, globalVars
    <3>2. TaskInv' /\ OutputInv'
      BY <2>5 DEF MergeInv, TaskInv, OutputInv, Current, Temperatures,
                  vars, inputVars, globalVars, taskVars
    <3> QED
      BY <2>5, <3>1, <3>2, SameYear DEF MergeInv, vars
  <2> QED
    BY <2>1, <2>2, <2>3, <2>4, <2>5 DEF Next
<1> QED
  BY <1>1, <1>2, PTL DEF Spec

\* Nothing in the dump that goes on is an ice sheet's of an earlier year
\* (unicicles_cap_global_to_um.py, whose files are all optional).
THEOREM MergedIsOfTheYear == Spec => []NothingOld
BY MergeCorrect, InvGivesNothingOld, PTL

-------------------------------------------------------------------------------
(* Which sheet a box belongs to *)

Wholes(f) == f[1] \in Nat /\ f[2] \in Nat

\* What an ice sheet's own file says of a box.
InputBox(s, b, box) ==
  /\ Wholes(box.land) /\ Sum(box.land) = Cover[s][b]
  /\ box.raised => Cover[s][b] > 0
  /\ Cover[s][b] > 0 => box.from = <<s, year>>

\* The box of a sheet that covers it whole is as the sheet has it.
Carries(s, b, box) ==
  ~Missing(iceIn[s]) /\ Cover[s][b] = Unit =>
    Sum(box.land) = Unit /\ (box.raised <=> iceIn[s].of[b].raised) /\ box.from = <<s, year>>

\* What the global file says of it.
MergedBox(b, box) ==
  /\ Wholes(box.land) /\ Sum(box.land) <= Unit
  /\ box.raised => \E s \in Sheets : Cover[s][b] > 0 /\ box.from = <<s, year>>
  /\ \A s \in Sheets : Carries(s, b, box)

OrographyOf(b, source) ==
  source[1] \in Sheets => b \in Block[source[1]] /\ source = <<source[1], year>>

\* The two properties, of a box.
Agrees(b, box) ==
  /\ box.orog[1] \in Sheets => box.tiles = box.orog
  /\ \A s \in Sheets : ~Missing(iceIn[s]) /\ Cover[s][b] = Unit /\ iceIn[s].of[b].raised
       => box.tiles = <<s, year>>

SheetFiles ==
  \A s \in Sheets : /\ Missing(orogIn[s]) \/ orogIn[s].of = <<s, year>>
                    /\ Missing(iceIn[s]) \/ \A b \in Boxes : InputBox(s, b, iceIn[s].of[b])

SheetGlobal ==
  /\ Missing(orogOut) \/ \A b \in Boxes : OrographyOf(b, orogOut.of[b])
  /\ Missing(iceOut) \/ \A b \in Boxes : MergedBox(b, iceOut.of[b])

\* Between the pass for orography and that for tiles the boxes that took the one are
\* known by its mask; after both they have taken the other.
SheetTask ==
  /\ pc = "write_orog" => \A b \in Boxes : OrographyOf(b, final_orog[b])
  /\ pc = "tile_fracs" => \A b \in Boxes :
       um_dump[b].orog[1] \in Sheets => TakesOrography(b) /\ um_dump[b].orog = orogOut.of[b]
  /\ pc \in {"temperatures", "write"} => \A b \in ElevatedTiles : Agrees(b, um_dump[b])
  /\ Finished => \A b \in ElevatedTiles : Agrees(b, um_output[b])

SheetInv == SheetFiles /\ SheetGlobal /\ SheetTask

LEMMA InvGivesAgreement == MergeInv /\ SheetInv => OrographyWithTiles /\ SheetsArrive
BY DEF MergeInv, SheetInv, SheetTask, Agrees, OrographyWithTiles, SheetsArrive

-------------------------------------------------------------------------------
(* Arithmetic of fractions *)

LEMMA Whole ==
  /\ Unit \in Nat \ {0} /\ 1 \in Elevs /\ 2 \in Elevs
  /\ \A s \in Sheets, b \in Boxes : Cover[s][b] \in 0..Unit
  /\ \A b \in Boxes : Coast[b] \in 0..Unit
  /\ ElevatedTiles \subseteq Boxes
BY ConstantsAssumption DEF Elevs

LEMMA DivCancel ==
  ASSUME NEW x \in Nat, NEW c \in Nat \ {0}
  PROVE  (x * c) \div c = x
OBVIOUS

LEMMA Halved ==
  ASSUME NEW whole \in Nat, NEW cover \in 0..whole, NEW k \in {0, 1, 2}
  PROVE  (cover * k) \div 2 \in Nat /\ cover - ((cover * k) \div 2) \in Nat
<1>1. CASE k = 0
  BY <1>1
<1>2. CASE k = 1
  BY <1>2
<1>3. CASE k = 2
  BY <1>3
<1> QED
  BY <1>1, <1>2, <1>3

LEMMA DivBelow ==
  ASSUME NEW x \in Nat, NEW c \in Nat \ {0}
  PROVE  x \div c \in Nat /\ (x \div c) * c <= x
OBVIOUS

LEMMA DivideOrder ==
  ASSUME NEW q \in Nat, NEW whole \in Nat, NEW part \in Nat \ {0}, q * part <= part * whole
  PROVE  q <= whole
OBVIOUS

\* Two parts, stretched to fill the whole and rounded down, fit in it.
LEMMA Stretched ==
  ASSUME NEW f \in Nat, NEW g \in Nat, NEW whole \in Nat \ {0}, f + g > 0
  PROVE  /\ (f * whole) \div (f + g) \in Nat /\ (g * whole) \div (f + g) \in Nat
         /\ (f * whole) \div (f + g) + (g * whole) \div (f + g) <= whole
<1> DEFINE p == (f * whole) \div (f + g)
           q == (g * whole) \div (f + g)
<1>1. f * whole \in Nat /\ g * whole \in Nat /\ f + g \in Nat \ {0}
  OBVIOUS
<1>2. p \in Nat /\ q \in Nat /\ p * (f + g) <= f * whole /\ q * (f + g) <= g * whole
  BY <1>1, DivBelow
<1> HIDE DEF p, q
<1>3. (p + q) * (f + g) <= (f + g) * whole
  BY <1>2
<1>4. p + q <= whole
  BY <1>1, <1>2, <1>3, DivideOrder
<1> QED
  BY <1>2, <1>4 DEF p, q

\* Two fractions whose product is whole are each the whole.
LEMMA ProductWhole ==
  ASSUME NEW whole \in Nat \ {0}, NEW x \in 0..whole, NEW y \in 0..whole, x * y = whole * whole
  PROVE  x = whole
<1>1. x * (whole - y) >= 0 /\ x * y = x * whole - x * (whole - y)
  OBVIOUS
<1>2. x < whole => x * whole < whole * whole
  OBVIOUS
<1> QED
  BY <1>1, <1>2

LEMMA FilledFits ==
  ASSUME NEW f, Wholes(f), Sum(f) <= Unit
  PROVE  /\ Wholes(Filled(f)) /\ Sum(Filled(f)) <= Unit
         /\ Sum(f) = Unit => Filled(f) = f
<1> USE Whole
<1>1. f[1] \in Nat /\ f[2] \in Nat /\ Sum(f) = f[1] + f[2]
  BY DEF Sum, Wholes
<1>2. CASE Sum(f) = 0
  BY <1>2 DEF Filled, Sum, Wholes, None
<1>3. CASE Sum(f) \in 1..Unit - 1
  <2>1. Filled(f) = [e \in Elevs |-> (f[e] * Unit) \div Sum(f)]
    BY <1>3 DEF Filled
  <2>2. /\ Filled(f)[1] = (f[1] * Unit) \div (f[1] + f[2])
        /\ Filled(f)[2] = (f[2] * Unit) \div (f[1] + f[2])
    BY <1>1, <2>1
  <2>3. f[1] + f[2] > 0
    BY <1>1, <1>3
  <2>4. /\ Filled(f)[1] \in Nat /\ Filled(f)[2] \in Nat
        /\ Filled(f)[1] + Filled(f)[2] <= Unit
    BY <1>1, <2>2, <2>3, Stretched
  <2>5. Wholes(Filled(f)) /\ Sum(Filled(f)) <= Unit
    BY <2>4 DEF Wholes, Sum
  <2> QED
    BY <1>3, <2>5
<1>4. CASE Sum(f) = Unit
  BY <1>1, <1>4 DEF Filled, Wholes
<1> QED
  BY <1>1, <1>2, <1>3, <1>4

\* Of two boxes of which one sheet covers nothing the mean is the other's.
LEMMA MeanOfOne ==
  ASSUME NEW x \in Nat, NEW y \in Nat, NEW c \in Nat \ {0}
  PROVE  (x * c + y * 0) \div (c + 0) = x /\ (y * 0 + x * c) \div (0 + c) = x
<1>1. x * c + y * 0 = x * c /\ y * 0 + x * c = x * c /\ c + 0 = c /\ 0 + c = c
  OBVIOUS
<1> QED
  BY <1>1, DivCancel

\* A box of the merged file that is one sheet's.
BoxOf(s, b, own, w) ==
  /\ Wholes(w.land) /\ Sum(w.land) = Cover[s][b]
  /\ w.raised => Cover[s][b] > 0
  /\ Cover[s][b] > 0 => (w.raised <=> own.raised) /\ w.from = own.from

LEMMA WeightedIsOnes ==
  ASSUME NEW b \in Boxes, NEW g, NEW a, InputBox("GrIS", b, g), InputBox("AIS", b, a),
         NEW w, w = Weighted(g, a)
  PROVE  /\ Cover["AIS"][b] = 0 => BoxOf("GrIS", b, g, w)
         /\ Cover["GrIS"][b] = 0 => BoxOf("AIS", b, a, w)
<1> DEFINE cg == Sum(g.land)
           ca == Sum(a.land)
           Mean(x, y) == [e \in Elevs |-> (x[e] * cg + y[e] * ca) \div (cg + ca)]
<1>1. /\ cg = Cover["GrIS"][b] /\ cg \in Nat /\ ca = Cover["AIS"][b] /\ ca \in Nat
      /\ g.land[1] \in Nat /\ g.land[2] \in Nat /\ a.land[1] \in Nat /\ a.land[2] \in Nat
  BY Whole DEF InputBox, Wholes, Sheets
<1>2. CASE cg + ca = 0
  <2>1. w = g
    BY <1>2 DEF Weighted
  <2>2. cg = 0 /\ ca = 0
    BY <1>1, <1>2
  <2>3. ~g.raised
    BY <1>1, <2>2 DEF InputBox
  <2> QED
    BY <1>1, <2>1, <2>2, <2>3 DEF InputBox, BoxOf
<1>3. CASE cg + ca # 0
  <2>1. w = [land |-> Mean(g.land, a.land), ice |-> Mean(g.ice, a.ice),
             raised |-> (g.raised /\ cg > 0) \/ (a.raised /\ ca > 0),
             from |-> IF cg > 0 THEN g.from ELSE a.from]
    BY <1>3 DEF Weighted
  <2>2. \A e \in Elevs : w.land[e] = (g.land[e] * cg + a.land[e] * ca) \div (cg + ca)
    BY <2>1
  <2>3. w.raised <=> (g.raised /\ cg > 0) \/ (a.raised /\ ca > 0)
    <3>1. w.raised = ((g.raised /\ cg > 0) \/ (a.raised /\ ca > 0))
      BY <2>1
    <3> QED
      BY <3>1, Zenon
  <2>4. w.from = IF cg > 0 THEN g.from ELSE a.from
    BY <2>1
  <2> HIDE DEF cg, ca
  <2>5. CASE ca = 0
    <3>1. cg \in Nat \ {0}
      BY <1>1, <1>3, <2>5
    <3>2. w.land[1] = g.land[1] /\ w.land[2] = g.land[2]
      <4>1. \A e \in Elevs : w.land[e] = (g.land[e] * cg + a.land[e] * 0) \div (cg + 0)
        BY <2>2, <2>5
      <4>2. /\ (g.land[1] * cg + a.land[1] * 0) \div (cg + 0) = g.land[1]
            /\ (g.land[2] * cg + a.land[2] * 0) \div (cg + 0) = g.land[2]
        BY <1>1, <3>1, MeanOfOne, ZenonT(30)
      <4> QED
        BY <1>1, <4>1, <4>2, Whole
    <3>3. Wholes(w.land) /\ Sum(w.land) = cg
      BY <1>1, <3>2 DEF Wholes, Sum, cg
    <3> QED
      BY <1>1, <2>3, <2>4, <2>5, <3>1, <3>3 DEF BoxOf
  <2>6. CASE cg = 0
    <3>1. ca \in Nat \ {0}
      BY <1>1, <1>3, <2>6
    <3>2. w.land[1] = a.land[1] /\ w.land[2] = a.land[2]
      <4>1. \A e \in Elevs : w.land[e] = (g.land[e] * 0 + a.land[e] * ca) \div (0 + ca)
        BY <2>2, <2>6
      <4>2. /\ (g.land[1] * 0 + a.land[1] * ca) \div (0 + ca) = a.land[1]
            /\ (g.land[2] * 0 + a.land[2] * ca) \div (0 + ca) = a.land[2]
        BY <1>1, <3>1, MeanOfOne, ZenonT(30)
      <4> QED
        BY <1>1, <4>1, <4>2, Whole
    <3>3. Wholes(w.land) /\ Sum(w.land) = ca
      BY <1>1, <3>2 DEF Wholes, Sum, ca
    <3> QED
      BY <1>1, <2>3, <2>4, <2>6, <3>1, <3>3 DEF BoxOf
  <2> QED
    BY <1>1, <2>5, <2>6
<1> QED
  BY <1>2, <1>3

LEMMA SheetInit == ASSUME Init PROVE SheetInv
<1>1. SheetFiles
  BY DEF SheetFiles, Init, NoFile, Missing
<1>2. SheetGlobal
  BY DEF SheetGlobal, Init, NoFile, Missing
<1>3. pc = "done" /\ ~Finished
  BY DEF Init, Finished
<1>4. SheetTask
  BY <1>3 DEF SheetTask
<1> QED
  BY <1>1, <1>2, <1>4 DEF SheetInv

-------------------------------------------------------------------------------
(* The steps keep the sheets apart *)

\* At the statements that have no dump in hand there is nothing to say of it.
LEMMA SheetQuiet ==
  ASSUME pc' \in {"idle", "splice_cap", "splice_icecouple", "read", "polar_rows",
                  "land_mask", "orography"}
  PROVE  SheetTask'
BY DEF SheetTask, Finished

LEMMA SheetNextYear == ASSUME MergeInv, NextYear PROVE SheetInv'
<1>1. ASSUME NEW s \in Sheets
      PROVE  /\ Missing(orogIn'[s]) \/ orogIn'[s].of = <<s, year'>>
             /\ Missing(iceIn'[s]) \/ \A b \in Boxes : InputBox(s, b, iceIn[s].of[b])'
  <2>1. PICK withOrog, withIce \in SUBSET Sheets, shape \in [Sheets -> Shapes] :
          /\ \A t \in Sheets \ withIce : shape[t] = CHOOSE any \in Shapes : TRUE
          /\ orogIn' = [t \in Sheets |-> IF t \in withOrog THEN File(<<t, year + 1>>) ELSE NoFile]
          /\ iceIn' = [t \in Sheets |-> IF t \in withIce
                                        THEN File([b \in Boxes |-> IceBox(t, b, shape[t])])
                                        ELSE NoFile]
    BY Zenon DEF NextYear
  <2>2. year' = year + 1
    BY DEF NextYear
  <2>3. Missing(orogIn'[s]) \/ orogIn'[s].of = <<s, year'>>
    BY <2>1, <2>2 DEF File, NoFile, Missing
  <2>4. Missing(iceIn'[s]) \/ \A b \in Boxes : iceIn'[s].of[b] = IceBox(s, b, shape[s])
    BY <2>1 DEF File, NoFile, Missing
  <2>5. ASSUME NEW b \in Boxes, NEW box, box = IceBox(s, b, shape[s])
        PROVE  InputBox(s, b, box)'
    <3> DEFINE cover == Cover[s][b]
               low == (cover * shape[s].low) \div 2
    <3>1. cover \in 0..Unit /\ Unit \in Nat
      BY Whole
    <3>2. CASE cover = 0
      <4>1. box.land = None /\ box.raised = FALSE
        BY <2>5, <3>2 DEF IceBox
      <4>2. Wholes(box.land) /\ Sum(box.land) = 0
        BY <4>1, Whole DEF Wholes, Sum, None
      <4>3. ~box.raised
        BY <4>1, Zenon
      <4> QED
        BY <3>2, <4>2, <4>3 DEF InputBox
    <3>3. CASE cover # 0
      <4>1. box.land = [e \in Elevs |-> IF e = 1 THEN low ELSE cover - low] /\ box.from = <<s, year'>>
        BY <2>2, <2>5, <3>3 DEF IceBox
      <4>2. low \in Nat /\ cover - low \in Nat
        <5>1. shape[s].low \in {0, 1, 2}
          BY ConstantsAssumption
        <5> QED
          BY <3>1, <5>1, Halved, Zenon
      <4>3. box.land[1] = low /\ box.land[2] = cover - low
        BY <4>1, Whole
      <4>4. Wholes(box.land) /\ Sum(box.land) = cover /\ cover > 0
        BY <3>1, <3>3, <4>2, <4>3 DEF Wholes, Sum
      <4> QED
        BY <4>1, <4>4 DEF InputBox
    <3> QED
      BY <3>2, <3>3
  <2> QED
    BY <2>3, <2>4, <2>5
<1>2. SheetFiles'
  BY <1>1 DEF SheetFiles
<1>3. SheetGlobal'
  <2>1. orogOut' = NoFile /\ iceOut' = NoFile
    BY Zenon DEF NextYear
  <2> QED
    BY <2>1 DEF SheetGlobal, NoFile, Missing
<1>4. pc' = "idle"
  BY Zenon DEF NextYear
<1>5. SheetTask'
  BY <1>4, SheetQuiet, Zenon
<1> QED
  BY <1>2, <1>3, <1>5 DEF SheetInv

\* What is said of files and boxes depends on the inputs only.
LEMMA SheetSame ==
  ASSUME SheetInv, UNCHANGED inputVars
  PROVE  /\ SheetFiles'
         /\ UNCHANGED orogOut => Missing(orogOut') \/ \A b \in Boxes : OrographyOf(b, orogOut.of[b])'
         /\ UNCHANGED iceOut => Missing(iceOut') \/ \A b \in Boxes : MergedBox(b, iceOut.of[b])'
         /\ \A b, box : Agrees(b, box)' <=> Agrees(b, box)
<1> USE DEF inputVars, InputBox, OrographyOf, MergedBox, Carries, Agrees
<1>1. SheetFiles'
  BY DEF SheetInv, SheetFiles
<1>2. \A b, box : Agrees(b, box)' <=> Agrees(b, box)
  OBVIOUS
<1>3. UNCHANGED orogOut => Missing(orogOut') \/ \A b \in Boxes : OrographyOf(b, orogOut.of[b])'
  BY DEF SheetInv, SheetGlobal
<1>4. UNCHANGED iceOut => Missing(iceOut') \/ \A b \in Boxes : MergedBox(b, iceOut.of[b])'
  <2>1. Missing(iceOut) \/ \A b \in Boxes : MergedBox(b, iceOut.of[b])
    BY DEF SheetInv, SheetGlobal
  <2>2. ASSUME UNCHANGED iceOut, NEW b \in Boxes
        PROVE  MergedBox(b, iceOut.of[b])' <=> MergedBox(b, iceOut.of[b])
    BY <2>2
  <2> QED
    BY <2>1, <2>2, Zenon DEF Missing
<1> QED
  BY <1>1, <1>2, <1>3, <1>4

\* So a step that leaves the files and comes to such a statement keeps the invariant.
LEMMA SheetKept ==
  ASSUME SheetInv, UNCHANGED <<inputVars, globalVars>>,
         pc' \in {"idle", "splice_cap", "splice_icecouple", "read", "polar_rows",
                  "land_mask", "orography"}
  PROVE  SheetInv'
<1>1. SheetGlobal'
  BY SheetSame DEF SheetGlobal, globalVars
<1> QED
  BY <1>1, SheetSame, SheetQuiet DEF SheetInv

LEMMA SheetSpliceCap == ASSUME SheetInv, splice_cap_ancil PROVE SheetInv'
<1>1. CASE NoneFound(orogIn)
  BY <1>1, SheetKept DEF splice_cap_ancil, GiveUp
<1>2. CASE ~NoneFound(orogIn)
  <2> USE <1>2 DEF splice_cap_ancil
  <2>1. ASSUME NEW b \in Boxes PROVE OrographyOf(b, final_orog[b])'
    <3> DEFINE given == {s \in Sheets : ~Missing(orogIn[s]) /\ b \in Block[s]}
               from == IF "AIS" \in given THEN "AIS" ELSE "GrIS"
    <3>1. final_orog'[b] = IF given = {} THEN Ref ELSE orogIn[from].of
      OBVIOUS
    <3>2. CASE given = {}
      BY <3>1, <3>2, NotOfASheet DEF OrographyOf
    <3>3. CASE given # {}
      <4>1. from \in Sheets /\ ~Missing(orogIn[from]) /\ b \in Block[from]
        BY <3>3 DEF Sheets
      <4>2. final_orog'[b] = <<from, year>> /\ year' = year
        BY <3>1, <3>3, <4>1 DEF SheetInv, SheetFiles, inputVars
      <4> QED
        BY <4>1, <4>2 DEF OrographyOf
    <3> QED
      BY <3>2, <3>3
  <2>2. SheetTask'
    BY <2>1 DEF SheetTask, Finished
  <2>3. SheetGlobal'
    BY SheetSame DEF SheetGlobal, globalVars
  <2> QED
    BY <2>2, <2>3, SheetSame DEF SheetInv
<1> QED
  BY <1>1, <1>2

LEMMA SheetWriteOrog == ASSUME SheetInv, WriteOrog PROVE SheetInv'
<1> USE DEF WriteOrog
<1>1. \A b \in Boxes : OrographyOf(b, orogOut.of[b])'
  BY DEF SheetInv, SheetTask, OrographyOf, File, inputVars
<1>2. SheetGlobal'
  BY <1>1, SheetSame DEF SheetGlobal
<1> QED
  BY <1>2, SheetSame, SheetQuiet DEF SheetInv

\* A box of one sheet is a box of the merged file, if the other covers nothing.
LEMMA BoxOfMerged ==
  ASSUME NEW b \in Boxes, NEW s \in Sheets, NEW own, NEW w,
         ~Missing(iceIn[s]), own = iceIn[s].of[b], InputBox(s, b, own), BoxOf(s, b, own, w),
         \A t \in Sheets \ {s} : Missing(iceIn[t]) \/ Cover[t][b] = 0
  PROVE  MergedBox(b, w)
<1>1. Cover[s][b] \in 0..Unit /\ Unit \in Nat \ {0}
  BY Whole
<1>2. Wholes(w.land) /\ Sum(w.land) <= Unit
  BY <1>1 DEF BoxOf
<1>3. w.raised => Cover[s][b] > 0 /\ w.from = <<s, year>>
  BY DEF BoxOf, InputBox
<1>4. Carries(s, b, w)
  BY <1>1 DEF Carries, BoxOf, InputBox
<1>5. \A t \in Sheets \ {s} : Carries(t, b, w)
  BY <1>1 DEF Carries
<1> QED
  BY <1>2, <1>3, <1>4, <1>5 DEF MergedBox

LEMMA SheetSpliceIce == ASSUME SheetInv, splice_icecouple PROVE SheetInv'
<1> DEFINE found == {s \in Sheets : ~Missing(iceIn[s])}
<1>1. ASSUME NEW s \in Sheets, ~Missing(iceIn[s]), NEW b \in Boxes
      PROVE  InputBox(s, b, iceIn[s].of[b])
  BY <1>1 DEF SheetInv, SheetFiles
<1>2. CASE NoneFound(iceIn) /\ GiveUp /\ UNCHANGED iceOut
  BY <1>2, SheetKept DEF splice_icecouple, Copied, GiveUp, globalVars
<1>3. ASSUME pc' = "read", Missing(iceOut') \/ \A b \in Boxes : MergedBox(b, iceOut.of[b])'
      PROVE  SheetInv'
  <2>1. SheetGlobal'
    BY <1>3, SheetSame DEF SheetGlobal, splice_icecouple, Copied
  <2> QED
    BY <1>3, <2>1, SheetSame, SheetQuiet DEF SheetInv, splice_icecouple, Copied
<1>4. ASSUME NEW b \in Boxes, NEW box, MergedBox(b, box) PROVE MergedBox(b, box)'
  BY <1>4 DEF MergedBox, Carries, splice_icecouple, Copied, inputVars
<1>5. CASE /\ found = Sheets
           /\ iceOut' = File([b \in Boxes |-> Weighted(iceIn["GrIS"].of[b], iceIn["AIS"].of[b])])
           /\ pc' = "read" /\ UNCHANGED <<final_orog, um_dump>>
  <2>1. ASSUME NEW b \in Boxes PROVE MergedBox(b, iceOut'.of[b])
    <3> DEFINE g == iceIn["GrIS"].of[b]
               a == iceIn["AIS"].of[b]
    <3>1. iceOut'.of[b] = Weighted(g, a)
      BY <1>5 DEF File
    <3>2. /\ "GrIS" \in Sheets /\ "AIS" \in Sheets /\ Sheets = {"GrIS", "AIS"}
          /\ ~Missing(iceIn["GrIS"]) /\ ~Missing(iceIn["AIS"])
      BY <1>5 DEF Sheets
    <3>3. InputBox("GrIS", b, g) /\ InputBox("AIS", b, a)
      BY <1>1, <3>2
    <3> HIDE DEF g, a
    <3>4. CASE Cover["AIS"][b] = 0
      <4>1. BoxOf("GrIS", b, g, iceOut'.of[b])
        BY <3>1, <3>3, <3>4, WeightedIsOnes
      <4> QED
        BY <3>2, <3>3, <3>4, <4>1, BoxOfMerged DEF g
    <3>5. CASE Cover["GrIS"][b] = 0
      <4>1. BoxOf("AIS", b, a, iceOut'.of[b])
        BY <3>1, <3>3, <3>5, WeightedIsOnes
      <4> QED
        BY <3>2, <3>3, <3>5, <4>1, BoxOfMerged DEF a
    <3>6. Cover["AIS"][b] = 0 \/ Cover["GrIS"][b] = 0
      BY ConstantsAssumption, <3>2
    <3> QED
      BY <3>4, <3>5, <3>6
  <2> QED
    BY <1>3, <1>4, <1>5, <2>1
<1>6. ASSUME NEW s \in Sheets, found = {s}, iceOut' \in {iceIn[s], iceOut}, pc' = "read"
      PROVE  SheetInv'
  <2>1. CASE iceOut' = iceIn[s]
    <3>1. ASSUME NEW b \in Boxes PROVE MergedBox(b, iceOut'.of[b])
      <4>1. ~Missing(iceIn[s]) /\ \A t \in Sheets \ {s} : Missing(iceIn[t])
        BY <1>6
      <4>2. InputBox(s, b, iceIn[s].of[b])
        BY <1>1, <4>1
      <4>3. BoxOf(s, b, iceIn[s].of[b], iceIn[s].of[b])
        BY <4>2 DEF InputBox, BoxOf
      <4> QED
        BY <2>1, <4>1, <4>2, <4>3, BoxOfMerged
    <3> QED
      BY <1>3, <1>4, <1>6, <3>1
  <2>2. CASE UNCHANGED iceOut
    BY <1>3, <1>6, <2>2, SheetSame DEF splice_icecouple, Copied
  <2> QED
    BY <1>6, <2>1, <2>2
<1> QED
  BY <1>2, <1>5, <1>6, Zenon DEF splice_icecouple, Copied

LEMMA SheetPolarRows == ASSUME MergeInv, SheetInv, fix_polarrow_tilefrac PROVE SheetInv'
<1>1. ~Missing(iceOut) /\ \A b \in Boxes : IsIceBox(iceOut.of[b]) /\ MergedBox(b, iceOut.of[b])
  BY DEF MergeInv, FilesInv, TaskInv, AfterSplice, CurrentIce, SheetInv, SheetGlobal,
         fix_polarrow_tilefrac
<1>2. ASSUME NEW b \in Boxes, NEW box, IsIceBox(box), MergedBox(b, box),
             NEW mended, mended = [box EXCEPT !.land = Filled(@), !.ice = Filled(@)]
      PROVE  MergedBox(b, mended)
  <2>1. /\ mended.land = Filled(box.land) /\ mended.from = box.from
        /\ mended.raised = box.raised
    BY <1>2 DEF IsIceBox, HasFields
  <2>2. /\ Wholes(mended.land) /\ Sum(mended.land) <= Unit
        /\ Sum(box.land) = Unit => Sum(mended.land) = Unit
    BY <1>2, <2>1, FilledFits DEF MergedBox
  <2> QED
    BY <1>2, <2>1, <2>2 DEF MergedBox, Carries
<1>3. ASSUME NEW b \in Boxes, NEW box, MergedBox(b, box) PROVE MergedBox(b, box)'
  BY <1>3 DEF MergedBox, Carries, fix_polarrow_tilefrac, inputVars
<1>4. \A b \in Boxes : MergedBox(b, iceOut.of[b])'
  <2>1. CASE "fix_polarrow_landfrac" \in options
    <3> DEFINE Mended(b) == IF b \in PolarRows
                            THEN [iceOut.of[b] EXCEPT !.land = Filled(@), !.ice = Filled(@)]
                            ELSE iceOut.of[b]
    <3>0. iceOut' = File([b \in Boxes |-> Mended(b)])
      BY <2>1, Zenon DEF fix_polarrow_tilefrac
    <3> HIDE DEF Mended
    <3>1. \A b \in Boxes : iceOut'.of[b] = Mended(b)
      BY <3>0 DEF File
    <3>2. ASSUME NEW b \in Boxes PROVE MergedBox(b, iceOut'.of[b])
      <4>1. CASE b \in PolarRows
        <5>1. iceOut'.of[b] = [iceOut.of[b] EXCEPT !.land = Filled(@), !.ice = Filled(@)]
          BY <3>1, <4>1, Zenon DEF Mended
        <5> QED
          BY <1>1, <1>2, <5>1
      <4>2. CASE b \notin PolarRows
        BY <1>1, <3>1, <4>2 DEF Mended
      <4> QED
        BY <4>1, <4>2
    <3> QED
      BY <1>3, <3>2
  <2>2. CASE "fix_polarrow_landfrac" \notin options
    BY <1>1, <1>3, <2>2 DEF fix_polarrow_tilefrac
  <2> QED
    BY <2>1, <2>2
<1>5. SheetGlobal'
  BY <1>4, SheetSame DEF SheetGlobal, fix_polarrow_tilefrac
<1> QED
  BY <1>5, SheetSame, SheetQuiet DEF SheetInv, fix_polarrow_tilefrac

LEMMA SheetOrography == ASSUME MergeInv, SheetInv, insert_cap_ice_orog PROVE SheetInv'
<1>1. SheetGlobal' /\ SheetFiles'
  BY SheetSame DEF SheetGlobal, globalVars, insert_cap_ice_orog
<1>2. ASSUME NEW b \in Boxes, um_dump'[b].orog[1] \in Sheets
      PROVE  TakesOrography(b)' /\ um_dump'[b].orog = orogOut'.of[b]
  <2>1. IsBox(um_dump[b])
    BY DEF MergeInv, TaskInv
  <2>2. um_dump'[b] = [um_dump[b] EXCEPT
                         !.orog = IF TakesOrography(b) THEN orogOut.of[b] ELSE RefDump[b].orog]
    BY DEF insert_cap_ice_orog
  <2>3. um_dump'[b].orog = IF TakesOrography(b) THEN orogOut.of[b] ELSE RefDump[b].orog
    BY <2>1, <2>2, OrographyPut
  <2>4. TakesOrography(b)
    BY <1>2, <2>3, ReferenceBoxes
  <2> QED
    BY <2>3, <2>4 DEF TakesOrography, Overlap, insert_cap_ice_orog, globalVars
<1>3. pc' = "tile_fracs"
  BY DEF insert_cap_ice_orog
<1>4. SheetTask'
  BY <1>2, <1>3 DEF SheetTask, Finished
<1> QED
  BY <1>1, <1>4 DEF SheetInv

\* Where the reference has tiles by elevation, a box that takes the orography takes
\* the tiles: a share of the box that is whole after weighting by the coast was
\* whole before.
LEMMA OrographyImpliesTiles ==
  ASSUME NEW b \in ElevatedTiles, MergedBox(b, iceOut.of[b])
  PROVE  /\ TakesOrography(b) => TakesTiles(b)
         /\ iceOut.of[b].raised /\ Overlap(b) = Unit => TakesTiles(b)
<1>1. b \in Boxes /\ Unit \in Nat \ {0} /\ Coast[b] \in 0..Unit
  BY Whole
<1>2. Overlap(b) \in 0..Unit
  BY <1>1 DEF Overlap, MergedBox, Wholes, Sum
<1>3. Sum(RefDump[b].frac.ice) + Sum(RefDump[b].frac.rock) = Full
  <2>1. RefDump[b].frac = [rock |-> None, ice |-> [None EXCEPT ![1] = Full]]
    BY <1>1 DEF RefDump, RefFrac
  <2> QED
    BY <1>1, <2>1, Whole DEF Sum, None, Full
<1>4. Full > Full \div 2
  <2>1. Full \in Nat \ {0}
    BY <1>1 DEF Full
  <2> QED
    BY <2>1
<1>5. TakesOrography(b) => iceOut.of[b].raised /\ Overlap(b) = Unit
  BY <1>1, <1>2, ProductWhole DEF TakesOrography, WholeOnly, Full
<1> QED
  BY <1>3, <1>4, <1>5 DEF TakesTiles, WholeOnly

LEMMA SheetTileFracs == ASSUME MergeInv, SheetInv, insert_tile_fracs PROVE SheetInv'
<1>1. SheetGlobal' /\ SheetFiles'
  BY SheetSame, TileFracsStep DEF SheetGlobal, globalVars
<1>2. ASSUME NEW b \in ElevatedTiles PROVE Agrees(b, um_dump'[b])
  <2>1. /\ b \in Boxes /\ IsBox(um_dump[b])
        /\ MergedBox(b, iceOut.of[b]) /\ OrographyOf(b, orogOut.of[b])
        /\ um_dump[b].orog[1] \in Sheets => TakesOrography(b) /\ um_dump[b].orog = orogOut.of[b]
    BY Whole, TileFracsStep
       DEF MergeInv, FilesInv, TaskInv, AfterSplice, SheetInv, SheetGlobal, SheetTask
  <2> DEFINE box == iceOut.of[b]
  <2>2. /\ um_dump'[b].orog = um_dump[b].orog
        /\ TakesTiles(b) => um_dump'[b].tiles = box.from
    BY <2>1, TileFracsStep, Zenon DEF TilesPut
  <2>3. ASSUME um_dump[b].orog[1] \in Sheets PROVE um_dump'[b].tiles = um_dump[b].orog
    <3>1. TakesTiles(b) /\ box.raised
      BY <2>1, <2>3, OrographyImpliesTiles DEF TakesTiles
    <3>2. PICK s \in Sheets : Cover[s][b] > 0 /\ box.from = <<s, year>>
      BY <2>1, <3>1 DEF MergedBox
    <3>3. PICK t \in Sheets : b \in Block[t] /\ um_dump[b].orog = <<t, year>>
      BY <2>1, <2>3 DEF OrographyOf
    <3>4. s = t
      <4>1. Cover[s][b] \in 0..Unit /\ Unit \in Nat
        BY <2>1, Whole
      <4> QED
        BY <3>2, <3>3, <4>1, ConstantsAssumption
    <3> QED
      BY <2>2, <3>1, <3>2, <3>3, <3>4
  <2>4. ASSUME NEW s \in Sheets, ~Missing(iceIn[s]), Cover[s][b] = Unit, iceIn[s].of[b].raised
        PROVE  um_dump'[b].tiles = <<s, year>>
    <3>1. Sum(box.land) = Unit /\ box.raised /\ box.from = <<s, year>>
      BY <2>1, <2>4 DEF MergedBox, Carries
    <3> QED
      BY <2>1, <2>2, <3>1, OrographyImpliesTiles DEF Overlap
  <2> QED
    BY <2>2, <2>3, <2>4 DEF Agrees
<1>3. \A b \in ElevatedTiles : Agrees(b, um_dump[b])'
  BY <1>2, TileFracsStep DEF Agrees, inputVars
<1>4. pc' = "temperatures"
  BY TileFracsStep
<1>5. SheetTask'
  BY <1>3, <1>4 DEF SheetTask, Finished
<1> QED
  BY <1>1, <1>5 DEF SheetInv

LEMMA SheetTemperatures == ASSUME MergeInv, SheetInv, insert_tsurf_elev PROVE SheetInv'
<1>1. SheetGlobal' /\ SheetFiles'
  BY SheetSame DEF SheetGlobal, globalVars, insert_tsurf_elev
<1>2. ASSUME NEW b \in ElevatedTiles PROVE Agrees(b, um_dump[b])'
  <2>1. b \in Boxes /\ IsBox(um_dump[b]) /\ Agrees(b, um_dump[b])
    BY Whole DEF MergeInv, TaskInv, SheetInv, SheetTask, insert_tsurf_elev
  <2> DEFINE tsurf == IF TakesTiles(b) THEN iceOut.of[b].from ELSE Before(b).tsurf
  <2>2. um_dump'[b] = [um_dump[b] EXCEPT !.tsurf = tsurf] \/ um_dump'[b] = um_dump[b]
    BY <2>1 DEF insert_tsurf_elev
  <2> HIDE DEF tsurf
  <2>3. um_dump'[b].orog = um_dump[b].orog /\ um_dump'[b].tiles = um_dump[b].tiles
    BY <2>1, <2>2, TemperaturePut
  <2> QED
    BY <2>1, <2>3 DEF Agrees, insert_tsurf_elev, inputVars
<1>3. pc' = "write"
  BY DEF insert_tsurf_elev
<1>4. SheetTask'
  BY <1>2, <1>3 DEF SheetTask, Finished
<1> QED
  BY <1>1, <1>4 DEF SheetInv

LEMMA SheetWriteDump == ASSUME SheetInv, WriteDump PROVE SheetInv'
<1>1. SheetGlobal' /\ SheetFiles'
  BY SheetSame DEF SheetGlobal, globalVars, WriteDump
<1>2. \A b \in ElevatedTiles : Agrees(b, um_output[b])'
  BY DEF SheetInv, SheetTask, Agrees, WriteDump, inputVars
<1>3. pc' = "done"
  BY DEF WriteDump
<1>4. SheetTask'
  BY <1>2, <1>3 DEF SheetTask
<1> QED
  BY <1>1, <1>4 DEF SheetInv

\* Which sheet a box belongs to is the same in the orography, in the icecouple file and
\* in the dump.
THEOREM SheetsCorrect == Spec => []SheetInv
<1>1. Init => SheetInv
  BY SheetInit
<1>2. MergeInv /\ SheetInv /\ [Next]_vars => SheetInv'
  <2> SUFFICES ASSUME MergeInv, SheetInv, [Next]_vars PROVE SheetInv'
    OBVIOUS
  <2>1. CASE NextYear
    BY <2>1, SheetNextYear
  <2>2. CASE Submit
    BY <2>2, SheetKept DEF Submit
  <2>3. CASE ReadInputs
    BY <2>3, SheetKept DEF ReadInputs, GiveUp
  <2>4. CASE new_lsm
    BY <2>4, SheetKept DEF new_lsm
  <2>5. CASE Killed
    BY <2>5, SheetKept DEF Killed, GiveUp
  <2>6. CASE Statement /\ ~ReadInputs /\ ~new_lsm
    BY <2>6, SheetSpliceCap, SheetWriteOrog, SheetSpliceIce, SheetPolarRows, SheetOrography,
       SheetTileFracs, SheetTemperatures, SheetWriteDump DEF Statement
  <2>7. CASE UNCHANGED vars
    <3>1. SheetGlobal' /\ SheetFiles'
      BY <2>7, SheetSame DEF SheetGlobal, vars, globalVars
    <3>2. SheetTask'
      BY <2>7 DEF SheetInv, SheetTask, OrographyOf, TakesOrography, Overlap, Agrees, Finished,
                  vars, inputVars, globalVars, taskVars
    <3> QED
      BY <3>1, <3>2 DEF SheetInv
  <2> QED
    BY <2>1, <2>2, <2>3, <2>4, <2>5, <2>6, <2>7 DEF Next, Statement
<1> QED
  BY <1>1, <1>2, MergeCorrect, PTL DEF Spec

\* A box of elevated tiles has the orography of an ice sheet only with its tiles of the
\* same year, although the two passes choose their boxes by different masks
\* (cap_orog_to_um.py, tile_fracs_to_um.py).
THEOREM OrographyHasTiles == Spec => []OrographyWithTiles
BY SheetsCorrect, MergeCorrect, InvGivesAgreement, PTL

\* An ice sheet whose icecouple file is there reaches every box it covers and raises,
\* whatever the other sheet has left (splice_icecouple).
THEOREM EverySheetArrives == Spec => []SheetsArrive
BY SheetsCorrect, MergeCorrect, InvGivesAgreement, PTL
-------------------------------------------------------------------------------
(* The area of the tiles *)

Ints(f) == f[1] \in Int /\ f[2] \in Int

IceInts(file) == Missing(file) \/ \A b \in Boxes : Ints(file.of[b].ice)

\* The property, of a box.
AreaOf(b, box) ==
  Sum(box.frac.ice) + Sum(box.frac.rock) = IF b \in ElevatedTiles THEN Full ELSE 0

AreaInv ==
  /\ \A s \in Sheets : IceInts(iceIn[s])
  /\ IceInts(iceOut)
  /\ pc \in {"temperatures", "write"} => \A b \in Boxes : AreaOf(b, um_dump[b])
  /\ Finished => \A b \in Boxes : AreaOf(b, um_output[b])

LEMMA IntCancel ==
  ASSUME NEW x \in Int, NEW c \in Nat \ {0}
  PROVE  (x * c) \div c = x
OBVIOUS

LEMMA IntDiv ==
  ASSUME NEW x \in Int, NEW c \in Nat \ {0}
  PROVE  x \div c \in Int
OBVIOUS

\* Ice and rock of each class, weighted by its land, are the land.
LEMMA SplitIsWhole ==
  ASSUME NEW u \in Nat, NEW x \in Int, NEW y \in Int, NEW k \in Nat, NEW l \in Nat, k + l = u
  PROVE  (x * k + y * l) + ((u - x) * k + (u - y) * l) = u * u
<1>1. (u - x) * k = u * k - x * k /\ (u - y) * l = u * l - y * l
  OBVIOUS
<1>2. u * k + u * l = u * u
  OBVIOUS
<1>3. x * k \in Int /\ y * l \in Int /\ u * k \in Int /\ u * l \in Int
  OBVIOUS
<1> QED
  BY <1>1, <1>2, <1>3

\* The reference's tiles fill a box or are absent from it.
LEMMA ReferenceArea == ASSUME NEW b \in Boxes PROVE AreaOf(b, RefDump[b])
<1>1. RefDump[b].frac = [rock |-> None,
                         ice |-> IF b \in ElevatedTiles THEN [None EXCEPT ![1] = Full] ELSE None]
  BY DEF RefDump, RefFrac
<1>2. Full \in Nat
  BY Whole DEF Full
<1> QED
  BY <1>1, <1>2, Whole DEF AreaOf, Sum, None

\* So only a box that is elevated in the reference takes the ice sheet's.
LEMMA TakenIsElevated ==
  ASSUME NEW b \in Boxes, TakesTiles(b)
  PROVE  b \in ElevatedTiles /\ Sum(iceOut.of[b].land) = Unit
<1>1. Sum(RefDump[b].frac.ice) + Sum(RefDump[b].frac.rock) > Full \div 2 /\ Overlap(b) = Unit
  BY DEF TakesTiles, WholeOnly
<1>2. Full \in Nat
  BY Whole DEF Full
<1>3. ~(0 > Full \div 2)
  BY <1>2
<1> QED
  BY <1>1, <1>3, ReferenceArea DEF AreaOf, Overlap

LEMMA AreaTileFracs ==
  ASSUME MergeInv, SheetInv, AreaInv, insert_tile_fracs, NEW b \in Boxes
  PROVE  AreaOf(b, um_dump'[b])
<1> DEFINE box == iceOut.of[b]
           Part(f) == [e \in Elevs |-> (f[e] * box.land[e] * Unit) \div Overlap(b)]
           split == [ice |-> Part(box.ice), rock |-> Part([e \in Elevs |-> Unit - box.ice[e]])]
           frac == IF TakesTiles(b) THEN split ELSE Before(b).frac
<1>1. um_dump'[b] = [um_dump[b] EXCEPT !.tiles = TilesPut(b), !.frac = frac]
  BY Zenon DEF insert_tile_fracs, TilesPut
<1>2. IsBox(um_dump[b])
  BY DEF MergeInv, TaskInv
<1>3. um_dump'[b].frac = frac
  <2> HIDE DEF frac
  <2> QED
    BY <1>1, <1>2 DEF IsBox, HasFields
<1>4. CASE TakesTiles(b)
  <2>1. Wholes(box.land) /\ Ints(box.ice) /\ box.land[1] + box.land[2] = Unit /\ Overlap(b) = Unit
        /\ b \in ElevatedTiles
    BY <1>4, TakenIsElevated, TileFracsStep
       DEF MergeInv, TaskInv, AfterSplice, SheetInv, SheetGlobal, MergedBox, AreaInv, IceInts,
           Sum, Overlap
  <2> DEFINE k == box.land[1]  l == box.land[2]  x == box.ice[1]  y == box.ice[2]
  <2>2. k \in Nat /\ l \in Nat /\ x \in Int /\ y \in Int /\ Unit \in Nat \ {0} /\ k + l = Unit
    BY <2>1, Whole DEF Wholes, Ints
  <2>3. um_dump'[b].frac.ice = Part(box.ice)
        /\ um_dump'[b].frac.rock = Part([e \in Elevs |-> Unit - box.ice[e]])
    <3>1. um_dump'[b].frac = split
      BY <1>3, <1>4
    <3> HIDE DEF Part
    <3> QED
      BY <3>1
  <2>4. /\ um_dump'[b].frac.ice[1] = (x * k * Unit) \div Unit
        /\ um_dump'[b].frac.ice[2] = (y * l * Unit) \div Unit
        /\ um_dump'[b].frac.rock[1] = ((Unit - x) * k * Unit) \div Unit
        /\ um_dump'[b].frac.rock[2] = ((Unit - y) * l * Unit) \div Unit
    <3>1. um_dump'[b].frac.ice = [e \in Elevs |-> (box.ice[e] * box.land[e] * Unit) \div Unit]
      BY <2>1, <2>3
    <3>2. um_dump'[b].frac.rock = [e \in Elevs |-> ((Unit - box.ice[e]) * box.land[e] * Unit) \div Unit]
      BY <2>1, <2>3
    <3>3. 1 \in Elevs /\ 2 \in Elevs
      BY Whole
    <3> HIDE DEF box
    <3> QED
      BY <3>1, <3>2, <3>3
  <2> HIDE DEF k, l, x, y
  <2>5. x * k \in Int /\ y * l \in Int /\ (Unit - x) * k \in Int /\ (Unit - y) * l \in Int
    BY <2>2
  <2>6. /\ (x * k * Unit) \div Unit = x * k /\ (y * l * Unit) \div Unit = y * l
        /\ ((Unit - x) * k * Unit) \div Unit = (Unit - x) * k
        /\ ((Unit - y) * l * Unit) \div Unit = (Unit - y) * l
    BY <2>2, <2>5, IntCancel
  <2>7. Sum(um_dump'[b].frac.ice) + Sum(um_dump'[b].frac.rock)
          = (x * k + y * l) + ((Unit - x) * k + (Unit - y) * l)
    BY <2>4, <2>6 DEF Sum
  <2> QED
    BY <2>1, <2>2, <2>7, SplitIsWhole DEF AreaOf, Full
<1>5. CASE ~TakesTiles(b)
  BY <1>3, <1>5, ReferenceArea DEF AreaOf, Before
<1> QED
  BY <1>4, <1>5

\* The boxes of a file and of a dump are looked at by year and by file, not by statement.
LEMMA AreaQuiet ==
  ASSUME AreaInv, UNCHANGED <<inputVars, iceOut>>,
         pc' \notin {"temperatures", "write", "done"}
  PROVE  AreaInv'
BY DEF AreaInv, IceInts, inputVars, Finished

LEMMA AreaNextYear == ASSUME AreaInv, NextYear PROVE AreaInv'
<1>1. ASSUME NEW s \in Sheets PROVE IceInts(iceIn[s])'
  <2>1. PICK withOrog, withIce \in SUBSET Sheets, shape \in [Sheets -> Shapes] :
          /\ \A t \in Sheets \ withIce : shape[t] = CHOOSE any \in Shapes : TRUE
          /\ orogIn' = [t \in Sheets |-> IF t \in withOrog THEN File(<<t, year + 1>>) ELSE NoFile]
          /\ iceIn' = [t \in Sheets |-> IF t \in withIce
                                        THEN File([b \in Boxes |-> IceBox(t, b, shape[t])])
                                        ELSE NoFile]
    BY Zenon DEF NextYear
  <2>2. Missing(iceIn'[s]) \/ \A b \in Boxes : iceIn'[s].of[b] = IceBox(s, b, shape[s])
    BY <2>1 DEF File, NoFile, Missing
  <2>3. ASSUME NEW b \in Boxes PROVE Ints(IceBox(s, b, shape[s]).ice)
    <3>1. IceBox(s, b, shape[s]).ice \in {None, shape[s].ice}
      BY DEF IceBox
    <3>2. shape[s].ice \in [Elevs -> 0..Unit]
      BY ConstantsAssumption
    <3> QED
      BY <3>1, <3>2, Whole DEF Ints, None
  <2> QED
    BY <2>2, <2>3 DEF IceInts
<1>2. IceInts(iceOut)' /\ pc' = "idle"
  BY Zenon DEF NextYear, IceInts, NoFile, Missing
<1> QED
  BY <1>1, <1>2 DEF AreaInv, Finished

LEMMA AreaSpliceIce == ASSUME SheetInv, AreaInv, splice_icecouple PROVE AreaInv'
<1> DEFINE found == {s \in Sheets : ~Missing(iceIn[s])}
<1>1. CASE NoneFound(iceIn) /\ GiveUp /\ UNCHANGED iceOut
  BY <1>1, AreaQuiet DEF splice_icecouple, Copied, GiveUp
<1>2. ASSUME IceInts(iceOut)', pc' = "read" PROVE AreaInv'
  BY <1>2 DEF AreaInv, IceInts, Finished, splice_icecouple, Copied, inputVars
<1>3. CASE /\ found = Sheets
           /\ iceOut' = File([b \in Boxes |-> Weighted(iceIn["GrIS"].of[b], iceIn["AIS"].of[b])])
           /\ pc' = "read" /\ UNCHANGED <<final_orog, um_dump>>
  <2>1. ASSUME NEW b \in Boxes PROVE Ints(iceOut'.of[b].ice)
    <3> DEFINE g == iceIn["GrIS"].of[b]
               a == iceIn["AIS"].of[b]
               cg == Sum(g.land)
               ca == Sum(a.land)
               Mean(x, y) == [e \in Elevs |-> (x[e] * cg + y[e] * ca) \div (cg + ca)]
    <3>1. iceOut'.of[b] = Weighted(g, a)
      BY <1>3 DEF File
    <3>2. "GrIS" \in Sheets /\ "AIS" \in Sheets /\ ~Missing(iceIn["GrIS"]) /\ ~Missing(iceIn["AIS"])
      BY <1>3 DEF Sheets
    <3>3. Ints(g.ice) /\ Ints(a.ice)
      BY <3>2 DEF AreaInv, IceInts
    <3>4. cg \in Nat /\ ca \in Nat
      BY <3>2, Whole DEF SheetInv, SheetFiles, InputBox
    <3>5. CASE cg + ca = 0
      BY <3>1, <3>3, <3>5 DEF Weighted
    <3>6. CASE cg + ca # 0
      <4>1. iceOut'.of[b].ice = Mean(g.ice, a.ice)
        <5>1. iceOut'.of[b] = [land |-> Mean(g.land, a.land), ice |-> Mean(g.ice, a.ice),
                               raised |-> (g.raised /\ cg > 0) \/ (a.raised /\ ca > 0),
                               from |-> IF cg > 0 THEN g.from ELSE a.from]
          BY <3>1, <3>6, Zenon DEF Weighted
        <5> HIDE DEF Mean
        <5> QED
          BY <5>1
      <4>2. \A e \in Elevs : iceOut'.of[b].ice[e] = (g.ice[e] * cg + a.ice[e] * ca) \div (cg + ca)
        BY <4>1
      <4> HIDE DEF cg, ca, g, a
      <4>3. cg + ca \in Nat \ {0}
        BY <3>4, <3>6
      <4>4. ASSUME NEW e \in Elevs PROVE iceOut'.of[b].ice[e] \in Int
        <5>1. g.ice[e] \in Int /\ a.ice[e] \in Int
          BY <3>3 DEF Ints, Elevs
        <5>2. g.ice[e] * cg + a.ice[e] * ca \in Int
          BY <3>4, <5>1
        <5> QED
          BY <4>2, <4>3, <5>2, IntDiv
      <4> QED
        BY <4>4, Whole DEF Ints
    <3> QED
      BY <3>5, <3>6
  <2> QED
    BY <1>2, <1>3, <2>1 DEF IceInts
<1>4. ASSUME NEW s \in Sheets, found = {s}, iceOut' \in {iceIn[s], iceOut}, pc' = "read"
      PROVE  AreaInv'
  BY <1>2, <1>4 DEF AreaInv, IceInts
<1> QED
  BY <1>1, <1>3, <1>4, Zenon DEF splice_icecouple, Copied

LEMMA FilledInts == ASSUME NEW f, Ints(f) PROVE Ints(Filled(f))
<1>1. f[1] \in Int /\ f[2] \in Int /\ Sum(f) \in Int /\ Unit \in Nat \ {0}
  BY Whole DEF Ints, Sum
<1>2. CASE Sum(f) = 0
  BY <1>2, Whole DEF Filled, Ints, None
<1>3. CASE Sum(f) \in 1..Unit - 1
  <2>1. Sum(f) \in Nat \ {0} /\ f[1] * Unit \in Int /\ f[2] * Unit \in Int
    BY <1>1, <1>3
  <2>2. Filled(f) = [e \in Elevs |-> (f[e] * Unit) \div Sum(f)]
    BY <1>3 DEF Filled
  <2>3. Filled(f)[1] = (f[1] * Unit) \div Sum(f) /\ Filled(f)[2] = (f[2] * Unit) \div Sum(f)
    BY <2>2, Whole
  <2> QED
    BY <2>1, <2>3, IntDiv DEF Ints
<1>4. CASE Sum(f) # 0 /\ Sum(f) \notin 1..Unit - 1
  BY <1>1, <1>4 DEF Filled, Ints
<1> QED
  BY <1>2, <1>3, <1>4

LEMMA AreaPolarRows == ASSUME MergeInv, AreaInv, fix_polarrow_tilefrac PROVE AreaInv'
<1>1. pc' = "land_mask" /\ UNCHANGED inputVars
  BY Zenon DEF fix_polarrow_tilefrac
<1>2. CASE "fix_polarrow_landfrac" \in options
  <2>1. ASSUME NEW b \in Boxes PROVE Ints(iceOut'.of[b].ice)
    <3>1. IsIceBox(iceOut.of[b]) /\ Ints(iceOut.of[b].ice)
      BY DEF MergeInv, FilesInv, TaskInv, AfterSplice, CurrentIce, AreaInv, IceInts,
             fix_polarrow_tilefrac
    <3> DEFINE Mended(c) == [iceOut.of[c] EXCEPT !.land = Filled(@), !.ice = Filled(@)]
    <3>2. iceOut'.of[b] = IF b \in PolarRows THEN Mended(b) ELSE iceOut.of[b]
      <4> DEFINE Now(c) == IF c \in PolarRows
                           THEN [iceOut.of[c] EXCEPT !.land = Filled(@), !.ice = Filled(@)]
                           ELSE iceOut.of[c]
      <4>1. iceOut' = File([c \in Boxes |-> Now(c)])
        BY <1>2, Zenon DEF fix_polarrow_tilefrac
      <4>2. Now(b) = IF b \in PolarRows THEN Mended(b) ELSE iceOut.of[b]
        BY Zenon
      <4> HIDE DEF Now, Mended
      <4> QED
        BY <4>1, <4>2 DEF File
    <3>3. Mended(b).ice = Filled(iceOut.of[b].ice)
      <4> DEFINE box == iceOut.of[b]
      <4>1. \A c, d : [box EXCEPT !.land = c, !.ice = d].ice = d
        BY <3>1 DEF IsIceBox, HasFields
      <4> QED
        BY <4>1, Zenon
    <3> HIDE DEF Mended
    <3> QED
      BY <3>1, <3>2, <3>3, FilledInts
  <2> QED
    BY <1>1, <2>1 DEF AreaInv, IceInts, Finished, inputVars
<1>3. CASE "fix_polarrow_landfrac" \notin options
  BY <1>1, <1>3, AreaQuiet DEF fix_polarrow_tilefrac
<1> QED
  BY <1>2, <1>3

LEMMA AreaTemperatures == ASSUME MergeInv, AreaInv, insert_tsurf_elev PROVE AreaInv'
<1>1. ASSUME NEW b \in Boxes PROVE AreaOf(b, um_dump'[b])
  <2>1. IsBox(um_dump[b]) /\ AreaOf(b, um_dump[b])
    BY DEF MergeInv, TaskInv, AreaInv, insert_tsurf_elev
  <2> DEFINE tsurf == IF TakesTiles(b) THEN iceOut.of[b].from ELSE Before(b).tsurf
  <2>2. um_dump'[b] = [um_dump[b] EXCEPT !.tsurf = tsurf] \/ um_dump'[b] = um_dump[b]
    BY DEF insert_tsurf_elev
  <2> HIDE DEF tsurf
  <2>3. um_dump'[b].frac = um_dump[b].frac
    BY <2>1, <2>2 DEF IsBox, HasFields
  <2> QED
    BY <2>1, <2>3 DEF AreaOf
<1>2. pc' = "write" /\ UNCHANGED <<inputVars, globalVars, um_output>>
  BY DEF insert_tsurf_elev
<1> QED
  BY <1>1, <1>2 DEF AreaInv, IceInts, Finished, inputVars, globalVars

\* The tiles of a box fill it exactly where those of the reference do, for any land and
\* ice of the sheets and any mending of them.
THEOREM AreaStays == Spec => []AreaKept
<1>1. Init => AreaInv
  <2> SUFFICES ASSUME Init PROVE AreaInv
    OBVIOUS
  <2>1. (\A s \in Sheets : IceInts(iceIn[s])) /\ IceInts(iceOut)
    BY DEF Init, IceInts, NoFile, Missing
  <2>2. pc = "done" /\ ~Finished
    BY DEF Init, Finished
  <2> QED
    BY <2>1, <2>2 DEF AreaInv
<1>2. MergeInv /\ SheetInv /\ AreaInv /\ [Next]_vars => AreaInv'
  <2> SUFFICES ASSUME MergeInv, SheetInv, AreaInv, [Next]_vars PROVE AreaInv'
    OBVIOUS
  <2>1. CASE NextYear
    BY <2>1, AreaNextYear
  <2>2. CASE Submit \/ splice_cap_ancil \/ WriteOrog
    BY <2>2, AreaQuiet DEF Submit, splice_cap_ancil, WriteOrog, GiveUp, globalVars
  <2>3. CASE ReadInputs \/ new_lsm \/ insert_cap_ice_orog \/ Killed
    BY <2>3, AreaQuiet DEF ReadInputs, new_lsm, insert_cap_ice_orog, Killed, GiveUp, globalVars
  <2>4. CASE splice_icecouple \/ fix_polarrow_tilefrac \/ insert_tsurf_elev
    BY <2>4, AreaSpliceIce, AreaPolarRows, AreaTemperatures
  <2>5. CASE insert_tile_fracs
    BY <2>5, AreaTileFracs, TileFracsStep DEF AreaInv, IceInts, Finished, inputVars, globalVars
  <2>6. CASE WriteDump
    BY <2>6 DEF AreaInv, IceInts, AreaOf, Finished, WriteDump, inputVars, globalVars
  <2>7. CASE UNCHANGED vars
    BY <2>7 DEF AreaInv, IceInts, AreaOf, Finished, vars, inputVars, globalVars, taskVars
  <2> QED
    BY <2>1, <2>2, <2>3, <2>4, <2>5, <2>6, <2>7 DEF Next, Statement
<1>3. AreaInv => AreaKept
  BY DEF AreaInv, AreaOf, AreaKept
<1> QED
  BY <1>1, <1>2, <1>3, MergeCorrect, SheetsCorrect, PTL DEF Spec
=============================================================================
