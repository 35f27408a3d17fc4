------------------------------- MODULE UmUpdate -------------------------------
(***************************************************************************)
(* How the mass balance of the ice passes from the climate model to the ice *)
(* sheet, and how the climate model's restart dump is made fit for the next *)
(* year (unicicles_cap_global_to_um.py and um_to_unicicles.py in            *)
(* unicicles_coupling_refactor/active/python3).                             *)
(*                                                                         *)
(* Snow that falls on an ice tile stays in the tile's snowpack for the      *)
(* year.  Its mass is also written down for the ice sheet, which receives   *)
(* it the year after; and once the year is over the task                    *)
(* ice_sheets_ancils_to_atmos takes it out of the pack again.  The task may *)
(* be interrupted at any point and submitted again, and the file it writes  *)
(* may be cut short without a word.                                         *)
(*                                                                         *)
(* A dump is known by the pack on one ice tile and by its size.  The task's *)
(* other changes to it (orography, tile fractions, temperatures) replace    *)
(* fields by those of the reference dump and the ice sheet, whatever they   *)
(* were, and are left out.                                                  *)
(*                                                                         *)
(* External: the climate model, the ice sheet, and the suite, which runs    *)
(* the two in parallel, each with what the other left the year before.      *)
(***************************************************************************)
EXTENDS Integers

CONSTANTS
  Years,         \* bound: years of the climate model
  MaxAttempts,   \* bound: times the suite submits the task for a year
  SMBs,          \* what a year may add to the pack on the tile
  Spare,         \* mass of the pack beyond what nsmax layers need
  Full,          \* the size of a dump
  Sizes,         \* sizes a dump may have when the program that wrote it returns
  TempIsInput,   \* the path of the dump has no 'pre_ice' to replace
  do_snow_shuffling

ASSUME ConstantsAssumption ==
  /\ Years \in Nat \ {0} /\ MaxAttempts \in Nat \ {0}
  /\ SMBs \subseteq Int /\ SMBs # {} /\ Spare \in Nat
  /\ Full \in Nat \ {0} /\ Sizes \subseteq 0..Full
  /\ TempIsInput \in BOOLEAN /\ do_snow_shuffling \in BOOLEAN

VARIABLES
  climate, ice,          \* years that each model has done
  pp,                    \* the mass balance of the climate model's last year
  toice,                 \* by year, the file of forcing for the ice sheet
  um_input, um_temp, um_output,     \* dumps: of the climate model, in the making, for it
  attempt, pc,           \* the task: attempts for the year, the statement it is at
  um_dump,               \* the task's memory
  ice_mass,              \* what the ice sheet has received
  fallen                 \* history: what has fallen

suiteVars == <<climate, ice, pp, ice_mass>>
fileVars  == <<toice, um_input, um_temp, um_output>>
vars == <<suiteVars, fileVars, attempt, pc, um_dump, fallen>>

Dump == [year : -1..Years, pack : Int, size : 0..Full]
NoDump == [year |-> -1, pack |-> 0, size |-> 0]
ToIce == [smb : Int, state : {"absent", "partial", "whole"}]
Absent == [smb |-> 0, state |-> "absent"]

\* setup_unicicles.sh links the forcing of the first year of the ice sheet.
Init ==
  /\ climate = 0 /\ ice = 0
  /\ pp \in SMBs
  /\ toice = [y \in 0..Years |->
                IF y = 0 THEN [smb |-> pp, state |-> "whole"] ELSE Absent]
  /\ um_input = NoDump /\ um_temp = NoDump
  /\ um_output = [year |-> 0, pack |-> Spare, size |-> Full]
  /\ attempt = 0 /\ pc = "done" /\ um_dump = NoDump
  /\ ice_mass = 0 /\ fallen = pp

\* The climate model starts from the last updated dump, if it can be read.
ClimateYear ==
  /\ pc = "done" /\ um_output.size = Full /\ climate < Years
  /\ climate' = climate + 1
  /\ pp' \in SMBs
  /\ um_input' = [year |-> climate + 1, pack |-> um_output.pack + pp', size |-> Full]
  /\ um_temp' = NoDump
  /\ fallen' = fallen + pp'
  /\ attempt' = 0 /\ pc' = "idle"
  /\ UNCHANGED <<ice, ice_mass, toice, um_output, um_dump>>

\* um_to_unicicles: the file for the ice sheet, made anew.
AtmosToIce ==
  /\ pc = "idle" /\ toice[climate].state = "absent"
  /\ toice' = [toice EXCEPT ![climate] = [smb |-> pp, state |-> "whole"]]
  /\ UNCHANGED <<suiteVars, um_input, um_temp, um_output, attempt, pc, um_dump, fallen>>

\* wrapper_read_ncdf reads ice_smb, and nothing else that stands for mass.
IceYear ==
  /\ ice < Years /\ toice[ice].state = "whole"
  /\ ice_mass' = ice_mass + toice[ice].smb
  /\ ice' = ice + 1
  /\ UNCHANGED <<climate, pp, fileVars, attempt, pc, um_dump, fallen>>

-------------------------------------------------------------------------------
(* unicicles_cap_global_to_um *)

\* The suite submits the task when the models and um_to_unicicles are done.
Submit ==
  /\ pc = "idle" /\ attempt < MaxAttempts
  /\ ice >= climate /\ toice[climate].state # "absent"
  /\ attempt' = attempt + 1 /\ pc' = "load"
  /\ UNCHANGED <<suiteVars, fileVars, um_dump, fallen>>

\* parse_commandline and the reading of the inputs: a missing file, or one that
\* is cut short, ends the attempt.
LoadInputs ==
  /\ pc = "load"
  /\ IF um_input # NoDump /\ um_input.size = Full /\ toice[climate].state = "whole"
     THEN um_dump' = um_input /\ pc' = "reset"
     ELSE pc' = "idle" /\ UNCHANGED um_dump
  /\ UNCHANGED <<suiteVars, fileVars, attempt, fallen>>

\* Faulty variants: the forcing of the year before, nothing taken out.
SmbOfLastYear == toice[climate - 1].smb
NoSmb == 0

\* What the ice sheet is given for the year.
SmbIce == toice[climate].smb

\* reset_icetile_snowpack takes it out of the bottom layer.  A pack that has
\* fewer than nsmax layers ends the attempt.
ResetSnowpack ==
  /\ pc = "reset"
  /\ IF um_dump.pack < 0 THEN pc' = "idle" /\ UNCHANGED um_dump
     ELSE pc' = "shuffle" /\ um_dump' = [um_dump EXCEPT !.pack = @ - SmbIce]
  /\ UNCHANGED <<suiteVars, fileVars, attempt, fallen>>

\* Where adjust_snow owes the ice what no longer fits on the non-ice tile, the
\* file of forcing is read whole and written again with one more field.  Nothing
\* reads that field: it is no part of what is carried.
ShuffleSnow ==
  /\ pc = "shuffle"
  /\ \/ pc' = "write" /\ UNCHANGED toice
     \/ do_snow_shuffling /\ pc' = "append"
          /\ toice' = [toice EXCEPT ![climate].state = "partial"]
  /\ UNCHANGED <<suiteVars, um_input, um_temp, um_output, attempt, um_dump, fallen>>

AppendOverflow ==
  /\ pc = "append"
  /\ toice' = [toice EXCEPT ![climate].state = "whole"]
  /\ pc' = "write"
  /\ UNCHANGED <<suiteVars, um_input, um_temp, um_output, attempt, um_dump, fallen>>

\* The file um_output_temp, which is um_input where there is nothing to replace.
InPlace == TRUE
TempName == TempIsInput
WriteTemp(dump) ==
  IF TempName THEN um_input' = dump /\ UNCHANGED um_temp
              ELSE um_temp' = dump /\ UNCHANGED um_input
TempDump == IF TempName THEN um_input ELSE um_temp

\* What the file has after so much is written to it: to_file opens it with 'wb'.
SizeOnDisk(size) == size

OpenTemp ==
  /\ pc = "write"
  /\ WriteTemp([um_dump EXCEPT !.size = SizeOnDisk(0)])
  /\ pc' = "fill"
  /\ UNCHANGED <<suiteVars, toice, um_output, attempt, um_dump, fallen>>

FillTemp ==
  /\ pc = "fill"
  /\ \E size \in Sizes : WriteTemp([um_dump EXCEPT !.size = SizeOnDisk(size)])
  /\ pc' = "publish"
  /\ UNCHANGED <<suiteVars, toice, um_output, attempt, um_dump, fallen>>

\* The sizes of the two files differ by less than a hundredth of the first.
NoSizeCheck == TRUE
SizesAgree ==
  LET d == um_input.size - TempDump.size IN
  (IF d < 0 THEN -d ELSE d) * 100 < um_input.size

PublishDump ==
  /\ pc = "publish"
  /\ IF SizesAgree
     THEN um_output' = TempDump /\ WriteTemp(NoDump) /\ pc' = "exit"
     ELSE pc' = "idle" /\ UNCHANGED <<um_input, um_temp, um_output>>
  /\ UNCHANGED <<suiteVars, toice, attempt, um_dump, fallen>>

Succeed ==
  /\ pc = "exit" /\ pc' = "done"
  /\ UNCHANGED <<suiteVars, fileVars, attempt, um_dump, fallen>>

Interrupt ==
  /\ pc \notin {"idle", "done"} /\ attempt < MaxAttempts
  /\ pc' = "idle"
  /\ UNCHANGED <<suiteVars, fileVars, attempt, um_dump, fallen>>

Update ==
  \/ LoadInputs \/ ResetSnowpack \/ ShuffleSnow \/ AppendOverflow
  \/ OpenTemp \/ FillTemp \/ PublishDump \/ Succeed

Next == ClimateYear \/ AtmosToIce \/ IceYear \/ Submit \/ Update \/ Interrupt

Spec == Init /\ [][Next]_vars

\* The models and the statements of the task go on; nothing obliges the suite
\* to submit a failed task again, or the task to be interrupted.
FairSpec == Spec /\ WF_vars(Update)

-------------------------------------------------------------------------------
(* Properties *)

TypeOK ==
  /\ climate \in 0..Years /\ ice \in 0..Years
  /\ pp \in SMBs /\ toice \in [0..Years -> ToIce]
  /\ um_input \in Dump /\ um_temp \in Dump /\ um_output \in Dump /\ um_dump \in Dump
  /\ attempt \in 0..MaxAttempts
  /\ pc \in {"idle", "load", "reset", "shuffle", "append", "write", "fill", "publish",
             "exit", "done"}
  /\ ice_mass \in Int /\ fallen \in Int

\* The mass balance of the years the ice sheet has not had.
Due(y) == IF y > climate THEN 0
          ELSE IF toice[y].state = "absent" THEN pp ELSE toice[y].smb
InTransit == IF ice < climate THEN Due(ice) + Due(climate) ELSE Due(ice)

\* Nothing that falls on the ice is lost or counted twice between the pack of
\* the dump the climate model goes on from, the file of forcing and the ice
\* sheet, however many attempts the update took and however the two models'
\* years fall against each other.
MassCarried ==
  pc = "done" => (um_output.pack - Spare) + InTransit + ice_mass = fallen

\* Where a year cannot melt more than the pack has to spare, the pack on an ice
\* tile has all its layers every time it is reset: the task never ends in
\* "nsnow is no longer 10", which no further attempt would get past.
EnoughSnow ==
  (\A s \in SMBs : Spare + s >= 0) => (pc = "reset" => um_dump.pack >= 0)

\* The climate model is given a dump that was written to its end.
DumpWhole == pc = "done" => um_output.size = Full

\* Whatever interrupted attempts left, an attempt that is let to run writes the
\* dump, and hands it on if it is written to its end: no earlier attempt spoilt
\* its inputs, but for a file of forcing that shuffling left half written.
RetrySucceeds ==
  /\ pc = "load" /\ attempt = MaxAttempts /\ toice[climate].state = "whole"
       ~> pc = "publish"
  /\ pc = "publish" /\ attempt = MaxAttempts /\ TempDump.size = Full ~> pc = "done"

\* The update as the suite runs it: the dump it writes is a file of its own, and
\* a dump cut short lacks a hundredth or more.
AsInSuite ==
  /\ ~TempIsInput
  /\ \A size \in Sizes : size = Full \/ (Full - size) * 100 >= Full

\* The inductive invariant behind the three invariants: how far the two models
\* are apart, which files there are, and what the statements of the task have
\* done to the dump.
Lockstep ==
  /\ ice \in (climate - 1)..(climate + 1)
  /\ pc # "idle" => ice >= climate
Forcing ==
  /\ \A y \in 0..Years : /\ y > climate => toice[y] = Absent
                         /\ y < climate => toice[y].state = "whole"
  /\ pc \notin {"idle", "load", "append"} => toice[climate].state = "whole"
  /\ pc # "idle" \/ ice > climate => toice[climate].state # "absent"
  /\ toice[climate].state # "absent" => toice[climate].smb = pp
Dumps ==
  /\ pc # "done" => um_input = [year |-> climate, pack |-> Spare + pp, size |-> Full]
  /\ pc = "reset" => um_dump = um_input
  /\ pc \in {"shuffle", "append", "write", "fill", "publish"} =>
       um_dump = [year |-> climate, pack |-> Spare, size |-> Full]
  /\ pc = "publish" => \E size \in Sizes : um_temp = [um_dump EXCEPT !.size = size]
  /\ pc \in {"exit", "done"} =>
       um_output = [year |-> climate, pack |-> Spare, size |-> Full]
Ledger == InTransit + ice_mass = fallen

UpdateInv == TypeOK /\ Lockstep /\ Forcing /\ Dumps /\ Ledger
===============================================================================
