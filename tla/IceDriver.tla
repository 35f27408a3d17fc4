------------------------------- MODULE IceDriver ------------------------------
(***************************************************************************)
(* The ice_sheet task of the coupled model: the script unicicles_driver     *)
(* (wrappers/ukesm-ice_NETCDF) and the program it launches, wrapper_main,   *)
(* which runs GLINT and BISICLES for one year from the restart files left   *)
(* by the year before.  The script stops at the first command that fails    *)
(* (set -e); the suite may then submit the task again in the same work      *)
(* directory, where the files of the earlier attempts still are.            *)
(*                                                                         *)
(* External: the suite, which retries a task and starts the next year when  *)
(* it succeeds; BISICLES, which numbers its files by time-step and replaces *)
(* a file of the same name.                                                *)
(***************************************************************************)
EXTENDS Integers

CONSTANTS
  Years,        \* bound: years of ice-sheet simulation
  MaxAttempts,  \* bound: times the suite submits the task for a year
  StepCounts,   \* time-steps an attempt may need for its year
  CfOptions,    \* whether an attempt is configured to write CF plots
  StopIsSeen    \* whether the launcher reports a program that ends by STOP

ASSUME ConstantsAssumption ==
  /\ Years \in Nat \ {0} /\ MaxAttempts \in Nat \ {0}
  /\ StepCounts \subseteq Nat \ {0} /\ StepCounts # {}
  /\ CfOptions \subseteq BOOLEAN /\ CfOptions # {}
  /\ StopIsSeen \in BOOLEAN

VARIABLES
  year, attempt, pc,     \* the task: the year it is for, the attempt, the command it is at
  conf,                  \* the configuration and the inputs of the attempt
  step,                  \* time-steps BISICLES has done
  chk, plot, cf,         \* the work directory: files of BISICLES, by time-step
  hot, temp,             \* the work directory: *dummy.hot.nc of GLINT, temp.nc
  pre,                   \* the restart files in $PREICE_*
  post                   \* the files in $POSTICE_*, and the icecouple file

workVars == <<step, chk, plot, cf, hot, temp>>
vars == <<year, attempt, pc, conf, workVars, pre, post>>

Steps == UNION {1..n : n \in StepCounts}

\* A file is known by the attempt that wrote it, and by how far it had got.
File == [year : Int, attempt : Nat, step : Nat, steps : Nat]
NoFile == [year |-> -1, attempt |-> 0, step |-> 0, steps |-> 0]
NoFiles == [s \in Steps |-> NoFile]
Setup == [year |-> 0, attempt |-> 1, step |-> 1, steps |-> 1]
Written(s) == [year |-> year, attempt |-> attempt, step |-> s, steps |-> conf.steps]
Whole(file) == file.step = file.steps

Outputs == {"plot", "dump", "nc", "couple", "cf"}

\* conservedSum, known_sum: what the namelist asks of the basal melt; bmbtotal:
\* the ocean's total has been left; forcing: the file of forcing can be read.
ConfType == [steps : StepCounts, cf_plots : CfOptions, conservedSum : BOOLEAN,
             known_sum : BOOLEAN, bmbtotal : BOOLEAN, forcing : BOOLEAN]

Init ==
  /\ year = 1 /\ attempt = 0 /\ pc = "idle"
  /\ conf \in ConfType
  /\ step = 0 /\ chk = NoFiles /\ plot = NoFiles /\ cf = NoFiles
  /\ hot = NoFile /\ temp = NoFile
  /\ pre \in [{"dump", "nc"} -> {Setup, NoFile}]
  /\ post = [o \in Outputs |-> NoFile]

\* The suite submits the task; the namelists are written again from
\* rose-app-run.conf, which may have been edited since the last attempt.
Submit ==
  /\ pc = "idle" /\ attempt < MaxAttempts
  /\ attempt' = attempt + 1
  /\ conf' \in ConfType
  /\ pc' = "check"
  /\ UNCHANGED <<year, workVars, pre, post>>

\* The restart files must exist, and if the namelist conserves the basal melt
\* it must have a target, for which the ocean's total must have been left.
Ready ==
  /\ pre.dump # NoFile /\ pre.nc # NoFile
  /\ conf.conservedSum => conf.known_sum /\ conf.bmbtotal

CheckInputs ==
  /\ pc = "check"
  /\ pc' = IF Ready THEN "read" ELSE "idle"
  /\ UNCHANGED <<year, attempt, conf, workVars, pre, post>>

\* Errors found by ncdf_check, and fatal errors of GLINT, end the program by
\* STOP, of which the exit status is zero: the script goes on, unless the
\* launcher finds fault with a program that left in that way.
AfterStop == IF StopIsSeen THEN "idle" ELSE "pick"

InProgram == pc \in {"read", "run", "checkpoint", "create", "write"}

ProgramStops ==
  /\ \/ InProgram /\ attempt < MaxAttempts
     \/ pc = "read" /\ ~conf.forcing
  /\ pc' = AfterStop
  /\ UNCHANGED <<year, attempt, conf, workVars, pre, post>>

\* A faulty variant: the program goes on from where an earlier attempt was.
ResumeIce ==
  /\ pc = "read" /\ conf.forcing
  /\ hot' = Written(step)
  /\ pc' = "run"
  /\ UNCHANGED <<year, attempt, conf, step, chk, plot, cf, temp, pre, post>>

\* wrapper_read_ncdf and gl_initialise_glint: the year starts from the restart
\* files, and the file of GLINT states is made anew with the initial state.
StartIce ==
  /\ pc = "read" /\ conf.forcing
  /\ step' = 0
  /\ hot' = Written(0)
  /\ pc' = "run"
  /\ UNCHANGED <<year, attempt, conf, chk, plot, cf, temp, pre, post>>

\* BISICLES' loop over the time-steps of the year.
MoreSteps == step < conf.steps

\* gl_step_glint: BISICLES leaves plots and a checkpoint as it goes.
IceStep ==
  /\ pc = "run" /\ MoreSteps
  /\ step' = step + 1
  /\ plot' = [plot EXCEPT ![step + 1] = Written(step + 1)]
  /\ cf' = IF conf.cf_plots THEN [cf EXCEPT ![step + 1] = Written(step + 1)] ELSE cf
  /\ pc' = "checkpoint"
  /\ UNCHANGED <<year, attempt, conf, chk, hot, temp, pre, post>>

Checkpoint ==
  /\ pc = "checkpoint"
  /\ chk' = [chk EXCEPT ![step] = Written(step)]
  /\ pc' = "run"
  /\ UNCHANGED <<year, attempt, conf, step, plot, cf, hot, temp, pre, post>>

\* glide_io_writeall adds the state at the end of the ice time-step.
WriteHot ==
  /\ pc = "run" /\ ~MoreSteps
  /\ hot' = Written(step)
  /\ pc' = "create"
  /\ UNCHANGED <<year, attempt, conf, step, chk, plot, cf, temp, pre, post>>

\* wrapper_write_ncdf makes the icecouple file where the next tasks look for
\* it, then fills it.
CreateCouple ==
  /\ pc = "create"
  /\ post' = [post EXCEPT !["couple"] = Written(0)]
  /\ pc' = "write"
  /\ UNCHANGED <<year, attempt, conf, workVars, pre>>

WriteCouple ==
  /\ pc = "write"
  /\ post' = [post EXCEPT !["couple"] = Written(step)]
  /\ pc' = "pick"
  /\ UNCHANGED <<year, attempt, conf, workVars, pre>>

Present(files) == {s \in Steps : files[s] # NoFile}

\* ls -1r | head -1: the file of the highest time-step.  The first, without -r,
\* is a faulty variant.
First(files) == CHOOSE s \in Present(files) : \A r \in Present(files) : s <= r
Last(files) == CHOOSE s \in Present(files) : \A r \in Present(files) : r <= s

\* mv takes the file out of the work directory.
Without(files, s) == [files EXCEPT ![s] = NoFile]

\* With no file to move it fails, and the script with it.
MovePlot ==
  /\ pc = "pick"
  /\ IF Present(plot) # {}
     THEN /\ post' = [post EXCEPT !["plot"] = plot[Last(plot)]]
          /\ plot' = Without(plot, Last(plot))
          /\ pc' = "plot_moved"
     ELSE pc' = "idle" /\ UNCHANGED <<plot, post>>
  /\ UNCHANGED <<year, attempt, conf, step, chk, cf, hot, temp, pre>>

MoveDump ==
  /\ pc = "plot_moved"
  /\ IF Present(chk) # {}
     THEN /\ post' = [post EXCEPT !["dump"] = chk[Last(chk)]]
          /\ chk' = Without(chk, Last(chk))
          /\ pc' = "dump_moved"
     ELSE pc' = "idle" /\ UNCHANGED <<chk, post>>
  /\ UNCHANGED <<year, attempt, conf, step, plot, cf, hot, temp, pre>>

\* cdo -seltimestep,-1 *dummy.hot.nc temp.nc: GLINT makes the file before
\* BISICLES takes a time-step, so where there is a dump there is one.
ExtractRestart ==
  /\ pc = "dump_moved"
  /\ temp' = hot
  /\ pc' = "extracted"
  /\ UNCHANGED <<year, attempt, conf, step, chk, plot, cf, hot, pre, post>>

MoveRestart ==
  /\ pc = "extracted"
  /\ post' = [post EXCEPT !["nc"] = temp]
  /\ temp' = NoFile
  /\ pc' = "restart_moved"
  /\ UNCHANGED <<year, attempt, conf, step, chk, plot, cf, hot, pre>>

\* CF plots are moved if there are any.
MoveCf ==
  /\ pc = "restart_moved"
  /\ IF Present(cf) # {}
     THEN /\ post' = [post EXCEPT !["cf"] = cf[Last(cf)]]
          /\ cf' = Without(cf, Last(cf))
     ELSE UNCHANGED <<cf, post>>
  /\ pc' = "done"
  /\ UNCHANGED <<year, attempt, conf, step, chk, plot, hot, temp, pre>>

\* The task is killed, or a command of it fails: every file stays as it is.
Interrupt ==
  /\ pc \notin {"idle", "done"} /\ attempt < MaxAttempts
  /\ pc' = "idle"
  /\ UNCHANGED <<year, attempt, conf, workVars, pre, post>>

\* The $POSTICE_ files of a year are the $PREICE_ files of the next, which has
\* a work directory of its own.
NextYear ==
  /\ pc = "done" /\ year < Years
  /\ pre' = [f \in {"dump", "nc"} |-> post[f]]
  /\ year' = year + 1 /\ attempt' = 0 /\ pc' = "idle"
  /\ step' = 0 /\ chk' = NoFiles /\ plot' = NoFiles /\ cf' = NoFiles
  /\ hot' = NoFile /\ temp' = NoFile
  /\ post' = [o \in Outputs |-> NoFile]
  /\ UNCHANGED conf

Driver ==
  \/ CheckInputs \/ StartIce \/ IceStep \/ Checkpoint \/ WriteHot \/ CreateCouple
  \/ WriteCouple \/ MovePlot \/ MoveDump \/ ExtractRestart \/ MoveRestart \/ MoveCf

Next == Submit \/ Driver \/ ProgramStops \/ Interrupt \/ NextYear

Spec == Init /\ [][Next]_vars

\* The commands of the script follow one another.  Nothing obliges the suite
\* to try again, or the task to be interrupted.
FairSpec == Spec /\ WF_vars(Driver)

-------------------------------------------------------------------------------
(* Properties *)

TypeOK ==
  /\ year \in 1..Years /\ attempt \in 0..MaxAttempts
  /\ pc \in {"idle", "check", "read", "run", "checkpoint", "create", "write", "pick",
             "plot_moved", "dump_moved", "extracted", "restart_moved", "done"}
  /\ conf \in ConfType
  /\ step \in Steps \cup {0}
  /\ chk \in [Steps -> File] /\ plot \in [Steps -> File] /\ cf \in [Steps -> File]
  /\ hot \in File /\ temp \in File
  /\ pre \in [{"dump", "nc"} -> File]
  /\ post \in [Outputs -> File]

\* The outputs of a configuration without CF plots do not include one.
Expected(o) == o # "cf" \/ conf.cf_plots

\* When the task succeeds, everything it publishes was written by the attempt
\* that succeeded, at the end of its year: the script picks files by name from
\* a work directory it never clears, in five separate commands between which
\* earlier attempts were interrupted.
PublishedByThisAttempt ==
  pc = "done" => \A o \in Outputs :
    post[o] = IF Expected(o) THEN Written(conf.steps) ELSE NoFile

\* A year's two restart files were written by one attempt of the year before:
\* GLINT and BISICLES restart from the same state.
RestartPair ==
  \A f \in {"dump", "nc"} : year > 1 => pre[f].year = year - 1 /\ Whole(pre[f])
                                        /\ pre[f] = pre["dump"]

\* Interrupted attempts, whatever they left in the work directory, do not
\* stand in the way of the next: an attempt with good inputs that is let to run
\* publishes the year.
RetrySucceeds ==
  (pc = "check" /\ attempt = MaxAttempts /\ Ready /\ conf.forcing) ~> pc = "done"

\* What the task promises the coupled model: each year's restart files replace
\* those of the year before, both at once, and none is of half a year.
YearOf(file) == IF Whole(file) THEN file.year ELSE -1
IY == INSTANCE IceYears WITH
        dump <- YearOf(pre["dump"]), nc <- YearOf(pre["nc"])
OneYearAtATime == IY!Spec

\* Attempts that differ in nothing that names or numbers their files, under a
\* launcher that reports every failure.
Reproducible ==
  /\ StopIsSeen
  /\ \A m, n \in StepCounts : m = n
  /\ \A c, d \in CfOptions : c = d

\* The inductive invariant behind PublishedByThisAttempt and OneYearAtATime:
\* from the command that makes a file to the command that moves it the file of
\* the last time-step is of this attempt, and from then on the published one is.
Ending == {"create", "write", "pick", "plot_moved", "dump_moved", "extracted",
           "restart_moved"}
InWork ==
  /\ pc \in Ending \cup {"done"} => step = conf.steps
  /\ pc = "checkpoint" => step > 0
  /\ pc \in {"run", "checkpoint", "create", "write", "pick"} /\ step > 0 =>
       plot[step] = Written(step)
  /\ pc \in {"run", "create", "write", "pick", "plot_moved"} /\ step > 0 =>
       chk[step] = Written(step)
  /\ pc \in {"run", "checkpoint"} \cup Ending /\ step > 0 /\ conf.cf_plots =>
       cf[step] = Written(step)
  /\ ~conf.cf_plots => cf = NoFiles
  /\ pc \in Ending \ {"extracted", "restart_moved"} => hot = Written(step)
  /\ pc = "extracted" => temp = Written(step)
InPost ==
  /\ pc \in (Ending \cup {"done"}) \ {"create", "write"} => post["couple"] = Written(step)
  /\ pc \in {"plot_moved", "dump_moved", "extracted", "restart_moved", "done"} =>
       post["plot"] = Written(step)
  /\ pc \in {"dump_moved", "extracted", "restart_moved", "done"} =>
       post["dump"] = Written(step)
  /\ pc \in {"restart_moved", "done"} => post["nc"] = Written(step)
  /\ pc = "done" /\ conf.cf_plots => post["cf"] = Written(step)
  /\ ~conf.cf_plots => post["cf"] = NoFile
InPre ==
  /\ year = 1 => pre \in [{"dump", "nc"} -> {Setup, NoFile}]
  /\ pc \notin {"idle", "check"} => pre["dump"] # NoFile /\ pre["nc"] # NoFile
DriverInv == TypeOK /\ InWork /\ InPost /\ InPre /\ RestartPair
===============================================================================
