------------------------------ MODULE GlintClock ------------------------------
(***************************************************************************)
(* The time-stepping of GLINT, the interface between a climate model and    *)
(* the ice-sheet instances (glimmer-cism/libglint).  The climate model      *)
(* calls GLINT once per forcing time-step.  GLINT averages the forcing over *)
(* a mass-balance time-step; each instance accumulates the averages over    *)
(* mbal_accum_time and then runs n_icetstep ice time-steps.  The four       *)
(* clocks are kept by separate counters that nothing in the code compares:  *)
(* this module says how they stay in step, and where they do not.           *)
(*                                                                         *)
(* There are two entry points: glint, which computes the mass balance, and  *)
(* glint_gcm, which is given it.  Their scheduling is the same statement    *)
(* for statement, except in CrashInLoop.  glint_gcm is called with gsdep,   *)
(* as its only caller, wrappers/ukesm-ice_NETCDF/gl_mod.f90, does.          *)
(*                                                                         *)
(* Times are integers (hours in the code).  A forcing field is represented  *)
(* by the time of the call that delivered it, a sum of fields by a set of   *)
(* times.                                                                  *)
(***************************************************************************)
EXTENDS Integers, FiniteSets

CONSTANTS
  Instances,    \* the ice-sheet instances of one GLINT run
  Configs,      \* the configurations a run may be started with
  Year,         \* years2hours
  Lateness,     \* by how much a call of the climate model may be late
  Horizon       \* bound: the climate run makes no call after this time

\* mbal_accum_time is -1 in a configuration that does not set it.
ConfigType ==
  [ entry : {"glint", "glint_gcm"}, start_time : Int, time_step : Nat \ {0},
    mbal_tstep : [Instances -> Nat \ {0}], ice_tstep : [Instances -> Nat \ {0}],
    mbal_accum_time : [Instances -> Nat \cup {-1}],
    ice_tstep_multiply : [Instances -> Nat \ {0}] ]

ASSUME ClockConstants ==
  /\ Instances # {}
  /\ Configs \subseteq ConfigType
  /\ Year \in Nat \ {0}
  /\ Lateness \subseteq Nat
  /\ Horizon \in Int

VARIABLES
  cfg, phase,           \* configuration; "config", "run", "rejected", "stopped", "crashed"
  now,                  \* when the climate model is due to call next
  \* type glint_params: the averaging of the forcing
  tstep_mbal, new_av, av_start_time, av_steps, next_av_start, g_av,
  \* type glint_instance and its glint_mbc: the accumulation of the mass balance
  mbal_accum_time, n_icetstep, next_time, glide_time,
  new_accum, acc_start, av_count, acab_save,
  out,                  \* what the call in progress returns to the climate model
  \* history: forcing accepted, forcing that reached the ice, last ice call
  received, delivered, last_ice

avVars    == <<tstep_mbal, new_av, av_start_time, av_steps, next_av_start, g_av>>
fixedVars == <<cfg, mbal_accum_time, n_icetstep>>
instVars  == <<next_time, glide_time, new_accum, acc_start, av_count, acab_save>>
histVars  == <<received, delivered, last_ice>>
clockVars == <<phase, now, avVars, fixedVars, instVars, out, histVars>>

-------------------------------------------------------------------------------
(* initialise_glint_gcm and glint_i_initialise_gcm *)

\* The accumulation time an instance ends up with.
AccumTime(c, i) ==
  IF c.mbal_accum_time[i] # -1 THEN c.mbal_accum_time[i]
  ELSE IF c.ice_tstep[i] > c.mbal_tstep[i] THEN c.ice_tstep[i] ELSE c.mbal_tstep[i]

\* Faulty variants, here and below: a check that is missing, a reset that is
\* forgotten, ...  They are used only to show that the properties notice.
NoMbalDivides(c) == TRUE

\* check_mbts: one mass-balance time-step for all instances.
SameMbalStep(c) == \A i, j \in Instances : c.mbal_tstep[i] = c.mbal_tstep[j]

\* A whole number of calls makes up a mass-balance time-step.
MbalDivides(c) == \A i \in Instances : c.mbal_tstep[i] % c.time_step = 0

NoAccumDivides(c, i) == AccumTime(c, i) >= c.mbal_tstep[i]

\* The checks of glint_i_initialise_gcm on the accumulation time.
AccumDivides(c, i) ==
  /\ AccumTime(c, i) >= c.mbal_tstep[i]
  /\ AccumTime(c, i) % c.mbal_tstep[i] = 0
  /\ \/ AccumTime(c, i) % c.ice_tstep[i] = 0
     \/ c.ice_tstep[i] % AccumTime(c, i) = 0
  /\ c.ice_tstep_multiply[i] # 1 => AccumTime(c, i) % Year = 0

\* A configuration that fails a check ends in GM_FATAL.
Acceptable(c) ==
  SameMbalStep(c) /\ MbalDivides(c) /\ \A i \in Instances : AccumDivides(c, i)

StepsWithoutMultiply(c, i) ==
  IF AccumTime(c, i) > c.ice_tstep[i] THEN AccumTime(c, i) \div c.ice_tstep[i] ELSE 1

IceStepsPerCall(c, i) ==
  IF AccumTime(c, i) > c.ice_tstep[i]
  THEN (c.ice_tstep_multiply[i] * AccumTime(c, i)) \div c.ice_tstep[i]
  ELSE c.ice_tstep_multiply[i]

NoOutput == [output_flag |-> FALSE, ice_tstep |-> FALSE, ice_volume |-> {}]

ClockInit ==
  /\ cfg \in Configs
  /\ phase = "config" /\ now = cfg.start_time
  /\ tstep_mbal = 1 /\ new_av = TRUE /\ av_start_time = 0 /\ av_steps = 0
  /\ next_av_start = cfg.start_time /\ g_av = {}
  /\ mbal_accum_time = cfg.mbal_accum_time
  /\ n_icetstep = [i \in Instances |-> 0]
  /\ next_time = [i \in Instances |-> 0]
  /\ glide_time = [i \in Instances |-> 0]
  /\ new_accum = [i \in Instances |-> TRUE]
  /\ acc_start = [i \in Instances |-> 0]
  /\ av_count = [i \in Instances |-> 0]
  /\ acab_save = [i \in Instances |-> {}]
  /\ out = NoOutput
  /\ received = {} /\ delivered = [i \in Instances |-> {}]
  /\ last_ice = [i \in Instances |-> {}]

InitialiseGlint ==
  /\ phase = "config" /\ Acceptable(cfg)
  /\ phase' = "run"
  /\ \E i \in Instances : tstep_mbal' = cfg.mbal_tstep[i]
  /\ mbal_accum_time' = [i \in Instances |-> AccumTime(cfg, i)]
  /\ n_icetstep' = [i \in Instances |-> IceStepsPerCall(cfg, i)]
  /\ next_time' = [i \in Instances |->
                     cfg.start_time - cfg.time_step + cfg.mbal_tstep[i]]
  /\ UNCHANGED <<cfg, now, new_av, av_start_time, av_steps, next_av_start, g_av,
                 glide_time, new_accum, acc_start, av_count, acab_save, out, histVars>>

RejectConfig ==
  /\ phase = "config" /\ ~Acceptable(cfg)
  /\ phase' = "rejected"
  /\ UNCHANGED <<now, avVars, fixedVars, instVars, out, histVars>>

-------------------------------------------------------------------------------
(* glint_gcm: the climate model calls at time t *)

AvStart(t) == IF new_av THEN t ELSE av_start_time

Unexpected(t) ==
  IF new_av THEN t # next_av_start ELSE (t - av_start_time) % cfg.time_step # 0

Elapsed(t) == t - AvStart(t) + cfg.time_step

\* The clock of the climate model after a call at t.
Tick(t) == now' = t + cfg.time_step

\* GM_FATAL: an unexpected call, or one beyond the end of the averaging period.
\* The program is gone, so what it had changed before the test does not matter.
RejectCall(t) ==
  /\ Unexpected(t) \/ Elapsed(t) > tstep_mbal
  /\ phase' = "stopped"
  /\ Tick(t)
  /\ UNCHANGED <<avVars, fixedVars, instVars, out, histVars>>

\* accumulate_averages_gcm and the bookkeeping of a call inside the period.
AccumulateForcing(t) ==
  /\ ~Unexpected(t) /\ Elapsed(t) < tstep_mbal
  /\ new_av' = FALSE /\ av_start_time' = AvStart(t)
  /\ av_steps' = av_steps + 1
  /\ g_av' = g_av \cup {t}
  /\ out' = NoOutput
  /\ received' = received \cup {t}
  /\ Tick(t)
  /\ UNCHANGED <<phase, tstep_mbal, next_av_start, fixedVars, instVars, delivered, last_ice>>

\* glint_i_tstep_gcm returns at once unless the call is the one it waits for.
Waits(i, t) == t # next_time[i]

AlwaysNewAccum(i, t) == t
NeverNewAccum(i) == acab_save[i]

\* glint_accumulate_gcm starts a new accumulation when the last one was used.
AccStart(i, t) == IF new_accum[i] THEN t ELSE acc_start[i]
Accumulated(i) == IF new_accum[i] THEN {} ELSE acab_save[i]

RunsIce(i, t) ==
  /\ ~Waits(i, t)
  /\ t - AccStart(i, t) + cfg.mbal_tstep[i] = mbal_accum_time[i]

AlwaysSkipIceStep(i, t) ==
  IF Waits(i, t) THEN next_time[i]
  ELSE IF RunsIce(i, t) THEN next_time[i] + cfg.ice_tstep[i]
  ELSE next_time[i] + cfg.mbal_tstep[i]

NextTime(i, t) ==
  IF Waits(i, t) THEN next_time[i]
  ELSE IF RunsIce(i, t) /\ mbal_accum_time[i] < cfg.ice_tstep[i]
  THEN next_time[i] + cfg.ice_tstep[i]
  ELSE next_time[i] + cfg.mbal_tstep[i]

LastFlag(t) == {RunsIce(CHOOSE i \in Instances : TRUE, t)}

\* ice_tstep is the OR of the flags the instances return.  An instance that
\* waits leaves its intent(out) flag undefined: either value may be read.
IceFlag(t) ==
  IF \E i \in Instances : RunsIce(i, t) THEN {TRUE}
  ELSE IF \E i \in Instances : Waits(i, t) THEN BOOLEAN ELSE {FALSE}

\* glint_i_tstep_gcm of one instance, field by field: see MassBalanceStep.
StepInstances(t, forcing) ==
  /\ next_time' = [i \in Instances |-> NextTime(i, t)]
  /\ acc_start' = [i \in Instances |->
       IF Waits(i, t) THEN acc_start[i] ELSE AccStart(i, t)]
  /\ av_count' = [i \in Instances |->
       IF Waits(i, t) THEN av_count[i]
       ELSE (IF new_accum[i] THEN 0 ELSE av_count[i]) + 1]
  /\ acab_save' = [i \in Instances |->
       IF Waits(i, t) THEN acab_save[i] ELSE Accumulated(i) \cup forcing]
  /\ new_accum' = [i \in Instances |->
       IF Waits(i, t) THEN new_accum[i] ELSE RunsIce(i, t)]
  /\ glide_time' = [i \in Instances |->
       IF RunsIce(i, t) THEN glide_time[i] + n_icetstep[i] * cfg.ice_tstep[i]
       ELSE glide_time[i]]
  /\ delivered' = [i \in Instances |->
       IF RunsIce(i, t) THEN delivered[i] \cup Accumulated(i) \cup forcing
       ELSE delivered[i]]
  /\ last_ice' = [i \in Instances |-> IF RunsIce(i, t) THEN {t} ELSE last_ice[i]]

\* The instance loop of glint_gcm allocates lsdep_temp for each instance, and
\* releases it only after the loop: a second instance stops the program.
LoopFails == cfg.entry = "glint_gcm" /\ Cardinality(Instances) > 1

CrashInLoop(t) ==
  /\ ~Unexpected(t) /\ Elapsed(t) = tstep_mbal /\ LoopFails
  /\ phase' = "crashed"
  /\ Tick(t)
  /\ UNCHANGED <<avVars, fixedVars, instVars, out, histVars>>

\* The call that completes the averaging period steps every instance.
MassBalanceStep(t) ==
  /\ ~Unexpected(t) /\ Elapsed(t) = tstep_mbal /\ ~LoopFails
  /\ StepInstances(t, g_av \cup {t})
  /\ g_av' = {} /\ av_steps' = 0 /\ new_av' = TRUE
  /\ av_start_time' = AvStart(t)
  /\ next_av_start' = t + cfg.time_step
  /\ \E flag \in IceFlag(t) :
       out' = [output_flag |-> TRUE, ice_tstep |-> flag,
               ice_volume |-> {i \in Instances : ~Waits(i, t)}]
  /\ received' = received \cup {t}
  /\ Tick(t)
  /\ UNCHANGED <<phase, tstep_mbal, fixedVars>>

Glint(t) ==
  RejectCall(t) \/ AccumulateForcing(t) \/ CrashInLoop(t) \/ MassBalanceStep(t)

CallGlint ==
  /\ phase = "run"
  /\ \E late \in Lateness : now + late <= Horizon /\ Glint(now + late)

ClockNext == InitialiseGlint \/ RejectConfig \/ CallGlint

ClockSpec == ClockInit /\ [][ClockNext]_clockVars

\* The climate model's time loop goes on to the end of its run.
FairClock == ClockSpec /\ WF_clockVars(ClockNext)

-------------------------------------------------------------------------------
(* Properties *)

ClockTypeOK ==
  /\ cfg \in Configs
  /\ phase \in {"config", "run", "rejected", "stopped", "crashed"}
  /\ now \in Int /\ tstep_mbal \in Nat \ {0}
  /\ new_av \in BOOLEAN /\ av_start_time \in Int /\ av_steps \in Nat
  /\ next_av_start \in Int /\ g_av \subseteq Int
  /\ mbal_accum_time \in [Instances -> Int]
  /\ n_icetstep \in [Instances -> Nat]
  /\ next_time \in [Instances -> Int]
  /\ glide_time \in [Instances -> Nat]
  /\ new_accum \in [Instances -> BOOLEAN]
  /\ acc_start \in [Instances -> Int]
  /\ av_count \in [Instances -> Nat]
  /\ acab_save \in [Instances -> SUBSET Int]
  /\ out \in [output_flag : BOOLEAN, ice_tstep : BOOLEAN, ice_volume : SUBSET Instances]
  /\ received \subseteq Int
  /\ delivered \in [Instances -> SUBSET Int]
  /\ last_ice \in [Instances -> SUBSET Int]

Running == phase \in {"run", "stopped"}

\* First time of the averaging period that is open or due.
PeriodStart == IF new_av THEN next_av_start ELSE av_start_time

\* An instance that accumulates for at least one ice time-step uses all forcing.
UsesAllForcing(i) == mbal_accum_time[i] >= cfg.ice_tstep[i]

\* No instance accumulates for less than an ice time-step.
NoShortAccumulation ==
  \A c \in Configs : \A i \in Instances : AccumTime(c, i) >= c.ice_tstep[i]

\* A climate model that calls on every forcing time-step is never stopped by
\* "Unexpected calling of GLINT" or "Incomplete forcing", whatever accepted
\* time-steps it runs with: the two checks of glint_gcm agree with the reset
\* it does itself at the end of each mass-balance step.
RegularCallsAccepted == Lateness = {0} => phase # "stopped"

\* An instance that accumulates for at least one ice time-step waits for
\* exactly the call on which glint_gcm will step it.  glint_i_tstep_gcm
\* returns silently on any other call, so a difference of one forcing step
\* would freeze the ice sheet for ever with no message.
NeverMissesItsCall ==
  Running => \A i \in Instances : UsesAllForcing(i) =>
     next_time[i] = PeriodStart + tstep_mbal - cfg.time_step

\* Every accepted forcing is in one place: being averaged, accumulated and not
\* yet used, or applied to the ice.  None is lost between the two counters and
\* none is in two places, so none is applied twice.
ForcingInOnePlace ==
  Running => \A i \in Instances : UsesAllForcing(i) =>
     /\ received = g_av \cup Accumulated(i) \cup delivered[i]
     /\ g_av \cap Accumulated(i) = {} /\ g_av \cap delivered[i] = {}
     /\ Accumulated(i) \cap delivered[i] = {}

\* The ice clock shows ice_tstep_multiply times the forcing time that has been
\* handed to the ice, measured on the mass-balance clock: no rounding is lost in
\* the integer division that gives n_icetstep, and no ice step is lost or added.
FirstMbal(i) == cfg.start_time - cfg.time_step + cfg.mbal_tstep[i]
IceClockMatchesForcing ==
  Running => \A i \in Instances : UsesAllForcing(i) =>
     glide_time[i] = cfg.ice_tstep_multiply[i] *
        ((IF new_accum[i] THEN next_time[i] ELSE acc_start[i]) - FirstMbal(i))

\* The accumulation an ice call uses is made of mbal_accum_time of mass balance,
\* no more and no less, however late the calls inside a period are.
AccumulationComplete ==
  Running => \A i \in Instances :
     /\ ~new_accum[i] => av_count[i] * cfg.mbal_tstep[i] < mbal_accum_time[i]
     /\ new_accum[i] /\ av_count[i] > 0 =>
          av_count[i] * cfg.mbal_tstep[i] = mbal_accum_time[i]

\* The inductive invariant behind the invariants above: what InitialiseGlint
\* leaves behind, and how each clock follows from its counter.
BeforeStart ==
  phase = "config" =>
    /\ new_av /\ av_steps = 0 /\ g_av = {} /\ received = {}
    /\ now = cfg.start_time /\ next_av_start = cfg.start_time
    /\ \A i \in Instances : /\ new_accum[i] /\ av_count[i] = 0 /\ glide_time[i] = 0
                            /\ acab_save[i] = {} /\ delivered[i] = {}
ConfigApplied ==
  Running =>
    /\ Acceptable(cfg)
    /\ \A i \in Instances : /\ tstep_mbal = cfg.mbal_tstep[i]
                            /\ mbal_accum_time[i] = AccumTime(cfg, i)
                            /\ n_icetstep[i] = IceStepsPerCall(cfg, i)
AveragingClock ==
  Lateness = {0} /\ phase = "run" =>
    IF new_av THEN now = next_av_start
    ELSE /\ now = av_start_time + av_steps * cfg.time_step
         /\ av_steps * cfg.time_step < tstep_mbal
AccumulationClock ==
  \A i \in Instances : ~new_accum[i] =>
     next_time[i] = acc_start[i] + av_count[i] * cfg.mbal_tstep[i]
ForcingIsPast ==
  /\ new_av => g_av = {} /\ av_steps = 0
  /\ \A s \in received : s < now

ClockInv ==
  /\ BeforeStart /\ ConfigApplied /\ AveragingClock /\ AccumulationClock /\ ForcingIsPast
  /\ RegularCallsAccepted /\ NeverMissesItsCall /\ ForcingInOnePlace
  /\ IceClockMatchesForcing /\ AccumulationComplete

\* ice_tstep is returned true by exactly the calls that ran an ice time-step
\* of some instance: no caller reads ice fields that did not change, or misses
\* a change.
IceFlagTruthful ==
  [][now' # now /\ phase' = "run"
       => (out'.ice_tstep <=> \E i \in Instances : glide_time'[i] # glide_time[i])]_clockVars

\* The forcing of every call reaches the ice of every instance that uses all
\* forcing, if the climate run is long enough to complete the accumulation, and
\* the loop over the instances completes: no forcing stays behind in the
\* averaging or the accumulation for ever.
ForcingReachesIce ==
  \A i \in Instances, t \in 0..Horizon :
    (/\ t \in received
     /\ UsesAllForcing(i) /\ ~LoopFails
     /\ t + mbal_accum_time[i] <= Horizon) ~> t \in delivered[i]
===============================================================================
