--------------------------- MODULE IceTask_proofs ----------------------------
(***************************************************************************)
(* The ice_sheet task of the suite, and the clock of the program it runs.   *)
(* GlintClock: for every set of instances and configurations.  IceDriver: for*)
(* any number of years, of attempts and of time-steps, under a launcher that*)
(* reports failures, and attempts that name their files alike: what is      *)
(* published is of one attempt.                                             *)
(***************************************************************************)
EXTENDS GlintClock, IceDriver, TLAPS

-------------------------------------------------------------------------------
(* Arithmetic of the time-step checks *)

\* A number of whole forcing steps passes the mod test of glint_gcm.
LEMMA MultMod ==
  ASSUME NEW k \in Nat, NEW d \in Nat \ {0}
  PROVE  (k * d) % d = 0
BY SMT

\* A time-step that passes the mod test is a whole number of steps.
LEMMA DivExact ==
  ASSUME NEW a \in Nat, NEW d \in Nat \ {0}, a % d = 0
  PROVE  a \div d \in Nat /\ a = (a \div d) * d
BY SMT

\* Whole steps that have not filled a period leave room for one more.
LEMMA RoomForOne ==
  ASSUME NEW k \in Nat, NEW m \in Nat, NEW d \in Nat \ {0}, k * d < m * d
  PROVE  (k + 1) * d <= m * d
BY SMT

LEMMA DivMult ==
  ASSUME NEW k \in Nat, NEW d \in Nat \ {0}
  PROVE  (k * d) \div d = k
BY SMT

\* The integer division that gives n_icetstep loses nothing.
LEMMA DivExactMultiple ==
  ASSUME NEW a \in Nat, NEW b \in Nat, NEW d \in Nat \ {0}, a % d = 0
  PROVE  (b * a) \div d \in Nat /\ ((b * a) \div d) * d = b * a
<1> DEFINE q == a \div d
<1>1. q \in Nat /\ a = q * d
  BY DivExact
<1> HIDE DEF q
<1>2. b * q \in Nat /\ b * a = (b * q) * d
  BY <1>1, SMT
<1>3. ((b * q) * d) \div d = b * q
  BY <1>2, DivMult
<1> QED BY <1>2, <1>3

-------------------------------------------------------------------------------
(* Types *)

\* What the assumption on the constants says of a configuration.
LEMMA ConfigTypes ==
  ASSUME NEW c \in Configs
  PROVE  /\ c.start_time \in Int /\ c.time_step \in Nat \ {0}
         /\ c.mbal_tstep \in [Instances -> Nat \ {0}]
         /\ c.ice_tstep \in [Instances -> Nat \ {0}]
         /\ c.mbal_accum_time \in [Instances -> Nat \cup {-1}]
         /\ c.ice_tstep_multiply \in [Instances -> Nat \ {0}]
BY ClockConstants DEF ConfigType

LEMMA AccumTimeType ==
  ASSUME NEW c \in Configs, NEW i \in Instances
  PROVE  AccumTime(c, i) \in Nat
BY ConfigTypes, SMT DEF AccumTime

\* n_icetstep is a natural number, and the ice steps of a call last exactly
\* ice_tstep_multiply accumulations when an accumulation is not shorter than
\* an ice step.
LEMMA IceStepsType ==
  ASSUME NEW c \in Configs, NEW i \in Instances, AccumDivides(c, i)
  PROVE  /\ IceStepsPerCall(c, i) \in Nat
         /\ AccumTime(c, i) >= c.ice_tstep[i] =>
              IceStepsPerCall(c, i) * c.ice_tstep[i]
                = c.ice_tstep_multiply[i] * AccumTime(c, i)
<1> DEFINE a == AccumTime(c, i)
           d == c.ice_tstep[i]
           b == c.ice_tstep_multiply[i]
<1>1. a \in Nat /\ d \in Nat \ {0} /\ b \in Nat \ {0}
  BY ConfigTypes, AccumTimeType
<1>2. a % d = 0 \/ d % a = 0
  BY DEF AccumDivides
<1>3. a >= c.mbal_tstep[i] /\ c.mbal_tstep[i] \in Nat \ {0}
  BY ConfigTypes DEF AccumDivides
<1>4. a # 0
  BY <1>1, <1>3, SMT
<1>5. CASE a > d
  <2>1. a % d = 0
    <3> HIDE DEF a, d
    <3> SUFFICES ASSUME d % a = 0 PROVE FALSE
      BY <1>2
    <3>1. d % a = d
      BY <1>1, <1>4, <1>5, SMT
    <3> QED BY <3>1, <1>1, SMT
  <2>2. IceStepsPerCall(c, i) = (b * a) \div d
    BY <1>5 DEF IceStepsPerCall
  <2> HIDE DEF a, b, d
  <2>3. (b * a) \div d \in Nat /\ ((b * a) \div d) * d = b * a
    BY <1>1, <2>1, DivExactMultiple
  <2> QED BY <2>2, <2>3 DEF a, b, d
<1>6. CASE ~(a > d)
  <2>1. IceStepsPerCall(c, i) = b
    BY <1>6 DEF IceStepsPerCall
  <2>2. a >= d => a = d
    <3> HIDE DEF a, d
    <3> QED BY <1>1, <1>6, SMT
  <2> QED BY <1>1, <2>1, <2>2
<1> QED BY <1>5, <1>6

-------------------------------------------------------------------------------
(* Type correctness *)

LEMMA InitTypes == ClockInit => ClockTypeOK
<1> SUFFICES ASSUME ClockInit PROVE ClockTypeOK
  OBVIOUS
<1>1. cfg \in Configs
  BY DEF ClockInit
<1>2. cfg.start_time \in Int /\ cfg.mbal_accum_time \in [Instances -> Int]
  BY <1>1, ConfigTypes
<1> QED BY <1>1, <1>2 DEF ClockInit, ClockTypeOK, NoOutput

\* A step of the instances keeps their fields in their types.
LEMMA StepTypes ==
  ASSUME ClockTypeOK, ConfigApplied, phase = "run",
         NEW t \in Int, NEW forcing \in SUBSET Int, StepInstances(t, forcing)
  PROVE  /\ next_time' \in [Instances -> Int] /\ glide_time' \in [Instances -> Nat]
         /\ new_accum' \in [Instances -> BOOLEAN] /\ acc_start' \in [Instances -> Int]
         /\ av_count' \in [Instances -> Nat] /\ acab_save' \in [Instances -> SUBSET Int]
         /\ delivered' \in [Instances -> SUBSET Int]
         /\ last_ice' \in [Instances -> SUBSET Int]
<1> USE DEF StepInstances, ClockTypeOK
<1>1. cfg.mbal_tstep \in [Instances -> Nat \ {0}] /\ cfg.ice_tstep \in [Instances -> Nat \ {0}]
  BY ConfigTypes
<1>2. next_time' \in [Instances -> Int]
  BY <1>1 DEF NextTime
<1>3. \A i \in Instances : n_icetstep[i] * cfg.ice_tstep[i] \in Nat
  BY <1>1, SMT
<1>4. glide_time' \in [Instances -> Nat]
  BY <1>3
<1>5. new_accum' \in [Instances -> BOOLEAN]
  BY DEF RunsIce, Waits
<1>6. acc_start' \in [Instances -> Int] /\ av_count' \in [Instances -> Nat]
  BY DEF AccStart
<1>7. acab_save' \in [Instances -> SUBSET Int] /\ delivered' \in [Instances -> SUBSET Int]
  BY DEF Accumulated
<1>8. last_ice' \in [Instances -> SUBSET Int]
  OBVIOUS
<1> QED BY <1>2, <1>4, <1>5, <1>6, <1>7, <1>8

\* Every call of the climate model is made at an integer time.
LEMMA CallTime ==
  ASSUME ClockTypeOK, NEW late \in Lateness
  PROVE  now + late \in Int /\ now + late >= now
BY ClockConstants, SMT DEF ClockTypeOK

LEMMA NextTypes == ClockTypeOK /\ ConfigApplied /\ [ClockNext]_clockVars => ClockTypeOK'
<1> SUFFICES ASSUME ClockTypeOK, ConfigApplied, [ClockNext]_clockVars PROVE ClockTypeOK'
  OBVIOUS
<1>0. /\ cfg.start_time \in Int /\ cfg.time_step \in Nat \ {0}
      /\ cfg.mbal_tstep \in [Instances -> Nat \ {0}]
  BY ConfigTypes DEF ClockTypeOK
<1>1. CASE InitialiseGlint
  <2>1. \A i \in Instances : AccumTime(cfg, i) \in Int /\ IceStepsPerCall(cfg, i) \in Nat
    BY <1>1, AccumTimeType, IceStepsType DEF ClockTypeOK, InitialiseGlint, Acceptable
  <2> QED BY <1>0, <1>1, <2>1 DEF ClockTypeOK, InitialiseGlint, histVars
<1>2. CASE RejectConfig
  BY <1>2 DEF ClockTypeOK, RejectConfig, avVars, fixedVars, instVars, histVars
<1>3. CASE CallGlint
  <2>1. PICK t \in Int : phase = "run" /\ Glint(t)
    BY <1>3, CallTime DEF CallGlint
  <2>2. CASE RejectCall(t)
    BY <1>0, <2>2 DEF ClockTypeOK, RejectCall, Tick, avVars, fixedVars, instVars, histVars
  <2>3. CASE AccumulateForcing(t)
    <3>1. out' \in [output_flag : BOOLEAN, ice_tstep : BOOLEAN, ice_volume : SUBSET Instances]
      BY <2>3 DEF AccumulateForcing, NoOutput
    <3>2. AvStart(t) \in Int /\ av_steps + 1 \in Nat /\ t + cfg.time_step \in Int
      BY <1>0 DEF AvStart, ClockTypeOK
    <3> QED BY <2>3, <3>1, <3>2 DEF ClockTypeOK, AccumulateForcing, Tick, fixedVars, instVars
  <2>4. CASE MassBalanceStep(t)
    <3>1. g_av \cup {t} \in SUBSET Int
      BY DEF ClockTypeOK
    <3>2. /\ next_time' \in [Instances -> Int] /\ glide_time' \in [Instances -> Nat]
          /\ new_accum' \in [Instances -> BOOLEAN] /\ acc_start' \in [Instances -> Int]
          /\ av_count' \in [Instances -> Nat] /\ acab_save' \in [Instances -> SUBSET Int]
          /\ delivered' \in [Instances -> SUBSET Int]
          /\ last_ice' \in [Instances -> SUBSET Int]
      BY <2>1, <2>4, <3>1, StepTypes DEF MassBalanceStep
    <3>3. out' \in [output_flag : BOOLEAN, ice_tstep : BOOLEAN, ice_volume : SUBSET Instances]
      <4>1. IceFlag(t) \subseteq BOOLEAN
        BY Zenon DEF IceFlag
      <4>2. PICK flag \in BOOLEAN :
              out' = [output_flag |-> TRUE, ice_tstep |-> flag,
                      ice_volume |-> {i \in Instances : ~Waits(i, t)}]
        BY <2>4, <4>1, Zenon DEF MassBalanceStep
      <4>3. {i \in Instances : ~Waits(i, t)} \in SUBSET Instances
        OBVIOUS
      <4> QED BY <4>2, <4>3, Zenon
    <3>4. /\ now' \in Int /\ av_start_time' \in Int /\ next_av_start' \in Int
          /\ received' \subseteq Int
      BY <1>0, <2>1, <2>4 DEF ClockTypeOK, MassBalanceStep, Tick, AvStart
    <3>5. /\ av_steps' = 0 /\ new_av' = TRUE /\ g_av' = {}
          /\ UNCHANGED <<phase, tstep_mbal, cfg, mbal_accum_time, n_icetstep>>
      BY <2>4 DEF MassBalanceStep, fixedVars
    <3> QED BY <3>2, <3>3, <3>4, <3>5 DEF ClockTypeOK
  <2>5. CASE CrashInLoop(t)
    BY <1>0, <2>5 DEF ClockTypeOK, CrashInLoop, Tick, avVars, fixedVars, instVars, histVars
  <2> QED BY <2>1, <2>2, <2>3, <2>4, <2>5 DEF Glint
<1>4. CASE UNCHANGED clockVars
  BY <1>4 DEF ClockTypeOK, clockVars, avVars, fixedVars, instVars, histVars
<1> QED BY <1>1, <1>2, <1>3, <1>4 DEF ClockNext

-------------------------------------------------------------------------------
(* The clocks *)

LEMMA InitClock == ClockInit => ClockInv
<1> SUFFICES ASSUME ClockInit PROVE ClockInv
  OBVIOUS
<1>1. phase = "config" /\ new_accum = [i \in Instances |-> TRUE]
  BY DEF ClockInit
<1>2. ~Running /\ phase # "stopped" /\ phase # "run"
  BY <1>1 DEF Running
<1>3. BeforeStart
  BY DEF ClockInit, BeforeStart
<1>4. AccumulationClock
  BY <1>1 DEF AccumulationClock
<1>5. ForcingIsPast
  BY DEF ClockInit, ForcingIsPast
<1> QED
  BY <1>2, <1>3, <1>4, <1>5 DEF ClockInv, ConfigApplied, AveragingClock, RegularCallsAccepted,
     NeverMissesItsCall, ForcingInOnePlace, IceClockMatchesForcing, AccumulationComplete

\* initialise_glint_gcm establishes what the clocks rest on.
LEMMA InitialiseClock == ClockTypeOK /\ ClockInv /\ InitialiseGlint => ClockInv'
<1> SUFFICES ASSUME ClockTypeOK, ClockInv, InitialiseGlint PROVE ClockInv'
  OBVIOUS
<1>0. /\ cfg.start_time \in Int /\ cfg.time_step \in Nat \ {0}
      /\ cfg.mbal_tstep \in [Instances -> Nat \ {0}]
      /\ cfg.ice_tstep_multiply \in [Instances -> Nat \ {0}]
  BY ConfigTypes DEF ClockTypeOK
<1>1. /\ new_av /\ av_steps = 0 /\ g_av = {} /\ received = {}
      /\ now = cfg.start_time /\ next_av_start = cfg.start_time
      /\ \A i \in Instances : /\ new_accum[i] /\ av_count[i] = 0 /\ glide_time[i] = 0
                              /\ acab_save[i] = {} /\ delivered[i] = {}
  BY DEF InitialiseGlint, ClockInv, BeforeStart
<1>2. /\ Acceptable(cfg) /\ phase' = "run"
      /\ UNCHANGED <<cfg, now, new_av, av_start_time, av_steps, next_av_start, g_av,
                     glide_time, new_accum, acc_start, av_count, acab_save, received, delivered>>
      /\ \A i \in Instances :
           /\ tstep_mbal' = cfg.mbal_tstep[i]
           /\ mbal_accum_time'[i] = AccumTime(cfg, i)
           /\ n_icetstep'[i] = IceStepsPerCall(cfg, i)
           /\ next_time'[i] = cfg.start_time - cfg.time_step + cfg.mbal_tstep[i]
  BY DEF InitialiseGlint, histVars, Acceptable, SameMbalStep
<1>3. BeforeStart' /\ ConfigApplied' /\ RegularCallsAccepted'
  BY <1>2 DEF BeforeStart, ConfigApplied, RegularCallsAccepted, Acceptable, SameMbalStep,
     MbalDivides, AccumDivides, AccumTime, IceStepsPerCall
<1>4. AveragingClock' /\ ForcingIsPast'
  BY <1>1, <1>2 DEF AveragingClock, ForcingIsPast
<1>5. AccumulationClock' /\ AccumulationComplete'
  BY <1>1, <1>2 DEF AccumulationClock, AccumulationComplete
<1>6. NeverMissesItsCall'
  BY <1>0, <1>1, <1>2 DEF NeverMissesItsCall, PeriodStart
<1>7. ForcingInOnePlace'
  BY <1>1, <1>2 DEF ForcingInOnePlace, Accumulated
<1>8. IceClockMatchesForcing'
  <2> SUFFICES ASSUME NEW i \in Instances
               PROVE  (glide_time[i] = cfg.ice_tstep_multiply[i] *
                         ((IF new_accum[i] THEN next_time[i] ELSE acc_start[i]) - FirstMbal(i)))'
    BY DEF IceClockMatchesForcing
  <2>1. next_time'[i] - FirstMbal(i)' = 0 /\ new_accum'[i]
    BY <1>0, <1>1, <1>2 DEF FirstMbal
  <2> QED BY <1>0, <1>1, <1>2, <2>1
<1> QED BY <1>3, <1>4, <1>5, <1>6, <1>7, <1>8 DEF ClockInv

\* A call inside the averaging period moves only the averaging clock.
LEMMA AccumulateClock ==
  ASSUME ClockTypeOK, ClockInv, phase = "run", NEW late \in Lateness, NEW t \in Int,
         t = now + late, AccumulateForcing(t)
  PROVE  ClockInv'
<1>0. /\ cfg.time_step \in Nat \ {0} /\ tstep_mbal \in Nat \ {0}
      /\ now \in Int /\ av_start_time \in Int /\ av_steps \in Nat /\ received \subseteq Int
  BY ConfigTypes DEF ClockTypeOK
<1>1. /\ phase' = "run" /\ new_av' = FALSE /\ av_start_time' = AvStart(t)
      /\ av_steps' = av_steps + 1 /\ g_av' = g_av \cup {t} /\ received' = received \cup {t}
      /\ now' = t + cfg.time_step /\ ~Unexpected(t) /\ Elapsed(t) < tstep_mbal
      /\ UNCHANGED <<cfg, tstep_mbal, next_av_start, mbal_accum_time, n_icetstep,
                     next_time, glide_time, new_accum, acc_start, av_count, acab_save, delivered>>
  BY DEF AccumulateForcing, Tick, fixedVars, instVars
<1>2. now + late >= now
  BY CallTime
<1>3. BeforeStart' /\ ConfigApplied' /\ RegularCallsAccepted'
  BY <1>1 DEF ClockInv, BeforeStart, ConfigApplied, RegularCallsAccepted, Running, Acceptable,
     SameMbalStep, MbalDivides, AccumDivides, AccumTime, IceStepsPerCall
<1>4. AveragingClock'
  <2> SUFFICES ASSUME Lateness = {0}
               PROVE  /\ now' = av_start_time' + av_steps' * cfg.time_step
                      /\ av_steps' * cfg.time_step < tstep_mbal
    BY <1>1 DEF AveragingClock
  <2>1. t = AvStart(t) + av_steps * cfg.time_step
    <3>1. CASE new_av
      <4>1. av_steps = 0
        BY <3>1, <1>0 DEF ClockInv, ForcingIsPast
      <4> QED BY <3>1, <4>1, <1>0 DEF AvStart
    <3>2. CASE ~new_av
      BY <3>2, <1>0 DEF ClockInv, AveragingClock, AvStart
    <3> QED BY <3>1, <3>2
  <2>2. (av_steps + 1) * cfg.time_step = av_steps * cfg.time_step + cfg.time_step
    BY <1>0, SMT
  <2>3. av_steps * cfg.time_step \in Nat /\ AvStart(t) \in Int
    BY <1>0, SMT DEF AvStart
  <2> QED BY <1>0, <1>1, <2>1, <2>2, <2>3 DEF Elapsed
<1>5. AccumulationClock' /\ AccumulationComplete'
  BY <1>1 DEF ClockInv, AccumulationClock, AccumulationComplete, Running
<1>6. NeverMissesItsCall'
  BY <1>1 DEF ClockInv, NeverMissesItsCall, PeriodStart, AvStart, Unexpected, Running, UsesAllForcing
<1>7. ForcingIsPast' /\ ForcingInOnePlace'
  <2>1. t \notin received
    BY <1>0, <1>2 DEF ClockInv, ForcingIsPast
  <2>2. ForcingInOnePlace'
    BY <1>1, <2>1 DEF ClockInv, ForcingInOnePlace, Accumulated, Running, UsesAllForcing
  <2>3. ForcingIsPast'
    BY <1>0, <1>1, <1>2 DEF ClockInv, ForcingIsPast
  <2> QED BY <2>2, <2>3
<1>8. IceClockMatchesForcing'
  BY <1>1 DEF ClockInv, IceClockMatchesForcing, FirstMbal, Running, UsesAllForcing
<1> QED BY <1>3, <1>4, <1>5, <1>6, <1>7, <1>8 DEF ClockInv

\* An instance that uses all forcing is stepped by the call that completes the
\* averaging period.
LEMMA StepsOnTime ==
  ASSUME ClockTypeOK, ClockInv, phase = "run", NEW t \in Int,
         ~Unexpected(t), Elapsed(t) = tstep_mbal,
         NEW i \in Instances, UsesAllForcing(i)
  PROVE  /\ t = next_time[i]
         /\ t = PeriodStart + tstep_mbal - cfg.time_step
<1>1. cfg.time_step \in Nat \ {0} /\ tstep_mbal \in Nat /\ av_start_time \in Int
      /\ next_av_start \in Int
  BY ConfigTypes DEF ClockTypeOK
<1>2. next_time[i] = PeriodStart + tstep_mbal - cfg.time_step
  BY DEF ClockInv, NeverMissesItsCall, Running
<1>3. AvStart(t) = PeriodStart
  BY DEF AvStart, PeriodStart, Unexpected
<1> QED BY <1>1, <1>2, <1>3 DEF Elapsed, AvStart

\* What one instance does on the call that completes the averaging period.
LEMMA InstanceStep ==
  ASSUME ClockTypeOK, ConfigApplied, phase = "run", NEW t \in Int,
         NEW forcing \in SUBSET Int, StepInstances(t, forcing), NEW i \in Instances
  PROVE  /\ t # next_time[i] =>
              /\ next_time'[i] = next_time[i] /\ acc_start'[i] = acc_start[i]
              /\ av_count'[i] = av_count[i] /\ acab_save'[i] = acab_save[i]
              /\ new_accum'[i] = new_accum[i] /\ glide_time'[i] = glide_time[i]
              /\ delivered'[i] = delivered[i]
         /\ t = next_time[i] /\ ~RunsIce(i, t) =>
              /\ next_time'[i] = t + cfg.mbal_tstep[i] /\ acc_start'[i] = AccStart(i, t)
              /\ av_count'[i] = (IF new_accum[i] THEN 0 ELSE av_count[i]) + 1
              /\ acab_save'[i] = Accumulated(i) \cup forcing
              /\ ~new_accum'[i] /\ glide_time'[i] = glide_time[i]
              /\ delivered'[i] = delivered[i]
         /\ RunsIce(i, t) =>
              /\ t = next_time[i] /\ t - AccStart(i, t) + cfg.mbal_tstep[i] = mbal_accum_time[i]
              /\ UsesAllForcing(i) => next_time'[i] = t + cfg.mbal_tstep[i]
              /\ av_count'[i] = (IF new_accum[i] THEN 0 ELSE av_count[i]) + 1
              /\ new_accum'[i]
              /\ glide_time'[i] = glide_time[i] + n_icetstep[i] * cfg.ice_tstep[i]
              /\ delivered'[i] = delivered[i] \cup Accumulated(i) \cup forcing
<1>1. mbal_accum_time[i] \in Int /\ cfg.ice_tstep[i] \in Int
  BY ConfigTypes DEF ClockTypeOK
<1>2. CASE t # next_time[i]
  BY <1>2 DEF StepInstances, NextTime, Waits, RunsIce
<1>3. CASE t = next_time[i] /\ ~RunsIce(i, t)
  BY <1>3 DEF StepInstances, NextTime, Waits
<1>4. CASE RunsIce(i, t)
  <2>1. t = next_time[i] /\ ~Waits(i, t)
        /\ t - AccStart(i, t) + cfg.mbal_tstep[i] = mbal_accum_time[i]
    BY <1>4 DEF RunsIce, Waits
  <2>2. UsesAllForcing(i) => ~(mbal_accum_time[i] < cfg.ice_tstep[i])
    BY <1>1 DEF UsesAllForcing
  <2> QED BY <1>4, <2>1, <2>2 DEF StepInstances, NextTime
<1> QED BY <1>2, <1>3, <1>4 DEF RunsIce, Waits

\* The call that completes the averaging period keeps the clocks in step.
LEMMA MassBalanceClock ==
  ASSUME ClockTypeOK, ClockInv, phase = "run", NEW late \in Lateness, NEW t \in Int,
         t = now + late, MassBalanceStep(t)
  PROVE  ClockInv'
<1> DEFINE forcing == g_av \cup {t}
<1>0. /\ cfg.time_step \in Nat \ {0} /\ tstep_mbal \in Nat \ {0} /\ now \in Int
      /\ av_start_time \in Int /\ next_av_start \in Int /\ received \subseteq Int
      /\ g_av \subseteq Int /\ forcing \in SUBSET Int
  BY ConfigTypes DEF ClockTypeOK
<1>1. /\ phase' = "run" /\ new_av' = TRUE /\ av_steps' = 0 /\ g_av' = {}
      /\ next_av_start' = t + cfg.time_step /\ received' = received \cup {t}
      /\ now' = t + cfg.time_step /\ ~Unexpected(t) /\ Elapsed(t) = tstep_mbal
      /\ StepInstances(t, forcing)
      /\ UNCHANGED <<cfg, tstep_mbal, mbal_accum_time, n_icetstep>>
  BY DEF MassBalanceStep, Tick, fixedVars
<1>2. now + late >= now
  BY CallTime
<1>3. ConfigApplied
  BY DEF ClockInv
<1> HIDE DEF forcing
<1>4. BeforeStart' /\ ConfigApplied' /\ RegularCallsAccepted' /\ AveragingClock'
  BY <1>1, <1>3 DEF BeforeStart, ConfigApplied, RegularCallsAccepted, Running, Acceptable,
     SameMbalStep, MbalDivides, AccumDivides, AccumTime, IceStepsPerCall, AveragingClock
<1>5. ForcingIsPast'
  BY <1>0, <1>1, <1>2 DEF ClockInv, ForcingIsPast
<1>6. ASSUME NEW i \in Instances
      PROVE  (~new_accum[i] => next_time[i] = acc_start[i] + av_count[i] * cfg.mbal_tstep[i])'
  <2>1. /\ cfg.mbal_tstep[i] \in Nat \ {0} /\ av_count[i] \in Nat
        /\ acc_start[i] \in Int /\ next_time[i] \in Int
    BY ConfigTypes DEF ClockTypeOK
  <2>2. ~new_accum[i] => next_time[i] = acc_start[i] + av_count[i] * cfg.mbal_tstep[i]
    BY DEF ClockInv, AccumulationClock
  <2>3. (av_count[i] + 1) * cfg.mbal_tstep[i] = av_count[i] * cfg.mbal_tstep[i] + cfg.mbal_tstep[i]
        /\ av_count[i] * cfg.mbal_tstep[i] \in Nat
    BY <2>1, SMT
  <2>4. CASE t # next_time[i]
    BY <1>0, <1>1, <1>3, <2>2, <2>4, InstanceStep
  <2>5. CASE t = next_time[i] /\ ~RunsIce(i, t)
    <3>1. /\ next_time'[i] = t + cfg.mbal_tstep[i] /\ acc_start'[i] = AccStart(i, t)
          /\ av_count'[i] = (IF new_accum[i] THEN 0 ELSE av_count[i]) + 1
      BY <1>0, <1>1, <1>3, <2>5, InstanceStep
    <3> QED BY <1>1, <2>1, <2>2, <2>3, <2>5, <3>1 DEF AccStart
  <2>6. CASE RunsIce(i, t)
    BY <1>0, <1>1, <1>3, <2>6, InstanceStep
  <2> QED BY <2>4, <2>5, <2>6
<1>7. ASSUME NEW i \in Instances
      PROVE  /\ (~new_accum[i] => av_count[i] * cfg.mbal_tstep[i] < mbal_accum_time[i])'
             /\ (new_accum[i] /\ av_count[i] > 0 =>
                   av_count[i] * cfg.mbal_tstep[i] = mbal_accum_time[i])'
  <2>1. /\ cfg.mbal_tstep[i] \in Nat \ {0} /\ av_count[i] \in Nat
        /\ acc_start[i] \in Int /\ next_time[i] \in Int
    BY ConfigTypes DEF ClockTypeOK
  <2>2. /\ mbal_accum_time[i] = AccumTime(cfg, i) /\ mbal_accum_time[i] \in Nat
        /\ mbal_accum_time[i] >= cfg.mbal_tstep[i] /\ mbal_accum_time[i] % cfg.mbal_tstep[i] = 0
    BY <1>3, AccumTimeType DEF ConfigApplied, Running, Acceptable, AccumDivides, ClockTypeOK
  <2>3. PICK m \in Nat : mbal_accum_time[i] = m * cfg.mbal_tstep[i]
    BY <2>1, <2>2, DivExact
  <2>4. /\ ~new_accum[i] => next_time[i] = acc_start[i] + av_count[i] * cfg.mbal_tstep[i]
        /\ ~new_accum[i] => av_count[i] * cfg.mbal_tstep[i] < mbal_accum_time[i]
        /\ new_accum[i] /\ av_count[i] > 0 =>
             av_count[i] * cfg.mbal_tstep[i] = mbal_accum_time[i]
    BY DEF ClockInv, AccumulationClock, AccumulationComplete, Running
  <2>5. (av_count[i] + 1) * cfg.mbal_tstep[i] = av_count[i] * cfg.mbal_tstep[i] + cfg.mbal_tstep[i]
        /\ av_count[i] * cfg.mbal_tstep[i] \in Nat
    BY <2>1, SMT
  <2>6. ~new_accum[i] => (av_count[i] + 1) * cfg.mbal_tstep[i] <= mbal_accum_time[i]
    BY <2>1, <2>3, <2>4, RoomForOne
  <2>7. CASE t # next_time[i]
    BY <1>0, <1>1, <1>3, <2>4, <2>7, InstanceStep
  <2>8. CASE t = next_time[i]
    <3>1. /\ av_count'[i] = (IF new_accum[i] THEN 0 ELSE av_count[i]) + 1
          /\ new_accum'[i] <=> RunsIce(i, t)
      BY <1>0, <1>1, <1>3, <2>8, InstanceStep
    <3>2. t - AccStart(i, t) + cfg.mbal_tstep[i] = av_count'[i] * cfg.mbal_tstep[i]
      BY <2>1, <2>4, <2>5, <2>8, <3>1 DEF AccStart
    <3>3. av_count'[i] * cfg.mbal_tstep[i] <= mbal_accum_time[i]
          /\ av_count'[i] * cfg.mbal_tstep[i] \in Nat
      BY <2>1, <2>2, <2>5, <2>6, <3>1
    <3>4. RunsIce(i, t) <=> av_count'[i] * cfg.mbal_tstep[i] = mbal_accum_time[i]
      BY <2>8, <3>2 DEF RunsIce, Waits
    <3> QED BY <1>1, <2>2, <3>1, <3>3, <3>4
  <2> QED BY <2>7, <2>8
<1>8. ASSUME NEW i \in Instances, UsesAllForcing(i)
      PROVE  /\ (next_time[i] = PeriodStart + tstep_mbal - cfg.time_step)'
             /\ (received = g_av \cup Accumulated(i) \cup delivered[i]
                 /\ g_av \cap Accumulated(i) = {} /\ g_av \cap delivered[i] = {}
                 /\ Accumulated(i) \cap delivered[i] = {})'
             /\ (glide_time[i] = cfg.ice_tstep_multiply[i] *
                  ((IF new_accum[i] THEN next_time[i] ELSE acc_start[i]) - FirstMbal(i)))'
  <2>1. t = next_time[i] /\ t = PeriodStart + tstep_mbal - cfg.time_step
    BY <1>1, <1>8, StepsOnTime
  <2>2. /\ cfg.mbal_tstep[i] \in Nat \ {0} /\ tstep_mbal = cfg.mbal_tstep[i]
        /\ cfg.ice_tstep_multiply[i] \in Nat /\ cfg.start_time \in Int
        /\ acc_start[i] \in Int /\ glide_time[i] \in Nat /\ mbal_accum_time[i] \in Int
    BY <1>3, ConfigTypes DEF ClockTypeOK, ConfigApplied, Running
  <2>a. t \in Int /\ forcing \in SUBSET Int /\ StepInstances(t, forcing)
    BY <1>0, <1>1
  <2>3. next_time'[i] = t + cfg.mbal_tstep[i]
    <3>1. \/ next_time'[i] = t + cfg.mbal_tstep[i]
          \/ RunsIce(i, t) /\ (UsesAllForcing(i) => next_time'[i] = t + cfg.mbal_tstep[i])
      BY <1>3, <2>1, <2>a, InstanceStep
    <3> QED
      BY <1>8, <3>1
  <2>4. (next_time[i] = PeriodStart + tstep_mbal - cfg.time_step)'
    <3>1. next_time'[i] = t + tstep_mbal
      BY <2>2, <2>3
    <3> QED
      BY <1>0, <1>1, <2>2, <3>1 DEF PeriodStart
  <2>5. t \notin received /\ received = g_av \cup Accumulated(i) \cup delivered[i]
        /\ g_av \cap Accumulated(i) = {} /\ g_av \cap delivered[i] = {}
        /\ Accumulated(i) \cap delivered[i] = {}
    BY <1>0, <1>2, <1>8 DEF ClockInv, ForcingIsPast, ForcingInOnePlace, Running
  <2>6. glide_time[i] = cfg.ice_tstep_multiply[i] * (AccStart(i, t) - FirstMbal(i))
    BY <1>8, <2>1 DEF ClockInv, IceClockMatchesForcing, Running, AccStart
  <2>7. FirstMbal(i)' = FirstMbal(i) /\ FirstMbal(i) \in Int /\ AccStart(i, t) \in Int
    BY <1>0, <1>1, <2>2 DEF FirstMbal, AccStart
  <2>8. CASE ~RunsIce(i, t)
    <3>0. t = next_time[i] /\ ~RunsIce(i, t) =>
            /\ acc_start'[i] = AccStart(i, t) /\ acab_save'[i] = Accumulated(i) \cup forcing
            /\ ~new_accum'[i] /\ glide_time'[i] = glide_time[i] /\ delivered'[i] = delivered[i]
      BY <1>0, <1>1, <1>3, InstanceStep
    <3>1. /\ acc_start'[i] = AccStart(i, t) /\ acab_save'[i] = Accumulated(i) \cup forcing
          /\ ~new_accum'[i] /\ glide_time'[i] = glide_time[i] /\ delivered'[i] = delivered[i]
      BY <2>1, <2>8, <3>0
    <3>2. Accumulated(i)' = Accumulated(i) \cup forcing
      BY <3>1 DEF Accumulated
    <3>3. (received = g_av \cup Accumulated(i) \cup delivered[i]
           /\ g_av \cap Accumulated(i) = {} /\ g_av \cap delivered[i] = {}
           /\ Accumulated(i) \cap delivered[i] = {})'
      BY <1>1, <2>5, <3>1, <3>2 DEF forcing
    <3> QED BY <1>1, <2>4, <2>6, <2>7, <3>1, <3>3
  <2>9. CASE RunsIce(i, t)
    <3>1. /\ t - AccStart(i, t) + cfg.mbal_tstep[i] = mbal_accum_time[i]
          /\ new_accum'[i] /\ delivered'[i] = delivered[i] \cup Accumulated(i) \cup forcing
          /\ glide_time'[i] = glide_time[i] + n_icetstep[i] * cfg.ice_tstep[i]
      BY <1>0, <1>1, <1>3, <2>9, InstanceStep
    <3>2. Accumulated(i)' = {}
      BY <3>1 DEF Accumulated
    <3>3. (received = g_av \cup Accumulated(i) \cup delivered[i]
           /\ g_av \cap Accumulated(i) = {} /\ g_av \cap delivered[i] = {}
           /\ Accumulated(i) \cap delivered[i] = {})'
      BY <1>1, <2>5, <3>1, <3>2 DEF forcing
    <3>4. n_icetstep[i] * cfg.ice_tstep[i] = cfg.ice_tstep_multiply[i] * mbal_accum_time[i]
      BY <1>3, <1>8, IceStepsType DEF ConfigApplied, Running, Acceptable, UsesAllForcing, ClockTypeOK
    <3>5. glide_time'[i] = cfg.ice_tstep_multiply[i] * (next_time'[i] - FirstMbal(i))
      <4> DEFINE k == cfg.ice_tstep_multiply[i]
                 s == AccStart(i, t)
                 f == FirstMbal(i)
                 b == cfg.mbal_tstep[i]
                 n == next_time'[i]
      <4>0. mbal_accum_time[i] = t - s + b
        BY <3>1
      <4>1. glide_time[i] = k * (s - f) /\ glide_time'[i] = glide_time[i] + k * mbal_accum_time[i]
        BY <2>6, <3>1, <3>4
      <4>2. k \in Int /\ s \in Int /\ f \in Int /\ b \in Int
        BY <2>2, <2>7
      <4>3. n = t + b
        BY <2>3
      <4> HIDE DEF k, s, f, b, n
      <4>4. k * (s - f) + k * (t - s + b) = k * (n - f)
        BY <4>2, <4>3, SMT
      <4>5. glide_time'[i] = k * (n - f)
        BY <4>0, <4>1, <4>4
      <4> QED BY <4>5 DEF k, f, n
    <3> QED BY <1>1, <2>4, <2>7, <3>1, <3>3, <3>5
  <2> QED BY <2>8, <2>9
<1>9. UNCHANGED <<cfg, mbal_accum_time>>
  BY <1>1
<1>10. /\ AccumulationClock' /\ AccumulationComplete' /\ NeverMissesItsCall'
       /\ ForcingInOnePlace' /\ IceClockMatchesForcing'
  BY <1>6, <1>7, <1>8, <1>9 DEF AccumulationClock, AccumulationComplete, NeverMissesItsCall,
     ForcingInOnePlace, IceClockMatchesForcing, UsesAllForcing
<1> QED BY <1>4, <1>5, <1>10 DEF ClockInv

\* A call that is rejected stops the run; it cannot be a call made on time.
LEMMA RejectClock ==
  ASSUME ClockTypeOK, ClockInv, phase = "run", NEW late \in Lateness, NEW t \in Int,
         t = now + late, RejectCall(t)
  PROVE  ClockInv'
<1>0. /\ cfg \in Configs /\ cfg.time_step \in Nat \ {0} /\ tstep_mbal \in Nat \ {0}
      /\ now \in Int /\ av_start_time \in Int /\ av_steps \in Nat /\ received \subseteq Int
  BY ConfigTypes DEF ClockTypeOK
<1>1. /\ phase' = "stopped" /\ now' = t + cfg.time_step
      /\ Unexpected(t) \/ Elapsed(t) > tstep_mbal
      /\ UNCHANGED <<cfg, tstep_mbal, new_av, av_start_time, av_steps, next_av_start, g_av,
                     mbal_accum_time, n_icetstep, next_time, glide_time, new_accum, acc_start,
                     av_count, acab_save, received, delivered>>
  BY DEF RejectCall, Tick, avVars, fixedVars, instVars, histVars
<1>2. now + late >= now
  BY CallTime
<1>3. Lateness # {0}
  <2> SUFFICES ASSUME Lateness = {0} PROVE ~Unexpected(t) /\ ~(Elapsed(t) > tstep_mbal)
    BY <1>1
  <2>1. t = now
    BY <1>0
  <2>2. PICK m \in Nat : tstep_mbal = m * cfg.time_step
    <3>1. PICK i \in Instances : TRUE
      BY ClockConstants
    <3>2. tstep_mbal = cfg.mbal_tstep[i] /\ cfg.mbal_tstep[i] % cfg.time_step = 0
      BY DEF ClockInv, ConfigApplied, Running, Acceptable, MbalDivides
    <3> QED BY <1>0, <3>2, DivExact
  <2>3. CASE new_av
    <3>1. now = next_av_start
      BY <2>3 DEF ClockInv, AveragingClock
    <3>2. cfg.time_step <= m * cfg.time_step
      BY <1>0, <2>2, SMT
    <3>3. Elapsed(t) = cfg.time_step
      BY <1>0, <2>1, <2>3 DEF Elapsed, AvStart
    <3> QED BY <1>0, <2>1, <2>2, <2>3, <3>1, <3>2, <3>3 DEF Unexpected
  <2>4. CASE ~new_av
    <3>1. /\ now = av_start_time + av_steps * cfg.time_step
          /\ av_steps * cfg.time_step < m * cfg.time_step
      BY <2>2, <2>4 DEF ClockInv, AveragingClock
    <3>2. av_steps * cfg.time_step \in Nat /\ (av_steps * cfg.time_step) % cfg.time_step = 0
      BY <1>0, MultMod, SMT
    <3>3. t - av_start_time = av_steps * cfg.time_step
      BY <1>0, <2>1, <3>1, <3>2
    <3>4. (av_steps + 1) * cfg.time_step <= m * cfg.time_step
      BY <1>0, <3>1, RoomForOne
    <3>5. (av_steps + 1) * cfg.time_step = av_steps * cfg.time_step + cfg.time_step
      BY <1>0, SMT
    <3>6. ~Unexpected(t)
      BY <2>4, <3>2, <3>3 DEF Unexpected
    <3>7. Elapsed(t) = (av_steps + 1) * cfg.time_step
      BY <2>4, <3>3, <3>5 DEF Elapsed, AvStart
    <3> QED BY <1>0, <2>2, <3>4, <3>5, <3>6, <3>7, <3>2
  <2> QED BY <2>3, <2>4
<1>4. BeforeStart' /\ ConfigApplied' /\ RegularCallsAccepted' /\ AveragingClock'
  BY <1>1, <1>3 DEF ClockInv, BeforeStart, ConfigApplied, RegularCallsAccepted, Running, Acceptable,
     SameMbalStep, MbalDivides, AccumDivides, AccumTime, IceStepsPerCall, AveragingClock
<1>5. AccumulationClock' /\ AccumulationComplete' /\ NeverMissesItsCall'
  BY <1>1 DEF ClockInv, AccumulationClock, AccumulationComplete, NeverMissesItsCall, Running,
     PeriodStart, UsesAllForcing
<1>6. ForcingInOnePlace' /\ IceClockMatchesForcing'
  BY <1>1 DEF ClockInv, ForcingInOnePlace, IceClockMatchesForcing, Running, UsesAllForcing,
     Accumulated, FirstMbal
<1>7. ForcingIsPast'
  BY <1>0, <1>1, <1>2 DEF ClockInv, ForcingIsPast
<1> QED BY <1>4, <1>5, <1>6, <1>7 DEF ClockInv

\* A configuration that is refused leaves a GLINT that never runs.
LEMMA RejectConfigClock == ClockTypeOK /\ ClockInv /\ RejectConfig => ClockInv'
<1> SUFFICES ASSUME ClockTypeOK, ClockInv, RejectConfig PROVE ClockInv'
  OBVIOUS
<1>1. /\ phase' = "rejected"
      /\ UNCHANGED <<now, new_av, av_steps, g_av, cfg, next_time, new_accum, acc_start,
                     av_count, received>>
  BY DEF RejectConfig, avVars, fixedVars, instVars, histVars
<1>2. ~Running'
  BY <1>1 DEF Running
<1>3. AccumulationClock' /\ ForcingIsPast'
  BY <1>1 DEF ClockInv, AccumulationClock, ForcingIsPast
<1> QED
  BY <1>1, <1>2, <1>3 DEF ClockInv, BeforeStart, ConfigApplied, AveragingClock,
     RegularCallsAccepted, NeverMissesItsCall, ForcingInOnePlace, IceClockMatchesForcing,
     AccumulationComplete

\* A run that the instance loop stops is over: only its past is left to keep.
LEMMA CrashClock ==
  ASSUME ClockTypeOK, ClockInv, phase = "run", NEW late \in Lateness, NEW t \in Int,
         t = now + late, CrashInLoop(t)
  PROVE  ClockInv'
<1>1. /\ phase' = "crashed" /\ now' = t + cfg.time_step
      /\ UNCHANGED <<new_av, av_steps, g_av, cfg, next_time, new_accum, acc_start,
                     av_count, received>>
  BY DEF CrashInLoop, Tick, avVars, fixedVars, instVars, histVars
<1>2. ~Running'
  BY <1>1 DEF Running
<1>3. now' >= now /\ now \in Int /\ now' \in Int /\ received \subseteq Int
  BY <1>1, CallTime, ConfigTypes DEF ClockTypeOK
<1>4. AccumulationClock' /\ ForcingIsPast'
  BY <1>1, <1>3 DEF ClockInv, AccumulationClock, ForcingIsPast
<1> QED
  BY <1>1, <1>2, <1>4, SMTT(40) DEF ClockInv, BeforeStart, ConfigApplied, AveragingClock,
     RegularCallsAccepted, NeverMissesItsCall, ForcingInOnePlace, IceClockMatchesForcing,
     AccumulationComplete

LEMMA StutterClock == ClockInv /\ UNCHANGED clockVars => ClockInv'
BY SMTT(40) DEF clockVars, avVars, fixedVars, instVars, histVars, ClockInv, BeforeStart, ConfigApplied, AveragingClock,
   AccumulationClock, ForcingIsPast, RegularCallsAccepted, NeverMissesItsCall, ForcingInOnePlace,
   IceClockMatchesForcing, AccumulationComplete, Running, PeriodStart, UsesAllForcing, Accumulated,
   FirstMbal, Acceptable, SameMbalStep, MbalDivides, AccumDivides, AccumTime, IceStepsPerCall

LEMMA NextClock == ClockTypeOK /\ ClockInv /\ [ClockNext]_clockVars => ClockInv'
<1> SUFFICES ASSUME ClockTypeOK, ClockInv, [ClockNext]_clockVars PROVE ClockInv'
  OBVIOUS
<1>1. CASE InitialiseGlint
  BY <1>1, InitialiseClock
<1>2. CASE RejectConfig
  BY <1>2, RejectConfigClock
<1>3. CASE CallGlint
  <2>1. PICK late \in Lateness : phase = "run" /\ Glint(now + late)
    BY <1>3 DEF CallGlint
  <2>2. now + late \in Int
    BY CallTime
  <2>3. CASE RejectCall(now + late)
    BY <2>1, <2>2, <2>3, RejectClock
  <2>4. CASE AccumulateForcing(now + late)
    BY <2>1, <2>2, <2>4, AccumulateClock
  <2>5. CASE MassBalanceStep(now + late)
    BY <2>1, <2>2, <2>5, MassBalanceClock
  <2>6. CASE CrashInLoop(now + late)
    BY <2>1, <2>2, <2>6, CrashClock
  <2> QED BY <2>1, <2>3, <2>4, <2>5, <2>6 DEF Glint
<1>4. CASE UNCHANGED clockVars
  BY <1>4, StutterClock
<1> QED BY <1>1, <1>2, <1>3, <1>4 DEF ClockNext

\* An ice call moves the ice clock: n_icetstep is never zero, although the
\* integer division that gives it could round down.
LEMMA IceCallMoves ==
  ASSUME NEW c \in Configs, NEW i \in Instances, AccumDivides(c, i),
         AccumTime(c, i) >= c.ice_tstep[i]
  PROVE  IceStepsPerCall(c, i) * c.ice_tstep[i] > 0
<1> DEFINE a == AccumTime(c, i)
           b == c.ice_tstep_multiply[i]
<1>1. a \in Nat \ {0} /\ b \in Nat \ {0}
  BY AccumTimeType, ConfigTypes, SMT
<1>2. IceStepsPerCall(c, i) * c.ice_tstep[i] = b * a
  BY IceStepsType
<1> HIDE DEF a, b
<1>3. b * a > 0
  BY <1>1, SMT
<1> QED BY <1>2, <1>3

\* The flag returned by the call that completes the averaging period: every
\* instance takes part in it, so none leaves its own flag undefined.
LEMMA FlagOfStep ==
  ASSUME NoShortAccumulation, ClockTypeOK, ClockInv, phase = "run",
         NEW t \in Int, MassBalanceStep(t)
  PROVE  out'.ice_tstep <=> \E i \in Instances : glide_time'[i] # glide_time[i]
<1>1. /\ ~Unexpected(t) /\ Elapsed(t) = tstep_mbal
      /\ StepInstances(t, g_av \cup {t}) /\ g_av \cup {t} \in SUBSET Int
  BY DEF MassBalanceStep, ClockTypeOK
<1>2. cfg \in Configs /\ Acceptable(cfg) /\ ConfigApplied
  BY DEF ClockTypeOK, ClockInv, ConfigApplied, Running
<1>3. ASSUME NEW i \in Instances
      PROVE  /\ mbal_accum_time[i] = AccumTime(cfg, i) /\ n_icetstep[i] = IceStepsPerCall(cfg, i)
             /\ AccumTime(cfg, i) >= cfg.ice_tstep[i] /\ AccumDivides(cfg, i)
  BY <1>2 DEF ConfigApplied, Running, NoShortAccumulation, Acceptable
<1>4. ASSUME NEW i \in Instances
      PROVE  ~Waits(i, t)
  <2>1. UsesAllForcing(i)
    BY <1>3 DEF UsesAllForcing
  <2> QED BY <1>1, <2>1, StepsOnTime DEF Waits
<1>5. ASSUME NEW i \in Instances
      PROVE  glide_time'[i] # glide_time[i] <=> RunsIce(i, t)
  <2>1. n_icetstep[i] * cfg.ice_tstep[i] > 0
    BY <1>2, <1>3, IceCallMoves
  <2>2. glide_time[i] \in Nat /\ n_icetstep[i] * cfg.ice_tstep[i] \in Int
    BY <1>2, ConfigTypes DEF ClockTypeOK
  <2>3. glide_time'[i] = IF RunsIce(i, t) THEN glide_time[i] + n_icetstep[i] * cfg.ice_tstep[i]
                         ELSE glide_time[i]
    BY <1>1 DEF StepInstances
  <2> DEFINE h == n_icetstep[i] * cfg.ice_tstep[i]
  <2> HIDE DEF h
  <2>4. h > 0 /\ h \in Int
    BY <2>1, <2>2 DEF h
  <2>5. glide_time'[i] = IF RunsIce(i, t) THEN glide_time[i] + h ELSE glide_time[i]
    BY <2>3 DEF h
  <2> QED BY <2>2, <2>4, <2>5
<1>6. IceFlag(t) = {\E i \in Instances : RunsIce(i, t)}
  BY <1>4 DEF IceFlag
<1>7. out'.ice_tstep \in IceFlag(t)
  BY DEF MassBalanceStep
<1>8. out'.ice_tstep = \E i \in Instances : RunsIce(i, t)
  BY <1>6, <1>7
<1>9. (\E i \in Instances : glide_time'[i] # glide_time[i])
        <=> \E i \in Instances : RunsIce(i, t)
  BY <1>5
<1> QED BY <1>8, <1>9, Zenon

-------------------------------------------------------------------------------
(* Theorems *)

\* The inductive invariant: whatever the instances, the configuration and the
\* delays of the climate model, the four clocks of GLINT stay related.
THEOREM ClockCorrect == ClockSpec => [](ClockTypeOK /\ ClockInv)
<1>1. ClockInit => ClockTypeOK /\ ClockInv
  BY InitTypes, InitClock
<1>2. ClockTypeOK /\ ClockInv /\ [ClockNext]_clockVars => (ClockTypeOK /\ ClockInv)'
  BY NextTypes, NextClock DEF ClockInv
<1> QED BY <1>1, <1>2, PTL DEF ClockSpec

\* Every variable of GLINT keeps its type.
THEOREM TypeCorrect == ClockSpec => []ClockTypeOK
BY ClockCorrect, PTL

\* The two fatal checks of glint_gcm never stop a climate model that calls on
\* every forcing time-step, with any time-steps glint_i_initialise_gcm accepts.
THEOREM RegularCalls == ClockSpec => []RegularCallsAccepted
<1>1. ClockTypeOK /\ ClockInv => RegularCallsAccepted
  BY DEF ClockInv
<1> QED BY <1>1, ClockCorrect, PTL

\* next_time of an instance always is the call that completes the averaging
\* period: the silent return of glint_i_tstep_gcm is never taken by mistake.
THEOREM NeverMisses == ClockSpec => []NeverMissesItsCall
<1>1. ClockTypeOK /\ ClockInv => NeverMissesItsCall
  BY DEF ClockInv
<1> QED BY <1>1, ClockCorrect, PTL

\* Forcing is conserved from the averages to the accumulation to the ice.
THEOREM ForcingConserved == ClockSpec => []ForcingInOnePlace
<1>1. ClockTypeOK /\ ClockInv => ForcingInOnePlace
  BY DEF ClockInv
<1> QED BY <1>1, ClockCorrect, PTL

\* The ice has been advanced by ice_tstep_multiply times the forcing it was
\* given: n_icetstep * ice_tstep loses nothing to the integer division.
THEOREM IceClockCorrect == ClockSpec => []IceClockMatchesForcing
<1>1. ClockTypeOK /\ ClockInv => IceClockMatchesForcing
  BY DEF ClockInv
<1> QED BY <1>1, ClockCorrect, PTL

\* An ice call uses mbal_accum_time of mass balance, no more and no less.
THEOREM AccumulationCorrect == ClockSpec => []AccumulationComplete
<1>1. ClockTypeOK /\ ClockInv => AccumulationComplete
  BY DEF ClockInv
<1> QED BY <1>1, ClockCorrect, PTL

\* The climate model is told of an ice time-step by exactly the calls that ran
\* one, although glint_i_tstep_gcm leaves the flag of an instance that waits
\* undefined: with no short accumulation none waits where the flag is read.
THEOREM FlagTruthful == ASSUME NoShortAccumulation PROVE ClockSpec => IceFlagTruthful
<1>1. ASSUME ClockTypeOK, ClockInv, ClockNext, now' # now, phase' = "run"
      PROVE  out'.ice_tstep <=> \E i \in Instances : glide_time'[i] # glide_time[i]
  <2>1. CASE InitialiseGlint
    BY <1>1, <2>1 DEF InitialiseGlint
  <2>2. CASE RejectConfig
    BY <1>1, <2>2 DEF RejectConfig
  <2>3. CASE CallGlint
    <3>1. PICK late \in Lateness : Glint(now + late)
      BY <2>3 DEF CallGlint
    <3>2. phase = "run" /\ now + late \in Int
      BY <1>1, <2>3, CallTime DEF CallGlint
    <3>3. CASE RejectCall(now + late)
      BY <1>1, <3>3 DEF RejectCall
    <3>4. CASE AccumulateForcing(now + late)
      BY <3>4 DEF AccumulateForcing, NoOutput, instVars
    <3>5. CASE CrashInLoop(now + late)
      BY <1>1, <3>5 DEF CrashInLoop
    <3>6. CASE MassBalanceStep(now + late)
      BY <1>1, <3>2, <3>6, FlagOfStep
    <3> QED BY <3>1, <3>3, <3>4, <3>5, <3>6 DEF Glint
  <2> QED BY <1>1, <2>1, <2>2, <2>3 DEF ClockNext
<1>2. ASSUME ClockTypeOK, ClockInv, [ClockNext]_clockVars
      PROVE  [now' # now /\ phase' = "run"
               => (out'.ice_tstep <=> \E i \in Instances : glide_time'[i] # glide_time[i])]_clockVars
  BY <1>1, <1>2
<1> QED BY <1>2, ClockCorrect, PTL DEF ClockSpec, IceFlagTruthful

-------------------------------------------------------------------------------
(* The task (IceDriver) *)

\* With one number of time-steps, they are 1 to that number.
LEMMA StepNumbers ==
  ASSUME Reproducible, TypeOK
  PROVE  /\ conf.steps \in Nat \ {0}
         /\ StepCounts = {conf.steps}
         /\ Steps = 1..conf.steps
<1>1. conf.steps \in StepCounts
  BY DEF TypeOK, ConfType
<1>2. conf.steps \in Nat \ {0}
  BY <1>1, ConstantsAssumption
<1>3. StepCounts = {conf.steps}
  BY <1>1 DEF Reproducible
<1> QED
  BY <1>2, <1>3 DEF Steps

\* A configuration of another attempt names its files in the same way.
LEMMA SameConf ==
  ASSUME Reproducible, NEW c \in ConfType, NEW d \in ConfType
  PROVE  c.steps = d.steps /\ c.cf_plots = d.cf_plots
BY DEF Reproducible, ConfType

\* ls -1r | head -1 returns the file of the last time-step, where there is one.
LEMMA LastIsHighest ==
  ASSUME NEW files, NEW n \in Nat \ {0}, Steps = 1..n, files[n] # NoFile
  PROVE  Last(files) = n /\ Present(files) # {}
<1>1. n \in Present(files) /\ \A r \in Present(files) : r <= n
  BY DEF Present
<1>2. \A s \in Present(files) : (\A r \in Present(files) : r <= s) => s = n
  BY <1>1 DEF Present
<1> QED
  BY <1>1, <1>2, Zenon DEF Last

\* A file of the attempt is a file, and there is one.
LEMMA WrittenIsFile ==
  ASSUME TypeOK, Reproducible, NEW s \in Nat
  PROVE  Written(s) \in File /\ Written(s) # NoFile /\ NoFile \in File
<1>1. year \in 1..Years /\ attempt \in Nat /\ conf.steps \in Nat /\ Years \in Nat
  BY StepNumbers, ConstantsAssumption DEF TypeOK
<1> QED
  BY <1>1 DEF Written, File, NoFile

LEMMA InitInv == ASSUME Reproducible, Init PROVE DriverInv
<1>1. TypeOK
  <2>1. NoFile \in File /\ Setup \in File
    BY DEF NoFile, Setup, File
  <2>2. NoFiles \in [Steps -> File]
    BY <2>1 DEF NoFiles
  <2> QED
    BY <2>1, <2>2, ConstantsAssumption DEF Init, TypeOK
<1>2. InWork /\ InPost /\ InPre /\ RestartPair
  BY DEF Init, InWork, InPost, InPre, RestartPair, Ending, Outputs
<1> QED
  BY <1>1, <1>2 DEF DriverInv

-------------------------------------------------------------------------------
(* One lemma per action *)

LEMMA SubmitInv == ASSUME Reproducible, DriverInv, Submit PROVE DriverInv'
<1>1. conf \in ConfType /\ conf' \in ConfType
  BY DEF DriverInv, TypeOK, Submit
<1>2. conf'.cf_plots = conf.cf_plots
  BY <1>1, SameConf
<1>3. TypeOK'
  BY ConstantsAssumption DEF DriverInv, TypeOK, Submit, workVars
<1> QED
  BY <1>2, <1>3 DEF DriverInv, Submit, InWork, InPost, InPre, RestartPair, workVars, Ending

\* The actions that change nothing but the command the task is at.
LEMMA PcInv ==
  ASSUME Reproducible, DriverInv, CheckInputs \/ ProgramStops \/ Interrupt
  PROVE  DriverInv'
<1>1. CASE CheckInputs
  BY <1>1 DEF DriverInv, TypeOK, CheckInputs, Ready, InWork, InPost, InPre, RestartPair,
     workVars, Ending, Written
<1>2. CASE ProgramStops
  BY <1>2 DEF DriverInv, TypeOK, ProgramStops, AfterStop, Reproducible, InWork, InPost, InPre,
     RestartPair, workVars, Ending, Written
<1>3. CASE Interrupt
  BY <1>3 DEF DriverInv, TypeOK, Interrupt, InWork, InPost, InPre,
     RestartPair, workVars, Ending, Written
<1> QED
  BY <1>1, <1>2, <1>3

\* The program: from reading the forcing to filling the icecouple file.
LEMMA ProgramInv ==
  ASSUME Reproducible, DriverInv,
         StartIce \/ IceStep \/ Checkpoint \/ WriteHot \/ CreateCouple \/ WriteCouple
  PROVE  DriverInv'
<1> USE DEF DriverInv
<1>1. conf.steps \in Nat \ {0} /\ Steps = 1..conf.steps /\ step \in Nat
  BY StepNumbers DEF TypeOK
<1>2. Written(0) \in File /\ Written(step) \in File /\ Written(step + 1) \in File
  BY <1>1, WrittenIsFile
<1>3. CASE StartIce
  BY <1>1, <1>2, <1>3 DEF TypeOK, StartIce, InWork, InPost, InPre, RestartPair,
     Ending, Written
<1>4. CASE IceStep
  <2>1. step + 1 \in Steps
    BY <1>1, <1>4 DEF IceStep, MoreSteps
  <2>2. TypeOK'
    BY <1>2, <1>4, <2>1 DEF IceStep, TypeOK
  <2>3. InWork'
    BY <1>1, <1>4, <2>1 DEF IceStep, TypeOK, InWork, Ending, Written
  <2> QED
    BY <1>4, <2>2, <2>3 DEF IceStep, InPost, InPre, RestartPair, Ending, Written
<1>5. CASE Checkpoint
  <2>1. step \in Steps
    BY <1>1, <1>5 DEF Checkpoint, InWork, TypeOK
  <2>2. TypeOK'
    BY <1>2, <1>5, <2>1 DEF Checkpoint, TypeOK
  <2>3. InWork'
    BY <1>1, <1>5, <2>1 DEF Checkpoint, TypeOK, InWork, Ending, Written
  <2> QED
    BY <1>5, <2>2, <2>3 DEF Checkpoint, InPost, InPre, RestartPair, Ending, Written
<1>6. CASE WriteHot
  <2>1. step = conf.steps /\ step > 0
    BY <1>1, <1>6 DEF WriteHot, MoreSteps, TypeOK
  <2> QED
    BY <1>2, <1>6, <2>1 DEF WriteHot, TypeOK, InWork, InPost, InPre, RestartPair,
       Ending, Written
<1>7. CASE CreateCouple
  BY <1>2, <1>7 DEF CreateCouple, TypeOK, InWork, InPost, InPre, RestartPair,
     workVars, Ending, Written, Outputs
<1>8. CASE WriteCouple
  BY <1>2, <1>8 DEF WriteCouple, TypeOK, InWork, InPost, InPre, RestartPair,
     workVars, Ending, Written, Outputs
<1> QED
  BY <1>3, <1>4, <1>5, <1>6, <1>7, <1>8

\* The script: from picking the files to the last mv.
LEMMA ScriptInv ==
  ASSUME Reproducible, DriverInv,
         MovePlot \/ MoveDump \/ ExtractRestart \/ MoveRestart \/ MoveCf
  PROVE  DriverInv'
<1> USE DEF DriverInv
<1>1. conf.steps \in Nat \ {0} /\ Steps = 1..conf.steps
  BY StepNumbers
<1>2. /\ pc \in Ending => step = conf.steps
      /\ NoFile \in File /\ Written(conf.steps) \in File /\ Written(conf.steps) # NoFile
  BY <1>1, WrittenIsFile DEF InWork
<1>3. CASE MovePlot
  <2>1. plot[step] = Written(step) /\ step = conf.steps
    BY <1>1, <1>2, <1>3 DEF MovePlot, InWork, Ending
  <2>2. Last(plot) = step /\ Present(plot) # {}
    BY <1>1, <1>2, <2>1, LastIsHighest
  <2>3. /\ post' = [post EXCEPT !["plot"] = Written(step)]
        /\ plot' = [plot EXCEPT ![step] = NoFile]
        /\ pc' = "plot_moved"
        /\ UNCHANGED <<year, attempt, conf, step, chk, cf, hot, temp, pre>>
    BY <1>3, <2>1, <2>2 DEF MovePlot, Without
  <2> QED
    BY <1>1, <1>2, <1>3, <2>1, <2>3 DEF MovePlot, TypeOK, InWork, InPost, InPre,
       RestartPair, Ending, Written, Outputs
<1>4. CASE MoveDump
  <2>1. chk[step] = Written(step) /\ step = conf.steps
    BY <1>1, <1>2, <1>4 DEF MoveDump, InWork, Ending
  <2>2. Last(chk) = step /\ Present(chk) # {}
    BY <1>1, <1>2, <2>1, LastIsHighest
  <2>3. /\ post' = [post EXCEPT !["dump"] = Written(step)]
        /\ chk' = [chk EXCEPT ![step] = NoFile]
        /\ pc' = "dump_moved"
        /\ UNCHANGED <<year, attempt, conf, step, plot, cf, hot, temp, pre>>
    BY <1>4, <2>1, <2>2 DEF MoveDump, Without
  <2> QED
    BY <1>1, <1>2, <1>4, <2>1, <2>3 DEF MoveDump, TypeOK, InWork, InPost, InPre,
       RestartPair, Ending, Written, Outputs
<1>5. CASE ExtractRestart
  BY <1>5 DEF ExtractRestart, TypeOK, InWork, InPost, InPre, RestartPair, Ending, Written
<1>6. CASE MoveRestart
  BY <1>2, <1>6 DEF MoveRestart, TypeOK, InWork, InPost, InPre, RestartPair, Ending,
     Written, Outputs
<1>7. CASE MoveCf
  <2>1. step = conf.steps
    BY <1>2, <1>7 DEF MoveCf, Ending
  <2>2. CASE conf.cf_plots
    <3>1. cf[step] = Written(step)
      BY <1>1, <1>7, <2>1, <2>2 DEF MoveCf, InWork, Ending
    <3>2. Last(cf) = step /\ Present(cf) # {}
      BY <1>1, <1>2, <2>1, <3>1, LastIsHighest
    <3>3. /\ post' = [post EXCEPT !["cf"] = Written(step)]
          /\ cf' = [cf EXCEPT ![step] = NoFile]
          /\ pc' = "done"
          /\ UNCHANGED <<year, attempt, conf, step, chk, plot, hot, temp, pre>>
      BY <1>7, <3>1, <3>2 DEF MoveCf, Without
    <3>4. TypeOK'
      BY <1>2, <2>1, <3>3 DEF TypeOK
    <3>5. InWork' /\ InPre' /\ RestartPair'
      BY <1>7, <2>1, <2>2, <3>3 DEF MoveCf, InWork, InPre, RestartPair, Ending
    <3>6. InPost'
      BY <1>7, <2>2, <3>3 DEF MoveCf, TypeOK, InPost, Ending, Written, Outputs
    <3> QED
      BY <3>4, <3>5, <3>6
  <2>3. CASE ~conf.cf_plots
    <3>1. Present(cf) = {}
      BY <2>3 DEF InWork, Present, NoFiles
    <3> QED
      BY <1>7, <2>1, <2>3, <3>1 DEF MoveCf, TypeOK, InWork, InPost, InPre, RestartPair,
         Ending, Written
  <2> QED
    BY <2>2, <2>3
<1> QED
  BY <1>3, <1>4, <1>5, <1>6, <1>7

\* At the start of a year both restart files are those the year before ended with.
LEMMA NextYearInv == ASSUME Reproducible, DriverInv, NextYear PROVE DriverInv'
<1> USE DEF DriverInv
<1>1. /\ post["dump"] = Written(conf.steps) /\ post["nc"] = Written(conf.steps)
      /\ year \in 1..Years /\ Years \in Nat /\ year < Years
  BY ConstantsAssumption DEF NextYear, InPost, InWork, TypeOK, Ending
<1>2. NoFile \in File /\ Written(conf.steps) \in File
  BY StepNumbers, WrittenIsFile
<1>3. TypeOK'
  <2>1. NoFiles \in [Steps -> File]
    BY <1>2 DEF NoFiles
  <2> QED
    BY <1>1, <1>2, <2>1, ConstantsAssumption DEF NextYear, TypeOK
<1>4. InWork' /\ InPost' /\ InPre'
  BY <1>1 DEF NextYear, InWork, InPost, InPre, Ending, Outputs
<1>5. RestartPair'
  <2>1. /\ pre'["dump"] = Written(conf.steps) /\ pre'["nc"] = Written(conf.steps)
        /\ year' = year + 1
    BY <1>1 DEF NextYear
  <2>2. Written(conf.steps).year = year /\ Whole(Written(conf.steps))
    BY DEF Written, Whole
  <2> QED
    BY <1>1, <2>1, <2>2 DEF RestartPair, Whole
<1> QED
  BY <1>3, <1>4, <1>5

LEMMA NextInv == ASSUME Reproducible, DriverInv, [Next]_vars PROVE DriverInv'
<1>1. CASE UNCHANGED vars
  BY <1>1 DEF vars, workVars, DriverInv, TypeOK, InWork, InPost, InPre, RestartPair, Written
<1> QED
  BY <1>1, SubmitInv, PcInv, ProgramInv, ScriptInv, NextYearInv DEF Next, Driver

-------------------------------------------------------------------------------

\* The driver's inductive invariant holds whenever attempts name their files
\* alike and the launcher reports failures (unicicles_driver, wrapper_main).
THEOREM DriverCorrect == ASSUME Reproducible PROVE Spec => []DriverInv
<1>1. Init => DriverInv
  BY InitInv
<1>2. DriverInv /\ [Next]_vars => DriverInv'
  BY NextInv
<1> QED
  BY <1>1, <1>2, PTL DEF Spec

\* When the script ends well, every file it published was written by this
\* attempt at the end of its year (the five mv commands of unicicles_driver).
THEOREM Published == ASSUME Reproducible PROVE Spec => []PublishedByThisAttempt
<1>1. DriverInv => PublishedByThisAttempt
  <2> SUFFICES ASSUME DriverInv, pc = "done"
               PROVE  \A o \in Outputs : post[o] = IF Expected(o) THEN Written(conf.steps) ELSE NoFile
    BY DEF PublishedByThisAttempt
  <2>1. step = conf.steps
    BY DEF DriverInv, InWork
  <2> QED
    BY <2>1 DEF DriverInv, InPost, Outputs, Expected, Ending
<1> QED
  BY <1>1, DriverCorrect, PTL

\* The two restart files a year starts from are of one attempt of the year
\* before (PREICE_ICE_DUMP_HDF and PREICE_ICE_DUMP_NC of unicicles_driver).
THEOREM Paired == ASSUME Reproducible PROVE Spec => []RestartPair
<1>1. DriverInv => RestartPair
  BY DEF DriverInv
<1> QED
  BY <1>1, DriverCorrect, PTL

\* The task with its retries implements IceYears: of all its steps only
\* NextYear is seen, and it advances both restart files by one year.
THEOREM Implements == ASSUME Reproducible PROVE Spec => OneYearAtATime
<1>1. Init => IY!Init
  BY DEF Init, IY!Init, YearOf, Whole, Setup, NoFile
<1>2. DriverInv /\ [Next]_vars => [IY!Advance]_(IY!vars)
  <2> SUFFICES ASSUME DriverInv, [Next]_vars PROVE [IY!Advance]_(IY!vars)
    OBVIOUS
  <2>1. CASE NextYear
    <3>1. /\ pre'["dump"] = Written(conf.steps) /\ pre'["nc"] = Written(conf.steps)
          /\ year \in 1..Years /\ year < Years /\ Years \in Nat
      BY <2>1, ConstantsAssumption DEF DriverInv, NextYear, InPost, InWork, TypeOK, Ending
    <3>2. YearOf(pre'["dump"]) = year /\ YearOf(pre'["nc"]) = year
      BY <3>1 DEF YearOf, Whole, Written
    <3>3. YearOf(pre["dump"]) = year - 1 /\ YearOf(pre["nc"]) = year - 1
      <4>1. CASE year = 1
        <5>1. pre["dump"] = Setup /\ pre["nc"] = Setup
          BY <2>1, <4>1 DEF DriverInv, InPre, NextYear
        <5> QED
          BY <4>1, <5>1 DEF YearOf, Whole, Setup
      <4>2. CASE year # 1
        BY <3>1, <4>2 DEF DriverInv, RestartPair, YearOf, Whole
      <4> QED
        BY <4>1, <4>2
    <3> QED
      BY <3>1, <3>2, <3>3 DEF IY!Advance, YearOf, Whole
  <2>2. CASE ~NextYear
    <3>1. pre' = pre
      BY <2>2 DEF Next, vars, Driver, Submit, CheckInputs, ProgramStops, Interrupt,
         StartIce, IceStep, Checkpoint, WriteHot, CreateCouple, WriteCouple, MovePlot, MoveDump,
         ExtractRestart, MoveRestart, MoveCf
    <3> QED
      BY <3>1 DEF IY!vars, YearOf, Whole
  <2> QED
    BY <2>1, <2>2
<1> QED
  BY <1>1, <1>2, DriverCorrect, PTL DEF Spec, OneYearAtATime, IY!Spec

==============================================================================
