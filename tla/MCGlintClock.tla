----------------------------- MODULE MCGlintClock -----------------------------
(* Instances of GlintClock for TLC.  One unit of time is a fraction of a year. *)
EXTENDS GlintClock

MCYear == 4

\* Every instance has the same configuration.
Uniform(entry, start, dt, mbal, ice, accum, mult) ==
  [ entry |-> entry, start_time |-> start, time_step |-> dt,
    mbal_tstep |-> [i \in Instances |-> mbal],
    ice_tstep |-> [i \in Instances |-> ice],
    mbal_accum_time |-> [i \in Instances |-> accum],
    ice_tstep_multiply |-> [i \in Instances |-> mult] ]

\* GCM coupling: the mass-balance time-step is a year (glint_mbc_init_gcm).
GcmConfigs ==
  { Uniform("glint_gcm", start, dt, MCYear, ice, accum, mult) :
      start \in {0, 2}, dt \in {1, 2, 3, 4}, ice \in {2, 4, 8},
      accum \in {-1, 4, 6, 8, 16}, mult \in {1, 2} }

\* GLINT computing its own mass balance on a shorter time-step.
MbalConfigs ==
  { Uniform("glint", 1, dt, mbal, ice, accum, mult) :
      dt \in {1, 2}, mbal \in {1, 2}, ice \in {1, 2, 4, 6},
      accum \in {-1, 1, 2, 4, 6, 8}, mult \in {1, 3} }

\* Accumulating over several mass-balance steps but less than an ice step.
Partial(c) ==
  \E i \in Instances : AccumTime(c, i) < c.ice_tstep[i] /\ AccumTime(c, i) > c.mbal_tstep[i]
Short(c) == \E i \in Instances : AccumTime(c, i) < c.ice_tstep[i]

AllConfigs   == GcmConfigs \cup MbalConfigs
EvenConfigs  == {c \in AllConfigs : ~Partial(c)}
\* Two instances with time-steps of their own.
PairConfigs ==
  { [ entry |-> e, start_time |-> 1, time_step |-> dt,
      mbal_tstep |-> [i \in Instances |-> IF i = 1 THEN 4 ELSE m],
      ice_tstep |-> [i \in Instances |-> IF i = 1 THEN a ELSE b],
      mbal_accum_time |-> [i \in Instances |-> IF i = 1 THEN -1 ELSE c],
      ice_tstep_multiply |-> [i \in Instances |-> 1] ] :
    e \in {"glint", "glint_gcm"}, dt \in {1, 2, 3}, m \in {2, 4}, a \in {2, 4, 8},
    b \in {4, 8}, c \in {-1, 8, 16} }

\* Two instances through every combination of time-steps that uses all forcing.
LongConfigs ==
  {c \in PairConfigs \cup {[d EXCEPT !.entry = "glint"] : d \in AllConfigs} : ~Short(c)}
===============================================================================
