----------------------------- MODULE TimeStepping ------------------------------
(***************************************************************************)
(* The time integration of one rank: the order of Model::run_step, the two    *)
(* tendency slots of Adams-Bashforth, the previous state kept for P3, and what  *)
(* a restart puts in their place.                                            *)
(*                                                                         *)
(* A field is abstracted to the number of steps it has been advanced, and a    *)
(* tendency to those numbers for the fields it was computed from.  Forcings    *)
(* that update a field in place between two phases are left out.             *)
(***************************************************************************)
EXTENDS Integers

CONSTANTS Thermo,    \* names of the thermodynamic variables and tracers
          P3Reads,   \* those of which P3 reads the previous state: th and qv
          Plans,     \* [scheme, top]: temporal scheme of each variable, predict_uvtopmn_
          MaxStep    \* bound of the model on the number of steps

Vorticity == {"eta", "xi", "zeta"}
Fields == Thermo \cup Vorticity
Schemes == {"AdamsBashforth2", "ForwardEuler", "SSPRK2"}

ASSUME TimeSteppingAssumption ==
  /\ P3Reads \subseteq Thermo
  /\ Thermo \cap (Vorticity \cup {"uvtopmn"}) = {}
  /\ Plans \subseteq [scheme : [Fields -> Schemes], top : BOOLEAN]
  /\ MaxStep \in Nat

VARIABLES plan,     \* the configuration, never changed
          step,     \* State::step_
          phase,    \* the next phase of run_step, or "down"
          at,       \* at[c]: steps done by the thermodynamics, the vorticity, the wind
          hist,     \* hist[q][i]: the tendency d_<q>_<i>, and d_utopmn and d_vtopmn
          prev,     \* prev[q]: steps done by <q>_m, -1: still zero
          since,    \* the step at which this process started or was restarted
          records   \* steps of the records on disk

vars == <<plan, step, phase, at, hist, prev, since, records>>

---------------------------------------------------------------------------------
Stamp(t, v, w) == [thermo |-> t, vorticity |-> v, wind |-> w]
AtStep(n) == Stamp(n, n, n)
Zero == AtStep(-1)          \* a slot that nothing has written since the allocation

Slotted == Fields \cup {"uvtopmn"}
NoHistory == [q \in Slotted |-> [i \in 0..1 |-> Zero]]

AB2(q) == plan.scheme[q] = "AdamsBashforth2"

NowSlot(s) == s % 2
PreviousSlot(s) == (s + 1) % 2

(* TendencyCalculator: the tendency of every AB2 variable of a group goes to   *)
(* the slot of this step.                                                   *)
WithTendencies(h, group, s, a) ==
  [q \in Slotted |->
     IF q \in group /\ AB2(q) THEN [h[q] EXCEPT ![NowSlot(s)] = a] ELSE h[q]]

---------------------------------------------------------------------------------
Init ==
  /\ plan \in Plans
  /\ step = 0
  /\ phase = "calculate_thermo"
  /\ at = AtStep(0)
  /\ hist = NoHistory
  /\ prev = [q \in Thermo |-> -1]
  /\ since = 0
  /\ records \in SUBSET {0}            \* output.output_initial_step

CalculateThermo ==
  /\ phase = "calculate_thermo" /\ step < MaxStep
  /\ hist' = WithTendencies(hist, Thermo, step, at)
  /\ phase' = "update_thermo"
  /\ UNCHANGED <<plan, step, at, prev, since, records>>

KeptByAB2Only(q) == IF AB2(q) THEN at.thermo ELSE prev[q]                      \* mutant
(* The step of an AB2 variable swaps <q> and <q>_m, update_thermodynamics       *)
(* copies <q> to <q>_m before the stages of SSPRK2, and a variable with         *)
(* ForwardEuler terms only is advanced in place.                            *)
KeptPrevious(q) == IF plan.scheme[q] = "ForwardEuler" THEN prev[q] ELSE at.thermo

UpdateThermo ==
  /\ phase = "update_thermo"
  /\ prev' = [q \in Thermo |-> KeptPrevious(q)]
  /\ at' = [at EXCEPT !.thermo = @ + 1]
  /\ phase' = "p3"
  /\ UNCHANGED <<plan, step, hist, since, records>>

(* P3 reads th_m and qv_m and updates the thermodynamics in place.            *)
RunP3 ==
  /\ phase = "p3"
  /\ phase' = "calculate_vorticity"
  /\ UNCHANGED <<plan, step, at, hist, prev, since, records>>

(* From the vorticity and the wind at t and the thermodynamics at t + 1.       *)
CalculateVorticity ==
  /\ phase = "calculate_vorticity"
  /\ hist' = WithTendencies(hist, Vorticity, step, at)
  /\ phase' = "update_vorticity"
  /\ UNCHANGED <<plan, step, at, prev, since, records>>

UpdateVorticity ==
  /\ phase = "update_vorticity"
  /\ at' = [at EXCEPT !.vorticity = @ + 1]
  /\ phase' = "top_wind"
  /\ UNCHANGED <<plan, step, hist, prev, since, records>>

(* compute_uvtopmn: the tendency of the mean top wind goes to its slot and is   *)
(* used on the spot, with the other slot unless this is step 0.             *)
TopWind ==
  /\ phase = "top_wind"
  /\ hist' = IF plan.top THEN [hist EXCEPT !["uvtopmn"][NowSlot(step)] = at] ELSE hist
  /\ phase' = "wind"
  /\ UNCHANGED <<plan, step, at, prev, since, records>>

(* compute_wind_fields ends run_step; the main loop counts the step and may    *)
(* write a record.                                                          *)
SolveWind ==
  /\ phase = "wind"
  /\ at' = [at EXCEPT !.wind = @ + 1]
  /\ step' = step + 1
  /\ phase' = "calculate_thermo"
  /\ records' \in {records, records \cup {step'}}
  /\ UNCHANGED <<plan, hist, prev, since>>

(* The run ends, or fails, at any time.                                     *)
Stop ==
  /\ phase # "down"
  /\ phase' = "down"
  /\ UNCHANGED <<plan, step, at, hist, prev, since, records>>

OnlyNow(h, s) == h                                                             \* mutant
(* initialize_restart_history: the tendency of this step goes to both slots of  *)
(* every prognostic variable.                                               *)
Duplicated(h, s) ==
  [q \in Slotted |->
     IF q \in Fields /\ AB2(q)
     THEN [h[q] EXCEPT ![PreviousSlot(s)] = h[q][NowSlot(s)]] ELSE h[q]]

RecoveredStepAfter(s) == s + 1                                                 \* mutant
(* resolve_restart_time: the step is the one in the metadata of the record.   *)
RecoveredStep(s) == s

(* A new process reads a record: fields, step and time; the rest is allocated    *)
(* anew.  <q>_m is copied from <q>, and the tendencies of the scalars and of     *)
(* the vorticity are computed from the fields as read.                       *)
Restart(s) ==
  /\ phase = "down"
  /\ s \in records
  /\ step' = RecoveredStep(s)
  /\ since' = step'
  /\ at' = AtStep(s)
  /\ prev' = [q \in Thermo |-> s]
  /\ hist' = Duplicated(WithTendencies(NoHistory, Fields, step', AtStep(s)), step')
  /\ phase' = "calculate_thermo"
  /\ UNCHANGED <<plan, records>>

Next ==
  \/ CalculateThermo \/ UpdateThermo \/ RunP3
  \/ CalculateVorticity \/ UpdateVorticity
  \/ TopWind \/ SolveWind
  \/ Stop \/ \E s \in 0..MaxStep : Restart(s)

Spec == Init /\ [][Next]_vars

---------------------------------------------------------------------------------
Phases == {"calculate_thermo", "update_thermo", "p3", "calculate_vorticity",
           "update_vorticity", "top_wind", "wind", "down"}
Counts == -1..MaxStep
Stamps == [thermo : Counts, vorticity : Counts, wind : Counts]

(* Each field counts at most the steps of the run, and so does what it left in  *)
(* the slots.                                                               *)
TypeOK ==
  /\ plan \in Plans
  /\ step \in 0..MaxStep /\ since \in 0..MaxStep
  /\ phase \in Phases
  /\ at \in Stamps
  /\ hist \in [Slotted -> [0..1 -> Stamps]]
  /\ prev \in [Thermo -> Counts]
  /\ records \subseteq 0..MaxStep

(* When a variable is advanced by Adams-Bashforth, the slot of this step holds   *)
(* the tendency of the state of this step and the other slot that of the step    *)
(* before; in the first step after a restart the     *)
(* two are of the same state, so that 1.5 now - 0.5 previous is a forward step.  *)
(* The thermodynamics that a vorticity tendency reads are one step further, and *)
(* differ by one step between the slots even after a restart.  The mean top wind *)
(* finds, from the second step of a process on, the tendency of the step before; *)
(* in the first after a restart its other slot is zero (see the README).        *)
AdamsBashforthHistory ==
  /\ phase = "update_thermo" =>
       \A q \in Thermo : AB2(q) =>
         /\ hist[q][NowSlot(step)] = AtStep(step)
         /\ step > 0 => hist[q][PreviousSlot(step)] =
                          IF step = since THEN AtStep(step) ELSE AtStep(step - 1)
  /\ phase = "update_vorticity" =>
       \A q \in Vorticity : AB2(q) =>
         /\ hist[q][NowSlot(step)] = Stamp(step + 1, step, step)
         /\ step > 0 => hist[q][PreviousSlot(step)] =
                          IF step = since THEN AtStep(step) ELSE Stamp(step, step - 1, step - 1)
  /\ (phase = "top_wind" /\ plan.top /\ step > since) =>
       hist["uvtopmn"][PreviousSlot(step)] = Stamp(step, step, step - 1)

(* P3 reads, as the previous state of th and qv, their values before the        *)
(* dynamics of this very step, and finds the new values in th and qv.          *)
P3ReadsPreviousState ==
  phase = "p3" => \A q \in P3Reads : prev[q] = step /\ at.thermo = step + 1
=================================================================================
