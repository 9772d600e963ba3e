---------------------------- MODULE ProcessSchedule ----------------------------
(***************************************************************************)
(* Processes that run less often than every step, across restarts.          *)
(*                                                                         *)
(* Radiation and the surface process compute a field on some steps and the   *)
(* tendencies read it on every step (Model::run_step).  The schedule depends  *)
(* only on the absolute step number, which a restart recovers.              *)
(*                                                                         *)
(* A restart reads a field of the checkpoint only if the state has it by then *)
(* (append_unique_if_present).  The surface process registers its fluxes in   *)
(* its constructor, before Initializer::load_restart; radiation registers     *)
(* net_heating in initialize, after it, so the heating is not read back.      *)
(*                                                                         *)
(* The run may be stopped after any step and restarted from any record it    *)
(* has written.  A field is abstracted to the step that computed it.         *)
(***************************************************************************)
EXTENDS Integers

CONSTANTS Plans,        \* [rad, sfc, every, last]: intervals in steps, steps between records, steps
          SizeMod,      \* 2^w, the range of the unsigned step counter
          MaxRestarts   \* bound of the model on the number of restarts

ASSUME ScheduleAssumption ==
  /\ SizeMod \in Nat \ {0}
  /\ MaxRestarts \in Nat
  /\ \A p \in Plans : /\ p.rad \in Nat \ {0} /\ p.sfc \in Nat \ {0} /\ p.every \in Nat \ {0}
                      /\ p.last \in 0..SizeMod - 1

VARIABLES plan,      \* the intervals of this run, never changed
          step,      \* State::step_
          heating,   \* step that computed net_heating, -1: still zero
          flux,      \* step that computed sfc_flux_*, -1: still zero
          records,   \* what a restart gets from the history on disk: [step, flux]
          begun,     \* the step the present run started from
          restarts

vars == <<plan, step, heating, flux, records, begun, restarts>>

(* is_process_step: 0, N, 2N, ...                                           *)
IsProcessStep(s, n) == n <= 1 \/ s % n = 0

(* is_legacy_surface_compute_step: the subtraction wraps at step 0.          *)
IsSurfaceComputeStepUnwrapped(s, n) == n <= 1 \/ (s - 1) % n = 0              \* mutant
IsLegacySurfaceComputeStep(s, n) == n <= 1 \/ ((s - 1) % SizeMod) % n = 0

SnapshotBefore(s, f) == [step |-> s - 1, flux |-> f]                           \* mutant
Snapshot(s, f) == [step |-> s, flux |-> f]

Init ==
  /\ plan \in Plans
  /\ step = 0
  /\ heating = -1
  /\ flux = -1
  /\ records = {Snapshot(0, -1)}
  /\ begun = 0
  /\ restarts = 0

(* One iteration of the time loop, with the record it may write.            *)
RunStep ==
  /\ step < plan.last
  /\ heating' = IF IsProcessStep(step, plan.rad) THEN step ELSE heating
  /\ flux' = IF IsLegacySurfaceComputeStep(step, plan.sfc) THEN step ELSE flux
  /\ step' = step + 1
  /\ records' = IF step' % plan.every = 0
                THEN records \cup {Snapshot(step', flux')} ELSE records
  /\ UNCHANGED <<plan, begun, restarts>>

RestartRecounted ==                                                            \* mutant
  /\ restarts < MaxRestarts
  /\ \E r \in records : step' = r.step + 1 /\ flux' = r.flux /\ begun' = r.step
  /\ heating' = -1
  /\ restarts' = restarts + 1
  /\ UNCHANGED <<plan, records>>

(* The run stops and is started again from a record: the clock and the fluxes *)
(* are read back, net_heating is a new field; files of later records stay.    *)
Restart ==
  /\ restarts < MaxRestarts
  /\ \E r \in records : step' = r.step /\ flux' = r.flux /\ begun' = r.step
  /\ heating' = -1
  /\ restarts' = restarts + 1
  /\ UNCHANGED <<plan, records>>

Finished == step = plan.last /\ UNCHANGED vars

Next == RunStep \/ Restart \/ Finished

Spec == Init /\ [][Next]_vars

---------------------------------------------------------------------------------
(* The step counter stays in the run, and a field was computed at one of its   *)
(* steps or not at all.                                                    *)
TypeOK ==
  /\ plan \in Plans
  /\ step \in 0..plan.last
  /\ heating \in -1..plan.last
  /\ flux \in -1..plan.last
  /\ records \subseteq [step : 0..plan.last, flux : -1..plan.last]
  /\ begun \in 0..plan.last
  /\ restarts \in 0..MaxRestarts

(* The step whose heating an uninterrupted run would hold.                   *)
LastRadiation == ((step - 1) \div plan.rad) * plan.rad

(* However often the run was restarted, a step reads the heating of the last   *)
(* multiple of the radiation interval if the present run has passed it, and    *)
(* none otherwise: the gap a restart leaves ends at the next multiple, and no  *)
(* step reads the heating of a run that is over or of an earlier interval.     *)
HeatingNeverStale ==
  step > 0 => heating = IF LastRadiation >= begun THEN LastRadiation ELSE -1

(* RestartVariables.cpp:113, "net_heating is held between radiation calls.",   *)
(* in a list of the "Persistent State fields that must survive a restart"      *)
(* (RestartVariables.hpp:15): after a restart too, a step reads the heating    *)
(* the uninterrupted run would read.  It does not: the state has no such field *)
(* when the list is made, so the heating is zero until the next radiation step.*)
HeatingAsUninterrupted == step > begun => heating = LastRadiation

(* However often the run was restarted, the surface fluxes a step reads are    *)
(* those of the uninterrupted run under the schedule of v1.0.0: computed at    *)
(* steps 1, N+1, 2N+1, ...; step 0 computes only when N divides 2^w - 1.      *)
FluxAsUninterrupted ==
  step > 0 =>
    flux = IF step > 1 THEN (IF plan.sfc = 1 THEN step - 1 ELSE ((step - 2) \div plan.sfc) * plan.sfc + 1)
           ELSE IF (SizeMod - 1) % plan.sfc = 0 THEN 0 ELSE -1
=================================================================================
