------------------------------ MODULE RestartClock ------------------------------
(***************************************************************************)
(* The time and the step a restarted run starts from: resolve_restart_time.  *)
(*                                                                         *)
(* A restart source may carry an elapsed time, a step count, both or         *)
(* neither; simulation.dt_s and the opt-ins of the restart block fill in     *)
(* what is missing.  Times are whole units, so the serialization tolerance   *)
(* (1e-6 of the time) is equality, and a time that is not finite is refused  *)
(* exactly as a negative one is: both are a negative number here.            *)
(***************************************************************************)
EXTENDS Integers

Refused == [ok |-> FALSE, time |-> 0, step |-> 0]
StartAt(t, s) == [ok |-> TRUE, time |-> t, step |-> s]

(* llround(time / dt): the nearest step, the later one when the time is      *)
(* exactly between two.                                                     *)
DerivedStep(t, dt) == (2 * t + dt) \div (2 * dt)

(* An authoritative time keeps its value, whatever dt is; the step follows.  *)
FromTime(t, dt) == IF t >= 0 THEN StartAt(t, DerivedStep(t, dt)) ELSE Refused

(* Neither of two stored values is silently preferred.                      *)
FromTimeAndStepTrusting(meta, dt) ==                                           \* mutant
  IF meta.time >= 0 /\ meta.step >= 0 THEN StartAt(meta.time, meta.step) ELSE Refused
FromTimeAndStep(meta, dt) ==
  IF meta.time >= 0 /\ meta.step >= 0 /\ meta.step * dt = meta.time
  THEN StartAt(meta.time, meta.step)
  ELSE Refused

FromStep(s, dt) == IF s >= 0 THEN StartAt(s * dt, s) ELSE Refused

(* index: the trailing digits of the file's name, negative when it has none. *)
FromName(index, interval, dt) ==
  IF index >= 0 /\ interval > 0 THEN FromTime(index * interval, dt) ELSE Refused

(* A stored time, checked against a stored step unless                       *)
(* restart.ignore_stored_step discards the step.                             *)
FromStoredTime(meta, policy) ==
  IF meta.has_step /\ ~policy.ignore
  THEN FromTimeAndStep(meta, policy.dt)
  ELSE FromTime(meta.time, policy.dt)

(* A file without a clock: restart.legacy_time_s, then the name, if allowed.  *)
FromOptIns(policy, index) ==
  IF policy.has_legacy THEN FromTime(policy.legacy, policy.dt)
  ELSE IF policy.filename THEN FromName(index, policy.file_interval, policy.dt)
  ELSE Refused

resolve_restart_time(meta, policy, index) ==
  IF policy.dt <= 0 THEN Refused
  ELSE IF meta.has_time THEN FromStoredTime(meta, policy)
  ELSE IF meta.has_step THEN FromStep(meta.step, policy.dt)
  ELSE FromOptIns(policy, index)

(* What a history file says of the clock: model_time_s and model_step.       *)
ClockMetadata(t, s) == [has_time |-> TRUE, time |-> t, has_step |-> TRUE, step |-> s]

Metadata == [has_time : BOOLEAN, time : Int, has_step : BOOLEAN, step : Int]
Policies == [dt : Int, ignore : BOOLEAN, has_legacy : BOOLEAN, legacy : Int,
             filename : BOOLEAN, file_interval : Int]

---------------------------------------------------------------------------------
(* The resolved step is the one nearest to the resolved time, whichever of   *)
(* the five sources answered: the run it starts is never half a step out.    *)
NearestStep(r, dt) ==
  r.ok => /\ r.time \in Nat /\ r.step \in Nat
          /\ 2 * r.time - dt <= 2 * (r.step * dt)
          /\ 2 * (r.step * dt) <= 2 * r.time + dt

(* A time the file stores is the time the run resumes from, or the run does  *)
(* not start: no opt-in of the configuration overrides it.                  *)
FileTimeStands(r, meta) == (r.ok /\ meta.has_time) => r.time = meta.time

(* What a run of this model wrote at t = s * dt resumes at that time and     *)
(* step, whatever opt-ins the configuration left switched on.                *)
ResumesWhereItStopped(t, s, policy, index) ==
  (s * policy.dt = t) =>
     resolve_restart_time(ClockMetadata(t, s), policy, index) = StartAt(t, s)
=================================================================================
