----------------------------- MODULE ForcingTargets -----------------------------
(***************************************************************************)
(* The large-scale forcing a step reads: the targets of AreaMeanNudging and  *)
(* of LateralBoundaryNudging, interpolated between two files of a series     *)
(* with one file per update interval, across restarts.                      *)
(*                                                                         *)
(* File number i is the forcing at time i * interval; its content is         *)
(* abstracted to that time, so that a forcing linear in time is followed      *)
(* exactly when the right two files are interpolated, in the right order and  *)
(* with the right weight.  The two processes do the same with different      *)
(* means: AreaMeanNudging swaps two views it owns, LateralBoundaryNudging     *)
(* swaps the names of two fields of the state.                              *)
(***************************************************************************)
EXTENDS ProcessSchedule

ASSUME ForcingAssumption ==
  \A p \in Plans : p.dt \in Nat \ {0} /\ p.interval \in Nat \ {0}

VARIABLES areamn,    \* [n, u1, u2, target]: T1 in intervals, files in u_T1_ and u_T2_
          lateral,   \* [n, t1, t2, file, held, target]: T1, the fields named T1 and T2,
                     \* the file in each field (-1: none yet), forcing_targets_
          at         \* the time both were last interpolated to

forcingVars == <<areamn, lateral, at>>

Time(s) == s * plan.dt
Window(t) == t \div plan.interval

(* (1 - W) * lo + W * hi, W clipped to 0..1, in units of time.               *)
Clipped(w) == IF w < 0 THEN 0 ELSE IF w > plan.interval THEN plan.interval ELSE w
Interpolated(lo, hi, w) == (plan.interval - w) * lo + w * hi

(* AreaMeanNudging::update_forcing_target: `while' the time has reached T2,   *)
(* the views are swapped and the file of the new T2 is loaded.              *)
UpdateForcingTargetOnce(a, t) ==                                               \* mutant
  LET n  == IF t >= (a.n + 1) * plan.interval THEN a.n + 1 ELSE a.n
      u1 == IF n = a.n THEN a.u1 ELSE a.u2
      u2 == IF n = a.n THEN a.u2 ELSE n + 1
  IN [n |-> n, u1 |-> u1, u2 |-> u2,
      target |-> Interpolated(u1, u2, Clipped(t - n * plan.interval))]
UpdateForcingTarget(a, t) ==
  LET n  == IF t >= (a.n + 1) * plan.interval THEN Window(t) ELSE a.n
      u1 == IF n = a.n THEN a.u1 ELSE IF n = a.n + 1 THEN a.u2 ELSE n
      u2 == IF n = a.n THEN a.u2 ELSE n + 1
  IN [n |-> n, u1 |-> u1, u2 |-> u2,
      target |-> Interpolated(u1, u2, Clipped(t - n * plan.interval))]

AreaMeanInitialize(t) ==
  UpdateForcingTarget([n |-> Window(t), u1 |-> Window(t), u2 |-> Window(t) + 1, target |-> 0], t)

(* The fields var_ls_T1 (1) and var_ls_T2 (2).  A load goes to the field now *)
(* named T2.                                                              *)
LoadForcingData(l, i) == [l EXCEPT !.file[l.t2] = i]
NamesKept(l) == l                                                             \* mutant
SwapNames(l) == [l EXCEPT !.t1 = l.t2, !.t2 = l.t1]

(* LateralBoundaryNudging::update_large_scale_forcing: `if' the time has      *)
(* reached T2, names are swapped and one file is loaded; the fields to        *)
(* interpolate are looked up by name on the first call only.                *)
UpdateLargeScaleForcing(l, t) ==
  LET next == IF t >= (l.n + 1) * plan.interval
              THEN LoadForcingData([SwapNames(l) EXCEPT !.n = l.n + 1], l.n + 2) ELSE l
      held == IF l.held = <<>> THEN <<next.t1, next.t2>> ELSE l.held
  IN [next EXCEPT !.held = held,
                  !.target = Interpolated(next.file[held[1]], next.file[held[2]],
                                          Clipped(t - next.n * plan.interval))]

LateralInitialize(t) ==
  LET first == LoadForcingData([n |-> 0, t1 |-> 1, t2 |-> 2, file |-> <<-1, -1>>,
                                held |-> <<>>, target |-> 0], 0)
  IN UpdateLargeScaleForcing(LoadForcingData(SwapNames(first), 1), t)

ForcingInit ==
  /\ Init
  /\ areamn = AreaMeanInitialize(0)
  /\ lateral = LateralInitialize(0)
  /\ at = 0

(* The first calls of a step, before anything reads a target.               *)
ForcedRunStep ==
  /\ RunStep
  /\ at' = Time(step)
  /\ areamn' = UpdateForcingTarget(areamn, Time(step))
  /\ lateral' = UpdateLargeScaleForcing(lateral, Time(step))

(* The clock is restored before the processes are initialized.              *)
ForcedRestart ==
  /\ Restart
  /\ at' = Time(step')
  /\ areamn' = AreaMeanInitialize(Time(step'))
  /\ lateral' = LateralInitialize(Time(step'))

ForcedFinished == Finished /\ UNCHANGED forcingVars

ForcedNext == ForcedRunStep \/ ForcedRestart \/ ForcedFinished

ForcedSpec == ForcingInit /\ [][ForcedNext]_<<vars, forcingVars>>

---------------------------------------------------------------------------------
(* AreaMeanNudging follows a forcing that is linear in time exactly, at every *)
(* step, for steps shorter or longer than the interval and after any         *)
(* restarts: while loop, swaps, loads and weight fit together.              *)
AreaMeanFollowsTime == areamn.target = at

(* In a run from time 0 whose steps are not longer than the interval, the    *)
(* lateral target lies between the two files around the present time,        *)
(* although not always on the right side of their middle.                   *)
LateralBetweenItsFiles ==
  restarts = 0 /\ plan.dt <= plan.interval =>
    {lateral.file[lateral.held[i]] : i \in {1, 2}} = {Window(at), Window(at) + 1}

(* configuration.md:694, "Select forcing files by time", and the comments of *)
(* LateralBoundaryNudging.cpp:220-226, "swap to T1", "load to T2": the target *)
(* is the forcing at the present time.  It is not: forcing_targets_ keeps the *)
(* fields that had the names T1 and T2 on the first call, so in every other   *)
(* interval the files are interpolated backwards.                           *)
LateralFollowsTime == lateral.target = at
=================================================================================
