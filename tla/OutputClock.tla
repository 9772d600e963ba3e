------------------------------- MODULE OutputClock -------------------------------
(***************************************************************************)
(* The time loop of main.cpp and the history records it asks for.          *)
(*                                                                         *)
(* One model step advances the clock by dt.  A record is due when the clock *)
(* has reached next_output_time, which then moves by one output interval:   *)
(* an `if', not a `while', so at most one record is written per step.       *)
(* A run starts at time 0 or at the time a restart has resolved.           *)
(*                                                                         *)
(* Times are natural numbers of some unit that divides dt and the interval  *)
(* (the rounding error of the accumulated floating-point clock is not       *)
(* modelled).  The configuration is a rigid variable, so that one run of    *)
(* the checker covers a set of cadences.                                   *)
(***************************************************************************)
EXTENDS Integers, Sequences

CONSTANT Configs      \* the cadences considered: [dt, interval, total, start, initial]

ASSUME ConfigsAssumption ==
  \A c \in Configs : /\ c.dt \in Nat \ {0}
                     /\ c.interval \in Nat \ {0}
                     /\ c.total \in Nat
                     /\ c.start \in Nat
                     /\ c.initial \in BOOLEAN

VARIABLES cfg,        \* the configuration of this run, never changed
          loop,       \* where the compute ranks are in main.cpp
          time,       \* State::time_
          next,       \* next_output_time
          log         \* times of the records handed to the history writer, in order

clockVars == <<cfg, loop, time, next, log>>

(* A fresh run's first record is due after one interval; a restarted run   *)
(* continues at the first multiple of the interval after its start.  The   *)
(* two formulas agree at start = 0.                                        *)
FirstDueAtStart(c) == IF c.start = 0 THEN c.interval ELSE (c.start \div c.interval) * c.interval  \* mutant
FirstDueBehind(c) == (c.start \div c.interval - 1) * c.interval                                 \* mutant
FirstDue(c) == IF c.start = 0 THEN c.interval
               ELSE (c.start \div c.interval + 1) * c.interval

ClockInit ==
  /\ cfg \in Configs
  /\ loop = "setup"
  /\ time = cfg.start
  /\ next = FirstDue(cfg)
  /\ log = <<>>

(* output_initial_step decides whether the state the run starts from is     *)
(* written before the loop.                                                *)
BeginRun ==
  /\ loop = "setup"
  /\ loop' = IF cfg.initial THEN "initial" ELSE "step"
  /\ UNCHANGED <<cfg, time, next, log>>

WriteInitial ==
  /\ loop = "initial"
  /\ log' = Append(log, time)
  /\ loop' = "step"
  /\ UNCHANGED <<cfg, time, next>>

AdvanceNot ==                                                                  \* mutant
  loop = "step" /\ time < cfg.total /\ UNCHANGED clockVars

(* run_step, increment_step, advance_time, and the test of the output clock *)
Advance ==
  /\ loop = "step"
  /\ time < cfg.total
  /\ time' = time + cfg.dt
  /\ loop' = IF time' >= next THEN "output" ELSE "step"
  /\ UNCHANGED <<cfg, next, log>>

WriteOutputDrifting ==                                                         \* mutant
  /\ loop = "output"
  /\ log' = Append(log, time) /\ next' = time + cfg.interval /\ loop' = "step"
  /\ UNCHANGED <<cfg, time>>

WriteOutput ==
  /\ loop = "output"
  /\ log' = Append(log, time)
  /\ next' = next + cfg.interval
  /\ loop' = "step"
  /\ UNCHANGED <<cfg, time>>

(* history_writer->close() after the loop *)
CloseHistory ==
  /\ loop = "step"
  /\ time >= cfg.total
  /\ loop' = "closed"
  /\ UNCHANGED <<cfg, time, next, log>>

ClockTerminated == loop = "closed" /\ UNCHANGED clockVars

ClockNext ==
  \/ BeginRun \/ WriteInitial \/ Advance \/ WriteOutput \/ CloseHistory
  \/ ClockTerminated

ClockSpec == ClockInit /\ [][ClockNext]_clockVars /\ WF_clockVars(ClockNext)

---------------------------------------------------------------------------------
(* The number of a record's file.  OutputManager (engine HDF5) truncates    *)
(* the quotient, the I/O server (engine SST) rounds it half away from zero. *)
RelayIndexUp(c, t) == (t + c.interval - 1) \div c.interval                    \* mutant
Hdf5Index(c, t)  == t \div c.interval
RelayIndex(c, t) == (2 * t + c.interval) \div (2 * c.interval)

---------------------------------------------------------------------------------
(* The clock, the due time and the log are natural numbers, and main.cpp is    *)
(* at a known place.                                                       *)
ClockTypeOK ==
  /\ cfg \in Configs
  /\ loop \in {"setup", "initial", "step", "output", "closed"}
  /\ time \in Nat
  /\ next \in Nat
  /\ log \in Seq(Nat)

(* The records the loop of main.cpp wrote, without the initial one.        *)
LoopRecords == IF cfg.initial /\ Len(log) > 0 THEN Tail(log) ELSE log

(* Between two steps, a run whose dt does not exceed the interval has       *)
(* written one record for each multiple of the interval it has passed since *)
(* it started, no more and no fewer; the single `if' of the loop never      *)
(* falls behind the clock, and a restart neither repeats nor skips one.     *)
NoIntervalMissed ==
  (loop \in {"step", "closed"} /\ cfg.dt <= cfg.interval)
     => Len(LoopRecords) = time \div cfg.interval - cfg.start \div cfg.interval

FirstLoopRecord == IF cfg.initial THEN 2 ELSE 1

(* Under the truncated numbering of OutputManager::write, every record goes *)
(* to a file of its own, whatever dt and interval are, and never to the     *)
(* file that holds the state the run started from (the source of a restart, *)
(* or the initial record itself): no history file is written twice.         *)
Hdf5FilesDistinct ==
  \A j \in FirstLoopRecord..Len(log) :
    /\ Hdf5Index(cfg, cfg.start) < Hdf5Index(cfg, log[j])
    /\ \A i \in FirstLoopRecord..j - 1 : Hdf5Index(cfg, log[i]) < Hdf5Index(cfg, log[j])

(* Every step moves the clock, so the loop of main.cpp ends and the writer is  *)
(* closed, whatever the cadence and the start.                               *)
RunEnds == <>(loop = "closed")
=================================================================================
