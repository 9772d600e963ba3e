------------------------------- MODULE Bp5Dataset -------------------------------
(***************************************************************************)
(* The life of BP5 history datasets over a series of runs.                  *)
(*                                                                         *)
(* A dataset is a directory that holds every output time of a run.  A run    *)
(* may restart from one of its steps and then write a new dataset, replace   *)
(* one, or append to the one it restarted from (output.bp5.existing_dataset). *)
(* Between two runs only the datasets survive; a run may break off anywhere. *)
(*                                                                         *)
(* The compute ranks are one process here: rank 0 decides about the path and *)
(* the others follow its broadcast, and the ADIOS2 calls are collective.     *)
(* The restart source's fields are not modelled, only its clock.             *)
(***************************************************************************)
EXTENDS RestartClock, SequencesExt

CONSTANTS
  Datasets,   \* .bp directories
  Links,      \* paths that are symbolic links to one of them
  LinkTo,     \* where they lead
  Found,      \* what the datasets may hold before the first run: [present, disk]
  Configs,    \* the configurations runs are started with
  MaxRuns     \* bound: how many runs are started

Paths == Datasets \cup Links
Canonical(p) == IF p \in Links THEN LinkTo[p] ELSE p

(* A step of a dataset: its clock, which always has a time, and, for the      *)
(* properties only, the dt and the output interval of the run that wrote it   *)
(* (0: written by another version of the model).                            *)
Entries == [meta : {m \in Metadata : m.has_time}, dt : Nat, interval : Nat]
Entry(t, s, c) == [meta |-> ClockMetadata(t, s), dt |-> c.clock.dt, interval |-> c.interval]
TimeOf(e) == e.meta.time

ASSUME DatasetsAssumption ==
  /\ Datasets \cap Links = {}
  /\ LinkTo \in [Links -> Datasets]
  /\ MaxRuns \in Nat

ASSUME ConfigsAssumption ==
  \A c \in Configs :
    /\ c.path \in Paths
    /\ c.existing \in {"error", "replace", "append"}
    /\ c.restart \in BOOLEAN
    /\ c.source \in Paths
    /\ c.step_index \in Int
    /\ c.initial \in BOOLEAN
    /\ c.async \in BOOLEAN
    /\ c.codec \in BOOLEAN
    /\ c.clock \in Policies
    /\ c.clock.dt > 0
    /\ c.interval \in Nat \ {0}
    /\ c.total \in Nat

ASSUME FoundAssumption ==
  \A f \in Found :
    /\ f.present \subseteq Datasets
    /\ f.disk \in [Datasets -> Seq(Entries)]
    /\ \A d \in Datasets \ f.present : f.disk[d] = <<>>
    /\ \A d \in Datasets : \A i \in 1..Len(f.disk[d]) : f.disk[d][i].interval = 0
    /\ \A d \in Datasets : \A i, j \in 1..Len(f.disk[d]) :
         i < j => TimeOf(f.disk[d][i]) < TimeOf(f.disk[d][j])

VARIABLES
  present,    \* the datasets that exist
  disk,       \* the steps each holds
  run,        \* the configuration of the current run (of the last one, between two)
  runs,       \* how many have been started
  loop,       \* where main.cpp is
  time,       \* State::time_
  step,       \* State::step_
  next,       \* next_output_time
  pending,    \* steps ADIOS2 has accepted (AsyncWrite) and not stored yet
  described   \* time_count of the GrADS descriptor vvm.ctl

files == <<present, disk>>
clock == <<time, step, next>>
vars == <<files, run, runs, loop, clock, pending, described>>

Over == {"none", "closed", "refused", "broken"}       \* no run is on
InLoop == {"setup", "initial", "step", "output"}      \* the writer is open

Target == Canonical(run.path)
Source == Canonical(run.source)

Init ==
  /\ \E f \in Found : present = f.present /\ disk = f.disk
  /\ run \in Configs
  /\ runs = 0
  /\ loop = "none"
  /\ time = 0 /\ step = 0 /\ next = 0
  /\ pending = <<>>
  /\ described = 0

(* main.cpp constructs State and Model; Model::init loads the restart before  *)
(* the history writer exists.                                               *)
Launch(c) ==
  /\ loop \in Over
  /\ runs < MaxRuns
  /\ run' = c
  /\ runs' = runs + 1
  /\ loop' = IF c.restart THEN "load" ELSE "construct"
  /\ time' = 0 /\ step' = 0 /\ next' = 0
  /\ pending' = <<>>
  /\ described' = 0
  /\ UNCHANGED files

Refuse ==
  /\ loop' = "refused"
  /\ UNCHANGED <<files, run, runs, clock, pending, described>>

---------------------------------------------------------------------------------
(* resolve_step: the position in the dataset, from 1; 0 when there is none.   *)
resolve_step(c, n) == IF c.step_index = -1 THEN n ELSE c.step_index + 1

ClockLoaded ==
  LET k == resolve_step(run, Len(disk[Source]))
  IN IF Source \in present /\ k \in 1..Len(disk[Source])
     THEN resolve_restart_time(disk[Source][k].meta, run.clock, -1)
     ELSE Refused

(* Initializer::load_restart.  A dataset that does not exist, is empty or     *)
(* lacks the step, and a clock that does not resolve, end the run.            *)
LoadRestart ==
  /\ loop = "load"
  /\ ClockLoaded.ok
  /\ time' = ClockLoaded.time
  /\ step' = ClockLoaded.step
  /\ loop' = "construct"
  /\ UNCHANGED <<files, run, runs, next, pending, described>>

RestartRefused == loop = "load" /\ ~ClockLoaded.ok /\ Refuse

(* The writer's constructor checks the codec before it touches the path.      *)
DefineCodec ==
  /\ loop = "construct"
  /\ run.codec
  /\ loop' = "path"
  /\ UNCHANGED <<files, run, runs, clock, pending, described>>

CodecMissing == loop = "construct" /\ ~run.codec /\ Refuse

(* The rules about the restart source: append continues the last step of the  *)
(* same dataset and does not repeat it; nothing else writes to the source.     *)
SourceRulesTextual(c) ==                                                       \* mutant
  /\ c.existing = "append" => c.restart /\ c.step_index = -1 /\ ~c.initial /\ c.source = c.path
  /\ (c.existing # "append" /\ c.restart) => c.source # c.path
SourceRulesRepeating(c) ==                                                     \* mutant
  /\ c.existing = "append" => c.restart /\ c.step_index = -1
  /\ (c.existing = "append") <=> (c.restart /\ Canonical(c.source) = Canonical(c.path))
SourceRules(c) ==
  /\ c.existing = "append" => c.restart /\ c.step_index = -1 /\ ~c.initial
  /\ c.restart => (c.existing = "append" <=> Canonical(c.source) = Canonical(c.path))

(* prepare_bp5_dataset_path: a symbolic link is never written through.        *)
PathAccepted ==
  /\ SourceRules(run)
  /\ run.path \notin Links
  /\ Target \in present => run.existing # "error"
  /\ Target \notin present => run.existing # "append"

Cleared(d) == [disk EXCEPT ![d] = <<>>]

PreparePath ==
  /\ loop = "path"
  /\ PathAccepted
  /\ IF run.existing = "replace"
     THEN present' = present \ {Target} /\ disk' = Cleared(Target)
     ELSE UNCHANGED files
  /\ loop' = "open"
  /\ UNCHANGED <<run, runs, clock, pending, described>>

PathRefused == loop = "path" /\ ~PathAccepted /\ Refuse

(* The rest of the constructor may fail: a field that does not fit the grid,  *)
(* the engine that does not open, the descriptor after it has opened.         *)
OpenFails ==
  /\ loop = "open"
  /\ loop' = "refused"
  /\ present' \in {present, present \cup {Target}}
  /\ UNCHANGED <<disk, run, runs, clock, pending, described>>

(* write_grads_ctl_file: the records the loop will write, counted up front.   *)
RecordsAheadUnclamped(c, t) == c.total \div c.interval - t \div c.interval      \* mutant
RecordsAhead(c, t) ==
  IF c.total \div c.interval > t \div c.interval
  THEN c.total \div c.interval - t \div c.interval ELSE 0

TimeCountFromZero(old, c, t) ==                                                \* mutant
  old + c.total \div c.interval + (IF c.initial THEN 1 ELSE 0)
TimeCount(old, c, t) == old + RecordsAhead(c, t) + (IF c.initial THEN 1 ELSE 0)

FirstDueAtRestart(c, t) == (t \div c.interval) * c.interval                    \* mutant
FirstDue(c, t) ==
  IF c.restart THEN (t \div c.interval + 1) * c.interval ELSE c.interval

(* Mode::Write starts the dataset, Mode::Append keeps its steps              *)
(* (AppendAfterSteps = -1); then main.cpp sets the output clock.             *)
OpenDataset ==
  /\ loop = "open"
  /\ present' = present \cup {Target}
  /\ disk' = IF run.existing = "append" THEN disk ELSE Cleared(Target)
  /\ described' = TimeCount(Len(disk'[Target]), run, time)
  /\ next' = FirstDue(run, time)
  /\ loop' = "setup"
  /\ UNCHANGED <<run, runs, time, step, pending>>

---------------------------------------------------------------------------------
(* Bp5HistoryWriter::write.  A step is in the dataset when EndStep returns,   *)
(* or, with async_write, when ADIOS2's background thread has stored it.       *)
Write ==
  LET e == Entry(time, step, run)
  IN IF run.async
     THEN pending' = Append(pending, e) /\ UNCHANGED files
     ELSE /\ disk' = [disk EXCEPT ![Target] = Append(@, e)]
          /\ UNCHANGED <<present, pending>>

BeginRun ==
  /\ loop = "setup"
  /\ loop' = IF run.initial THEN "initial" ELSE "step"
  /\ UNCHANGED <<files, run, runs, clock, pending, described>>

WriteInitial ==
  /\ loop = "initial"
  /\ Write
  /\ loop' = "step"
  /\ UNCHANGED <<run, runs, clock, described>>

Advance ==
  /\ loop = "step"
  /\ time < run.total
  /\ time' = time + run.clock.dt
  /\ step' = step + 1
  /\ loop' = IF time' >= next THEN "output" ELSE "step"
  /\ UNCHANGED <<files, run, runs, next, pending, described>>

WriteOutput ==
  /\ loop = "output"
  /\ Write
  /\ next' = next + run.interval
  /\ loop' = "step"
  /\ UNCHANGED <<run, runs, time, step, described>>

(* external: ADIOS2 stores an accepted step, in order                        *)
Store ==
  /\ pending # <<>>
  /\ disk' = [disk EXCEPT ![Target] = Append(@, Head(pending))]
  /\ pending' = Tail(pending)
  /\ UNCHANGED <<present, run, runs, loop, clock, described>>

Flushed == [disk EXCEPT ![Target] = @ \o pending]

(* writer_.Close() waits for what is pending.                               *)
Close ==
  /\ loop = "step"
  /\ time >= run.total
  /\ disk' = Flushed
  /\ pending' = <<>>
  /\ loop' = "closed"
  /\ UNCHANGED <<present, run, runs, clock, described>>

(* An exception out of run_step or write: the destructor closes the writer   *)
(* before main's handler aborts.                                            *)
Throw ==
  /\ loop \in InLoop
  /\ disk' = Flushed
  /\ pending' = <<>>
  /\ loop' = "broken"
  /\ UNCHANGED <<present, run, runs, clock, described>>

(* The process is killed: what ADIOS2 had not stored is lost.                *)
Crash ==
  /\ loop \notin Over
  /\ pending' = <<>>
  /\ loop' = "broken"
  /\ UNCHANGED <<files, run, runs, clock, described>>

AllRunsOver == loop \in Over /\ runs = MaxRuns /\ UNCHANGED vars

Next ==
  \/ \E c \in Configs : Launch(c)
  \/ LoadRestart \/ RestartRefused
  \/ DefineCodec \/ CodecMissing
  \/ PreparePath \/ PathRefused
  \/ OpenDataset \/ OpenFails
  \/ BeginRun \/ WriteInitial \/ Advance \/ WriteOutput
  \/ Store \/ Close \/ Throw \/ Crash
  \/ AllRunsOver

Spec == Init /\ [][Next]_vars

---------------------------------------------------------------------------------
(* The datasets hold steps, the clock counts, and main.cpp is at a known place. *)
Bp5TypeOK ==
  /\ present \subseteq Datasets
  /\ disk \in [Datasets -> Seq(Entries)]
  /\ run \in Configs
  /\ runs \in 0..MaxRuns
  /\ loop \in Over \cup InLoop \cup {"load", "construct", "path", "open"}
  /\ time \in Nat /\ step \in Nat /\ next \in Nat
  /\ pending \in Seq(Entries)
  /\ described \in Nat

(* A dataset with the steps ADIOS2 still holds for it.                       *)
Written(d) == IF d = Target /\ loop \notin Over THEN disk[d] \o pending ELSE disk[d]

Increasing(s) == \A i, j \in 1..Len(s) : i < j => TimeOf(s[i]) < TimeOf(s[j])

(* Whatever runs have restarted from, appended to, replaced or broken off,    *)
(* the times of a dataset's steps increase: an append neither writes the      *)
(* restart step twice nor goes back behind it (configuration.md:411).         *)
HistoryAdvances == \A d \in Datasets : Increasing(Written(d))

(* A run whose dt does not exceed its interval leaves no output time out,     *)
(* not even between the step it was restarted from and the first it writes:   *)
(* what a crash lost is computed and written again by the run that appends.   *)
NoHoleAcrossRuns ==
  \A d \in Datasets : \A i \in 2..Len(Written(d)) :
    LET e == Written(d)[i]
    IN (0 < e.interval /\ e.dt <= e.interval)
         => TimeOf(e) \div e.interval = TimeOf(Written(d)[i - 1]) \div e.interval + 1

(* A step is only ever lost to a run that replaces the dataset, has its codec  *)
(* and did not restart from it: `preserving all existing steps'             *)
(* (bp5-output.md:213).                                                     *)
HistoryKept ==
  [][\A d \in Datasets :
       \/ IsPrefix(disk[d], disk'[d])
       \/ /\ run.existing = "replace" /\ run.codec
          /\ d = Target
          /\ run.restart => d # Source]_vars

(* While a run is on, its time and its step tell the same story up to the     *)
(* rounding of the step it derived at the start.                            *)
StepNearTime ==
  loop \notin Over => /\ 2 * time - run.clock.dt <= 2 * (step * run.clock.dt)
                      /\ 2 * (step * run.clock.dt) <= 2 * time + run.clock.dt

(* vvm.ctl promises no more times than the dataset holds at the end of a run  *)
(* (bp5-output.md:186), if its dt does not exceed the output interval.        *)
DescriptorFitsFineSteps ==
  (loop = "closed" /\ run.clock.dt <= run.interval) => described <= Len(disk[Target])
=================================================================================
