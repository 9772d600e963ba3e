---------------------------- MODULE Bp5DatasetProofs ----------------------------
(* Proofs about the restart clock and about the datasets of a series of runs,  *)
(* for every input, configuration, content found and number of runs.          *)
EXTENDS Bp5Dataset, SequenceTheorems, TLAPS

---------------------------------------------------------------------------------
(* The restart clock.  What llround gives for a time that is not negative.   *)
LEMMA QuotientBounds ==
  ASSUME NEW d \in Nat \ {0}, NEW x \in Nat
  PROVE  /\ x \div d \in Nat
         /\ (x \div d) * d <= x
         /\ x < (x \div d) * d + d
BY Z3

LEMMA Doubled ==
  ASSUME NEW q \in Nat, NEW d \in Nat
  PROVE  q * (2 * d) = 2 * (q * d)
BY Z3

(* llround(time / dt) is a step within half a step of the time.              *)
LEMMA DerivedStepNearest ==
  ASSUME NEW t \in Nat, NEW d \in Nat \ {0}
  PROVE  /\ DerivedStep(t, d) \in Nat
         /\ 2 * t - d <= 2 * (DerivedStep(t, d) * d)
         /\ 2 * (DerivedStep(t, d) * d) <= 2 * t + d
<1> DEFINE q == (2 * t + d) \div (2 * d)
<1>1. 2 * t + d \in Nat /\ 2 * d \in Nat \ {0}
  OBVIOUS
<1>2. q \in Nat /\ q * (2 * d) <= 2 * t + d /\ 2 * t + d < q * (2 * d) + 2 * d
  BY <1>1, QuotientBounds
<1>3. q * (2 * d) = 2 * (q * d)
  BY <1>2, Doubled
<1>4. q * d \in Nat
  BY <1>2
<1> HIDE DEF q
<1>5. 2 * t - d <= 2 * (q * d) /\ 2 * (q * d) <= 2 * t + d
  BY <1>2, <1>3, <1>4
<1> QED
  BY <1>2, <1>5 DEF DerivedStep, q

(* A time that is trusted gives its nearest step.                           *)
LEMMA FromTimeNearest ==
  ASSUME NEW t \in Int, NEW d \in Nat \ {0}
  PROVE  NearestStep(FromTime(t, d), d)
<1>1. CASE t >= 0
  <2>1. t \in Nat
    BY <1>1
  <2> QED
    BY <1>1, <2>1, DerivedStepNearest DEF FromTime, NearestStep, StartAt
<1>2. CASE ~(t >= 0)
  BY <1>2 DEF FromTime, NearestStep, Refused
<1> QED
  BY <1>1, <1>2

(* Any time that is the step's own multiple of dt is nearest to it.           *)
LEMMA ExactNearest ==
  ASSUME NEW t \in Int, NEW s \in Int, NEW d \in Nat \ {0}, t >= 0, s >= 0, s * d = t
  PROVE  NearestStep(StartAt(t, s), d)
BY DEF NearestStep, StartAt

(* The sources of a clock, in their order of precedence.                    *)
LEMMA AnswerSources ==
  ASSUME NEW meta, NEW policy, NEW index
  PROVE  LET r == resolve_restart_time(meta, policy, index)
             d == policy.dt
         IN \/ r = Refused
            \/ ~(d <= 0) /\ r = FromTimeAndStep(meta, d)
            \/ ~(d <= 0) /\ r = FromTime(meta.time, d)
            \/ ~(d <= 0) /\ r = FromStep(meta.step, d)
            \/ ~(d <= 0) /\ r = FromTime(policy.legacy, d)
            \/ ~(d <= 0) /\ r = FromName(index, policy.file_interval, d)
BY Zenon DEF resolve_restart_time, FromStoredTime, FromOptIns

(* Whichever source answers, a restarted run starts at the step nearest to    *)
(* its time: what resolve_restart_time's five branches have in common.        *)
THEOREM AnswerIsNearest ==
  ASSUME NEW meta \in Metadata, NEW policy \in Policies, NEW index \in Int
  PROVE  NearestStep(resolve_restart_time(meta, policy, index), policy.dt)
<1> DEFINE r == resolve_restart_time(meta, policy, index)
           d == policy.dt
<1>0. meta.time \in Int /\ meta.step \in Int /\ policy.legacy \in Int
      /\ policy.file_interval \in Int /\ d \in Int
  BY DEF Metadata, Policies
<1>1. CASE r = Refused
  BY <1>1 DEF NearestStep, Refused
<1>2. CASE d > 0 /\ r = FromTimeAndStep(meta, d)
  BY <1>0, <1>2, ExactNearest DEF FromTimeAndStep, NearestStep, Refused
<1>3. CASE d > 0 /\ r = FromTime(meta.time, d)
  BY <1>0, <1>3, FromTimeNearest
<1>4. CASE d > 0 /\ r = FromStep(meta.step, d)
  <2>1. meta.step >= 0 => meta.step * d \in Int /\ meta.step * d >= 0
    BY <1>0, <1>4
  <2> QED
    BY <1>0, <1>4, <2>1, ExactNearest DEF FromStep, NearestStep, Refused
<1>5. CASE d > 0 /\ r = FromTime(policy.legacy, d)
  BY <1>0, <1>5, FromTimeNearest
<1>6. CASE d > 0 /\ r = FromName(index, policy.file_interval, d)
  <2>1. index * policy.file_interval \in Int
    BY <1>0
  <2> QED
    BY <1>0, <1>6, <2>1, FromTimeNearest DEF FromName, NearestStep, Refused
<1>7. ~(d <= 0) => d > 0
  BY <1>0
<1> QED
  BY <1>1, <1>2, <1>3, <1>4, <1>5, <1>6, <1>7, AnswerSources, Zenon

(* No opt-in of the configuration overrides a time the file stores.           *)
THEOREM StoredTimeStands ==
  ASSUME NEW meta \in Metadata, NEW policy \in Policies, NEW index \in Int
  PROVE  FileTimeStands(resolve_restart_time(meta, policy, index), meta)
<1> SUFFICES ASSUME meta.has_time,
                    resolve_restart_time(meta, policy, index).ok
             PROVE  resolve_restart_time(meta, policy, index).time = meta.time
  BY DEF FileTimeStands
<1>1. \/ resolve_restart_time(meta, policy, index) = Refused
      \/ resolve_restart_time(meta, policy, index) = FromTimeAndStep(meta, policy.dt)
      \/ resolve_restart_time(meta, policy, index) = FromTime(meta.time, policy.dt)
  BY Zenon DEF resolve_restart_time, FromStoredTime
<1> QED
  BY <1>1 DEF Refused, FromTimeAndStep, FromTime, StartAt

(* Two quotients of times a multiple apart are ordered as the times.          *)
LEMMA MultipleOrder ==
  ASSUME NEW a \in Nat, NEW b \in Nat, NEW d \in Nat \ {0}, a < b
  PROVE  a * d + d <= b * d
<1>1. PICK k \in Nat : b = a + 1 + k
  <2>1. b - a - 1 \in Nat /\ b = a + 1 + (b - a - 1)
    OBVIOUS
  <2> QED
    BY <2>1
<1>2. b * d = a * d + d + k * d /\ k * d \in Nat
  BY <1>1, Z3
<1>3. a * d \in Nat
  OBVIOUS
<1> QED
  BY <1>2, <1>3

(* Deriving the step of a time that is a whole number of steps is exact.      *)
LEMMA DerivedStepExact ==
  ASSUME NEW s \in Nat, NEW d \in Nat \ {0}
  PROVE  DerivedStep(s * d, d) = s
<1> DEFINE q == DerivedStep(s * d, d)
<1>0. s * d \in Nat
  OBVIOUS
<1>1. q \in Nat /\ 2 * (s * d) - d <= 2 * (q * d) /\ 2 * (q * d) <= 2 * (s * d) + d
  BY <1>0, DerivedStepNearest
<1>2. q * d \in Nat
  BY <1>1
<1> HIDE DEF q
<1>3. ASSUME q < s PROVE FALSE
  <2>1. q * d + d <= s * d
    BY <1>1, <1>3, MultipleOrder
  <2> QED
    BY <1>0, <1>1, <1>2, <2>1
<1>4. ASSUME s < q PROVE FALSE
  <2>1. s * d + d <= q * d
    BY <1>1, <1>4, MultipleOrder
  <2> QED
    BY <1>0, <1>1, <1>2, <2>1
<1>5. q = s
  BY <1>1, <1>3, <1>4
<1> QED
  BY <1>5 DEF q

(* The file a run of this model wrote at t = s * dt resumes at that time and   *)
(* step, whatever opt-ins are on: a derived step is the stored one.           *)
THEOREM OwnClockResumes ==
  ASSUME NEW policy \in Policies, policy.dt > 0, NEW index \in Int,
         NEW s \in Nat, NEW t \in Nat
  PROVE  ResumesWhereItStopped(t, s, policy, index)
<1> DEFINE d == policy.dt
<1>0. d \in Nat \ {0}
  BY DEF Policies
<1> SUFFICES ASSUME s * d = t
             PROVE  resolve_restart_time(ClockMetadata(t, s), policy, index) = StartAt(t, s)
  BY DEF ResumesWhereItStopped
<1>1. DerivedStep(t, d) = s
  BY <1>0, DerivedStepExact
<1>2. resolve_restart_time(ClockMetadata(t, s), policy, index)
        = FromStoredTime(ClockMetadata(t, s), policy)
  BY <1>0 DEF resolve_restart_time, ClockMetadata
<1>3. FromTimeAndStep(ClockMetadata(t, s), d) = StartAt(t, s)
  BY DEF FromTimeAndStep, ClockMetadata
<1>4. FromTime(t, d) = StartAt(t, s)
  BY <1>1 DEF FromTime
<1> QED
  BY <1>2, <1>3, <1>4 DEF FromStoredTime, ClockMetadata

---------------------------------------------------------------------------------
(* The series of runs.  What every configuration gives.                      *)
LEMMA RunFacts ==
  ASSUME run \in Configs
  PROVE  /\ run.clock.dt \in Nat \ {0}
         /\ run.clock \in Policies
         /\ run.interval \in Nat \ {0}
         /\ run.total \in Nat
         /\ run.step_index \in Int
         /\ Target \in Datasets
         /\ Source \in Datasets
<1>1. run.clock \in Policies /\ run.clock.dt > 0
  BY ConfigsAssumption
<1>2. run.clock.dt \in Nat \ {0}
  BY <1>1 DEF Policies
<1>3. run.path \in Paths /\ run.source \in Paths
  BY ConfigsAssumption
<1>4. Target \in Datasets /\ Source \in Datasets
  BY <1>3, DatasetsAssumption DEF Target, Source, Canonical, Paths
<1> QED
  BY <1>1, <1>2, <1>4, ConfigsAssumption

LEMMA EntryType ==
  ASSUME run \in Configs, time \in Nat, step \in Nat
  PROVE  /\ Entry(time, step, run) \in Entries
         /\ TimeOf(Entry(time, step, run)) = time
         /\ Entry(time, step, run).meta.has_time
<1>1. run.clock.dt \in Nat /\ run.interval \in Nat
  BY RunFacts
<1>2. ClockMetadata(time, step) \in Metadata
  BY DEF ClockMetadata, Metadata
<1> QED
  BY <1>1, <1>2 DEF Entry, Entries, TimeOf, ClockMetadata

(* A restart that is accepted comes from a step of the source, at the time    *)
(* the step nearest to it says.                                             *)
LEMMA LoadedClock ==
  ASSUME Bp5TypeOK, ClockLoaded.ok
  PROVE  LET k == resolve_step(run, Len(disk[Source]))
             r == resolve_restart_time(disk[Source][k].meta, run.clock, -1)
         IN /\ Source \in present
            /\ k \in 1..Len(disk[Source])
            /\ ClockLoaded = r
            /\ r.ok
            /\ disk[Source][k].meta \in Metadata
            /\ ClockLoaded.time \in Nat
            /\ ClockLoaded.step \in Nat
            /\ NearestStep(ClockLoaded, run.clock.dt)
<1> DEFINE k == resolve_step(run, Len(disk[Source]))
           r == resolve_restart_time(disk[Source][k].meta, run.clock, -1)
<1>1. Source \in present /\ k \in 1..Len(disk[Source]) /\ ClockLoaded = r
  BY Zenon DEF ClockLoaded, Refused
<1>2. run.clock \in Policies /\ disk[Source] \in Seq(Entries)
  BY RunFacts DEF Bp5TypeOK
<1>3. disk[Source][k] \in Entries
  BY <1>1, <1>2, ElementOfSeq
<1>4. disk[Source][k].meta \in Metadata
  BY <1>3 DEF Entries
<1>5. NearestStep(r, run.clock.dt)
  BY <1>2, <1>4, AnswerIsNearest
<1> QED
  BY <1>1, <1>4, <1>5 DEF NearestStep

(* What Write does to the dataset and to what is pending.                    *)
LEMMA WriteType ==
  ASSUME Bp5TypeOK, Write
  PROVE  /\ present' = present
         /\ disk' \in [Datasets -> Seq(Entries)]
         /\ pending' \in Seq(Entries)
<1>1. Entry(time, step, run) \in Entries
  BY EntryType DEF Bp5TypeOK
<1>2. CASE run.async
  BY <1>1, <1>2, AppendProperties, SMTT(30) DEF Write, Bp5TypeOK, files
<1>3. CASE ~run.async
  <2>1. disk[Target] \in Seq(Entries) /\ Target \in Datasets
    BY RunFacts DEF Bp5TypeOK
  <2>2. Append(disk[Target], Entry(time, step, run)) \in Seq(Entries)
    BY <1>1, <2>1, AppendProperties
  <2> QED
    BY <1>3, <2>1, <2>2 DEF Write, Bp5TypeOK
<1> QED
  BY <1>2, <1>3

LEMMA TypeInitially == Init => Bp5TypeOK
<1> SUFFICES ASSUME Init PROVE Bp5TypeOK
  OBVIOUS
<1>1. PICK f \in Found : present = f.present /\ disk = f.disk
  BY DEF Init
<1>2. present \subseteq Datasets /\ disk \in [Datasets -> Seq(Entries)]
  BY <1>1, FoundAssumption
<1>3. <<>> \in Seq(Entries)
  BY EmptySeq
<1> QED
  BY <1>2, <1>3, DatasetsAssumption DEF Init, Bp5TypeOK, Over

LEMMA TypePreserved == Bp5TypeOK /\ [Next]_vars => Bp5TypeOK'
<1> SUFFICES ASSUME Bp5TypeOK, [Next]_vars PROVE Bp5TypeOK'
  OBVIOUS
<1>0. <<>> \in Seq(Entries)
  BY EmptySeq
<1>f. /\ run.clock.dt \in Nat /\ run.interval \in Nat \ {0} /\ run.total \in Nat
      /\ Target \in Datasets /\ disk[Target] \in Seq(Entries)
  BY RunFacts DEF Bp5TypeOK
<1>1. ASSUME NEW c \in Configs, Launch(c) PROVE Bp5TypeOK'
  BY <1>0, <1>1, DatasetsAssumption DEF Launch, Bp5TypeOK, files, Over, InLoop
<1>2. CASE LoadRestart
  <2>1. ClockLoaded.time \in Nat /\ ClockLoaded.step \in Nat
    BY <1>2, LoadedClock DEF LoadRestart
  <2> QED
    BY <1>2, <2>1 DEF LoadRestart, Bp5TypeOK, files
<1>3. CASE RestartRefused \/ CodecMissing \/ PathRefused \/ OpenFails
  <2>1. present' \subseteq Datasets
    BY <1>f, <1>3 DEF RestartRefused, CodecMissing, PathRefused, OpenFails, Refuse, Bp5TypeOK,
                      files
  <2> QED
    BY <1>3, <2>1 DEF RestartRefused, CodecMissing, PathRefused, OpenFails, Refuse, Bp5TypeOK,
                      files, clock, Over
<1>4. CASE DefineCodec
  BY <1>4 DEF DefineCodec, Bp5TypeOK, files, clock
<1>5. CASE PreparePath
  <2>1. present' \subseteq Datasets /\ disk' \in [Datasets -> Seq(Entries)]
    BY <1>0, <1>5 DEF PreparePath, Bp5TypeOK, files, Cleared
  <2> QED
    BY <1>5, <2>1 DEF PreparePath, Bp5TypeOK, clock
<1>6. CASE OpenDataset
  <2>1. present' \subseteq Datasets /\ disk' \in [Datasets -> Seq(Entries)]
    BY <1>0, <1>f, <1>6 DEF OpenDataset, Bp5TypeOK, Cleared
  <2>2. Len(disk'[Target]) \in Nat
    BY <1>f, <2>1, LenProperties
  <2>3. time \div run.interval \in Nat /\ run.total \div run.interval \in Nat
    BY <1>f, QuotientBounds DEF Bp5TypeOK
  <2>4. described' \in Nat
    BY <1>6, <2>2, <2>3 DEF OpenDataset, TimeCount, RecordsAhead
  <2>5. FirstDue(run, time) \in Nat
    BY <1>f, <2>3 DEF FirstDue
  <2> QED
    BY <1>6, <2>1, <2>4, <2>5 DEF OpenDataset, Bp5TypeOK, InLoop
<1>7. CASE BeginRun
  BY <1>7 DEF BeginRun, Bp5TypeOK, files, clock, InLoop
<1>8. CASE WriteInitial
  BY <1>8, WriteType DEF WriteInitial, Bp5TypeOK, clock, InLoop
<1>9. CASE Advance
  BY <1>f, <1>9, SMTT(30) DEF Advance, Bp5TypeOK, files, InLoop
<1>10. CASE WriteOutput
  BY <1>f, <1>10, WriteType DEF WriteOutput, Bp5TypeOK, InLoop
<1>11. CASE Store
  <2>1. Head(pending) \in Entries /\ Tail(pending) \in Seq(Entries)
    BY <1>11, HeadTailProperties DEF Store, Bp5TypeOK
  <2>2. Append(disk[Target], Head(pending)) \in Seq(Entries)
    BY <1>f, <2>1, AppendProperties
  <2> QED
    BY <1>f, <1>11, <2>1, <2>2 DEF Store, Bp5TypeOK, clock
<1>12. CASE Close \/ Throw \/ Crash
  <2>1. disk[Target] \o pending \in Seq(Entries)
    BY <1>f, ConcatProperties DEF Bp5TypeOK
  <2>2. Flushed \in [Datasets -> Seq(Entries)]
    BY <1>f, <2>1 DEF Flushed, Bp5TypeOK
  <2> QED
    BY <1>0, <1>12, <2>2 DEF Close, Throw, Crash, Bp5TypeOK, files, clock, Over
<1>13. CASE AllRunsOver \/ UNCHANGED vars
  BY <1>13 DEF AllRunsOver, Bp5TypeOK, vars, files, clock
<1> QED
  BY <1>1, <1>2, <1>3, <1>4, <1>5, <1>6, <1>7, <1>8, <1>9, <1>10, <1>11, <1>12, <1>13 DEF Next

(* The types of the datasets, of the clock and of main.cpp's place, for any    *)
(* series of runs.                                                         *)
THEOREM Bp5TypeCorrect == Spec => []Bp5TypeOK
BY TypeInitially, TypePreserved, PTL DEF Spec

---------------------------------------------------------------------------------
(* Time and step of a run advance together from the clock it resolved.       *)
LEMMA StepInitially == Init => StepNearTime
BY DEF Init, StepNearTime, Over

LEMMA StepPreserved == Bp5TypeOK /\ StepNearTime /\ [Next]_vars => StepNearTime'
<1> SUFFICES ASSUME Bp5TypeOK, StepNearTime, [Next]_vars PROVE StepNearTime'
  OBVIOUS
<1>f. run.clock.dt \in Nat \ {0} /\ time \in Nat /\ step \in Nat
  BY RunFacts DEF Bp5TypeOK
<1>1. ASSUME NEW c \in Configs, Launch(c) PROVE StepNearTime'
  <2>1. time' = 0 /\ step' = 0 /\ run' = c /\ c.clock.dt \in Nat
    BY <1>1, ConfigsAssumption DEF Launch, Policies
  <2>2. 0 * c.clock.dt = 0
    BY <2>1
  <2> QED
    BY <2>1, <2>2 DEF StepNearTime
<1>2. CASE LoadRestart
  <2>1. NearestStep(ClockLoaded, run.clock.dt) /\ ClockLoaded.ok
    BY <1>2, LoadedClock DEF LoadRestart
  <2>2. /\ 2 * ClockLoaded.time - run.clock.dt <= 2 * (ClockLoaded.step * run.clock.dt)
        /\ 2 * (ClockLoaded.step * run.clock.dt) <= 2 * ClockLoaded.time + run.clock.dt
    BY <2>1 DEF NearestStep
  <2>3. time' = ClockLoaded.time /\ step' = ClockLoaded.step /\ run' = run
    BY <1>2 DEF LoadRestart
  <2> QED
    BY <2>2, <2>3, Zenon DEF StepNearTime
<1>3. CASE Advance
  <2>1. (step + 1) * run.clock.dt = step * run.clock.dt + run.clock.dt
    <3>1. \A d \in Nat, q \in Nat : (q + 1) * d = q * d + d
      BY Z3
    <3> QED
      BY <1>f, <3>1
  <2>2. step * run.clock.dt \in Nat
    BY <1>f
  <2>3. /\ 2 * time - run.clock.dt <= 2 * (step * run.clock.dt)
        /\ 2 * (step * run.clock.dt) <= 2 * time + run.clock.dt
    BY <1>3 DEF StepNearTime, Advance, Over
  <2>4. time' = time + run.clock.dt /\ step' = step + 1 /\ run' = run
    BY <1>3 DEF Advance
  <2> DEFINE w == step * run.clock.dt
             d == run.clock.dt
  <2>5. step' * run'.clock.dt = w + d /\ run'.clock.dt = d
    BY <2>1, <2>4
  <2> HIDE DEF w
  <2>6. w \in Nat /\ 2 * time - d <= 2 * w /\ 2 * w <= 2 * time + d
    BY <2>2, <2>3 DEF w
  <2>7. /\ 2 * (time + d) - d <= 2 * (w + d)
        /\ 2 * (w + d) <= 2 * (time + d) + d
    BY <1>f, <2>6
  <2> QED
    BY <2>4, <2>5, <2>7 DEF StepNearTime
<1>4. CASE \/ RestartRefused \/ CodecMissing \/ PathRefused \/ OpenFails
           \/ Close \/ Throw \/ Crash
  BY <1>4 DEF RestartRefused, CodecMissing, PathRefused, OpenFails, Refuse, Close, Throw,
              Crash, StepNearTime, Over
<1>5. CASE \/ DefineCodec \/ PreparePath \/ OpenDataset \/ BeginRun \/ WriteInitial
           \/ WriteOutput \/ Store \/ AllRunsOver \/ UNCHANGED vars
  <2>1. /\ time' = time /\ step' = step /\ run' = run
        /\ loop \in Over => loop' \in Over
    BY <1>5, Zenon DEF DefineCodec, PreparePath, OpenDataset, BeginRun, WriteInitial, WriteOutput, Store,
                AllRunsOver, vars, clock, Over
  <2> QED
    BY <2>1, Zenon DEF StepNearTime, Over
<1> QED
  BY <1>1, <1>2, <1>3, <1>4, <1>5 DEF Next

(* However a run got its clock, by a restart with another dt or an opt-in,     *)
(* its step stays the one nearest to its time.                              *)
THEOREM StepFollowsTime == Spec => []StepNearTime
<1>1. Init => Bp5TypeOK /\ StepNearTime
  BY TypeInitially, StepInitially
<1>2. Bp5TypeOK /\ StepNearTime /\ [Next]_vars => (Bp5TypeOK /\ StepNearTime)'
  BY TypePreserved, StepPreserved
<1> QED
  BY <1>1, <1>2, PTL DEF Spec

---------------------------------------------------------------------------------
(* What no run may lose.                                                    *)
LEMMA PrefixOfItself ==
  ASSUME NEW s PROVE Len(s) \in Nat => IsPrefix(s, s)
BY DEF IsPrefix

LEMMA PrefixOfConcat ==
  ASSUME NEW S, NEW s \in Seq(S), NEW t \in Seq(S)
  PROVE  IsPrefix(s, s \o t)
<1>1. Len(s \o t) = Len(s) + Len(t) /\ Len(s) \in Nat /\ Len(t) \in Nat
  BY ConcatProperties, LenProperties
<1>2. CASE Len(s) = 0
  <2>1. SubSeq(s, 1, Len(s)) = <<>> /\ SubSeq(s \o t, 1, Len(s)) = <<>>
    BY <1>2, SubSeqEmpty
  <2> QED
    BY <1>1, <2>1 DEF IsPrefix
<1>3. CASE Len(s) # 0
  <2>1. 1 \in 1..Len(s) /\ Len(s) \in 1..Len(s)
    BY <1>1, <1>3
  <2>2. SubSeq(s \o t, 1, Len(s)) = SubSeq(s, 1, Len(s))
    BY <2>1, SubSeqOfConcat1
  <2> QED
    BY <1>1, <2>2 DEF IsPrefix
<1> QED
  BY <1>2, <1>3

LEMMA PrefixOfAppend ==
  ASSUME NEW S, NEW s \in Seq(S), NEW e \in S
  PROVE  IsPrefix(s, Append(s, e))
<1>1. Append(s, e) = s \o <<e>> /\ <<e>> \in Seq(S)
  BY AppendIsConcat
<1> QED
  BY <1>1, PrefixOfConcat

LEMMA EmptyIsPrefix ==
  ASSUME NEW S, NEW t \in Seq(S)
  PROVE  IsPrefix(<<>>, t)
<1>1. Len(<<>>) = 0 /\ Len(t) \in Nat
  BY EmptySeq, LenProperties
<1>2. SubSeq(<<>>, 1, 0) = <<>> /\ SubSeq(t, 1, 0) = <<>>
  BY SubSeqEmpty
<1> QED
  BY <1>1, <1>2 DEF IsPrefix

(* A run that is about to open its dataset has passed the checks, and unless   *)
(* it appends there is nothing left to lose.                                *)
Checked ==
  /\ \A d \in Datasets \ present : disk[d] = <<>>
  /\ loop \in {"path", "open"} => run.codec
  /\ loop = "open" => (run.existing # "append" => disk[Target] = <<>>)
  /\ loop \in InLoop => Target \in present
  /\ pending # <<>> => loop \in InLoop

LEMMA CheckedInitially == Init => Checked
<1> SUFFICES ASSUME Init PROVE Checked
  OBVIOUS
<1>1. PICK f \in Found : present = f.present /\ disk = f.disk
  BY DEF Init
<1> QED
  BY <1>1, FoundAssumption DEF Init, Checked, InLoop

(* What Write does to the datasets: only the target grows.                   *)
LEMMA WriteKeeps ==
  ASSUME Bp5TypeOK, Write, NEW d \in Datasets
  PROVE  IsPrefix(disk[d], disk'[d])
<1>1. Entry(time, step, run) \in Entries /\ Target \in Datasets
  BY EntryType, RunFacts DEF Bp5TypeOK
<1>2. disk \in [Datasets -> Seq(Entries)] /\ Len(disk[d]) \in Nat
  BY LenProperties DEF Bp5TypeOK
<1>3. disk'[d] = disk[d] \/ disk'[d] = Append(disk[d], Entry(time, step, run))
  BY <1>1, <1>2 DEF Write, files
<1> QED
  BY <1>1, <1>2, <1>3, PrefixOfItself, PrefixOfAppend

LEMMA CheckedPreserved == Bp5TypeOK /\ Checked /\ [Next]_vars => Checked'
<1> SUFFICES ASSUME Bp5TypeOK, Checked, [Next]_vars PROVE Checked'
  OBVIOUS
<1>f. Target \in Datasets /\ disk \in [Datasets -> Seq(Entries)] /\ present \subseteq Datasets
  BY RunFacts DEF Bp5TypeOK
<1>1. ASSUME NEW c \in Configs, Launch(c) PROVE Checked'
  BY <1>1 DEF Launch, Checked, files, InLoop
<1>2. CASE \/ LoadRestart \/ RestartRefused \/ CodecMissing \/ PathRefused \/ OpenFails
           \/ DefineCodec \/ BeginRun \/ Advance \/ Crash \/ AllRunsOver \/ UNCHANGED vars
  BY <1>2 DEF LoadRestart, RestartRefused, CodecMissing, PathRefused, OpenFails, Refuse,
              DefineCodec, BeginRun, Advance, Crash, AllRunsOver, Checked, vars, files, Target, InLoop
<1>3. CASE PreparePath
  <2>1. CASE run.existing = "replace"
    BY <1>f, <1>3, <2>1 DEF PreparePath, Cleared, Checked, Target, InLoop
  <2>2. CASE run.existing # "replace"
    <3>1. run.existing # "append" => disk[Target] = <<>>
      <4>1. run.existing \in {"error", "replace", "append"}
        BY ConfigsAssumption DEF Bp5TypeOK
      <4>2. run.existing = "error" => Target \notin present
        BY <1>3 DEF PreparePath, PathAccepted
      <4> QED
        BY <1>f, <2>2, <4>1, <4>2 DEF Checked
    <3> QED
      BY <1>3, <2>2, <3>1 DEF PreparePath, Checked, files, Target, InLoop
  <2> QED
    BY <2>1, <2>2
<1>4. CASE OpenDataset
  BY <1>f, <1>4 DEF OpenDataset, Cleared, Checked, Target, InLoop
<1>5. CASE WriteInitial \/ WriteOutput \/ Store \/ Close \/ Throw
  <2>1. /\ present' = present
        /\ loop' \notin {"path", "open"}
        /\ \A d \in Datasets : d # Target => disk'[d] = disk[d]
    BY <1>f, <1>5 DEF WriteInitial, WriteOutput, Write, Store, Close, Throw, Flushed, files, Checked, InLoop
  <2>2. loop \in InLoop /\ Target \in present /\ run' = run
    BY <1>5 DEF WriteInitial, WriteOutput, Store, Close, Throw, Checked, InLoop
  <2>3. loop' \in InLoop \/ pending' = <<>>
    BY <1>5, <2>2 DEF WriteInitial, WriteOutput, Store, Close, Throw, InLoop
  <2> QED
    BY <1>f, <2>1, <2>2, <2>3 DEF Checked, Target
<1> QED
  BY <1>1, <1>2, <1>3, <1>4, <1>5 DEF Next

LEMMA StepKeepsHistory ==
  ASSUME Bp5TypeOK, Checked, [Next]_vars, NEW d \in Datasets
  PROVE  \/ IsPrefix(disk[d], disk'[d])
         \/ /\ run.existing = "replace" /\ run.codec
            /\ d = Target
            /\ run.restart => d # Source
<1>f. /\ disk[d] \in Seq(Entries) /\ Len(disk[d]) \in Nat
      /\ disk \in [Datasets -> Seq(Entries)] /\ pending \in Seq(Entries)
      /\ Target \in Datasets
  BY RunFacts, LenProperties DEF Bp5TypeOK
<1>1. CASE disk' = disk
  BY <1>f, <1>1, PrefixOfItself
<1>2. CASE WriteInitial \/ WriteOutput
  BY <1>2, WriteKeeps DEF WriteInitial, WriteOutput
<1>3. CASE Store
  <2>1. Head(pending) \in Entries
    BY <1>f, <1>3, HeadTailProperties DEF Store
  <2>2. disk'[d] = disk[d] \/ disk'[d] = Append(disk[d], Head(pending))
    BY <1>f, <1>3 DEF Store
  <2> QED
    BY <1>f, <2>1, <2>2, PrefixOfItself, PrefixOfAppend
<1>4. CASE Close \/ Throw
  <2>1. disk'[d] = disk[d] \/ disk'[d] = disk[d] \o pending
    BY <1>f, <1>4 DEF Close, Throw, Flushed
  <2> QED
    BY <1>f, <2>1, PrefixOfItself, PrefixOfConcat
<1>5. CASE PreparePath
  <2>1. run.existing # "replace" => disk' = disk
    BY <1>5 DEF PreparePath, files
  <2>2. d # Target => disk'[d] = disk[d]
    BY <1>f, <1>5 DEF PreparePath, files, Cleared
  <2>3. run.existing = "replace" => run.codec /\ (run.restart => Target # Source)
    BY <1>5 DEF PreparePath, PathAccepted, SourceRules, Checked, Target, Source
  <2> QED
    BY <1>f, <2>1, <2>2, <2>3, PrefixOfItself
<1>6. CASE OpenDataset
  <2>1. run.existing = "append" => disk' = disk
    BY <1>6 DEF OpenDataset
  <2>2. run.existing # "append" => disk[Target] = <<>> /\ disk' = [disk EXCEPT ![Target] = <<>>]
    BY <1>6 DEF OpenDataset, Cleared, Checked
  <2>3. disk'[d] = disk[d]
    BY <1>f, <2>1, <2>2
  <2> QED
    BY <1>f, <2>3, PrefixOfItself
<1> QED
  BY <1>1, <1>2, <1>3, <1>4, <1>5, <1>6
     DEF Next, Launch, LoadRestart, RestartRefused, DefineCodec, CodecMissing, PathRefused,
         OpenFails, Refuse, BeginRun, Advance, Crash, AllRunsOver, files, vars

(* No step of any run loses a step of a dataset, except that of a run which    *)
(* was told to replace the dataset, has its codec and did not restart from it:  *)
(* not append, not a symbolic link, not a restart that fails.                *)
THEOREM NoHistoryLost == Spec => HistoryKept
<1>1. Init => Bp5TypeOK /\ Checked
  BY TypeInitially, CheckedInitially
<1>2. Bp5TypeOK /\ Checked /\ [Next]_vars => (Bp5TypeOK /\ Checked)'
  BY TypePreserved, CheckedPreserved
<1>3. Bp5TypeOK /\ Checked /\ [Next]_vars
        => [\A d \in Datasets :
              \/ IsPrefix(disk[d], disk'[d])
              \/ /\ run.existing = "replace" /\ run.codec
                 /\ d = Target
                 /\ run.restart => d # Source]_vars
  BY StepKeepsHistory, Zenon
<1> QED
  BY <1>1, <1>2, <1>3, PTL DEF Spec, HistoryKept

---------------------------------------------------------------------------------
(* The order of the steps of a dataset.                                     *)
Before(s, t) == \A i \in 1..Len(s) : TimeOf(s[i]) < t
UpTo(s, t) == \A i \in 1..Len(s) : TimeOf(s[i]) <= t

LEMMA TimeIsInt ==
  ASSUME NEW s \in Seq(Entries), NEW i \in 1..Len(s)
  PROVE  TimeOf(s[i]) \in Int
<1>1. s[i] \in Entries
  BY ElementOfSeq
<1> QED
  BY <1>1 DEF TimeOf, Entries, Metadata

(* A later step keeps the order.                                            *)
LEMMA AppendLater ==
  ASSUME NEW s \in Seq(Entries), NEW e \in Entries, Increasing(s), Before(s, TimeOf(e))
  PROVE  Increasing(Append(s, e)) /\ UpTo(Append(s, e), TimeOf(e))
<1> DEFINE t == Append(s, e)
<1>1. /\ Len(s) \in Nat /\ Len(t) = Len(s) + 1
      /\ \A i \in 1..Len(s) : t[i] = s[i]
      /\ t[Len(s) + 1] = e
  BY AppendProperties, LenProperties
<1> HIDE DEF t
<1>2. ASSUME NEW i \in 1..Len(t), NEW j \in 1..Len(t), i < j
      PROVE  TimeOf(t[i]) < TimeOf(t[j])
  <2>1. i \in 1..Len(s) /\ t[i] = s[i]
    BY <1>1, <1>2
  <2>2. CASE j = Len(s) + 1
    BY <1>1, <2>1, <2>2 DEF Before
  <2>3. CASE j # Len(s) + 1
    <3>1. j \in 1..Len(s) /\ t[j] = s[j]
      BY <1>1, <2>3
    <3> QED
      BY <1>2, <2>1, <3>1 DEF Increasing
  <2> QED
    BY <2>2, <2>3
<1>3. ASSUME NEW i \in 1..Len(t) PROVE TimeOf(t[i]) <= TimeOf(e)
  <2>0. TimeOf(e) \in Int
    BY DEF TimeOf, Entries, Metadata
  <2>1. CASE i = Len(s) + 1
    BY <1>1, <2>0, <2>1
  <2>2. CASE i # Len(s) + 1
    <3>1. i \in 1..Len(s) /\ t[i] = s[i]
      BY <1>1, <2>2
    <3> QED
      BY <2>0, <3>1, TimeIsInt DEF Before
  <2> QED
    BY <2>1, <2>2
<1> QED
  BY <1>2, <1>3 DEF Increasing, UpTo, t

(* What is on storage of an ordered history is ordered.                      *)
LEMMA FrontIncreasing ==
  ASSUME NEW s \in Seq(Entries), NEW p \in Seq(Entries), Increasing(s \o p)
  PROVE  Increasing(s)
<1>1. /\ Len(s) \in Nat /\ Len(p) \in Nat /\ Len(s \o p) = Len(s) + Len(p)
      /\ \A i \in 1..Len(s) + Len(p) : (s \o p)[i] = IF i <= Len(s) THEN s[i] ELSE p[i - Len(s)]
  BY ConcatProperties, LenProperties
<1>2. \A i \in 1..Len(s) : i \in 1..Len(s \o p) /\ (s \o p)[i] = s[i]
  BY <1>1
<1> QED
  BY <1>2 DEF Increasing

LEMMA StoreKeepsOrder ==
  ASSUME NEW s \in Seq(Entries), NEW p \in Seq(Entries), p # <<>>
  PROVE  Append(s, Head(p)) \o Tail(p) = s \o p
<1>1. Head(p) \in Entries /\ Tail(p) \in Seq(Entries) /\ <<Head(p)>> \in Seq(Entries)
  BY HeadTailProperties
<1>2. p = <<Head(p)>> \o Tail(p)
  <2>1. Len(p) \in Nat \ {0} /\ Len(Tail(p)) = Len(p) - 1
        /\ \A i \in 1..Len(Tail(p)) : Tail(p)[i] = p[i + 1]
    BY EmptySeq, HeadTailProperties
  <2> DEFINE q == <<Head(p)>> \o Tail(p)
  <2>2. /\ q \in Seq(Entries) /\ Len(q) = 1 + Len(Tail(p))
        /\ \A i \in 1..1 + Len(Tail(p)) :
             q[i] = IF i <= 1 THEN <<Head(p)>>[i] ELSE Tail(p)[i - 1]
    BY <1>1, ConcatProperties, Len(<<Head(p)>>) = 1
  <2>3. Head(p) = p[1]
    BY <2>1
  <2> HIDE DEF q
  <2>4. ASSUME NEW i \in 1..Len(p) PROVE p[i] = q[i]
    <3>1. CASE i = 1
      BY <2>1, <2>2, <2>3, <3>1
    <3>2. CASE i # 1
      BY <2>1, <2>2, <3>2
    <3> QED
      BY <3>1, <3>2
  <2> QED
    BY <2>1, <2>2, <2>4, SeqEqual DEF q
<1>3. Append(s, Head(p)) = s \o <<Head(p)>>
  BY <1>1, AppendIsConcat
<1>4. (s \o <<Head(p)>>) \o Tail(p) = s \o (<<Head(p)>> \o Tail(p))
  BY <1>1, ConcatAssociative
<1> QED
  BY <1>2, <1>3, <1>4

LEMMA SubmitKeepsOrder ==
  ASSUME NEW s \in Seq(Entries), NEW p \in Seq(Entries), NEW e \in Entries
  PROVE  s \o Append(p, e) = Append(s \o p, e)
<1>1. <<e>> \in Seq(Entries) /\ s \o p \in Seq(Entries)
  BY ConcatProperties
<1>2. Append(p, e) = p \o <<e>> /\ Append(s \o p, e) = (s \o p) \o <<e>>
  BY <1>1, AppendIsConcat
<1> QED
  BY <1>1, <1>2, ConcatAssociative

(* Outside of the loop nothing is pending.                                  *)
LEMMA WrittenIdle ==
  ASSUME Bp5TypeOK, pending = <<>>, NEW d \in Datasets
  PROVE  Written(d) = disk[d]
<1>1. disk[d] \in Seq(Entries)
  BY DEF Bp5TypeOK
<1>2. disk[d] \o <<>> = disk[d]
  BY <1>1, ConcatEmptySeq
<1> QED
  BY <1>2 DEF Written

(* Where the loop is says how far the target has come.                       *)
Advancing ==
  /\ HistoryAdvances
  /\ ~run.async => pending = <<>>
  /\ loop \in {"setup", "initial"} => pending = <<>>
  /\ (loop \in {"construct", "path", "open"} /\ run.restart /\ run.step_index = -1)
       => UpTo(disk[Source], time) \/ run.existing # "append"
  /\ loop = "open" => SourceRules(run)
  /\ loop = "setup" => UpTo(disk[Target], time) /\ (run.initial => disk[Target] = <<>>)
  /\ loop = "initial" => disk[Target] = <<>>
  /\ loop = "step" => UpTo(Written(Target), time)
  /\ loop = "output" => Before(Written(Target), time)

LEMMA AdvancingInitially == Init => Advancing
<1> SUFFICES ASSUME Init PROVE Advancing
  OBVIOUS
<1>1. PICK f \in Found : present = f.present /\ disk = f.disk
  BY DEF Init
<1>2. \A d \in Datasets : Increasing(disk[d])
  BY <1>1, FoundAssumption DEF Increasing
<1>3. HistoryAdvances
  BY <1>2 DEF HistoryAdvances, Written, Init, Over
<1> QED
  BY <1>3 DEF Init, Advancing

(* A step written to the running dataset comes last, and the other datasets     *)
(* keep theirs.                                                            *)
LEMMA WriteAppends ==
  ASSUME Bp5TypeOK, ~run.async => pending = <<>>, Write,
         run' = run, loop \in InLoop, loop' \in InLoop
  PROVE  /\ Written(Target) \in Seq(Entries)
         /\ Written(Target)' = Append(Written(Target), Entry(time, step, run))
         /\ \A d \in Datasets : d # Target => Written(d)' = Written(d)
<1> DEFINE e == Entry(time, step, run)
<1>f. /\ Target \in Datasets /\ disk[Target] \in Seq(Entries)
      /\ disk \in [Datasets -> Seq(Entries)] /\ pending \in Seq(Entries)
  BY RunFacts DEF Bp5TypeOK
<1>e. e \in Entries /\ TimeOf(e) = time
  BY EntryType DEF Bp5TypeOK
<1>t. Target' = Target
  BY DEF Target
<1>l. loop \notin Over /\ loop' \notin Over
  BY DEF InLoop, Over
<1> HIDE DEF e
<1>w. Written(Target) = disk[Target] \o pending /\ Written(Target) \in Seq(Entries)
  BY <1>f, <1>l, ConcatProperties DEF Written
<1>1. Written(Target)' = Append(Written(Target), e)
  <2>1. CASE run.async
    <3>1. Written(Target)' = disk[Target] \o Append(pending, e)
      BY <1>l, <1>t, <2>1 DEF Write, Written, files, e
    <3> QED
      BY <1>f, <1>e, <1>w, <3>1, SubmitKeepsOrder
  <2>2. CASE ~run.async
    <3>1. disk'[Target] = Append(disk[Target], e) /\ pending' = <<>> /\ pending = <<>>
      BY <1>f, <2>2 DEF Write, e
    <3>2. Append(disk[Target], e) \in Seq(Entries)
      BY <1>e, <1>f, AppendProperties
    <3>3. Written(Target)' = Append(disk[Target], e)
      BY <1>l, <1>t, <3>1, <3>2, ConcatEmptySeq DEF Written
    <3>4. Written(Target) = disk[Target]
      BY <1>f, <1>w, <3>1, ConcatEmptySeq
    <3> QED
      BY <3>3, <3>4
  <2> QED
    BY <2>1, <2>2
<1>2. ASSUME NEW d \in Datasets, d # Target PROVE Written(d)' = Written(d)
  BY <1>2, <1>f, <1>t DEF Write, Written, files
<1> QED
  BY <1>w, <1>1, <1>2 DEF e

(* The order of the steps is kept, and the new one is the last.               *)
LEMMA WriteGrows ==
  ASSUME Bp5TypeOK, HistoryAdvances, ~run.async => pending = <<>>, Write,
         run' = run, loop \in InLoop, loop' \in InLoop, time' = time,
         Before(Written(Target), time)
  PROVE  /\ HistoryAdvances'
         /\ ~run'.async => pending' = <<>>
         /\ UpTo(Written(Target), time)'
<1> DEFINE e == Entry(time, step, run)
<1>e. e \in Entries /\ TimeOf(e) = time
  BY EntryType DEF Bp5TypeOK
<1>t. Target' = Target /\ Target \in Datasets
  BY RunFacts DEF Target, Bp5TypeOK
<1>1. /\ Written(Target) \in Seq(Entries)
      /\ Written(Target)' = Append(Written(Target), e)
      /\ \A d \in Datasets : d # Target => Written(d)' = Written(d)
  BY WriteAppends
<1> HIDE DEF e
<1>3. Increasing(Written(Target))
  BY <1>t DEF HistoryAdvances
<1>4. Increasing(Append(Written(Target), e)) /\ UpTo(Append(Written(Target), e), time)
  BY <1>e, <1>1, <1>3, AppendLater
<1>5. ASSUME NEW d \in Datasets PROVE Increasing(Written(d)')
  <2>1. CASE d = Target
    BY <1>1, <1>4, <2>1, <1>t
  <2>2. CASE d # Target
    BY <1>1, <2>2 DEF HistoryAdvances
  <2> QED
    BY <2>1, <2>2
<1>6. HistoryAdvances'
  BY <1>5 DEF HistoryAdvances, Increasing
<1>7. UpTo(Written(Target), time)'
  BY <1>1, <1>4 DEF UpTo
<1>8. ~run'.async => pending' = <<>>
  BY DEF Write
<1> QED
  BY <1>6, <1>7, <1>8

(* A step that ADIOS2 stores moves from what is pending to the dataset.         *)
LEMMA StoreKeepsWritten ==
  ASSUME Bp5TypeOK, Store, loop \notin Over
  PROVE  Target' = Target /\ \A d \in Datasets : Written(d)' = Written(d)
<1>f. Target \in Datasets /\ disk \in [Datasets -> Seq(Entries)] /\ pending \in Seq(Entries)
  BY RunFacts DEF Bp5TypeOK
<1>1. /\ pending # <<>> /\ loop' = loop /\ Target' = Target
      /\ disk' = [disk EXCEPT ![Target] = Append(@, Head(pending))]
      /\ pending' = Tail(pending)
  BY DEF Store, Target
<1>2. Written(Target)' = Written(Target)
  <2>1. Written(Target)' = Append(disk[Target], Head(pending)) \o Tail(pending)
    BY <1>f, <1>1 DEF Written
  <2>2. Written(Target) = disk[Target] \o pending
    BY DEF Written
  <2> QED
    BY <1>f, <1>1, <2>1, <2>2, StoreKeepsOrder
<1>3. ASSUME NEW d \in Datasets, d # Target PROVE Written(d)' = Written(d)
  BY <1>f, <1>1, <1>3 DEF Written
<1> QED
  BY <1>1, <1>2, <1>3

(* The time of the last step of a dataset.                                    *)
LastTime(s) == TimeOf(s[Len(s)])

(* The clock a restart from the last step of a dataset resolves is that       *)
(* step's.                                                                 *)
LEMMA LoadedTime ==
  ASSUME Bp5TypeOK, ClockLoaded.ok, run.step_index = -1
  PROVE  Len(disk[Source]) > 0 /\ ClockLoaded.time = LastTime(disk[Source])
<1> DEFINE s == disk[Source]
           k == resolve_step(run, Len(s))
<1>1. /\ k \in 1..Len(s)
      /\ ClockLoaded = resolve_restart_time(s[k].meta, run.clock, -1)
      /\ s[k].meta \in Metadata
  BY LoadedClock
<1>2. k = Len(s)
  BY DEF resolve_step
<1>3. run.clock \in Policies /\ s \in Seq(Entries) /\ Len(s) \in Nat
  BY RunFacts, LenProperties DEF Bp5TypeOK
<1>4. s[k] \in Entries
  BY <1>1, <1>3, ElementOfSeq
<1>5. s[k].meta.has_time
  BY <1>4 DEF Entries
<1>6. FileTimeStands(ClockLoaded, s[k].meta)
  BY <1>1, <1>3, StoredTimeStands
<1>7. ClockLoaded.time = TimeOf(s[k])
  BY <1>5, <1>6 DEF FileTimeStands, TimeOf
<1>8. Len(s) > 0
  BY <1>1, <1>3
<1> QED
  BY <1>2, <1>7, <1>8 DEF LastTime

(* No step of that dataset is later.                                         *)
LEMMA LoadedIsLast ==
  ASSUME Bp5TypeOK, ClockLoaded.ok, run.step_index = -1, Increasing(disk[Source])
  PROVE  UpTo(disk[Source], ClockLoaded.time)
<1> DEFINE s == disk[Source]
           k == Len(s)
<1>1. s \in Seq(Entries) /\ k \in Nat /\ k > 0 /\ ClockLoaded.time = TimeOf(s[k])
  BY RunFacts, LenProperties, LoadedTime DEF Bp5TypeOK, LastTime
<1>2. k \in 1..Len(s)
  BY <1>1
<1> HIDE DEF s
<1>3. ASSUME NEW i \in 1..Len(s) PROVE TimeOf(s[i]) <= TimeOf(s[k])
  <2>1. TimeOf(s[i]) \in Int /\ TimeOf(s[k]) \in Int
    BY <1>1, <1>2, TimeIsInt
  <2>2. CASE i = k
    BY <2>1, <2>2
  <2>3. CASE i # k
    <3>1. i < k
      BY <1>1, <2>3
    <3>2. TimeOf(s[i]) < TimeOf(s[k])
      BY <1>2, <3>1 DEF Increasing, s
    <3> QED
      BY <2>1, <3>2
  <2> QED
    BY <2>2, <2>3
<1> QED
  BY <1>1, <1>3 DEF UpTo, s

(* The written steps are the same while nothing moves between the dataset,    *)
(* what is pending and the run.                                             *)
LEMMA WrittenKept ==
  ASSUME Bp5TypeOK, HistoryAdvances, disk' = disk, pending' = pending, run' = run,
         pending = <<>> \/ (loop \notin Over /\ loop' \notin Over)
  PROVE  HistoryAdvances' /\ \A d \in Datasets : Written(d)' = Written(d)
<1>1. ASSUME NEW d \in Datasets PROVE Written(d)' = Written(d)
  <2>1. disk[d] \in Seq(Entries)
    BY DEF Bp5TypeOK
  <2>2. CASE pending = <<>>
    BY <2>1, <2>2, ConcatEmptySeq DEF Written
  <2>3. CASE loop \notin Over /\ loop' \notin Over
    BY <2>3 DEF Written, Target
  <2> QED
    BY <2>2, <2>3
<1>2. HistoryAdvances'
  BY <1>1 DEF HistoryAdvances, Increasing
<1> QED
  BY <1>1, <1>2

(* What is stored of an ordered history is ordered, in part or as a whole.    *)
LEMMA IdleAdvances ==
  ASSUME Bp5TypeOK, HistoryAdvances, pending' = <<>>, loop \notin Over, loop' \in Over,
         disk' = disk \/ disk' = Flushed
  PROVE  HistoryAdvances'
<1>1. ASSUME NEW d \in Datasets PROVE Increasing(disk'[d])
  <2>1. /\ disk[d] \in Seq(Entries) /\ pending \in Seq(Entries)
        /\ disk \in [Datasets -> Seq(Entries)] /\ Increasing(Written(d))
    BY DEF Bp5TypeOK, HistoryAdvances
  <2>2. Increasing(disk[d])
    BY <2>1, FrontIncreasing DEF Written
  <2>3. Flushed[d] = Written(d)
    BY <2>1 DEF Flushed, Written
  <2> QED
    BY <2>1, <2>2, <2>3
<1>2. ASSUME NEW d \in Datasets PROVE Written(d)' = disk'[d]
  BY DEF Written
<1> QED
  BY <1>1, <1>2 DEF HistoryAdvances, Increasing

LEMMA AdvancingPreserved ==
  Bp5TypeOK /\ Checked /\ Advancing /\ [Next]_vars => Advancing'
<1> SUFFICES ASSUME Bp5TypeOK, Checked, Advancing, [Next]_vars PROVE Advancing'
  OBVIOUS
<1>f. /\ Target \in Datasets /\ Source \in Datasets
      /\ disk \in [Datasets -> Seq(Entries)] /\ pending \in Seq(Entries)
      /\ HistoryAdvances
  BY RunFacts DEF Bp5TypeOK, Advancing
<1>p. loop \notin InLoop => pending = <<>>
  BY DEF Checked
<1>1. ASSUME NEW c \in Configs, Launch(c) PROVE Advancing'
  <2>1. pending = <<>> /\ pending' = <<>> /\ disk' = disk
    BY <1>1, <1>p DEF Launch, Over, InLoop, files
  <2>2. ASSUME NEW d \in Datasets PROVE Increasing(Written(d)')
    <3>1. disk[d] \in Seq(Entries) /\ Increasing(disk[d])
      BY <1>f, <2>1, WrittenIdle DEF HistoryAdvances
    <3>2. Written(d)' = disk[d]
      BY <2>1, <3>1, ConcatEmptySeq DEF Written
    <3> QED
      BY <3>1, <3>2
  <2>3. HistoryAdvances'
    BY <2>2 DEF HistoryAdvances, Increasing
  <2> QED
    BY <1>1, <2>1, <2>3 DEF Launch, Advancing
<1>2. CASE LoadRestart
  <2>1. pending = <<>> /\ pending' = <<>> /\ disk' = disk /\ run' = run
    BY <1>2, <1>p DEF LoadRestart, InLoop, files
  <2>2. HistoryAdvances' /\ Increasing(disk[Source])
    BY <1>f, <2>1, WrittenKept, WrittenIdle DEF HistoryAdvances
  <2>3. run.step_index = -1 => UpTo(disk[Source], ClockLoaded.time)
    BY <1>2, <2>2, LoadedIsLast DEF LoadRestart
  <2>4. time' = ClockLoaded.time /\ loop' = "construct" /\ Source' = Source
    BY <1>2, <2>1 DEF LoadRestart, Source
  <2> QED
    BY <2>1, <2>2, <2>3, <2>4 DEF Advancing, UpTo
<1>3. CASE RestartRefused \/ CodecMissing \/ PathRefused \/ OpenFails
  <2>1. pending = <<>> /\ pending' = <<>> /\ disk' = disk /\ run' = run /\ loop' = "refused"
    BY <1>3, <1>p DEF RestartRefused, CodecMissing, PathRefused, OpenFails, Refuse, InLoop, files
  <2>2. HistoryAdvances'
    BY <1>f, <2>1, WrittenKept
  <2> QED
    BY <2>1, <2>2 DEF Advancing
<1>4. CASE DefineCodec
  <2>1. /\ pending = <<>> /\ pending' = <<>> /\ disk' = disk /\ run' = run /\ time' = time
        /\ loop = "construct" /\ loop' = "path" /\ Source' = Source
    BY <1>4, <1>p DEF DefineCodec, InLoop, files, clock, Source
  <2>2. HistoryAdvances'
    BY <1>f, <2>1, WrittenKept
  <2> QED
    BY <2>1, <2>2 DEF Advancing, UpTo
<1>5. CASE PreparePath
  <2>1. /\ pending = <<>> /\ pending' = <<>> /\ run' = run /\ time' = time
        /\ loop = "path" /\ loop' = "open" /\ Source' = Source /\ Target' = Target
        /\ SourceRules(run)
    BY <1>5, <1>p DEF PreparePath, PathAccepted, InLoop, clock, Source, Target
  <2>2. ASSUME NEW d \in Datasets PROVE disk'[d] = disk[d] \/ disk'[d] = <<>>
    BY <1>f, <1>5 DEF PreparePath, files, Cleared
  <2>3. ASSUME NEW d \in Datasets PROVE disk'[d] \in Seq(Entries) /\ Increasing(disk'[d])
    <3>1. disk[d] \in Seq(Entries) /\ Increasing(disk[d])
      BY <1>f, <2>1, WrittenIdle DEF HistoryAdvances
    <3>2. <<>> \in Seq(Entries) /\ Increasing(<<>>)
      BY EmptySeq DEF Increasing
    <3> QED
      BY <2>2, <3>1, <3>2
  <2>4. ASSUME NEW d \in Datasets PROVE Written(d)' = disk'[d]
    BY <2>1, <2>3, ConcatEmptySeq DEF Written
  <2>5. HistoryAdvances'
    BY <2>3, <2>4 DEF HistoryAdvances, Increasing
  <2>6. run.existing = "append" => disk' = disk
    BY <1>5 DEF PreparePath, files
  <2>7. SourceRules(run')
    BY <2>1 DEF SourceRules
  <2> QED
    BY <2>1, <2>5, <2>6, <2>7 DEF Advancing, UpTo
<1>6. CASE OpenDataset
  <2>1. /\ pending = <<>> /\ pending' = <<>> /\ run' = run /\ time' = time
        /\ loop = "open" /\ loop' = "setup" /\ Target' = Target
        /\ SourceRules(run)
    BY <1>6, <1>p DEF OpenDataset, InLoop, Target, Advancing
  <2>2. disk' = disk
    <3>1. run.existing # "append" => disk[Target] = <<>>
      BY <2>1 DEF Checked
    <3> QED
      BY <1>f, <1>6, <3>1 DEF OpenDataset, Cleared
  <2>3. HistoryAdvances'
    BY <1>f, <2>1, <2>2, WrittenKept
  <2>4. CASE run.existing = "append"
    <3>1. run.restart /\ run.step_index = -1 /\ ~run.initial /\ Source = Target
      BY <2>1, <2>4 DEF SourceRules, Source, Target
    <3>2. UpTo(disk[Target], time)
      BY <2>1, <2>4, <3>1 DEF Advancing
    <3> QED
      BY <2>1, <2>2, <2>3, <3>1, <3>2 DEF Advancing, UpTo
  <2>5. CASE run.existing # "append"
    <3>1. disk[Target] = <<>> /\ UpTo(disk[Target], time)
      BY <2>1, <2>5 DEF Checked, UpTo
    <3> QED
      BY <2>1, <2>2, <2>3, <3>1 DEF Advancing, UpTo
  <2> QED
    BY <2>4, <2>5
<1>7. CASE BeginRun
  <2>1. /\ pending = <<>> /\ pending' = <<>> /\ disk' = disk /\ run' = run /\ time' = time
        /\ loop = "setup" /\ Target' = Target
        /\ UpTo(disk[Target], time) /\ (run.initial => disk[Target] = <<>>)
    BY <1>7 DEF BeginRun, files, clock, Target, Advancing
  <2>2. HistoryAdvances' /\ Written(Target)' = disk[Target]
    BY <1>f, <2>1, WrittenKept, WrittenIdle
  <2>3. loop' = IF run.initial THEN "initial" ELSE "step"
    BY <1>7 DEF BeginRun
  <2> QED
    BY <2>1, <2>2, <2>3 DEF Advancing, UpTo
<1>8. CASE WriteInitial
  <2>1. /\ Write /\ run' = run /\ loop = "initial" /\ loop' = "step" /\ time' = time
        /\ pending = <<>> /\ disk[Target] = <<>>
    BY <1>8 DEF WriteInitial, clock, Advancing
  <2>2. Written(Target) = <<>>
    BY <1>f, <2>1, WrittenIdle
  <2>3. Before(Written(Target), time)
    BY <2>2 DEF Before
  <2>4. HistoryAdvances' /\ (~run'.async => pending' = <<>>) /\ UpTo(Written(Target), time)'
    BY <1>f, <2>1, <2>3, WriteGrows DEF InLoop
  <2> QED
    BY <2>1, <2>4 DEF Advancing
<1>9. CASE Advance
  <2>1. /\ disk' = disk /\ pending' = pending /\ run' = run /\ loop = "step"
        /\ loop' \in {"output", "step"} /\ time' = time + run.clock.dt /\ Target' = Target
        /\ UpTo(Written(Target), time)
    BY <1>9 DEF Advance, files, Target, Advancing
  <2>2. HistoryAdvances' /\ Written(Target)' = Written(Target)
    BY <1>f, <2>1, WrittenKept DEF Over
  <2>3. time \in Nat /\ run.clock.dt \in Nat \ {0}
    BY RunFacts DEF Bp5TypeOK
  <2>4. Written(Target) \in Seq(Entries)
    BY <1>f, ConcatProperties DEF Written
  <2>5. ASSUME NEW i \in 1..Len(Written(Target)) PROVE TimeOf(Written(Target)[i]) < time'
    <3>1. TimeOf(Written(Target)[i]) \in Int /\ TimeOf(Written(Target)[i]) <= time
      BY <2>1, <2>4, TimeIsInt DEF UpTo
    <3> QED
      BY <2>1, <2>3, <3>1
  <2>6. Before(Written(Target), time)'
    BY <2>2, <2>5 DEF Before
  <2>7. UpTo(Written(Target), time)'
    <3>1. ASSUME NEW i \in 1..Len(Written(Target)) PROVE TimeOf(Written(Target)[i]) <= time'
      <4>1. TimeOf(Written(Target)[i]) \in Int /\ time' \in Int
        BY <2>1, <2>3, <2>4, TimeIsInt
      <4> QED
        BY <2>5, <4>1
    <3> QED
      BY <2>2, <3>1 DEF UpTo
  <2> QED
    BY <2>1, <2>2, <2>6, <2>7 DEF Advancing
<1>10. CASE WriteOutput
  <2>1. /\ Write /\ run' = run /\ loop = "output" /\ loop' = "step" /\ time' = time
        /\ Before(Written(Target), time) /\ (~run.async => pending = <<>>)
    BY <1>10 DEF WriteOutput, Advancing
  <2>2. HistoryAdvances' /\ (~run'.async => pending' = <<>>) /\ UpTo(Written(Target), time)'
    BY <1>f, <2>1, WriteGrows DEF InLoop
  <2> QED
    BY <2>1, <2>2 DEF Advancing
<1>11. CASE Store
  <2>1. /\ pending # <<>> /\ run' = run /\ loop' = loop /\ time' = time /\ Target' = Target
        /\ loop \in {"step", "output"} /\ run.async
        /\ disk' = [disk EXCEPT ![Target] = Append(@, Head(pending))]
        /\ pending' = Tail(pending)
    BY <1>11, <1>p DEF Store, clock, Target, Advancing, InLoop
  <2>2. \A d \in Datasets : Written(d)' = Written(d)
    BY <1>11, <2>1, StoreKeepsWritten DEF Over
  <2>4. HistoryAdvances'
    BY <1>f, <2>1, <2>2 DEF HistoryAdvances, Increasing
  <2> QED
    BY <1>f, <2>1, <2>2, <2>4 DEF Advancing, UpTo, Before
<1>12. CASE Close \/ Throw \/ Crash
  <2>1. /\ pending' = <<>> /\ loop \notin Over /\ loop' \in {"closed", "broken"}
        /\ disk' = disk \/ disk' = Flushed
    BY <1>12 DEF Close, Throw, Crash, Over, InLoop, files
  <2>2. HistoryAdvances'
    BY <1>f, <2>1, IdleAdvances DEF Over
  <2> QED
    BY <2>1, <2>2 DEF Advancing
<1>13. CASE AllRunsOver \/ UNCHANGED vars
  <2>1. /\ disk' = disk /\ pending' = pending /\ run' = run /\ time' = time /\ loop' = loop
        /\ Target' = Target /\ Source' = Source
    BY <1>13 DEF AllRunsOver, vars, files, clock, Target, Source
  <2>2. pending = <<>> \/ (loop \notin Over /\ loop' \notin Over)
    BY <1>p, <2>1 DEF Over, InLoop
  <2>3. HistoryAdvances' /\ Written(Target)' = Written(Target)
    BY <1>f, <2>1, <2>2, WrittenKept
  <2>4. SourceRules(run) => SourceRules(run')
    BY <2>1
  <2> QED
    BY <2>1, <2>3, <2>4 DEF Advancing, UpTo, Before
<1> QED
  BY <1>1, <1>2, <1>3, <1>4, <1>5, <1>6, <1>7, <1>8, <1>9, <1>10, <1>11, <1>12, <1>13 DEF Next

(* The times of every dataset's steps increase, whatever series of runs wrote  *)
(* it: restarted, appended, replaced or broken off.                         *)
THEOREM StepsInOrder == Spec => []HistoryAdvances
<1>1. Init => Bp5TypeOK /\ Checked /\ Advancing
  BY TypeInitially, CheckedInitially, AdvancingInitially
<1>2. Bp5TypeOK /\ Checked /\ Advancing /\ [Next]_vars => (Bp5TypeOK /\ Checked /\ Advancing)'
  BY TypePreserved, CheckedPreserved, AdvancingPreserved
<1>3. Advancing => HistoryAdvances
  BY DEF Advancing
<1> QED
  BY <1>1, <1>2, <1>3, PTL DEF Spec

---------------------------------------------------------------------------------
(* No hole in the history.  The strengthening: while a run is set up its clock is *)
(* that of the step it was restarted from, if it appends, and in the loop the due *)
(* time is the multiple of the interval that follows the last step written.      *)
DueAfter(t) == (t \div run.interval + 1) * run.interval
Fine == run.clock.dt <= run.interval

Starting ==
  /\ loop = "load" => run.restart
  /\ loop \in {"construct", "path", "open"} =>
       /\ ~run.restart => time = 0
       /\ run.restart /\ run.step_index = -1 /\ run.existing = "append"
            => time = LastTime(disk[Source])

Scheduled ==
  /\ loop \in {"setup", "initial"} => next = DueAfter(time)
  /\ loop = "setup" /\ disk[Target] # <<>> => time = LastTime(disk[Target])
  /\ loop \in InLoop => \E k \in Nat : next = k * run.interval
  /\ loop \in {"step", "output"} /\ Fine /\ Written(Target) # <<>>
       => next = DueAfter(LastTime(Written(Target)))
  /\ loop = "step" /\ Fine => time < next
  /\ loop = "output" /\ Fine => next <= time /\ time < next + run.interval

(* A quotient is told by its bounds.                                         *)
LEMMA QuotientIs ==
  ASSUME NEW d \in Nat \ {0}, NEW x \in Nat, NEW q \in Int, q * d <= x, x < q * d + d
  PROVE  x \div d = q
<1> DEFINE y == q * d
           b == x - y
<1>1. y \in Int /\ y = d * q
  BY Z3
<1>2. b \in 0..d - 1 /\ x = d * q + b
  <2>1. y <= x /\ x < y + d
    OBVIOUS
  <2> HIDE DEF y
  <2> QED
    BY <1>1, <2>1
<1>3. ASSUME NEW a \in Int, NEW c \in 0..d - 1, x = d * a + c
      PROVE  x \div d = a
  BY <1>3, Z3
<1> HIDE DEF b
<1> QED
  BY <1>2, <1>3

LEMMA LastOfAppend ==
  ASSUME NEW s \in Seq(Entries), NEW e \in Entries
  PROVE  LastTime(Append(s, e)) = TimeOf(e) /\ Append(s, e) # <<>>
<1>1. /\ Append(s, e) \in Seq(Entries) /\ Len(s) \in Nat
      /\ Len(Append(s, e)) = Len(s) + 1 /\ Append(s, e)[Len(s) + 1] = e
  BY AppendProperties, LenProperties
<1>2. Append(s, e) # <<>>
  BY <1>1, EmptySeq
<1> QED
  BY <1>1, <1>2 DEF LastTime

LEMMA StartingPreserved ==
  Bp5TypeOK /\ Checked /\ Starting /\ [Next]_vars => Starting'
<1> SUFFICES ASSUME Bp5TypeOK, Checked, Starting, [Next]_vars PROVE Starting'
  OBVIOUS
<1>1. ASSUME NEW c \in Configs, Launch(c) PROVE Starting'
  BY <1>1 DEF Launch, Starting
<1>2. CASE LoadRestart
  <2>1. /\ run' = run /\ disk' = disk /\ loop' = "construct" /\ run.restart
        /\ time' = ClockLoaded.time /\ ClockLoaded.ok /\ Source' = Source
    BY <1>2 DEF LoadRestart, files, Source, Starting
  <2> QED
    BY <2>1, LoadedTime DEF Starting, LastTime
<1>3. CASE DefineCodec
  BY <1>3 DEF DefineCodec, files, clock, Source, Starting, LastTime
<1>4. CASE PreparePath
  BY <1>4 DEF PreparePath, files, clock, Source, Starting, LastTime
<1>5. CASE \/ RestartRefused \/ CodecMissing \/ PathRefused \/ OpenFails \/ OpenDataset
           \/ BeginRun \/ WriteInitial \/ Advance \/ WriteOutput \/ Store \/ Close \/ Throw
           \/ Crash
  <2>1. loop' \notin {"load", "construct", "path", "open"}
    BY <1>5 DEF RestartRefused, CodecMissing, PathRefused, OpenFails, Refuse, OpenDataset,
                BeginRun, WriteInitial, Advance, WriteOutput, Store, Close, Throw, Crash,
                Checked, InLoop
  <2> QED
    BY <2>1 DEF Starting
<1>6. CASE AllRunsOver \/ UNCHANGED vars
  BY <1>6 DEF AllRunsOver, vars, files, clock, Source, Starting, LastTime
<1> QED
  BY <1>1, <1>2, <1>3, <1>4, <1>5, <1>6 DEF Next

(* The first due time is the next multiple after the time the run starts at.    *)
LEMMA FirstDueIsNext ==
  ASSUME Bp5TypeOK, ~run.restart => time = 0
  PROVE  FirstDue(run, time) = DueAfter(time)
<1>1. run.interval \in Nat \ {0}
  BY RunFacts DEF Bp5TypeOK
<1>2. 0 \div run.interval = 0
  BY <1>1, QuotientIs
<1>3. (0 + 1) * run.interval = run.interval
  BY <1>1
<1> QED
  BY <1>2, <1>3 DEF FirstDue, DueAfter

(* A time lies before the multiple after it.                                  *)
LEMMA BeforeDue ==
  ASSUME Bp5TypeOK
  PROVE  time < DueAfter(time) /\ \E k \in Nat : DueAfter(time) = k * run.interval
<1> DEFINE I == run.interval
           q == time \div I
<1>1. I \in Nat \ {0} /\ time \in Nat
  BY RunFacts DEF Bp5TypeOK
<1>2. q \in Nat /\ time < q * I + I
  <2> HIDE DEF I
  <2> QED
    BY <1>1, QuotientBounds
<1> HIDE DEF q
<1>3. (q + 1) * I = q * I + I /\ q + 1 \in Nat
  <2> HIDE DEF I
  <2> QED
    BY <1>1, <1>2, Z3
<1>4. time < (q + 1) * I
  BY <1>2, <1>3
<1> QED
  BY <1>3, <1>4 DEF DueAfter, q

(* A time in the window of a multiple is due at the next one.                  *)
LEMMA DueAfterWindow ==
  ASSUME NEW t \in Nat, NEW k \in Int, run.interval \in Nat \ {0},
         k * run.interval <= t, t < k * run.interval + run.interval
  PROVE  t \div run.interval = k /\ DueAfter(t) = k * run.interval + run.interval
<1> DEFINE I == run.interval
<1>1. I \in Nat \ {0} /\ k * I <= t /\ t < k * I + I
  OBVIOUS
<1>2. t \div I = k
  <2> HIDE DEF I
  <2> QED
    BY <1>1, QuotientIs
<1>3. (k + 1) * I = k * I + I
  <2> HIDE DEF I
  <2> QED
    BY <1>1, Z3
<1> QED
  BY <1>2, <1>3 DEF DueAfter

LEMMA ScheduledPreserved ==
  Bp5TypeOK /\ Checked /\ Advancing /\ Starting /\ Scheduled /\ [Next]_vars => Scheduled'
<1> SUFFICES ASSUME Bp5TypeOK, Checked, Advancing, Starting, Scheduled, [Next]_vars
             PROVE  Scheduled'
  OBVIOUS
<1>f. /\ run.clock.dt \in Nat \ {0} /\ run.interval \in Nat \ {0}
      /\ time \in Nat /\ next \in Nat /\ step \in Nat /\ Target \in Datasets /\ run \in Configs
      /\ HistoryAdvances
  BY RunFacts DEF Bp5TypeOK, Advancing
<1>1. CASE \/ (\E c \in Configs : Launch(c)) \/ LoadRestart \/ RestartRefused \/ DefineCodec
           \/ CodecMissing \/ PreparePath \/ PathRefused \/ OpenFails \/ Close \/ Throw \/ Crash
  <2>1. loop' \notin InLoop
    BY <1>1 DEF Launch, LoadRestart, RestartRefused, DefineCodec, CodecMissing, PreparePath,
                PathRefused, OpenFails, Refuse, Close, Throw, Crash, InLoop
  <2> QED
    BY <2>1 DEF Scheduled, InLoop
<1>2. CASE OpenDataset
  <2>1. /\ run' = run /\ time' = time /\ loop = "open" /\ loop' = "setup"
        /\ next' = FirstDue(run, time) /\ Target' = Target
    BY <1>2 DEF OpenDataset, Target
  <2>2. next' = DueAfter(time)
    BY <2>1, FirstDueIsNext DEF Starting
  <2>3. \E k \in Nat : next' = k * run.interval
    BY <2>2, BeforeDue
  <2>4. disk'[Target] # <<>> => time = LastTime(disk'[Target])
    <3> SUFFICES ASSUME disk'[Target] # <<>> PROVE time = LastTime(disk'[Target])
      OBVIOUS
    <3>1. run.existing = "append" /\ disk' = disk
      BY <1>2, <1>f DEF OpenDataset, Cleared, Bp5TypeOK
    <3>2. run.restart /\ run.step_index = -1 /\ Source = Target
      BY <2>1, <3>1 DEF Advancing, SourceRules, Source, Target
    <3> QED
      BY <2>1, <3>1, <3>2 DEF Starting
  <2> QED
    BY <2>1, <2>2, <2>3, <2>4 DEF Scheduled, DueAfter, LastTime, InLoop
<1>3. CASE BeginRun
  <2>1. /\ pending = <<>> /\ pending' = <<>> /\ disk' = disk /\ run' = run /\ time' = time
        /\ next' = next /\ loop = "setup" /\ loop' \in {"initial", "step"} /\ Target' = Target
    BY <1>3 DEF BeginRun, files, clock, Target, Advancing
  <2>2. Written(Target)' = disk[Target]
    BY <1>f, <2>1, WrittenKept, WrittenIdle
  <2>3. next = DueAfter(time) /\ (disk[Target] # <<>> => time = LastTime(disk[Target]))
    BY <2>1 DEF Scheduled
  <2> QED
    BY <2>1, <2>2, <2>3, BeforeDue DEF Scheduled, DueAfter, LastTime, InLoop, Fine
<1>4. CASE WriteInitial \/ WriteOutput
  <2>1. /\ Write /\ run' = run /\ time' = time /\ loop' = "step" /\ loop \in {"initial", "output"}
        /\ (~run.async => pending = <<>>) /\ Target' = Target
    BY <1>4 DEF WriteInitial, WriteOutput, clock, Advancing, Target
  <2>2. LastTime(Written(Target)') = time
    <3>1. /\ Written(Target)' = Append(Written(Target), Entry(time, step, run))
          /\ Written(Target) \in Seq(Entries)
      BY <2>1, WriteAppends DEF InLoop
    <3> QED
      BY <1>f, <3>1, LastOfAppend, EntryType
  <2>3. next' = DueAfter(time) \/ ~Fine
    <3>1. CASE WriteInitial
      BY <3>1 DEF WriteInitial, clock, Scheduled
    <3>2. CASE WriteOutput /\ Fine
      <4>1. PICK k \in Nat : next = k * run.interval
        BY <3>2 DEF WriteOutput, Scheduled, InLoop
      <4>2. next <= time /\ time < next + run.interval /\ next' = next + run.interval
        BY <3>2 DEF WriteOutput, Scheduled
      <4> QED
        BY <1>f, <4>1, <4>2, DueAfterWindow
    <3> QED
      BY <1>4, <3>1, <3>2
  <2>4. \E k \in Nat : next' = k * run.interval
    <3> DEFINE I == run.interval
    <3>1. PICK k \in Nat : next = k * I
      BY <2>1 DEF Scheduled, InLoop
    <3>2. next' = next \/ next' = next + I
      BY <1>4 DEF WriteInitial, WriteOutput, clock
    <3>3. (k + 1) * I = k * I + I /\ k + 1 \in Nat
      <4>1. I \in Nat
        BY <1>f
      <4> HIDE DEF I
      <4> QED
        BY <4>1, Z3
    <3> QED
      BY <3>1, <3>2, <3>3
  <2> QED
    BY <2>1, <2>2, <2>3, <2>4, BeforeDue DEF Scheduled, DueAfter, InLoop, Fine
<1>5. CASE Advance
  <2>1. /\ disk' = disk /\ pending' = pending /\ run' = run /\ loop = "step" /\ next' = next
        /\ loop' = (IF time' >= next THEN "output" ELSE "step")
        /\ time' = time + run.clock.dt /\ Target' = Target
    BY <1>5 DEF Advance, files, Target
  <2>2. Written(Target)' = Written(Target)
    BY <1>f, <2>1, WrittenKept DEF Over
  <2>3. /\ loop' = "step" /\ Fine => time' < next'
        /\ loop' = "output" /\ Fine => next' <= time' /\ time' < next' + run.interval
    <3> DEFINE I == run.interval
               dt == run.clock.dt
    <3>1. Fine => dt <= I /\ time < next
      BY <2>1 DEF Scheduled, Fine
    <3>2. I \in Nat /\ dt \in Nat /\ time' = time + dt
      BY <1>f, <2>1
    <3> HIDE DEF I, dt
    <3>3. /\ loop' = "step" /\ Fine => time' < next
          /\ loop' = "output" /\ Fine => next <= time' /\ time' < next + I
      BY <1>f, <2>1, <3>1, <3>2
    <3> QED
      BY <2>1, <3>3 DEF I
  <2>4. loop' \in {"step", "output"}
    BY <2>1
  <2> QED
    BY <2>1, <2>2, <2>3, <2>4 DEF Scheduled, DueAfter, LastTime, InLoop, Fine
<1>6. CASE Store
  <2>1. /\ run' = run /\ loop' = loop /\ time' = time /\ next' = next /\ loop \in {"step", "output"}
    BY <1>6 DEF Store, clock, Advancing, Checked, InLoop
  <2>2. Target' = Target /\ Written(Target)' = Written(Target)
    BY <1>6, <1>f, <2>1, StoreKeepsWritten DEF Over
  <2> QED
    BY <2>1, <2>2 DEF Scheduled, DueAfter, LastTime, InLoop, Fine
<1>7. CASE AllRunsOver \/ UNCHANGED vars
  <2>1. /\ disk' = disk /\ pending' = pending /\ run' = run /\ time' = time /\ loop' = loop
        /\ next' = next /\ Target' = Target
    BY <1>7 DEF AllRunsOver, vars, files, clock, Target
  <2>2. Written(Target)' = Written(Target)
    BY <2>1 DEF Written
  <2> QED
    BY <2>1, <2>2 DEF Scheduled, DueAfter, LastTime, InLoop, Fine
<1> QED
  BY <1>1, <1>2, <1>3, <1>4, <1>5, <1>6, <1>7 DEF Next

(* A step follows another if no multiple of its run's interval lies between.     *)
Follows(e, f) ==
  0 < e.interval /\ e.dt <= e.interval => TimeOf(e) \div e.interval = TimeOf(f) \div e.interval + 1
Unbroken(s) == \A i \in 2..Len(s) : Follows(s[i], s[i - 1])

LEMMA NoHoleIsUnbroken == NoHoleAcrossRuns <=> \A d \in Datasets : Unbroken(Written(d))
BY Zenon DEF NoHoleAcrossRuns, Unbroken, Follows

LEMMA FrontUnbroken ==
  ASSUME NEW s \in Seq(Entries), NEW p \in Seq(Entries), Unbroken(s \o p)
  PROVE  Unbroken(s)
<1>1. /\ Len(s) \in Nat /\ Len(p) \in Nat /\ Len(s \o p) = Len(s) + Len(p)
      /\ \A i \in 1..Len(s) + Len(p) : (s \o p)[i] = IF i <= Len(s) THEN s[i] ELSE p[i - Len(s)]
  BY ConcatProperties, LenProperties
<1>2. ASSUME NEW i \in 2..Len(s) PROVE Follows(s[i], s[i - 1])
  <2>1. i \in 2..Len(s \o p) /\ (s \o p)[i] = s[i] /\ (s \o p)[i - 1] = s[i - 1]
    BY <1>1
  <2> QED
    BY <2>1 DEF Unbroken
<1> QED
  BY <1>2 DEF Unbroken

LEMMA AppendUnbroken ==
  ASSUME NEW s \in Seq(Entries), NEW e \in Entries, Unbroken(s),
         s # <<>> => Follows(e, s[Len(s)])
  PROVE  Unbroken(Append(s, e))
<1> DEFINE t == Append(s, e)
<1>1. /\ Len(s) \in Nat /\ Len(t) = Len(s) + 1
      /\ \A i \in 1..Len(s) : t[i] = s[i]
      /\ t[Len(s) + 1] = e
      /\ Len(s) # 0 => s # <<>>
  BY AppendProperties, LenProperties, EmptySeq
<1> HIDE DEF t
<1>2. ASSUME NEW i \in 2..Len(t) PROVE Follows(t[i], t[i - 1])
  <2>1. i - 1 \in 1..Len(s) /\ t[i - 1] = s[i - 1]
    BY <1>1
  <2>2. CASE i = Len(s) + 1
    <3>1. t[i] = e /\ i - 1 = Len(s) /\ s # <<>>
      BY <1>1, <2>1, <2>2
    <3> QED
      BY <2>1, <3>1
  <2>3. CASE i # Len(s) + 1
    <3>1. i \in 2..Len(s) /\ t[i] = s[i]
      BY <1>1, <2>3
    <3> QED
      BY <2>1, <3>1 DEF Unbroken
  <2> QED
    BY <2>2, <2>3
<1> QED
  BY <1>2 DEF Unbroken, t

(* What is found and what older versions wrote has interval 0.                  *)
LEMMA NoHoleInitially == Init => NoHoleAcrossRuns
<1> SUFFICES ASSUME Init PROVE NoHoleAcrossRuns
  OBVIOUS
<1>1. PICK f \in Found : present = f.present /\ disk = f.disk
  BY DEF Init
<1>2. ASSUME NEW d \in Datasets, NEW i \in 2..Len(disk[d]) PROVE disk[d][i].interval = 0
  <2>1. f.disk[d] \in Seq(Entries)
    BY FoundAssumption
  <2>2. i \in 1..Len(f.disk[d])
    BY <1>1, <2>1, LenProperties
  <2> QED
    BY <1>1, <2>2, FoundAssumption
<1>3. \A d \in Datasets : Written(d) = disk[d]
  BY DEF Written, Init, Over
<1> QED
  BY <1>2, <1>3, NoHoleIsUnbroken DEF Unbroken, Follows

(* The step written now follows the last one.                                 *)
LEMMA NewStepFollows ==
  ASSUME Bp5TypeOK, Scheduled, loop = "output", Written(Target) # <<>>
  PROVE  Follows(Entry(time, step, run), Written(Target)[Len(Written(Target))])
<1> DEFINE e == Entry(time, step, run)
           I == run.interval
           last == LastTime(Written(Target))
           q == last \div I
<1>1. /\ I \in Nat \ {0} /\ time \in Nat /\ next \in Nat /\ TimeOf(e) = time
      /\ e.interval = I /\ e.dt = run.clock.dt
  BY RunFacts, EntryType DEF Bp5TypeOK, Entry
<1> SUFFICES ASSUME Fine PROVE time \div I = q + 1
  BY <1>1 DEF Follows, LastTime, Fine
<1>2. next = (q + 1) * I /\ next <= time /\ time < next + I
  BY DEF Scheduled, DueAfter
<1>3. q + 1 \in Int
  <2>1. Written(Target) \in Seq(Entries)
    BY RunFacts, ConcatProperties DEF Bp5TypeOK, Written
  <2>2. Len(Written(Target)) \in 1..Len(Written(Target))
    BY <2>1, LenProperties, EmptySeq
  <2>3. last \in Int
    BY <2>1, <2>2, TimeIsInt DEF LastTime
  <2>4. ASSUME NEW x \in Int, NEW d \in Nat \ {0} PROVE x \div d \in Int
    BY <2>4, Z3
  <2> HIDE DEF last
  <2> QED
    BY <1>1, <2>3, <2>4
<1> HIDE DEF q
<1> QED
  BY <1>1, <1>2, <1>3, DueAfterWindow

LEMMA NoHolePreserved ==
  Bp5TypeOK /\ Checked /\ Advancing /\ Scheduled /\ NoHoleAcrossRuns /\ [Next]_vars
    => NoHoleAcrossRuns'
<1> SUFFICES ASSUME Bp5TypeOK, Checked, Advancing, Scheduled, NoHoleAcrossRuns, [Next]_vars
             PROVE  NoHoleAcrossRuns'
  OBVIOUS
<1>f. /\ Target \in Datasets /\ disk \in [Datasets -> Seq(Entries)] /\ pending \in Seq(Entries)
      /\ HistoryAdvances /\ \A d \in Datasets : Unbroken(Written(d))
      /\ time \in Nat /\ step \in Nat /\ run \in Configs
  BY RunFacts, NoHoleIsUnbroken DEF Bp5TypeOK, Advancing
<1>p. loop \notin InLoop => pending = <<>>
  BY DEF Checked
<1>0. ASSUME \A d \in Datasets : Unbroken(Written(d)') PROVE NoHoleAcrossRuns'
  BY <1>0, Zenon DEF NoHoleAcrossRuns, Unbroken, Follows
<1>1. ASSUME NEW c \in Configs, Launch(c) PROVE NoHoleAcrossRuns'
  <2>1. pending = <<>> /\ pending' = <<>> /\ disk' = disk
    BY <1>1, <1>p DEF Launch, Over, InLoop, files
  <2>2. ASSUME NEW d \in Datasets PROVE Written(d)' = Written(d)
    BY <1>f, <2>1, WrittenIdle, ConcatEmptySeq DEF Written
  <2> QED
    BY <1>0, <1>f, <2>2
<1>2. CASE \/ LoadRestart \/ RestartRefused \/ CodecMissing \/ PathRefused \/ OpenFails
           \/ DefineCodec \/ BeginRun \/ Advance \/ AllRunsOver \/ UNCHANGED vars
  <2>1. /\ disk' = disk /\ pending' = pending /\ run' = run
        /\ pending = <<>> \/ (loop \notin Over /\ loop' \notin Over)
    BY <1>2, <1>p DEF LoadRestart, RestartRefused, CodecMissing, PathRefused, OpenFails, Refuse,
       DefineCodec, BeginRun, Advance, AllRunsOver, vars, files, InLoop, Over, Advancing
  <2>2. \A d \in Datasets : Written(d)' = Written(d)
    BY <1>f, <2>1, WrittenKept
  <2> QED
    BY <1>0, <1>f, <2>2
<1>3. CASE PreparePath \/ OpenDataset
  <2>1. pending = <<>> /\ pending' = <<>>
    BY <1>3, <1>p DEF PreparePath, OpenDataset, InLoop
  <2>2. ASSUME NEW d \in Datasets PROVE disk'[d] = disk[d] \/ disk'[d] = <<>>
    BY <1>f, <1>3 DEF PreparePath, OpenDataset, files, Cleared
  <2>3. ASSUME NEW d \in Datasets PROVE Unbroken(Written(d)')
    <3>1. disk[d] \in Seq(Entries) /\ Unbroken(disk[d])
      BY <1>f, <2>1, WrittenIdle
    <3>2. <<>> \in Seq(Entries) /\ Unbroken(<<>>)
      BY EmptySeq DEF Unbroken
    <3>3. disk'[d] \in Seq(Entries) /\ Unbroken(disk'[d])
      BY <2>2, <3>1, <3>2
    <3>4. Written(d)' = disk'[d]
      BY <2>1, <3>3, ConcatEmptySeq DEF Written
    <3> QED
      BY <3>3, <3>4
  <2> QED
    BY <1>0, <2>3
<1>4. CASE WriteInitial \/ WriteOutput
  <2>1. /\ Write /\ run' = run /\ loop' = "step" /\ loop \in {"initial", "output"}
        /\ (~run.async => pending = <<>>) /\ Target' = Target
    BY <1>4 DEF WriteInitial, WriteOutput, clock, Advancing, Target
  <2>2. /\ Written(Target) \in Seq(Entries)
        /\ Written(Target)' = Append(Written(Target), Entry(time, step, run))
        /\ \A d \in Datasets : d # Target => Written(d)' = Written(d)
    BY <2>1, WriteAppends DEF InLoop
  <2>3. Written(Target) # <<>> =>
          Follows(Entry(time, step, run), Written(Target)[Len(Written(Target))])
    <3>1. CASE WriteInitial
      <4>1. pending = <<>> /\ disk[Target] = <<>>
        BY <3>1 DEF WriteInitial, Advancing
      <4>2. Written(Target) = <<>>
        BY <1>f, <4>1, WrittenIdle
      <4> QED
        BY <4>2
    <3>2. CASE WriteOutput
      BY <3>2, NewStepFollows DEF WriteOutput
    <3> QED
      BY <1>4, <3>1, <3>2
  <2>4. Unbroken(Written(Target)')
    BY <1>f, <2>2, <2>3, EntryType, AppendUnbroken
  <2>5. ASSUME NEW d \in Datasets PROVE Unbroken(Written(d)')
    <3>1. CASE d = Target
      BY <2>1, <2>4, <3>1
    <3>2. CASE d # Target
      BY <1>f, <2>2, <3>2
    <3> QED
      BY <3>1, <3>2
  <2> QED
    BY <1>0, <2>5
<1>5. CASE Store
  <2>1. loop \notin Over
    BY <1>5 DEF Store, Checked, InLoop, Over
  <2>2. \A d \in Datasets : Written(d)' = Written(d)
    BY <1>5, <2>1, StoreKeepsWritten
  <2> QED
    BY <1>0, <1>f, <2>2
<1>6. CASE Close \/ Throw \/ Crash
  <2>1. loop' \in Over /\ (disk' = disk \/ disk' = Flushed) /\ loop \notin Over
    BY <1>6 DEF Close, Throw, Crash, Over, InLoop, files
  <2>2. ASSUME NEW d \in Datasets PROVE Unbroken(Written(d)')
    <3>1. disk[d] \in Seq(Entries) /\ Unbroken(Written(d))
      BY <1>f
    <3>2. Unbroken(disk[d])
      BY <1>f, <3>1, FrontUnbroken DEF Written
    <3>3. Flushed[d] = Written(d)
      BY <1>f, <2>1 DEF Flushed, Written
    <3>4. Written(d)' = disk'[d]
      BY <2>1 DEF Written
    <3> QED
      BY <2>1, <3>1, <3>2, <3>3, <3>4
  <2> QED
    BY <1>0, <2>2
<1> QED
  BY <1>1, <1>2, <1>3, <1>4, <1>5, <1>6 DEF Next

(* Every output time of a run whose dt does not exceed its interval is in its   *)
(* dataset, and the first one an append writes follows the last one there.      *)
THEOREM NoHoleLeft == Spec => []NoHoleAcrossRuns
<1> DEFINE Inv == Bp5TypeOK /\ Checked /\ Advancing /\ Starting /\ Scheduled /\ NoHoleAcrossRuns
<1>1. Init => Inv
  <2>1. Init => Starting /\ Scheduled
    BY DEF Init, Starting, Scheduled, InLoop
  <2> QED
    BY <2>1, TypeInitially, CheckedInitially, AdvancingInitially, NoHoleInitially
<1>2. Inv /\ [Next]_vars => Inv'
  BY TypePreserved, CheckedPreserved, AdvancingPreserved, StartingPreserved, ScheduledPreserved,
     NoHolePreserved
<1>3. Inv => NoHoleAcrossRuns
  OBVIOUS
<1> QED
  BY <1>1, <1>2, <1>3, PTL DEF Spec

---------------------------------------------------------------------------------
(* The descriptor promises what is written and what is still owed: the initial   *)
(* record, and one for every multiple of the interval from k * interval on.      *)
StillInitial == IF run.initial /\ loop \in {"setup", "initial"} THEN 1 ELSE 0
OwedFrom(k) ==
  LET m == run.total \div run.interval IN IF m < k THEN 0 ELSE m - k + 1

Promised ==
  /\ loop \in InLoop =>
       \E k \in Nat : /\ next = k * run.interval
                      /\ described <= Len(Written(Target)) + StillInitial + OwedFrom(k)
  /\ loop = "closed" /\ Fine => described <= Len(disk[Target])

LEMMA OwedIsNat ==
  ASSUME Bp5TypeOK, NEW k \in Nat
  PROVE  /\ OwedFrom(k) \in Nat
         /\ OwedFrom(k) <= OwedFrom(k + 1) + 1
         /\ Len(Written(Target)) \in Nat
<1>1. run.total \div run.interval \in Nat
  BY RunFacts, QuotientBounds DEF Bp5TypeOK
<1>2. Written(Target) \in Seq(Entries)
  BY RunFacts, ConcatProperties DEF Bp5TypeOK, Written
<1> QED
  BY <1>1, <1>2, LenProperties DEF OwedFrom

LEMMA PromisedPreserved ==
  Bp5TypeOK /\ Checked /\ Advancing /\ Starting /\ Scheduled /\ Promised /\ [Next]_vars
    => Promised'
<1> SUFFICES ASSUME Bp5TypeOK, Checked, Advancing, Starting, Scheduled, Promised, [Next]_vars
             PROVE  Promised'
  OBVIOUS
<1>f. /\ run.interval \in Nat \ {0} /\ run.total \in Nat /\ time \in Nat /\ next \in Nat
      /\ described \in Nat /\ Target \in Datasets /\ disk \in [Datasets -> Seq(Entries)]
      /\ run \in Configs
  BY RunFacts DEF Bp5TypeOK
<1>1. CASE \/ (\E c \in Configs : Launch(c)) \/ LoadRestart \/ RestartRefused \/ DefineCodec
           \/ CodecMissing \/ PreparePath \/ PathRefused \/ OpenFails \/ Throw \/ Crash
  <2>1. loop' \notin InLoop /\ loop' # "closed"
    BY <1>1 DEF Launch, LoadRestart, RestartRefused, DefineCodec, CodecMissing, PreparePath,
                PathRefused, OpenFails, Refuse, Throw, Crash, InLoop
  <2> QED
    BY <2>1 DEF Promised
<1>2. CASE OpenDataset
  <2> DEFINE q == time \div run.interval
             m == run.total \div run.interval
             n == Len(disk'[Target])
  <2>1. /\ run' = run /\ loop' = "setup" /\ Target' = Target /\ pending' = <<>>
        /\ described' = TimeCount(n, run, time) /\ next' = FirstDue(run, time)
        /\ ~run.restart => time = 0
    BY <1>2 DEF OpenDataset, Target, Checked, InLoop, Starting
  <2>2. q \in Nat /\ m \in Nat
    BY <1>f, QuotientBounds
  <2>3. next' = (q + 1) * run.interval
    BY <2>1, FirstDueIsNext DEF DueAfter
  <2>4. disk'[Target] \in Seq(Entries) /\ n \in Nat
    <3>1. <<>> \in Seq(Entries)
      BY EmptySeq
    <3> QED
      BY <1>2, <1>f, <3>1, LenProperties DEF OpenDataset, Cleared
  <2>5. Written(Target)' = disk'[Target]
    BY <2>1, <2>4, ConcatEmptySeq DEF Written
  <2>6. PICK k \in Nat : k = q + 1
    BY <2>2
  <2>7. described' = n + StillInitial' + OwedFrom(k)'
    <3>1. StillInitial' = IF run.initial THEN 1 ELSE 0
      BY <2>1 DEF StillInitial
    <3>2. OwedFrom(k)' = IF m < k THEN 0 ELSE m - k + 1
      BY <2>1 DEF OwedFrom
    <3>3. described' = n + (IF m > q THEN m - q ELSE 0) + (IF run.initial THEN 1 ELSE 0)
      BY <2>1 DEF TimeCount, RecordsAhead
    <3> HIDE DEF q, m, n
    <3> QED
      BY <2>2, <2>4, <2>6, <3>1, <3>2, <3>3
  <2>8. described' <= Len(Written(Target)') + StillInitial' + OwedFrom(k)'
    <3>1. Bp5TypeOK'
      BY TypePreserved
    <3>2. \A b : described' = b => described' <= b
      BY <3>1 DEF Bp5TypeOK
    <3> QED
      BY <2>5, <2>7, <3>2, Zenon
  <2>9. next' = k * run'.interval /\ loop' # "closed"
    BY <2>1, <2>3, <2>6
  <2> QED
    BY <2>8, <2>9, Zenon DEF Promised
<1>3. CASE WriteInitial \/ WriteOutput
  <2>1. /\ Write /\ run' = run /\ loop' = "step" /\ loop \in {"initial", "output"}
        /\ (~run.async => pending = <<>>) /\ described' = described /\ Target' = Target
    BY <1>3 DEF WriteInitial, WriteOutput, clock, Advancing, Target
  <2>2. /\ Written(Target)' = Append(Written(Target), Entry(time, step, run))
        /\ Written(Target) \in Seq(Entries)
    BY <2>1, WriteAppends DEF InLoop
  <2>3. Len(Written(Target)') = Len(Written(Target)) + 1
    BY <1>f, <2>2, EntryType, AppendProperties DEF Bp5TypeOK
  <2>4. PICK k \in Nat : /\ next = k * run.interval
                         /\ described <= Len(Written(Target)) + StillInitial + OwedFrom(k)
    BY <2>1 DEF Promised, InLoop
  <2>5. \A j \in Nat : OwedFrom(j)' = OwedFrom(j)
    BY <2>1 DEF OwedFrom
  <2>6. StillInitial' = 0
    BY <2>1 DEF StillInitial
  <2>n. /\ OwedFrom(k) \in Nat /\ OwedFrom(k + 1) \in Nat /\ Len(Written(Target)) \in Nat
        /\ OwedFrom(k) <= OwedFrom(k + 1) + 1
    BY OwedIsNat
  <2>7. CASE WriteInitial
    <3>1. next' = next /\ StillInitial \in 0..1
      BY <2>7 DEF WriteInitial, clock, StillInitial
    <3>2. described' <= Len(Written(Target)') + StillInitial' + OwedFrom(k)'
      BY <1>f, <2>1, <2>3, <2>4, <2>5, <2>6, <2>n, <3>1
    <3> QED
      BY <2>1, <2>4, <3>1, <3>2, Zenon DEF Promised
  <2>8. CASE WriteOutput
    <3>1. next' = next + run.interval /\ StillInitial = 0
      BY <2>8 DEF WriteOutput, StillInitial
    <3>2. (k + 1) * run.interval = k * run.interval + run.interval /\ k + 1 \in Nat
      <4> DEFINE I == run.interval
      <4>1. I \in Nat
        BY <1>f
      <4> HIDE DEF I
      <4>2. (k + 1) * I = k * I + I /\ k + 1 \in Nat
        BY <4>1, Z3
      <4> QED
        BY <4>2 DEF I
    <3>3. described' <= Len(Written(Target)') + StillInitial' + OwedFrom(k + 1)'
      BY <1>f, <2>1, <2>3, <2>4, <2>5, <2>6, <2>n, <3>1, <3>2
    <3>4. next' = (k + 1) * run'.interval
      BY <2>1, <2>4, <3>1, <3>2
    <3> QED
      BY <2>1, <3>2, <3>3, <3>4, Zenon DEF Promised
  <2> QED
    BY <1>3, <2>7, <2>8
<1>4. CASE BeginRun \/ Advance \/ Store
  <2>1. /\ run' = run /\ next' = next /\ described' = described /\ loop \in InLoop
        /\ loop' \in InLoop /\ Target' = Target
    BY <1>4, Zenon DEF BeginRun, Advance, Store, clock, Target, Checked, InLoop
  <2>2. Written(Target)' = Written(Target)
    <3>1. CASE Store
      BY <1>f, <2>1, <3>1, StoreKeepsWritten DEF InLoop, Over
    <3>2. CASE BeginRun \/ Advance
      BY <1>f, <2>1, <3>2 DEF BeginRun, Advance, files, Written, InLoop, Over
    <3> QED
      BY <1>4, <3>1, <3>2
  <2>3. StillInitial' = StillInitial
    BY <1>4 DEF BeginRun, Advance, Store, StillInitial
  <2>4. \A j \in Nat : OwedFrom(j)' = OwedFrom(j)
    BY <2>1 DEF OwedFrom
  <2>5. PICK k \in Nat : /\ next = k * run.interval
                         /\ described <= Len(Written(Target)) + StillInitial + OwedFrom(k)
    BY <2>1 DEF Promised
  <2>6. loop' # "closed"
    BY <2>1 DEF InLoop
  <2>7. /\ next' = k * run'.interval
        /\ described' <= Len(Written(Target)') + StillInitial' + OwedFrom(k)'
    BY <2>1, <2>2, <2>3, <2>4, <2>5
  <2> QED
    BY <2>1, <2>6, <2>7, Zenon DEF Promised
<1>5. CASE Close
  <2>1. /\ loop = "step" /\ time >= run.total /\ disk' = Flushed /\ loop' = "closed"
        /\ run' = run /\ described' = described /\ Target' = Target
    BY <1>5 DEF Close, Target
  <2>2. Flushed[Target] = Written(Target)
    BY <1>f, <2>1 DEF Flushed, Written, Over
  <2> SUFFICES ASSUME Fine PROVE described <= Len(Written(Target))
    BY <2>1, <2>2 DEF Promised, InLoop, Fine
  <2>3. PICK k \in Nat : /\ next = k * run.interval
                         /\ described <= Len(Written(Target)) + StillInitial + OwedFrom(k)
    BY <2>1 DEF Promised, InLoop
  <2>4. time < next /\ StillInitial = 0
    BY <2>1 DEF Scheduled, StillInitial
  <2>5. OwedFrom(k) = 0
    <3> DEFINE m == run.total \div run.interval
    <3>1. m \in Nat /\ m * run.interval <= run.total
      BY <1>f, QuotientBounds
    <3>2. m * run.interval < k * run.interval
      <4> DEFINE x == m * run.interval
      <4>1. x \in Nat /\ x <= run.total
        BY <1>f, <3>1
      <4> HIDE DEF x
      <4>2. x < next
        BY <1>f, <2>1, <2>4, <4>1
      <4> QED
        BY <2>3, <4>2 DEF x
    <3>3. m < k
      <4>1. \A i \in Nat \ {0}, a \in Nat, b \in Nat : a * i < b * i => a < b
        BY Z3
      <4> QED
        BY <1>f, <3>1, <3>2, <4>1
    <3> QED
      BY <3>3 DEF OwedFrom
  <2> QED
    BY <1>f, <2>3, <2>4, <2>5, OwedIsNat
<1>6. CASE AllRunsOver \/ UNCHANGED vars
  <2>1. vars' = vars
    BY <1>6 DEF AllRunsOver
  <2> QED
    BY <2>1 DEF vars, files, clock, Promised, Written, Target, StillInitial, OwedFrom, Fine
<1> QED
  BY <1>1, <1>2, <1>3, <1>4, <1>5, <1>6 DEF Next

(* A run that ends has written all the times its descriptor promises, if its dt *)
(* does not exceed the output interval.                                      *)
THEOREM DescriptorKept == Spec => []DescriptorFitsFineSteps
<1> DEFINE Inv == Bp5TypeOK /\ Checked /\ Advancing /\ Starting /\ Scheduled /\ Promised
<1>1. Init => Inv
  <2>1. Init => Starting /\ Scheduled /\ Promised
    BY DEF Init, Starting, Scheduled, Promised, InLoop
  <2> QED
    BY <2>1, TypeInitially, CheckedInitially, AdvancingInitially
<1>2. Inv /\ [Next]_vars => Inv'
  BY TypePreserved, CheckedPreserved, AdvancingPreserved, StartingPreserved, ScheduledPreserved,
     PromisedPreserved
<1>3. Inv => DescriptorFitsFineSteps
  BY DEF Promised, DescriptorFitsFineSteps, Fine
<1> QED
  BY <1>1, <1>2, <1>3, PTL DEF Spec
=================================================================================
