---------------------------- MODULE HistoryRelayProofs ----------------------------
(* Proofs about the relay of history records, for every cadence, every number *)
(* of I/O ranks, every queue limit and every extent of the relayed array.     *)
EXTENDS HistoryRelay, OutputProofs

(* The strengthening.  The I/O ranks pass through five phases together: they  *)
(* wait for the stream, read the next record (each at its own pace), put its  *)
(* rows, let rank 0 describe the file, and go back for the next record.  In   *)
(* each phase the number of records a rank has ended tells which record it    *)
(* holds; while a file is being filed it has the rows of the ranks that have  *)
(* put theirs, and every other file is whole.  Once the ranks have left on an  *)
(* error status they have all finished.                                      *)
AllWhole == \A i \in DOMAIN files : Whole(files[i])

Current == RelayIndex(cfg, log[stored + 1])
RowsPut == UNION {RowsOf(r) : r \in {s \in Io : pc[s] # "put"}}
OneIncomplete ==
  /\ ~lost
  /\ stored < Len(log)
  /\ Current \in DOMAIN files
  /\ files[Current].rows = RowsPut
  /\ ~files[Current].described
  /\ \A i \in DOMAIN files \ {Current} : Whole(files[i])

Opening ==
  /\ stream \in {"unopened", "waiting"}
  /\ AllAt("opening")
  /\ loop = "setup" /\ log = <<>>
  /\ stored = 0
  /\ \A r \in Io : ended[r] = 0
  /\ ~lost
  /\ AllWhole

Reading ==
  /\ stream \in {"open", "closed"}
  /\ stored <= Len(log)
  /\ \A r \in Io :
       \/ pc[r] \in {"begin", "finished"} /\ ended[r] = stored
       \/ pc[r] = "read" /\ ended[r] = stored /\ stored < Len(log)
       \/ pc[r] = "create" /\ ended[r] = stored + 1 /\ stored < Len(log)
  /\ lost => AllAt("finished")
  /\ AllWhole

Filing ==
  /\ stream \in {"open", "closed"}
  /\ \A r \in Io : pc[r] \in {"put", "barrier"} /\ ended[r] = stored + 1
  /\ OneIncomplete

Describing ==
  /\ stream \in {"open", "closed"}
  /\ \A r \in Io : /\ pc[r] = IF r = 0 THEN "attach" ELSE "barrier2"
                   /\ ended[r] = stored + 1
  /\ OneIncomplete

Described ==
  /\ stream \in {"open", "closed"}
  /\ stored <= Len(log)
  /\ \A r \in Io : pc[r] = "barrier2" /\ ended[r] = stored
  /\ ~lost
  /\ AllWhole

Phases == Opening \/ Reading \/ Filing \/ Describing \/ Described

(* Records follow one another in time.                                      *)
LogAscends ==
  /\ loop \in {"setup", "initial"} => log = <<>>
  /\ loop = "step" => \A j \in 1..Len(log) : log[j] <= time
  /\ loop = "output" => \A j \in 1..Len(log) : log[j] < time

IInv == RelayTypeOK /\ Phases /\ LogAscends /\ BoundedLoss

---------------------------------------------------------------------------------
(* What the invariants need of the constants and the operators.              *)
LEMMA Sizes ==
  /\ NIo \in Nat \ {0} /\ QueueLimit \in Nat /\ NRows \in Nat \ {0}
  /\ Io = 0..NIo - 1 /\ 0 \in Io
BY RelayAssumption DEF Io

(* The rows of the I/O ranks are the rows of the array.                     *)
LEMMA RowsOfAllRanks ==
  /\ \A r \in Io : RowsOf(r) \subseteq Rows
  /\ UNION {RowsOf(r) : r \in Io} = Rows
<1>1. UNION {LocalRange(NRows, NIo, r) : r \in 0..NIo - 1} = 0..NRows - 1
  BY Sizes, SlabsCover
<1> QED
  BY <1>1, Sizes DEF RowsOf, Rows

(* The rounding of IOServer.cpp yields a file number.                       *)
LEMMA RelayIndexIsNat ==
  ASSUME NEW c \in Configs, NEW t \in Nat
  PROVE  RelayIndex(c, t) \in Nat
<1>1. c.interval \in Nat \ {0}
  BY ConfigsAssumption
<1>2. 2 * t + c.interval \in Nat /\ 2 * c.interval \in Nat \ {0}
  BY <1>1
<1> QED
  BY <1>2, QuotientBounds DEF RelayIndex

(* A step of the relay is a step of the clock or leaves the clock alone.     *)
LEMMA RelayStepsClock == Next => [ClockNext]_clockVars
BY DEF Next, ComputeNext, OpenWriter, StartLoop, StepModel, PublishInitial, PublishRecord,
       CloseWriter, IoNext, IoCollective, RankNext, Rendezvous, CreateFile, Barrier, Barrier2,
       BeginStep, EndOfStream, StreamFails, ReadStep, PutRows, AttachMetadata, ComputeFails,
       IoFails, Terminated, vars, relayVars, clockVars, ClockNext

(* The run begins with nothing handed over and nothing stored.               *)
LEMMA IInvInitially == Init => IInv
<1> SUFFICES ASSUME Init PROVE IInv
  OBVIOUS
<1>1. ClockTypeOK
  BY TypeInitially DEF Init
<1>2. loop = "setup" /\ log = <<>> /\ stored = 0 /\ DOMAIN files = {}
  BY DEF Init, ClockInit
<1>3. RelayTypeOK
  <2>1. pc \in [Io -> Steps] /\ ended \in [Io -> Nat]
    BY DEF Init, Steps
  <2>2. stream = "unopened" /\ lost \in BOOLEAN /\ aborted = 0
    BY DEF Init
  <2> QED
    BY <1>1, <1>2, <2>1, <2>2 DEF RelayTypeOK
<1>4. Opening
  BY <1>2 DEF Init, Opening, AllAt, AllWhole
<1> QED
  BY <1>2, <1>3, <1>4, Sizes DEF IInv, Phases, LogAscends, BoundedLoss

---------------------------------------------------------------------------------
(* The compute ranks' steps.                                                *)

(* The types every step needs.                                              *)
LEMMA Types ==
  ASSUME IInv
  PROVE  /\ cfg \in Configs /\ cfg.dt \in Nat \ {0} /\ cfg.interval \in Nat \ {0}
         /\ time \in Nat /\ next \in Nat /\ log \in Seq(Nat) /\ Len(log) \in Nat
         /\ stored \in Nat /\ stored <= Len(log)
         /\ \A r \in Io : ended[r] \in Nat /\ ended[r] <= Len(log)
<1>1. /\ cfg \in Configs /\ cfg.dt \in Nat \ {0} /\ cfg.interval \in Nat \ {0}
      /\ time \in Nat /\ next \in Nat /\ log \in Seq(Nat) /\ Len(log) \in Nat
      /\ stored \in Nat
  BY ConfigsAssumption DEF IInv, RelayTypeOK, ClockTypeOK
<1>2. \A r \in Io : ended[r] \in Nat
  BY DEF IInv, RelayTypeOK
<1>3. CASE Opening
  BY <1>1, <1>2, <1>3 DEF Opening
<1>4. CASE Reading \/ Described
  <2>1. stored <= Len(log)
    BY <1>4 DEF Reading, Described
  <2>2. \A r \in Io : ended[r] = stored \/ (ended[r] = stored + 1 /\ stored < Len(log))
    BY <1>4 DEF Reading, Described
  <2> QED
    BY <1>1, <2>1, <2>2
<1>5. CASE Filing \/ Describing
  <2>1. stored < Len(log) /\ \A r \in Io : ended[r] = stored + 1
    BY <1>5 DEF Filing, Describing, OneIncomplete
  <2> QED
    BY <1>1, <2>1
<1> QED
  BY <1>3, <1>4, <1>5 DEF IInv, Phases

(* A record handed over keeps the ones before it.                            *)
LEMMA LogGrows ==
  ASSUME IInv, WriteInitial \/ WriteOutput
  PROVE  /\ cfg' = cfg /\ time' = time /\ loop' = "step" /\ loop \in {"initial", "output"}
         /\ log' \in Seq(Nat) /\ Len(log') = Len(log) + 1 /\ log'[Len(log) + 1] = time
         /\ \A j \in 1..Len(log) : log'[j] = log[j]
<1>1. log \in Seq(Nat) /\ time \in Nat /\ log' = Append(log, time)
  BY Types DEF WriteInitial, WriteOutput
<1>2. /\ log' \in Seq(Nat) /\ Len(log') = Len(log) + 1 /\ log'[Len(log) + 1] = time
      /\ \A j \in 1..Len(log) : log'[j] = log[j]
  BY <1>1
<1> QED
  BY <1>2 DEF WriteInitial, WriteOutput

(* A record more, and nothing else, leaves the I/O ranks in their phase.      *)
LEMMA PhaseUnderPublish ==
  ASSUME IInv, WriteInitial \/ WriteOutput, UNCHANGED relayVars
  PROVE  Phases'
<1>1. /\ stream' = stream /\ pc' = pc /\ ended' = ended /\ files' = files /\ stored' = stored
      /\ lost' = lost
  BY DEF relayVars
<1>2. ~Opening
  BY LogGrows DEF Opening
<1>3. Len(log) \in Nat /\ stored \in Nat /\ Len(log') = Len(log) + 1 /\ stored <= Len(log)
  BY Types, LogGrows
<1>4. AllWhole => AllWhole'
  BY <1>1 DEF AllWhole, Whole
<1>5. OneIncomplete => OneIncomplete'
  <2> SUFFICES ASSUME OneIncomplete PROVE OneIncomplete'
    OBVIOUS
  <2>1. stored + 1 \in 1..Len(log)
    BY <1>3 DEF OneIncomplete
  <2>2. log'[stored + 1] = log[stored + 1] /\ cfg' = cfg
    BY <2>1, LogGrows
  <2>3. Current' = Current /\ RowsPut' = RowsPut
    BY <1>1, <2>2 DEF Current, RelayIndex, RowsPut
  <2> QED
    BY <1>1, <1>3, <2>3 DEF OneIncomplete, Whole
<1>6. Reading => Reading'
  BY <1>1, <1>3, <1>4 DEF Reading, AllAt
<1>7. Filing => Filing'
  BY <1>1, <1>5 DEF Filing
<1>8. Describing => Describing'
  BY <1>1, <1>5 DEF Describing
<1>9. Described => Described'
  BY <1>1, <1>3, <1>4 DEF Described
<1> QED
  BY <1>2, <1>6, <1>7, <1>8, <1>9 DEF IInv, Phases

(* With room in the queue, one record more is lost at most.                  *)
LEMMA BoundUnderPublish ==
  ASSUME IInv, WriteInitial \/ WriteOutput, UNCHANGED relayVars, QueueHasRoom
  PROVE  BoundedLoss'
<1>1. /\ stored' = stored /\ lost' = lost
      /\ stored \in Nat /\ Len(log) \in Nat /\ Len(log') = Len(log) + 1
  BY Types, LogGrows DEF relayVars
<1>2. ended[0] \in Nat /\ ended[0] <= stored + 1
  <2>1. 0 \in Io
    BY Sizes
  <2>2. ended[0] \in {stored, stored + 1}
    BY <2>1 DEF IInv, Phases, Opening, Reading, Filing, Describing, Described
  <2> QED
    BY <1>1, <2>1, <2>2
<1>3. QueueLimit > 0 /\ ~lost => Len(log) - ended[0] < QueueLimit
  BY Sizes DEF QueueHasRoom
<1> QED
  BY <1>1, <1>2, <1>3, Sizes DEF BoundedLoss

(* Handing a record to the stream keeps the invariant.                       *)
LEMMA PublishKeepsIInv ==
  ASSUME IInv, ClockTypeOK', QueueHasRoom, WriteInitial \/ WriteOutput, UNCHANGED relayVars
  PROVE  IInv'
<1>1. RelayTypeOK'
  BY DEF IInv, RelayTypeOK, relayVars, FileRecord
<1>2. LogAscends'
  <2> SUFFICES ASSUME NEW j \in 1..Len(log') PROVE log'[j] <= time'
    BY LogGrows DEF LogAscends
  <2>1. CASE j = Len(log) + 1
    BY <2>1, LogGrows, Types
  <2>2. CASE j \in 1..Len(log)
    <3>1. loop = "output"
      BY <2>2, LogGrows DEF IInv, LogAscends
    <3>2. log[j] < time
      BY <2>2, <3>1 DEF IInv, LogAscends
    <3>3. log'[j] = log[j] /\ time' = time
      BY <2>2, LogGrows
    <3>4. log[j] \in Nat /\ time \in Nat
      BY <2>2, Types, SMTT(30)
    <3> QED
      BY <3>2, <3>3, <3>4
  <2> QED
    BY <2>1, <2>2, LogGrows, Types
<1> QED
  BY <1>1, <1>2, PhaseUnderPublish, BoundUnderPublish DEF IInv

(* The other steps of the compute ranks hand over no record.                 *)
LEMMA ComputeKeepsIInv ==
  ASSUME IInv, ClockTypeOK', OpenWriter \/ StartLoop \/ StepModel \/ CloseWriter
  PROVE  IInv'
<1>1. /\ log' = log /\ cfg' = cfg /\ pc' = pc /\ ended' = ended /\ files' = files
      /\ stored' = stored /\ lost' = lost /\ aborted' = aborted
  BY DEF OpenWriter, StartLoop, StepModel, CloseWriter, BeginRun, Advance, CloseHistory,
         clockVars, relayVars
<1>2. RelayTypeOK'
  BY <1>1
  DEF IInv, RelayTypeOK, FileRecord, OpenWriter, StartLoop, StepModel, CloseWriter, relayVars
<1>3. LogAscends'
  <2>1. CASE StepModel
    <3>1. /\ loop = "step" /\ time' = time + cfg.dt
          /\ loop' = IF time' >= next THEN "output" ELSE "step"
      BY <2>1 DEF StepModel, Advance
    <3>2. ASSUME NEW j \in 1..Len(log) PROVE log[j] < time'
      <4>1. log[j] <= time
        BY <3>1 DEF IInv, LogAscends
      <4>2. log[j] \in Nat
        BY Types
      <4> QED
        BY <3>1, <4>1, <4>2, Types, SMTT(30)
    <3>3. ASSUME NEW j \in 1..Len(log) PROVE log[j] <= time'
      <4>1. log[j] \in Nat /\ time' \in Nat
        BY <3>1, Types, SMTT(30)
      <4> QED
        BY <3>2, <4>1
    <3> QED
      BY <1>1, <3>1, <3>2, <3>3 DEF LogAscends
  <2>2. CASE StartLoop
    <3>1. loop = "setup" /\ loop' \in {"initial", "step"} /\ time' = time /\ stream = "open"
      BY <2>2 DEF StartLoop, BeginRun
    <3>2. log = <<>>
      BY <3>1 DEF IInv, LogAscends
    <3> QED
      BY <1>1, <3>1, <3>2 DEF LogAscends
  <2>3. CASE OpenWriter
    BY <2>3 DEF OpenWriter, clockVars, IInv, LogAscends
  <2>4. CASE CloseWriter
    BY <2>4 DEF CloseWriter, CloseHistory, LogAscends
  <2> QED
    BY <2>1, <2>2, <2>3, <2>4
<1>4. Phases'
  <2>1. /\ AllWhole => AllWhole'
        /\ OneIncomplete => OneIncomplete'
    BY <1>1 DEF AllWhole, OneIncomplete, Whole, Current, RelayIndex, RowsPut
  <2>2. CASE Opening
    <3>1. ~StartLoop /\ ~StepModel /\ ~CloseWriter
      BY <2>2 DEF Opening, StartLoop, StepModel, CloseWriter, Advance, CloseHistory
    <3> QED
      BY <1>1, <2>1, <2>2, <3>1 DEF OpenWriter, clockVars, Opening, AllAt, Phases
  <2>3. CASE stream' \in {"open", "closed"}
    <3>1. /\ Reading => Reading'
          /\ Filing => Filing'
          /\ Describing => Describing'
          /\ Described => Described'
      BY <1>1, <2>1, <2>3 DEF Reading, AllAt, Filing, Describing, Described
    <3> QED
      BY <2>2, <3>1 DEF IInv, Phases
  <2>4. stream \in {"open", "closed"} => stream' \in {"open", "closed"}
    BY DEF OpenWriter, StartLoop, StepModel, CloseWriter, relayVars
  <2> QED
    BY <2>2, <2>3, <2>4 DEF IInv, Phases, Reading, Filing, Describing, Described
<1>5. BoundedLoss'
  BY <1>1 DEF IInv, BoundedLoss
<1> QED
  BY <1>2, <1>3, <1>4, <1>5 DEF IInv

---------------------------------------------------------------------------------
(* The I/O ranks' steps: each leaves the clock alone, so only the files, the   *)
(* phase and the number of stored records are to be looked at.               *)
LEMMA IoStepKeepsIInv ==
  ASSUME IInv, UNCHANGED clockVars, Phases',
         stream' \in {"unopened", "waiting", "open", "closed"},
         pc' \in [Io -> Steps], ended' \in [Io -> Nat],
         DOMAIN files' \subseteq Nat, \A i \in DOMAIN files' : files'[i] \in FileRecord,
         stored' \in Nat, stored <= stored', lost' \in BOOLEAN, lost => lost',
         aborted' = aborted
  PROVE  IInv'
<1>1. cfg' = cfg /\ loop' = loop /\ time' = time /\ next' = next /\ log' = log
  BY DEF clockVars
<1>2. RelayTypeOK'
  BY <1>1 DEF IInv, RelayTypeOK, ClockTypeOK, FileRecord
<1>3. LogAscends'
  BY <1>1 DEF IInv, LogAscends
<1>4. BoundedLoss'
  BY <1>1, Types, Sizes DEF IInv, BoundedLoss
<1> QED
  BY <1>2, <1>3, <1>4 DEF IInv

(* Opening the stream together.                                             *)
LEMMA RendezvousKeepsIInv == ASSUME IInv, Rendezvous PROVE IInv'
<1>1. /\ UNCHANGED clockVars /\ log' = log /\ ended' = ended /\ files' = files
      /\ stored' = stored /\ lost' = lost /\ aborted' = aborted /\ stream' = "open"
      /\ pc' = [r \in Io |-> "begin"]
  BY DEF Rendezvous, clockVars
<1>2. Opening
  BY DEF Rendezvous, IInv, Phases, Reading, Filing, Describing, Described
<1>3. Reading'
  BY <1>1, <1>2, Types DEF Opening, Reading, AllAt, AllWhole, Whole
<1> QED
  BY <1>1, <1>3, IoStepKeepsIInv DEF IInv, RelayTypeOK, Phases, Steps

(* Taking a record, ending the step, and seeing the end of the stream.        *)
LEMMA ReadingKeepsIInv ==
  ASSUME IInv, NEW r \in Io, BeginStep(r) \/ EndOfStream(r) \/ ReadStep(r)
  PROVE  IInv'
<1>1. /\ UNCHANGED clockVars /\ log' = log /\ files' = files
      /\ stored' = stored /\ lost' = lost /\ aborted' = aborted /\ stream' = stream
      /\ pc[r] \in {"begin", "read"}
  BY DEF BeginStep, EndOfStream, ReadStep, clockVars
<1>2. Reading
  BY <1>1, Sizes DEF IInv, Phases, Opening, AllAt, Filing, Describing, Described
<1>3. /\ pc \in [Io -> Steps] /\ ended \in [Io -> Nat]
      /\ stored \in Nat /\ Len(log) \in Nat
  BY Types DEF IInv, RelayTypeOK
<1>4. /\ pc' \in [Io -> Steps] /\ ended' \in [Io -> Nat]
      /\ \A s \in Io \ {r} : pc'[s] = pc[s] /\ ended'[s] = ended[s]
      /\ \/ pc'[r] = "finished" /\ ended'[r] = stored
         \/ pc'[r] = "read" /\ ended'[r] = stored /\ stored < Len(log)
         \/ pc'[r] = "create" /\ ended'[r] = stored + 1 /\ stored < Len(log)
  <2>1. CASE BeginStep(r)
    BY <1>2, <1>3, <2>1 DEF BeginStep, Goto, Reading, Steps
  <2>2. CASE EndOfStream(r)
    BY <1>2, <1>3, <2>2 DEF EndOfStream, Goto, Reading, Steps
  <2>3. CASE ReadStep(r)
    BY <1>2, <1>3, <2>3 DEF ReadStep, Goto, Reading, Steps
  <2> QED
    BY <2>1, <2>2, <2>3
<1>5. ~lost
  BY <1>1, <1>2 DEF Reading, AllAt
<1>6. Reading'
  BY <1>1, <1>2, <1>4, <1>5 DEF Reading, AllWhole, Whole
<1> QED
  BY <1>1, <1>4, <1>6, IoStepKeepsIInv DEF IInv, RelayTypeOK, Phases

(* Leaving the stream together on an error status.                           *)
LEMMA StreamFailsKeepsIInv == ASSUME IInv, StreamFails PROVE IInv'
<1>1. /\ UNCHANGED clockVars /\ log' = log /\ ended' = ended /\ files' = files
      /\ stored' = stored /\ lost' = TRUE /\ aborted' = aborted /\ stream' = stream
      /\ pc' = [r \in Io |-> "finished"]
  BY DEF StreamFails, clockVars
<1>2. Reading
  BY Sizes
  DEF StreamFails, AllAt, IInv, Phases, Opening, Filing, Describing, Described
<1>3. \A r \in Io : ended[r] = stored
  BY <1>2 DEF StreamFails, AllAt, Reading
<1>4. Reading'
  BY <1>1, <1>2, <1>3 DEF Reading, AllAt, AllWhole, Whole
<1> QED
  BY <1>1, <1>4, Types, IoStepKeepsIInv DEF IInv, RelayTypeOK, Phases, Steps

(* Opening the file together.                                               *)
LEMMA CreateFileKeepsIInv == ASSUME IInv, CreateFile PROVE IInv'
<1>1. /\ UNCHANGED clockVars /\ log' = log /\ cfg' = cfg /\ ended' = ended
      /\ stored' = stored /\ lost' = lost /\ aborted' = aborted /\ stream' = stream
      /\ pc' = [r \in Io |-> "put"]
  BY DEF CreateFile, clockVars
<1>2. Reading
  BY Sizes DEF CreateFile, AllAt, IInv, Phases, Opening, Filing, Describing, Described
<1>3. \A r \in Io : ended[r] = stored + 1
  BY <1>2 DEF CreateFile, AllAt, Reading
<1>4. stored < Len(log) /\ stored \in Nat /\ Len(log) \in Nat
  BY <1>2, Sizes, Types DEF CreateFile, AllAt, Reading
<1>5. FileOf(0) = Current /\ InHand(0) = log[stored + 1]
  BY <1>3, Sizes DEF FileOf, InHand, Current
<1>6. log[stored + 1] \in Nat /\ Current \in Nat
  <2>1. log[stored + 1] \in Nat
    BY <1>4, Types
  <2> QED
    BY <2>1, RelayIndexIsNat, Types DEF Current
<1>7. files' = [j \in DOMAIN files \cup {Current} |->
                  IF j = Current
                  THEN [time |-> log[stored + 1], rows |-> {}, described |-> FALSE]
                  ELSE files[j]]
  BY <1>5 DEF CreateFile
<1>8. /\ DOMAIN files' \subseteq Nat
      /\ \A i \in DOMAIN files' : files'[i] \in FileRecord
  BY <1>6, <1>7 DEF IInv, RelayTypeOK, FileRecord
<1>9. Current' = Current /\ RowsPut' = {}
  BY <1>1 DEF Current, RelayIndex, RowsPut
<1>10. ~lost
  BY <1>2, Sizes DEF CreateFile, Reading, AllAt
<1>11. OneIncomplete'
  BY <1>1, <1>2, <1>4, <1>7, <1>9, <1>10 DEF OneIncomplete, Reading, AllWhole, Whole
<1>12. Filing'
  BY <1>1, <1>2, <1>3, <1>11 DEF Filing, Reading
<1> QED
  BY <1>1, <1>8, <1>12, Types, IoStepKeepsIInv DEF IInv, RelayTypeOK, Phases, Steps

(* A rank puts its rows, at its own pace.                                    *)
LEMMA PutRowsKeepsIInv == ASSUME IInv, NEW r \in Io, PutRows(r) PROVE IInv'
<1>1. /\ UNCHANGED clockVars /\ log' = log /\ cfg' = cfg /\ ended' = ended
      /\ stored' = stored /\ lost' = lost /\ aborted' = aborted /\ stream' = stream
      /\ pc[r] = "put"
  BY DEF PutRows, clockVars
<1>2. Filing
  BY <1>1, Sizes DEF IInv, Phases, Opening, AllAt, Reading, Describing, Described
<1>3. FileOf(r) = Current
  BY <1>2 DEF Filing, FileOf, InHand, Current
<1>4. files' = [files EXCEPT ![Current] =
                   [files[Current] EXCEPT !.rows = files[Current].rows \cup RowsOf(r)]]
  BY <1>3 DEF PutRows
<1>5. /\ DOMAIN files \subseteq Nat /\ Current \in DOMAIN files
      /\ \A i \in DOMAIN files : files[i] \in FileRecord
  BY <1>2 DEF IInv, RelayTypeOK, Filing, OneIncomplete
<1>6. RowsOf(r) \subseteq Rows
  BY RowsOfAllRanks
<1>7. /\ DOMAIN files' = DOMAIN files
      /\ \A i \in DOMAIN files \ {Current} : files'[i] = files[i]
      /\ files'[Current] =
           [files[Current] EXCEPT !.rows = files[Current].rows \cup RowsOf(r)]
  BY <1>4, <1>5
<1>8. /\ files'[Current].rows = files[Current].rows \cup RowsOf(r)
      /\ files'[Current].described = files[Current].described
      /\ files'[Current] \in FileRecord
  BY <1>5, <1>6, <1>7 DEF FileRecord
<1>9. /\ pc' \in [Io -> Steps] /\ pc'[r] = "barrier"
      /\ \A s \in Io \ {r} : pc'[s] = pc[s]
  BY DEF PutRows, Goto, IInv, RelayTypeOK, Steps
<1>10. RowsPut' = RowsPut \cup RowsOf(r)
  <2>1. {s \in Io : pc'[s] # "put"} = {s \in Io : pc[s] # "put"} \cup {r}
    BY <1>1, <1>9
  <2>2. RowsPut' = UNION {RowsOf(s) : s \in {t \in Io : pc'[t] # "put"}}
    BY DEF RowsPut, RowsOf
  <2> QED
    BY <2>1, <2>2 DEF RowsPut
<1>11. Current' = Current
  BY <1>1 DEF Current, RelayIndex
<1>12. OneIncomplete'
  BY <1>1, <1>2, <1>7, <1>8, <1>10, <1>11 DEF Filing, OneIncomplete, Whole
<1>13. Filing'
  BY <1>1, <1>2, <1>9, <1>12 DEF Filing
<1>14. \A i \in DOMAIN files' : files'[i] \in FileRecord
  BY <1>5, <1>7, <1>8
<1> QED
  BY <1>1, <1>5, <1>7, <1>9, <1>13, <1>14, Types, IoStepKeepsIInv
  DEF IInv, RelayTypeOK, Phases

(* The first barrier: rank 0 goes on to describe the file.                   *)
LEMMA BarrierKeepsIInv == ASSUME IInv, Barrier PROVE IInv'
<1>1. /\ UNCHANGED clockVars /\ log' = log /\ cfg' = cfg /\ ended' = ended
      /\ stored' = stored /\ lost' = lost /\ aborted' = aborted /\ stream' = stream /\ files' = files
      /\ pc' = [r \in Io |-> IF r = 0 THEN "attach" ELSE "barrier2"]
  BY DEF Barrier, clockVars
<1>2. Filing
  BY Sizes DEF Barrier, AllAt, IInv, Phases, Opening, Reading, Describing, Described
<1>3. RowsPut' = RowsPut
  <2>1. {s \in Io : pc'[s] # "put"} = Io /\ {s \in Io : pc[s] # "put"} = Io
    BY <1>1 DEF Barrier, AllAt
  <2>2. RowsPut' = UNION {RowsOf(s) : s \in {t \in Io : pc'[t] # "put"}}
    BY DEF RowsPut, RowsOf
  <2> QED
    BY <2>1, <2>2 DEF RowsPut
<1>4. Current' = Current
  BY <1>1 DEF Current, RelayIndex
<1>5. OneIncomplete'
  BY <1>1, <1>2, <1>3, <1>4 DEF Filing, OneIncomplete, Whole
<1>6. Describing'
  BY <1>1, <1>2, <1>5 DEF Filing, Describing
<1> QED
  BY <1>1, <1>6, Types, IoStepKeepsIInv DEF IInv, RelayTypeOK, Phases, Steps

(* Rank 0 describes the file or cannot: it has all its rows in either case.   *)
LEMMA AttachKeepsIInv == ASSUME IInv, NEW r \in Io, AttachMetadata(r) PROVE IInv'
<1>1. /\ UNCHANGED clockVars /\ log' = log /\ cfg' = cfg /\ ended' = ended
      /\ stored' = stored + 1 /\ lost' = lost /\ aborted' = aborted /\ stream' = stream
      /\ pc[r] = "attach"
  BY DEF AttachMetadata, clockVars
<1>2. Describing
  BY <1>1, Sizes DEF IInv, Phases, Opening, AllAt, Reading, Filing, Described
<1>3. FileOf(r) = Current /\ r = 0
  BY <1>1, <1>2 DEF Describing, FileOf, InHand, Current
<1>4. /\ DOMAIN files \subseteq Nat /\ Current \in DOMAIN files
      /\ \A i \in DOMAIN files : files[i] \in FileRecord
  BY <1>2 DEF IInv, RelayTypeOK, Describing, OneIncomplete
<1>5. PICK d \in BOOLEAN : files' = [files EXCEPT ![Current] = [@ EXCEPT !.described = d]]
  BY <1>3 DEF AttachMetadata
<1>6. /\ DOMAIN files' = DOMAIN files
      /\ \A i \in DOMAIN files \ {Current} : files'[i] = files[i]
      /\ files'[Current] = [files[Current] EXCEPT !.described = d]
  BY <1>4, <1>5
<1>7. /\ files'[Current].rows = files[Current].rows
      /\ files'[Current] \in FileRecord
  BY <1>4, <1>6 DEF FileRecord
<1>8. files[Current].rows = Rows
  <2>1. {s \in Io : pc[s] # "put"} = Io
    BY <1>2 DEF Describing
  <2> QED
    BY <1>2, <2>1, RowsOfAllRanks DEF Describing, OneIncomplete, RowsPut
<1>9. AllWhole'
  <2> SUFFICES ASSUME NEW i \in DOMAIN files PROVE Whole(files'[i])
    BY <1>6 DEF AllWhole, Whole
  <2>1. CASE i = Current
    BY <1>7, <1>8, <2>1 DEF Whole
  <2>2. CASE i # Current
    <3>1. files'[i] = files[i] /\ Whole(files[i])
      BY <1>2, <1>6, <2>2 DEF Describing, OneIncomplete
    <3> QED
      BY <3>1
  <2> QED
    BY <2>1, <2>2
<1>10. /\ pc' \in [Io -> Steps] /\ pc'[r] = "barrier2"
       /\ \A s \in Io \ {r} : pc'[s] = pc[s]
  BY DEF AttachMetadata, Goto, IInv, RelayTypeOK, Steps
<1>11. stored + 1 <= Len(log) /\ stored \in Nat /\ Len(log) \in Nat
  BY <1>2, Types DEF Describing, OneIncomplete
<1>12. Described'
  BY <1>1, <1>2, <1>3, <1>9, <1>10, <1>11 DEF Describing, Described
<1>13. \A i \in DOMAIN files' : files'[i] \in FileRecord
  BY <1>4, <1>6, <1>7
<1> QED
  BY <1>1, <1>4, <1>6, <1>10, <1>11, <1>12, <1>13, IoStepKeepsIInv
  DEF IInv, RelayTypeOK, Phases

(* The second barrier: the ranks go back for the next record.                *)
LEMMA Barrier2KeepsIInv == ASSUME IInv, Barrier2 PROVE IInv'
<1>1. /\ UNCHANGED clockVars /\ log' = log /\ ended' = ended /\ files' = files
      /\ stored' = stored /\ lost' = lost /\ aborted' = aborted /\ stream' = stream
      /\ pc' = [r \in Io |-> "begin"]
  BY DEF Barrier2, clockVars
<1>2. Described
  <2>1. pc[0] = "barrier2" /\ 0 \in Io
    BY Sizes DEF Barrier2, AllAt
  <2> QED
    BY <2>1 DEF IInv, Phases, Opening, AllAt, Reading, Filing, Describing
<1>3. Reading'
  BY <1>1, <1>2 DEF Described, Reading, AllWhole, Whole
<1> QED
  BY <1>1, <1>3, Types, IoStepKeepsIInv DEF IInv, RelayTypeOK, Phases, Steps

(* A failure stops every process where it is.                                *)
LEMMA StopKeepsIInv ==
  ASSUME IInv, ComputeFails \/ (\E r \in Io : IoFails(r)) \/ UNCHANGED vars
  PROVE  IInv'
<1>1. UNCHANGED <<clockVars, stream, pc, ended, files, stored, lost>>
  BY DEF ComputeFails, IoFails, vars, relayVars
<1>2. aborted' \in {0, 1, 10, 11, 12, 13}
  BY DEF ComputeFails, IoFails, AbortCode, vars, relayVars, IInv, RelayTypeOK
<1>3. cfg' = cfg /\ loop' = loop /\ time' = time /\ next' = next /\ log' = log
  BY <1>1 DEF clockVars
<1>4. RelayTypeOK'
  BY <1>1, <1>2, <1>3, SMTT(30) DEF IInv, RelayTypeOK, ClockTypeOK, FileRecord
<1>5. Phases'
  BY <1>1, <1>3
  DEF IInv, Phases, Opening, AllAt, Reading, Filing, Describing, Described, AllWhole,
      OneIncomplete, Whole, Current, RelayIndex, RowsPut
<1> QED
  BY <1>1, <1>3, <1>4, <1>5 DEF IInv, LogAscends, BoundedLoss

---------------------------------------------------------------------------------
(* Every step of the relay keeps the invariant.                              *)
LEMMA IInvPreserved == IInv /\ [Next]_vars => IInv'
<1> SUFFICES ASSUME IInv, [Next]_vars PROVE IInv'
  OBVIOUS
<1>1. ClockTypeOK'
  BY RelayStepsClock, TypePreserved DEF IInv, RelayTypeOK, vars, clockVars
<1>2. CASE PublishInitial \/ PublishRecord
  BY <1>1, <1>2, PublishKeepsIInv DEF PublishInitial, PublishRecord
<1>3. CASE OpenWriter \/ StartLoop \/ StepModel \/ CloseWriter
  BY <1>1, <1>3, ComputeKeepsIInv
<1>4. CASE Rendezvous \/ CreateFile \/ Barrier \/ Barrier2
  BY <1>4, RendezvousKeepsIInv, CreateFileKeepsIInv, BarrierKeepsIInv, Barrier2KeepsIInv
<1>5. ASSUME NEW r \in Io, RankNext(r) PROVE IInv'
  BY <1>5, ReadingKeepsIInv, PutRowsKeepsIInv, AttachKeepsIInv DEF RankNext
<1>6. CASE StreamFails
  BY <1>6, StreamFailsKeepsIInv
<1>7. CASE ComputeFails \/ (\E r \in Io : IoFails(r)) \/ Terminated \/ UNCHANGED vars
  BY <1>7, StopKeepsIInv DEF Terminated
<1> QED
  BY <1>2, <1>3, <1>4, <1>5, <1>6, <1>7 DEF Next, ComputeNext, IoNext, IoCollective

(* The invariant says what the properties of the relay claim.                *)
LEMMA IInvImplies == IInv => RelayTypeOK /\ OneRecordInHand /\ BoundedLoss /\ FilesSound
<1> SUFFICES ASSUME IInv PROVE OneRecordInHand /\ FilesSound
  BY DEF IInv
<1>1. OneRecordInHand
  BY DEF IInv, Phases, Opening, AllAt, Reading, Filing, Describing, Described,
         OneRecordInHand, Holding
<1>2. ASSUME AllWhole PROVE FilesSound
  BY <1>2 DEF AllWhole, FilesSound
<1>3. ASSUME OneIncomplete, Filing \/ Describing PROVE FilesSound
  <2>1. BeingFiled(Current)
    BY <1>3, Sizes DEF Filing, Describing, BeingFiled, Holding, FileOf, InHand, Current
  <2>2. \A i \in DOMAIN files : i # Current => Whole(files[i])
    BY <1>3 DEF OneIncomplete
  <2>3. ~files[Current].described
    BY <1>3 DEF OneIncomplete
  <2> QED
    BY <2>1, <2>2, <2>3 DEF FilesSound
<1> QED
  BY <1>1, <1>2, <1>3 DEF IInv, Phases, Opening, Reading, Filing, Describing, Described

(* The types of the relay.                                                  *)
THEOREM RelayTypeCorrect == Spec => []RelayTypeOK
BY IInvInitially, IInvPreserved, IInvImplies, PTL DEF Spec

(* All I/O ranks between a record's EndStep and the next BeginStep hold the    *)
(* same record, so they open one file together.                              *)
THEOREM RanksHoldOneRecord == Spec => []OneRecordInHand
BY IInvInitially, IInvPreserved, IInvImplies, PTL DEF Spec

(* Whenever the run is killed, at most QueueLimit + 1 records handed over are  *)
(* not safe on disk, unless the I/O ranks left the stream on an error status.  *)
THEOREM LossIsBounded == Spec => []BoundedLoss
BY IInvInitially, IInvPreserved, IInvImplies, PTL DEF Spec

(* Whenever the run is killed, a described file has every row, and only the    *)
(* file being filed can lack rows, whatever became of the metadata of others.  *)
THEOREM FilesAreSound == Spec => []FilesSound
BY IInvInitially, IInvPreserved, IInvImplies, PTL DEF Spec

---------------------------------------------------------------------------------
(* The refinement: handing over a record accepts it (or drops it, once the I/O  *)
(* ranks have left), finishing its file stores it, an abort or a failure of the *)
(* stream breaks the output off, and every other step is invisible.          *)
LEMMA PublishAccepts ==
  ASSUME IInv, Running, QueueHasRoom, WriteInitial \/ WriteOutput, UNCHANGED relayVars
  PROVE  Abstract!Accept \/ Abstract!Drop
<1>1. /\ stored' = stored /\ lost' = lost /\ aborted' = aborted
      /\ stored \in Nat /\ Len(log) \in Nat
  BY Types DEF relayVars
<1>2. ~lost => Lag = 0 \/ Len(log) - stored < Lag
  <2>1. ended[0] \in {stored, stored + 1}
    BY Sizes DEF IInv, Phases, Opening, Reading, Filing, Describing, Described
  <2>2. QueueLimit > 0 /\ ~lost => Len(log) - ended[0] < QueueLimit
    BY Sizes DEF QueueHasRoom
  <2> QED
    BY <1>1, <2>1, <2>2, Sizes DEF Lag
<1>3. log' = Append(log, time) /\ log \in Seq(Nat) /\ time \in Nat
  BY Types DEF WriteInitial, WriteOutput
<1>4. SubSeq(log', 1, Len(log)) = log
  BY <1>3
<1>5. Len(log) > 0 => log[Len(log)] < log'[Len(log')]
  <2> SUFFICES ASSUME Len(log) > 0 PROVE log[Len(log)] < log'[Len(log')]
    OBVIOUS
  <2>1. Len(log) \in 1..Len(log)
    BY <1>1
  <2>2. log[Len(log)] < time
    BY <2>1, LogGrows DEF IInv, LogAscends
  <2> QED
    BY <2>2, LogGrows
<1>6. Len(log') = Len(log) + 1
  BY LogGrows
<1>7. Abstract!HandOver
  BY <1>1, <1>4, <1>5, <1>6 DEF Abstract!HandOver, Running
<1> QED
  BY <1>2, <1>7 DEF Abstract!Accept, Abstract!Drop, Running

(* Every step of the relay is a step of HistoryLog or leaves it alone.        *)
LEMMA RelayStepsLog == IInv /\ [Next]_vars => [Abstract!Next]_(Abstract!logVars)
<1> SUFFICES ASSUME IInv, [Next]_vars PROVE [Abstract!Next]_(Abstract!logVars)
  OBVIOUS
<1>1. CASE PublishInitial \/ PublishRecord
  BY <1>1, PublishAccepts DEF PublishInitial, PublishRecord, Abstract!Next
<1>2. CASE OpenWriter \/ StartLoop \/ StepModel \/ CloseWriter
  BY <1>2
  DEF OpenWriter, StartLoop, StepModel, CloseWriter, BeginRun, Advance, CloseHistory,
      clockVars, relayVars, Running, Abstract!logVars
<1>3. CASE Rendezvous \/ CreateFile \/ Barrier \/ Barrier2
  BY <1>3 DEF Rendezvous, CreateFile, Barrier, Barrier2, clockVars, Running, Abstract!logVars
<1>4. ASSUME NEW r \in Io, AttachMetadata(r) PROVE Abstract!Store
  <2>1. Describing
    BY <1>4, Sizes
    DEF AttachMetadata, IInv, Phases, Opening, AllAt, Reading, Filing, Described
  <2> QED
    BY <1>4, <2>1 DEF AttachMetadata, Describing, OneIncomplete, clockVars, Running, Abstract!Store
<1>5. ASSUME NEW r \in Io, BeginStep(r) \/ EndOfStream(r) \/ ReadStep(r) \/ PutRows(r)
      PROVE  UNCHANGED Abstract!logVars
  BY <1>5
  DEF BeginStep, EndOfStream, ReadStep, PutRows, clockVars, Running, Abstract!logVars
<1>6. CASE StreamFails
  <2>1. ~lost
    <3>1. Reading
      BY <1>6, Sizes
      DEF StreamFails, AllAt, IInv, Phases, Opening, Filing, Describing, Described
    <3> QED
      BY <1>6, <3>1, Sizes DEF StreamFails, Reading, AllAt
  <2>2. Running /\ lost' /\ log' = log /\ stored' = stored /\ aborted' = aborted
    BY <1>6 DEF StreamFails, clockVars
  <2> QED
    BY <2>1, <2>2 DEF Running, Abstract!Break, Abstract!Next
<1>7. CASE ComputeFails \/ \E r \in Io : IoFails(r)
  <2>1. Running /\ aborted' # 0 /\ log' = log /\ stored' = stored /\ lost' = lost
    BY <1>7 DEF ComputeFails, IoFails, AbortCode, clockVars
  <2>2. CASE lost
    BY <2>1, <2>2 DEF Running, Abstract!logVars
  <2>3. CASE ~lost
    BY <2>1, <2>3 DEF Running, Abstract!Break, Abstract!Next
  <2> QED
    BY <2>2, <2>3
<1>8. CASE Terminated \/ UNCHANGED vars
  BY <1>8 DEF Terminated, vars, relayVars, clockVars, Running, Abstract!logVars
<1> QED
  BY <1>1, <1>2, <1>3, <1>4, <1>5, <1>6, <1>7, <1>8
  DEF Next, ComputeNext, IoNext, IoCollective, RankNext, Abstract!Next

(* The relay implements the safety part of HistoryLog: records become durable  *)
(* one at a time and in order, and the lag stays within its bound.            *)
THEOREM RelayImplementsLog ==
  Spec => Abstract!Init /\ [][Abstract!Next]_(Abstract!logVars)
<1>1. Init => Abstract!Init
  BY DEF Init, ClockInit, Running, Abstract!Init
<1> QED
  BY <1>1, IInvInitially, IInvPreserved, RelayStepsLog, PTL DEF Spec

---------------------------------------------------------------------------------
(* The numbering of the I/O server under a fine cadence.  The strengthening: the  *)
(* clock meets the due time exactly when dt divides the interval, and is less    *)
(* than half an interval late when dt is at most half of it, so every record so  *)
(* far rounds below the due time; with a longer dt records are a whole step apart. *)
Number(t) == RelayIndex(cfg, t)

StartsFine == loop \in {"setup", "initial"} => next = time + cfg.interval
InPhase ==
  cfg.interval % cfg.dt = 0 =>
    /\ loop \in {"setup", "initial", "step"} => \E p \in Nat \ {0} : next = time + p * cfg.dt
    /\ loop = "output" => time = next
RoundsBelow ==
  cfg.dt <= cfg.interval =>
    /\ \A j \in 1..Len(log) : 2 * log[j] + cfg.interval < 2 * next
    /\ loop = "output" => 2 * time < 2 * next + cfg.interval
LongGaps ==
  cfg.dt > cfg.interval =>
    \A j \in 1..Len(log) : log[j] + (IF loop = "output" THEN cfg.dt ELSE 0) <= time
Numbered == \A j \in 1..Len(log) : \A i \in 1..j - 1 : Number(log[i]) < Number(log[j])

FineInv == FineCadence(cfg) => StartsFine /\ InPhase /\ RoundsBelow /\ LongGaps /\ Numbered

(* How the rounded number compares with a multiple of the interval.            *)
LEMMA RoundedAgainstMultiple ==
  ASSUME NEW I \in Nat \ {0}, NEW a \in Nat, NEW k \in Nat
  PROVE  /\ 2 * a + I < 2 * (k * I) => (2 * a + I) \div (2 * I) < k
         /\ k * I <= a => k <= (2 * a + I) \div (2 * I)
<1> DEFINE x == k * I
           D == 2 * I
           b == 2 * a + I
<1>1. x \in Nat /\ k * D = 2 * x
  BY Z3
<1>2. D \in Nat \ {0} /\ b \in Nat
  OBVIOUS
<1>3. b < k * D => b \div D < k
  <2> HIDE DEF D, b
  <2> QED
    BY <1>2, IndexAgainstMultiple
<1>4. k * D <= b => k <= b \div D
  <2> HIDE DEF D, b
  <2> QED
    BY <1>2, IndexAgainstMultiple
<1>5. ASSUME x <= a PROVE k * D <= b
  <2> HIDE DEF x
  <2> QED
    BY <1>1, <1>5
<1> QED
  BY <1>1, <1>3, <1>4, <1>5

(* Times an interval apart are rounded to different numbers.                  *)
LEMMA RoundedApart ==
  ASSUME NEW I \in Nat \ {0}, NEW a \in Nat, NEW b \in Nat, a + I <= b
  PROVE  (2 * a + I) \div (2 * I) < (2 * b + I) \div (2 * I)
<1>1. 2 * I \in Nat \ {0} /\ 2 * a + I \in Nat /\ 2 * b + I \in Nat
      /\ (2 * a + I) + 2 * I <= 2 * b + I
  OBVIOUS
<1> QED
  BY <1>1, IndexApart

LEMMA QuotientIs ==
  ASSUME NEW I \in Nat, NEW d \in Nat \ {0}, I % d = 0
  PROVE  I \div d \in Nat /\ I = (I \div d) * d
BY Z3

(* One step less to go.                                                      *)
LEMMA StepLess ==
  ASSUME NEW d \in Nat \ {0}, NEW p \in Nat \ {0}
  PROVE  p * d \in Nat /\ (p - 1) * d \in Nat /\ p * d = d + (p - 1) * d /\ p - 1 \in Nat
         /\ (p = 1 => p * d = d) /\ (p # 1 => p * d > d)
<1>1. p * d \in Nat /\ (p - 1) * d \in Nat /\ p - 1 \in Nat /\ p * d = d + (p - 1) * d
  BY Z3
<1>2. p # 1 => (p - 1) * d >= d
  <2>1. ASSUME NEW q \in Nat \ {0} PROVE q * d >= d
    BY <2>1, Z3
  <2>2. p # 1 => p - 1 \in Nat \ {0}
    OBVIOUS
  <2> QED
    BY <2>1, <2>2
<1> QED
  BY <1>1, <1>2

(* The record written now rounds above every earlier one.                     *)
LEMMA NewNumberIsLarger ==
  ASSUME ClockInv, FineInv, FineCadence(cfg), loop = "output", NEW j \in 1..Len(log)
  PROVE  Number(log[j]) < Number(time)
<1> DEFINE I == cfg.interval
           a == log[j]
<1>1. I \in Nat \ {0} /\ cfg.dt \in Nat /\ a \in Nat /\ time \in Nat /\ next \in Nat
  BY ConfigsAssumption DEF ClockInv, ClockTypeOK
<1>2. CASE cfg.dt <= I
  <2>1. PICK k \in Nat : next = k * I
    BY DEF ClockInv, NextIsMultiple
  <2>2. 2 * a + I < 2 * (k * I) /\ k * I <= time
    BY <1>2, <2>1 DEF ClockInv, Due, FineInv, RoundsBelow
  <2>3. (2 * a + I) \div (2 * I) < k /\ k <= (2 * time + I) \div (2 * I)
    <3> HIDE DEF I, a
    <3> QED
      BY <1>1, <2>2, RoundedAgainstMultiple
  <2> DEFINE x == (2 * a + I) \div (2 * I)
             y == (2 * time + I) \div (2 * I)
  <2>4. x \in Int /\ y \in Int
    <3>1. 2 * I \in Nat \ {0} /\ 2 * a + I \in Nat /\ 2 * time + I \in Nat
      BY <1>1, SMTT(30)
    <3> QED
      BY <3>1, QuotientBounds
  <2>5. x < y
    <3> HIDE DEF x, y
    <3> QED
      BY <2>3, <2>4 DEF x, y
  <2> QED
    BY <2>5 DEF Number, RelayIndex
<1>3. CASE cfg.dt > I
  <2>1. a + I <= time
    <3>1. a + cfg.dt <= time
      BY <1>3 DEF FineInv, LongGaps
    <3> QED
      BY <1>1, <1>3, <3>1
  <2>2. (2 * a + I) \div (2 * I) < (2 * time + I) \div (2 * I)
    <3> HIDE DEF I, a
    <3> QED
      BY <1>1, <2>1, RoundedApart
  <2> QED
    BY <2>2 DEF Number, RelayIndex
<1> QED
  BY <1>1, <1>2, <1>3

LEMMA FineInvInitially == ClockInit => FineInv
<1> SUFFICES ASSUME ClockInit, FineCadence(cfg)
             PROVE  StartsFine /\ InPhase /\ RoundsBelow /\ LongGaps /\ Numbered
  BY DEF FineInv
<1> DEFINE I == cfg.interval
           d == cfg.dt
<1>1. /\ cfg \in Configs /\ I \in Nat \ {0} /\ d \in Nat \ {0} /\ cfg.start \in Nat
      /\ loop = "setup" /\ log = <<>> /\ time = cfg.start /\ next = FirstDue(cfg)
  BY ConfigsAssumption DEF ClockInit
<1>2. next = time + I
  <2> DEFINE q == cfg.start \div I
  <2>1. q \in Nat /\ cfg.start = q * I
    BY <1>1, QuotientIs DEF FineCadence
  <2>2. next = (q + 1) * I
    BY <1>1, FirstDueIsNextMultiple
  <2> HIDE DEF q, I
  <2>3. (q + 1) * I = q * I + I
    BY <1>1, <2>1, Z3
  <2> QED
    BY <1>1, <2>1, <2>2, <2>3
<1>3. InPhase
  <2> SUFFICES ASSUME I % d = 0 PROVE \E p \in Nat \ {0} : next = time + p * d
    BY <1>1 DEF InPhase
  <2> DEFINE p == I \div d
  <2>1. p \in Nat /\ I = p * d
    BY <1>1, QuotientIs
  <2>2. p # 0
    <3> HIDE DEF p, I, d
    <3> QED
      BY <1>1, <2>1
  <2> HIDE DEF p
  <2> QED
    BY <1>2, <2>1, <2>2
<1> QED
  BY <1>1, <1>2, <1>3 DEF StartsFine, RoundsBelow, LongGaps, Numbered

(* The due time moves by an interval, which is a whole number of steps.        *)
LEMMA PhaseAdvances ==
  ASSUME ClockInv, FineInv, FineCadence(cfg), Advance \/ WriteOutput
  PROVE  InPhase'
<1> DEFINE I == cfg.interval
           d == cfg.dt
<1>1. /\ I \in Nat \ {0} /\ d \in Nat \ {0} /\ time \in Nat /\ next \in Nat /\ cfg' = cfg
  BY ConfigsAssumption DEF ClockInv, ClockTypeOK, Advance, WriteOutput
<1> SUFFICES ASSUME I % d = 0
             PROVE  /\ loop' \in {"setup", "initial", "step"} =>
                         \E p \in Nat \ {0} : next' = time' + p * d
                    /\ loop' = "output" => time' = next'
  BY <1>1 DEF InPhase
<1>2. CASE Advance
  <2>1. /\ loop = "step" /\ next' = next /\ time' = time + d
        /\ loop' = IF time' >= next THEN "output" ELSE "step"
    BY <1>2 DEF Advance
  <2>2. PICK p \in Nat \ {0} : next = time + p * d
    BY <2>1 DEF FineInv, InPhase
  <2>3. /\ p * d \in Nat /\ (p - 1) * d \in Nat /\ p * d = d + (p - 1) * d /\ p - 1 \in Nat
        /\ (p = 1 => p * d = d) /\ (p # 1 => p * d > d)
    BY <1>1, StepLess
  <2>4. CASE p = 1
    BY <1>1, <2>1, <2>2, <2>3, <2>4
  <2>5. CASE p # 1
    <3> DEFINE x == p * d
               y == (p - 1) * d
    <3>1. x \in Nat /\ y \in Nat /\ next = time + x /\ x = d + y /\ x > d /\ p - 1 \in Nat \ {0}
      BY <2>2, <2>3, <2>5
    <3> HIDE DEF x, y
    <3>2. next' = time' + y /\ loop' = "step"
      BY <1>1, <2>1, <3>1
    <3> QED
      BY <3>1, <3>2 DEF y
  <2> QED
    BY <2>4, <2>5
<1>3. CASE WriteOutput
  <2>1. loop = "output" /\ loop' = "step" /\ next' = next + I /\ time' = time
    BY <1>3 DEF WriteOutput
  <2>2. time = next
    BY <2>1 DEF FineInv, InPhase
  <2> DEFINE p == I \div d
  <2>3. p \in Nat /\ I = p * d
    BY <1>1, QuotientIs
  <2>4. p # 0
    <3> HIDE DEF p, I, d
    <3> QED
      BY <1>1, <2>3
  <2> HIDE DEF p
  <2> QED
    BY <2>1, <2>2, <2>3, <2>4
<1> QED
  BY <1>2, <1>3

(* No record is half an interval late: the clock meets the due time, or passes *)
(* it by less than one step.                                                *)
LEMMA RoundsBelowAdvances ==
  ASSUME ClockInv, FineInv, FineCadence(cfg), Advance
  PROVE  RoundsBelow'
<1> DEFINE I == cfg.interval
           d == cfg.dt
<1>1. /\ I \in Nat \ {0} /\ d \in Nat \ {0} /\ time \in Nat /\ next \in Nat
  BY ConfigsAssumption DEF ClockInv, ClockTypeOK
<1>2. /\ cfg' = cfg /\ log' = log /\ loop = "step" /\ next' = next /\ time' = time + d
      /\ loop' = IF time' >= next THEN "output" ELSE "step"
  BY DEF Advance
<1>3. ASSUME d <= I, loop' = "output" PROVE 2 * time' < 2 * next + I
  <2>1. time < next
    BY <1>2, <1>3 DEF ClockInv, ShortSteps
  <2>2. CASE 2 * d <= I
    <3> HIDE DEF I, d
    <3> QED
      BY <1>1, <1>2, <2>1, <2>2
  <2>3. CASE I % d = 0
    <3>1. time' = next
      BY <1>2, <1>3, <2>3, PhaseAdvances DEF InPhase
    <3> QED
      BY <1>1, <3>1
  <2> QED
    BY <1>1, <1>3, <2>2, <2>3 DEF FineCadence
<1> QED
  BY <1>2, <1>3 DEF FineInv, RoundsBelow

LEMMA FineInvPreserved == ClockInv /\ FineInv /\ [ClockNext]_clockVars => FineInv'
<1> SUFFICES ASSUME ClockInv, FineInv, [ClockNext]_clockVars, FineCadence(cfg)'
             PROVE  (StartsFine /\ InPhase /\ RoundsBelow /\ LongGaps /\ Numbered)'
  BY DEF FineInv
<1>0. cfg' = cfg
  BY DEF ClockNext, BeginRun, WriteInitial, Advance, WriteOutput, CloseHistory,
         ClockTerminated, clockVars
<1>1. FineCadence(cfg)
  BY <1>0 DEF FineCadence
<1> DEFINE I == cfg.interval
           d == cfg.dt
<1>2. /\ I \in Nat \ {0} /\ d \in Nat \ {0} /\ time \in Nat /\ next \in Nat
      /\ log \in Seq(Nat) /\ Len(log) \in Nat
  BY ConfigsAssumption DEF ClockInv, ClockTypeOK
<1>3. StartsFine /\ InPhase /\ RoundsBelow /\ LongGaps /\ Numbered
  BY <1>1 DEF FineInv
<1>4. CASE BeginRun
  <2>1. /\ UNCHANGED <<cfg, time, next, log>> /\ log = <<>>
        /\ loop = "setup" /\ loop' \in {"initial", "step"}
    BY <1>4 DEF BeginRun, ClockInv, LogBegins
  <2> QED
    BY <1>3, <2>1 DEF StartsFine, InPhase, RoundsBelow, LongGaps, Numbered
<1>5. CASE WriteInitial
  <2>1. /\ UNCHANGED <<cfg, time, next>> /\ loop = "initial" /\ loop' = "step"
        /\ log' \in Seq(Nat) /\ Len(log') = 1 /\ log'[1] = time
    BY <1>2, <1>5 DEF WriteInitial, ClockInv, LogBegins
  <2>2. next = time + I
    BY <1>3, <2>1 DEF StartsFine
  <2>3. InPhase'
    BY <1>3, <2>1 DEF InPhase
  <2>4. \A j \in 1..Len(log') : log'[j] = time
    BY <2>1
  <2>5. RoundsBelow' /\ LongGaps'
    <3>1. 2 * time + I < 2 * next /\ time + 0 <= time
      BY <1>2, <2>2
    <3>2. \A j \in 1..Len(log') : 2 * log'[j] + I < 2 * next /\ log'[j] + 0 <= time
      BY <2>4, <3>1
    <3> QED
      BY <2>1, <3>2 DEF RoundsBelow, LongGaps
  <2> QED
    BY <2>1, <2>3, <2>5 DEF StartsFine, Numbered
<1>6. CASE Advance
  <2>1. /\ UNCHANGED <<cfg, next, log>> /\ loop = "step" /\ time' = time + d
        /\ loop' = IF time' >= next THEN "output" ELSE "step"
    BY <1>6 DEF Advance
  <2>2. LongGaps'
    <3> SUFFICES ASSUME d > I, NEW j \in 1..Len(log)
                 PROVE  log[j] + (IF loop' = "output" THEN d ELSE 0) <= time + d
      BY <2>1 DEF LongGaps
    <3>1. log[j] + 0 <= time /\ log[j] \in Nat
      BY <1>2, <1>3, <2>1, SMTT(30) DEF LongGaps
    <3> QED
      BY <1>2, <3>1
  <2>3. Numbered'
    BY <1>3, <2>1 DEF Numbered, Number, RelayIndex
  <2> QED
    BY <1>1, <1>6, <2>1, <2>2, <2>3, PhaseAdvances, RoundsBelowAdvances DEF StartsFine
<1>7. CASE WriteOutput
  <2>1. /\ cfg' = cfg /\ time' = time /\ next' = next + I /\ loop = "output" /\ loop' = "step"
        /\ log' = Append(log, time) /\ Len(log') = Len(log) + 1
    BY <1>2, <1>7 DEF WriteOutput
  <2>2. ASSUME NEW j \in 1..Len(log')
        PROVE  \/ j \in 1..Len(log) /\ log'[j] = log[j] /\ log[j] \in Nat
               \/ j = Len(log) + 1 /\ log'[j] = time
    BY <1>2, <2>1, SMTT(30)
  <2>3. RoundsBelow'
    <3> SUFFICES ASSUME d <= I, NEW j \in 1..Len(log') PROVE 2 * log'[j] + I < 2 * (next + I)
      BY <2>1 DEF RoundsBelow
    <3>1. 2 * time < 2 * next + I
      BY <1>3, <2>1 DEF RoundsBelow
    <3>2. j \in 1..Len(log) => 2 * log[j] + I < 2 * next
      BY <1>3 DEF RoundsBelow
    <3>3. I \in Nat /\ next \in Nat /\ time \in Nat
      BY <1>2
    <3> HIDE DEF I
    <3>4. \A x \in Nat : (2 * x < 2 * next + I \/ 2 * x + I < 2 * next) => 2 * x + I < 2 * (next + I)
      BY <3>3
    <3>5. log'[j] \in Nat /\ (2 * log'[j] < 2 * next + I \/ 2 * log'[j] + I < 2 * next)
      BY <2>2, <3>1, <3>2, <3>3
    <3> QED
      BY <3>4, <3>5
  <2>4. LongGaps'
    <3> SUFFICES ASSUME d > I, NEW j \in 1..Len(log') PROVE log'[j] + 0 <= time
      BY <2>1 DEF LongGaps
    <3>1. CASE j \in 1..Len(log) /\ log'[j] = log[j] /\ log[j] \in Nat
      <4>1. log[j] + d <= time
        BY <1>3, <2>1, <3>1 DEF LongGaps
      <4> QED
        BY <1>2, <3>1, <4>1
    <3>2. CASE log'[j] = time
      BY <1>2, <3>2
    <3> QED
      BY <2>2, <3>1, <3>2
  <2>5. Numbered'
    <3> SUFFICES ASSUME NEW j \in 1..Len(log'), NEW i \in 1..j - 1
                 PROVE  Number(log'[i]) < Number(log'[j])
      BY <2>1 DEF Numbered, Number, RelayIndex
    <3>1. i \in 1..Len(log) /\ log'[i] = log[i]
      BY <1>2, <2>1
    <3>2. CASE j \in 1..Len(log) /\ log'[j] = log[j]
      BY <1>3, <3>1, <3>2 DEF Numbered
    <3>3. CASE log'[j] = time
      BY <1>1, <2>1, <3>1, <3>3, NewNumberIsLarger
    <3> QED
      BY <2>2, <3>2, <3>3
  <2> QED
    BY <1>1, <1>7, <2>1, <2>3, <2>4, <2>5, PhaseAdvances DEF StartsFine
<1>8. CASE CloseHistory \/ ClockTerminated \/ UNCHANGED clockVars
  <2>1. /\ UNCHANGED <<cfg, time, next, log>>
        /\ loop' = loop \/ (loop = "step" /\ loop' = "closed")
    BY <1>8 DEF CloseHistory, ClockTerminated, clockVars
  <2> QED
    BY <1>3, <2>1 DEF StartsFine, InPhase, RoundsBelow, LongGaps, Numbered, Number, RelayIndex
<1> QED
  BY <1>4, <1>5, <1>6, <1>7, <1>8 DEF ClockNext

---------------------------------------------------------------------------------
(* The files of the output directory are the records taken from the stream, each *)
(* under its own number: the stored ones and, from its creation until its file is *)
(* finished, the next.                                                         *)
BeingWritten == pc[0] \in {"put", "barrier", "attach"}
FilesNumbered ==
  FineCadence(cfg) =>
    /\ \A i \in DOMAIN files : \E k \in 1..Len(log) :
         /\ i = Number(log[k]) /\ files[i].time = log[k]
         /\ k <= stored \/ (k = stored + 1 /\ BeingWritten)
    /\ \A k \in 1..stored : Number(log[k]) \in DOMAIN files

(* Records with the same number are the same record.                          *)
LEMMA NumbersDiffer ==
  ASSUME IInv, FineInv, FineCadence(cfg),
         NEW j \in 1..Len(log), NEW k \in 1..Len(log), Number(log[j]) = Number(log[k])
  PROVE  j = k
<1>1. /\ j \in Int /\ k \in Int /\ Len(log) \in Nat
      /\ Number(log[j]) \in Nat /\ Number(log[k]) \in Nat
  <2>1. log[j] \in Nat /\ log[k] \in Nat /\ Len(log) \in Nat /\ cfg \in Configs
    BY Types, SMTT(30)
  <2> QED
    BY <2>1, RelayIndexIsNat, SMTT(30) DEF Number
<1>2. ~(j < k)
  BY <1>1 DEF FineInv, Numbered
<1>3. ~(k < j)
  BY <1>1 DEF FineInv, Numbered
<1> QED
  BY <1>1, <1>2, <1>3

(* A step that neither creates nor finishes a file, and only adds to the log.    *)
LEMMA FilesKept ==
  ASSUME IInv, FilesNumbered, cfg' = cfg, stored' = stored,
         Len(log) <= Len(log'), Len(log') \in Nat,
         \A k \in 1..Len(log) : log'[k] = log[k],
         DOMAIN files' = DOMAIN files,
         \A i \in DOMAIN files : files'[i].time = files[i].time,
         BeingWritten => BeingWritten'
  PROVE  FilesNumbered'
<1> SUFFICES ASSUME FineCadence(cfg)
             PROVE  /\ \A i \in DOMAIN files : \E k \in 1..Len(log') :
                         /\ i = Number(log'[k]) /\ files'[i].time = log'[k]
                         /\ k <= stored \/ (k = stored + 1 /\ BeingWritten')
                    /\ \A k \in 1..stored : Number(log'[k]) \in DOMAIN files
  BY DEF FilesNumbered, FineCadence, Number, RelayIndex
<1>1. Len(log) \in Nat /\ stored \in Nat /\ stored <= Len(log)
  BY Types
<1>2. ASSUME NEW i \in DOMAIN files
      PROVE  \E k \in 1..Len(log') : /\ i = Number(log'[k]) /\ files'[i].time = log'[k]
                                     /\ k <= stored \/ (k = stored + 1 /\ BeingWritten')
  <2>1. PICK k \in 1..Len(log) : /\ i = Number(log[k]) /\ files[i].time = log[k]
                                 /\ k <= stored \/ (k = stored + 1 /\ BeingWritten)
    BY <1>2 DEF FilesNumbered
  <2>2. k \in 1..Len(log')
    BY <1>1
  <2> QED
    BY <1>2, <2>1, <2>2
<1>3. ASSUME NEW k \in 1..stored PROVE Number(log'[k]) \in DOMAIN files
  <2>1. k \in 1..Len(log)
    BY <1>1
  <2> QED
    BY <2>1 DEF FilesNumbered
<1> QED
  BY <1>2, <1>3

(* Creating the file of the next record leaves every other file alone: its       *)
(* number is none of theirs.                                                 *)
LEMMA CreateKeepsNumbers ==
  ASSUME IInv, FineInv, FilesNumbered, CreateFile
  PROVE  FilesNumbered'
<1>1. cfg' = cfg /\ log' = log /\ stored' = stored
  BY DEF CreateFile, clockVars
<1>2. BeingWritten' /\ ~BeingWritten
  BY Sizes DEF CreateFile, AllAt, BeingWritten
<1> SUFFICES ASSUME FineCadence(cfg)
             PROVE  /\ \A i \in DOMAIN files' : \E k \in 1..Len(log) :
                         /\ i = Number(log[k]) /\ files'[i].time = log[k]
                         /\ k <= stored + 1
                    /\ \A k \in 1..stored : Number(log[k]) \in DOMAIN files'
  <2>1. Len(log) \in Nat /\ stored \in Nat
    BY Types
  <2>2. \A k \in 1..Len(log) : k <= stored + 1 => k <= stored \/ k = stored + 1
    BY <2>1
  <2> QED
    BY <1>1, <1>2, <2>2 DEF FilesNumbered, FineCadence, Number, RelayIndex
<1> DEFINE n == stored + 1
<1>3. Reading
  BY Sizes DEF CreateFile, AllAt, IInv, Phases, Opening, Filing, Describing, Described
<1>4. ended[0] = n /\ stored < Len(log)
  BY <1>3, Sizes DEF CreateFile, AllAt, Reading
<1>5. n \in 1..Len(log) /\ Len(log) \in Nat /\ stored \in Nat
  BY <1>4, Types
<1>6. files' = [j \in DOMAIN files \cup {Number(log[n])} |->
                  IF j = Number(log[n])
                  THEN [time |-> log[n], rows |-> {}, described |-> FALSE] ELSE files[j]]
  BY <1>4 DEF CreateFile, FileOf, InHand, Number
<1>7. ASSUME NEW i \in DOMAIN files'
      PROVE  \E k \in 1..Len(log) : /\ i = Number(log[k]) /\ files'[i].time = log[k]
                                    /\ k <= n
  <2>1. CASE i = Number(log[n])
    <3>1. files'[i] = [time |-> log[n], rows |-> {}, described |-> FALSE]
      BY <1>6, <2>1
    <3>2. n <= n
      BY <1>5
    <3> QED
      BY <1>5, <2>1, <3>1, <3>2
  <2>2. CASE i # Number(log[n])
    <3>1. i \in DOMAIN files /\ files'[i] = files[i]
      BY <1>6, <1>7, <2>2
    <3>2. PICK k \in 1..Len(log) : i = Number(log[k]) /\ files[i].time = log[k] /\ k <= stored
      BY <1>2, <3>1 DEF FilesNumbered
    <3>3. k <= n
      BY <1>5, <3>2
    <3> QED
      BY <3>1, <3>2, <3>3
  <2> QED
    BY <2>1, <2>2
<1>8. ASSUME NEW k \in 1..stored PROVE Number(log[k]) \in DOMAIN files'
  BY <1>6 DEF FilesNumbered
<1> QED
  BY <1>7, <1>8

(* Finishing the file of the next record stores it.                            *)
LEMMA AttachKeepsNumbers ==
  ASSUME IInv, FilesNumbered, NEW r \in Io, AttachMetadata(r)
  PROVE  FilesNumbered'
<1>1. cfg' = cfg /\ log' = log /\ stored' = stored + 1 /\ pc[r] = "attach"
  BY DEF AttachMetadata, clockVars
<1>2. Describing
  BY <1>1, Sizes DEF IInv, Phases, Opening, AllAt, Reading, Filing, Described
<1>3. FileOf(r) = Current /\ Current = Number(log[stored + 1])
  BY <1>2 DEF Describing, FileOf, InHand, Current, Number
<1>4. /\ Current \in DOMAIN files /\ stored < Len(log)
      /\ \A i \in DOMAIN files : files[i] \in FileRecord
  BY <1>2 DEF IInv, RelayTypeOK, Describing, OneIncomplete
<1>5. Len(log) \in Nat /\ stored \in Nat
  BY Types
<1>6. PICK d \in BOOLEAN : files' = [files EXCEPT ![Current] = [@ EXCEPT !.described = d]]
  BY <1>3 DEF AttachMetadata
<1>7. DOMAIN files' = DOMAIN files /\ \A i \in DOMAIN files : files'[i].time = files[i].time
  BY <1>4, <1>6 DEF FileRecord
<1> SUFFICES ASSUME FineCadence(cfg)
             PROVE  /\ \A i \in DOMAIN files : \E k \in 1..Len(log) :
                         i = Number(log[k]) /\ files[i].time = log[k] /\ k <= stored + 1
                    /\ \A k \in 1..stored + 1 : Number(log[k]) \in DOMAIN files
  BY <1>1, <1>7 DEF FilesNumbered, FineCadence, Number, RelayIndex
<1>8. ASSUME NEW i \in DOMAIN files
      PROVE  \E k \in 1..Len(log) :
               i = Number(log[k]) /\ files[i].time = log[k] /\ k <= stored + 1
  <2>1. PICK k \in 1..Len(log) : /\ i = Number(log[k]) /\ files[i].time = log[k]
                                 /\ k <= stored \/ (k = stored + 1 /\ BeingWritten)
    BY <1>8 DEF FilesNumbered
  <2>2. k <= stored + 1
    BY <1>5, <2>1
  <2> QED
    BY <2>1, <2>2
<1>9. ASSUME NEW k \in 1..stored + 1 PROVE Number(log[k]) \in DOMAIN files
  <2>1. CASE k = stored + 1
    BY <1>3, <1>4, <2>1
  <2>2. CASE k \in 1..stored
    BY <2>2 DEF FilesNumbered
  <2> QED
    BY <1>5, <2>1, <2>2
<1> QED
  BY <1>8, <1>9

LEMMA FilesNumberedPreserved == IInv /\ FineInv /\ FilesNumbered /\ [Next]_vars => FilesNumbered'
<1> SUFFICES ASSUME IInv, FineInv, FilesNumbered, [Next]_vars PROVE FilesNumbered'
  OBVIOUS
<1>0. /\ Len(log) \in Nat /\ log \in Seq(Nat)
      /\ pc \in [Io -> Steps] /\ 0 \in Io
  BY Types, Sizes DEF IInv, RelayTypeOK
<1>1. CASE PublishInitial \/ PublishRecord
  <2>1. /\ cfg' = cfg /\ Len(log') = Len(log) + 1 /\ files' = files /\ stored' = stored
        /\ pc' = pc
        /\ \A k \in 1..Len(log) : log'[k] = log[k]
    BY <1>1, LogGrows DEF PublishInitial, PublishRecord, relayVars
  <2> QED
    BY <1>0, <2>1, FilesKept DEF BeingWritten
<1>2. CASE UNCHANGED <<cfg, log, stored, files>> /\ (BeingWritten => BeingWritten')
  BY <1>0, <1>2, FilesKept
<1>3. CASE OpenWriter \/ StartLoop \/ StepModel \/ CloseWriter
  BY <1>2, <1>3
  DEF OpenWriter, StartLoop, StepModel, CloseWriter, BeginRun, Advance, CloseHistory,
      clockVars, relayVars, BeingWritten
<1>4. CASE Rendezvous \/ Barrier \/ Barrier2 \/ StreamFails
  <2>1. UNCHANGED <<cfg, log, stored, files>>
    BY <1>4 DEF Rendezvous, Barrier, Barrier2, StreamFails, clockVars
  <2>2. BeingWritten => BeingWritten'
    BY <1>0, <1>4 DEF Rendezvous, Barrier, Barrier2, StreamFails, AllAt, BeingWritten
  <2> QED
    BY <1>2, <2>1, <2>2
<1>5. ASSUME NEW r \in Io, RankNext(r) PROVE FilesNumbered'
  <2>1. CASE BeginStep(r) \/ EndOfStream(r) \/ ReadStep(r)
    <3>1. UNCHANGED <<cfg, log, stored, files>>
      BY <2>1 DEF BeginStep, EndOfStream, ReadStep, clockVars
    <3>2. BeingWritten => BeingWritten'
      BY <1>0, <2>1 DEF BeginStep, EndOfStream, ReadStep, Goto, BeingWritten
    <3> QED
      BY <1>2, <3>1, <3>2
  <2>2. CASE PutRows(r)
    <3>1. cfg' = cfg /\ log' = log /\ stored' = stored
      BY <2>2 DEF PutRows, clockVars
    <3> DEFINE m == FileOf(r)
    <3>2. files' = [files EXCEPT ![m] = [files[m] EXCEPT !.rows = files[m].rows \cup RowsOf(r)]]
      BY <2>2 DEF PutRows
    <3> HIDE DEF m
    <3>3. \A i \in DOMAIN files : files[i] \in FileRecord
      BY DEF IInv, RelayTypeOK
    <3>4. DOMAIN files' = DOMAIN files /\ \A i \in DOMAIN files : files'[i].time = files[i].time
      BY <3>2, <3>3 DEF FileRecord
    <3>5. BeingWritten => BeingWritten'
      BY <1>0, <2>2 DEF PutRows, Goto, BeingWritten
    <3> QED
      BY <1>0, <3>1, <3>4, <3>5, FilesKept
  <2>3. CASE AttachMetadata(r)
    BY <2>3, AttachKeepsNumbers
  <2> QED
    BY <1>5, <2>1, <2>2, <2>3 DEF RankNext
<1>6. CASE ComputeFails \/ (\E r \in Io : IoFails(r)) \/ Terminated \/ UNCHANGED vars
  BY <1>2, <1>6
  DEF ComputeFails, IoFails, Terminated, vars, relayVars, clockVars, BeingWritten
<1> QED
  BY <1>1, <1>3, <1>4, <1>5, <1>6, CreateKeepsNumbers
  DEF Next, ComputeNext, IoNext, IoCollective

(* The whole files, but for the one being filed, hold the stored records.       *)
LEMMA FilesNumberedImplies ==
  ASSUME IInv, FineInv, FilesNumbered
  PROVE  StoredRecordsOnDisk
<1> SUFFICES ASSUME FineCadence(cfg)
             PROVE  {files[i].time : i \in {j \in DOMAIN files : Whole(files[j]) /\ ~BeingFiled(j)}}
                      = {log[k] : k \in 1..stored}
  BY DEF StoredRecordsOnDisk
<1>1. stored \in Nat /\ Len(log) \in Nat /\ stored <= Len(log)
  BY Types
<1>2. ASSUME NEW i \in DOMAIN files, ~BeingFiled(i)
      PROVE  \E k \in 1..stored : files[i].time = log[k]
  <2>1. PICK k \in 1..Len(log) : /\ i = Number(log[k]) /\ files[i].time = log[k]
                                 /\ k <= stored \/ (k = stored + 1 /\ BeingWritten)
    BY <1>2 DEF FilesNumbered
  <2>2. ~(k = stored + 1 /\ BeingWritten)
    <3> SUFFICES ASSUME k = stored + 1, BeingWritten PROVE FALSE
      OBVIOUS
    <3>1. 0 \in Holding /\ ended[0] = stored + 1
      BY Sizes
      DEF BeingWritten, Holding, IInv, Phases, Opening, AllAt, Reading, Filing, Describing,
          Described
    <3>2. i = FileOf(0)
      BY <2>1, <3>1 DEF FileOf, InHand, Number
    <3> QED
      BY <1>2, <3>1, <3>2 DEF BeingFiled
  <2>3. k \in 1..stored
    BY <1>1, <2>1, <2>2
  <2> QED
    BY <2>1, <2>3
<1>3. ASSUME NEW k \in 1..stored
      PROVE  \E i \in DOMAIN files : /\ Whole(files[i]) /\ ~BeingFiled(i)
                                     /\ files[i].time = log[k]
  <2> DEFINE i == Number(log[k])
  <2>1. i \in DOMAIN files
    BY DEF FilesNumbered
  <2>2. PICK j \in 1..Len(log) : i = Number(log[j]) /\ files[i].time = log[j]
    BY <2>1 DEF FilesNumbered
  <2>3. k \in 1..Len(log)
    BY <1>1
  <2>4. j = k
    BY <2>2, <2>3, NumbersDiffer
  <2>5. ~BeingFiled(i)
    <3> SUFFICES ASSUME NEW r \in Holding, i = FileOf(r), ended[r] = stored + 1 PROVE FALSE
      BY DEF BeingFiled
    <3>1. r \in Io /\ pc[r] \in {"create", "put", "barrier", "attach", "barrier2"}
      BY DEF Holding
    <3>2. stored < Len(log)
      BY <1>1, <3>1, Types
    <3>3. stored + 1 \in 1..Len(log) /\ k # stored + 1
      BY <1>1, <3>2
    <3>4. i = Number(log[stored + 1])
      BY DEF FileOf, InHand, Number
    <3> QED
      BY <2>3, <3>3, <3>4, NumbersDiffer
  <2>6. Whole(files[i])
    BY <2>1, <2>5, IInvImplies DEF FilesSound
  <2> QED
    BY <2>1, <2>2, <2>4, <2>5, <2>6
<1> QED
  BY <1>2, <1>3

(* For every fine cadence, number of I/O ranks and queue limit, and whatever     *)
(* fails and whenever: the files with every row, but for the one being filed, are *)
(* exactly the stored records, so the relay loses, repeats and overwrites none.  *)
THEOREM RecordsAreOnDisk == Spec => []StoredRecordsOnDisk
<1>1. Init => ClockInv /\ FineInv /\ FilesNumbered
  BY ClockInvInitially, FineInvInitially DEF Init, ClockInit, FilesNumbered
<1>2. IInv /\ [Next]_vars => [ClockNext]_clockVars /\ IInv'
  BY RelayStepsClock, IInvPreserved DEF vars, clockVars
<1>3. ClockInv /\ FineInv /\ [ClockNext]_clockVars => ClockInv' /\ FineInv'
  BY TypePreserved, ClockInvPreserved, FineInvPreserved DEF ClockInv
<1>4. IInv /\ FineInv /\ FilesNumbered => StoredRecordsOnDisk
  BY FilesNumberedImplies
<1> QED
  BY <1>1, <1>2, <1>3, <1>4, IInvInitially, FilesNumberedPreserved, PTL DEF Spec
=================================================================================
