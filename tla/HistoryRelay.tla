------------------------------ MODULE HistoryRelay ------------------------------
(***************************************************************************)
(* A run with output.engine = "SST": the compute ranks, the stream, and the *)
(* I/O server ranks that relay each record into an HDF5 file.               *)
(*                                                                         *)
(* The compute ranks write collectively and are one process here, driven by *)
(* the loop of OutputClock; the I/O ranks are processes of their own.  The  *)
(* stream is ADIOS2's SST engine with the parameters OutputManager gives    *)
(* it: one reader at open, a queue of QueueLimit records (0: no limit) and a *)
(* writer that blocks while it is full.  A record leaves the queue when every I/O rank   *)
(* has ended its step, in order (AlwaysProvideLatestTimestep is off).       *)
(*                                                                         *)
(* Any call of an I/O rank that the code guards with MPI_Abort may fail; an  *)
(* abort stops every process where it is.  Two failures stop nothing: the     *)
(* metadata of a file cannot be attached, or the stream reports an error      *)
(* status, after which the I/O ranks finish as if the stream had ended.       *)
(***************************************************************************)
EXTENDS OutputClock, FiniteSets, Slab

CONSTANTS NIo,          \* I/O server ranks (--io-tasks)
          QueueLimit,   \* output.queue_limit
          NRows         \* extent of the first dimension of a relayed array

ASSUME RelayAssumption ==
  /\ NIo \in Nat \ {0}
  /\ QueueLimit \in Nat
  /\ NRows \in Nat \ {0}

VARIABLES stream,   \* the SST writer: "unopened", "waiting", "open" or "closed"
          pc,       \* pc[r]: where I/O rank r is in run_io_server
          ended,    \* ended[r]: records for which rank r has called EndStep
          files,    \* the .h5 files of the output directory, by file number
          stored,   \* records whose file has been finished, in order
          lost,     \* whether the I/O ranks left the stream on an error status
          aborted   \* the code MPI_Abort was called with, 0 if it was not

relayVars == <<stream, pc, ended, files, stored, lost, aborted>>
vars == <<clockVars, relayVars>>

Io == 0..NIo - 1
Rows == 0..NRows - 1
RowsOf(r) == LocalRange(NRows, NIo, r)

(* The record a rank has read and not yet filed, and its file.             *)
InHand(r) == log[ended[r]]
FileOf(r) == RelayIndex(cfg, InHand(r))

Running == aborted = 0
AllAt(p) == \A r \in Io : pc[r] = p
Goto(r, p) == pc' = [pc EXCEPT ![r] = p]

Init ==
  /\ ClockInit
  /\ stream = "unopened"
  /\ pc = [r \in Io |-> "opening"]
  /\ ended = [r \in Io |-> 0]
  /\ files = << >>
  /\ stored = 0
  /\ lost = FALSE
  /\ aborted = 0

---------------------------------------------------------------------------------
(* The compute ranks.                                                      *)

QueueHasRoomForOneMore ==                                                      \* mutant
  QueueLimit = 0 \/ lost \/ \A r \in Io : Len(log) - ended[r] <= QueueLimit

(* Room in the stream: the records some I/O rank has not ended yet.  A writer *)
(* whose reader has left is not held back.                                 *)
QueueHasRoom ==
  QueueLimit = 0 \/ lost \/ \A r \in Io : Len(log) - ended[r] < QueueLimit

(* The constructor of OutputManager opens the stream after Model::init and  *)
(* waits there for the reader.                                             *)
OpenWriter ==
  /\ Running /\ loop = "setup" /\ stream = "unopened"
  /\ stream' = "waiting"
  /\ UNCHANGED <<clockVars, pc, ended, files, stored, lost, aborted>>

StartLoop ==
  /\ Running /\ stream = "open"
  /\ BeginRun
  /\ UNCHANGED relayVars

StepModel ==
  /\ Running
  /\ Advance
  /\ UNCHANGED relayVars

PublishInitial ==
  /\ Running /\ QueueHasRoom
  /\ WriteInitial
  /\ UNCHANGED relayVars

PublishRecord ==
  /\ Running /\ QueueHasRoom
  /\ WriteOutput
  /\ UNCHANGED relayVars

(* ~OutputManager closes the stream; what is queued can still be read.      *)
CloseWriter ==
  /\ Running
  /\ CloseHistory
  /\ stream' = "closed"
  /\ UNCHANGED <<pc, ended, files, stored, lost, aborted>>

---------------------------------------------------------------------------------
(* The I/O server ranks.                                                   *)

(* inIO.Open: writer and readers meet.                                     *)
Rendezvous ==
  /\ Running /\ stream = "waiting" /\ AllAt("opening")
  /\ stream' = "open"
  /\ pc' = [r \in Io |-> "begin"]
  /\ UNCHANGED <<clockVars, ended, files, stored, lost, aborted>>

(* reader.BeginStep: the next record, or the end of the stream.             *)
BeginStep(r) ==
  /\ Running /\ pc[r] = "begin" /\ ended[r] < Len(log)
  /\ Goto(r, "read")
  /\ UNCHANGED <<clockVars, stream, ended, files, stored, lost, aborted>>

EndOfStreamUndrained(r) ==                                                     \* mutant
  /\ Running /\ pc[r] = "begin" /\ stream = "closed"
  /\ Goto(r, "finished")
  /\ UNCHANGED <<clockVars, stream, ended, files, stored, lost, aborted>>
EndOfStreamAwaited(r) ==                                                       \* mutant
  Running /\ pc[r] = "begin" /\ ended[r] = Len(log) /\ stream = "closed" /\ UNCHANGED vars

EndOfStream(r) ==
  /\ Running /\ pc[r] = "begin" /\ ended[r] = Len(log) /\ stream = "closed"
  /\ Goto(r, "finished")
  /\ UNCHANGED <<clockVars, stream, ended, files, stored, lost, aborted>>

(* BeginStep returns another status than OK, to all ranks alike, before the   *)
(* end of the stream: "SST stream ended." and every rank leaves the loop.      *)
StreamFails ==
  /\ Running /\ stream \in {"open", "closed"} /\ AllAt("begin")
  /\ pc' = [r \in Io |-> "finished"]
  /\ lost' = TRUE
  /\ UNCHANGED <<clockVars, stream, ended, files, stored, aborted>>

(* Gets, PerformGets and EndStep                                           *)
ReadStep(r) ==
  /\ Running /\ pc[r] = "read"
  /\ ended' = [ended EXCEPT ![r] = @ + 1]
  /\ Goto(r, "create")
  /\ UNCHANGED <<clockVars, stream, files, stored, lost, aborted>>

(* The ranks open the .h5 file together; Mode::Write starts it afresh.      *)
CreateFile ==
  /\ Running /\ AllAt("create")
  /\ LET i == FileOf(0)
     IN  files' = [j \in DOMAIN files \cup {i} |->
                     IF j = i THEN [time |-> InHand(0), rows |-> {}, described |-> FALSE]
                              ELSE files[j]]
  /\ pc' = [r \in Io |-> "put"]
  /\ UNCHANGED <<clockVars, stream, ended, stored, lost, aborted>>

(* Put the rank's own rows, EndStep, Close; a rank without rows puts none.  *)
PutRows(r) ==
  /\ Running /\ pc[r] = "put"
  /\ files' = [files EXCEPT ![FileOf(r)].rows = @ \cup RowsOf(r)]
  /\ Goto(r, "barrier")
  /\ UNCHANGED <<clockVars, stream, ended, stored, lost, aborted>>

BarrierOmitted ==                                                              \* mutant
  /\ Running
  /\ \E r \in Io : pc[r] = "barrier" /\ Goto(r, IF r = 0 THEN "attach" ELSE "barrier2")
  /\ UNCHANGED <<clockVars, stream, ended, files, stored, lost, aborted>>

Barrier ==
  /\ Running /\ AllAt("barrier")
  /\ pc' = [r \in Io |-> IF r = 0 THEN "attach" ELSE "barrier2"]
  /\ UNCHANGED <<clockVars, stream, ended, files, stored, lost, aborted>>

(* attach_sst_hdf5_field_metadata, by rank 0 alone.  If the file cannot be    *)
(* reopened, or a dataset in it, the relay prints or skips and goes on.       *)
AttachMetadata(r) ==
  /\ Running /\ pc[r] = "attach"
  /\ \E described \in BOOLEAN : files' = [files EXCEPT ![FileOf(r)].described = described]
  /\ stored' = stored + 1
  /\ Goto(r, "barrier2")
  /\ UNCHANGED <<clockVars, stream, ended, lost, aborted>>

Barrier2Omitted ==                                                             \* mutant
  /\ Running
  /\ \E r \in Io : pc[r] = "barrier2" /\ Goto(r, "begin")
  /\ UNCHANGED <<clockVars, stream, ended, files, stored, lost, aborted>>

Barrier2 ==
  /\ Running /\ AllAt("barrier2")
  /\ pc' = [r \in Io |-> "begin"]
  /\ UNCHANGED <<clockVars, stream, ended, files, stored, lost, aborted>>

(* The catch blocks of run_io_server and main: open (10, also its timeout   *)
(* while the compute ranks still initialise), BeginStep (11), reading (12), *)
(* writing the file (13), and the handler of main for the rest (1).         *)
AbortCodeNegative == [opening |-> 10, begin |-> 11, read |-> 12, create |-> 13, \* mutant
                      put |-> 13, attach |-> -1]
AbortCode == [opening |-> 10, begin |-> 11, read |-> 12, create |-> 13,
              put |-> 13, attach |-> 1]

IoFails(r) ==
  /\ Running /\ pc[r] \in DOMAIN AbortCode
  /\ aborted' = AbortCode[pc[r]]
  /\ UNCHANGED <<clockVars, stream, pc, ended, files, stored, lost>>

(* An exception on the compute ranks reaches main, which aborts.            *)
ComputeFails ==
  /\ Running /\ loop # "closed"
  /\ aborted' = 1
  /\ UNCHANGED <<clockVars, stream, pc, ended, files, stored, lost>>

Terminated ==
  /\ ~Running \/ (loop = "closed" /\ AllAt("finished"))
  /\ UNCHANGED vars

ComputeNext == \/ OpenWriter \/ StartLoop \/ StepModel \/ PublishInitial
               \/ PublishRecord \/ CloseWriter
RankNext(r) == BeginStep(r) \/ EndOfStream(r) \/ ReadStep(r) \/ PutRows(r) \/ AttachMetadata(r)
IoCollective == Rendezvous \/ CreateFile \/ Barrier \/ Barrier2
IoNext == IoCollective \/ StreamFails \/ \E r \in Io : RankNext(r)

Next == \/ ComputeNext \/ IoNext
        \/ ComputeFails \/ \E r \in Io : IoFails(r)
        \/ Terminated

(* Every process keeps running; nothing obliges a call or the stream to fail. *)
Spec == /\ Init /\ [][Next]_vars
        /\ WF_vars(ComputeNext)
        /\ WF_vars(IoCollective)
        /\ \A r \in Io : WF_vars(RankNext(r))

---------------------------------------------------------------------------------
FileRecord == [time : Nat, rows : SUBSET Rows, described : BOOLEAN]
Steps == {"opening", "begin", "read", "create", "put", "barrier", "attach",
          "barrier2", "finished"}

(* The I/O ranks are at known places of run_io_server, the files hold records, *)
(* rows and metadata, and an abort has one of the codes of the source.         *)
RelayTypeOK ==
  /\ ClockTypeOK
  /\ stream \in {"unopened", "waiting", "open", "closed"}
  /\ pc \in [Io -> Steps]
  /\ ended \in [Io -> Nat]
  /\ DOMAIN files \subseteq Nat
  /\ \A i \in DOMAIN files : files[i] \in FileRecord
  /\ stored \in Nat
  /\ lost \in BOOLEAN
  /\ aborted \in {0, 1, 10, 11, 12, 13}

(* The ranks that have taken a record from the stream and not yet come back  *)
(* for the next one all hold the same record: the file they open together,   *)
(* with a name each rank computes for itself, is one file.                   *)
Holding == {r \in Io : pc[r] \in {"create", "put", "barrier", "attach", "barrier2"}}

OneRecordInHand == \A r, s \in Holding : ended[r] = ended[s]

(* A record the compute ranks have handed over is not yet safe on disk; with  *)
(* a queue limit, at most QueueLimit + 1 records are in that state whenever   *)
(* the run is killed: those of the queue and the one being filed.  Once the    *)
(* I/O ranks have left on an error status there is no bound: the compute ranks *)
(* do not hear of it and go on handing over records nobody files.            *)
BoundedLoss == (QueueLimit > 0 /\ ~lost) => Len(log) - stored <= QueueLimit + 1

(* The file of the record the ranks are filing, and a file with every row.    *)
BeingFiled(i) == \E r \in Holding : i = FileOf(r) /\ ended[r] = stored + 1
Whole(f) == f.rows = Rows

(* Whenever the run stops, the only file that can lack rows is the one the     *)
(* ranks were filing, and a file that has its metadata (what a reader takes    *)
(* for complete) has every row.  A finished file may lack its metadata.        *)
FilesSound ==
  \A i \in DOMAIN files :
    /\ files[i].described => Whole(files[i])
    /\ ~Whole(files[i]) => BeingFiled(i)

(* A cadence for which the numbering of the I/O server is one-to-one: dt is   *)
(* at most half the interval, divides it, or exceeds it, and a restarted run  *)
(* starts from a history record.                                             *)
FineCadence(c) ==
  /\ c.start % c.interval = 0
  /\ 2 * c.dt <= c.interval \/ c.interval % c.dt = 0 \/ c.dt > c.interval

(* Under a fine cadence the files with every row, but for the one being        *)
(* filed, are the stored records, each in a file of its own: the relay loses,  *)
(* repeats, reorders and overwrites none of those it has read.               *)
StoredRecordsOnDisk ==
  FineCadence(cfg) =>
    {files[i].time : i \in {j \in DOMAIN files : Whole(files[j]) /\ ~BeingFiled(j)}}
      = {log[k] : k \in 1..stored}

(* Unless some process aborts, the run ends with both sides finished and every *)
(* record the loop wrote stored, unless the stream reported an error.         *)
RelayFinishes ==
  <>(~Running \/ (loop = "closed" /\ AllAt("finished") /\ (lost \/ stored = Len(log))))

(* What a user sees of the relay is a log with a bounded lag.                *)
Lag == IF QueueLimit = 0 THEN 0 ELSE QueueLimit + 1

Abstract == INSTANCE HistoryLog WITH
  accepted <- log, durable <- stored, broken <- ~Running \/ lost

(* The relay implements HistoryLog: every record accepted from the compute    *)
(* ranks is made durable in order and eventually, unless the run aborts or     *)
(* the stream fails; after that nothing more is.                            *)
ImplementsHistoryLog == Abstract!Spec
=================================================================================
