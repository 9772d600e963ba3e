------------------------------ MODULE PrecipWindow ------------------------------
(***************************************************************************)
(* The surface precipitation of a history record: precip_liq_surf_mass.      *)
(*                                                                         *)
(* The microphysics (P3 or CLEO) adds to the field on every step, turns the  *)
(* sum into a mean on the step before a record, and clears it on the step    *)
(* after.  It keeps its own idea of when a record is due, beside the output   *)
(* clock of main.cpp: P3 counts its calls, CLEO repeats the clock's formula.  *)
(*                                                                         *)
(* A restarted run begins a new window: VVM_P3_Interface::initialize, which    *)
(* registers the field, comes after Initializer::load_restart, so the sum     *)
(* and the counters start from nothing and P3 counts from the restart on.     *)
(*                                                                         *)
(* The field is abstracted to where its content comes from: it maps the time *)
(* at which each contribution starts to the divisors applied to it since.    *)
(***************************************************************************)
EXTENDS OutputClock, FiniteSets, SequencesExt

(* A configuration also names the scheme and, for CLEO, timesteps_s.coupling. *)
Schemes == {"p3", "cleo"}

ASSUME PrecipAssumption ==
  \A c \in Configs :
    /\ c.scheme \in Schemes
    \* the constructor of VVM_CLEO_Interface; no restart with CLEO (cleo.md)
    /\ c.scheme = "cleo" => /\ c.couple \in Nat /\ c.couple >= c.dt
                            /\ c.total % c.couple = 0 /\ c.start = 0
    \* P3 takes the remainder by round(interval / dt)
    /\ c.scheme = "p3" => c.dt <= 2 * c.interval

VARIABLES acc,        \* precip_liq_surf_mass
          clear,      \* m_need_reset_precip, need_reset_precip
          calls,      \* P3: m_infrastructure.it
          coupled,    \* CLEO: next_couple_s
          span,       \* CLEO: precip_window_s
          due,        \* CLEO: next_output_s, -1 before the first call
          written     \* the field in each record of log

precipVars == <<acc, clear, calls, coupled, span, due, written>>
vars == <<clockVars, precipVars>>

Empty == [t \in {} |-> <<>>]
AddAt(a, t) == [u \in DOMAIN a \cup {t} |-> IF u \in DOMAIN a THEN a[u] ELSE <<>>]
DividedByTimeBefore(a, d) == [u \in DOMAIN a |-> Append(a[u], d - cfg.dt)]      \* mutant
DividedBy(a, d) == [u \in DOMAIN a |-> Append(a[u], d)]

Init ==
  /\ ClockInit
  /\ acc = Empty
  /\ clear = FALSE
  /\ calls = 0
  /\ coupled = 0
  /\ span = 0
  /\ due = -1
  /\ written = <<>>

NotCleared == acc                                                              \* mutant
Cleared == IF clear THEN Empty ELSE acc

(* VVM_P3_Interface::run                                                    *)
OutputSteps == (2 * cfg.interval + cfg.dt) \div (2 * cfg.dt)   \* std::round(interval / dt)
AfterOutputStep == calls % OutputSteps = 0                                     \* mutant
AtOutputStep == (calls + 1) % OutputSteps = 0

RunP3 ==
  /\ cfg.scheme = "p3"
  /\ calls' = calls + 1
  /\ acc' = IF AtOutputStep THEN DividedBy(AddAt(Cleared, time), cfg.interval)
                            ELSE AddAt(Cleared, time)
  /\ clear' = AtOutputStep
  /\ UNCHANGED <<coupled, span, due>>

(* VVM_CLEO_Interface::Impl::run.  A coupling brings the rain of one coupling *)
(* interval, which starts at the time CLEO has reached.                      *)
Couples == coupled < cfg.total /\ 2 * time + cfg.dt >= 2 * coupled
DueTime == IF due < 0 THEN (time \div cfg.interval + 1) * cfg.interval ELSE due
Averages == time + cfg.dt >= DueTime
Span == IF Couples THEN span + cfg.couple ELSE span
Collected == IF Couples THEN AddAt(Cleared, coupled) ELSE Cleared

RunCleo ==
  /\ cfg.scheme = "cleo"
  /\ coupled' = IF Couples THEN coupled + cfg.couple ELSE coupled
  /\ acc' = IF Averages /\ Span > 0 THEN DividedBy(Collected, Span) ELSE Collected
  /\ due' = IF Averages THEN DueTime + cfg.interval ELSE DueTime
  /\ span' = IF Averages THEN 0 ELSE Span
  /\ clear' = Averages
  /\ UNCHANGED calls

RunStep == Advance /\ (RunP3 \/ RunCleo) /\ UNCHANGED written

(* history_writer->write stores the field as it is.                         *)
StoreField == written' = Append(written, acc) /\ UNCHANGED <<acc, clear, calls, coupled, span, due>>

StartLoop == BeginRun /\ UNCHANGED precipVars
FirstRecord == WriteInitial /\ StoreField
Record == WriteOutput /\ StoreField
Close == CloseHistory /\ UNCHANGED precipVars

Terminated == ClockTerminated /\ UNCHANGED precipVars

Next == StartLoop \/ FirstRecord \/ RunStep \/ Record \/ Close \/ Terminated

Spec == Init /\ [][Next]_vars

---------------------------------------------------------------------------------
(* The counters are natural numbers, each record has its field, and nothing is *)
(* divided by zero.                                                        *)
PrecipTypeOK ==
  /\ ClockTypeOK
  /\ clear \in BOOLEAN
  /\ calls \in Nat /\ coupled \in Nat /\ span \in Nat
  /\ due \in Int
  /\ Len(written) = Len(log)
  /\ \A t \in DOMAIN acc : acc[t] \in Seq(Nat \ {0})

Length == IF cfg.scheme = "p3" THEN cfg.dt ELSE cfg.couple   \* time one contribution stands for
LoopWritten == IF cfg.initial /\ Len(written) > 0 THEN Tail(written) ELSE written

Contributed ==
  IF cfg.scheme = "p3" THEN {cfg.start + i * cfg.dt : i \in 0..calls - 1}
  ELSE {i * cfg.couple : i \in 0..coupled \div cfg.couple - 1}

(* A record of the loop holds a mean: each contribution has been divided     *)
(* once, by the time all contributions of the record stand for.              *)
IsMean(f) == \A t \in DOMAIN f : f[t] = <<Cardinality(DOMAIN f) * Length>>

(* P3 counts steps from the start of the run, so it follows the output clock   *)
(* only if dt divides the interval and the run starts at the time of a record; *)
(* CLEO repeats the clock's own test and follows it at any cadence.          *)
Regular ==
  cfg.scheme = "cleo" \/ (cfg.interval % cfg.dt = 0 /\ cfg.start % cfg.interval = 0)

(* Every record the loop writes holds the mean over its own window, although  *)
(* the microphysics and main.cpp decide separately when a window ends, and    *)
(* P3 after a restart from an empty field and a new count.                   *)
RecordsAreMeans ==
  Regular => \A k \in 1..Len(LoopWritten) : IsMean(LoopWritten[k])

(* No rain is left out of the records or counted in two of them: what the     *)
(* scheme has contributed since the run started is in exactly one record, or   *)
(* still in the field on its way to the next.                               *)
RainCountedOnce ==
  Regular =>
    /\ \A i, j \in 1..Len(LoopWritten) :
         i # j => DOMAIN LoopWritten[i] \cap DOMAIN LoopWritten[j] = {}
    /\ (UNION {DOMAIN LoopWritten[k] : k \in 1..Len(LoopWritten)}) \cup DOMAIN acc = Contributed
=================================================================================
