------------------------------- MODULE HistoryLog -------------------------------
(***************************************************************************)
(* What the history output of a run promises, whatever carries it: the      *)
(* records the model hands over become durable one at a time, in order, and *)
(* at most Lag of them (0: any number) are waiting when the output breaks    *)
(* off.  The model may then go on, but none of its records becomes durable.   *)
(***************************************************************************)
EXTENDS Integers, Sequences

CONSTANT Lag

VARIABLES accepted,   \* times of the records handed over, in order
          durable,    \* how many of them are on disk
          broken      \* whether the output has broken off

logVars == <<accepted, durable, broken>>

Init == accepted = <<>> /\ durable = 0 /\ broken = FALSE

(* The clock never goes back: a record is at least as late as the last one.  *)
HandOver ==
  /\ Len(accepted') = Len(accepted) + 1
  /\ SubSeq(accepted', 1, Len(accepted)) = accepted
  /\ Len(accepted) > 0 => accepted[Len(accepted)] < accepted'[Len(accepted')]
  /\ UNCHANGED <<durable, broken>>

Accept ==
  /\ ~broken
  /\ Lag = 0 \/ Len(accepted) - durable < Lag
  /\ HandOver

Drop == broken /\ HandOver

Store ==
  /\ ~broken
  /\ durable < Len(accepted)
  /\ durable' = durable + 1
  /\ UNCHANGED <<accepted, broken>>

Break ==
  /\ ~broken
  /\ broken' = TRUE
  /\ UNCHANGED <<accepted, durable>>

Next == Accept \/ Drop \/ Store \/ Break

Spec == Init /\ [][Next]_logVars /\ WF_logVars(Store)
=================================================================================
