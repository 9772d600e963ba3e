------------------------------ MODULE MCHistoryRelay ------------------------------
(* Three I/O ranks over two rows (the last rank has none) and cadences       *)
(* that fill the queue: dt dividing the interval, not dividing it, equal to  *)
(* it and larger than it, fresh and restarted, up to six records.           *)
EXTENDS HistoryRelay

Cadence(d, i, t, s, o) == [dt |-> d, interval |-> i, total |-> t, start |-> s, initial |-> o]

MCRelayConfigs ==
  {Cadence(1, 2, 6, 0, TRUE), Cadence(2, 5, 16, 0, FALSE), Cadence(2, 2, 8, 4, TRUE),
   Cadence(3, 2, 9, 0, TRUE), Cadence(3, 4, 12, 0, FALSE), Cadence(2, 4, 4, 6, TRUE)}
=================================================================================
