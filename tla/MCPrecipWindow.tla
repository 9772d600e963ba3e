------------------------------ MODULE MCPrecipWindow ------------------------------
(* P3 and CLEO over small cadences: P3 in fresh runs and in runs restarted     *)
(* from a record or from between two; CLEO with coupling intervals that are    *)
(* and are not multiples of dt, longer and shorter than the output interval.  *)
EXTENDS PrecipWindow

Cadence(s, d, i, t, c, from, o) ==
  [scheme |-> s, dt |-> d, interval |-> i, total |-> t, couple |-> c, start |-> from, initial |-> o]

MCPrecipConfigs ==
  {Cadence("p3", d, i, 12, 0, from, o) :
     d \in {1, 2, 3}, i \in 2..6, from \in {0, 3, 4, 6}, o \in BOOLEAN}
    \cup {Cadence("cleo", d, i, 12, c, 0, TRUE) :
            <<d, i, c>> \in {x \in (1..3) \X (1..5) \X {2, 3, 4, 6} : x[3] >= x[1]}}
=================================================================================
