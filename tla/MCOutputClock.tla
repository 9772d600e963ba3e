------------------------------ MODULE MCOutputClock ------------------------------
(* A fresh run and runs restarted at a multiple of dt, over every cadence    *)
(* with dt and interval up to 5, dt dividing the interval or not, smaller or *)
(* larger than it.                                                          *)
EXTENDS OutputClock

MCConfigs ==
  {c \in [dt : 1..5, interval : 1..5, total : {0, 11, 15}, start : 0..6, initial : BOOLEAN] :
     c.start % c.dt = 0}
=================================================================================
