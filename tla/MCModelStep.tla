------------------------------- MODULE MCModelStep ------------------------------
(***************************************************************************)
(* Configurations for TLC.  A number stands for a combination of the switches; *)
(* the combinations the model refuses or does not reach are not run.           *)
(***************************************************************************)
EXTENDS ModelStep

MCHalo == 2

Switch(n, k) == (n \div 2^k) % 2 = 1
Choice(n, k, options) == options[((n \div 2^k) % Len(options)) + 1]

(* Two bits of n choose one of four.                                          *)
CartesianRun(n) ==
  LET tracers == Switch(n, 8)
      idealized == Switch(n, 9)
  IN [map |-> "cartesian", bounded |-> FALSE, terrain |-> FALSE, canonical |-> FALSE,
      start |-> IF Switch(n, 0) THEN "restart" ELSE "bubble",
      turbulence |-> Switch(n, 1),
      micro |-> IF idealized THEN "none" ELSE Choice(n, 2, <<"none", "p3", "cleo", "p3">>),
      random |-> ~idealized /\ (n \div 4) % 4 = 3,
      surface |-> ~tracers /\ ~idealized /\ Switch(n, 4),
      sponge |-> ~tracers /\ ~idealized /\ Switch(n, 5),
      areamn |-> ~tracers /\ ~idealized /\ Switch(n, 6),
      predict |-> tracers \/ idealized \/ ~Switch(n, 6) \/ Switch(n, 7),
      diagnose |-> ~tracers /\ ~idealized /\ ~Switch(n, 6) /\ Switch(n, 7),
      idealized |-> IF idealized THEN Choice(n, 4, <<"twisting", "advection_u">>) ELSE "none",
      wind |-> ~idealized,
      tracer |-> IF tracers THEN Choice(n, 4, <<"ab2", "ssprk2">>) ELSE "none",
      source |-> tracers /\ Switch(n, 5),
      nudged |-> IF ~tracers \/ idealized THEN {}
                 ELSE Choice(n, 6, <<{}, {"th", "qv"}, {},
                                     IF Switch(n, 1) THEN {"th", "tracer"} ELSE {"th"}>>),
      swapped |-> IF tracers /\ Switch(n, 4) THEN {} ELSE Vorticity]

MappedRun(n) ==
  LET tracers == Switch(n, 8)
      kind == Choice(n, 2, <<"skew", "orthogonal", "orthogonal", "skew">>)
  IN [map |-> kind, bounded |-> (n \div 4) % 4 = 2, terrain |-> Switch(n, 9),
      start |-> Choice(n, 0, <<"profile", "bubble", "restart", "restart">>),
      canonical |-> n % 4 = 2 \/ (n % 4 = 3 /\ kind = "skew"),
      turbulence |-> Switch(n, 4),
      micro |-> IF Switch(n, 5) THEN "p3" ELSE "none",
      random |-> tracers /\ Switch(n, 5) /\ Switch(n, 2),
      surface |-> ~tracers /\ Switch(n, 6),
      sponge |-> ~tracers /\ Switch(n, 7),
      areamn |-> ~tracers /\ (n \div 4) % 4 = 3,
      predict |-> TRUE, diagnose |-> FALSE, idealized |-> "none", wind |-> TRUE,
      tracer |-> IF tracers THEN Choice(n, 6, <<"ab2", "ssprk2">>) ELSE "none",
      source |-> tracers /\ Switch(n, 7),
      nudged |-> IF tracers /\ Switch(n, 4) THEN {"th", "tracer"} ELSE {},
      swapped |-> IF tracers /\ Switch(n, 7) THEN {} ELSE Vorticity]

MCConfiguration ==
  <<>> \o [n \in 1..2048 |-> IF n <= 1024 THEN CartesianRun(n - 1) ELSE MappedRun(n - 1025)]

(* Switches without effect are off.                                          *)
MCRuns ==
  {n \in 1..1024 : Switch(n - 1, 9) => {k \in {0, 2, 3, 5, 6, 7} : Switch(n - 1, k)} = {}}
    \cup {n \in 1025..2048 : (n - 1025) % 4 = 3 => ~MappedRun(n - 1025).canonical}

(* A sounding with a sheared wind and no perturbation, as in the shipped case.  *)
ProfileConfiguration ==
  <<>> \o [n \in 1..128 |-> [CartesianRun(n - 1) EXCEPT !.start = "profile"]]
ProfileRuns == 1..128
=================================================================================
