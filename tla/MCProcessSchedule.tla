---------------------------- MODULE MCProcessSchedule ----------------------------
(* An 8-bit step counter: 255, like 2^64 - 1, is divisible by 3, 5 and 15 and *)
(* leaves 15 on division by 24.                                             *)
EXTENDS ForcingTargets

(* Forcing intervals longer than a step, not a multiple of it, equal to it,   *)
(* and so short that a step passes several files.                           *)
MCPlans == [rad : {1, 2, 3, 5}, sfc : {1, 2, 3, 4, 24}, every : {1, 3, 4}, last : {9},
            dt : {2}, interval : {5}]
             \cup [rad : {4}, sfc : {24}, every : {7}, last : {30}, dt : {1}, interval : {6}]
             \cup [rad : {3}, sfc : {4}, every : {2, 3}, last : {9}, dt : {3, 7}, interval : {3, 4}]

(* A fresh run with three steps to an interval.                             *)
FreshPlans == [rad : {3}, sfc : {4}, every : {3}, last : {120}, dt : {1}, interval : {3}]
=================================================================================
