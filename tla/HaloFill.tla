--------------------------------- MODULE HaloFill -------------------------------
(***************************************************************************)
(* What a halo exchange promises, whatever carries it: a rank computes its     *)
(* next generation only from halos that hold the last one of its neighbours.   *)
(***************************************************************************)
EXTENDS Naturals

VARIABLES near,      \* near[r]: the neighbours of rank r, never changed
          computed,  \* computed[r]: the generation in the interior of r
          filled     \* filled[r]: the generation in all of its halo

fillVars == <<near, computed, filled>>

Init == /\ near \in [DOMAIN near -> SUBSET DOMAIN near]
        /\ computed = [r \in DOMAIN near |-> 0]
        /\ filled = [r \in DOMAIN near |-> 0]

Compute(r) == /\ computed'[r] = computed[r] + 1
              /\ filled[r] = computed[r]
              /\ computed' = [computed EXCEPT ![r] = @ + 1]
              /\ UNCHANGED <<near, filled>>

Fill(r) == /\ filled'[r] = computed[r] /\ filled[r] < computed[r]
           /\ \A s \in near[r] : computed[s] >= computed[r]
           /\ filled' = [filled EXCEPT ![r] = computed[r]]
           /\ UNCHANGED <<near, computed>>

Next == \E r \in DOMAIN near : Compute(r) \/ Fill(r)

Spec == Init /\ [][Next]_fillVars

---------------------------------------------------------------------------------
FillTypeOK == /\ near \in [DOMAIN near -> SUBSET DOMAIN near]
              /\ computed \in [DOMAIN near -> Nat]
              /\ filled \in [DOMAIN near -> Nat]

(* What a halo holds is what its rank has computed or the generation before,   *)
(* and its neighbours have computed it.                                     *)
FilledBehind == \A r \in DOMAIN near :
  /\ computed[r] \in {filled[r], filled[r] + 1}
  /\ \A s \in near[r] : filled[r] <= computed[s]

(* No rank runs more than one generation ahead of a neighbour, however many    *)
(* exchanges its script has: the exchange is its only synchronization.        *)
OneGenerationAhead == \A r \in DOMAIN near : \A s \in near[r] : computed[r] <= computed[s] + 1
=================================================================================
