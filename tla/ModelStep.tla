-------------------------------- MODULE ModelStep -------------------------------
(***************************************************************************)
(* The fields of a run over its initialization and its steps: how deep the    *)
(* halo of each still is that of its interior, which of two copies of a       *)
(* quantity has been changed alone, which wind the cached mean wind is that   *)
(* of, and which storage the captured graphs of the wind solver read.         *)
(*                                                                         *)
(* The routines of Model and DynamicalCore are programs (StepProgram); here    *)
(* the operations they are made of act on that state, one at a time.  A run   *)
(* has one configuration and repeats its step for ever.                       *)
(***************************************************************************)
EXTENDS StepProgram

CONSTANTS
  Configuration,   \* a sequence of configurations
  Runs             \* those of them that are run

ASSUME RunsAssumption ==
  Configuration \in Seq(Configurations) /\ Runs \subseteq DOMAIN Configuration

VARIABLES
  number,   \* of the configuration
  pc,       \* next operation
  halo,     \* field -> layers of its halo that follow its interior
  ahead,    \* fields changed since they last agreed with their partner
  mean,     \* MeanWindState, and whether the wind is still the one it was made of
  storage,  \* vorticity whose storage is exchanged with its previous state's
  graphs    \* storage of zeta -> storage the graph captured for it reads

vars == <<number, pc, halo, ahead, mean, storage, graphs>>

run == Configuration[number]

(* `<<>> \o' adds nothing: it makes TLC tabulate the programs.                *)
Code == LET all == Configuration
        IN <<>> \o [n \in DOMAIN all |-> Initialization(all[n]) \o Step(all[n])]
FirstOfStep == LET all == Configuration
               IN <<>> \o [n \in DOMAIN all |-> Len(Initialization(all[n])) + 1]

Variants == {"Scalar", "Xi", "Eta", "Zeta"}
NoMean == [variant |-> "None", step |-> "before", present |-> FALSE]

Init == /\ number \in Runs
        /\ pc = 1
        /\ halo = [f \in Fields |-> Halo]
        /\ ahead = {}
        /\ mean = NoMean
        /\ storage = {}
        /\ graphs = <<>>

---------------------------------------------------------------------------------
Instruction == Code[number][pc]
At(op) == Instruction.op = op
Advance == pc' = pc + 1 /\ UNCHANGED number

MeanOf == {"u_con", "v_con", "w"}

(* fs receive new values: the mean wind, if made of one of them, is outdated.  *)
Renew(fs) == mean' = [mean EXCEPT !.present = @ /\ fs \cap MeanOf = {}]

WriteFields ==
  /\ At("write") /\ Advance
  /\ LET fs == Instruction.fields IN
     /\ halo' = [f \in Fields |-> IF f \in fs THEN Instruction.depth ELSE halo[f]]
     /\ ahead' = (ahead \ (fs \cup Partners(fs))) \cup {f \in fs : Partners({f}) \ fs # {}}
     /\ Renew(fs)
  /\ UNCHANGED <<storage, graphs>>

ExchangeFields ==
  /\ At("exchange") /\ Advance
  /\ halo' = [f \in Fields |->
                IF f \in Instruction.fields /\ halo[f] < Instruction.depth
                THEN Instruction.depth ELSE halo[f]]
  /\ UNCHANGED <<ahead, mean, storage, graphs>>

(* The result is as deep as the shallowest source, less what the stagger costs. *)
SourceDepth == CHOOSE d \in 0..Halo :
                 /\ \E f \in Instruction.from : halo[f] = d
                 /\ \A f \in Instruction.from : halo[f] >= d
DerivedDepth == IF SourceDepth > Instruction.depth THEN SourceDepth - Instruction.depth ELSE 0

DeriveFields ==
  /\ At("derive") /\ Advance
  /\ LET from == Instruction.from
         to == Instruction.fields
         agreeing == {f \in to : Partners({f}) \cap from # {}}
         alone == {f \in to \ agreeing : Partners({f}) \ to # {}}
     IN /\ halo' = [f \in Fields |-> IF f \in to THEN DerivedDepth ELSE halo[f]]
        /\ ahead' = (ahead \ (agreeing \cup Partners(to))) \cup alone
        /\ Renew(to)
  /\ UNCHANGED <<storage, graphs>>

ReadFields == At("read") /\ Advance /\ UNCHANGED <<halo, ahead, mean, storage, graphs>>

(* MeanWindState::holds, and the computation when it does not.                *)
HoldsAny(variant) == mean.variant # "None" /\ mean.step = "this"              \* mutant
Holds(variant) == mean.variant = variant /\ mean.step = "this"

ComputeMeanWind ==
  /\ At("mean") /\ Advance
  /\ IF Holds(Instruction.variant) THEN UNCHANGED <<halo, mean>>
     ELSE /\ halo' = [halo EXCEPT !["mean_wind"] = Halo]
          /\ mean' = [variant |-> Instruction.variant, step |-> "this", present |-> TRUE]
  /\ UNCHANGED <<ahead, storage, graphs>>

AdvectFields == At("advect") /\ Advance /\ UNCHANGED <<halo, ahead, mean, storage, graphs>>

InvalidateMeanWind ==
  /\ At("invalidate") /\ Advance
  /\ mean' = NoMean
  /\ UNCHANGED <<halo, ahead, storage, graphs>>

(* What follows may not happen: a process that is not due, a sweep that is not  *)
(* needed.                                                                 *)
Skip ==
  /\ At("perhaps")
  /\ pc' = pc + 1 + Instruction.skip
  /\ UNCHANGED <<number, halo, ahead, mean, storage, graphs>>
Enter == At("perhaps") /\ Advance /\ UNCHANGED <<halo, ahead, mean, storage, graphs>>

(* A variable with AB2 terms exchanges its storage with its previous state's.   *)
SwapFields ==
  /\ At("swap") /\ Advance
  /\ storage' = (storage \ Instruction.fields) \cup (Instruction.fields \ storage)
  /\ UNCHANGED <<halo, ahead, mean, graphs>>

(* WindSolver::execute_generalized_wind_diagnostic with NCCL: a graph is        *)
(* captured for each allocation of zeta and replayed when it comes again.       *)
Captured == IF run.terrain THEN storage \cap {"zeta"} ELSE storage
SingleGraph == "any"                                                          \* mutant
GraphKey == IF "zeta" \in storage THEN "previous" ELSE "own"

LaunchOrCapture ==
  /\ At("graph") /\ Advance
  /\ IF GraphKey \in DOMAIN graphs THEN UNCHANGED graphs
     ELSE graphs' = [k \in DOMAIN graphs \cup {GraphKey} |->
                       IF k = GraphKey THEN Captured ELSE graphs[k]]
  /\ UNCHANGED <<halo, ahead, mean, storage>>

FinishStep ==
  /\ At("done")
  /\ pc' = FirstOfStep[number]
  /\ mean' = [mean EXCEPT !.step = "before"]
  /\ UNCHANGED <<number, halo, ahead, storage, graphs>>

Next == \/ WriteFields \/ ExchangeFields \/ DeriveFields \/ ReadFields
        \/ ComputeMeanWind \/ AdvectFields \/ InvalidateMeanWind
        \/ Skip \/ Enter \/ SwapFields \/ LaunchOrCapture \/ FinishStep

Spec == Init /\ [][Next]_vars

---------------------------------------------------------------------------------
Needs(variant) == IF variant = "Scalar" THEN 0 ELSE 1

(* No stencil reaches into a layer of a halo that does not follow the interior *)
(* of the neighbour: of the fields a routine reads, of those it transports,    *)
(* and of the wind the mean wind is made of.  This is what makes a result       *)
(* independent of the decomposition (DynamicalCore, Model::run_step).          *)
HalosFreshWhereRead ==
  /\ (At("read") \/ At("advect")) =>
       \A f \in Instruction.fields : halo[f] >= Instruction.depth
  /\ (At("mean") /\ ~Holds(Instruction.variant)) =>
       \A f \in MeanOf : halo[f] >= Needs(Instruction.variant)

(* The sum of the condensates is no representation of its own.                *)
Stale(fs) == {f \in fs \ {"condensate", "qp"} : Partners({f}) \cap ahead # {}}

(* The physical and the canonical components of the vorticity and of the wind   *)
(* describe one state: what was changed in one of them is neither overwritten   *)
(* from the other nor ignored by a reader of the other                         *)
(* (DynamicalCore::sync_*, finish_physical_vorticity_update).                  *)
CopiesNeverDiverge ==
  /\ At("derive") =>
       \A f \in Instruction.fields \ {"condensate", "qp"} :
         (f \in ahead /\ Partners({f}) \cap Instruction.from # {}) => f \in Instruction.from
  /\ (At("read") \/ At("advect") \/ At("derive")) =>
       LET used == IF At("derive") THEN Instruction.from ELSE Instruction.fields
       IN \A f \in Stale(used) : Partners({f}) \cap used # {}

(* A variable is transported by the mean wind of its own location, made of the  *)
(* wind the state holds: not of the one before the last solve                  *)
(* (AdvectionTerm::compute_tendency_impl, MeanWindState).                      *)
MeanWindIsPresent == At("advect") => mean.present /\ mean.variant = Instruction.variant

(* On a mapped grid the buoyancy sees the condensate that this step's diffusion *)
(* and boundaries left (Model::run_step, "refresh it here so buoyancy sees").  *)
BuoyancySeesPresentCondensate ==
  (At("read") /\ "qp" \in Instruction.fields /\ ~Cartesian(run) /\ run.micro = "p3") =>
    "condensate" \notin ahead

(* The graph that is replayed reads the storage the vorticity is in            *)
(* (WindSolver::execute_generalized_wind_diagnostic).                          *)
GraphReadsPresentState ==
  (At("graph") /\ GraphKey \in DOMAIN graphs) => graphs[GraphKey] = Captured
=================================================================================
