------------------------------- MODULE StepProgram ------------------------------
(***************************************************************************)
(* The program of a model step: which fields each routine of Model::init and  *)
(* Model::run_step reads, and how deep into their halos, which it writes,     *)
(* exchanges or derives from others, in the order of the code.               *)
(*                                                                         *)
(* A program is a sequence of operations.  A field is a name; names that are  *)
(* always read and written together are one: "condensate" for qc, qr, qi, nc, *)
(* nr, ni, bm, qm, "psi" for psi and chi, "R" for the deformation, "mean_wind" *)
(* for u_mean, v_mean, w_mean, "vorticity_topo", "wind_topo" and "before" for  *)
(* the components.  Vertical and physical horizontal boundary values, columns  *)
(* (radiation, land) and the values of anything are left out.                *)
(***************************************************************************)
EXTENDS Integers, Sequences, SequencesExt

CONSTANT Halo      \* Grid::get_halo_cells

ASSUME HaloAssumption == Halo \in Nat \ {0, 1}

Vorticity == {"xi", "eta", "zeta"}
CanonicalVorticity == {"xi_con", "eta_con", "zeta_con"}
Fields ==
  Vorticity \cup CanonicalVorticity \cup
  {"th", "qv", "T", "condensate", "qp", "tracer", "u", "v", "w", "u_con", "v_con", "before",
   "wind_topo", "vorticity_topo", "W3DNM1", "w_guess", "psi", "psinm1", "psi_guess",
   "R", "RKM", "RKH", "VEN2D", "mean_wind", "covariant_wind"}

(* A physical field and the canonical one of the same quantity.  qp is the    *)
(* sum of the condensates.                                                 *)
Copies == {{"xi", "xi_con"}, {"eta", "eta_con"}, {"zeta", "zeta_con"}, {"u", "u_con"},
           {"v", "v_con"}, {"condensate", "qp"}}
Partners(fs) == UNION {c \ fs : c \in {d \in Copies : d \cap fs # {}}}

---------------------------------------------------------------------------------
(* The operations.                                                         *)
Read(fs, depth) == <<[op |-> "read", fields |-> fs, depth |-> depth]>>
Write(fs, depth) == <<[op |-> "write", fields |-> fs, depth |-> depth]>>
ExchangeTo(fs, depth) == <<[op |-> "exchange", fields |-> fs, depth |-> depth]>>
Exchange(fs) == ExchangeTo(fs, Halo)

(* A pointwise or staggered transformation on the whole arrays; `loss' layers  *)
(* of the result mix in values from beyond the array.                       *)
Derive(from, to, loss) == <<[op |-> "derive", from |-> from, fields |-> to, depth |-> loss]>>

(* x += dt * tendency in the interior.                                      *)
Update(fs) == Read(fs, 0) \o Write(fs, 0)

MeanWind(variant) == <<[op |-> "mean", variant |-> variant]>>
Transport(fs, depth, variant) ==
  <<[op |-> "advect", fields |-> fs \cup {"mean_wind"}, depth |-> depth, variant |-> variant]>>
Invalidate == <<[op |-> "invalidate"]>>
SwapStorage(fs) == <<[op |-> "swap", fields |-> fs]>>
LaunchGraph == <<[op |-> "graph"]>>
StepDone == <<[op |-> "done"]>>

When(c, program) == IF c THEN program ELSE <<>>
Perhaps(program) == <<[op |-> "perhaps", skip |-> Len(program)]>> \o program

(* A relaxation: each sweep reads the last iterate and refreshes one layer.    *)
Sweeps(guess) == LET sweep == Read({guess}, 1) \o Write({guess}, 0) \o ExchangeTo({guess}, 1)
                 IN sweep \o Perhaps(sweep)

---------------------------------------------------------------------------------
(* What the configuration says of the step: the kind of the map, where the run  *)
(* starts, which processes are on, a prescribed test (by name), the tracer's    *)
(* scheme, the targets of the lateral nudging, and the components of the        *)
(* vorticity with AB2 terms, which exchange their storage.                   *)
Configurations ==
  [map : {"cartesian", "orthogonal", "skew"}, bounded : BOOLEAN, terrain : BOOLEAN,
   start : {"profile", "bubble", "restart"}, canonical : BOOLEAN, idealized : STRING,
   wind : BOOLEAN, diagnose : BOOLEAN, predict : BOOLEAN,
   turbulence : BOOLEAN, surface : BOOLEAN, sponge : BOOLEAN, random : BOOLEAN,
   areamn : BOOLEAN, micro : {"none", "p3", "cleo"}, tracer : {"none", "ab2", "ssprk2"},
   source : BOOLEAN, nudged : SUBSET {"th", "qv", "condensate", "tracer"},
   swapped : SUBSET Vorticity]

(* What a configuration makes of the step.                                  *)
Cartesian(run) == run.map = "cartesian"
Loss(run) == IF run.map = "skew" THEN 1 ELSE 0
PhysicalVorticityUpdates(run) == run.turbulence \/ run.sponge \/ run.surface \/ run.areamn

P3Fields(run) == IF run.micro = "p3" THEN {"condensate"} ELSE {}
Scalars(run) ==
  {"th", "qv"} \cup P3Fields(run) \cup (IF run.tracer = "none" THEN {} ELSE {"tracer"})
SingleStage(run) == IF run.tracer = "ssprk2" THEN Scalars(run) \ {"tracer"} ELSE Scalars(run)

ThermodynamicsVarsAsP3(run) == {"th", "qv"} \cup P3Fields(run)                  \* mutant
ThermodynamicsVars(run) ==
  IF run.turbulence THEN Scalars(run) ELSE {"th", "qv"} \cup P3Fields(run)

---------------------------------------------------------------------------------
(* Copies of the vorticity and of the wind (DynamicalCore).                   *)
SyncPhysical(run) == Derive({"xi_con", "eta_con"}, {"xi", "eta"}, Loss(run))

CopyZeta == Derive({"zeta"}, {"zeta_con"}, 0)

SyncContravariant(run) == Derive({"xi", "eta"}, {"xi_con", "eta_con"}, Loss(run)) \o CopyZeta

ShadowWind(run) == Derive({"u", "v"}, {"u_con", "v_con"}, Loss(run))

ZetaStructure(run) ==
  When(Cartesian(run), Read({"xi", "eta"}, 1) \o Update({"zeta"}) \o Exchange({"zeta"}))

BeginPhysicalUpdate(run) ==
  When(~Cartesian(run), Derive({"xi", "eta"}, {"before"}, 0))

(* The increments of the physical components are imported, not their values.  *)
FinishWithoutImport(run) ==                                                   \* mutant
  IF Cartesian(run) THEN SyncContravariant(run)
  ELSE Exchange({"xi_con", "eta_con"}) \o CopyZeta
FinishPhysicalUpdate(run) ==
  IF Cartesian(run) THEN SyncContravariant(run)
  ELSE Derive({"xi", "eta", "before", "xi_con", "eta_con"}, {"xi_con", "eta_con"}, Loss(run))
         \o Exchange({"xi_con", "eta_con"}) \o CopyZeta

---------------------------------------------------------------------------------
(* Transport and sources of the scalars.                                    *)
(* Each face takes two values on either side.                               *)
FluxConvergenceZ(fs, variant) == Transport(fs, 0, variant)
TakacsTransport(fs, variant) == Transport(fs, 2, variant) \o FluxConvergenceZ(fs, variant)
GeneralizedTransport(fs) == Transport(fs, 2, "Scalar")

AdvectScalars(run, fs) ==
  MeanWind("Scalar")
    \o IF Cartesian(run) THEN TakacsTransport(fs, "Scalar") ELSE GeneralizedTransport(fs)

ThermoTendencies(run) == AdvectScalars(run, SingleStage(run))

(* MUSCL reconstructs the first halo cell too: it is the donor of a face.      *)
MusclReconstruct(fs) == Read(fs, 2)
MusclDonorFactors(fs) == Transport({}, 2, "Scalar") \o Read(fs, 1)
MusclFluxes(fs) == Transport(fs, 1, "Scalar")

StageOfTracer ==
  LET fs == {"tracer"}
  IN MeanWind("Scalar") \o MusclReconstruct(fs) \o MusclDonorFactors(fs) \o MusclFluxes(fs)
       \o Update(fs) \o Exchange(fs)
UpdateThermo(run) ==
  When(run.tracer = "ssprk2", StageOfTracer \o StageOfTracer)
    \o Update(SingleStage(run)) \o Exchange(SingleStage(run))

ApplyTracerSource(run) == When(run.source, Update({"tracer"}) \o Exchange({"tracer"}))

ApplyRandomForcing(run) == When(run.random, Update({"th"}))

(* refresh_total_condensate sums whole arrays.                              *)
RefreshCondensate == Derive({"condensate"}, {"qp"}, 0)

RunP3(run) ==
  When(run.micro = "p3",
       Read({"th", "qv", "condensate"}, 0) \o Write({"th", "qv", "condensate", "T"}, 0)
         \o RefreshCondensate \o Exchange({"th", "qv", "condensate", "qp"}))

RunCleo(run) ==
  When(run.micro = "cleo",
       Perhaps(Update({"th", "qv"}) \o Write({"qp"}, 0) \o Exchange({"th", "qv", "qp"})))

ApplySponge(run, fs) == When(run.sponge, Update(fs))
ApplyLateralNudging(run) == When(run.nudged # {}, Update(run.nudged))

ThermoBoundary(run) ==
  When(run.turbulence \/ run.sponge \/ run.surface \/ run.nudged # {},
       Exchange(ThermodynamicsVars(run)))

(* Buoyancy must see the condensate after diffusion, on mapped grids.         *)
NoRefresh(run) == <<>>                                                        \* mutant
CondensateForBuoyancy(run) ==
  When(run.micro = "p3" /\ ~Cartesian(run), RefreshCondensate)

---------------------------------------------------------------------------------
(* Turbulence and surface.                                                 *)
GeneralizedDeformation == Read({"u_con", "v_con", "w"}, 2) \o Write({"R"}, 1)

Coefficients(run) ==
  (IF Cartesian(run) THEN Read({"u", "v", "R"}, 1)
   ELSE GeneralizedDeformation \o Read({"R"}, 1))
    \o Write({"RKM", "RKH"}, 0) \o Exchange({"RKM", "RKH"})

CartesianDiffusion(fs, coefficient) == Read(fs \cup {coefficient}, 1)
GeneralizedScalarDiffusion(fs) == Read(fs \cup {"RKH"}, 1)
GeneralizedXiDiffusion == Read({"xi", "RKM"}, 1)
GeneralizedEtaDiffusion == Read({"eta", "RKM"}, 1)
GeneralizedZetaDiffusion == Read({"zeta", "RKM"}, 1)

DiffuseScalars(run) ==
  IF Cartesian(run) THEN CartesianDiffusion(Scalars(run), "RKH")
  ELSE GeneralizedScalarDiffusion(Scalars(run))
DiffuseVorticity(run) ==
  IF Cartesian(run) THEN CartesianDiffusion(Vorticity, "RKM")
  ELSE GeneralizedXiDiffusion \o GeneralizedEtaDiffusion \o GeneralizedZetaDiffusion

SurfaceTransfer ==
  Read({"u", "v"}, 1) \o Read({"th", "qv"}, 0) \o Write({"VEN2D"}, 0) \o Exchange({"VEN2D"})
SurfaceStress == Read({"VEN2D"}, 1) \o Read({"u", "v"}, 0)
SurfaceCoefficients == SurfaceTransfer \o SurfaceStress

ForwardUpdateThermo(run) ==
  IF run.turbulence THEN Update(Scalars(run)) ELSE When(run.surface, Update({"th", "qv"}))
ForwardUpdateVorticity(run) ==
  IF run.turbulence THEN Update(Vorticity) ELSE When(run.surface, Update({"xi", "eta"}))

PhysicsThermo(run) ==
  When(run.turbulence, Coefficients(run) \o DiffuseScalars(run))
    \o When(run.surface, Perhaps(SurfaceCoefficients))
    \o ForwardUpdateThermo(run)
    \o ApplySponge(run, {"th", "qv"} \cup P3Fields(run))
    \o ApplyLateralNudging(run)
    \o ThermoBoundary(run)

ApplyAreaMean(run) == When(run.areamn, Update(Vorticity))

PhysicsVorticity(run) ==
  When(PhysicalVorticityUpdates(run),
       BeginPhysicalUpdate(run)
         \o When(run.turbulence, DiffuseVorticity(run))
         \o ForwardUpdateVorticity(run)
         \o ApplySponge(run, Vorticity)
         \o ApplyAreaMean(run)
         \o Exchange(Vorticity)
         \o ZetaStructure(run)
         \o FinishPhysicalUpdate(run))

---------------------------------------------------------------------------------
(* Tendencies of the vorticity.                                            *)
StretchXi == Read({"u_con", "xi"}, 1)
StretchEta == Read({"v_con", "eta"}, 1)
StretchZeta == Read({"w", "zeta"}, 1)

TwistXi == Read({"eta", "zeta", "R"}, 1)
TwistEta == Read({"xi", "zeta", "R"}, 1)
TwistZeta == Read({"xi", "eta", "R"}, 1)

CoriolisXi == Read({"u_con"}, 1)
CoriolisEta == Read({"v_con"}, 1)
CoriolisZeta == Read({"u_con", "v_con"}, 1)

BuoyancyXi == Read({"th", "qv", "qp"}, 1)
BuoyancyEta == Read({"th", "qv", "qp"}, 1)

TakacsVorticity(q, variant) == MeanWind(variant) \o TakacsTransport({q}, variant)
CartesianTendencies ==
  TakacsVorticity("xi", "Xi") \o StretchXi \o TwistXi \o CoriolisXi \o BuoyancyXi
    \o TakacsVorticity("eta", "Eta") \o StretchEta \o TwistEta \o CoriolisEta \o BuoyancyEta
    \o TakacsVorticity("zeta", "Zeta") \o StretchZeta \o TwistZeta \o CoriolisZeta

(* On a mapped grid each component is transported, and deformed by the wind's   *)
(* derivatives, in the coordinate basis; zeta at the lid only.                *)
TransportHorizontal(omega) == Read({"u_con", "v_con", omega}, 2) \o Read({"w"}, 1)
DeformHorizontal(wind) == Read({wind, "xi_con", "eta_con", "zeta"}, 1)
TransportTop == Read({"u_con", "v_con", "zeta"}, 2) \o Read({"w"}, 1)
DeformTop == Read({"w", "xi_con", "eta_con", "zeta"}, 1)
GeneralizedBuoyancy == Read({"th", "qv", "qp"}, 1)

GeneralizedTendencies ==
  TransportHorizontal("xi_con") \o DeformHorizontal("u_con")
    \o TransportHorizontal("eta_con") \o DeformHorizontal("v_con")
    \o TransportTop \o DeformTop \o GeneralizedBuoyancy

VorticityTendencies(run) ==
  IF Cartesian(run)
  THEN SyncPhysical(run) \o CartesianTendencies \o SyncContravariant(run)
  ELSE GeneralizedTendencies

UpdateVorticity(run) ==
  SwapStorage(run.swapped)
    \o Update({"xi_con"}) \o Exchange({"xi_con"})
    \o Update({"eta_con"}) \o Exchange({"eta_con"})
    \o Update({"zeta"}) \o Exchange({"zeta"})
    \o SyncPhysical(run)
    \o When(run.idealized # "twisting", ZetaStructure(run))
    \o CopyZeta

---------------------------------------------------------------------------------
(* The wind on a Cartesian grid (WindSolver).                                *)
PrepareCartesianInputs ==
  Derive({"u", "v", "w"}, {"wind_topo"}, 0) \o Read({"wind_topo"}, 1)
    \o Read({"xi_con", "eta_con"}, 0) \o Write({"vorticity_topo"}, 0)
    \o Exchange({"vorticity_topo"})

(* The guess is extrapolated on the whole array; its halos are those of w.     *)
SolveW ==
  Read({"vorticity_topo"}, 1)
    \o Derive({"w", "W3DNM1"}, {"w_guess"}, 0) \o Derive({"w"}, {"W3DNM1"}, 0)
    \o Sweeps("w_guess")
    \o Write({"w"}, 0) \o ExchangeTo({"w"}, 1)

CartesianPotentials ==
  Read({"zeta_con", "w"}, 0) \o Derive({"psi", "psinm1"}, {"psi_guess"}, 0)
    \o Sweeps("psi_guess")
    \o Write({"psi", "psinm1"}, 0) \o Exchange({"psi", "psinm1"})

RecoverCartesianWind ==
  CartesianPotentials
    \o Read({"psi"}, 1) \o Write({"u", "v"}, 0)
    \o Read({"w"}, 1) \o Read({"vorticity_topo"}, 0) \o Write({"u", "v"}, 0)
    \o Exchange({"u", "v"})

---------------------------------------------------------------------------------
(* The wind on a mapped grid.                                               *)
ActiveVorticity(run) == IF run.terrain THEN {"vorticity_topo"} ELSE {"xi_con", "eta_con"}

AdaptTerrain ==
  Derive({"xi_con", "eta_con"}, {"vorticity_topo"}, 0)
    \o Derive({"u", "v", "w"}, {"wind_topo"}, 0) \o Exchange({"wind_topo"})
    \o Read({"wind_topo"}, 1) \o Write({"vorticity_topo"}, 0) \o Exchange({"vorticity_topo"})

VerticalSolve(run) ==
  Read(ActiveVorticity(run), 1)
    \o Derive({"w", "W3DNM1"}, {"w_guess"}, 0) \o Derive({"w"}, {"W3DNM1"}, 0)
    \o ExchangeTo({"w_guess"}, 1) \o Sweeps("w_guess") \o Exchange({"w_guess"})
    \o Derive({"w_guess"}, {"w"}, 0)

GeneralizedPotentials ==
  Read({"zeta", "w"}, 0) \o Derive({"psi", "psinm1"}, {"psi_guess"}, 0)
    \o ExchangeTo({"psi_guess"}, 1) \o Sweeps("psi_guess")
    \o Write({"psi", "psinm1"}, 0) \o Exchange({"psi", "psinm1"})

Diagnose(run) ==
  VerticalSolve(run)
    \o When(run.bounded, Exchange({"w", "W3DNM1"}))
    \o Read(ActiveVorticity(run), 1) \o Update({"zeta"}) \o Exchange({"zeta"})
    \o GeneralizedPotentials
    \o Read({"psi", "w"} \cup ActiveVorticity(run), 1) \o Write({"covariant_wind"}, 0)

CommitRecoveredWind ==
  Exchange({"covariant_wind"}) \o Read({"covariant_wind"}, 1) \o Write({"u_con", "v_con"}, 0)
    \o ExchangeTo({"psi"}, 2) \o Read({"psi"}, 2) \o Update({"u_con", "v_con"})

FinalizeGeneralizedWind(run) ==
  Exchange({"u_con", "v_con"}) \o Derive({"u_con", "v_con"}, {"u", "v"}, Loss(run))
    \o Exchange({"u", "v"})
    \o IF run.terrain THEN AdaptTerrain
       ELSE Derive({"u", "v", "w"}, {"wind_topo"}, 0)
              \o Derive({"xi", "eta"}, {"vorticity_topo"}, 0)

(* The circulations the recovery must keep (HorizontalWindTopologyConstraint): *)
(* of the wind the run starts from, and of each one recovered, which is        *)
(* corrected by a multiple of a harmonic field.                              *)
SeedFromPhysical == Read({"u", "v"}, 1)
SeedFromContravariant(run) ==
  Derive({"u_con", "v_con"}, {"covariant_wind"}, Loss(run)) \o Read({"covariant_wind"}, 0)
PreserveCirculation == Read({"covariant_wind"}, 0) \o Update({"covariant_wind"})
CorrectCanonicalWind(run) == When(run.bounded, Update({"u_con", "v_con"}))

(* The harmonic fields are added on the whole arrays.                         *)
NudgeTopMean ==
  Read({"u", "v"}, 0) \o Derive({"u_con", "v_con"}, {"u_con", "v_con"}, 0)

SolveGeneralized(run, initial) ==
  When(initial, SeedFromPhysical)
    \o When(run.terrain, AdaptTerrain)
    \o When(~initial, LaunchGraph) \o Diagnose(run)
    \o PreserveCirculation \o CommitRecoveredWind \o CorrectCanonicalWind(run)
    \o FinalizeGeneralizedWind(run)
    \o When(run.areamn, NudgeTopMean \o FinalizeGeneralizedWind(run))

ComputeWindFields(run, initial) ==
  IF Cartesian(run)
  THEN PrepareCartesianInputs \o SolveW \o RecoverCartesianWind \o Invalidate \o ShadowWind(run)
  ELSE SolveGeneralized(run, initial) \o Invalidate \o CopyZeta

PredictTopWind(run) ==
  When(Cartesian(run) /\ run.predict,
       Read({"u_con", "v_con"}, 0) \o Read({"w"}, 1)
         \o When(run.turbulence, Read({"RKM"}, 1) \o Read({"R"}, 0)))

DeformationXi == Read({"v_con", "w"}, 1)
DeformationEta == Read({"u_con", "w"}, 1)
DeformationZeta == Read({"u_con", "v_con"}, 1)
DiagnosticFields(run) ==
  When(Cartesian(run),
       DeformationXi \o DeformationEta \o DeformationZeta \o Write({"R"}, 0) \o Exchange({"R"}))

---------------------------------------------------------------------------------
(* Initializer::assign_vars: the wind is the profile on the whole array, its   *)
(* curl is computed in the interior.                                         *)
AssignVars(run) ==
  Write({"u", "v", "w", "th", "qv"}, Halo)
    \o IF Cartesian(run) THEN Write({"xi", "eta"}, 0)
       ELSE Write({"xi_con", "eta_con", "zeta"}, 0) \o Exchange({"xi_con", "eta_con"})
              \o SyncPhysical(run)

InitializePerturbation(run) ==
  When(run.start = "bubble",
       When(run.idealized # "none", Write({"th"} \cup Vorticity, Halo))
         \o Write({"th"}, Halo) \o Exchange({"th"} \cup Vorticity)
         \o When(run.idealized = "none", Exchange({"u", "v", "w"})))

RestartFields(run) ==
  Vorticity \cup Scalars(run) \cup {"u", "v", "w", "psi", "psinm1", "W3DNM1"}
    \cup (IF run.canonical THEN {"xi_con", "eta_con", "u_con", "v_con"} ELSE {})
ReadAndInitialize(fs) == Write(fs, 0) \o Exchange(fs)
LoadRestart(run) == ReadAndInitialize(RestartFields(run))

(* The fields on entry to Model::init's last part.                           *)
InitializeState(run) ==
  AssignVars(run)
    \o IF run.start = "restart" THEN LoadRestart(run) ELSE InitializePerturbation(run)

RestoreBoundaries(run) ==
  When(run.start = "restart",
       Exchange(ThermodynamicsVars(run)) \o Exchange(Vorticity)
         \o When(run.micro = "p3", RefreshCondensate))

(* has_canonical_horizontal_vorticity: mapped, unless a test prescribes the     *)
(* physical vorticity or the restart file has only that.                      *)
HasCanonicalVorticity(run) ==
  ~Cartesian(run) /\ IF run.start = "restart" THEN run.canonical ELSE run.idealized = "none"

AlignCopies(run) ==
  (IF HasCanonicalVorticity(run) THEN Exchange({"xi_con", "eta_con"}) \o CopyZeta
   ELSE SyncContravariant(run))
    \o When(~Cartesian(run), SyncPhysical(run))

InitialWind(run) ==
  IF run.start = "restart" THEN When(~run.canonical, ShadowWind(run))
  ELSE IF run.wind /\ (run.diagnose \/ ~Cartesian(run)) THEN ComputeWindFields(run, TRUE)
  ELSE ShadowWind(run)

(* DynamicalCore::initialize_restart_history.                                *)
RestartHistory(run) ==
  When(run.start = "restart",
       (IF Cartesian(run) THEN Read({"u", "v"}, 0)
        ELSE IF run.canonical THEN SeedFromContravariant(run) ELSE SeedFromPhysical)
         \o AdvectScalars(run, SingleStage(run)) \o VorticityTendencies(run))

Initialization(run) ==
  InitializeState(run) \o RestoreBoundaries(run) \o AlignCopies(run)
    \o InitialWind(run) \o DiagnosticFields(run) \o RestartHistory(run)

Step(run) ==
  ThermoTendencies(run) \o UpdateThermo(run) \o ApplyTracerSource(run)
    \o ApplyRandomForcing(run) \o RunP3(run) \o RunCleo(run)
    \o PhysicsThermo(run) \o CondensateForBuoyancy(run)
    \o VorticityTendencies(run) \o UpdateVorticity(run) \o PhysicsVorticity(run)
    \o When(run.wind, PredictTopWind(run) \o ComputeWindFields(run, FALSE))
    \o DiagnosticFields(run) \o StepDone
=================================================================================
