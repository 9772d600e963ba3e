SPECIFICATION Spec
CONSTANTS
  Halo <- MCHalo
  Configuration <- MCConfiguration
  Runs <- MCRuns
INVARIANT HalosFreshWhereRead
INVARIANT CopiesNeverDiverge
INVARIANT MeanWindIsPresent
INVARIANT BuoyancySeesPresentCondensate
INVARIANT GraphReadsPresentState
