SPECIFICATION Spec
CONSTANTS
  Halo <- MCHalo
  Configuration <- ProfileConfiguration
  Runs <- ProfileRuns
INVARIANT HalosFreshWhereRead
