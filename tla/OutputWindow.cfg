SPECIFICATION WindowSpec
CONSTANT Requests <- MCRequests
CONSTANT Halo = 2
INVARIANTS WindowWrittenOnce CoverageHolds
