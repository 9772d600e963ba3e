SPECIFICATION ForcedSpec
CONSTANT Plans <- MCPlans
CONSTANT SizeMod = 256
CONSTANT MaxRestarts = 2
INVARIANTS TypeOK HeatingNeverStale FluxAsUninterrupted AreaMeanFollowsTime LateralBetweenItsFiles
