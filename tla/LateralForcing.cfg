SPECIFICATION ForcedSpec
CONSTANT Plans <- FreshPlans
CONSTANT SizeMod = 256
CONSTANT MaxRestarts = 0
INVARIANT LateralFollowsTime
