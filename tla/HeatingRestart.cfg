SPECIFICATION ForcedSpec
CONSTANT Plans <- MCPlans
CONSTANT SizeMod = 256
CONSTANT MaxRestarts = 2
INVARIANT HeatingAsUninterrupted
