SPECIFICATION Spec
CONSTANT Thermo <- MCThermo
CONSTANT P3Reads <- MCP3Reads
CONSTANT Plans <- MCPlans
CONSTANT MaxStep = 4
INVARIANT TypeOK
INVARIANT AdamsBashforthHistory
INVARIANT P3ReadsPreviousState
CHECK_DEADLOCK FALSE
