SPECIFICATION Spec
CONSTANT Configs <- MCPrecipConfigs
INVARIANTS PrecipTypeOK RecordsAreMeans RainCountedOnce
