SPECIFICATION Spec
CONSTANT Configs <- MCRelayConfigs
CONSTANT NIo = 3
CONSTANT QueueLimit = 2
CONSTANT NRows = 2
INVARIANTS RelayTypeOK OneRecordInHand BoundedLoss FilesSound StoredRecordsOnDisk
PROPERTIES RelayFinishes ImplementsHistoryLog
