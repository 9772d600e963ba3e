SPECIFICATION ClockSpec
CONSTANT Configs <- MCConfigs
INVARIANTS ClockTypeOK NoIntervalMissed Hdf5FilesDistinct
PROPERTY RunEnds
