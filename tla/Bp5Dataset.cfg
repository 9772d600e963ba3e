SPECIFICATION Spec
CONSTANTS
  old = old  new = new  link = link
  Datasets = {old, new}
  Links = {link}
  LinkTo <- MCLinkTo
  Found <- MCFound
  Configs <- MCConfigs
  MaxRuns = 4
INVARIANTS Bp5TypeOK HistoryAdvances NoHoleAcrossRuns StepNearTime DescriptorFitsFineSteps
PROPERTY HistoryKept
