SPECIFICATION Spec
CONSTANTS
  Missing = Missing
  Garbled = Garbled
  None = None
  Builds = {m1, m2, p1}
  Main = {m1, m2}
  Ref <- MCRef
  Reports <- MCReports
  Samples <- MCSamples
  HistoryLimit = 2
  Attempts = 2
  MaxFaults = 1
INVARIANTS
  QualityTypeOK
  LinksWork
  JudgedWhereItStands
  ReportsAreFaithful
PROPERTY RunsAreAdded
CHECK_DEADLOCK FALSE
