SPECIFICATION FairSpec
CONSTANTS
  Versions = {1, 2}
  Edges = {e1}
  Keychain = TRUE
  Partial = Partial
  None = None
  Alone = {"pkg", "appcast"}
  MaxMade = 4
  MaxFaults = 1
INVARIANTS
  ReleaseTypeOK
  ServedVerifies
  FeedComesLast
  ReleaseIsWhole
PROPERTY EdgesCatchUp
CHECK_DEADLOCK FALSE
