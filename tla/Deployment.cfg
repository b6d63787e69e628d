SPECIFICATION FairSpec
CONSTANTS
  newer = newer
  older = older
  Macs = {newer, older}
  Declares <- MCDeclares
  Sent = {"port"}
  Image = "image"
  None = None
  MaxRuns = 3
  MaxFaults = 1
INVARIANTS
  DeploymentTypeOK
  KeysAreHeld
  EndsAsSaid
PROPERTIES
  CarriedOver
  RefusedForCause
  EveryRunEnds
CHECK_DEADLOCK FALSE
