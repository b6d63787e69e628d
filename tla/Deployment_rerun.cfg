SPECIFICATION Spec
CONSTANTS
  newer = newer
  older = older
  Macs = {newer, older}
  Declares <- MCDeclares
  Sent = {"port"}
  Image = "image"
  None = None
  MaxRuns = 3
  MaxFaults = 0
INVARIANT RerunIsTaken
CHECK_DEADLOCK FALSE
