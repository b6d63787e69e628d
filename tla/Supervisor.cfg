SPECIFICATION FairSpec
CONSTANTS
  Names = {wg0}
  NoName = NoName
  Devices = {utun4, utun5, utun6}
  NoDevice = NoDevice
  Sup = Sup
  Actors = {wg0, Sup}
  Idling = {wg0}
  MaxFaults = 2
  MaxToggles = 1
  ToggleCost = 2
PROPERTIES
  KeepsPromise
  LastPositionWins
  QuietIsRepaired
INVARIANT TypeOK
\* A daemon in a command that never ends, with no fault left, is the end.
CHECK_DEADLOCK FALSE
