SPECIFICATION FairSpec
CONSTANTS
  Instances = {i1, i2}
  NoInstance = NoInstance
  Wakers = {supervisor, menu}
  Supervisor = supervisor
  MaxClicks = 1
  MaxVisits = 1
  MaxFaults = 1
INVARIANTS
  GroupTypeOK
  OneGateway
PROPERTIES
  WantedServes
  IdleStaysOff
CHECK_DEADLOCK FALSE
