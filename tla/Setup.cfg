SPECIFICATION Spec
CONSTANTS
  home = home
  work = work
  Profiles = {home, work}
  Interfaces = {0, 1}
  Nets = {"n1", "n2"}
  DefaultNet = "n1"
  Keys = {1, 2, 3, 4}
  None = None
  MaxRuns = 4
  MaxFaults = 1
  AddressBits = 4
  ByteBits = 3
  Subnets = {1, 2, 3}
  Zones = {"a", "b"}
  Tables = {1, 2}
  Labels = {"x", "y"}
  PortNumbers = {1, 2, 3, 4}
  TLS = 3
  WireGuard = 4
  Slots = 2
INVARIANTS
  SetupTypeOK
  DistinctInterfaces
  GrantsAreExact
  DaemonFollows
  KeyMatches
  LeavesNoPeer
  AddressesWork
  PlanIsStable
 
SYMMETRY Symmetry
CHECK_DEADLOCK FALSE
