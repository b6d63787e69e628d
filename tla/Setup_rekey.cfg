SPECIFICATION Spec
CONSTANTS
  home = home
  work = work
  Profiles = {home}
  Interfaces = {0}
  Nets = {"n1"}
  DefaultNet = "n1"
  Keys = {1, 2}
  None = None
  MaxRuns = 3
  MaxFaults = 0
  AddressBits = 2
  ByteBits = 2
  Subnets = {1}
  Zones = {"a"}
  Tables = {1}
  Labels = {"x"}
  PortNumbers = {1}
  TLS = 1
  WireGuard = 1
  Slots = 0
INVARIANT GatewayTrustsKey
CHECK_DEADLOCK FALSE
