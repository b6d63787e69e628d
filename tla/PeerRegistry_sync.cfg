SPECIFICATION FairSpec
CONSTANTS
  Keys = {k1, k2}
  NoKey = NoKey
  Addresses = {a1, a2}
  Clients = {laptop, desktop}
  Nothing = Nothing
  Garbled = Garbled
  MaxEdits = 1
  MaxFaults = 2
INVARIANTS
  RegistryTypeOK
  OneOwner
  SyncApplies
PROPERTY GatewayCatchesUp
