SPECIFICATION Spec
CONSTANTS
  Keys = {k1, k2}
  NoKey = NoKey
  Addresses = {a1, a2}
  Clients = {laptop, desktop}
  Nothing = Nothing
  Garbled = Garbled
  MaxEdits = 0
  MaxFaults = 0
PROPERTY KeepsOthers
