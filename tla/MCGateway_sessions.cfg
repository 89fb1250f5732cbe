CONSTANTS
  Requests = {s1, s2, r1, r2, r3}
  Settled = {s1, s2}
  Names = {n1, n2}
  Foreigners = {f1}
  DevForeign = dev
  Handlers = {"tokenShow", "updateUser", "newToken", "relay", "totplogin"}
  MaxFaults = 0
  None = None
  Torn = Torn
  Empty = Empty
  Garbled = Garbled
SPECIFICATION Spec
SYMMETRY Interchangeable
INVARIANTS NamesUnique ExactMappings OneRotationPerToken
PROPERTIES RotationComplete
