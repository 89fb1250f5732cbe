CONSTANTS
  Requests = {s1, r1, r2}
  Settled = {s1}
  Names = {n1}
  Foreigners = {f1, f2}
  DevForeign = dev
  Handlers = {"callback"}
  MaxFaults = 0
  None = None
  Torn = Torn
  Empty = Empty
  Garbled = Garbled
SPECIFICATION Spec
SYMMETRY Interchangeable
INVARIANTS OneAccountPerForeignID
