CONSTANTS
  Requests = {s1, r1, r2, r3}
  Settled = {s1}
  Names = {n1, n2}
  Foreigners = {f1}
  DevForeign = dev
  Handlers = {"totplogin", "totpsignup"}
  MaxFaults = 0
  None = None
  Torn = Torn
  Empty = Empty
  Garbled = Garbled
SPECIFICATION Spec
SYMMETRY Interchangeable
INVARIANTS NamesUnique
