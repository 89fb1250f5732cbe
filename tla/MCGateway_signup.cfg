CONSTANTS
  Requests = {s1, r1, r2}
  Settled = {s1}
  Names = {n1, n2}
  Foreigners = {f1}
  DevForeign = dev
  Handlers = {"totpsignup"}
  MaxFaults = 0
  None = None
  Torn = Torn
  Empty = Empty
  Garbled = Garbled
SPECIFICATION Spec
SYMMETRY Interchangeable
INVARIANTS SignupKept
