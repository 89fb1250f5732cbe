CONSTANTS
  Requests = {s1, r1, r2}
  Settled = {s1}
  Names = {n1}
  Foreigners = {f1}
  DevForeign = dev
  Handlers = {"tokenShow", "updateUser", "newToken", "relay", "totplogin", "totpsignup",
              "callback", "develop"}
  MaxFaults = 3
  None = None
  Torn = Torn
  Empty = Empty
  Garbled = Garbled
SPECIFICATION FairSpec
INVARIANTS AccountInv
PROPERTIES TokensAreRevocable EveryRequestAnswered
