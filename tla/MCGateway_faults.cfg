CONSTANTS
  Requests = {s1, r1, r2, r3}
  Settled = {s1}
  Names = {n1}
  Foreigners = {f1}
  DevForeign = dev
  Handlers = {"tokenShow", "updateUser", "newToken", "relay", "totplogin", "totpsignup",
              "callback", "develop"}
  MaxFaults = 1
  None = None
  Torn = Torn
  Empty = Empty
  Garbled = Garbled
SPECIFICATION Spec
SYMMETRY Interchangeable
INVARIANTS TypeOK CurrentTokenIsMapped IndexedAccountsComplete PromotionNeedsApproval LoginProvesSecret
PROPERTIES RevokedForGood OnlyCurrentTokenChangesAccount
