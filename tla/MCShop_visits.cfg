SPECIFICATION Spec
CONSTANTS
  u1 = u1
  u2 = u2
  v1 = v1
  v2 = v2
  v3 = v3
  v4 = v4
  None = None
  NoCoupon = NoCoupon
  NoBytes = NoBytes
  Mixed = Mixed
  NotANumber = NotANumber
  Unsendable = Unsendable
  Largest = 100000
  Users = {u1, u2}
  Careful = {u1}
  Visits = {v1, v2, v3, v4}
  Items <- MCItems
  Amounts <- MCAmounts
  Coupons <- MCCoupons
  MayVisit <- MCMayVisit
  MaxFaults = 1
CHECK_DEADLOCK FALSE
INVARIANT AccountsAreOwn PricedAsListed PagesTellTruth BundlesPayOff
PROPERTY AnAccountEach
