CONSTANTS
  MaxFrames = 3
  Window = 1
  Protocols = {p1}
  NoProtocol = NoProtocol
SPECIFICATION FairSpec
INVARIANTS RelayInv HandshakeKept
PROPERTIES EndsTogether ClosesAsPair
