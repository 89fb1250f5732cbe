CONSTANTS
  Viewers = {v1, v2}
  QueueSize = 1
  MaxLoad = 5
  None = None
SPECIFICATION Spec
SYMMETRY Interchangeable
INVARIANTS WholeStream SubscribedChannelsOpen OneUpstream BadGatewayMeansRefused NoViewerLeftBehind EvictedDisconnected
