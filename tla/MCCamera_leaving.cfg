CONSTANTS
  Viewers = {v1, v2}
  QueueSize = 1
  MaxLoad = 3
  None = None
SPECIFICATION FairSpec
PROPERTIES LeaversLeave UpstreamEnds
