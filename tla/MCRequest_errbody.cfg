SPECIFICATION ReqSpec
CONSTANTS
  ReqCap = 1
  StreamCap = 2
  MaxFrames = 2
  MaxChunks = 3
  Statuses <- MCStatuses
  NoStatus = NoStatus
INVARIANT ErrorResponseSent
CHECK_DEADLOCK FALSE
