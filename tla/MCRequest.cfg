SPECIFICATION FairReqSpec
CONSTANTS
  ReqCap = 1
  StreamCap = 1
  MaxFrames = 2
  MaxChunks = 2
  Statuses <- MCStatuses
  NoStatus = NoStatus
INVARIANTS
  PhaseOrder
  StreamFaithful
  LoggedAsSent
PROPERTIES
  CancelledStreamErrs
  CancelEndsSse
  GoneClientReleases
  JoinAnswered
CHECK_DEADLOCK FALSE
