SPECIFICATION Spec
CONSTANTS
  t1 = t1
  t2 = t2
  x = x
  y = y
  exe = exe
  dll = dll
  Thread = {t1, t2}
  SystemId <- MCSystemId
  Base <- MCBase
  Address = {x, y}
  Module = {exe, dll}
  LastPosition = 3
  Runs <- MCRuns
  At <- MCAt
  Touch <- MCTouch
  Call <- MCCall
  Alive <- MCAlive
  Mapped <- MCMapped
  Exceptions = {1, 2}
  NoAddress = NoAddress
  User = User
  Caller = {1}
  Ops = {"ReplaySetPosition", "ReplayRunBack", "ReplayStepBack", "StepInto", "StepOver", "SetBPX", "DeleteBPX", "RequestPause", "StopDebug", "SetMemoryBPXEx", "RemoveMemoryBPX"}
  UserCode <- MCUserCode
  UserData <- MCUserData
  MaxQueue = 0
INVARIANTS TypeOK TimelineReported StepOnOwnThread
PROPERTIES ExitAtEnd StepKeepsBoundary NothingSkipped PauseDelivered StopEndsSession
CHECK_DEADLOCK FALSE
