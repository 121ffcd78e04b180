SPECIFICATION Spec
CONSTANTS
  Thread = {0, 1, 2}
  InitThreads = {0, 1}
  NoThread = NoThread
  NoLoc = NoLoc
  page = page
  patch = patch
  Loc = {page, patch}
  GuardPages = {page}
  OneShot = {page}
  Footprints <- Always
  MaxPort = 2
  SteppedSyscall = FALSE
  Faulty = FALSE
  UserEdits = TRUE
  Throws = FALSE
  UserReads = FALSE
INVARIANTS TypeOK TrapFlagOwned SuspensionAccounted NoLostWatch
PROPERTY UserStepKept
CHECK_DEADLOCK FALSE
