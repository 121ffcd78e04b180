SPECIFICATION FairSpec
CONSTANTS
  Thread = {0, 1}
  InitThreads = {0, 1}
  NoThread = NoThread
  NoLoc = NoLoc
  page = page
  patch = patch
  Loc = {page, patch}
  GuardPages = {page}
  OneShot = {}
  Footprints <- OneOf
  MaxPort = 2
  SteppedSyscall = FALSE
  Faulty = FALSE
  UserEdits = FALSE
  Throws = FALSE
  UserReads = FALSE
PROPERTY StepCompletes
CHECK_DEADLOCK FALSE
