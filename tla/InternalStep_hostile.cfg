SPECIFICATION Spec
CONSTANTS
  Thread = {0, 1}
  InitThreads = {0, 1}
  NoThread = NoThread
  NoLoc = NoLoc
  page = page
  patch = patch
  Loc = {page, patch}
  GuardPages = {page}
  OneShot = {}
  Footprints <- OneOf
  MaxPort = 2
  SteppedSyscall = TRUE
  Faulty = TRUE
  UserEdits = TRUE
  Throws = TRUE
  UserReads = TRUE
INVARIANTS StepRecordsAgree
