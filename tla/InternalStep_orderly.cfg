SPECIFICATION FairSpec
CONSTANTS
  Thread = {0, 1, 2}
  InitThreads = {0, 1}
  NoThread = NoThread
  NoLoc = NoLoc
  page = page
  patch = patch
  Loc = {page, patch}
  GuardPages = {page}
  OneShot = {}
  Footprints <- CrossPage
  MaxPort = 1
  SteppedSyscall = FALSE
  Faulty = FALSE
  UserEdits = FALSE
  Throws = FALSE
  UserReads = FALSE
INVARIANTS HiddenStepAlone NoEscape ExposedForStep
PROPERTY StepCompletes
