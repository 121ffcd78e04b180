SPECIFICATION Spec
SYMMETRY Callers
CONSTANTS
  Thread = {t1, t2}
  UE_CIP = UE_CIP
  Register = {UE_CIP, UE_CAX}
  Gui = {g1, g2}
  DebugThread = DebugThread
  NoOne = NoOne
  Datum = {0, 1}
  Eager = FALSE
  Faulty = TRUE
INVARIANTS TypeOK OwnRegisters OwnCache CurrentIsEvent
PROPERTY NothingLost
