SPECIFICATION Spec
SYMMETRY Registers
CONSTANTS
  Byte = {"op", "arg"}
  Addresses = 4
  Length <- MCLength
  Image <- MCImage
  Sites <- MCSites
  HardSites <- MCHardSites
  Writes <- MCWrites
  r1 = r1
  r2 = r2
  Register = {r1, r2}
  Overlap = FALSE
  Faulty = TRUE
  MaxId = 3
INVARIANTS TypeOK  ProgramKept
PROPERTY WatchedIsReported
