SPECIFICATION FairSpec
CONSTANTS
  Page <- Pages
  Range <- Ranges
  Access <- Kinds
  Accesses <- SomeAccesses
  Own <- Writable
  MaxId = 2
  OneShots = TRUE
  Faulty = FALSE
  Reads = FALSE
INVARIANTS ProtectionRestored NoEscape
PROPERTY FaultSettled
