SPECIFICATION Spec
CONSTANTS
  Page <- Pages
  Range <- Ranges
  Access <- Kinds
  Accesses <- SomeAccesses
  Own <- Protections
  MaxId = 2
  OneShots = TRUE
  Faulty = TRUE
  Reads = TRUE
INVARIANTS TypeOK TablesAgree
