SPECIFICATION Spec
CONSTANTS
  Page <- Pages
  Range <- Ranges
  Access <- Kinds
  Accesses <- SomeAccesses
  Own <- Protections
  MaxId = 2
  OneShots = FALSE
  Faulty = FALSE
  Reads = TRUE
INVARIANT WatchArmed
