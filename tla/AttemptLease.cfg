CONSTANTS
  r1 = r1
  r2 = r2
  p1 = p1
  p2 = p2
  NoOwner = NoOwner
  Run <- RunsMC
  Owner <- OwnersMC
  Ttl = 2
  MaxClock = 3
  MaxToken = 3
  SingleProcess = TRUE
SPECIFICATION Spec
INVARIANTS TypeOK SessionOfHolder SoleHolder
PROPERTIES TakeoverAfterExpiry FencedWrites ImplementsRegister
CHECK_DEADLOCK FALSE
