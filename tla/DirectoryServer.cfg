CONSTANTS
  Objects = {p1, p2, p3}
  Descriptors = {r1, r2, r3}
  NULL = NULL
  ZeroDescriptor = Zero
  INVALID_RELAY_ID = Invalid
  MaxFailures = 1
  MaxExits = 1
SPECIFICATION Spec
SYMMETRY Symmetry
INVARIANTS RegisteredStaysListed PointersLive SignedOutIsGone
CHECK_DEADLOCK FALSE
