CONSTANTS
  Objects = {p1, p2}
  Descriptors = {r1, r2}
  NULL = NULL
  ZeroDescriptor = Zero
  INVALID_RELAY_ID = Invalid
  MaxFailures = 1
  MaxExits = 1
SPECIFICATION Spec
PROPERTY RelayNeverStuck
CHECK_DEADLOCK FALSE
