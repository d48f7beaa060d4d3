CONSTANTS
  N = 3
  MaxCells = 2
  MaxEvents = 1
  MaxCrashes = 1
SPECIFICATION Spec
INVARIANTS TypeOK OneLayerPerHop CircuitIsChain
PROPERTIES BuildCompletes PingReturns QuietDestroyFreesAll BuildEndsUnlessAbandoned TeardownUpToAbandoned
CHECK_DEADLOCK FALSE
