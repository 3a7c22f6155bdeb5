CONSTANTS
  Keys = {k1, k2}
SPECIFICATION Spec
INVARIANT HashIsOfItsKey
CHECK_DEADLOCK FALSE
