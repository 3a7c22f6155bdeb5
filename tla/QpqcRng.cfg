CONSTANTS
  Threads = {t1, t2, t3}
  Foreign = {x1}
  Fns = {"encapsulate", "sign", "verify"}
  NoThread = NoThread
SPECIFICATION FairSpec
INVARIANTS TypeOK IInv ZeroOnlyInWindow AnswersFromPromisedSource
PROPERTIES ForeignZerosOnlyWhileSigning ImplementsContract LockIsReleased WaiterStarvesOnlyUnderLoad PureCallsReturn
