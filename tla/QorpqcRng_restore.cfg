CONSTANTS
  Threads = {main, t2}
  Interruptible = {main}
  Fns = {"keygen", "sign", "verify"}
  NoThread = NoThread
SPECIFICATION Spec
INVARIANT RestoredAfterSign
