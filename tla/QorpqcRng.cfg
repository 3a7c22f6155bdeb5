CONSTANTS
  Threads = {main, t2, t3}
  Interruptible = {main}
  Fns = {"keygen", "sign", "sign_hedged", "verify"}
  NoThread = NoThread
SPECIFICATION FairSpec
INVARIANTS TypeOK IInv ZeroOnlyInWindow AnswersFromPromisedSource SignatureRestoresSystemRng
PROPERTIES KeepsContract LockIsReleased WaiterStarvesOnlyUnderLoad
