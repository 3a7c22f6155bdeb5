CONSTANTS
  Threads = {t1, t2, t3}
  Foreign = {}
  Fns = {"keygen", "sign", "sign_hedged", "decapsulate"}
  NoThread = NoThread
SPECIFICATION ForkFairSpec
INVARIANT ChildAnswersFromPromisedSource
PROPERTIES BlockedOnlyByLostOwner ChildPureCallsReturn
CHECK_DEADLOCK FALSE
