---------------------------- MODULE QpqcRng_proofs ----------------------------
(***************************************************************************)
(* TLAPS proofs about QpqcRng, for any set of threads, of foreign liboqs    *)
(* users and of functions called, and about QpqcFork: a fork at any moment  *)
(* is, for the memory of the process followed, a stutter after which some   *)
(* threads take no step, so what is proved of QpqcRng holds of the child.   *)
(***************************************************************************)
EXTENDS QpqcFork, Integers, TLAPS

\* In the initial state nobody holds the lock and the system RNG is installed.
LEMMA InitIInv == Init => IInv
<1> SUFFICES ASSUME Init PROVE IInv
  OBVIOUS
<1> USE ThreadsAssumption, FnsAssumption DEF Init, At
<1>1. TypeOK
  BY DEF TypeOK, Sources, Stages
<1>2. HolderOwnsLock
  BY DEF HolderOwnsLock, Holding
<1>3. StagesFitFunctions
  BY DEF StagesFitFunctions
<1>4. ZeroOnlyInWindow
  BY DEF ZeroOnlyInWindow, InWindow
<1>5. DrawsFromPromisedSource
  BY DEF DrawsFromPromisedSource, Consumers
<1>6. QED
  BY <1>1, <1>2, <1>3, <1>4, <1>5 DEF IInv

\* Every step keeps the types.
LEMMA TypeStep == TypeOK /\ [Next]_vars => TypeOK'
<1> SUFFICES ASSUME TypeOK, [Next]_vars PROVE TypeOK'
  OBVIOUS
<1> USE FnsAssumption DEF TypeOK, Sources, Stages, Consumers, Pure, Operations, At, MoveTo
<1>1. ASSUME NEW t \in Threads, NEW f \in Fns, Call(t, f) PROVE TypeOK'
  BY <1>1 DEF Call
<1>2. ASSUME NEW t \in Threads, Reject(t) PROVE TypeOK'
  BY <1>2 DEF Reject
<1>3. ASSUME NEW t \in Threads, Accept(t) PROVE TypeOK'
  BY <1>3 DEF Accept, Serialised
<1>4. ASSUME NEW t \in Threads, Acquire(t) PROVE TypeOK'
  BY <1>4 DEF Acquire
<1>5. ASSUME NEW t \in Threads, InstallZero(t) PROVE TypeOK'
  BY <1>5 DEF InstallZero
<1>6. ASSUME NEW t \in Threads, Draw(t) PROVE TypeOK'
  BY <1>6 DEF Draw
<1>7. ASSUME NEW t \in Threads, BackendReturn(t) PROVE TypeOK'
  BY <1>7 DEF BackendReturn, AfterBackend, Serialised
<1>8. ASSUME NEW t \in Threads, Restore(t) PROVE TypeOK'
  BY <1>8 DEF Restore
<1>9. ASSUME NEW t \in Threads, Unlock(t) PROVE TypeOK'
  BY <1>9 DEF Unlock
<1>10. ASSUME NEW t \in Threads, Return(t) PROVE TypeOK'
  BY <1>10 DEF Return
<1>11. ASSUME NEW x \in Foreign, ForeignDraw(x) PROVE TypeOK'
  BY <1>11 DEF ForeignDraw
<1>12. CASE UNCHANGED vars
  BY <1>12 DEF vars
<1>13. QED
  BY <1>1, <1>2, <1>3, <1>4, <1>5, <1>6, <1>7, <1>8, <1>9, <1>10, <1>11, <1>12
  DEF Next, Step

\* The types of the variables hold in every reachable state.
THEOREM TypeCorrect == Spec => []TypeOK
<1>1. Init => TypeOK
  BY InitIInv DEF IInv
<1>2. TypeOK /\ [Next]_vars => TypeOK'
  BY TypeStep
<1>3. QED
  BY <1>1, <1>2, PTL DEF Spec

------------------------------------------------------------------------------
(* The inductive invariant.                                                 *)

\* A state in which every conjunct holds is left by each action in one too.
LEMMA InvStep == IInv /\ [Next]_vars => IInv'
<1> SUFFICES ASSUME IInv, [Next]_vars PROVE IInv'
  OBVIOUS
<1>0. TypeOK'
  BY TypeStep DEF IInv
<1> USE ThreadsAssumption
    DEF IInv, TypeOK, HolderOwnsLock, StagesFitFunctions, ZeroOnlyInWindow,
        DrawsFromPromisedSource, Holding, InWindow, At, MoveTo, Serialised,
        Promised, Consumers, Pure, Operations, Stages, Sources
<1>1. ASSUME NEW t \in Threads, NEW f \in Fns, Call(t, f) PROVE IInv'
  <2>1. HolderOwnsLock'
    BY <1>1, FnsAssumption DEF Call
  <2>2. StagesFitFunctions'
    BY <1>1, FnsAssumption DEF Call
  <2>3. ZeroOnlyInWindow'
    BY <1>1, FnsAssumption DEF Call
  <2>4. DrawsFromPromisedSource'
    BY <1>1, FnsAssumption DEF Call
  <2>5. QED
    BY <1>0, <2>1, <2>2, <2>3, <2>4
<1>2. ASSUME NEW t \in Threads, Reject(t) PROVE IInv'
  <2>1. HolderOwnsLock'
    BY <1>2, FnsAssumption DEF Reject
  <2>2. StagesFitFunctions'
    BY <1>2, FnsAssumption DEF Reject
  <2>3. ZeroOnlyInWindow'
    BY <1>2, FnsAssumption DEF Reject
  <2>4. DrawsFromPromisedSource'
    BY <1>2, FnsAssumption DEF Reject
  <2>5. QED
    BY <1>0, <2>1, <2>2, <2>3, <2>4
<1>3. ASSUME NEW t \in Threads, Accept(t) PROVE IInv'
  <2>1. HolderOwnsLock'
    BY <1>3, FnsAssumption DEF Accept
  <2>2. StagesFitFunctions'
    BY <1>3, FnsAssumption DEF Accept
  <2>3. ZeroOnlyInWindow'
    BY <1>3, FnsAssumption DEF Accept
  <2>4. DrawsFromPromisedSource'
    BY <1>3, FnsAssumption DEF Accept
  <2>5. QED
    BY <1>0, <2>1, <2>2, <2>3, <2>4
<1>4. ASSUME NEW t \in Threads, Acquire(t) PROVE IInv'
  <2>1. HolderOwnsLock'
    BY <1>4, FnsAssumption DEF Acquire
  <2>2. StagesFitFunctions'
    BY <1>4, FnsAssumption DEF Acquire
  <2>3. ZeroOnlyInWindow'
    BY <1>4, FnsAssumption DEF Acquire
  <2>4. DrawsFromPromisedSource'
    BY <1>4, FnsAssumption DEF Acquire
  <2>5. QED
    BY <1>0, <2>1, <2>2, <2>3, <2>4
<1>5. ASSUME NEW t \in Threads, InstallZero(t) PROVE IInv'
  <2>1. HolderOwnsLock'
    BY <1>5, FnsAssumption DEF InstallZero
  <2>2. StagesFitFunctions'
    BY <1>5, FnsAssumption DEF InstallZero
  <2>3. ZeroOnlyInWindow'
    BY <1>5, FnsAssumption DEF InstallZero
  <2>4. DrawsFromPromisedSource'
    BY <1>5, FnsAssumption DEF InstallZero
  <2>5. QED
    BY <1>0, <2>1, <2>2, <2>3, <2>4
<1>6. ASSUME NEW t \in Threads, Draw(t) PROVE IInv'
  <2>1. HolderOwnsLock'
    BY <1>6, FnsAssumption DEF Draw
  <2>2. StagesFitFunctions'
    BY <1>6, FnsAssumption DEF Draw
  <2>3. ZeroOnlyInWindow'
    BY <1>6, FnsAssumption DEF Draw
  <2>4. DrawsFromPromisedSource'
    BY <1>6, FnsAssumption DEF Draw
  <2>5. QED
    BY <1>0, <2>1, <2>2, <2>3, <2>4
<1>7. ASSUME NEW t \in Threads, BackendReturn(t) PROVE IInv'
  <2>1. HolderOwnsLock'
    BY <1>7, FnsAssumption DEF BackendReturn, AfterBackend
  <2>2. StagesFitFunctions'
    BY <1>7, FnsAssumption DEF BackendReturn, AfterBackend
  <2>3. ZeroOnlyInWindow'
    BY <1>7, FnsAssumption DEF BackendReturn, AfterBackend
  <2>4. DrawsFromPromisedSource'
    BY <1>7, FnsAssumption DEF BackendReturn, AfterBackend
  <2>5. QED
    BY <1>0, <2>1, <2>2, <2>3, <2>4
<1>8. ASSUME NEW t \in Threads, Restore(t) PROVE IInv'
  <2>1. HolderOwnsLock'
    BY <1>8, FnsAssumption DEF Restore
  <2>2. StagesFitFunctions'
    BY <1>8, FnsAssumption DEF Restore
  <2>3. ZeroOnlyInWindow'
    BY <1>8, FnsAssumption DEF Restore
  <2>4. DrawsFromPromisedSource'
    BY <1>8, FnsAssumption DEF Restore
  <2>5. QED
    BY <1>0, <2>1, <2>2, <2>3, <2>4
<1>9. ASSUME NEW t \in Threads, Unlock(t) PROVE IInv'
  <2>1. HolderOwnsLock'
    BY <1>9, FnsAssumption DEF Unlock
  <2>2. StagesFitFunctions'
    BY <1>9, FnsAssumption DEF Unlock
  <2>3. ZeroOnlyInWindow'
    BY <1>9, FnsAssumption DEF Unlock
  <2>4. DrawsFromPromisedSource'
    BY <1>9, FnsAssumption DEF Unlock
  <2>5. QED
    BY <1>0, <2>1, <2>2, <2>3, <2>4
<1>10. ASSUME NEW t \in Threads, Return(t) PROVE IInv'
  <2>1. HolderOwnsLock'
    BY <1>10, FnsAssumption DEF Return
  <2>2. StagesFitFunctions'
    BY <1>10, FnsAssumption DEF Return
  <2>3. ZeroOnlyInWindow'
    BY <1>10, FnsAssumption DEF Return
  <2>4. DrawsFromPromisedSource'
    BY <1>10, FnsAssumption DEF Return
  <2>5. QED
    BY <1>0, <2>1, <2>2, <2>3, <2>4
<1>11. ASSUME NEW x \in Foreign, ForeignDraw(x) PROVE IInv'
  <2>1. HolderOwnsLock'
    BY <1>11, FnsAssumption DEF ForeignDraw
  <2>2. StagesFitFunctions'
    BY <1>11, FnsAssumption DEF ForeignDraw
  <2>3. ZeroOnlyInWindow'
    BY <1>11, FnsAssumption DEF ForeignDraw
  <2>4. DrawsFromPromisedSource'
    BY <1>11, FnsAssumption DEF ForeignDraw
  <2>5. QED
    BY <1>0, <2>1, <2>2, <2>3, <2>4
<1>12. CASE UNCHANGED vars
  BY <1>12 DEF vars
<1>13. QED
  BY <1>1, <1>2, <1>3, <1>4, <1>5, <1>6, <1>7, <1>8, <1>9, <1>10, <1>11, <1>12
  DEF Next, Step

\* The inductive invariant holds in every reachable state.
THEOREM Invariance == Spec => []IInv
<1>1. Init => IInv
  BY InitIInv
<1>2. IInv /\ [Next]_vars => IInv'
  BY InvStep
<1>3. QED
  BY <1>1, <1>2, PTL DEF Spec

\* The zero filler is installed exactly while the owner of qpqc_rng_lock is
\* between the two switches of qpqc_mldsa_sign, for any number of threads.
THEOREM ZerosStayInTheWindow == Spec => []ZeroOnlyInWindow
<1>1. IInv => ZeroOnlyInWindow
  BY DEF IInv
<1>2. QED
  BY <1>1, Invariance, PTL

\* A backend call that has succeeded has drawn exactly what was promised.
LEMMA PromiseKept ==
  ASSUME IInv, NEW t \in Threads, ok[t]
  PROVE  drawn[t] = Promised(fn[t])
<1>1. drawn[t] \subseteq Promised(fn[t])
  BY DEF IInv, DrawsFromPromisedSource
<1>2. CASE fn[t] \in Consumers
  BY <1>1, <1>2 DEF IInv, DrawsFromPromisedSource, Promised
<1>3. CASE fn[t] \notin Consumers
  BY <1>1, <1>3 DEF Promised, Consumers
<1>4. QED
  BY <1>2, <1>3

\* A call that has drawn something where it must, and only what it may, has
\* drawn what its function promises.
LEMMA SoleSource ==
  ASSUME NEW d, NEW f, d \subseteq Promised(f), f \in Consumers => d # {}
  PROVE  d = Promised(f) /\ d = Contract!Promised(f)
<1>1. Contract!Promised(f) = Promised(f)
  BY DEF Contract!Promised, Promised, Contract!Consumers, Consumers
<1>2. CASE f \in Consumers
  BY <1>1, <1>2 DEF Promised
<1>3. CASE f \notin Consumers
  BY <1>1, <1>3 DEF Promised, Consumers
<1>4. QED
  BY <1>2, <1>3

\* No call of this binding answers from any randomness but the one its
\* function promises, for any number of threads and any foreign liboqs users.
THEOREM PromisedRandomness == Spec => []AnswersFromPromisedSource
<1>1. IInv => AnswersFromPromisedSource
  BY SoleSource DEF IInv, DrawsFromPromisedSource, AnswersFromPromisedSource
<1>2. QED
  BY <1>1, Invariance, PTL

\* A liboqs user outside the lock draws zeros only inside a signing window.
THEOREM ForeignZeros == Spec => ForeignZerosOnlyWhileSigning
<1> DEFINE OnlyInWindow ==
      \A x \in Foreign : seen'[x] = "zero" /\ seen'[x] # seen[x]
        => \E t \in Threads : lock = t /\ InWindow(t)
<1>1. IInv /\ [Next]_vars => [OnlyInWindow]_vars
  <2> SUFFICES ASSUME IInv, Next PROVE OnlyInWindow
    OBVIOUS
  <2>1. ASSUME NEW x \in Foreign, ForeignDraw(x) PROVE OnlyInWindow
    BY <2>1 DEF ForeignDraw, IInv, TypeOK, ZeroOnlyInWindow
  <2>2. ASSUME NEW t \in Threads, Step(t) PROVE OnlyInWindow
    BY <2>2 DEF Step, Reject, Accept, Acquire, InstallZero, Draw, BackendReturn,
                Restore, Unlock, Return
  <2>3. ASSUME NEW t \in Threads, NEW f \in Fns, Call(t, f) PROVE OnlyInWindow
    BY <2>3 DEF Call
  <2>4. QED
    BY <2>1, <2>2, <2>3 DEF Next
<1>2. QED
  BY <1>1, Invariance, PTL DEF Spec, ForeignZerosOnlyWhileSigning

\* The steps the holder of qpqc_rng_lock has left before it gives it back.
StepsLeft(stage) == CASE stage = "install" -> 4 [] stage = "backend" -> 3
                      [] stage = "restore" -> 2 [] stage = "unlock"  -> 1
                      [] OTHER -> 0

\* Whoever holds the lock stays where it is or comes nearer to its unlock, and loses
\* the lock by its own unlock only.
HeadsForUnlock ==
  \A t \in Threads : lock = t =>
    \/ lock' = t /\ (pc'[t] = pc[t] \/ StepsLeft(pc'[t]) \in 1 .. StepsLeft(pc[t]) - 1)
    \/ lock' = NoThread /\ Unlock(t)

\* No path through a serialised function turns back or leaves without unlocking
\* (qorechain_pqc.c:50-54, 69-71), the failing ones included, and nobody takes the lock
\* from its holder: with a scheduler that runs the holder, it is released.
THEOREM LockOnItsWay == Spec => [][HeadsForUnlock]_vars
<1>1. IInv /\ [Next]_vars => [HeadsForUnlock]_vars
  <2> SUFFICES ASSUME IInv, Next, NEW t \in Threads, lock = t
               PROVE  \/ /\ lock' = t
                         /\ \/ pc'[t] = pc[t]
                            \/ StepsLeft(pc'[t]) \in 1 .. StepsLeft(pc[t]) - 1
                      \/ lock' = NoThread /\ Unlock(t)
    BY DEF HeadsForUnlock
  <2>1. /\ pc \in [Threads -> Stages] /\ lock # NoThread
        /\ \/ pc[t] \in {"install", "restore", "unlock"}
           \/ pc[t] = "backend" /\ Serialised(fn[t])
    BY ThreadsAssumption DEF IInv, TypeOK, HolderOwnsLock, Holding, At
  <2>2. ASSUME NEW u \in Threads, u # t, Step(u) PROVE lock' = t /\ pc'[t] = pc[t]
    <3>1. ~Unlock(u)
      BY <2>2 DEF IInv, HolderOwnsLock, Holding, Unlock, At
    <3>2. QED
      BY <2>1, <2>2, <3>1 DEF Step, Reject, Accept, Acquire, InstallZero, Draw,
         BackendReturn, Restore, Return, MoveTo
  <2>3. CASE Step(t)
    <3>1. CASE InstallZero(t)
      BY <2>1, <3>1 DEF InstallZero, MoveTo, At, StepsLeft
    <3>2. CASE Draw(t)
      BY <3>2 DEF Draw
    <3>3. CASE BackendReturn(t)
      <4>1. pc[t] = "backend" /\ Serialised(fn[t])
        BY <2>1, <3>3 DEF BackendReturn, At
      <4>2. lock' = lock /\ pc'[t] \in {"restore", "unlock"}
        BY <2>1, <3>3, <4>1 DEF BackendReturn, MoveTo, AfterBackend
      <4>3. QED
        BY <4>1, <4>2 DEF StepsLeft
    <3>4. CASE Restore(t)
      BY <2>1, <3>4 DEF Restore, MoveTo, At, StepsLeft
    <3>5. CASE Unlock(t)
      BY <3>5 DEF Unlock
    <3>6. ~Reject(t) /\ ~Accept(t) /\ ~Acquire(t) /\ ~Return(t)
      BY <2>1 DEF Reject, Accept, Acquire, Return, At
    <3>7. QED
      BY <2>3, <3>1, <3>2, <3>3, <3>4, <3>5, <3>6 DEF Step
  <2>4. ASSUME NEW u \in Threads, NEW f \in Fns, Call(u, f)
        PROVE  lock' = t /\ pc'[t] = pc[t]
    BY <2>1, <2>4 DEF Call, MoveTo, At
  <2>5. ASSUME NEW x \in Foreign, ForeignDraw(x) PROVE lock' = t /\ pc'[t] = pc[t]
    BY <2>5 DEF ForeignDraw
  <2>6. QED
    BY <2>2, <2>3, <2>4, <2>5 DEF Next
<1>2. QED
  BY <1>1, Invariance, PTL DEF Spec

------------------------------------------------------------------------------
(* The binding implements the contract its callers read.                    *)

LEMMA InitImplements == Init => Contract!Init
  BY DEF Init, Contract!Init, callView, Contract!Idle

\* A step of the binding that the callers see is one step of the contract: a
\* call, an answer or a return of one thread; every other step is a stutter.
LEMMA StepImplements == IInv /\ IInv' /\ [Next]_vars => [Contract!Next]_callView
<1> SUFFICES ASSUME IInv, IInv', [Next]_vars PROVE [Contract!Next]_callView
  OBVIOUS
<1> USE FnsAssumption DEF At, MoveTo
<1>1. ASSUME NEW t \in Threads, NEW f \in Fns, Call(t, f)
      PROVE Contract!Invoke(t, f)
  BY <1>1 DEF Call, Contract!Invoke, callView, Contract!Idle, Contract!Running,
              IInv, TypeOK, Consumers, Pure, Operations
<1>2. ASSUME NEW t \in Threads, Step(t), fn'[t] = fn[t],
             pc[t] # "idle", pc[t] # "answered", pc'[t] # "idle", pc'[t] # "answered",
             \A u \in Threads \ {t} : pc'[u] = pc[u] /\ fn'[u] = fn[u]
                                       /\ ok'[u] = ok[u] /\ drawn'[u] = drawn[u]
      PROVE callView' = callView
  BY <1>2 DEF callView
<1>3. ASSUME NEW t \in Threads, Accept(t) \/ Acquire(t) \/ InstallZero(t)
                                \/ Draw(t) \/ Restore(t)
      PROVE callView' = callView
  <2>1. /\ pc[t] \notin {"idle", "answered"} /\ pc'[t] \notin {"idle", "answered"}
        /\ \A u \in Threads \ {t} : pc'[u] = pc[u] /\ drawn'[u] = drawn[u]
        /\ fn' = fn /\ ok' = ok
    BY <1>3 DEF Accept, Acquire, InstallZero, Draw, Restore, IInv, TypeOK
  <2>2. QED
    BY <1>2, <1>3, <2>1 DEF Step
<1>4. ASSUME NEW t \in Threads, pc[t] \notin {"idle", "answered"}, pc'[t] = "answered",
             fn' = fn, drawn' = drawn,
             \A u \in Threads \ {t} : pc'[u] = pc[u] /\ ok'[u] = ok[u]
      PROVE Contract!Answer(t, fn[t])
  <2> DEFINE a == [ok |-> ok'[t], drew |-> IF ok'[t] THEN drawn'[t] ELSE {}]
  <2>1. callView[t] = Contract!Running(fn[t])
    BY <1>4 DEF callView, Contract!Running
  <2>2. a \in {Contract!Failure, Contract!Success(Contract!Promised(fn[t]))}
    <3>1. CASE ok'[t]
      <4>1. drawn'[t] = Contract!Promised(fn[t])
        BY <1>4, <3>1, SoleSource DEF IInv, DrawsFromPromisedSource
      <4>2. a = Contract!Success(Contract!Promised(fn[t]))
        BY <3>1, <4>1 DEF Contract!Success, IInv, TypeOK
      <4>3. QED
        BY <4>2
    <3>2. CASE ~ok'[t]
      <4>1. a = Contract!Failure
        BY <3>2 DEF Contract!Failure, IInv, TypeOK
      <4>2. QED
        BY <4>1
    <3>3. QED
      BY <3>1, <3>2
  <2>3. callView' = [callView EXCEPT ![t] = Contract!Answered(fn[t], a)]
    BY <1>4 DEF callView, Contract!Answered, IInv, TypeOK
  <2>4. QED
    BY <2>1, <2>2, <2>3 DEF Contract!Answer
<1>5. ASSUME NEW t \in Threads, Reject(t) \/ Unlock(t)
      PROVE Contract!Answer(t, fn[t])
  BY <1>4, <1>5 DEF Reject, Unlock, IInv, TypeOK
<1>6. ASSUME NEW t \in Threads, BackendReturn(t)
      PROVE Contract!Answer(t, fn[t]) \/ callView' = callView
  <2>1. CASE fn[t] \in Consumers
    BY <1>2, <1>6, <2>1 DEF BackendReturn, AfterBackend, Serialised, Consumers, Step,
                            IInv, TypeOK
  <2>2. CASE fn[t] \notin Consumers
    BY <1>4, <1>6, <2>2 DEF BackendReturn, AfterBackend, Serialised, Consumers,
                            IInv, TypeOK
  <2>3. QED
    BY <2>1, <2>2
<1>7. ASSUME NEW t \in Threads, Return(t)
      PROVE Contract!Return(t, fn[t])
  <2> DEFINE a == [ok |-> ok[t], drew |-> IF ok[t] THEN drawn[t] ELSE {}]
  <2>1. callView[t] = Contract!Answered(fn[t], a)
    BY <1>7 DEF Return, callView, Contract!Answered
  <2>2. a \in {Contract!Failure, Contract!Success(Contract!Promised(fn[t]))}
    <3>1. CASE ok[t]
      <4>1. drawn[t] = Contract!Promised(fn[t])
        BY <1>7, <3>1, SoleSource DEF IInv, DrawsFromPromisedSource
      <4>2. a = Contract!Success(Contract!Promised(fn[t]))
        BY <3>1, <4>1 DEF Contract!Success, IInv, TypeOK
      <4>3. QED
        BY <4>2
    <3>2. CASE ~ok[t]
      <4>1. a = Contract!Failure
        BY <3>2 DEF Contract!Failure, IInv, TypeOK
      <4>2. QED
        BY <4>1
    <3>3. QED
      BY <3>1, <3>2
  <2>3. callView' = [callView EXCEPT ![t] = Contract!Idle]
    BY <1>7 DEF Return, callView, Contract!Idle, IInv, TypeOK
  <2>4. QED
    BY <2>1, <2>2, <2>3 DEF Contract!Return
<1>8. ASSUME NEW x \in Foreign, ForeignDraw(x) PROVE callView' = callView
  BY <1>8 DEF ForeignDraw, callView
<1>9. CASE UNCHANGED vars
  BY <1>9 DEF vars, callView
<1>10. \A t \in Threads : fn[t] \in Fns \/ pc[t] = "idle"
  BY DEF IInv, TypeOK, StagesFitFunctions
<1>11. ASSUME NEW t \in Threads, Step(t) PROVE [Contract!Next]_callView
  <2>1. pc[t] # "idle" /\ fn[t] \in Fns
    BY <1>10, <1>11 DEF Step, Reject, Accept, Acquire, InstallZero, Draw,
                        BackendReturn, Restore, Unlock, Return
  <2>2. QED
    BY <1>3, <1>5, <1>6, <1>7, <1>11, <2>1 DEF Step, Contract!Next
<1>12. QED
  BY <1>1, <1>8, <1>9, <1>11 DEF Next, Contract!Next

\* The C binding, with its lock and its RNG switches, implements the contract:
\* each call ends in an error or in an answer drawn from its promised source.
THEOREM Implementation == Spec => ImplementsContract
<1>1. Init => Contract!Init
  BY InitImplements
<1>2. IInv /\ IInv' /\ [Next]_vars => [Contract!Next]_callView
  BY StepImplements
<1>3. QED
  BY <1>1, <1>2, Invariance, PTL DEF Spec, ImplementsContract, Contract!Spec

------------------------------------------------------------------------------
(* A process that forks.                                                    *)

\* The threads of the process followed are threads of the program.
LiveAreThreads == live \subseteq Threads

\* A fork only takes threads away.
LEMMA LiveInvariance == ForkSpec => []LiveAreThreads
<1>1. ForkInit => LiveAreThreads
  BY DEF ForkInit, LiveAreThreads
<1>2. LiveAreThreads /\ [ForkNext]_forkVars => LiveAreThreads'
  BY DEF LiveAreThreads, ForkNext, Run, Fork, forkVars
<1>3. QED
  BY <1>1, <1>2, PTL DEF ForkSpec

\* The behaviours of a process that forks, and of its children, are behaviours
\* of the C binding in one process.
THEOREM ForkRefines == ForkSpec => Spec
<1>1. ForkInit => Init
  BY DEF ForkInit
<1>2. LiveAreThreads /\ [ForkNext]_forkVars => [Next]_vars
  <2> SUFFICES ASSUME LiveAreThreads, [ForkNext]_forkVars PROVE [Next]_vars
    OBVIOUS
  <2>1. ASSUME NEW t \in live, Run(t) PROVE Next
    BY <2>1 DEF Run, Next, LiveAreThreads
  <2>2. ASSUME NEW t \in live, Fork(t) PROVE UNCHANGED vars
    BY <2>2 DEF Fork
  <2>3. CASE UNCHANGED forkVars
    BY <2>3 DEF forkVars
  <2>4. QED
    BY <2>1, <2>2, <2>3 DEF ForkNext
<1>3. QED
  BY <1>1, <1>2, LiveInvariance, PTL DEF ForkSpec, Spec

\* No call in a forked child answers from the wrong source, wherever the other
\* threads of its parent were.
THEOREM ChildRandomness == ForkSpec => []ChildAnswersFromPromisedSource
<1>1. LiveAreThreads /\ AnswersFromPromisedSource => ChildAnswersFromPromisedSource
  BY DEF LiveAreThreads, AnswersFromPromisedSource, ChildAnswersFromPromisedSource
<1>2. QED
  BY <1>1, ForkRefines, LiveInvariance, PromisedRandomness, PTL

\* A forked child keeps the contract of the binding for the calls it makes and for
\* those it was making, whatever its parent's other threads were doing.
THEOREM ForkImplementation == ForkSpec => ImplementsContract
  BY ForkRefines, Implementation

\* A step leaves a lock that belongs to nobody alive where it is.
KeepsLostLock == lock \in Threads \ live => lock' = lock /\ lock' \notin live'

\* A lock whose owner the fork left behind is never given back, which is the one
\* way a child may block (qorechain_pqc.c:16 has no pthread_atfork handler).
THEOREM LostLockStaysLost == ForkSpec => [][KeepsLostLock]_forkVars
<1>1. LiveAreThreads /\ IInv /\ [ForkNext]_forkVars => [KeepsLostLock]_forkVars
  <2> SUFFICES ASSUME LiveAreThreads, IInv, ForkNext, lock \in Threads \ live
               PROVE  lock' = lock /\ lock' \notin live'
    BY DEF forkVars, KeepsLostLock
  <2>1. ASSUME NEW t \in live, Run(t) PROVE lock' = lock /\ live' = live
    <3>1. t \in Threads /\ ~Holding(t) /\ lock # NoThread
      BY ThreadsAssumption DEF LiveAreThreads, IInv, HolderOwnsLock
    <3>2. QED
      BY <2>1, <3>1 DEF Run, Step, Call, Reject, Accept, Acquire, InstallZero, Draw,
         BackendReturn, Restore, Unlock, Return, Holding, At
  <2>2. ASSUME NEW t \in live, Fork(t) PROVE lock' = lock /\ lock' \notin live'
    BY <2>2 DEF Fork, vars
  <2>3. QED
    BY <2>1, <2>2 DEF ForkNext
<1>2. QED
  BY <1>1, ForkRefines, LiveInvariance, Invariance, PTL DEF ForkSpec
==============================================================================
