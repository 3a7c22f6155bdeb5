---------------------------- MODULE QorpqcRng_proofs ----------------------------
(***************************************************************************)
(* TLAPS proofs about QorpqcRng, for any threads, interruptible or not, and *)
(* any methods called.                                                      *)
(***************************************************************************)
EXTENDS QorpqcRng, Integers, TLAPS

\* In the initial state nobody holds the lock and the system RNG is installed.
LEMMA InitIInv == Init => IInv
<1> SUFFICES ASSUME Init PROVE IInv
  OBVIOUS
<1> USE ThreadsAssumption, FnsAssumption DEF Init, At
<1>1. TypeOK
  BY DEF TypeOK, Sources, Stages
<1>2. HolderOwnsLock
  BY DEF HolderOwnsLock, Holding
<1>3. StagesFitMethods
  BY DEF StagesFitMethods
<1>4. ZeroOnlyInWindow
  BY DEF ZeroOnlyInWindow, InWindow
<1>5. SignatureRestoresSystemRng
  BY DEF SignatureRestoresSystemRng
<1>6. DrawsFitStages
  BY DEF DrawsFitStages
<1>7. DrawsFromPromisedSource
  BY DEF DrawsFromPromisedSource
<1>8. QED
  BY <1>1, <1>2, <1>3, <1>4, <1>5, <1>6, <1>7 DEF IInv

\* Every step, interrupts included, keeps the types.
LEMMA TypeStep == TypeOK /\ [Next]_vars => TypeOK'
<1> SUFFICES ASSUME TypeOK, [Next]_vars PROVE TypeOK'
  OBVIOUS
<1> USE FnsAssumption, InterruptibleAssumption
    DEF TypeOK, Sources, Stages, Consumers, At, MoveTo
<1>1. ASSUME NEW t \in Threads, NEW f \in Fns, Call(t, f) PROVE TypeOK'
  BY <1>1 DEF Call
<1>2. ASSUME NEW t \in Threads, Reject(t) PROVE TypeOK'
  BY <1>2 DEF Reject
<1>3. ASSUME NEW t \in Threads, Accept(t) PROVE TypeOK'
  BY <1>3 DEF Accept, Serialised
<1>4. ASSUME NEW t \in Threads, Acquire(t) PROVE TypeOK'
  BY <1>4 DEF Acquire
<1>5. ASSUME NEW t \in Threads, InstallZero(t) PROVE TypeOK'
  BY <1>5 DEF InstallZero
<1>6. ASSUME NEW t \in Threads, EnterTry(t) PROVE TypeOK'
  BY <1>6 DEF EnterTry
<1>7. ASSUME NEW t \in Threads, Draw(t) PROVE TypeOK'
  BY <1>7 DEF Draw
<1>8. ASSUME NEW t \in Threads, BackendReturn(t) PROVE TypeOK'
  BY <1>8 DEF BackendReturn, AfterBackend, Serialised
<1>9. ASSUME NEW t \in Threads, Restore(t) PROVE TypeOK'
  BY <1>9 DEF Restore
<1>10. ASSUME NEW t \in Threads, Exit(t) PROVE TypeOK'
  BY <1>10 DEF Exit
<1>11. ASSUME NEW t \in Threads, Return(t) PROVE TypeOK'
  BY <1>11 DEF Return
<1>12. ASSUME NEW t \in Interruptible, Interrupt(t) PROVE TypeOK'
  BY <1>12 DEF Interrupt, Unwind, AfterBackend, Serialised
<1>13. ASSUME NEW t \in Interruptible, InterruptZeroFill(t) PROVE TypeOK'
  BY <1>13 DEF InterruptZeroFill
<1>14. CASE UNCHANGED vars
  BY <1>14 DEF vars
<1>15. QED
  BY <1>1, <1>2, <1>3, <1>4, <1>5, <1>6, <1>7, <1>8, <1>9, <1>10, <1>11,
     <1>12, <1>13, <1>14
  DEF Next, Step

\* The types of the variables hold in every reachable state.
THEOREM TypeCorrect == Spec => []TypeOK
<1>1. Init => TypeOK
  BY InitIInv DEF IInv
<1>2. TypeOK /\ [Next]_vars => TypeOK'
  BY TypeStep
<1>3. QED
  BY <1>1, <1>2, PTL DEF Spec

------------------------------------------------------------------------------
(* The inductive invariant.                                                 *)

\* A state in which every conjunct holds is left by each action, and by an
\* interrupt at any stage, in one too.
LEMMA InvStep == IInv /\ [Next]_vars => IInv'
<1> SUFFICES ASSUME IInv, [Next]_vars PROVE IInv'
  OBVIOUS
<1>0. TypeOK'
  BY TypeStep DEF IInv
<1> USE ThreadsAssumption
    DEF IInv, TypeOK, HolderOwnsLock, StagesFitMethods, ZeroOnlyInWindow,
        SignatureRestoresSystemRng, DrawsFitStages, DrawsFromPromisedSource,
        Holding, InWindow, At, MoveTo, Serialised, Promised, Consumers, Pure,
        Operations, Stages, Sources
<1>1. ASSUME NEW t \in Threads, NEW f \in Fns, Call(t, f)
      PROVE  IInv'
  <2>1. HolderOwnsLock'
    BY <1>1, FnsAssumption DEF Call
  <2>2. StagesFitMethods'
    BY <1>1, FnsAssumption DEF Call
  <2>3. ZeroOnlyInWindow'
    BY <1>1, FnsAssumption DEF Call
  <2>4. SignatureRestoresSystemRng'
    BY <1>1, FnsAssumption DEF Call
  <2>5. DrawsFitStages'
    BY <1>1, FnsAssumption DEF Call
  <2>6. DrawsFromPromisedSource'
    BY <1>1, FnsAssumption DEF Call
  <2>7. QED
    BY <1>0, <2>1, <2>2, <2>3, <2>4, <2>5, <2>6
<1>2. ASSUME NEW t \in Threads, Reject(t)
      PROVE  IInv'
  <2>1. HolderOwnsLock'
    BY <1>2, FnsAssumption DEF Reject
  <2>2. StagesFitMethods'
    BY <1>2, FnsAssumption DEF Reject
  <2>3. ZeroOnlyInWindow'
    BY <1>2, FnsAssumption DEF Reject
  <2>4. SignatureRestoresSystemRng'
    BY <1>2, FnsAssumption DEF Reject
  <2>5. DrawsFitStages'
    BY <1>2, FnsAssumption DEF Reject
  <2>6. DrawsFromPromisedSource'
    BY <1>2, FnsAssumption DEF Reject
  <2>7. QED
    BY <1>0, <2>1, <2>2, <2>3, <2>4, <2>5, <2>6
<1>3. ASSUME NEW t \in Threads, Accept(t)
      PROVE  IInv'
  <2>1. HolderOwnsLock'
    BY <1>3, FnsAssumption DEF Accept
  <2>2. StagesFitMethods'
    BY <1>3, FnsAssumption DEF Accept
  <2>3. ZeroOnlyInWindow'
    BY <1>3, FnsAssumption DEF Accept
  <2>4. SignatureRestoresSystemRng'
    BY <1>3, FnsAssumption DEF Accept
  <2>5. DrawsFitStages'
    BY <1>3, FnsAssumption DEF Accept
  <2>6. DrawsFromPromisedSource'
    BY <1>3, FnsAssumption DEF Accept
  <2>7. QED
    BY <1>0, <2>1, <2>2, <2>3, <2>4, <2>5, <2>6
<1>4. ASSUME NEW t \in Threads, Acquire(t)
      PROVE  IInv'
  <2>1. HolderOwnsLock'
    BY <1>4, FnsAssumption DEF Acquire
  <2>2. StagesFitMethods'
    BY <1>4, FnsAssumption DEF Acquire
  <2>3. ZeroOnlyInWindow'
    BY <1>4, FnsAssumption DEF Acquire
  <2>4. SignatureRestoresSystemRng'
    BY <1>4, FnsAssumption DEF Acquire
  <2>5. DrawsFitStages'
    BY <1>4, FnsAssumption DEF Acquire
  <2>6. DrawsFromPromisedSource'
    BY <1>4, FnsAssumption DEF Acquire
  <2>7. QED
    BY <1>0, <2>1, <2>2, <2>3, <2>4, <2>5, <2>6
<1>5. ASSUME NEW t \in Threads, InstallZero(t)
      PROVE  IInv'
  <2>1. HolderOwnsLock'
    BY <1>5, FnsAssumption DEF InstallZero
  <2>2. StagesFitMethods'
    BY <1>5, FnsAssumption DEF InstallZero
  <2>3. ZeroOnlyInWindow'
    BY <1>5, FnsAssumption DEF InstallZero
  <2>4. SignatureRestoresSystemRng'
    BY <1>5, FnsAssumption DEF InstallZero
  <2>5. DrawsFitStages'
    BY <1>5, FnsAssumption DEF InstallZero
  <2>6. DrawsFromPromisedSource'
    BY <1>5, FnsAssumption DEF InstallZero
  <2>7. QED
    BY <1>0, <2>1, <2>2, <2>3, <2>4, <2>5, <2>6
<1>6. ASSUME NEW t \in Threads, EnterTry(t)
      PROVE  IInv'
  <2>1. HolderOwnsLock'
    BY <1>6, FnsAssumption DEF EnterTry
  <2>2. StagesFitMethods'
    BY <1>6, FnsAssumption DEF EnterTry
  <2>3. ZeroOnlyInWindow'
    BY <1>6, FnsAssumption DEF EnterTry
  <2>4. SignatureRestoresSystemRng'
    BY <1>6, FnsAssumption DEF EnterTry
  <2>5. DrawsFitStages'
    BY <1>6, FnsAssumption DEF EnterTry
  <2>6. DrawsFromPromisedSource'
    BY <1>6, FnsAssumption DEF EnterTry
  <2>7. QED
    BY <1>0, <2>1, <2>2, <2>3, <2>4, <2>5, <2>6
<1>7. ASSUME NEW t \in Threads, Draw(t)
      PROVE  IInv'
  <2>1. HolderOwnsLock'
    BY <1>7, FnsAssumption DEF Draw
  <2>2. StagesFitMethods'
    BY <1>7, FnsAssumption DEF Draw
  <2>3. ZeroOnlyInWindow'
    BY <1>7, FnsAssumption DEF Draw
  <2>4. SignatureRestoresSystemRng'
    BY <1>7, FnsAssumption DEF Draw
  <2>5. DrawsFitStages'
    BY <1>7, FnsAssumption DEF Draw
  <2>6. DrawsFromPromisedSource'
    BY <1>7, FnsAssumption DEF Draw
  <2>7. QED
    BY <1>0, <2>1, <2>2, <2>3, <2>4, <2>5, <2>6
<1>8. ASSUME NEW t \in Threads, BackendReturn(t)
      PROVE  IInv'
  <2>1. HolderOwnsLock'
    BY <1>8, FnsAssumption DEF BackendReturn, AfterBackend
  <2>2. StagesFitMethods'
    BY <1>8, FnsAssumption DEF BackendReturn, AfterBackend
  <2>3. ZeroOnlyInWindow'
    BY <1>8, FnsAssumption DEF BackendReturn, AfterBackend
  <2>4. SignatureRestoresSystemRng'
    BY <1>8, FnsAssumption DEF BackendReturn, AfterBackend
  <2>5. DrawsFitStages'
    BY <1>8, FnsAssumption DEF BackendReturn, AfterBackend
  <2>6. DrawsFromPromisedSource'
    BY <1>8, FnsAssumption DEF BackendReturn, AfterBackend
  <2>7. QED
    BY <1>0, <2>1, <2>2, <2>3, <2>4, <2>5, <2>6
<1>9. ASSUME NEW t \in Threads, Restore(t)
      PROVE  IInv'
  <2>1. HolderOwnsLock'
    BY <1>9, FnsAssumption DEF Restore
  <2>2. StagesFitMethods'
    BY <1>9, FnsAssumption DEF Restore
  <2>3. ZeroOnlyInWindow'
    BY <1>9, FnsAssumption DEF Restore
  <2>4. SignatureRestoresSystemRng'
    BY <1>9, FnsAssumption DEF Restore
  <2>5. DrawsFitStages'
    BY <1>9, FnsAssumption DEF Restore
  <2>6. DrawsFromPromisedSource'
    BY <1>9, FnsAssumption DEF Restore
  <2>7. QED
    BY <1>0, <2>1, <2>2, <2>3, <2>4, <2>5, <2>6
<1>10. ASSUME NEW t \in Threads, Exit(t)
      PROVE  IInv'
  <2>1. HolderOwnsLock'
    BY <1>10, FnsAssumption DEF Exit
  <2>2. StagesFitMethods'
    BY <1>10, FnsAssumption DEF Exit
  <2>3. ZeroOnlyInWindow'
    BY <1>10, FnsAssumption DEF Exit
  <2>4. SignatureRestoresSystemRng'
    BY <1>10, FnsAssumption DEF Exit
  <2>5. DrawsFitStages'
    BY <1>10, FnsAssumption DEF Exit
  <2>6. DrawsFromPromisedSource'
    BY <1>10, FnsAssumption DEF Exit
  <2>7. QED
    BY <1>0, <2>1, <2>2, <2>3, <2>4, <2>5, <2>6
<1>11. ASSUME NEW t \in Threads, Return(t)
      PROVE  IInv'
  <2>1. HolderOwnsLock'
    BY <1>11, FnsAssumption DEF Return
  <2>2. StagesFitMethods'
    BY <1>11, FnsAssumption DEF Return
  <2>3. ZeroOnlyInWindow'
    BY <1>11, FnsAssumption DEF Return
  <2>4. SignatureRestoresSystemRng'
    BY <1>11, FnsAssumption DEF Return
  <2>5. DrawsFitStages'
    BY <1>11, FnsAssumption DEF Return
  <2>6. DrawsFromPromisedSource'
    BY <1>11, FnsAssumption DEF Return
  <2>7. QED
    BY <1>0, <2>1, <2>2, <2>3, <2>4, <2>5, <2>6
<1>12. ASSUME NEW t \in Interruptible, Interrupt(t)
      PROVE  IInv'
  <2>1. HolderOwnsLock'
    BY <1>12, InterruptibleAssumption DEF Interrupt, Unwind, AfterBackend
  <2>2. StagesFitMethods'
    BY <1>12, InterruptibleAssumption DEF Interrupt, Unwind, AfterBackend
  <2>3. ZeroOnlyInWindow'
    BY <1>12, InterruptibleAssumption DEF Interrupt, Unwind, AfterBackend
  <2>4. SignatureRestoresSystemRng'
    BY <1>12, InterruptibleAssumption DEF Interrupt, Unwind, AfterBackend
  <2>5. DrawsFitStages'
    BY <1>12, InterruptibleAssumption DEF Interrupt, Unwind, AfterBackend
  <2>6. DrawsFromPromisedSource'
    BY <1>12, InterruptibleAssumption DEF Interrupt, Unwind, AfterBackend
  <2>7. QED
    BY <1>0, <2>1, <2>2, <2>3, <2>4, <2>5, <2>6
<1>13. ASSUME NEW t \in Interruptible, InterruptZeroFill(t)
      PROVE  IInv'
  <2>1. HolderOwnsLock'
    BY <1>13, InterruptibleAssumption DEF InterruptZeroFill
  <2>2. StagesFitMethods'
    BY <1>13, InterruptibleAssumption DEF InterruptZeroFill
  <2>3. ZeroOnlyInWindow'
    BY <1>13, InterruptibleAssumption DEF InterruptZeroFill
  <2>4. SignatureRestoresSystemRng'
    BY <1>13, InterruptibleAssumption DEF InterruptZeroFill
  <2>5. DrawsFitStages'
    BY <1>13, InterruptibleAssumption DEF InterruptZeroFill
  <2>6. DrawsFromPromisedSource'
    BY <1>13, InterruptibleAssumption DEF InterruptZeroFill
  <2>7. QED
    BY <1>0, <2>1, <2>2, <2>3, <2>4, <2>5, <2>6
<1>14. CASE UNCHANGED vars
  BY <1>14 DEF vars
<1>15. QED
  BY <1>1, <1>2, <1>3, <1>4, <1>5, <1>6, <1>7, <1>8, <1>9, <1>10, <1>11,
     <1>12, <1>13, <1>14
  DEF Next, Step

\* The inductive invariant holds in every reachable state.
THEOREM Invariance == Spec => []IInv
<1>1. Init => IInv
  BY InitIInv
<1>2. IInv /\ [Next]_vars => IInv'
  BY InvStep
<1>3. QED
  BY <1>1, <1>2, PTL DEF Spec

\* Until an interrupt hits a deterministic sign, the zero filler is installed
\* exactly while the owner of _rng_lock is between the two switches.
THEOREM ZerosStayInTheWindow == Spec => []ZeroOnlyInWindow
<1>1. IInv => ZeroOnlyInWindow
  BY DEF IInv
<1>2. QED
  BY <1>1, Invariance, PTL

\* A signature made after any interrupts leaves the system RNG installed.
THEOREM SignaturesRepair == Spec => []SignatureRestoresSystemRng
<1>1. IInv => SignatureRestoresSystemRng
  BY DEF IInv
<1>2. QED
  BY <1>1, Invariance, PTL

\* A call that has drawn something where it must, and only what it may, has
\* drawn what its method promises.
LEMMA SoleSource ==
  ASSUME NEW d, NEW f, d \subseteq Promised(f), f \in Consumers => d # {}
  PROVE  d = Promised(f) /\ d = Contract!Promised(f)
<1>1. Contract!Promised(f) = Promised(f)
  BY DEF Contract!Promised, Promised, Contract!Consumers, Consumers
<1>2. CASE f \in Consumers
  BY <1>1, <1>2 DEF Promised
<1>3. CASE f \notin Consumers
  BY <1>1, <1>3 DEF Promised, Consumers
<1>4. QED
  BY <1>2, <1>3

\* Until an interrupt hits a deterministic sign, no call returns a result drawn
\* from any randomness but the one its method promises.
THEOREM PromisedRandomness == Spec => []AnswersFromPromisedSource
<1>1. IInv => AnswersFromPromisedSource
  BY SoleSource DEF IInv, DrawsFitStages, DrawsFromPromisedSource,
                    AnswersFromPromisedSource
<1>2. QED
  BY <1>1, Invariance, PTL

\* The steps the holder of _rng_lock has left in its with block.
StepsLeft(stage) == CASE stage = "install" -> 5 [] stage = "try"     -> 4
                      [] stage = "backend" -> 3 [] stage = "finally" -> 2
                      [] stage = "exit"    -> 1 [] OTHER -> 0

\* Whoever holds the lock stays where it is or comes nearer to the end of its with
\* block, and loses the lock there only.
HeadsForExit ==
  \A t \in Threads : lock = t =>
    \/ lock' = t /\ (pc'[t] = pc[t] \/ StepsLeft(pc'[t]) \in 1 .. StepsLeft(pc[t]) - 1)
    \/ lock' = NoThread /\ Exit(t)

\* No path through a with block turns back or leaves the lock behind, whatever raises
\* and whenever a KeyboardInterrupt comes (__init__.py:96, 118-126, 153, 162): with a
\* scheduler that runs the holder, the lock is released.
THEOREM LockOnItsWay == Spec => [][HeadsForExit]_vars
<1>1. IInv /\ [Next]_vars => [HeadsForExit]_vars
  <2> SUFFICES ASSUME IInv, Next, NEW t \in Threads, lock = t
               PROVE  \/ /\ lock' = t
                         /\ \/ pc'[t] = pc[t]
                            \/ StepsLeft(pc'[t]) \in 1 .. StepsLeft(pc[t]) - 1
                      \/ lock' = NoThread /\ Exit(t)
    BY DEF HeadsForExit
  <2>1. /\ pc \in [Threads -> Stages] /\ lock # NoThread
        /\ \/ pc[t] \in {"install", "try", "finally", "exit"}
           \/ pc[t] = "backend" /\ Serialised(fn[t])
    BY ThreadsAssumption DEF IInv, TypeOK, HolderOwnsLock, Holding, At
  <2>2. ASSUME NEW u \in Threads, u # t, Step(u) \/ Interrupt(u) \/ InterruptZeroFill(u)
        PROVE  lock' = t /\ pc'[t] = pc[t]
    <3>1. ~Exit(u)
      BY <2>2 DEF IInv, HolderOwnsLock, Holding, Exit, At
    <3>2. QED
      BY <2>1, <2>2, <3>1 DEF Step, Reject, Accept, Acquire, InstallZero, EnterTry, Draw,
         BackendReturn, Restore, Return, Interrupt, InterruptZeroFill, MoveTo
  <2>3. CASE Step(t)
    <3>1. CASE InstallZero(t)
      BY <2>1, <3>1 DEF InstallZero, MoveTo, At, StepsLeft
    <3>2. CASE EnterTry(t)
      BY <2>1, <3>2 DEF EnterTry, MoveTo, At, StepsLeft
    <3>3. CASE Draw(t)
      BY <3>3 DEF Draw
    <3>4. CASE BackendReturn(t)
      <4>1. pc[t] = "backend" /\ Serialised(fn[t])
        BY <2>1, <3>4 DEF BackendReturn, At
      <4>2. lock' = lock /\ pc'[t] \in {"finally", "exit"}
        BY <2>1, <3>4, <4>1 DEF BackendReturn, MoveTo, AfterBackend
      <4>3. QED
        BY <4>1, <4>2 DEF StepsLeft
    <3>5. CASE Restore(t)
      BY <2>1, <3>5 DEF Restore, MoveTo, At, StepsLeft
    <3>6. CASE Exit(t)
      BY <3>6 DEF Exit
    <3>7. ~Reject(t) /\ ~Accept(t) /\ ~Acquire(t) /\ ~Return(t)
      BY <2>1 DEF Reject, Accept, Acquire, Return, At
    <3>8. QED
      BY <2>3, <3>1, <3>2, <3>3, <3>4, <3>5, <3>6, <3>7 DEF Step
  <2>4. CASE Interrupt(t)
    <3>1. lock' = lock /\ pc'[t] = Unwind(pc[t], fn[t])
      BY <2>1, <2>4 DEF Interrupt, MoveTo
    <3>2. pc[t] # "exit"
      BY <2>4 DEF Interrupt
    <3>3. CASE pc[t] = "backend"
      <4>1. pc'[t] \in {"finally", "exit"}
        BY <2>1, <3>1, <3>3 DEF Unwind, AfterBackend
      <4>2. QED
        BY <3>1, <3>3, <4>1 DEF StepsLeft
    <3>4. CASE pc[t] \in {"install", "try", "finally"}
      <4>1. pc'[t] = "exit"
        BY <3>1, <3>4 DEF Unwind
      <4>2. QED
        BY <3>1, <3>4, <4>1 DEF StepsLeft
    <3>5. QED
      BY <2>1, <3>2, <3>3, <3>4
  <2>5. CASE InterruptZeroFill(t)
    BY <2>5 DEF InterruptZeroFill
  <2>6. ASSUME NEW u \in Threads, NEW f \in Fns, Call(u, f)
        PROVE  lock' = t /\ pc'[t] = pc[t]
    BY <2>1, <2>6 DEF Call, MoveTo, At
  <2>7. QED
    BY <2>2, <2>3, <2>4, <2>5, <2>6, InterruptibleAssumption DEF Next
<1>2. QED
  BY <1>1, Invariance, PTL DEF Spec

------------------------------------------------------------------------------
(* The binding keeps the contract its callers read.                         *)

LEMMA InitImplements == Init => Contract!Init
  BY DEF Init, Contract!Init, callView, Contract!Idle

\* Until an interrupt hits a deterministic sign, a step the callers see is one
\* step of the contract: a call, an answer (an interrupt elsewhere among them)
\* or a return of one thread.
LEMMA StepImplements ==
  ASSUME IInv, IInv', [Next]_vars, ~interrupted'
  PROVE  [Contract!Next]_callView
<1> USE FnsAssumption DEF At, MoveTo
<1>0. ~interrupted
  BY DEF Next, Step, Call, Reject, Accept, Acquire, InstallZero, EnterTry, Draw,
         BackendReturn, Restore, Exit, Return, Interrupt, InterruptZeroFill,
         vars
<1>1. ASSUME NEW t \in Threads, NEW f \in Fns, Call(t, f)
      PROVE Contract!Invoke(t, f)
  BY <1>1 DEF Call, Contract!Invoke, callView, Contract!Idle, Contract!Running,
              IInv, TypeOK, Consumers, Pure, Operations
<1>2. ASSUME NEW t \in Threads, fn' = fn,
             pc[t] \notin {"idle", "answered"}, pc'[t] \notin {"idle", "answered"},
             \A u \in Threads \ {t} : pc'[u] = pc[u] /\ ok'[u] = ok[u]
                                       /\ drawn'[u] = drawn[u]
      PROVE callView' = callView
  BY <1>2 DEF callView
<1>3. ASSUME NEW t \in Threads, Accept(t) \/ Acquire(t) \/ InstallZero(t)
                                \/ EnterTry(t) \/ Draw(t) \/ Restore(t)
      PROVE callView' = callView
  <2>1. /\ pc[t] \notin {"idle", "answered"} /\ pc'[t] \notin {"idle", "answered"}
        /\ \A u \in Threads \ {t} : pc'[u] = pc[u] /\ drawn'[u] = drawn[u]
        /\ fn' = fn /\ ok' = ok
    BY <1>3 DEF Accept, Acquire, InstallZero, EnterTry, Draw, Restore, IInv, TypeOK
  <2>2. QED
    BY <1>2, <2>1
<1>4. ASSUME NEW t \in Threads, pc[t] \notin {"idle", "answered"}, pc'[t] = "answered",
             fn' = fn, drawn' = drawn,
             \A u \in Threads \ {t} : pc'[u] = pc[u] /\ ok'[u] = ok[u]
      PROVE Contract!Answer(t, fn[t])
  <2> DEFINE a == [ok |-> ok'[t], drew |-> IF ok'[t] THEN drawn'[t] ELSE {}]
  <2>1. callView[t] = Contract!Running(fn[t])
    BY <1>4 DEF callView, Contract!Running
  <2>2. a \in {Contract!Failure, Contract!Success(Contract!Promised(fn[t]))}
    <3>1. CASE ok'[t]
      <4>1. drawn'[t] = Contract!Promised(fn[t])
        BY <1>4, <3>1, SoleSource DEF IInv, DrawsFitStages, DrawsFromPromisedSource
      <4>2. a = Contract!Success(Contract!Promised(fn[t]))
        BY <3>1, <4>1 DEF Contract!Success, IInv, TypeOK
      <4>3. QED
        BY <4>2
    <3>2. CASE ~ok'[t]
      <4>1. a = Contract!Failure
        BY <3>2 DEF Contract!Failure, IInv, TypeOK
      <4>2. QED
        BY <4>1
    <3>3. QED
      BY <3>1, <3>2
  <2>3. callView' = [callView EXCEPT ![t] = Contract!Answered(fn[t], a)]
    BY <1>4 DEF callView, Contract!Answered, IInv, TypeOK
  <2>4. QED
    BY <2>1, <2>2, <2>3 DEF Contract!Answer
<1>5. ASSUME NEW t \in Threads, Reject(t) \/ Exit(t)
      PROVE Contract!Answer(t, fn[t])
  BY <1>4, <1>5 DEF Reject, Exit, IInv, TypeOK
<1>6. ASSUME NEW t \in Threads, BackendReturn(t)
      PROVE Contract!Answer(t, fn[t]) \/ callView' = callView
  <2>1. CASE fn[t] \in Consumers
    BY <1>2, <1>6, <2>1 DEF BackendReturn, AfterBackend, Serialised, Consumers,
                            IInv, TypeOK
  <2>2. CASE fn[t] \notin Consumers
    BY <1>4, <1>6, <2>2 DEF BackendReturn, AfterBackend, Serialised, Consumers,
                            IInv, TypeOK
  <2>3. QED
    BY <2>1, <2>2
<1>7. ASSUME NEW t \in Threads, Interrupt(t)
      PROVE Contract!Answer(t, fn[t]) \/ callView' = callView
  <2>1. /\ pc[t] \notin {"idle", "answered"} /\ pc'[t] \in {"exit", "finally", "answered"}
        /\ fn' = fn /\ drawn' = drawn
        /\ \A u \in Threads \ {t} : pc'[u] = pc[u] /\ ok'[u] = ok[u]
    BY <1>7 DEF Interrupt, Unwind, AfterBackend, IInv, TypeOK
  <2>2. CASE pc'[t] = "answered"
    BY <1>4, <2>1, <2>2
  <2>3. CASE pc'[t] # "answered"
    BY <1>2, <2>1, <2>3
  <2>4. QED
    BY <2>2, <2>3
<1>8. ASSUME NEW t \in Threads, Return(t)
      PROVE Contract!Return(t, fn[t])
  <2> DEFINE a == [ok |-> ok[t], drew |-> IF ok[t] THEN drawn[t] ELSE {}]
  <2>1. callView[t] = Contract!Answered(fn[t], a)
    BY <1>8 DEF Return, callView, Contract!Answered
  <2>2. a \in {Contract!Failure, Contract!Success(Contract!Promised(fn[t]))}
    <3>1. CASE ok[t]
      <4>1. drawn[t] = Contract!Promised(fn[t])
        BY <1>0, <1>8, <3>1, SoleSource DEF IInv, DrawsFitStages, DrawsFromPromisedSource
      <4>2. a = Contract!Success(Contract!Promised(fn[t]))
        BY <3>1, <4>1 DEF Contract!Success, IInv, TypeOK
      <4>3. QED
        BY <4>2
    <3>2. CASE ~ok[t]
      <4>1. a = Contract!Failure
        BY <3>2 DEF Contract!Failure, IInv, TypeOK
      <4>2. QED
        BY <4>1
    <3>3. QED
      BY <3>1, <3>2
  <2>3. callView' = [callView EXCEPT ![t] = Contract!Idle]
    BY <1>8 DEF Return, callView, Contract!Idle, IInv, TypeOK
  <2>4. QED
    BY <2>1, <2>2, <2>3 DEF Contract!Return
<1>9. ASSUME NEW t \in Interruptible, InterruptZeroFill(t) PROVE callView' = callView
  BY <1>9, <1>2, InterruptibleAssumption DEF InterruptZeroFill, IInv, TypeOK
<1>10. CASE UNCHANGED vars
  BY <1>10 DEF vars, callView
<1>11. ASSUME NEW t \in Threads, Step(t) \/ Interrupt(t)
       PROVE  [Contract!Next]_callView
  <2>1. pc[t] # "idle"
    BY <1>11 DEF Step, Reject, Accept, Acquire, InstallZero, EnterTry, Draw,
                 BackendReturn, Restore, Exit, Return, Interrupt
  <2>2. fn[t] \in Fns
    BY <2>1 DEF IInv, TypeOK, StagesFitMethods
  <2>3. QED
    BY <1>3, <1>5, <1>6, <1>7, <1>8, <1>11, <2>2 DEF Step, Contract!Next
<1>12. QED
  BY <1>1, <1>9, <1>10, <1>11, InterruptibleAssumption DEF Next, Contract!Next

\* The Python binding keeps the contract until an interrupt hits a
\* deterministic sign, for any threads and any interrupts elsewhere.
THEOREM Conformance == Spec => KeepsContract
<1>1. Init => Contract!Init
  BY InitImplements
<1>2. IInv /\ IInv' /\ [Next]_vars => [interrupted' \/ [Contract!Next]_callView]_vars
  BY StepImplements
<1>3. QED
  BY <1>1, <1>2, Invariance, PTL DEF Spec, KeepsContract
==============================================================================
