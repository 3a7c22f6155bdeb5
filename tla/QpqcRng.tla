------------------------------- MODULE QpqcRng -------------------------------
(***************************************************************************)
(* The C binding (src/c/qorechain_pqc.c) seen from the threads of one       *)
(* process: liboqs has ONE RNG for the whole process, deterministic signing *)
(* switches it to a zero filler and back, and qpqc_rng_lock serialises every*)
(* function of the file that draws randomness.  Verify and decapsulate run  *)
(* without the lock.  Other users of liboqs in the process take no lock.    *)
(*                                                                          *)
(* Abstracted: buffers and lengths (module of their own in the plan), key,  *)
(* message and signature bytes, the ML-DSA and ML-KEM levels.  What is kept *)
(* of the cryptography is which RNG each draw came from.                    *)
(***************************************************************************)
EXTENDS Operations

CONSTANTS Threads,   \* threads that call this binding
          Foreign,   \* threads that use liboqs directly, without the lock
          Fns,       \* the functions of the binding the threads call
          NoThread   \* owner of the lock while nobody holds it

ASSUME FnsAssumption     == Fns \subseteq Operations
ASSUME ThreadsAssumption == NoThread \notin Threads

VARIABLES
  rng,     \* liboqs's process-global RNG: the system RNG or the zero filler
  lock,    \* the owner of qpqc_rng_lock
  pc,      \* where each thread is
  fn,      \* the function it is in
  drawn,   \* the RNGs its current call has drawn from
  ok,      \* whether its backend call reported success
  seen     \* the RNG each foreign thread last drew from

vars == <<rng, lock, pc, fn, drawn, ok, seen>>

Stages  == {"idle", "entry", "lock", "install", "backend", "restore", "unlock",
            "answered"}

Init ==
  /\ rng   = "system"
  /\ lock  = NoThread
  /\ pc    = [t \in Threads |-> "idle"]
  /\ fn    = [t \in Threads |-> "none"]
  /\ drawn = [t \in Threads |-> {}]
  /\ ok    = [t \in Threads |-> FALSE]
  /\ seen  = [x \in Foreign |-> "none"]

At(t, stage)     == pc[t] = stage
MoveTo(t, stage) == pc' = [pc EXCEPT ![t] = stage]

\* Mutants: encapsulate forgets the lock, verify takes it as well.
EncapsulateUnlocked(f) == f \in Consumers \ {"encapsulate"}
EverythingLocked(f)    == f \in Operations

\* The functions that take qpqc_rng_lock around their backend call.
Serialised(f) == f \in Consumers

------------------------------------------------------------------------------
(* The calls.                                                               *)

Call(t, f) ==
  /\ At(t, "idle")
  /\ fn' = [fn EXCEPT ![t] = f]
  /\ MoveTo(t, "entry")
  /\ UNCHANGED <<rng, lock, drawn, ok, seen>>

\* OQS_*_new returns NULL, an input has the wrong length, or malloc fails: the
\* early returns with QPQC_ERR, all of them before the lock.
Reject(t) ==
  /\ At(t, "entry")
  /\ MoveTo(t, "answered")
  /\ UNCHANGED <<rng, lock, fn, drawn, ok, seen>>

Accept(t) ==
  /\ At(t, "entry")
  /\ MoveTo(t, IF Serialised(fn[t]) THEN "lock" ELSE "backend")
  /\ UNCHANGED <<rng, lock, fn, drawn, ok, seen>>

\* pthread_mutex_lock returns.
Acquire(t) ==
  /\ At(t, "lock")
  /\ lock = NoThread
  /\ lock' = t
  /\ MoveTo(t, IF fn[t] = "sign" THEN "install" ELSE "backend")
  /\ UNCHANGED <<rng, fn, drawn, ok, seen>>

\* OQS_randombytes_custom_algorithm(qpqc_zero_rng).
InstallZero(t) ==
  /\ At(t, "install")
  /\ rng' = "zero"
  /\ MoveTo(t, "backend")
  /\ UNCHANGED <<lock, fn, drawn, ok, seen>>

\* One OQS_randombytes inside the backend call; a call may make several.
Draw(t) ==
  /\ At(t, "backend")
  /\ fn[t] \in Consumers
  /\ drawn' = [drawn EXCEPT ![t] = @ \cup {rng}]
  /\ UNCHANGED <<rng, lock, pc, fn, ok, seen>>

\* Mutants: sign does not switch back, or every function returns under the lock.
NoRestore(f) == IF Serialised(f) THEN "unlock" ELSE "answered"
NoUnlock(f)  == IF f = "sign" THEN "restore" ELSE "answered"

\* The stage that follows the backend call of f.
AfterBackend(f) == IF f = "sign" THEN "restore"
                   ELSE IF Serialised(f) THEN "unlock" ELSE "answered"

\* The backend call returns: an error at any point, success once it has drawn
\* what it needs.
BackendReturn(t) ==
  /\ At(t, "backend")
  /\ \E success \in BOOLEAN :
       /\ success /\ fn[t] \in Consumers => drawn[t] # {}
       /\ ok' = [ok EXCEPT ![t] = success]
  /\ MoveTo(t, AfterBackend(fn[t]))
  /\ UNCHANGED <<rng, lock, fn, drawn, seen>>

\* Mutant: the switch names another RNG of liboqs.
RestoreOther(t) ==
  /\ At(t, "restore")
  /\ rng' = "OpenSSL"
  /\ MoveTo(t, "unlock")
  /\ UNCHANGED <<lock, fn, drawn, ok, seen>>

\* OQS_randombytes_switch_algorithm(OQS_RAND_alg_system), whatever the result.
Restore(t) ==
  /\ At(t, "restore")
  /\ rng' = "system"
  /\ MoveTo(t, "unlock")
  /\ UNCHANGED <<lock, fn, drawn, ok, seen>>

Unlock(t) ==
  /\ At(t, "unlock")
  /\ lock' = NoThread
  /\ MoveTo(t, "answered")
  /\ UNCHANGED <<rng, fn, drawn, ok, seen>>

\* The function frees its OQS object and returns to the caller.
Return(t) ==
  /\ At(t, "answered")
  /\ MoveTo(t, "idle")
  /\ fn'    = [fn EXCEPT ![t] = "none"]
  /\ drawn' = [drawn EXCEPT ![t] = {}]
  /\ ok'    = [ok EXCEPT ![t] = FALSE]
  /\ UNCHANGED <<rng, lock, seen>>

\* Another user of liboqs in the process draws from the RNG installed now.
ForeignDraw(x) ==
  /\ seen' = [seen EXCEPT ![x] = rng]
  /\ UNCHANGED <<rng, lock, pc, fn, drawn, ok>>

------------------------------------------------------------------------------
Step(t) == \/ Reject(t) \/ Accept(t) \/ Acquire(t) \/ InstallZero(t) \/ Draw(t)
           \/ BackendReturn(t) \/ Restore(t) \/ Unlock(t) \/ Return(t)

Next == \/ \E t \in Threads : Step(t) \/ \E f \in Fns : Call(t, f)
        \/ \E x \in Foreign : ForeignDraw(x)

Spec == Init /\ [][Next]_vars

\* A call that has begun goes on: its thread is scheduled and its backend call
\* ends.  A thread waiting for the lock gets it only if the lock stays free: a
\* default pthread mutex promises no order among the waiters.
FairSpec == Spec /\ \A t \in Threads : WF_vars(Step(t)) /\ WF_vars(BackendReturn(t))

------------------------------------------------------------------------------
(* Properties.                                                              *)

\* The types of the variables.
TypeOK ==
  /\ rng   \in Sources
  /\ lock  \in Threads \cup {NoThread}
  /\ pc    \in [Threads -> Stages]
  /\ fn    \in [Threads -> Fns \cup {"none"}]
  /\ drawn \in [Threads -> SUBSET Sources]
  /\ ok    \in [Threads -> BOOLEAN]
  /\ seen  \in [Foreign -> Sources \cup {"none"}]

\* Thread t is between the two RNG switches of qpqc_mldsa_sign.
InWindow(t) == fn[t] = "sign" /\ pc[t] \in {"backend", "restore"}

\* The RNG is the zero filler exactly while the holder of qpqc_rng_lock is
\* between the two switches of qpqc_mldsa_sign (qorechain_pqc.c:50-54): no path,
\* the failure of OQS_SIG_sign included, leaves it installed.
ZeroOnlyInWindow ==
  rng = "zero" <=> \E t \in Threads : lock = t /\ InWindow(t)

\* Every successful call drew from the source its function promises and from no
\* other, however the calls of other threads interleave with it: no key,
\* ciphertext or hedged signature is drawn from the zero filler, and no
\* deterministic signature from the system RNG (qorechain_pqc.h:30-37).
AnswersFromPromisedSource ==
  \A t \in Threads : At(t, "answered") /\ ok[t] => drawn[t] = Promised(fn[t])

\* Thread t has taken qpqc_rng_lock and not given it back.
Holding(t) == \/ pc[t] \in {"install", "restore", "unlock"}
              \/ At(t, "backend") /\ Serialised(fn[t])

\* qpqc_rng_lock is owned by the one thread between its lock and unlock calls.
HolderOwnsLock == \A t \in Threads : Holding(t) <=> lock = t

\* Only the functions that draw wait for the lock, and only deterministic
\* signing switches the RNG.
StagesFitFunctions ==
  \A t \in Threads :
    /\ At(t, "idle") <=> fn[t] = "none"
    /\ pc[t] \in {"lock", "unlock"} => Serialised(fn[t])
    /\ pc[t] \in {"install", "restore"} => fn[t] = "sign"

\* What a call has drawn so far is from its promised source alone, is nothing
\* before its backend call, and is something once that call has succeeded.
DrawsFromPromisedSource ==
  \A t \in Threads :
    /\ drawn[t] \subseteq Promised(fn[t])
    /\ pc[t] \in {"idle", "entry", "lock", "install"} => drawn[t] = {}
    /\ pc[t] \in {"idle", "entry", "lock", "install", "backend"} => ~ok[t]
    /\ ok[t] /\ fn[t] \in Consumers => drawn[t] # {}

\* The inductive invariant: the lock's owner is the one thread inside its
\* critical section, the window is inside the owner's, and draws made so far
\* match the promise while the call is still running.
IInv == /\ TypeOK
        /\ HolderOwnsLock
        /\ StagesFitFunctions
        /\ ZeroOnlyInWindow
        /\ DrawsFromPromisedSource

\* A liboqs user outside this binding, which takes no lock, draws zeros only
\* while a deterministic signature is being made (the limit the comment at
\* qorechain_pqc.c:14-15 states): never before, after or between signatures.
ForeignZerosOnlyWhileSigning ==
  [][\A x \in Foreign : seen'[x] = "zero" /\ seen'[x] # seen[x]
       => \E t \in Threads : lock = t /\ InWindow(t)]_vars

\* The binding as its callers see it implements the contract: a call is a
\* step to running, one answer, and a return, and no step of one thread is
\* visible in the call of another.
callView ==
  [t \in Threads |->
     IF pc[t] = "idle" THEN [stage |-> "idle"]
     ELSE IF pc[t] # "answered" THEN [stage |-> "running", fn |-> fn[t]]
     ELSE [stage |-> "answered", fn |-> fn[t],
           answer |-> [ok   |-> ok[t], drew |-> IF ok[t] THEN drawn[t] ELSE {}]]]

Contract == INSTANCE RngContract WITH call <- callView

\* The refinement, as a property TLC and TLAPS take.
ImplementsContract == Contract!Spec

\* Whoever holds qpqc_rng_lock lets it go, the failing paths included.
LockIsReleased ==
  \A t \in Threads : lock = t ~> lock # t

\* A thread waits for the lock for ever only if other threads go on making new
\* calls for ever: a finite burst of calls always drains.  No stronger promise
\* holds, for the mutex is not fair.
WaiterStarvesOnlyUnderLoad ==
  \A t \in Threads :
    \/ At(t, "lock") ~> ~At(t, "lock")
    \/ []<><<\E u \in Threads \ {t}, f \in Fns : Call(u, f)>>_vars

\* Verify and decapsulate return whatever the holder of the lock does: neither
\* takes qpqc_rng_lock (qorechain_pqc.c:75-94).
PureCallsReturn ==
  \A t \in Threads : fn[t] \in Pure ~> At(t, "idle")
==============================================================================
