------------------------------- MODULE QorpqcRng -------------------------------
(***************************************************************************)
(* The Python binding (src/python/qorpqc/__init__.py) seen from the threads *)
(* of one interpreter.  It keeps the same promise as the C binding with the *)
(* same means, a lock and two switches of liboqs's process-global RNG, but  *)
(* in Python: the lock is a with block, the switch back is in a finally     *)
(* clause, a failing backend raises, the zero filler is a Python callback,  *)
(* and a KeyboardInterrupt may be raised in the main thread between any two *)
(* steps of it.                                                             *)
(*                                                                          *)
(* liboqs-python and CPython are modelled from how the binding uses them: a *)
(* with block on a lock enters and leaves in one step, an interrupted wait  *)
(* for a lock raises without it, and ctypes swallows what a callback raises.*)
(***************************************************************************)
EXTENDS Operations

CONSTANTS Threads,        \* threads that call this binding
          Interruptible,  \* those of them interrupts are raised in: CPython
                          \* raises them in the main thread, so at most one
          Fns,            \* the methods of the binding the threads call
          NoThread        \* owner of the lock while nobody holds it

ASSUME FnsAssumption           == Fns \subseteq Operations
ASSUME ThreadsAssumption       == NoThread \notin Threads
ASSUME InterruptibleAssumption == Interruptible \subseteq Threads

VARIABLES
  rng,          \* liboqs's process-global RNG
  lock,         \* the owner of _rng_lock
  pc,           \* where each thread is
  fn,           \* the method it is in
  drawn,        \* what its current call has drawn
  ok,           \* whether the call has a result to return rather than a raise
  interrupted   \* history: some deterministic sign was interrupted in its lock

vars == <<rng, lock, pc, fn, drawn, ok, interrupted>>

Stages == {"idle", "entry", "lock", "install", "try", "backend", "finally",
           "exit", "answered"}

Init ==
  /\ rng   = "system"
  /\ lock  = NoThread
  /\ pc    = [t \in Threads |-> "idle"]
  /\ fn    = [t \in Threads |-> "none"]
  /\ drawn = [t \in Threads |-> {}]
  /\ ok    = [t \in Threads |-> FALSE]
  /\ interrupted = FALSE

At(t, stage)     == pc[t] = stage
MoveTo(t, stage) == pc' = [pc EXCEPT ![t] = stage]

\* Mutant: hedged signing forgets the lock.
HedgedUnlocked(f) == f \in Consumers \ {"sign_hedged"}

\* The methods whose body is inside "with _rng_lock".
Serialised(f) == f \in Consumers

------------------------------------------------------------------------------
(* The calls.                                                               *)

Call(t, f) ==
  /\ At(t, "idle")
  /\ fn' = [fn EXCEPT ![t] = f]
  /\ MoveTo(t, "entry")
  /\ UNCHANGED <<rng, lock, drawn, ok, interrupted>>

\* An argument is not bytes or has the wrong length.  verify answers False, the
\* other methods raise ValueError; keygen takes no argument to check.
Reject(t) ==
  /\ At(t, "entry")
  /\ fn[t] # "keygen"
  /\ ok' = [ok EXCEPT ![t] = fn[t] = "verify"]
  /\ MoveTo(t, "answered")
  /\ UNCHANGED <<rng, lock, fn, drawn, interrupted>>

Accept(t) ==
  /\ At(t, "entry")
  /\ MoveTo(t, IF Serialised(fn[t]) THEN "lock" ELSE "backend")
  /\ UNCHANGED <<rng, lock, fn, drawn, ok, interrupted>>

\* The with block is entered.
Acquire(t) ==
  /\ At(t, "lock")
  /\ lock = NoThread
  /\ lock' = t
  /\ MoveTo(t, IF fn[t] = "sign" THEN "install" ELSE "backend")
  /\ UNCHANGED <<rng, fn, drawn, ok, interrupted>>

\* OQS_randombytes_custom_algorithm(_ZERO_RNG), which is before the try.
InstallZero(t) ==
  /\ At(t, "install")
  /\ rng' = "zero"
  /\ MoveTo(t, "try")
  /\ UNCHANGED <<lock, fn, drawn, ok, interrupted>>

EnterTry(t) ==
  /\ At(t, "try")
  /\ MoveTo(t, "backend")
  /\ UNCHANGED <<rng, lock, fn, drawn, ok, interrupted>>

\* One OQS_randombytes inside the backend call; a call may make several.
Draw(t) ==
  /\ At(t, "backend")
  /\ fn[t] \in Consumers
  /\ drawn' = [drawn EXCEPT ![t] = @ \cup {rng}]
  /\ UNCHANGED <<rng, lock, pc, fn, ok, interrupted>>

\* Mutant: the switch back to the system RNG is forgotten.
NoFinally(f) == IF Serialised(f) THEN "exit" ELSE "answered"

\* The stage that follows the with oqs.Signature or oqs.KeyEncapsulation block.
AfterBackend(f) == IF f = "sign" THEN "finally"
                   ELSE IF Serialised(f) THEN "exit" ELSE "answered"

\* Mutant: the switch back follows the signature instead of being in a finally.
RestoreOnSuccessOnly(t) ==
  /\ At(t, "backend")
  /\ \E success \in BOOLEAN :
       /\ success /\ fn[t] \in Consumers => drawn[t] # {}
       /\ ok' = [ok EXCEPT ![t] = success \/ fn[t] = "verify"]
       /\ MoveTo(t, IF success THEN AfterBackend(fn[t]) ELSE NoFinally(fn[t]))
  /\ UNCHANGED <<rng, lock, fn, drawn, interrupted>>

\* The oqs object is made, used and freed: it raises at any point, or succeeds
\* once it has drawn what it needs.  verify turns a raise into False.
BackendReturn(t) ==
  /\ At(t, "backend")
  /\ \E success \in BOOLEAN :
       /\ success /\ fn[t] \in Consumers => drawn[t] # {}
       /\ ok' = [ok EXCEPT ![t] = success \/ fn[t] = "verify"]
  /\ MoveTo(t, AfterBackend(fn[t]))
  /\ UNCHANGED <<rng, lock, fn, drawn, interrupted>>

\* Mutant: the finally clause names another RNG of liboqs.
RestoreDefault(t) ==
  /\ At(t, "finally")
  /\ rng' = "OpenSSL"
  /\ MoveTo(t, "exit")
  /\ UNCHANGED <<lock, fn, drawn, ok, interrupted>>

\* The finally clause: randombytes_switch_algorithm("system").
Restore(t) ==
  /\ At(t, "finally")
  /\ rng' = "system"
  /\ MoveTo(t, "exit")
  /\ UNCHANGED <<lock, fn, drawn, ok, interrupted>>

\* The with block is left, by its end or by an exception.
Exit(t) ==
  /\ At(t, "exit")
  /\ lock' = NoThread
  /\ MoveTo(t, "answered")
  /\ UNCHANGED <<rng, fn, drawn, ok, interrupted>>

\* The caller takes the result or the exception.
Return(t) ==
  /\ At(t, "answered")
  /\ MoveTo(t, "idle")
  /\ fn'    = [fn EXCEPT ![t] = "none"]
  /\ drawn' = [drawn EXCEPT ![t] = {}]
  /\ ok'    = [ok EXCEPT ![t] = FALSE]
  /\ UNCHANGED <<rng, lock, interrupted>>

------------------------------------------------------------------------------
(* Interrupts.                                                              *)

\* Mutant: acquire and release around the body instead of a with block.
UnwindPastRelease(stage, f) ==
  IF stage = "backend" /\ f = "sign" THEN "finally" ELSE "answered"

\* The stage an exception raised at a stage unwinds to: inside the try it runs
\* the finally clause, inside the with block it leaves the block.  At "install"
\* it precedes the switch to zeros, at "finally" the switch back.
Unwind(stage, f) ==
  IF stage \in {"install", "try", "finally"} THEN "exit"
  ELSE IF stage = "backend" THEN AfterBackend(f)
  ELSE "answered"

\* KeyboardInterrupt is raised in t: the call ends with it, not with a result.
Interrupt(t) ==
  /\ pc[t] \in {"entry", "lock", "install", "try", "backend", "finally"}
  /\ MoveTo(t, Unwind(pc[t], fn[t]))
  /\ ok' = [ok EXCEPT ![t] = FALSE]
  /\ interrupted' = (interrupted \/ (lock = t /\ fn[t] = "sign"))
  /\ UNCHANGED <<rng, lock, fn, drawn>>

\* It is raised in the callback _zero_fill instead, before its memset: ctypes
\* reports and drops it, and liboqs goes on with the buffer as it was.
InterruptZeroFill(t) ==
  /\ At(t, "backend")
  /\ fn[t] \in Consumers
  /\ rng = "zero"
  /\ drawn' = [drawn EXCEPT ![t] = @ \cup {"unset"}]
  /\ interrupted' = (interrupted \/ (lock = t /\ fn[t] = "sign"))
  /\ UNCHANGED <<rng, lock, pc, fn, ok>>

------------------------------------------------------------------------------
Step(t) == \/ Reject(t) \/ Accept(t) \/ Acquire(t) \/ InstallZero(t) \/ EnterTry(t)
           \/ Draw(t) \/ BackendReturn(t) \/ Restore(t) \/ Exit(t) \/ Return(t)

Next == \/ \E t \in Threads : Step(t) \/ \E f \in Fns : Call(t, f)
        \/ \E t \in Interruptible : Interrupt(t) \/ InterruptZeroFill(t)

Spec == Init /\ [][Next]_vars

\* A call that has begun goes on; no interrupt is promised, and the lock is not
\* fair among its waiters.
FairSpec == Spec /\ \A t \in Threads : WF_vars(Step(t)) /\ WF_vars(BackendReturn(t))

------------------------------------------------------------------------------
(* Properties.                                                              *)

\* The types of the variables.
TypeOK ==
  /\ rng   \in Sources
  /\ lock  \in Threads \cup {NoThread}
  /\ pc    \in [Threads -> Stages]
  /\ fn    \in [Threads -> Fns \cup {"none"}]
  /\ drawn \in [Threads -> SUBSET (Sources \cup {"unset"})]
  /\ ok    \in [Threads -> BOOLEAN]
  /\ interrupted \in BOOLEAN

\* Thread t is between the two RNG switches of MlDsa.sign.
InWindow(t) == fn[t] = "sign" /\ pc[t] \in {"try", "backend", "finally"}

\* As long as no interrupt has hit a deterministic sign, whatever raises, the
\* zero filler is installed exactly while the holder of _rng_lock is between
\* the two switches (__init__.py:120-126).
ZeroOnlyInWindow ==
  ~interrupted => (rng = "zero" <=> \E t \in Threads : lock = t /\ InWindow(t))

\* As long as no interrupt has hit a deterministic sign, every call that returns
\* a result drew it from the source its method promises and from no other,
\* interrupts of the other methods included (__init__.py:26-36).
AnswersFromPromisedSource ==
  ~interrupted =>
    \A t \in Threads : At(t, "answered") /\ ok[t] => drawn[t] = Promised(fn[t])

\* Interrupted or not, before it or since, a deterministic sign that has a
\* signature to return leaves the lock with the system RNG installed: such a
\* call also repairs what an interrupted one left behind.
SignatureRestoresSystemRng ==
  \A t \in Threads :
    At(t, "exit") /\ fn[t] = "sign" /\ ok[t] => rng = "system"

\* Thread t is inside "with _rng_lock".
Holding(t) == \/ pc[t] \in {"install", "try", "finally", "exit"}
              \/ At(t, "backend") /\ Serialised(fn[t])

\* _rng_lock is owned by the one thread inside its with block; no interrupt, of
\* the wait for the lock included, separates the two.
HolderOwnsLock == \A t \in Threads : Holding(t) <=> lock = t

\* Only the methods that draw wait for the lock, and only deterministic signing
\* switches the RNG.
StagesFitMethods ==
  \A t \in Threads :
    /\ At(t, "idle") <=> fn[t] = "none"
    /\ pc[t] \in {"lock", "exit"} => Serialised(fn[t])
    /\ pc[t] \in {"install", "try", "finally"} => fn[t] = "sign"

\* A running call has no result before its backend call, and none without
\* having drawn what it needs.
DrawsFitStages ==
  \A t \in Threads :
    /\ pc[t] \in {"idle", "entry", "lock", "install", "try"} => drawn[t] = {}
    /\ pc[t] \in {"idle", "entry", "lock", "install", "try", "backend"} => ~ok[t]
    /\ ok[t] /\ fn[t] \in Consumers => drawn[t] # {}

\* Draws come from the promised source alone until a deterministic sign is
\* interrupted.
DrawsFromPromisedSource ==
  ~interrupted => \A t \in Threads : drawn[t] \subseteq Promised(fn[t])

\* The inductive invariant.
IInv == /\ TypeOK
        /\ HolderOwnsLock
        /\ StagesFitMethods
        /\ ZeroOnlyInWindow
        /\ SignatureRestoresSystemRng
        /\ DrawsFitStages
        /\ DrawsFromPromisedSource

callView ==
  [t \in Threads |->
     IF pc[t] = "idle" THEN [stage |-> "idle"]
     ELSE IF pc[t] # "answered" THEN [stage |-> "running", fn |-> fn[t]]
     ELSE [stage |-> "answered", fn |-> fn[t],
           answer |-> [ok   |-> ok[t], drew |-> IF ok[t] THEN drawn[t] ELSE {}]]]

Contract == INSTANCE RngContract WITH call <- callView

\* The binding keeps the contract step by step until an interrupt hits a
\* deterministic sign; an interrupt anywhere else is one failed answer of one
\* call.
KeepsContract ==
  Contract!Init /\ [][interrupted' \/ [Contract!Next]_callView]_vars

\* Whoever enters "with _rng_lock" leaves it, interrupted or not.
LockIsReleased ==
  \A t \in Threads : lock = t ~> lock # t

\* A thread waits for the lock for ever only if other threads go on making new
\* calls for ever, interrupts or not.
WaiterStarvesOnlyUnderLoad ==
  \A t \in Threads :
    \/ At(t, "lock") ~> ~At(t, "lock")
    \/ []<><<\E u \in Threads \ {t}, f \in Fns : Call(u, f)>>_vars

------------------------------------------------------------------------------
(* What the comments say of every call, and interrupts break.               *)

\* __init__.py:28-30: "MlDsa.sign routes liboqs's RNG to a zero filler for the
\* duration of the sign call, then restores the system RNG": with nobody inside
\* the lock the system RNG is installed.
RestoredAfterSign == lock = NoThread => rng = "system"

\* __init__.py:104-105: "DETERMINISTIC ... by default: the same (secret_key,
\* message) always yields the same signature": a signature returned was made
\* from zeros.
SignaturesAreDeterministic ==
  \A t \in Threads :
    At(t, "answered") /\ ok[t] /\ fn[t] = "sign" => drawn[t] = {"zero"}
==============================================================================
