------------------------------- MODULE QpqcFork -------------------------------
(***************************************************************************)
(* The C binding in a process that forks while its other threads are inside *)
(* the binding.  The module follows one process: at a fork it becomes the   *)
(* child, which has the memory of the parent, so its RNG and its lock, but  *)
(* only the thread that called fork.  The binding registers no              *)
(* pthread_atfork handler, so a lock held by another thread stays held.     *)
(***************************************************************************)
EXTENDS QpqcRng

VARIABLE live  \* the threads the process followed has

forkVars == <<vars, live>>

ForkInit == Init /\ live = Threads

\* Mutant: the child re-initialises the lock and nothing else.
ForkResetsLock(t) ==
  /\ At(t, "idle")
  /\ live' = {t}
  /\ lock' = NoThread
  /\ UNCHANGED <<rng, pc, fn, drawn, ok, seen>>

\* A thread forks outside the binding; the process followed is now the child.
Fork(t) ==
  /\ At(t, "idle")
  /\ live' = {t}
  /\ UNCHANGED vars

Run(t) == (Step(t) \/ \E f \in Fns : Call(t, f)) /\ UNCHANGED live

ForkNext == \E t \in live : Run(t) \/ Fork(t)

ForkSpec == ForkInit /\ [][ForkNext]_forkVars

\* The threads that are left go on with the calls they have begun.
ForkFairSpec ==
  /\ ForkSpec
  /\ \A t \in Threads : /\ WF_forkVars(t \in live /\ Step(t) /\ UNCHANGED live)
                        /\ WF_forkVars(t \in live /\ BackendReturn(t) /\ UNCHANGED live)

------------------------------------------------------------------------------
(* Properties.                                                              *)

\* A fork at any moment, in the signing window included, leaves a child whose
\* RNG is the zero filler only if its lock is held for ever: no call in the
\* child answers from the wrong source.
ChildAnswersFromPromisedSource ==
  \A t \in live : At(t, "answered") /\ ok[t] => drawn[t] = Promised(fn[t])

\* A thread waits for ever only under an endless load, or in a child whose lock
\* belongs to a thread the fork did not copy (qorechain_pqc.c:16 has no
\* pthread_atfork handler).
BlockedOnlyByLostOwner ==
  \A t \in Threads :
    \/ (t \in live /\ At(t, "lock")) ~> (t \notin live \/ ~At(t, "lock"))
    \/ <>[](lock \in Threads \ live)
    \/ []<><<\E u \in Threads \ {t}, f \in Fns : Call(u, f)>>_forkVars

\* Verify and decapsulate return in the child, whatever thread held the lock.
ChildPureCallsReturn ==
  \A t \in Threads :
    (t \in live /\ fn[t] \in Pure) ~> (t \notin live \/ At(t, "idle"))
==============================================================================
