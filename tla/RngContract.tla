----------------------------- MODULE RngContract -----------------------------
(***************************************************************************)
(* What a binding over liboqs promises each caller about randomness, said   *)
(* without locks or RNG switches (src/c/qorechain_pqc.h:27-44,              *)
(* src/python/qorpqc/__init__.py:26-36).  Every call ends in an error or in *)
(* an answer whose randomness has one source: the zero filler for           *)
(* deterministic signing, the system RNG for keygen, hedged signing and     *)
(* encapsulation, nothing for verify and decapsulate.  Calls of different   *)
(* threads do not influence one another.                                    *)
(***************************************************************************)
EXTENDS Operations

CONSTANTS Threads,  \* the threads that call the binding
          Fns       \* the functions they call, among Operations

VARIABLE call  \* each thread's call: what it called, how far it is, the answer

Idle           == [stage |-> "idle"]
Running(f)     == [stage |-> "running", fn |-> f]
Answered(f, a) == [stage |-> "answered", fn |-> f, answer |-> a]

\* An answer is an error or an output together with the sources it was drawn from.
Failure    == [ok |-> FALSE, drew |-> {}]
Success(d) == [ok |-> TRUE, drew |-> d]

Init == call = [t \in Threads |-> Idle]

Invoke(t, f) ==
  /\ call[t] = Idle
  /\ call' = [call EXCEPT ![t] = Running(f)]

Answer(t, f) ==
  /\ call[t] = Running(f)
  /\ \E a \in {Failure, Success(Promised(f))} :
       call' = [call EXCEPT ![t] = Answered(f, a)]

Return(t, f) ==
  /\ \E a \in {Failure, Success(Promised(f))} : call[t] = Answered(f, a)
  /\ call' = [call EXCEPT ![t] = Idle]

Next == \E t \in Threads, f \in Fns : Invoke(t, f) \/ Answer(t, f) \/ Return(t, f)

Spec == Init /\ [][Next]_call
==============================================================================
