----------------------------- MODULE QpqcBuffers -----------------------------
(***************************************************************************)
(* Who owns the buffers of the C binding (src/c/qorechain_pqc.c).  Keygen,  *)
(* signing, encapsulation and the sign-bytes builders malloc what they      *)
(* return through out parameters, and each of their early returns leaves    *)
(* the pointer and the length in a state of its own.  The caller frees with *)
(* qpqc_free(pointer, length), which overwrites length bytes first.         *)
(*                                                                          *)
(* A caller makes one of the calls over and over, with any parameter set    *)
(* each time, and treats its variables in one of four ways: calls of        *)
(* different functions share no out parameter.  Lengths are kept as small   *)
(* numbers, contents as "may hold a secret".  A free of what the caller     *)
(* does not own is undefined: the behaviour ends in front of it.            *)
(***************************************************************************)
EXTENDS Integers, FiniteSetsExt, Functions

CONSTANTS Algs,       \* parameter sets, each the length of its public key
          MaxBuffers  \* bound: live buffers per slot; beyond it malloc fails

ASSUME AlgsAssumption       == Algs \subseteq Nat \ {0}
ASSUME MaxBuffersAssumption == MaxBuffers \in Nat

\* The out parameters of each call.
Calls == {"keygen", "sign", "encapsulate", "sign_bytes"}
SlotsOf(f) == CASE f = "keygen"      -> {"pk", "sk"}
                [] f = "sign"        -> {"sig"}
                [] f = "encapsulate" -> {"ct"}
                [] f = "sign_bytes"  -> {"out"}

\* The length of what fills a slot: a secret key is longer than its public key.
LengthOf(alg, slot) == IF slot = "sk" THEN 2 * alg ELSE alg

\* What a caller does with its variables, after src/c/test_vectors.c:
\*   fresh       declares them NULL and 0 for each call, frees them whatever the
\*               call returned (43-48, 65-70, 97 and 148);
\*   on success  leaves them uninitialised, frees them if the call succeeded
\*               (pk and sk: 85-88, 149);
\*   unchecked   leaves them uninitialised, ignores the result and frees them (hb:
\*               85, 90, 149);
\*   reused      declares them NULL and 0 once, frees them whatever the call
\*               returned and sets the pointer alone back to NULL (sig: 85, 95),
\*               then calls again.  The test makes no second call into sig; the
\*               header asks for no more than the free (qorechain_pqc.h:27-32).
Idioms == {"fresh", "on success", "unchecked", "reused"}

\* Pointers are names of buffers, <<slot, n>>, or one of these two.
NULL  == <<"NULL">>
Wild  == <<"uninitialised">>
Unset == -1  \* an uninitialised length

VARIABLES
  call,    \* the call this caller makes
  idiom,   \* how it treats its variables
  var,     \* its pointer and length for each slot of the call
  heap,    \* the live buffers: length, whether a secret is in it, call's result
  result   \* "none" before the call, then what it returned

vars == <<call, idiom, var, heap, result>>

Slots == SlotsOf(call)

\* What the variables are when their scope begins.
Declared(how) == IF how \in {"on success", "unchecked"}
                 THEN [ptr |-> Wild, len |-> Unset]
                 ELSE [ptr |-> NULL, len |-> 0]

Init ==
  /\ call \in Calls /\ idiom \in Idioms
  /\ var = [s \in Slots |-> Declared(idiom)]
  /\ heap = <<>>
  /\ result = "none"

\* The buffer malloc returns for a slot, if it returns one.
Unused(slot)    == {b \in {slot} \X (1 .. MaxBuffers) : b \notin DOMAIN heap}
NewBuffer(slot) == CHOOSE b \in Unused(slot) : TRUE

\* The slots whose malloc succeeds.
Obtained == SUBSET {s \in Slots : Unused(s) # {}}

\* The lengths as the caller had them, or those of the parameter set.
OldLengths      == [s \in Slots |-> var[s].len]
NewLengths(alg) == [s \in Slots |-> LengthOf(alg, s)]

Begins(f) == call = f /\ result = "none" /\ UNCHANGED <<call, idiom>>

\* The call has got buffers for the slots in got and returns rc.
Allocate(got, rc, alg) ==
  /\ got # Slots => rc = "err"
  /\ heap' = [b \in DOMAIN heap \cup {NewBuffer(s) : s \in got} |->
               IF b \in DOMAIN heap THEN heap[b]
               ELSE [length |-> LengthOf(alg, b[1]), rc |-> rc,
                     secret |-> b[1] = "sk" /\ got = Slots]]
  /\ result' = rc

\* Every slot points to its new buffer or is NULL, and has the length of lens.
Assign(got, lens) ==
  var' = [s \in Slots |-> [ptr |-> IF s \in got THEN NewBuffer(s) ELSE NULL,
                           len |-> lens[s]]]

------------------------------------------------------------------------------
\* OQS_*_new returns NULL, a key has the wrong length, the chain-id is empty, the
\* version is unknown or the builder's malloc fails: no out parameter is touched.
Refuse ==
  /\ result = "none"
  /\ result' = "err"
  /\ UNCHANGED <<call, idiom, var, heap>>

\* Mutants: the lengths are set on success only, each is the other key's, or they
\* count a terminator.
LengthsOnSuccess(got, rc, alg) == IF rc = "ok" THEN NewLengths(alg) ELSE OldLengths
LengthsSwapped(got, rc, alg) ==
  IF call = "keygen" THEN [pk |-> LengthOf(alg, "sk"), sk |-> LengthOf(alg, "pk")]
  ELSE NewLengths(alg)
LengthsPlusOne(got, rc, alg) == [s \in Slots |-> LengthOf(alg, s) + 1]

\* Keygen and encapsulate set the lengths after their mallocs, whatever liboqs
\* returned, and leave them alone if a malloc failed.
LengthsAfter(got, rc, alg) == IF got = Slots THEN NewLengths(alg) ELSE OldLengths

\* If one of the two mallocs fails the other buffer stays with the caller.
Keygen(alg) ==
  /\ Begins("keygen")
  /\ \E got \in Obtained, rc \in {"ok", "err"} :
       Allocate(got, rc, alg) /\ Assign(got, LengthsAfter(got, rc, alg))

\* qpqc_mldsa_sign and _sign_hedged: only OQS_SIG_sign sets *sig_len, and when it
\* fails it may leave it alone.
Sign(alg) ==
  /\ Begins("sign")
  /\ \E got \in Obtained, rc \in {"ok", "err"} :
       /\ Allocate(got, rc, alg)
       /\ \/ rc = "err" /\ Assign(got, OldLengths)
          \/ got = Slots /\ Assign(got, NewLengths(alg))

\* Mutant: *ct is assigned only if OQS_KEM_encaps succeeds.
LoseCiphertext(alg) ==
  /\ Begins("encapsulate")
  /\ \E got \in Obtained, rc \in {"ok", "err"} :
       /\ Allocate(got, rc, alg)
       /\ IF rc = "ok" THEN Assign(got, NewLengths(alg)) ELSE UNCHANGED var

Encapsulate(alg) ==
  /\ Begins("encapsulate")
  /\ \E got \in Obtained, rc \in {"ok", "err"} :
       Allocate(got, rc, alg) /\ Assign(got, LengthsAfter(got, rc, alg))

\* Both builders keep the buffer in a local until nothing can fail any more.
SignBytes(alg) ==
  /\ Begins("sign_bytes")
  /\ \E got \in Obtained \ {{}} :
       Allocate(got, "ok", alg) /\ Assign(got, NewLengths(alg))

\* The slots the caller passes to qpqc_free and qpqc_free does not ignore.
Freed == {s \in Slots : /\ idiom = "on success" => result = "ok"
                        /\ var[s].ptr # NULL}

\* A live buffer, and no more bytes of it than there are.
Owned(s) == /\ var[s].ptr \in DOMAIN heap
            /\ var[s].len \in 0 .. heap[var[s].ptr].length

\* The caller frees what it frees, and its variables are ready for the next call.
Done ==
  /\ result # "none"
  /\ \A s \in Freed : Owned(s)
  /\ heap' = Restrict(heap, DOMAIN heap \ {var[s].ptr : s \in Freed})
  /\ var' = [s \in Slots |-> IF idiom = "reused" THEN [var[s] EXCEPT !.ptr = NULL]
                             ELSE Declared(idiom)]
  /\ result' = "none"
  /\ UNCHANGED <<call, idiom>>

Next == \/ Refuse \/ Done
        \/ \E alg \in Algs : Keygen(alg) \/ Sign(alg) \/ Encapsulate(alg) \/ SignBytes(alg)

Spec == Init /\ [][Next]_vars

------------------------------------------------------------------------------
(* Properties.                                                              *)

Lengths == {LengthOf(alg, s) : alg \in Algs, s \in {"pk", "sk", "sig", "ct", "out"}}

\* The types of the variables.
TypeOK ==
  /\ call \in Calls /\ idiom \in Idioms
  /\ DOMAIN var = Slots
  /\ \A s \in Slots : /\ var[s].ptr \in ({s} \X (1 .. MaxBuffers)) \cup {NULL, Wild}
                      /\ var[s].len \in Lengths \cup {0, Unset}
  /\ DOMAIN heap \subseteq Slots \X (1 .. MaxBuffers)
  /\ \A b \in DOMAIN heap : heap[b] \in [length : Lengths, rc : {"ok", "err"}, secret : BOOLEAN]
  /\ result \in {"none", "ok", "err"}

\* Variables the call never wrote: it refused, or a malloc or liboqs failed before
\* the length was set.
Unwritten(s) == /\ idiom = "unchecked" /\ result = "err"
                /\ var[s].ptr = Wild \/ var[s].len = Unset

\* The new buffer of a keygen whose other malloc failed (qorechain_pqc.c:23), or of
\* a signature liboqs did not make (52, 69), with the length of an earlier call
\* that had a larger parameter set.
Stale(s) == /\ idiom = "reused" /\ result = "err" /\ call \in {"keygen", "sign"}
            /\ var[s].ptr \in DOMAIN heap
            /\ \E alg \in Algs : /\ var[s].len = LengthOf(alg, s)
                                 /\ LengthOf(alg, s) > heap[var[s].ptr].length

\* Every free is of a live buffer and OQS_MEM_cleanse stays inside it
\* (qorechain_pqc.c:192), except two, both after a failed call: of variables left
\* uninitialised by a caller that does not look at the result, and of a smaller
\* parameter set's buffer with the length a larger one left in the caller's
\* variable.  A caller that declares its variables for each call, or frees after
\* success only, is safe whatever fails.
OnlyFailuresMisleadAFree ==
  result # "none" => \A s \in Freed : Owned(s) \/ Unwritten(s) \/ Stale(s)

\* A secret key that is freed is overwritten to its end first, the key of a
\* keygen that failed inside liboqs included.
SecretsAreCleansed ==
  result # "none" =>
    \A s \in Freed : LET b == var[s].ptr
                     IN  b \in DOMAIN heap /\ heap[b].secret => var[s].len = heap[b].length

\* Every live buffer is in the hands of a caller who will free it, except those a
\* failed call left to a caller who frees after success only.
LostOnlyAfterFailure ==
  \A b \in DOMAIN heap :
    \/ result # "none" /\ b \in {var[s].ptr : s \in Freed}
    \/ idiom = "on success" /\ heap[b].rc = "err"
==============================================================================
