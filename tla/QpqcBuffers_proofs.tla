-------------------------- MODULE QpqcBuffers_proofs --------------------------
(***************************************************************************)
(* Who owns the buffers of the C binding, for any parameter sets and any    *)
(* number of calls.                                                         *)
(*                                                                          *)
(* The three properties need two more facts: between calls a pointer is as  *)
(* it was declared, and a length a caller brings to a call is the one it    *)
(* declared or, if it keeps its variables, one some parameter set gives     *)
(* that slot.                                                               *)
(***************************************************************************)
EXTENDS QpqcBuffers, Sequences, TLAPS

Pointers == (Slots \X Nat) \cup {NULL, Wild}

Shapes ==
  /\ call \in Calls /\ idiom \in Idioms
  /\ var \in [Slots -> [ptr : Pointers, len : Int]]
  /\ DOMAIN heap \subseteq Slots \X Nat
  /\ \A b \in DOMAIN heap : heap[b].length \in Nat
  /\ result \in {"none", "ok", "err"}

\* Between calls a caller holds no buffer.
Idle == result = "none" => \A s \in Slots : var[s].ptr = Declared(idiom).ptr

\* What a caller that keeps its variables may find in a length.
PastLengths(s) == {0} \cup {LengthOf(a, s) : a \in Algs}

\* The lengths a caller brings to a call.
Brought ==
  \A s \in Slots : /\ idiom = "fresh" /\ result = "none" => var[s].len = 0
                   /\ idiom = "unchecked" /\ result = "none" => var[s].len = Unset
                   /\ idiom = "reused" => var[s].len \in PastLengths(s)

IInv == /\ TypeOK /\ Shapes /\ Idle /\ Brought
        /\ OnlyFailuresMisleadAFree /\ SecretsAreCleansed /\ LostOnlyAfterFailure

------------------------------------------------------------------------------
LEMMA LengthType == \A alg \in Algs : \A s : LengthOf(alg, s) \in Nat
  BY AlgsAssumption DEF LengthOf

LEMMA PairsAreNotNull == \A s, n : <<s, n>> # NULL
<1> SUFFICES ASSUME NEW s, NEW n, <<s, n>> = <<"NULL">> PROVE FALSE
  BY DEF NULL
<1>1. Len(<<s, n>>) = 2 /\ Len(<<"NULL">>) = 1
  OBVIOUS
<1>2. QED
  BY <1>1

\* A live buffer's name is no uninitialised pointer.
LEMMA PairsAreNotWild == \A s, n : <<s, n>> # Wild
<1> SUFFICES ASSUME NEW s, NEW n, <<s, n>> = <<"uninitialised">> PROVE FALSE
  BY DEF Wild
<1>1. Len(<<s, n>>) = 2 /\ Len(<<"uninitialised">>) = 1
  OBVIOUS
<1>2. QED
  BY <1>1

LEMMA LengthOfSlot ==
  ASSUME call \in Calls, NEW s \in Slots, NEW alg \in Algs
  PROVE  LengthOf(alg, s) \in Lengths
<1>1. s \in {"pk", "sk", "sig", "ct", "out"}
  BY DEF Slots, SlotsOf, Calls
<1>2. QED
  BY <1>1 DEF Lengths

\* malloc returns a buffer of the slot that is not live yet.
LEMMA NewBufferIsNew ==
  ASSUME NEW s \in Slots, Unused(s) # {}
  PROVE  /\ NewBuffer(s) \in Slots \X Nat
         /\ NewBuffer(s) \in {s} \X (1 .. MaxBuffers)
         /\ NewBuffer(s)[1] = s
         /\ NewBuffer(s) \notin DOMAIN heap
         /\ NewBuffer(s) # NULL
<1>1. NewBuffer(s) \in Unused(s)
  BY DEF NewBuffer
<1>2. NewBuffer(s) \in {s} \X (1 .. MaxBuffers) /\ NewBuffer(s) \notin DOMAIN heap
  BY <1>1 DEF Unused
<1>3. PICK n \in 1 .. MaxBuffers : NewBuffer(s) = <<s, n>>
  BY <1>2
<1>4. n \in Nat
  BY MaxBuffersAssumption
<1>5. <<s, n>> # NULL
  BY PairsAreNotNull
<1>6. QED
  BY <1>2, <1>3, <1>4, <1>5

LEMMA Initially == Init => IInv
<1> SUFFICES ASSUME Init PROVE IInv
  OBVIOUS
<1>1. call \in Calls /\ idiom \in Idioms /\ result = "none"
  BY DEF Init
<1>2. var = [s \in Slots |-> Declared(idiom)] /\ heap = <<>>
  BY DEF Init
<1>3. DOMAIN heap = {}
  BY <1>2
<1>4. Declared(idiom) \in [ptr : {NULL, Wild}, len : Int]
  BY DEF Declared, Unset
<1>5. Shapes
  BY <1>1, <1>2, <1>3, <1>4 DEF Shapes, Pointers
<1>6. TypeOK
  <2>1. \A s \in Slots : var[s].ptr \in {NULL, Wild} /\ var[s].len \in {0, Unset}
    BY <1>2 DEF Declared
  <2>2. QED
    BY <1>1, <1>2, <1>3, <2>1 DEF TypeOK
<1>7. Idle
  BY <1>2 DEF Idle
<1>8. Brought
  BY <1>2 DEF Brought, PastLengths, Declared
<1>9. QED
  BY <1>1, <1>3, <1>5, <1>6, <1>7, <1>8
     DEF IInv, OnlyFailuresMisleadAFree, SecretsAreCleansed, LostOnlyAfterFailure

\* A call that gets the buffers in got, whatever becomes of it, if it sets the
\* lengths whenever it succeeds and, unless it signs, whenever it got every buffer.
LEMMA AllocationKeeps ==
  ASSUME IInv, NEW alg \in Algs, NEW got \in Obtained, NEW rc \in {"ok", "err"}, NEW lens,
         Begins(call), Allocate(got, rc, alg), Assign(got, lens),
         lens = NewLengths(alg) \/ lens = OldLengths,
         rc = "ok" \/ (got = Slots /\ call # "sign") => lens = NewLengths(alg)
  PROVE  IInv'
<1>1. /\ result = "none" /\ result' = rc /\ (rc = "ok" => got = Slots)
      /\ UNCHANGED <<call, idiom>>
  BY DEF Begins, Allocate
<1>2. Slots' = Slots
  BY <1>1 DEF Slots
<1>3. got \subseteq Slots
  BY DEF Obtained
<1>4. \A s \in got : /\ NewBuffer(s) \in Slots \X Nat
                     /\ NewBuffer(s) \in {s} \X (1 .. MaxBuffers)
                     /\ NewBuffer(s)[1] = s
                     /\ NewBuffer(s) \notin DOMAIN heap
                     /\ NewBuffer(s) # NULL
  BY NewBufferIsNew DEF Obtained
<1>5. /\ DOMAIN heap' = DOMAIN heap \cup {NewBuffer(s) : s \in got}
      /\ \A b \in DOMAIN heap : heap'[b] = heap[b]
      /\ \A s \in got : heap'[NewBuffer(s)] =
                          [length |-> LengthOf(alg, s), rc |-> rc,
                           secret |-> s = "sk" /\ got = Slots]
  BY <1>4 DEF Allocate
<1>6. ASSUME NEW s \in got
       PROVE  /\ heap'[NewBuffer(s)].length = LengthOf(alg, s)
              /\ heap'[NewBuffer(s)].rc = rc
              /\ heap'[NewBuffer(s)].secret => s = "sk" /\ got = Slots
  <2>1. heap'[NewBuffer(s)] = [length |-> LengthOf(alg, s), rc |-> rc,
                               secret |-> s = "sk" /\ got = Slots]
    BY <1>5
  <2>2. heap'[NewBuffer(s)].length = LengthOf(alg, s) /\ heap'[NewBuffer(s)].rc = rc
    BY <2>1
  <2>3. heap'[NewBuffer(s)].secret = (s = "sk" /\ got = Slots)
    BY <2>1
  <2>4. QED
    BY <2>2, <2>3
<1>7. var' = [s \in Slots |-> [ptr |-> IF s \in got THEN NewBuffer(s) ELSE NULL,
                               len |-> lens[s]]]
  BY DEF Assign
<1>8. \A s \in Slots : /\ var'[s].ptr = IF s \in got THEN NewBuffer(s) ELSE NULL
                       /\ var'[s].len = lens[s]
  BY <1>7
<1>9. \A s \in Slots : lens[s] \in Int
  BY LengthType DEF IInv, Shapes, NewLengths, OldLengths
<1>10. ASSUME NEW s \in Slots, idiom # "on success"
      PROVE  \/ lens[s] = LengthOf(alg, s)
             \/ lens[s] = 0
             \/ idiom = "unchecked" /\ lens[s] = Unset
             \/ idiom = "reused" /\ \E a \in Algs : lens[s] = LengthOf(a, s)
  <2>1. CASE lens = NewLengths(alg)
    BY <2>1 DEF NewLengths
  <2>2. CASE lens = OldLengths
    <3>1. lens[s] = var[s].len
      BY <2>2 DEF OldLengths
    <3>2. CASE idiom \in {"fresh", "unchecked"}
      BY <1>1, <3>1, <3>2 DEF IInv, Brought
    <3>3. CASE idiom = "reused"
      BY <1>1, <3>1, <3>3 DEF IInv, Brought, PastLengths
    <3>4. QED
      BY <1>10, <3>2, <3>3 DEF IInv, Shapes, Idioms
  <2>3. QED
    BY <2>1, <2>2
<1>11. ASSUME NEW s \in Slots, rc = "ok" \/ (call # "sign" /\ got = Slots)
       PROVE  lens[s] = LengthOf(alg, s)
  BY <1>11 DEF NewLengths
<1>12. Shapes'
  <2>1. var' \in [Slots -> [ptr : Pointers, len : Int]]
    BY <1>4, <1>7, <1>9 DEF Pointers
  <2>2. DOMAIN heap' \subseteq Slots \X Nat
    BY <1>4, <1>5 DEF IInv, Shapes
  <2>3. \A b \in DOMAIN heap' : heap'[b].length \in Nat
    BY <1>5, <1>6, LengthType DEF IInv, Shapes
  <2>4. Pointers' = Pointers
    BY <1>2 DEF Pointers
  <2>5. QED
    BY <1>1, <1>2, <2>1, <2>2, <2>3, <2>4 DEF IInv, Shapes
<1>13. Idle'
  BY <1>1 DEF Idle
<1>14. Brought'
  <2>1. ASSUME NEW s \in Slots, idiom = "reused"
        PROVE  var'[s].len \in PastLengths(s)
    BY <1>8, <1>10, <2>1 DEF PastLengths
  <2>2. QED
    BY <1>1, <1>2, <2>1 DEF Brought, PastLengths
<1>15. ASSUME NEW s \in Freed'
       PROVE  /\ s \in got
              /\ var'[s].ptr = NewBuffer(s) /\ NewBuffer(s) \in DOMAIN heap'
              /\ var'[s].len = lens[s]
              /\ idiom = "on success" => rc = "ok"
  <2>1. s \in Slots /\ var'[s].ptr # NULL /\ (idiom = "on success" => rc = "ok")
    BY <1>1, <1>2 DEF Freed
  <2>2. QED
    BY <1>5, <1>8, <2>1
<1>16. OnlyFailuresMisleadAFree'
  <2>1. ASSUME NEW s \in Freed'
        PROVE  Owned(s)' \/ Unwritten(s)' \/ Stale(s)'
    <3>1. /\ var'[s].ptr \in DOMAIN heap' /\ var'[s].len = lens[s]
          /\ heap'[var'[s].ptr].length = LengthOf(alg, s)
      BY <1>15, <1>6
    <3>2. LengthOf(alg, s) \in Nat
      BY LengthType
    <3>3. CASE lens[s] = LengthOf(alg, s) \/ lens[s] = 0
      BY <3>1, <3>2, <3>3 DEF Owned
    <3>4. CASE lens[s] # LengthOf(alg, s) /\ lens[s] # 0
      <4>1. rc = "err" /\ idiom # "on success" /\ s \in Slots
        BY <1>3, <1>11, <1>15, <3>4
      <4>2. call \in {"keygen", "sign"}
        <5>1. got # Slots \/ call = "sign"
          BY <1>11, <3>4, <4>1
        <5>2. ASSUME got # Slots PROVE call = "keygen"
          <6>1. s \in got /\ got \subseteq Slots /\ call \in Calls
            BY <1>3, <1>15 DEF IInv, Shapes
          <6>2. CASE call = "sign"
            BY <5>2, <6>1, <6>2 DEF Slots, SlotsOf
          <6>3. CASE call = "encapsulate"
            BY <5>2, <6>1, <6>3 DEF Slots, SlotsOf
          <6>4. CASE call = "sign_bytes"
            BY <5>2, <6>1, <6>4 DEF Slots, SlotsOf
          <6>5. QED
            BY <6>1, <6>2, <6>3, <6>4 DEF Calls
        <5>3. QED
          BY <5>1, <5>2
      <4>3. CASE idiom = "unchecked" /\ lens[s] = Unset
        BY <1>1, <3>1, <4>1, <4>3 DEF Unwritten
      <4>4. ASSUME idiom = "reused", NEW a \in Algs, lens[s] = LengthOf(a, s)
            PROVE  Owned(s)' \/ Stale(s)'
        <5>1. LengthOf(a, s) \in Nat
          BY LengthType
        <5>2. CASE LengthOf(a, s) <= LengthOf(alg, s)
          BY <3>1, <3>2, <4>4, <5>1, <5>2 DEF Owned
        <5>3. CASE LengthOf(a, s) > LengthOf(alg, s)
          BY <1>1, <3>1, <4>1, <4>2, <4>4, <5>3 DEF Stale
        <5>4. QED
          BY <3>2, <5>1, <5>2, <5>3
      <4>5. QED
        BY <1>10, <3>4, <4>1, <4>3, <4>4
    <3>5. QED
      BY <3>3, <3>4
  <2>2. QED
    BY <2>1 DEF OnlyFailuresMisleadAFree
<1>17. SecretsAreCleansed'
  <2>1. ASSUME NEW s \in Freed', heap'[var'[s].ptr].secret
        PROVE  var'[s].len = heap'[var'[s].ptr].length
    <3>1. s = "sk" /\ got = Slots
      BY <1>15, <1>6, <2>1
    <3>2. s \in Slots /\ call # "sign"
      BY <1>3, <1>15, <3>1 DEF Slots, SlotsOf
    <3>3. lens[s] = LengthOf(alg, s)
      BY <1>11, <3>1, <3>2
    <3>4. QED
      BY <1>15, <1>6, <3>3
  <2>2. QED
    BY <2>1 DEF SecretsAreCleansed
<1>18. LostOnlyAfterFailure'
  <2>1. ASSUME NEW b \in DOMAIN heap
        PROVE  idiom' = "on success" /\ heap'[b].rc = "err"
    BY <1>1, <1>5 DEF IInv, LostOnlyAfterFailure
  <2>2. ASSUME NEW s \in got
        PROVE  \/ result' # "none" /\ \E t \in Freed' : NewBuffer(s) = var'[t].ptr
               \/ idiom' = "on success" /\ heap'[NewBuffer(s)].rc = "err"
    <3>1. CASE idiom = "on success" /\ rc = "err"
      BY <1>1, <1>6, <3>1
    <3>2. CASE ~(idiom = "on success" /\ rc = "err")
      <4>1. s \in Freed'
        BY <1>1, <1>2, <1>3, <1>4, <1>8, <3>2 DEF Freed
      <4>2. QED
        BY <1>1, <1>15, <4>1
    <3>3. QED
      BY <3>1, <3>2
  <2>3. QED
    BY <1>5, <2>1, <2>2 DEF LostOnlyAfterFailure
<1>19. TypeOK'
  <2>1. ASSUME NEW s \in Slots
        PROVE  /\ var'[s].ptr \in ({s} \X (1 .. MaxBuffers)) \cup {NULL, Wild}
               /\ var'[s].len \in Lengths \cup {0, Unset}
    <3>1. var'[s].ptr \in ({s} \X (1 .. MaxBuffers)) \cup {NULL, Wild}
      BY <1>4, <1>8
    <3>2. CASE lens = NewLengths(alg)
      BY <1>8, <3>1, <3>2, LengthOfSlot DEF NewLengths, IInv, Shapes
    <3>3. CASE lens = OldLengths
      BY <1>8, <3>1, <3>3 DEF OldLengths, IInv, TypeOK
    <3>4. QED
      BY <3>2, <3>3
  <2>2. DOMAIN heap' \subseteq Slots \X (1 .. MaxBuffers)
    BY <1>3, <1>4, <1>5 DEF IInv, TypeOK
  <2>3. ASSUME NEW b \in DOMAIN heap'
        PROVE  heap'[b] \in [length : Lengths, rc : {"ok", "err"}, secret : BOOLEAN]
    <3>1. CASE b \in DOMAIN heap
      BY <1>5, <3>1 DEF IInv, TypeOK
    <3>2. ASSUME NEW s \in got, b = NewBuffer(s)
          PROVE  heap'[b] \in [length : Lengths, rc : {"ok", "err"}, secret : BOOLEAN]
      <4>1. heap'[b] = [length |-> LengthOf(alg, s), rc |-> rc,
                        secret |-> s = "sk" /\ got = Slots]
        BY <1>5, <3>2
      <4>2. LengthOf(alg, s) \in Lengths
        BY <1>3, LengthOfSlot DEF IInv, Shapes
      <4>3. (s = "sk" /\ got = Slots) \in BOOLEAN
        OBVIOUS
      <4>4. QED
        BY <4>1, <4>2, <4>3
    <3>3. QED
      BY <1>5, <3>1, <3>2
  <2>4. DOMAIN var' = Slots /\ Lengths' = Lengths
    BY <1>7 DEF Lengths
  <2>5. QED
    BY <1>1, <1>2, <2>1, <2>2, <2>3, <2>4 DEF IInv, TypeOK
<1>20. QED
  BY <1>12, <1>13, <1>14, <1>16, <1>17, <1>18, <1>19 DEF IInv

LEMMA KeygenKeeps == ASSUME IInv, NEW alg \in Algs, Keygen(alg) PROVE IInv'
<1>1. Begins(call)
  BY DEF Keygen, Begins
<1>2. PICK got \in Obtained, rc \in {"ok", "err"} :
        Allocate(got, rc, alg) /\ Assign(got, LengthsAfter(got, rc, alg))
  BY DEF Keygen
<1>3. rc = "ok" => got = Slots
  BY <1>2 DEF Allocate
<1>4. QED
  BY <1>1, <1>2, <1>3, AllocationKeeps DEF LengthsAfter

LEMMA EncapsulateKeeps == ASSUME IInv, NEW alg \in Algs, Encapsulate(alg) PROVE IInv'
<1>1. Begins(call)
  BY DEF Encapsulate, Begins
<1>2. PICK got \in Obtained, rc \in {"ok", "err"} :
        Allocate(got, rc, alg) /\ Assign(got, LengthsAfter(got, rc, alg))
  BY DEF Encapsulate
<1>3. rc = "ok" => got = Slots
  BY <1>2 DEF Allocate
<1>4. QED
  BY <1>1, <1>2, <1>3, AllocationKeeps DEF LengthsAfter

LEMMA SignKeeps == ASSUME IInv, NEW alg \in Algs, Sign(alg) PROVE IInv'
<1>1. Begins(call) /\ call = "sign"
  BY DEF Sign, Begins
<1>2. PICK got \in Obtained, rc \in {"ok", "err"} :
        /\ Allocate(got, rc, alg)
        /\ \/ rc = "err" /\ Assign(got, OldLengths)
           \/ got = Slots /\ Assign(got, NewLengths(alg))
  BY DEF Sign
<1>3. CASE rc = "err" /\ Assign(got, OldLengths)
  BY <1>1, <1>2, <1>3, AllocationKeeps
<1>4. CASE Assign(got, NewLengths(alg))
  BY <1>1, <1>2, <1>4, AllocationKeeps
<1>5. QED
  BY <1>2, <1>3, <1>4

LEMMA SignBytesKeeps == ASSUME IInv, NEW alg \in Algs, SignBytes(alg) PROVE IInv'
<1>1. Begins(call)
  BY DEF SignBytes, Begins
<1>2. PICK got \in Obtained : Allocate(got, "ok", alg) /\ Assign(got, NewLengths(alg))
  BY DEF SignBytes
<1>3. QED
  BY <1>1, <1>2, AllocationKeeps

\* A refused call leaves its caller nothing to free but what it never set.
LEMMA RefuseKeeps == IInv /\ Refuse => IInv'
<1> SUFFICES ASSUME IInv, Refuse PROVE IInv'
  OBVIOUS
<1>1. result = "none" /\ result' = "err" /\ UNCHANGED <<call, idiom, var, heap>>
  BY DEF Refuse
<1>2. Slots' = Slots /\ Pointers' = Pointers
  BY <1>1 DEF Slots, Pointers
<1>3. Shapes' /\ Idle' /\ Brought'
  BY <1>1, <1>2 DEF IInv, Shapes, Idle, Brought
<1>4. ASSUME NEW s \in Freed'
      PROVE  Unwritten(s)' /\ var'[s].ptr \notin DOMAIN heap'
  <2>1. /\ s \in Slots /\ idiom # "on success"
        /\ var[s].ptr = Declared(idiom).ptr /\ var[s].ptr # NULL
    BY <1>1, <1>2, <1>4 DEF IInv, Idle, Freed
  <2>2. idiom = "unchecked" /\ var[s].ptr = Wild
    BY <2>1 DEF Declared, IInv, Shapes, Idioms
  <2>3. Wild \notin DOMAIN heap
    BY PairsAreNotWild DEF IInv, Shapes
  <2>4. QED
    BY <1>1, <2>2, <2>3 DEF Unwritten
<1>5. LostOnlyAfterFailure'
  BY <1>1 DEF IInv, LostOnlyAfterFailure
<1>6. TypeOK'
  BY <1>1, <1>2 DEF IInv, TypeOK
<1>7. QED
  BY <1>3, <1>4, <1>5, <1>6 DEF IInv, OnlyFailuresMisleadAFree, SecretsAreCleansed

LEMMA DoneKeeps == IInv /\ Done => IInv'
<1> SUFFICES ASSUME IInv, Done PROVE IInv'
  OBVIOUS
<1>1. /\ result # "none" /\ result' = "none" /\ UNCHANGED <<call, idiom>>
      /\ heap' = Restrict(heap, DOMAIN heap \ {var[s].ptr : s \in Freed})
      /\ var' = [s \in Slots |-> IF idiom = "reused" THEN [var[s] EXCEPT !.ptr = NULL]
                                 ELSE Declared(idiom)]
  BY DEF Done
<1>2. Slots' = Slots /\ Pointers' = Pointers
  BY <1>1 DEF Slots, Pointers
<1>3. /\ DOMAIN heap' = DOMAIN heap \ {var[s].ptr : s \in Freed}
      /\ \A b \in DOMAIN heap' : b \in DOMAIN heap /\ heap'[b] = heap[b]
  BY <1>1 DEF Restrict
<1>4. Declared(idiom) \in [ptr : {NULL, Wild}, len : Int]
  BY DEF Declared, Unset
<1>5. \A s \in Slots : var[s] \in [ptr : Pointers, len : Int]
  BY DEF IInv, Shapes
<1>6. ASSUME NEW s \in Slots
      PROVE  /\ var'[s] \in [ptr : Pointers, len : Int]
             /\ var'[s].ptr = Declared(idiom).ptr
             /\ idiom = "reused" => var'[s].len = var[s].len
             /\ idiom = "fresh" => var'[s].len = 0
             /\ idiom = "unchecked" => var'[s].len = Unset
  <2>1. CASE idiom = "reused"
    <3>1. var'[s] = [var[s] EXCEPT !.ptr = NULL]
      BY <1>1, <2>1
    <3>2. var'[s] \in [ptr : Pointers, len : Int] /\ var'[s].ptr = NULL
          /\ var'[s].len = var[s].len
      BY <1>5, <3>1 DEF Pointers
    <3>3. QED
      BY <2>1, <3>2 DEF Declared
  <2>2. CASE idiom # "reused"
    <3>1. var'[s] = Declared(idiom)
      BY <1>1, <2>2
    <3>2. Declared(idiom).ptr \in Pointers /\ (idiom = "fresh" => Declared(idiom).len = 0)
          /\ (idiom = "unchecked" => Declared(idiom).len = Unset)
      BY DEF Declared, Pointers
    <3>3. Declared(idiom) \in [ptr : Pointers, len : Int]
      BY <1>4 DEF Pointers
    <3>4. QED
      BY <2>2, <3>1, <3>2, <3>3
  <2>3. QED
    BY <2>1, <2>2
<1>7. Shapes'
  <2>1. var' \in [Slots -> [ptr : Pointers, len : Int]]
    BY <1>1, <1>6
  <2>2. QED
    BY <1>1, <1>2, <1>3, <2>1 DEF IInv, Shapes
<1>8. Idle'
  BY <1>1, <1>2, <1>6 DEF Idle
<1>9. Brought'
  BY <1>1, <1>2, <1>6 DEF IInv, Brought, PastLengths
<1>10. LostOnlyAfterFailure'
  BY <1>1, <1>3 DEF IInv, LostOnlyAfterFailure
<1>11. TypeOK'
  <2>1. ASSUME NEW s \in Slots
        PROVE  /\ var'[s].ptr \in ({s} \X (1 .. MaxBuffers)) \cup {NULL, Wild}
               /\ var'[s].len \in Lengths \cup {0, Unset}
    <3>1. var'[s].ptr \in {NULL, Wild}
      BY <1>6 DEF Declared
    <3>2. CASE idiom = "reused"
      BY <1>6, <3>1, <3>2 DEF IInv, TypeOK
    <3>3. CASE idiom = "fresh"
      BY <1>6, <3>1, <3>3
    <3>4. CASE idiom \in {"on success", "unchecked"}
      <4>1. var'[s] = Declared(idiom)
        BY <1>1, <3>4
      <4>2. Declared(idiom).len = Unset
        BY <3>4 DEF Declared
      <4>3. QED
        BY <3>1, <4>1, <4>2
    <3>5. QED
      BY <3>2, <3>3, <3>4 DEF IInv, Shapes, Idioms
  <2>2. DOMAIN var' = Slots
    BY <1>1
  <2>3. DOMAIN heap' \subseteq DOMAIN heap
    BY <1>3
  <2>4. QED
    BY <1>1, <1>2, <1>3, <2>1, <2>2, <2>3 DEF IInv, TypeOK
<1>12. QED
  BY <1>1, <1>7, <1>8, <1>9, <1>10, <1>11 DEF IInv, OnlyFailuresMisleadAFree, SecretsAreCleansed

LEMMA StutterKeeps == IInv /\ UNCHANGED vars => IInv'
<1> SUFFICES ASSUME IInv, UNCHANGED vars PROVE IInv'
  OBVIOUS
<1>1. UNCHANGED <<call, idiom, var, heap, result>>
  BY DEF vars
<1>2. Slots' = Slots /\ Pointers' = Pointers /\ Freed' = Freed
  BY <1>1 DEF Slots, Pointers, Freed
<1>3. Shapes' /\ Idle' /\ Brought'
  BY <1>1, <1>2 DEF IInv, Shapes, Idle, Brought
<1>4. OnlyFailuresMisleadAFree' /\ SecretsAreCleansed' /\ LostOnlyAfterFailure'
  <2>1. OnlyFailuresMisleadAFree'
    BY <1>1, <1>2 DEF IInv, OnlyFailuresMisleadAFree, Owned, Unwritten, Stale
  <2>2. SecretsAreCleansed' /\ LostOnlyAfterFailure'
    BY <1>1, <1>2 DEF IInv, SecretsAreCleansed, LostOnlyAfterFailure
  <2>3. QED
    BY <2>1, <2>2
<1>5. TypeOK'
  BY <1>1, <1>2 DEF IInv, TypeOK
<1>6. QED
  BY <1>3, <1>4, <1>5 DEF IInv

LEMMA Invariance == Spec => []IInv
<1>1. IInv /\ [Next]_vars => IInv'
  BY KeygenKeeps, SignKeeps, EncapsulateKeeps, SignBytesKeeps, RefuseKeeps, DoneKeeps,
     StutterKeeps DEF Next
<1>2. QED
  BY Initially, <1>1, PTL DEF Spec

------------------------------------------------------------------------------
\* The types of the variables, the bound on live buffers among them.
THEOREM TypeCorrect == Spec => []TypeOK
  BY Invariance, PTL DEF IInv

\* A free is of a live buffer and the bytes qpqc_free overwrites are all inside it
\* (qorechain_pqc.c:191-194), but for the two cases a failed call makes: variables
\* nobody wrote, freed by a caller that does not look at the result, and a length
\* that is stale (23, 52, 69) in variables kept for a smaller parameter set.
THEOREM MisleadingFreesFollowFailures == Spec => []OnlyFailuresMisleadAFree
  BY Invariance, PTL DEF IInv

\* What the first theorem comes to for a caller that declares its variables for
\* each call, or that frees after success only: what it frees it owns.
THEOREM OnlyOwnedIsFreed ==
  Spec => [](result # "none" /\ idiom \in {"fresh", "on success"}
               => \A s \in Freed : Owned(s))
<1>1. IInv => (result # "none" /\ idiom \in {"fresh", "on success"}
                 => \A s \in Freed : Owned(s))
  BY DEF IInv, OnlyFailuresMisleadAFree, Unwritten, Stale
<1>2. QED
  BY Invariance, <1>1, PTL

\* A secret key that is freed is overwritten to its last byte, whichever call
\* failed on the way (qorechain_pqc.c:48-60, 191-194).
THEOREM FreedSecretsAreCleansed == Spec => []SecretsAreCleansed
  BY Invariance, PTL DEF IInv

\* Only a caller that frees after success alone loses buffers, and only those of
\* failed calls.
THEOREM NothingElseIsLost == Spec => []LostOnlyAfterFailure
  BY Invariance, PTL DEF IInv
==============================================================================
