----------------------- MODULE MCSignBytesVersion_proofs -----------------------
(***************************************************************************)
(* The version rules decide as the network and alike, for any plan names,   *)
(* any heights and lists of answers of any length.                          *)
(***************************************************************************)
EXTENDS MCSignBytesVersion, SignBytesVersion_proofs

vars == <<binding, chain, log>>

\* The inputs the rules are applied to.
InputOK == binding \in Bindings /\ Log(log)

LEMMA InputInvariance == Spec => []InputOK
<1>1. Init => InputOK
  <2> SUFFICES ASSUME Init PROVE InputOK
    OBVIOUS
  <2>1. PICK m \in 0 .. MaxEntries : log \in [1 .. m -> Answers]
    BY DEF Init, BoundedSeq, SeqOf
  <2>2. m \in Nat /\ DOMAIN log = 1 .. m
    BY <2>1, MaxEntriesAssumption
  <2>3. \A i \in DOMAIN log : log[i].height \in Int
    BY <2>1, HeightsAssumption DEF Answers
  <2>4. QED
    BY <2>2, <2>3 DEF InputOK, Log, Init
<1>2. InputOK /\ [Next]_vars => InputOK'
  BY DEF InputOK, Next, vars, Log
<1>3. QED
  BY <1>1, <1>2, PTL DEF Spec, vars

LEMMA AppliedInAsRead == \A n : AppliedIn(n) <=> AppliedBy(binding, log, n)
  BY DEF AppliedIn, AppliedBy, InArrays, InMap

\* Whatever answers it gets, however many and in whatever order, a binding
\* decides for v1 exactly on a legacy network to which they apply no switching
\* plan (qorechain_pqc.c:161-193, pqc.go:293-321 and their siblings).
THEOREM RulesDecideAsTheNetwork == Spec => []DecidesAsTheNetwork
<1>1. InputOK => DecidesAsTheNetwork
  BY BindingDecides, AppliedInAsRead DEF InputOK, DecidesAsTheNetwork, Result
<1>2. QED
  BY <1>1, InputInvariance, PTL

\* If no name is answered twice, an entry of the arrays and the last one about its
\* name are the same.
LEMMA OneAnswerPerName ==
  ASSUME Log(log), IsInjective([i \in DOMAIN log |-> log[i].name]), NEW n
  PROVE  InArrays(log, n) <=> InMap(log, n)
<1>1. \A i, j \in DOMAIN log : log[i].name = log[j].name => i = j
  BY DEF IsInjective
<1>2. InArrays(log, n) => InMap(log, n)
  <2> SUFFICES ASSUME NEW i \in DOMAIN log, log[i].name = n, log[i].height > 0
               PROVE  InMap(log, n)
    BY DEF InArrays
  <2>1. n \in DOMAIN MapOf(log)
    <3>1. n \in {log[k].name : k \in DOMAIN log}
      OBVIOUS
    <3>2. DOMAIN MapOf(log) = {log[k].name : k \in DOMAIN log}
      BY MapHolds
    <3>3. QED
      BY <3>1, <3>2
  <2>2. PICK j \in DOMAIN log : log[j].name = n /\ MapOf(log)[n] = log[j].height
    BY <2>1, MapHolds
  <2>3. i = j
    BY <1>1, <2>2
  <2>4. QED
    BY <2>1, <2>2, <2>3 DEF InMap
<1>3. InMap(log, n) => InArrays(log, n)
  BY MapHolds DEF InMap, InArrays
<1>4. QED
  BY <1>2, <1>3

\* All bindings decide alike on answers without a repeated name, in any order.
THEOREM RulesAgree == Spec => []BindingsAgree
<1>1. InputOK => BindingsAgree
  <2> SUFFICES ASSUME InputOK, chain # NullChain,
                      IsInjective([i \in DOMAIN log |-> log[i].name]),
                      NEW b \in Bindings
               PROVE  VersionForApplied(b, chain, log) = Result
    BY DEF BindingsAgree
  <2>1. \A n : AppliedBy(b, log, n) <=> AppliedBy(binding, log, n)
    BY OneAnswerPerName DEF InputOK, AppliedBy
  <2>2. QED
    BY <2>1, BindingDecides DEF InputOK, Result
<1>2. QED
  BY <1>1, InputInvariance, PTL
==============================================================================
