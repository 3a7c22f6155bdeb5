-------------------------- MODULE MCSignBytesVersion --------------------------
(* Every binding's version rule over every short list of answers: one state *)
(* per input, checked against the rule of the network.                      *)
EXTENDS SignBytesVersion, SequencesExt

CONSTANTS Names,      \* plan names in the answers
          Heights,    \* heights in the answers
          MaxEntries  \* bound: answers in one list

ASSUME HeightsAssumption    == Heights \subseteq Int
ASSUME MaxEntriesAssumption == MaxEntries \in Nat

\* Not applied, applied early or late, and a negative height no node reports.
MCHeights == -1 .. 2

VARIABLES binding, chain, log

Answers == [name : Names, height : Heights]

Init ==
  /\ binding \in Bindings
  /\ chain \in LegacyChains \cup {"qorechain-other"}
               \cup (IF HasNull(binding) THEN {NullChain} ELSE {})
  /\ log \in BoundedSeq(Answers, MaxEntries)

Next == UNCHANGED <<binding, chain, log>>

Spec == Init /\ [][Next]_<<binding, chain, log>>

Result == VersionForApplied(binding, chain, log)

\* A plan counts as applied if the answers say so: for the map bindings the last
\* answer about it, for C any entry of the arrays.
AppliedIn(name) ==
  IF binding = "c"
  THEN \E i \in DOMAIN log : log[i].name = name /\ log[i].height > 0
  ELSE name \in DOMAIN MapOf(log) /\ MapOf(log)[name] > 0

\* Every binding decides for v1 exactly on a legacy network whose answers apply
\* no switching plan, with NULL, unknown, repeated and reordered names and
\* heights of any sign among them (qorechain_pqc.h:97-103).
DecidesAsTheNetwork ==
  chain # NullChain =>
    (Result = "v1" <=> /\ chain \in LegacyChains
                       /\ \A n \in Upgrades : ~AppliedIn(n))

\* All bindings decide alike on the same answers, one per name, in any order.
BindingsAgree ==
  chain # NullChain /\ IsInjective([i \in DOMAIN log |-> log[i].name]) =>
    \A b \in Bindings : VersionForApplied(b, chain, log) = Result

\* Pqc.java:43-45: "mldsaVerify reports bad input as false; every other method
\* throws IllegalArgumentException naming the argument": no method ends in
\* another exception.
OnlyIllegalArgument ==
  Result \in {"v1", "v2", "IllegalArgumentException"}
==============================================================================
