---------------------------- MODULE SignBytesVersion ----------------------------
(***************************************************************************)
(* The sign-bytes version rule of the six bindings: given the heights at    *)
(* which a network applied the switching upgrades, which form a client must *)
(* sign.  C takes parallel arrays of names and heights, the others a map.   *)
(* A height a scripting binding gets as text is the number it parses to.    *)
(***************************************************************************)
EXTENDS Integers, Sequences, FiniteSetsExt

Bindings == {"c", "go", "rust", "js", "python", "java"}

\* The plan names that switch a network to v2, and the networks that predate v2.
Upgrades     == {"v3.2.0", "v3.1.98"}
LegacyChains == {"qorechain-vladi", "qorechain-diana"}

\* A chain-id that is NULL, None, undefined or null, where the language has one.
NullChain  == "null chain"
HasNull(b) == b \in {"c", "js", "python", "java"}

\* A name slot of the C arrays that holds NULL.
NullName == "null name"

\* Mutants: "not applied" counts as applied, the final return is missing.
FromZero(b, chain, height) ==
  IF height >= 0 THEN "v2" ELSE IF chain \in LegacyChains THEN "v1" ELSE "v2"
NoDefault(b, chain, height) ==
  IF height > 0 THEN "v2" ELSE IF chain \in LegacyChains THEN "v1" ELSE "none"

\* Java's immutable List.contains throws on null where the other bindings find
\* that null is not a legacy network.
VersionFor(b, chain, height) ==
  IF height > 0 THEN "v2"
  ELSE IF chain = NullChain
       THEN IF b = "java" THEN "NullPointerException" ELSE "v2"
  ELSE IF chain \in LegacyChains THEN "v1" ELSE "v2"

\* The height a map of answers gives a plan, 0 where it has none.
HeightIn(answers, name) == IF name \in DOMAIN answers THEN answers[name] ELSE 0

\* Mutants: only the primary name counts, the last listed entry decides.
PrimaryNameOnly(b, chain, answers) ==
  VersionFor(b, chain, HeightIn(answers, "v3.2.0"))
LastEntryDecides(chain, log) ==
  LET listed == {i \in DOMAIN log : log[i].name \in Upgrades}
  IN  VersionFor("c", chain, IF listed = {} THEN 0 ELSE log[Max(listed)].height)

\* Go, Rust, JS, Python, Java: the greatest of 0 and the heights of Upgrades.
VersionForMap(b, chain, answers) ==
  VersionFor(b, chain, Max({0} \cup {HeightIn(answers, n) : n \in Upgrades}))

\* C: the same over arrays, where a name may be NULL, unknown or repeated.
VersionForArrays(chain, log) ==
  LET listed == {i \in DOMAIN log : log[i].name # NullName /\ log[i].name \in Upgrades}
  IN  VersionFor("c", chain, Max({0} \cup {log[i].height : i \in listed}))

\* The map a client builds from answers in the order they came.
MapOf(log) ==
  [n \in {log[i].name : i \in DOMAIN log} |->
     log[Max({i \in DOMAIN log : log[i].name = n})].height]

VersionForApplied(b, chain, log) ==
  IF b = "c" THEN VersionForArrays(chain, log) ELSE VersionForMap(b, chain, MapOf(log))

\* What the network verifies: v1 on a legacy network until it applies one of the
\* upgrades, v2 from then on and everywhere else.
Switched(chain, applied) ==
  chain \notin LegacyChains \/ \E n \in Upgrades : applied[n] > 0
Verifies(chain, applied) == IF Switched(chain, applied) THEN "v2" ELSE "v1"
==============================================================================
