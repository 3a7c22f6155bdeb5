----------------------------- MODULE UpgradeClient -----------------------------
(***************************************************************************)
(* A client that signs transactions with one of the bindings while its      *)
(* network moves from v1 to v2 sign-bytes.  The client follows              *)
(* src/README.md:70-89: it asks the network about every plan name of the    *)
(* binding's list, one query at a time, hands the answers to                *)
(* sign_bytes_version_for_applied, signs the form that names, and submits.  *)
(* The network goes on applying plans in between, and accepts exactly the   *)
(* form it verifies when the transaction arrives.                           *)
(*                                                                          *)
(* The binding is the version rule (SignBytesVersion); the network and the  *)
(* queries are outside this repository.                                     *)
(***************************************************************************)
EXTENDS SignBytesVersion

CONSTANTS Clients,    \* the bindings the client may use
          MaxAnswers  \* bound: answers the client keeps in one attempt

ASSUME ClientsAssumption    == Clients \subseteq Bindings
ASSUME MaxAnswersAssumption == MaxAnswers \in Nat

OtherPlan  == "v3.3.0"           \* a plan that does not switch the form
Plans      == Upgrades \cup {OtherPlan}
OtherChain == "qorechain-other"  \* a network born after v2
Chains     == LegacyChains \cup {OtherChain}

\* Mutant: the client asks for the deprecated single constant only.
PrimaryAsked == {"v3.2.0"}

\* The names the client asks about.
Asked == Upgrades

VARIABLES
  chain,       \* the network's chain-id
  binding,     \* the binding the client uses
  applied,     \* the height at which the network applied each plan, 0 if it has not
  phase,       \* "asking", "decided" or "accepted"
  flight,      \* answers on their way to the client
  log,         \* answers of this attempt, as they came
  version,     \* the form the client has decided to sign
  knowable,    \* history: the network had switched when this attempt began
  complete,    \* history: the decision had every answer
  rejections   \* history: rejected submissions decided with every answer, up to 2

vars == <<chain, binding, applied, phase, flight, log, version, knowable,
          complete, rejections>>

network == <<chain, binding, applied>>

Init ==
  /\ chain \in Chains
  /\ binding \in Clients
  /\ applied \in {[p \in Plans |-> 0], [p \in Plans |-> IF p = OtherPlan THEN 1 ELSE 0]}
  /\ phase = "asking" /\ flight = {} /\ log = <<>> /\ version = "none"
  /\ knowable = Switched(chain, applied)
  /\ complete = FALSE /\ rejections = 0

\* The network applies a plan at a height above those of its records, which it
\* keeps for ever.
ApplyPlan(p) ==
  /\ applied[p] = 0
  /\ applied' = [applied EXCEPT ![p] = Max({applied[q] : q \in Plans}) + 1]
  /\ UNCHANGED <<chain, binding, phase, flight, log, version, knowable, complete,
                 rejections>>

\* The names of this attempt without an answer yet.
Missing == Asked \ {log[i].name : i \in DOMAIN log}

\* A node answers GET applied_plan/<name>; the client may ask again before the
\* first answer has come.
NodeAnswers(name) ==
  /\ phase = "asking"
  /\ flight' = flight \cup {[name |-> name, height |-> applied[name]]}
  /\ UNCHANGED <<network, phase, log, version, knowable, complete, rejections>>

\* An answer reaches the client, in any order.
Receive(a) ==
  /\ phase = "asking"
  /\ Len(log) + Cardinality(Missing \ {a.name}) < MaxAnswers
  /\ log' = Append(log, a)
  /\ flight' = flight \ {a}
  /\ UNCHANGED <<network, phase, version, knowable, complete, rejections>>

Lose(a) ==
  /\ flight' = flight \ {a}
  /\ UNCHANGED <<network, phase, log, version, knowable, complete, rejections>>

\* sign_bytes_version_for_applied over the answers; the map may lack a name, when
\* the client has given up asking for it.
Decide ==
  /\ phase = "asking"
  /\ version' = VersionForApplied(binding, chain, log)
  /\ complete' = (Missing = {})
  /\ phase' = "decided"
  /\ flight' = {}
  /\ UNCHANGED <<network, log, knowable, rejections>>

\* A new attempt forgets the answers of the last one.
NewAttempt ==
  /\ log' = <<>> /\ flight' = {} /\ version' = "none" /\ complete' = FALSE
  /\ knowable' = Switched(chain, applied)
  /\ phase' = "asking"

Accept ==
  /\ phase = "decided"
  /\ version = Verifies(chain, applied)
  /\ phase' = "accepted"
  /\ UNCHANGED <<network, flight, log, version, knowable, complete, rejections>>

Reject ==
  /\ phase = "decided"
  /\ version # Verifies(chain, applied)
  /\ rejections' = IF complete THEN Min({2, rejections + 1}) ELSE rejections
  /\ NewAttempt
  /\ UNCHANGED network

NextTransaction ==
  /\ phase = "accepted"
  /\ NewAttempt
  /\ UNCHANGED <<network, rejections>>

Next == \/ \E p \in Plans : ApplyPlan(p)
        \/ \E n \in Asked : NodeAnswers(n)
        \/ \E a \in flight : Receive(a) \/ Lose(a)
        \/ Decide \/ Accept \/ Reject \/ NextTransaction

Spec == Init /\ [][Next]_vars

\* A client keeps asking for the names it misses, one of the answers to a name
\* asked again and again arrives, and what is decided is submitted.
FairSpec ==
  /\ Spec
  /\ \A n \in Upgrades : WF_vars(n \in Missing /\ NodeAnswers(n))
  /\ \A n \in Upgrades : SF_vars(n \in Missing /\ \E a \in flight : a.name = n /\ Receive(a))
  /\ WF_vars(Missing = {} /\ Decide) /\ WF_vars(Accept) /\ WF_vars(Reject)

------------------------------------------------------------------------------
(* Properties.                                                              *)

Answer == [name : Plans, height : 0 .. 3]

\* The types of the variables.
TypeOK ==
  /\ chain \in Chains /\ binding \in Clients
  /\ applied \in [Plans -> 0 .. 3]
  /\ phase \in {"asking", "decided", "accepted"}
  /\ flight \subseteq Answer
  /\ log \in Seq(Answer) /\ Len(log) <= MaxAnswers
  /\ version \in {"none", "v1", "v2"} /\ (version = "none" <=> phase = "asking")
  /\ knowable \in BOOLEAN /\ complete \in BOOLEAN
  /\ rejections \in 0 .. 2

\* Whatever queries are lost, delayed or repeated, and whichever plan the
\* network took the switch under, no binding names v2 before the network
\* verifies it: a wrong decision is always the old form.
NeverAhead == version = "v2" => Verifies(chain, applied) = "v2"

\* If the network had switched when the attempt began and every name was
\* answered, the decision is right and stays right: a transaction is rejected
\* only when the switch overtook its queries (README.md:70-72).
WrongOnlyWhenOvertaken ==
  version # "none" /\ complete /\ knowable => version = Verifies(chain, applied)

\* A client that asks about every name is rejected at most once in its life,
\* however many transactions it signs across the switch.
RejectedAtMostOnce == rejections <= 1

\* Every transaction is accepted in the end, unless its client gives up asking
\* for some name again and again.
EventuallyAccepted ==
  \/ phase # "accepted" ~> phase = "accepted"
  \/ []<><<Decide /\ ~complete'>>_vars
==============================================================================
