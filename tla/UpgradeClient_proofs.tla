------------------------- MODULE UpgradeClient_proofs -------------------------
(***************************************************************************)
(* What a client of any binding can rely on across the switch, for any      *)
(* number of answers and plans applied in any order.                        *)
(*                                                                          *)
(* The invariant follows the answers a client holds, in flight or in its    *)
(* list: none claims a plan the network has not applied, and if the network *)
(* had switched when the attempt began, then under one of its plans, about  *)
(* which no held answer says otherwise.                                     *)
(***************************************************************************)
EXTENDS UpgradeClient, SignBytesVersion_proofs

Answered == [name : Upgrades, height : Nat]
Held     == flight \cup {log[i] : i \in DOMAIN log}

Shapes ==
  /\ chain \in Chains
  /\ applied \in [Plans -> Nat]
  /\ flight \subseteq Answered
  /\ log \in Seq(Answered)

\* No answer claims a plan the network has not applied.
Truthful == \A a \in Held : a.height > 0 => applied[a.name] > 0

\* The plan under which the network had switched when the attempt began.
Informed ==
  knowable /\ chain \in LegacyChains =>
    \E n \in Upgrades : /\ applied[n] > 0
                        /\ \A a \in Held : a.name = n => a.height > 0

\* What a decision was made of is still there.
AsDecided ==
  /\ phase = "asking" => version = "none"
  /\ phase # "asking" => version = VersionForApplied(binding, chain, log)
  /\ phase # "asking" /\ complete => Missing = {}

OneRejection ==
  \/ rejections = 0
  \/ rejections = 1 /\ knowable /\ Switched(chain, applied)

IInv == Shapes /\ Truthful /\ Informed /\ AsDecided /\ OneRejection

------------------------------------------------------------------------------
(* What a decision shows.                                                   *)

LEMMA ShapesLog == Shapes => Log(log) /\ chain # NullChain
<1> SUFFICES ASSUME Shapes PROVE Log(log) /\ chain # NullChain
  OBVIOUS
<1>1. Len(log) \in Nat /\ DOMAIN log = 1 .. Len(log)
  BY DEF Shapes
<1>2. \A i \in DOMAIN log : log[i].height \in Int
  <2> TAKE i \in DOMAIN log
  <2>1. log[i] \in Answered
    BY DEF Shapes
  <2>2. QED
    BY <2>1 DEF Answered
<1>3. chain # NullChain
  BY DEF Shapes, Chains, LegacyChains, OtherChain, NullChain
<1>4. QED
  BY <1>1, <1>2, <1>3 DEF Log

LEMMA AppliedIsHeld ==
  ASSUME Log(log), NEW n, AppliedBy(binding, log, n)
  PROVE  \E i \in DOMAIN log : log[i].name = n /\ log[i].height > 0
<1>1. CASE binding = "c"
  BY <1>1 DEF AppliedBy, InArrays
<1>2. CASE binding # "c"
  <2>1. n \in DOMAIN MapOf(log) /\ MapOf(log)[n] > 0
    BY <1>2 DEF AppliedBy, InMap
  <2>2. QED
    BY <2>1, MapHolds
<1>3. QED
  BY <1>1, <1>2

\* An answer about a name none of whose answers is 0 makes it applied.
LEMMA HeldIsApplied ==
  ASSUME Log(log), NEW i \in DOMAIN log,
         \A j \in DOMAIN log : log[j].name = log[i].name => log[j].height > 0
  PROVE  AppliedBy(binding, log, log[i].name)
<1> DEFINE n == log[i].name
<1>1. InArrays(log, n)
  BY DEF InArrays
<1>2. InMap(log, n)
  <2>1. DOMAIN MapOf(log) = {log[k].name : k \in DOMAIN log}
    BY MapHolds
  <2>2. n \in DOMAIN MapOf(log)
    BY <2>1
  <2>3. PICK j \in DOMAIN log : log[j].name = n /\ MapOf(log)[n] = log[j].height
    BY <2>2, MapHolds
  <2>4. QED
    BY <2>2, <2>3 DEF InMap
<1>3. QED
  BY <1>1, <1>2 DEF AppliedBy

LEMMA DecisionNotAhead ==
  ASSUME IInv, phase # "asking"
  PROVE  /\ version \in {"v1", "v2"}
         /\ version = "v2" => Switched(chain, applied)
<1>1. Log(log) /\ chain # NullChain
  BY ShapesLog DEF IInv
<1>2. version = IF chain \in LegacyChains /\ \A n \in Upgrades : ~AppliedBy(binding, log, n)
                THEN "v1" ELSE "v2"
  BY <1>1, BindingDecides DEF IInv, AsDecided
<1>3. ASSUME NEW n \in Upgrades, AppliedBy(binding, log, n)
      PROVE  applied[n] > 0
  <2>1. PICK i \in DOMAIN log : log[i].name = n /\ log[i].height > 0
    BY <1>1, <1>3, AppliedIsHeld
  <2>2. log[i] \in Held
    BY DEF Held
  <2>3. QED
    BY <2>1, <2>2 DEF IInv, Truthful
<1>4. QED
  BY <1>2, <1>3 DEF Switched

LEMMA DecisionRight ==
  ASSUME IInv, phase # "asking", complete, knowable
  PROVE  version = Verifies(chain, applied)
<1>1. Log(log) /\ chain # NullChain
  BY ShapesLog DEF IInv
<1>2. version = IF chain \in LegacyChains /\ \A n \in Upgrades : ~AppliedBy(binding, log, n)
                THEN "v1" ELSE "v2"
  BY <1>1, BindingDecides DEF IInv, AsDecided
<1>3. CASE chain \notin LegacyChains
  BY <1>2, <1>3 DEF Verifies, Switched
<1>4. CASE chain \in LegacyChains
  <2>1. PICK n \in Upgrades : /\ applied[n] > 0
                              /\ \A a \in Held : a.name = n => a.height > 0
    BY <1>4 DEF IInv, Informed
  <2>2. Missing = {}
    BY DEF IInv, AsDecided
  <2>3. PICK i \in DOMAIN log : log[i].name = n
    BY <2>2 DEF Missing, Asked
  <2>4. \A j \in DOMAIN log : log[j].name = log[i].name => log[j].height > 0
    BY <2>1, <2>3 DEF Held
  <2>5. AppliedBy(binding, log, n)
    BY <1>1, <2>3, <2>4, HeldIsApplied
  <2>6. QED
    BY <1>2, <2>1, <2>5 DEF Verifies, Switched
<1>5. QED
  BY <1>3, <1>4

------------------------------------------------------------------------------
(* The invariant.                                                           *)

LEMMA Initially == Init => IInv
<1> SUFFICES ASSUME Init PROVE IInv
  OBVIOUS
<1> USE DEF Init
<1>1. Shapes
  <2>1. applied \in [Plans -> Nat]
    OBVIOUS
  <2>2. log \in Seq(Answered)
    OBVIOUS
  <2>3. QED
    BY <2>1, <2>2 DEF Shapes
<1>2. Held = {}
  BY DEF Held
<1>3. Truthful /\ AsDecided /\ OneRejection
  BY <1>2 DEF Truthful, AsDecided, OneRejection
<1>4. Informed
  BY <1>2 DEF Informed, Switched
<1>5. QED
  BY <1>1, <1>3, <1>4 DEF IInv

\* The greatest height is the height of some plan.
LEMMA TopApplied ==
  ASSUME applied \in [Plans -> Nat]
  PROVE  Max({applied[q] : q \in Plans}) \in {applied[q] : q \in Plans}
<1> DEFINE S == {applied[q] : q \in Plans}
<1>2. IsFiniteSet(S) /\ S # {} /\ S \subseteq Nat
  <2>1. S = {applied["v3.2.0"]} \cup ({applied["v3.1.98"]} \cup {applied["v3.3.0"]})
    BY DEF Plans, Upgrades, OtherPlan
  <2>2. /\ IsFiniteSet({applied["v3.2.0"]})
        /\ IsFiniteSet({applied["v3.1.98"]})
        /\ IsFiniteSet({applied["v3.3.0"]})
    BY FS_Singleton
  <2>3. IsFiniteSet({applied["v3.1.98"]} \cup {applied["v3.3.0"]})
    BY <2>2, FS_Union
  <2>4. IsFiniteSet({applied["v3.2.0"]} \cup ({applied["v3.1.98"]} \cup {applied["v3.3.0"]}))
    BY <2>2, <2>3, FS_Union
  <2>5. IsFiniteSet(S)
    BY <2>1, <2>4
  <2>6. S # {}
    BY <2>1
  <2>7. S \subseteq Nat
    OBVIOUS
  <2>8. QED
    BY <2>5, <2>6, <2>7
<1>3. Max(S) \in S
  <2> HIDE DEF S
  <2>1. S \subseteq Int
    BY <1>2
  <2>2. QED
    BY <1>2, <2>1, MaxProperty
<1>4. QED
  BY <1>3

\* A plan gets a height above 0, the others keep theirs.
LEMMA Applying ==
  ASSUME IInv, NEW p \in Plans, ApplyPlan(p)
  PROVE  /\ applied' \in [Plans -> Nat]
         /\ \A q \in Plans : applied[q] > 0 => applied'[q] > 0
<1> DEFINE top == Max({applied[q] : q \in Plans})
<1>1. applied \in [Plans -> Nat]
  BY DEF IInv, Shapes
<1>2. top \in {applied[q] : q \in Plans}
  BY <1>1, TopApplied
<1> HIDE DEF top
<1>3. top \in Nat
  BY <1>1, <1>2
<1>4. applied' = [applied EXCEPT ![p] = top + 1]
  BY DEF ApplyPlan, top
<1>5. QED
  BY <1>1, <1>3, <1>4

\* Once switched, a network stays so.
LEMMA SwitchedForGood ==
  ASSUME chain' = chain, \A q \in Plans : applied[q] > 0 => applied'[q] > 0,
         Switched(chain, applied)
  PROVE  Switched(chain', applied')
  BY DEF Switched, Plans

LEMMA ApplyKeeps ==
  ASSUME IInv, NEW p \in Plans, ApplyPlan(p)
  PROVE  IInv'
<1>1. UNCHANGED <<chain, binding, phase, flight, log, version, knowable, complete,
                  rejections>>
  BY DEF ApplyPlan
<1>2. /\ applied' \in [Plans -> Nat]
      /\ \A q \in Plans : applied[q] > 0 => applied'[q] > 0
  BY Applying
<1>3. Held' = Held /\ Missing' = Missing
  BY <1>1 DEF Held, Missing, Asked
<1>4. \A a \in Held : a.name \in Plans
  <2> TAKE a \in Held
  <2>1. a \in Answered
    BY DEF IInv, Shapes, Held
  <2>2. QED
    BY <2>1 DEF Answered, Plans
<1>5. Shapes'
  BY <1>1, <1>2 DEF IInv, Shapes
<1>6. Truthful'
  BY <1>2, <1>3, <1>4 DEF IInv, Truthful
<1>7. Informed'
  BY <1>1, <1>2, <1>3 DEF IInv, Informed, Plans
<1>8. AsDecided'
  BY <1>1, <1>3 DEF IInv, AsDecided
<1>9. OneRejection'
  BY <1>1, <1>2, SwitchedForGood DEF IInv, OneRejection
<1>10. QED
  BY <1>5, <1>6, <1>7, <1>8, <1>9 DEF IInv

\* A step that leaves the network alone and only moves or drops held answers.
LEMMA FewerHeldKeeps ==
  ASSUME IInv, Shapes', Held' \subseteq Held, UNCHANGED <<chain, applied, knowable>>
  PROVE  Truthful' /\ Informed'
<1>1. Truthful'
  BY DEF IInv, Truthful
<1>2. Informed'
  BY DEF IInv, Informed
<1>3. QED
  BY <1>1, <1>2

LEMMA AnswerKeeps ==
  ASSUME IInv, NEW n \in Asked, NodeAnswers(n)
  PROVE  IInv'
<1> DEFINE a0 == [name |-> n, height |-> applied[n]]
<1>1. /\ phase = "asking" /\ flight' = flight \cup {a0}
      /\ UNCHANGED <<chain, binding, applied, phase, log, version, knowable,
                     complete, rejections>>
  BY DEF NodeAnswers, network
<1>2. n \in Upgrades /\ n \in Plans
  BY DEF Asked, Plans
<1>3. a0 \in Answered
  BY <1>2 DEF IInv, Shapes, Answered
<1>4. Held' = Held \cup {a0}
  BY <1>1 DEF Held
<1>5. Shapes'
  BY <1>1, <1>3 DEF IInv, Shapes
<1>6. Truthful'
  BY <1>1, <1>4 DEF IInv, Truthful
<1>7. Informed'
  BY <1>1, <1>4 DEF IInv, Informed
<1>8. AsDecided'
  BY <1>1 DEF IInv, AsDecided
<1>9. OneRejection'
  BY <1>1 DEF IInv, OneRejection
<1>10. QED
  BY <1>5, <1>6, <1>7, <1>8, <1>9 DEF IInv

LEMMA ReceiveKeeps ==
  ASSUME IInv, NEW a \in flight, Receive(a)
  PROVE  IInv'
<1>1. /\ phase = "asking" /\ log' = Append(log, a) /\ flight' = flight \ {a}
      /\ UNCHANGED <<chain, binding, applied, phase, version, knowable, complete,
                     rejections>>
  BY DEF Receive, network
<1>2. a \in Answered /\ log \in Seq(Answered)
  BY DEF IInv, Shapes
<1>3. Shapes'
  BY <1>1, <1>2 DEF IInv, Shapes
<1>4. \A i \in DOMAIN log' : log'[i] = a \/ (i \in DOMAIN log /\ log'[i] = log[i])
  BY <1>1, <1>2
<1>5. Held' \subseteq Held
  BY <1>1, <1>4 DEF Held
<1>6. Truthful' /\ Informed'
  BY <1>1, <1>3, <1>5, FewerHeldKeeps
<1>7. AsDecided'
  BY <1>1 DEF IInv, AsDecided
<1>8. OneRejection'
  BY <1>1 DEF IInv, OneRejection
<1>9. QED
  BY <1>3, <1>6, <1>7, <1>8 DEF IInv

LEMMA LoseKeeps ==
  ASSUME IInv, NEW a \in flight, Lose(a)
  PROVE  IInv'
<1>1. /\ flight' = flight \ {a}
      /\ UNCHANGED <<chain, binding, applied, phase, log, version, knowable,
                     complete, rejections>>
  BY DEF Lose, network
<1>2. Shapes'
  BY <1>1 DEF IInv, Shapes
<1>3. Held' \subseteq Held
  BY <1>1 DEF Held
<1>4. Truthful' /\ Informed'
  BY <1>1, <1>2, <1>3, FewerHeldKeeps
<1>5. AsDecided'
  BY <1>1 DEF IInv, AsDecided, Missing
<1>6. OneRejection'
  BY <1>1 DEF IInv, OneRejection
<1>7. QED
  BY <1>2, <1>4, <1>5, <1>6 DEF IInv

LEMMA DecideKeeps == IInv /\ Decide => IInv'
<1> SUFFICES ASSUME IInv, Decide PROVE IInv'
  OBVIOUS
<1>1. /\ version' = VersionForApplied(binding, chain, log)
      /\ complete' = (Missing = {}) /\ phase' = "decided" /\ flight' = {}
      /\ UNCHANGED <<chain, binding, applied, log, knowable, rejections>>
  BY DEF Decide, network
<1>2. Shapes'
  BY <1>1 DEF IInv, Shapes
<1>3. Held' \subseteq Held /\ Missing' = Missing
  BY <1>1 DEF Held, Missing, Asked
<1>4. Truthful' /\ Informed'
  BY <1>1, <1>2, <1>3, FewerHeldKeeps
<1>5. AsDecided'
  BY <1>1, <1>3 DEF AsDecided
<1>6. OneRejection'
  BY <1>1 DEF IInv, OneRejection
<1>7. QED
  BY <1>2, <1>4, <1>5, <1>6 DEF IInv

LEMMA AcceptKeeps == IInv /\ Accept => IInv'
<1> SUFFICES ASSUME IInv, Accept PROVE IInv'
  OBVIOUS
<1>1. /\ phase = "decided" /\ phase' = "accepted"
      /\ UNCHANGED <<chain, binding, applied, flight, log, version, knowable,
                     complete, rejections>>
  BY DEF Accept, network
<1>2. Held' = Held /\ Missing' = Missing
  BY <1>1 DEF Held, Missing, Asked
<1>3. Shapes'
  BY <1>1 DEF IInv, Shapes
<1>4. Truthful' /\ Informed'
  BY <1>1, <1>2, <1>3, FewerHeldKeeps
<1>5. AsDecided'
  BY <1>1, <1>2 DEF IInv, AsDecided
<1>6. OneRejection'
  BY <1>1 DEF IInv, OneRejection
<1>7. QED
  BY <1>3, <1>4, <1>5, <1>6 DEF IInv

\* A new attempt holds no answers and knows what the network has done.
LEMMA NewAttemptKeeps ==
  ASSUME IInv, NewAttempt, UNCHANGED <<chain, binding, applied>>
  PROVE  /\ Shapes' /\ Truthful' /\ Informed' /\ AsDecided'
         /\ knowable' = Switched(chain, applied)
<1>1. /\ log' = <<>> /\ flight' = {} /\ version' = "none" /\ complete' = FALSE
      /\ knowable' = Switched(chain, applied) /\ phase' = "asking"
  BY DEF NewAttempt
<1>2. Held' = {}
  BY <1>1 DEF Held
<1>3. Shapes'
  BY <1>1 DEF IInv, Shapes
<1>4. Truthful'
  BY <1>2 DEF Truthful
<1>5. Informed'
  BY <1>1, <1>2 DEF Informed, Switched
<1>6. AsDecided'
  BY <1>1 DEF AsDecided
<1>7. QED
  BY <1>1, <1>3, <1>4, <1>5, <1>6

\* A decision made with every answer is rejected only if the network switched
\* after the attempt began, which the next attempt knows.
LEMMA RejectKeeps == IInv /\ Reject => IInv'
<1> SUFFICES ASSUME IInv, Reject PROVE IInv'
  OBVIOUS
<1>1. /\ phase = "decided" /\ version # Verifies(chain, applied) /\ NewAttempt
      /\ rejections' = IF complete THEN Min({2, rejections + 1}) ELSE rejections
      /\ UNCHANGED <<chain, binding, applied>>
  BY DEF Reject, network
<1>2. /\ Shapes' /\ Truthful' /\ Informed' /\ AsDecided'
      /\ knowable' = Switched(chain, applied)
  BY <1>1, NewAttemptKeeps
<1>3. Switched(chain, applied)
  BY <1>1, DecisionNotAhead DEF Verifies
<1>4. Switched(chain', applied') /\ knowable'
  BY <1>1, <1>2, <1>3
<1>5. CASE complete
  <2>1. rejections = 0
    BY <1>1, <1>5, DecisionRight DEF IInv, OneRejection
  <2>2. Min({2, 1}) = 1
    BY DEF Min
  <2>3. rejections' = 1
    BY <1>1, <1>5, <2>1, <2>2
  <2>4. QED
    BY <1>2, <1>4, <2>3 DEF IInv, OneRejection
<1>6. CASE ~complete
  BY <1>1, <1>2, <1>4, <1>6 DEF IInv, OneRejection
<1>7. QED
  BY <1>5, <1>6

LEMMA NextTransactionKeeps == IInv /\ NextTransaction => IInv'
<1> SUFFICES ASSUME IInv, NextTransaction PROVE IInv'
  OBVIOUS
<1>1. NewAttempt /\ UNCHANGED <<chain, binding, applied, rejections>>
  BY DEF NextTransaction, network
<1>2. /\ Shapes' /\ Truthful' /\ Informed' /\ AsDecided'
      /\ knowable' = Switched(chain, applied)
  BY <1>1, NewAttemptKeeps
<1>3. OneRejection'
  BY <1>1, <1>2 DEF IInv, OneRejection
<1>4. QED
  BY <1>2, <1>3 DEF IInv

LEMMA StutterKeeps == IInv /\ UNCHANGED vars => IInv'
<1> SUFFICES ASSUME IInv, UNCHANGED vars PROVE IInv'
  OBVIOUS
<1>1. UNCHANGED <<chain, binding, applied, phase, flight, log, version, knowable,
                  complete, rejections>>
  BY DEF vars
<1>2. Held' = Held /\ Missing' = Missing
  BY <1>1 DEF Held, Missing, Asked
<1>3. Shapes'
  BY <1>1 DEF IInv, Shapes
<1>4. Truthful' /\ Informed'
  BY <1>1, <1>2, <1>3, FewerHeldKeeps
<1>5. AsDecided' /\ OneRejection'
  BY <1>1, <1>2 DEF IInv, AsDecided, OneRejection
<1>6. QED
  BY <1>3, <1>4, <1>5 DEF IInv

LEMMA Invariance == Spec => []IInv
<1>1. IInv /\ [Next]_vars => IInv'
  BY ApplyKeeps, AnswerKeeps, ReceiveKeeps, LoseKeeps, DecideKeeps, AcceptKeeps,
     RejectKeeps, NextTransactionKeeps, StutterKeeps DEF Next
<1>2. QED
  BY Initially, <1>1, PTL DEF Spec

------------------------------------------------------------------------------
(* The properties.                                                          *)

\* No binding names v2 before the network verifies it, whatever happens to its
\* queries (README.md:70-72).
THEOREM NeverAheadHolds == Spec => []NeverAhead
<1>1. IInv => NeverAhead
  BY DecisionNotAhead DEF IInv, AsDecided, NeverAhead, Verifies
<1>2. QED
  BY <1>1, Invariance, PTL

\* A decision with every answer, in an attempt begun after the switch, is right
\* for as long as the client keeps it (README.md:70-72).
THEOREM DecisionsStayRight == Spec => []WrongOnlyWhenOvertaken
<1>1. IInv => WrongOnlyWhenOvertaken
  BY DecisionRight DEF IInv, AsDecided, WrongOnlyWhenOvertaken
<1>2. QED
  BY <1>1, Invariance, PTL

\* However many transactions it signs across the switch, a client that asks about
\* every plan name has at most one of them rejected.
THEOREM OneRejectionAtMost == Spec => []RejectedAtMostOnce
<1>1. IInv => RejectedAtMostOnce
  BY DEF IInv, OneRejection, RejectedAtMostOnce
<1>2. QED
  BY <1>1, Invariance, PTL

------------------------------------------------------------------------------
(* The bounds in TypeOK: heights grow by one with each plan applied, so none *)
(* exceeds the number of plans applied, and there are three.                *)

One(p) == IF applied[p] > 0 THEN 1 ELSE 0

PlansApplied == One("v3.2.0") + One("v3.1.98") + One("v3.3.0")

Bounded ==
  /\ binding \in Clients
  /\ \A p \in Plans : applied[p] <= PlansApplied
  /\ \A a \in Held : a.height <= 3
  /\ Len(log) <= MaxAnswers
  /\ phase \in {"asking", "decided", "accepted"}
  /\ knowable \in BOOLEAN /\ complete \in BOOLEAN

LEMMA PlansAppliedType == Shapes => PlansApplied \in 0 .. 3
  BY DEF Shapes, PlansApplied, One

\* The new height is one above some old one.
LEMMA ApplyHeight ==
  ASSUME IInv, Bounded, NEW p \in Plans, ApplyPlan(p)
  PROVE  \A q \in Plans : applied'[q] <= PlansApplied'
<1>1. PICK m \in {applied[q] : q \in Plans} : applied' = [applied EXCEPT ![p] = m + 1]
  BY TopApplied DEF ApplyPlan, IInv, Shapes
<1>2. applied \in [Plans -> Nat] /\ applied[p] = 0
  BY DEF IInv, Shapes, ApplyPlan
<1>3. m \in Nat /\ m <= PlansApplied
  BY <1>1, <1>2 DEF Bounded
<1>4. p \in {"v3.2.0", "v3.1.98", "v3.3.0"}
  BY DEF Plans, Upgrades, OtherPlan
<1>5. /\ applied'[p] = m + 1
      /\ \A q \in Plans : q # p => applied'[q] = applied[q]
  BY <1>1, <1>2
<1>6. {"v3.2.0", "v3.1.98", "v3.3.0"} \subseteq Plans
  BY DEF Plans, Upgrades, OtherPlan
<1>7. PlansApplied' = PlansApplied + 1 /\ PlansApplied \in Nat
  <2>1. \A q \in Plans : applied[q] \in Nat
    BY <1>2
  <2>2. CASE p = "v3.2.0"
    BY <1>2, <1>3, <1>5, <1>6, <2>1, <2>2 DEF PlansApplied, One
  <2>3. CASE p = "v3.1.98"
    BY <1>2, <1>3, <1>5, <1>6, <2>1, <2>3 DEF PlansApplied, One
  <2>4. CASE p = "v3.3.0"
    BY <1>2, <1>3, <1>5, <1>6, <2>1, <2>4 DEF PlansApplied, One
  <2>5. QED
    BY <1>4, <2>2, <2>3, <2>4
<1>8. QED
  <2> TAKE q \in Plans
  <2>1. applied[q] \in Nat /\ applied[q] <= PlansApplied
    BY <1>2 DEF Bounded
  <2>2. CASE q = p
    BY <1>3, <1>5, <1>7, <2>2
  <2>3. CASE q # p
    BY <1>5, <1>7, <2>1, <2>3
  <2>4. QED
    BY <2>2, <2>3

LEMMA BoundedInit == Init => Bounded
<1> SUFFICES ASSUME Init PROVE Bounded
  OBVIOUS
<1>1. \A p \in Plans : applied[p] <= PlansApplied
  BY DEF Init, PlansApplied, One, Plans, Upgrades, OtherPlan
<1>2. Held = {} /\ Len(log) = 0
  BY DEF Init, Held
<1>3. knowable \in BOOLEAN
  BY DEF Init, Switched
<1>4. Len(log) <= MaxAnswers
  BY <1>2, MaxAnswersAssumption
<1>5. \A a \in Held : a.height <= 3
  BY <1>2
<1>6. /\ binding \in Clients /\ complete \in BOOLEAN
      /\ phase \in {"asking", "decided", "accepted"}
  BY DEF Init
<1>7. QED
  BY <1>1, <1>3, <1>4, <1>5, <1>6 DEF Bounded

\* While the network does not move, answers keep the bound its heights have.
LEMMA BoundedStep == IInv /\ IInv' /\ Bounded /\ [Next]_vars => Bounded'
<1> SUFFICES ASSUME IInv, IInv', Bounded, [Next]_vars PROVE Bounded'
  OBVIOUS
<1>1. ASSUME NEW p \in Plans, ApplyPlan(p) PROVE Bounded'
  <2>1. UNCHANGED <<binding, phase, flight, log, knowable, complete>>
    BY <1>1 DEF ApplyPlan
  <2>2. Held' = Held
    BY <2>1 DEF Held
  <2>3. QED
    BY <1>1, <2>1, <2>2, ApplyHeight DEF Bounded
<1>2. ASSUME UNCHANGED <<binding, applied>>, Held' \subseteq Held, Len(log') <= MaxAnswers,
             phase' \in {"asking", "decided", "accepted"},
             knowable' \in BOOLEAN, complete' \in BOOLEAN
      PROVE  Bounded'
  BY <1>2 DEF Bounded, PlansApplied, One
<1>3. ASSUME NEW n \in Asked, NodeAnswers(n) PROVE Bounded'
  <2>1. /\ flight' = flight \cup {[name |-> n, height |-> applied[n]]}
        /\ UNCHANGED <<binding, applied, phase, log, knowable, complete>>
    BY <1>3 DEF NodeAnswers, network
  <2>2. applied[n] \in Nat /\ applied[n] <= PlansApplied /\ PlansApplied \in 0 .. 3
    BY PlansAppliedType DEF IInv, Shapes, Bounded, Asked, Plans
  <2>3. Held' = Held \cup {[name |-> n, height |-> applied[n]]}
    BY <2>1 DEF Held
  <2>4. \A a \in Held' : a.height <= 3
    BY <2>2, <2>3 DEF Bounded
  <2>5. QED
    BY <2>1, <2>4 DEF Bounded, PlansApplied, One
<1>4. ASSUME NEW a \in flight, Receive(a) PROVE Bounded'
  <2>1. /\ log' = Append(log, a) /\ flight' = flight \ {a}
        /\ Len(log) + Cardinality(Missing \ {a.name}) < MaxAnswers
        /\ UNCHANGED <<binding, applied, phase, knowable, complete>>
    BY <1>4 DEF Receive, network
  <2>2. log \in Seq(Answered) /\ a \in Answered
    BY DEF IInv, Shapes
  <2>3. Len(log') <= MaxAnswers
    <3>1. IsFiniteSet(Upgrades)
      <4>1. IsFiniteSet({"v3.2.0"}) /\ IsFiniteSet({"v3.1.98"})
        BY FS_Singleton
      <4>2. IsFiniteSet({"v3.2.0"} \cup {"v3.1.98"})
        BY <4>1, FS_Union
      <4>3. Upgrades = {"v3.2.0"} \cup {"v3.1.98"}
        BY DEF Upgrades
      <4>4. QED
        BY <4>2, <4>3
    <3>2. Missing \ {a.name} \subseteq Upgrades
      BY DEF Missing, Asked
    <3>3. Cardinality(Missing \ {a.name}) \in Nat
      BY <3>1, <3>2, FS_Subset, FS_CardinalityType
    <3>4. Len(log') = Len(log) + 1 /\ Len(log) \in Nat
      BY <2>1, <2>2
    <3>5. QED
      BY <2>1, <3>3, <3>4, MaxAnswersAssumption
  <2>4. \A i \in DOMAIN log' : log'[i] = a \/ (i \in DOMAIN log /\ log'[i] = log[i])
    BY <2>1, <2>2
  <2>5. Held' \subseteq Held
    BY <2>1, <2>4 DEF Held
  <2>6. QED
    BY <1>2, <2>1, <2>3, <2>5 DEF Bounded
<1>5. ASSUME NEW a \in flight, Lose(a) PROVE Bounded'
  <2>1. flight' = flight \ {a} /\ UNCHANGED <<binding, applied, phase, log, knowable, complete>>
    BY <1>5 DEF Lose, network
  <2>2. Held' \subseteq Held
    BY <2>1 DEF Held
  <2>3. QED
    BY <1>2, <2>1, <2>2 DEF Bounded
<1>6. ASSUME Decide PROVE Bounded'
  <2>1. /\ flight' = {} /\ phase' = "decided" /\ complete' = (Missing = {})
        /\ UNCHANGED <<binding, applied, log, knowable>>
    BY <1>6 DEF Decide, network
  <2>2. Held' \subseteq Held
    BY <2>1 DEF Held
  <2>3. complete' \in BOOLEAN
    BY <2>1
  <2>4. QED
    BY <1>2, <2>1, <2>2, <2>3 DEF Bounded
<1>7. ASSUME Accept PROVE Bounded'
  <2>1. phase' = "accepted" /\ UNCHANGED <<binding, applied, flight, log, knowable, complete>>
    BY <1>7 DEF Accept, network
  <2>2. Held' = Held
    BY <2>1 DEF Held
  <2>3. QED
    BY <1>2, <2>1, <2>2 DEF Bounded
<1>8. ASSUME NewAttempt, UNCHANGED <<binding, applied>> PROVE Bounded'
  <2>1. /\ log' = <<>> /\ flight' = {} /\ complete' = FALSE /\ phase' = "asking"
        /\ knowable' = Switched(chain, applied)
    BY <1>8 DEF NewAttempt
  <2>2. Held' \subseteq Held /\ Len(log') <= MaxAnswers
    BY <2>1, MaxAnswersAssumption DEF Held
  <2>3. knowable' \in BOOLEAN
    BY <2>1 DEF Switched
  <2>4. QED
    BY <1>2, <1>8, <2>1, <2>2, <2>3
<1>9. CASE UNCHANGED vars
  <2>1. UNCHANGED <<binding, applied, phase, flight, log, knowable, complete>>
    BY <1>9 DEF vars
  <2>2. Held' = Held
    BY <2>1 DEF Held
  <2>3. QED
    BY <1>2, <2>1, <2>2 DEF Bounded
<1>10. QED
  BY <1>1, <1>3, <1>4, <1>5, <1>6, <1>7, <1>8, <1>9
     DEF Next, Reject, NextTransaction, network

\* The types of the variables: with three plans no height exceeds 3, and a client
\* never keeps more answers than it has room for.
THEOREM TypeCorrect == Spec => []TypeOK
<1>1. IInv /\ Bounded => TypeOK
  <2> SUFFICES ASSUME IInv, Bounded PROVE TypeOK
    OBVIOUS
  <2>1. \A p \in Plans : applied[p] \in 0 .. 3
    BY PlansAppliedType DEF IInv, Shapes, Bounded
  <2>2. \A a \in Held : a \in Answer
    <3> TAKE a \in Held
    <3>1. a \in Answered
      BY DEF IInv, Shapes, Held
    <3>2. a.height \in 0 .. 3
      BY <3>1 DEF Bounded, Answered
    <3>3. QED
      BY <3>1, <3>2 DEF Answered, Answer, Plans
  <2>3. log \in Seq(Answer)
    <3>1. log \in Seq(Answered) /\ Len(log) \in Nat /\ DOMAIN log = 1 .. Len(log)
      BY DEF IInv, Shapes
    <3>2. \A i \in 1 .. Len(log) : log[i] \in Answer
      BY <2>2, <3>1 DEF Held
    <3>3. log = [i \in 1 .. Len(log) |-> log[i]]
      BY <3>1
    <3>4. QED
      BY <3>1, <3>2, <3>3
  <2>4. flight \subseteq Answer
    BY <2>2 DEF Held
  <2>5. /\ version \in {"none", "v1", "v2"}
        /\ version = "none" <=> phase = "asking"
    BY DecisionNotAhead DEF IInv, AsDecided
  <2>6. applied \in [Plans -> 0 .. 3]
    BY <2>1 DEF IInv, Shapes
  <2>7. QED
    BY <2>3, <2>4, <2>5, <2>6 DEF TypeOK, IInv, Shapes, Bounded, OneRejection
<1>2. QED
  BY <1>1, BoundedInit, BoundedStep, Invariance, PTL DEF Spec
==============================================================================
