---------------------------- MODULE AdmissionProofs ----------------------------
(***************************************************************************)
(* Type correctness of module Admission and the two things that make its   *)
(* stored verdicts trustworthy: rules are monotone, and further lookups do *)
(* not open an address.  Both come down to the operators of Decision.      *)
(***************************************************************************)
EXTENDS Admission, TLAPS

Lists == [1..2 -> RuleSets]

\* With two files the first that has a matching rule decides.
LEMMA TwoLayers ==
  ASSUME NEW a, NEW names, NEW L \in Lists
  PROVE  RuleVerdict(a, names, L) =
           IF LayerVerdict(L[1], a, names) # "none"
           THEN LayerVerdict(L[1], a, names) ELSE LayerVerdict(L[2], a, names)
<1> DEFINE V(i) == LayerVerdict(L[i], a, names)
           Says(v) == \E i \in DOMAIN L : V(i) = v /\ \A j \in 1..(i - 1) : V(j) = "none"
<1>1. DOMAIN L = 1..2
  BY DEF Lists
<1>2. V(1) \in {"deny", "allow", "none"} /\ V(2) \in {"deny", "allow", "none"}
  BY DEF LayerVerdict
<1>3. ASSUME NEW v, v # "none"
      PROVE  Says(v) <=> V(1) = v \/ (V(1) = "none" /\ V(2) = v)
  <2> HIDE DEF V
  <2>1. 1..(1 - 1) = {} /\ 1..(2 - 1) = {1} /\ 1..2 = {1, 2}
    OBVIOUS
  <2>. QED  BY <1>1, <1>3, <2>1
<1>4. RuleVerdict(a, names, L) =
        IF Says("deny") THEN "deny" ELSE IF Says("allow") THEN "allow" ELSE "none"
  BY DEF RuleVerdict
<1> HIDE DEF V, Says
<1>5. RuleVerdict(a, names, L) = IF V(1) # "none" THEN V(1) ELSE V(2)
  BY <1>2, <1>3, <1>4
<1>. QED  BY <1>5 DEF V

\* Denying more and allowing less in every file.
Tighter(L, M) ==
  \A i \in 1..2 : L[i].deny \subseteq M[i].deny /\ M[i].allow \subseteq L[i].allow

\* The tighter rules allow no more, and deny wherever the others do.
LEMMA TighterRules ==
  ASSUME NEW a, NEW names, NEW L \in Lists, NEW M \in Lists, Tighter(L, M)
  PROVE  /\ RuleVerdict(a, names, M) = "allow" => RuleVerdict(a, names, L) = "allow"
         /\ RuleVerdict(a, names, L) = "deny" => RuleVerdict(a, names, M) # "none"
<1> DEFINE V(K, i) == LayerVerdict(K[i], a, names)
<1>1. \A i \in 1..2 : /\ V(L, i) \in {"deny", "allow", "none"}
                      /\ V(M, i) \in {"deny", "allow", "none"}
                      /\ V(L, i) = "deny" => V(M, i) = "deny"
                      /\ V(M, i) = "allow" => V(L, i) = "allow"
  BY DEF LayerVerdict, AnyMatch, Tighter
<1>2. 1 \in 1..2 /\ 2 \in 1..2
  OBVIOUS
<1>3. /\ RuleVerdict(a, names, L) = IF V(L, 1) # "none" THEN V(L, 1) ELSE V(L, 2)
      /\ RuleVerdict(a, names, M) = IF V(M, 1) # "none" THEN V(M, 1) ELSE V(M, 2)
  BY TwoLayers
<1> HIDE DEF V
<1>. QED  BY <1>1, <1>2, <1>3

\* What is stored for one candidate, temporary allows included.
LEMMA TighterVerdict ==
  ASSUME NEW a, NEW names, NEW keys, NEW L \in Lists, NEW M \in Lists, Tighter(L, M),
         NEW g, NEW h, h \subseteq g,
         Verdict(a, names, keys, M, h) = "allow"
  PROVE  Verdict(a, names, keys, L, g) = "allow"
<1>1. RuleVerdict(a, names, L) \in {"deny", "allow", "none"}
  BY DEF RuleVerdict
<1>2. /\ RuleVerdict(a, names, M) = "allow" => RuleVerdict(a, names, L) = "allow"
      /\ RuleVerdict(a, names, L) = "deny" => RuleVerdict(a, names, M) # "none"
  BY TighterRules
<1>3. keys \cap h \subseteq keys \cap g
  OBVIOUS
<1>. QED  BY <1>1, <1>2, <1>3 DEF Verdict

LEMMA AgreedAllow == \A V : Agreed(V) = "allow" <=> V = {"allow"}
BY DEF Agreed

\* Tighter rules and fewer temporary allows let nothing new through.
LEMMA TighterDecides ==
  ASSUME NEW q, NEW m, NEW L \in Lists, NEW M \in Lists, Tighter(L, M),
         NEW g, NEW h, h \subseteq g, Decide(q, m, M, h) = "allow"
  PROVE  Decide(q, m, L, g) = "allow"
<1>1. CASE m = "open"
  BY <1>1 DEF Decide
<1>2. CASE m # "open"
  <2>1. Verdicts(q, M, h) = {"allow"} /\ ~(q.malformed \/ q.address \in HardDenied)
    BY <1>2, AgreedAllow DEF Decide
  <2>2. Verdicts(q, L, g) = {"allow"}
    <3>1. CASE q.candidates = {}
      <4>1. Verdict(q.address, {}, {q.address}, M, h) = "allow"
        BY <2>1, <3>1 DEF Verdicts
      <4>. QED  BY <3>1, <4>1, TighterVerdict DEF Verdicts
    <3>2. CASE q.candidates # {}
      <4>1. \A c \in q.candidates : Verdict(q.address, c.names, c.names, M, h) = "allow"
        BY <2>1, <3>2 DEF Verdicts, CandidateVerdict
      <4>2. \A c \in q.candidates : Verdict(q.address, c.names, c.names, L, g) = "allow"
        BY <4>1, TighterVerdict
      <4>. QED  BY <3>2, <4>2 DEF Verdicts, CandidateVerdict
    <3>. QED  BY <3>1, <3>2
  <2>. QED  BY <1>2, <2>1, <2>2, AgreedAllow DEF Decide
<1>. QED  BY <1>1, <1>2

\* A further candidate lets nothing new through.
LEMMA MoreCandidates ==
  ASSUME NEW p, NEW q, NEW m, NEW L, NEW g,
         p.address = q.address, p.malformed = q.malformed,
         p.candidates # {}, p.candidates \subseteq q.candidates,
         Decide(q, m, L, g) = "allow"
  PROVE  Decide(p, m, L, g) = "allow"
<1>1. CASE m = "open"
  BY <1>1 DEF Decide
<1>2. CASE m # "open"
  <2>1. Verdicts(q, L, g) = {"allow"} /\ ~(q.malformed \/ q.address \in HardDenied)
    BY <1>2, AgreedAllow DEF Decide
  <2>2. \A c \in q.candidates : Verdict(q.address, c.names, c.names, L, g) = "allow"
    BY <2>1 DEF Verdicts, CandidateVerdict
  <2>3. Verdicts(p, L, g) = {"allow"}
    BY <2>2 DEF Verdicts, CandidateVerdict
  <2>. QED  BY <1>2, <2>1, <2>3, AgreedAllow DEF Decide
<1>. QED  BY <1>1, <1>2

-----------------------------------------------------------------------------
(* Type correctness                                                        *)

LEMMA QuestionTyped ==
  ASSUME NEW f \in Flows, NEW chains, chains \subseteq Chains
  PROVE  Question(f, chains) \in Questions
BY FlowAssumption DEF Question, At, Questions

LEMMA SetRuleTyped ==
  ASSUME NEW layer \in RuleSets, NEW list \in {"allow", "deny"}, NEW p \in Patterns
  PROVE  SetRule(layer, list, p) \in RuleSets
BY DEF SetRule, RuleSets

LEMMA RevokeTyped ==
  ASSUME NEW layer \in RuleSets, NEW p
  PROVE  [l \in {"allow", "deny"} |-> layer[l] \ {p}] \in RuleSets
BY DEF RuleSets

\* What an answer is about can be written as a rule and kept as a key.
LEMMA SubjectsTyped ==
  ASSUME NEW q \in Questions, NEW L, NEW g
  PROVE  Subjects(q, L, g) \subseteq [kind : {"exact"}, name : Names \ Numeric]
                                \cup [kind : {"address"}, address : Addresses]
<1>1. CASE q.candidates = {}
  BY <1>1 DEF Subjects, Address, Questions
<1>2. CASE q.candidates # {}
  <2> DEFINE undecided == {c \in q.candidates : CandidateVerdict(q, c, L, g) = "none"}
  <2>1. \A c \in undecided : c.query \in Names
    BY ChainAssumption DEF Questions
  <2>2. Subjects(q, L, g) = {Exact(n) : n \in {c.query : c \in undecided} \ Numeric}
    BY <1>2 DEF Subjects
  <2> HIDE DEF undecided
  <2>. QED  BY <2>1, <2>2 DEF Exact
<1>. QED  BY <1>1, <1>2

\* Subjects have keys, and rules are only written for an answer that wants them.
Keyed == \A f \in Flows :
  /\ about[f] \subseteq [kind : {"exact"}, name : Names \ Numeric]
                   \cup [kind : {"address"}, address : Addresses]
  /\ todo[f] \subseteq about[f]
  /\ todo[f] # {} => pc[f] = "answered" /\ outcome[f] \in {"allow", "deny"}

\* Every variable keeps to its values.
THEOREM AdmissionTyping == Spec => [](TypeOK /\ Keyed)
<1>1. Init => TypeOK /\ Keyed
  <2>. SUFFICES ASSUME Init PROVE TypeOK /\ Keyed
    OBVIOUS
  <2>1. \A f \in Flows : Question(f, {}) \in Questions
    BY QuestionTyped
  <2>2. [i \in 1..2 |-> [allow |-> {}, deny |-> {}]] \in [1..2 -> RuleSets]
    BY DEF RuleSets
  <2>3. 0 \in 0..MaxPrompts /\ 0 \in 0..MaxEdits
    BY WorldAssumption
  <2>4. asked \in [Flows -> Questions]
    BY <2>1 DEF Init
  <2>5. Keyed
    BY DEF Init, Keyed
  <2>. QED  BY <2>2, <2>3, <2>4, <2>5 DEF Init, TypeOK, Points, Outcomes
<1>2. TypeOK /\ Keyed /\ [Next]_vars => (TypeOK /\ Keyed)'
  <2>. SUFFICES ASSUME TypeOK, Keyed, [Next]_vars PROVE TypeOK' /\ Keyed'
    OBVIOUS
  <2>. USE DEF TypeOK, Keyed, Points, Outcomes
  <2>1. ASSUME NEW f \in Flows, Arrive(f)  PROVE TypeOK' /\ Keyed'
    <3>1. /\ ClaimedOf[f] \in Names \cup {NoName}
          /\ AddressOf[f] \in Addresses
      BY FlowAssumption
    <3>2. asked' \in [Flows -> Questions]
      <4> DEFINE claimed == {Plain(ClaimedOf[f])}
      <4>1. ClaimedOf[f] # NoName => claimed \subseteq Chains
        BY FlowAssumption
      <4>2. bindings[AddressOf[f]] \subseteq Chains
        BY <3>1
      <4>. QED  BY <2>1, <4>1, <4>2, QuestionTyped DEF Arrive
    <3>. QED  BY <2>1, <3>2 DEF Arrive, Goto, stored, limiter
  <2>2. ASSUME NEW f \in Flows, CheckLimit(f)  PROVE TypeOK' /\ Keyed'
    BY <2>2 DEF CheckLimit, Goto, Return, stored, limiter
  <2>3. ASSUME NEW f \in Flows, Judge(f)  PROVE TypeOK' /\ Keyed'
    <3>1. Subjects(asked[f], layers, grants)
            \subseteq [kind : {"exact"}, name : Names \ Numeric]
                 \cup [kind : {"address"}, address : Addresses]
      BY SubjectsTyped
    <3>2. Subjects(asked[f], layers, grants) \subseteq Patterns
      BY <3>1 DEF Patterns
    <3>3. about' \in [Flows -> SUBSET Patterns]
      BY <2>3, <3>2 DEF Judge
    <3>4. /\ pc[f] = "passed"
          /\ pc' = [pc EXCEPT ![f] = "asking"] \/ pc' = [pc EXCEPT ![f] = "done"]
          /\ \/ UNCHANGED about
             \/ about' = [about EXCEPT ![f] = Subjects(asked[f], layers, grants)]
          /\ UNCHANGED <<todo, outcome>>
      BY <2>3 DEF Judge, Goto, Return
    <3>5. Keyed'
      BY <3>1, <3>4
    <3>6. /\ pc' \in [Flows -> Points] /\ admitted' \in [Flows -> BOOLEAN]
      BY <2>3 DEF Judge, Goto, Return
    <3>7. UNCHANGED <<stored, limiter, bindings, edits, asked, todo, leader, outcome, lastWord>>
      BY <2>3 DEF Judge
    <3>. QED  BY <3>3, <3>5, <3>6, <3>7 DEF stored, limiter
  <2>4. ASSUME NEW f \in Flows, Prompt(f)  PROVE TypeOK' /\ Keyed'
    BY <2>4, WorldAssumption DEF Prompt, Goto, stored
  <2>5. ASSUME NEW f \in Flows, Share(f)  PROVE TypeOK' /\ Keyed'
    BY <2>5 DEF Share, Sharing, Goto, stored, limiter
  <2>6. ASSUME NEW f \in Flows, Refuse(f)  PROVE TypeOK' /\ Keyed'
    BY <2>6 DEF Refuse, Goto, stored, limiter
  <2>7. ASSUME NEW f \in Flows, NEW r \in {"allow", "deny", "temp", "dismissed"}, Answer(f, r)
        PROVE TypeOK' /\ Keyed'
    BY <2>7 DEF Answer, stored, limiter
  <2>8. ASSUME NEW f \in Flows, Trip(f) \/ Dismiss(f) \/ Conclude(f)  PROVE TypeOK' /\ Keyed'
    BY <2>8 DEF Trip, Dismiss, Conclude, Goto, Return, stored, limiter
  <2>9. ASSUME NEW f \in Flows, GrantSubjects(f)  PROVE TypeOK' /\ Keyed'
    <3>1. {SessionKey(p) : p \in about[f]} \subseteq Keys
      BY DEF SessionKey, Keys
    <3>. QED  BY <2>9, <3>1 DEF GrantSubjects, Goto, Return, limiter
  <2>10. ASSUME NEW f \in Flows, NEW p \in todo[f], WriteRule(f, p)  PROVE TypeOK' /\ Keyed'
    <3>1. p \in Patterns /\ outcome[f] \in {"allow", "deny"} /\ layers[1] \in RuleSets
      BY <2>10
    <3>2. SetRule(layers[1], outcome[f], p) \in RuleSets
      BY <3>1, SetRuleTyped
    <3>3. layers' \in [1..2 -> RuleSets]
      BY <2>10, <3>2 DEF WriteRule
    <3>4. lastWord' \in Flows \cup {NoFlow}
      BY <2>10 DEF WriteRule
    <3>5. UNCHANGED <<mode, grants, limiter, bindings, edits, pc, asked, about, leader,
                      outcome, admitted>>
      BY <2>10 DEF WriteRule
    <3>6. todo' = [todo EXCEPT ![f] = @ \ {p}]
      BY <2>10 DEF WriteRule
    <3>. QED  BY <3>3, <3>4, <3>5, <3>6 DEF limiter
  <2>11. ASSUME NEW i \in 1..2, NEW p \in Rules,
                \/ \E list \in {"allow", "deny"} : NetRule(i, list, p)
                \/ NetRevoke(i, p)
         PROVE TypeOK' /\ Keyed'
    <3>1. p \in Patterns /\ layers[i] \in RuleSets
      BY WorldAssumption
    <3>2. \A list \in {"allow", "deny"} : SetRule(layers[i], list, p) \in RuleSets
      BY <3>1, SetRuleTyped
    <3>3. [l \in {"allow", "deny"} |-> layers[i][l] \ {p}] \in RuleSets
      BY <3>1, RevokeTyped
    <3>4. \/ \E list \in {"allow", "deny"} :
               layers' = [layers EXCEPT ![i] = SetRule(layers[i], list, p)]
          \/ layers' = [layers EXCEPT ![i] = [l \in {"allow", "deny"} |-> layers[i][l] \ {p}]]
      BY <2>11 DEF NetRule, NetRevoke
    <3>5. layers' \in [1..2 -> RuleSets]
      BY <3>2, <3>3, <3>4
    <3>6. /\ edits' \in 0..MaxEdits /\ lastWord' = NoFlow
          /\ UNCHANGED <<mode, grants, limiter, bindings, progress>>
      BY <2>11, WorldAssumption DEF NetRule, NetRevoke, Command
    <3>. QED  BY <3>5, <3>6 DEF limiter, progress
  <2>12. ASSUME NEW p \in Rules, Grant(p)  PROVE TypeOK' /\ Keyed'
    <3>1. SessionKey(p) \in Keys
      BY <2>12, WorldAssumption DEF Grant, SessionKey, Keys, Patterns
    <3>. QED  BY <2>12, <3>1, WorldAssumption DEF Grant, Command, limiter, progress
  <2>13. ASSUME NEW m \in {"open", "enforce"}, SetMode(m)  PROVE TypeOK' /\ Keyed'
    BY <2>13, WorldAssumption DEF SetMode, Command, limiter, progress
  <2>14. ASSUME Lift \/ ResetHistory  PROVE TypeOK' /\ Keyed'
    <3>1. limited' \in BOOLEAN /\ resuming' \in BOOLEAN
      BY <2>14 DEF Lift, ResetHistory
    <3>2. burst' \in 0..MaxPrompts /\ edits' \in 0..MaxEdits
      BY <2>14, WorldAssumption DEF Lift, ResetHistory, Command
    <3>3. lastWord' \in Flows \cup {NoFlow} /\ UNCHANGED <<stored, bindings, progress>>
      BY <2>14 DEF Lift, ResetHistory, Command
    <3>. QED  BY <3>1, <3>2, <3>3 DEF stored, progress
  <2>15. ASSUME NEW key \in grants, Expire(key)  PROVE TypeOK' /\ Keyed'
    BY <2>15 DEF Expire, limiter, progress
  <2>16. ASSUME NEW a \in Addresses,
                Forget(a) \/ \E chain \in Chains : Lookup(a, chain)
         PROVE TypeOK' /\ Keyed'
    BY <2>16, WorldAssumption DEF Forget, Lookup, stored, limiter, progress
  <2>17. CASE UNCHANGED vars
    BY <2>17 DEF vars, stored, limiter, progress
  <2>. QED
    BY <2>1, <2>2, <2>3, <2>4, <2>5, <2>6, <2>7, <2>8, <2>9, <2>10, <2>11, <2>12, <2>13,
       <2>14, <2>15, <2>16, <2>17 DEF Next, Admit, Operator, Environment
<1>. QED  BY <1>1, <1>2, PTL DEF Spec

-----------------------------------------------------------------------------
(* The theorems                                                            *)

\* Denying more lets nothing new through, allowing more holds nothing back:
\* both directions are TighterDecides, read from one side and the other.
THEOREM MonotoneRules == Spec => RulesAreMonotone
<1> DEFINE Step == layers' # layers \/ grants' # grants =>
             \A q \in Questions : /\ Tightened => (Allowed(q)' => Allowed(q))
                                  /\ Loosened => (Allowed(q) => Allowed(q)')
<1>1. TypeOK /\ TypeOK' => Step
  <2>. SUFFICES ASSUME TypeOK, TypeOK', NEW q \in Questions
                PROVE  /\ Tightened => (Allowed(q)' => Allowed(q))
                       /\ Loosened => (Allowed(q) => Allowed(q)')
    OBVIOUS
  <2>1. layers \in Lists /\ layers' \in Lists
    BY DEF TypeOK, Lists
  <2>2. ASSUME Tightened, Allowed(q)'  PROVE Allowed(q)
    <3>1. Tighter(layers, layers') /\ grants' \subseteq grants /\ mode' = mode
      BY <2>2 DEF Tightened, Tighter
    <3>2. Decide(q, mode, layers', grants') = "allow"
      BY <2>2, <3>1 DEF Allowed
    <3>. QED  BY <2>1, <3>1, <3>2, TighterDecides DEF Allowed
  <2>3. ASSUME Loosened, Allowed(q)  PROVE Allowed(q)'
    <3>1. Tighter(layers', layers) /\ grants \subseteq grants' /\ mode' = mode
      BY <2>3 DEF Loosened, Tighter
    <3>2. Decide(q, mode', layers', grants') = "allow"
      BY <2>1, <2>3, <3>1, TighterDecides DEF Allowed
    <3>. QED  BY <3>2 DEF Allowed
  <2>. QED  BY <2>2, <2>3
<1>. QED  BY <1>1, AdmissionTyping, PTL DEF RulesAreMonotone

\* Further lookups of a resolved address never let it through.
THEOREM LookupsStayClosed == Spec => LookupsDoNotOpen
<1> DEFINE Step == \A a \in Addresses :
             /\ bindings[a] # {} /\ bindings[a] \subseteq bindings'[a]
             /\ UNCHANGED stored
             => (Allowed(At(a, bindings[a]))' => Allowed(At(a, bindings[a])))
<1>1. Step
  <2>. SUFFICES ASSUME NEW a \in Addresses, bindings[a] # {},
                       bindings[a] \subseteq bindings'[a], UNCHANGED stored,
                       Allowed(At(a, bindings[a]))'
                PROVE  Allowed(At(a, bindings[a]))
    OBVIOUS
  <2>1. Decide(At(a, bindings'[a]), mode, layers, grants) = "allow"
    BY DEF Allowed, stored, At
  <2>2. Decide(At(a, bindings[a]), mode, layers, grants) = "allow"
    BY <2>1, MoreCandidates DEF At
  <2>. QED  BY <2>2 DEF Allowed
<1>. QED  BY <1>1, PTL DEF LookupsDoNotOpen

-----------------------------------------------------------------------------
(* Answers are remembered                                                  *)

Contrary(list) == IF list = "allow" THEN "deny" ELSE "allow"

\* A human is only asked where nothing unconditional decides, and about the
\* bare address only if that is all there is.
Raised == \A f \in Flows :
  /\ pc[f] \in {"new", "read", "passed"} => outcome[f] = "none"
  /\ pc[f] \in {"asking", "waiting", "answered"} \/ outcome[f] # "none"
     => /\ ~asked[f].malformed /\ asked[f].address \notin HardDenied
        /\ asked[f].candidates = {} => about[f] = {Address(asked[f].address)}

\* The last word stands in the kitchen file, as far as it has been written,
\* or among the temporary allows.
Stands == \A f \in Flows : lastWord = f =>
  /\ pc[f] \in {"answered", "done"}
  /\ outcome[f] \in {"allow", "deny", "temp"}
  /\ outcome[f] # "temp" => \A p \in about[f] \ todo[f] :
       p \in layers[1][outcome[f]] /\ p \notin layers[1][Contrary(outcome[f])]
  /\ outcome[f] = "temp" => \A p \in about[f] : SessionKey(p) \in grants

LEMMA RaisedInductive == TypeOK /\ Keyed /\ Raised /\ [Next]_vars => Raised'
<1>. SUFFICES ASSUME TypeOK, Keyed, Raised, [Next]_vars PROVE Raised'
  OBVIOUS
<1>. USE DEF Raised
<1>1. ASSUME NEW f \in Flows, Arrive(f)  PROVE Raised'
  BY <1>1 DEF TypeOK, Arrive, Goto
<1>2. ASSUME NEW f \in Flows, CheckLimit(f)  PROVE Raised'
  BY <1>2 DEF TypeOK, CheckLimit, Goto, Return
<1>3. ASSUME NEW f \in Flows, Judge(f)  PROVE Raised'
  <2>1. /\ pc[f] = "passed" /\ UNCHANGED <<asked, outcome>>
        /\ \/ UNCHANGED about /\ pc' = [pc EXCEPT ![f] = "done"]
           \/ /\ Decide(asked[f], mode, layers, grants) = "prompt"
              /\ pc' = [pc EXCEPT ![f] = "asking"]
              /\ about' = [about EXCEPT ![f] = Subjects(asked[f], layers, grants)]
    BY <1>3 DEF Judge, Goto, Return
  <2>2. Decide(asked[f], mode, layers, grants) = "prompt"
        => ~asked[f].malformed /\ asked[f].address \notin HardDenied
    BY DEF Decide
  <2>3. asked[f].candidates = {}
        => Subjects(asked[f], layers, grants) = {Address(asked[f].address)}
    BY DEF Subjects
  <2>. QED  BY <2>1, <2>2, <2>3 DEF TypeOK
<1>4. ASSUME NEW f \in Flows, Prompt(f) \/ Share(f) \/ Refuse(f)  PROVE Raised'
  BY <1>4 DEF TypeOK, Prompt, Share, Refuse, Goto
<1>5. ASSUME NEW f \in Flows, NEW r \in {"allow", "deny", "temp", "dismissed"}, Answer(f, r)
      PROVE Raised'
  BY <1>5 DEF TypeOK, Answer
<1>6. ASSUME NEW f \in Flows, Trip(f) \/ Dismiss(f) \/ Conclude(f) \/ GrantSubjects(f)
      PROVE Raised'
  BY <1>6 DEF TypeOK, Trip, Dismiss, Conclude, GrantSubjects, Goto, Return
<1>7. ASSUME NEW f \in Flows, NEW p \in todo[f], WriteRule(f, p)  PROVE Raised'
  BY <1>7 DEF WriteRule
<1>8. ASSUME Operator \/ Environment  PROVE Raised'
  <2>1. UNCHANGED progress
    BY <1>8 DEF Operator, Environment, NetRule, NetRevoke, Grant, SetMode, Lift,
                ResetHistory, Expire, Forget, Lookup
  <2>. QED  BY <2>1 DEF progress
<1>9. CASE UNCHANGED vars
  BY <1>9 DEF vars, progress
<1>. QED
  BY <1>1, <1>2, <1>3, <1>4, <1>5, <1>6, <1>7, <1>8, <1>9 DEF Next, Admit

LEMMA StandsInductive ==
  TypeOK /\ Keyed /\ Raised /\ Stands /\ [Next]_vars => Stands'
<1>. SUFFICES ASSUME TypeOK, Keyed, Raised, Stands, [Next]_vars PROVE Stands'
  OBVIOUS
<1>. USE DEF Stands
<1>1. ASSUME NEW f \in Flows, Arrive(f) \/ CheckLimit(f) \/ Prompt(f) \/ Share(f)
      PROVE Stands'
  BY <1>1 DEF TypeOK, Arrive, CheckLimit, Prompt, Share, Goto, Return, stored
<1>2. ASSUME NEW f \in Flows, Judge(f)  PROVE Stands'
  <2>1. lastWord # f /\ UNCHANGED <<stored, lastWord, outcome, todo>>
    BY <1>2 DEF Judge, Goto, Return
  <2>2. \A g \in Flows \ {f} : about'[g] = about[g] /\ pc'[g] = pc[g]
    BY <1>2 DEF Judge, Goto, Return, TypeOK
  <2>. QED  BY <2>1, <2>2 DEF stored
<1>3. ASSUME NEW f \in Flows, Refuse(f)  PROVE Stands'
  BY <1>3 DEF TypeOK, Refuse, Goto, stored
<1>4. ASSUME NEW f \in Flows, NEW r \in {"allow", "deny", "temp", "dismissed"}, Answer(f, r)
      PROVE Stands'
  <2>1. \A g \in Flows : lastWord = g =>
          /\ pc'[g] = pc[g] /\ outcome'[g] = outcome[g] /\ todo'[g] = todo[g]
    BY <1>4 DEF Answer
  <2>. QED  BY <1>4, <2>1 DEF Answer, stored
<1>5. ASSUME NEW f \in Flows, Trip(f) \/ Dismiss(f) \/ Conclude(f)  PROVE Stands'
  BY <1>5 DEF TypeOK, Trip, Dismiss, Conclude, Goto, Return, stored
<1>6. ASSUME NEW f \in Flows, GrantSubjects(f)  PROVE Stands'
  BY <1>6 DEF TypeOK, GrantSubjects, Goto, Return
<1>7. ASSUME NEW f \in Flows, NEW p \in todo[f], WriteRule(f, p)  PROVE Stands'
  <2>1. /\ pc[f] = "answered" /\ outcome[f] \in {"allow", "deny"}
        /\ p \in about[f] /\ todo[f] \subseteq about[f]
    BY <1>7 DEF Keyed
  <2>2. /\ todo' = [todo EXCEPT ![f] = todo[f] \ {p}]
        /\ UNCHANGED <<pc, about, outcome, grants>>
    BY <1>7 DEF WriteRule
  <2>3. CASE lastWord' = f
    <3>1. /\ layers' = [layers EXCEPT ![1] = SetRule(layers[1], outcome[f], p)]
          /\ todo[f] = about[f] \/ lastWord = f
      BY <1>7, <2>3, FlowAssumption DEF WriteRule, TypeOK
    <3>2. \A l \in {"allow", "deny"} : layers'[1][l] =
            IF l = outcome[f] THEN layers[1][l] \cup {p} ELSE layers[1][l] \ {p}
      BY <3>1 DEF SetRule, TypeOK
    <3>3. \A s \in about[f] \ todo'[f] :
            s \in layers'[1][outcome[f]] /\ s \notin layers'[1][Contrary(outcome[f])]
      <4>1. outcome[f] # Contrary(outcome[f]) /\ Contrary(outcome[f]) \in {"allow", "deny"}
        BY <2>1 DEF Contrary
      <4>2. \A s \in about[f] \ todo'[f] : s = p \/ s \in about[f] \ todo[f]
        BY <2>2 DEF TypeOK
      <4>3. \A s \in about[f] \ todo[f] :
              s \in layers[1][outcome[f]] /\ s \notin layers[1][Contrary(outcome[f])]
        BY <2>1, <3>1
      <4>. QED  BY <2>1, <3>2, <4>1, <4>2, <4>3
    <3>. QED  BY <2>1, <2>2, <2>3, <3>3
  <2>4. CASE lastWord' # f
    <3>1. lastWord' = NoFlow
      BY <1>7, <2>4 DEF WriteRule
    <3>. QED  BY <3>1, FlowAssumption
  <2>. QED  BY <2>3, <2>4
<1>8. ASSUME Operator \/ Environment  PROVE Stands'
  <2>1. \/ lastWord' = NoFlow
        \/ UNCHANGED <<stored, progress, lastWord>>
    BY <1>8 DEF Operator, Environment, NetRule, NetRevoke, Grant, SetMode, Lift,
                ResetHistory, Expire, Forget, Lookup, Command
  <2>. QED  BY <2>1, FlowAssumption DEF stored, progress
<1>9. CASE UNCHANGED vars
  BY <1>9 DEF vars, stored, progress
<1>. QED
  BY <1>1, <1>2, <1>3, <1>4, <1>5, <1>6, <1>7, <1>8, <1>9 DEF Next, Admit

\* The rules of one candidate before and after f's answer was written: where
\* the other rules say nothing against it, the answer decides.
LEMMA AnswerDecides ==
  ASSUME TypeOK, NEW f \in Flows, NEW a, NEW names, NEW keys,
         outcome[f] \in {"allow", "deny"},
         \A p \in about[f] : /\ p \in layers[1][outcome[f]]
                             /\ p \notin layers[1][Contrary(outcome[f])],
         \/ Verdict(a, names, keys, Others(f), grants) = outcome[f]
         \/ /\ Verdict(a, names, keys, Others(f), grants) = "none"
            /\ \E p \in about[f] : Matches(p, a, names)
  PROVE  Verdict(a, names, keys, layers, grants) = outcome[f]
<1> DEFINE O == Others(f)
           V(K, i) == LayerVerdict(K[i], a, names)
           hit == \E p \in about[f] : Matches(p, a, names)
<1>1. /\ layers \in Lists /\ layers[1] \in RuleSets
      /\ O = [layers EXCEPT ![1] = [l \in {"allow", "deny"} |-> layers[1][l] \ about[f]]]
  BY DEF TypeOK, Lists, Others
<1>2. [l \in {"allow", "deny"} |-> layers[1][l] \ about[f]] \in RuleSets
  BY <1>1 DEF RuleSets
<1>3. O \in Lists /\ O[2] = layers[2]
  BY <1>1, <1>2 DEF Lists
<1>4. O[1].allow = layers[1].allow \ about[f] /\ O[1].deny = layers[1].deny \ about[f]
  BY <1>1, <1>3 DEF Lists
<1>5. /\ V(O, 1) \in {"deny", "allow", "none"} /\ V(O, 2) \in {"deny", "allow", "none"}
      /\ V(layers, 2) = V(O, 2)
  BY <1>3 DEF LayerVerdict
<1>6. CASE outcome[f] = "allow"
  <2>1. V(O, 1) # "deny" => V(layers, 1) = IF hit THEN "allow" ELSE V(O, 1)
    BY <1>4, <1>6 DEF LayerVerdict, AnyMatch, Contrary
  <2> HIDE DEF O, V, hit
  <2>2. /\ RuleVerdict(a, names, O) = IF V(O, 1) # "none" THEN V(O, 1) ELSE V(O, 2)
        /\ RuleVerdict(a, names, layers) =
             IF V(layers, 1) # "none" THEN V(layers, 1) ELSE V(layers, 2)
    BY <1>1, <1>3, TwoLayers DEF V
  <2>3. \/ Verdict(a, names, keys, O, grants) = "allow"
        \/ Verdict(a, names, keys, O, grants) = "none" /\ hit
    BY <1>6 DEF O, hit
  <2>. QED  BY <1>5, <1>6, <2>1, <2>2, <2>3 DEF Verdict
<1>7. CASE outcome[f] = "deny"
  <2>1. V(O, 1) # "allow" => V(layers, 1) = IF hit THEN "deny" ELSE V(O, 1)
    BY <1>4, <1>7 DEF LayerVerdict, AnyMatch, Contrary
  <2>2. V(O, 1) = "allow" => V(layers, 1) = IF hit THEN "deny" ELSE "allow"
    BY <1>4, <1>7 DEF LayerVerdict, AnyMatch, Contrary
  <2> HIDE DEF O, V, hit
  <2>3. /\ RuleVerdict(a, names, O) = IF V(O, 1) # "none" THEN V(O, 1) ELSE V(O, 2)
        /\ RuleVerdict(a, names, layers) =
             IF V(layers, 1) # "none" THEN V(layers, 1) ELSE V(layers, 2)
    BY <1>1, <1>3, TwoLayers DEF V
  <2>4. \/ Verdict(a, names, keys, O, grants) = "deny"
        \/ Verdict(a, names, keys, O, grants) = "none" /\ hit
    BY <1>7 DEF O, hit
  <2>. QED  BY <1>5, <1>7, <2>1, <2>2, <2>3, <2>4 DEF Verdict
<1>. QED  BY <1>6, <1>7

LEMMA Remembered ==
  ASSUME TypeOK, Keyed, Raised, Stands
  PROVE  AnswerRemembered
<1>. SUFFICES ASSUME NEW f \in Flows, lastWord = f, pc[f] = "done",
                     outcome[f] \in {"allow", "deny", "temp"}, Unopposed(f)
              PROVE  Decide(asked[f], "enforce", layers, grants) = Wanted(f)
  BY DEF AnswerRemembered
<1> DEFINE q == asked[f]
<1>1. ~q.malformed /\ q.address \notin HardDenied /\ todo[f] = {}
  BY DEF Raised, Keyed
<1>2. /\ q.candidates \subseteq Chains
      /\ q.candidates = {} => about[f] = {Address(q.address)}
  BY DEF TypeOK, Questions, Raised
<1>3. outcome[f] # "temp" => \A p \in about[f] :
        p \in layers[1][outcome[f]] /\ p \notin layers[1][Contrary(outcome[f])]
  BY <1>1 DEF Stands
<1>4. outcome[f] = "temp" => \A p \in about[f] : SessionKey(p) \in grants
  BY DEF Stands
<1>5. Verdicts(q, layers, grants) = {Wanted(f)}
  <2>1. CASE q.candidates = {}
    <3> DEFINE v(K) == Verdict(q.address, {}, {q.address}, K, grants)
    <3>1. v(Others(f)) = "none" \/ v(Others(f)) = Wanted(f)
      BY <2>1 DEF Unopposed, Verdicts
    <3>2. Matches(Address(q.address), q.address, {}) /\ Address(q.address) \in about[f]
      BY <1>2, <2>1 DEF Matches, Address
    <3>3. CASE outcome[f] = "temp"
      <4>1. q.address \in grants
        BY <1>4, <3>2, <3>3 DEF SessionKey, Address
      <4>. QED  BY <2>1, <3>1, <3>3, <4>1 DEF Verdicts, Verdict, Others, Wanted
    <3>4. CASE outcome[f] # "temp"
      <4>1. v(layers) = outcome[f]
        BY <1>3, <3>1, <3>2, <3>4, AnswerDecides DEF Wanted
      <4>. QED  BY <2>1, <3>4, <4>1 DEF Verdicts, Wanted
    <3>. QED  BY <3>3, <3>4
  <2>2. CASE q.candidates # {}
    <3>1. ASSUME NEW c \in q.candidates
          PROVE  Verdict(q.address, c.names, c.names, layers, grants) = Wanted(f)
      <4> DEFINE v(K) == Verdict(q.address, c.names, c.names, K, grants)
      <4>1. \/ v(Others(f)) = Wanted(f)
            \/ v(Others(f)) = "none" /\ Exact(c.query) \in about[f]
        BY <2>2, <3>1 DEF Unopposed, CandidateVerdict
      <4>2. c.query \in c.names
        BY <1>2, ChainAssumption
      <4>3. Matches(Exact(c.query), q.address, c.names)
        BY <4>2 DEF Matches, Exact
      <4>4. CASE outcome[f] = "temp"
        <5>1. Exact(c.query) \in about[f] => c.query \in grants
          BY <1>4, <4>4 DEF SessionKey, Exact
        <5>. QED  BY <4>1, <4>2, <4>4, <5>1 DEF Verdict, Others, Wanted
      <4>5. CASE outcome[f] # "temp"
        BY <1>3, <4>1, <4>3, <4>5, AnswerDecides DEF Wanted
      <4>. QED  BY <4>4, <4>5
    <3>. QED  BY <2>2, <3>1 DEF Verdicts, CandidateVerdict
  <2>. QED  BY <2>1, <2>2
<1>. QED  BY <1>1, <1>5 DEF Decide, Agreed, Wanted

\* What a human answered keeps deciding: with AdmissionTyping, Raised and
\* Stands make the inductive invariant.
THEOREM AnswersRemembered == Spec => []AnswerRemembered
<1>1. Init => Raised /\ Stands
  BY FlowAssumption DEF Init, Raised, Stands
<1>2. TypeOK /\ Keyed /\ Raised /\ Stands /\ [Next]_vars => Raised' /\ Stands'
  BY RaisedInductive, StandsInductive
<1>3. TypeOK /\ Keyed /\ Raised /\ Stands => AnswerRemembered
  BY Remembered
<1>. QED  BY <1>1, <1>2, <1>3, AdmissionTyping, PTL DEF Spec
=============================================================================
