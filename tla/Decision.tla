------------------------------ MODULE Decision ------------------------------
(***************************************************************************)
(* The decision engine of the broker (broker/decision.rs): what stored     *)
(* rules, temporary allows and the sandbox's own lookups say of one flow.  *)
(* It is a function of its arguments: it keeps no state.                   *)
(*                                                                         *)
(* A name is a value, and Zone[n] the names a rule `*.n` covers.  A lookup *)
(* is its query name and the set of all its names (the query and its       *)
(* aliases).  Which of several matching rules is reported is left out: it  *)
(* only reaches the audit log.                                             *)
(***************************************************************************)
EXTENDS Naturals, Sequences

CONSTANTS
  Names,        \* host names
  Zone,         \* n -> n and every name below it
  Numeric,      \* valid host names that no rule can name (last label numeric)
  Addresses,    \* canonical IP addresses
  HardDenied,   \* metadata, link-local, multicast, unspecified, broadcast
  Chains        \* what a lookup may have returned: its query and all its names

ASSUME NameAssumption ==
  /\ Zone \in [Names -> SUBSET Names]
  /\ Numeric \subseteq Names
  /\ HardDenied \subseteq Addresses

ASSUME ChainAssumption ==
  /\ Chains \subseteq [query : Names, names : SUBSET Names]
  /\ \A c \in Chains : c.query \in c.names

Exact(n)   == [kind |-> "exact", name |-> n]
Address(a) == [kind |-> "address", address |-> a]

\* What a rule can say: HostPattern.
Patterns ==
  [kind : {"exact", "suffix"}, name : Names \ Numeric]
    \cup [kind : {"address"}, address : Addresses]
    \cup [kind : {"network"}, hosts : SUBSET Addresses]

\* A flow as the mediator knows it: the Admission of the code.
Questions ==
  [address : Addresses, candidates : SUBSET Chains, malformed : BOOLEAN]

RuleSets == [allow : SUBSET Patterns, deny : SUBSET Patterns]

Matches(p, address, names) ==
  \/ p.kind = "exact" /\ p.name \in names
  \/ p.kind = "suffix" /\ Zone[p.name] \cap names # {}
  \/ p.kind = "address" /\ p.address = address
  \/ p.kind = "network" /\ address \in p.hosts

AnyMatch(list, address, names) == \E p \in list : Matches(p, address, names)

\* Within a layer deny wins over allow.
LayerVerdict(layer, address, names) ==
  IF AnyMatch(layer.deny, address, names) THEN "deny"
  ELSE IF AnyMatch(layer.allow, address, names) THEN "allow"
  ELSE "none"

\* The first layer with a matching rule decides.
RuleVerdict(address, names, layers) ==
  LET Says(v) == \E i \in DOMAIN layers :
        /\ LayerVerdict(layers[i], address, names) = v
        /\ \A j \in 1..(i - 1) : LayerVerdict(layers[j], address, names) = "none"
  IN  IF Says("deny") THEN "deny" ELSE IF Says("allow") THEN "allow" ELSE "none"

\* What is stored for one candidate's names, or for an address never looked
\* up; a temporary allow counts where no rule does.
Verdict(address, names, keys, layers, grants) ==
  LET rule == RuleVerdict(address, names, layers)
  IN  IF rule = "none" /\ keys \cap grants # {} THEN "allow" ELSE rule

CandidateVerdict(q, c, layers, grants) ==
  Verdict(q.address, c.names, c.names, layers, grants)

Verdicts(q, layers, grants) ==
  IF q.candidates = {}
  THEN {Verdict(q.address, {}, {q.address}, layers, grants)}
  ELSE {CandidateVerdict(q, c, layers, grants) : c \in q.candidates}

\* What an answer is about: subjects(), the names no rule can name left out.
Subjects(q, layers, grants) ==
  IF q.candidates = {} THEN {Address(q.address)}
  ELSE LET undecided == {c \in q.candidates :
             CandidateVerdict(q, c, layers, grants) = "none"}
       IN  {Exact(n) : n \in {c.query : c \in undecided} \ Numeric}

\* Fault variant: one allowed candidate is enough.
AgreedAny(verdicts) ==
  IF "allow" \in verdicts THEN "allow"
  ELSE IF verdicts = {"deny"} THEN "deny" ELSE "prompt"

\* Candidates decide only in agreement; otherwise a human does.
Agreed(verdicts) ==
  IF verdicts = {"allow"} THEN "allow"
  ELSE IF verdicts = {"deny"} THEN "deny" ELSE "prompt"

\* Fault variant: a denied candidate is taken for ruled out.
DecideUndenied(q, mode, layers, grants) ==
  IF q.malformed \/ q.address \in HardDenied THEN "deny"
  ELSE IF mode = "open" THEN "allow"
  ELSE IF Verdicts(q, layers, grants) = {"deny"} THEN "deny"
  ELSE Agreed(Verdicts(q, layers, grants) \ {"deny"})

Decide(q, mode, layers, grants) ==
  IF q.malformed \/ q.address \in HardDenied THEN "deny"
  ELSE IF mode = "open" THEN "allow"
  ELSE Agreed(Verdicts(q, layers, grants))
=============================================================================
