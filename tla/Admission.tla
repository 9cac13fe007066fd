------------------------------ MODULE Admission ------------------------------
(***************************************************************************)
(* Broker::admit() for the flows of one registration: what the binding     *)
(* store, the rate limit, the rules and the temporary allows say, a human  *)
(* where they say nothing, and what becomes of the answer.  Operators edit *)
(* rules, mode, temporary allows and the limit meanwhile, the sandbox goes *)
(* on looking names up.                                                    *)
(*                                                                         *)
(* admit() has one await, ask(); the steps before it are kept apart where  *)
(* another thread's write between two of its reads shows.  ask() is cut    *)
(* down to what module Approval shows of it: flows with one key share an   *)
(* outcome, and a prompt beyond MaxPrompts is refused.                     *)
(***************************************************************************)
EXTENDS Decision, FiniteSets

CONSTANTS
  Flows,        \* flows, each admitted once
  AddressOf,    \* the address of each flow
  PortOf,       \* its port; part of the coalescing key
  ClaimedOf,    \* the name of a SOCKS domain request, or NoName
  Rules,        \* rules operators may set
  MaxPrompts,   \* approval.max_prompts
  MaxEdits,     \* bound: commands operators give
  NoName,       \* not a name
  NoFlow        \* not a flow

\* A name without aliases.
Plain(n) == [query |-> n, names |-> {n}]

ASSUME FlowAssumption ==
  /\ AddressOf \in [Flows -> Addresses]
  /\ ClaimedOf \in [Flows -> Names \cup {NoName}]
  /\ \A f \in Flows : ClaimedOf[f] # NoName => Plain(ClaimedOf[f]) \in Chains
  /\ NoName \notin Names
  /\ NoFlow \notin Flows

ASSUME WorldAssumption ==
  /\ Rules \subseteq Patterns
  /\ MaxPrompts \in Nat \ {0}
  /\ MaxEdits \in Nat

VARIABLES
  layers,     \* 1: the kitchen file's rules, 2: those of rules.toml
  mode,       \* open or enforce
  grants,     \* names and addresses temporarily allowed
  limited,    \* the tripped rate limit
  bindings,   \* address -> chains looked up for it
  burst,      \* prompts in the rate limiter's history
  resuming,   \* a resume() has lifted the limit, not yet reset the history
  edits,      \* commands given so far
  pc,         \* where each flow is in admit()
  asked,      \* the Admission record of each flow
  about,      \* the subjects of its prompt
  todo,       \* subjects whose rule is still to be written
  leader,     \* the flow whose prompt a flow waits for
  outcome,    \* what ask() returned
  admitted,   \* what admit() returned
  lastWord    \* history: the flow whose answer nobody overruled since

stored   == <<layers, mode, grants>>
limiter  == <<limited, burst, resuming>>
progress == <<pc, asked, about, todo, leader, outcome, admitted>>
vars     == <<stored, limiter, bindings, edits, progress, lastWord>>

Points   == {"new", "read", "passed", "asking", "waiting", "answered", "done"}
Outcomes == {"allow", "deny", "temp", "dismissed", "ratelimited", "none"}
Keys     == (Names \ Numeric) \cup Addresses

TypeOK ==
  /\ layers \in [1..2 -> RuleSets]
  /\ mode \in {"open", "enforce"}
  /\ grants \subseteq Keys
  /\ limited \in BOOLEAN /\ resuming \in BOOLEAN
  /\ bindings \in [Addresses -> SUBSET Chains]
  /\ burst \in 0..MaxPrompts
  /\ edits \in 0..MaxEdits
  /\ pc \in [Flows -> Points]
  /\ asked \in [Flows -> Questions]
  /\ about \in [Flows -> SUBSET Patterns]
  /\ todo \in [Flows -> SUBSET Patterns]
  /\ leader \in [Flows -> Flows \cup {NoFlow}]
  /\ outcome \in [Flows -> Outcomes]
  /\ admitted \in [Flows -> BOOLEAN]
  /\ lastWord \in Flows \cup {NoFlow}

\* A flow to address a whose lookups returned these chains.
At(a, chains) == [address |-> a, candidates |-> chains, malformed |-> FALSE]
Question(f, chains) == At(AddressOf[f], chains)

Init ==
  /\ layers = [i \in 1..2 |-> [allow |-> {}, deny |-> {}]]
  /\ mode = "enforce"
  /\ grants = {}
  /\ limited = FALSE /\ burst = 0 /\ resuming = FALSE
  /\ bindings = [a \in Addresses |-> {}]
  /\ edits = 0
  /\ pc = [f \in Flows |-> "new"]
  /\ asked = [f \in Flows |-> Question(f, {})]
  /\ about = [f \in Flows |-> {}]
  /\ todo = [f \in Flows |-> {}]
  /\ leader = [f \in Flows |-> NoFlow]
  /\ outcome = [f \in Flows |-> "none"]
  /\ admitted = [f \in Flows |-> FALSE]
  /\ lastWord = NoFlow

-----------------------------------------------------------------------------
(* admit() up to its decision                                              *)

Goto(f, from, to) == pc[f] = from /\ pc' = [pc EXCEPT ![f] = to]

Return(f, from, verdict) ==
  /\ Goto(f, from, "done")
  /\ admitted' = [admitted EXCEPT ![f] = verdict]

\* A domain request brings its own name; an address, what was looked up.
Arrive(f) ==
  /\ Goto(f, "new", "read")
  /\ asked' = [asked EXCEPT ![f] = Question(f,
       IF ClaimedOf[f] # NoName
       THEN {Plain(ClaimedOf[f])}
       ELSE bindings[AddressOf[f]])]
  /\ UNCHANGED <<stored, limiter, bindings, edits, about, todo, leader, outcome,
                 admitted, lastWord>>

CheckLimit(f) ==
  /\ \/ limited /\ Return(f, "read", FALSE)
     \/ ~limited /\ Goto(f, "read", "passed") /\ UNCHANGED admitted
  /\ UNCHANGED <<stored, limiter, bindings, edits, asked, about, todo, leader,
                 outcome, lastWord>>

\* Rules, mode and temporary allows as they are now.
Judge(f) ==
  /\ LET verdict == Decide(asked[f], mode, layers, grants)
     IN  IF verdict = "prompt"
         THEN /\ Goto(f, "passed", "asking")
              /\ about' = [about EXCEPT ![f] = Subjects(asked[f], layers, grants)]
              /\ UNCHANGED admitted
         ELSE Return(f, "passed", verdict = "allow") /\ UNCHANGED about
  /\ UNCHANGED <<stored, limiter, bindings, edits, asked, todo, leader, outcome,
                 lastWord>>

-----------------------------------------------------------------------------
(* ask()                                                                   *)

\* The coalescing key: the address, or every candidate's query; and the port.
KeyOf(f) ==
  <<IF asked[f].candidates = {} THEN {AddressOf[f]}
    ELSE {c.query : c \in asked[f].candidates}, PortOf[f]>>

Sharing(f) == {g \in Flows : pc[g] = "waiting" /\ leader[g] = g /\ KeyOf(g) = KeyOf(f)}

Prompt(f) ==
  /\ Sharing(f) = {} /\ burst < MaxPrompts
  /\ Goto(f, "asking", "waiting")
  /\ leader' = [leader EXCEPT ![f] = f]
  /\ burst' = burst + 1
  /\ UNCHANGED <<stored, limited, resuming, bindings, edits, asked, about, todo,
                 outcome, admitted, lastWord>>

Share(f) ==
  /\ \E g \in Sharing(f) : leader' = [leader EXCEPT ![f] = g]
  /\ Goto(f, "asking", "waiting")
  /\ UNCHANGED <<stored, limiter, bindings, edits, asked, about, todo, outcome,
                 admitted, lastWord>>

Refuse(f) ==
  /\ Sharing(f) = {} /\ burst = MaxPrompts
  /\ Goto(f, "asking", "answered")
  /\ outcome' = [outcome EXCEPT ![f] = "ratelimited"]
  /\ UNCHANGED <<stored, limiter, bindings, edits, asked, about, todo, leader,
                 admitted, lastWord>>

\* An operator's answer, or none in time, for everyone who waits.  What
\* apply() does about a cancelled request is what it does about a dismissed one.
Answer(f, result) ==
  /\ pc[f] = "waiting" /\ leader[f] = f
  /\ LET group == {g \in Flows : pc[g] = "waiting" /\ leader[g] = f}
     IN  /\ pc' = [g \in Flows |-> IF g \in group THEN "answered" ELSE pc[g]]
         /\ outcome' = [g \in Flows |-> IF g \in group THEN result ELSE outcome[g]]
         /\ todo' = [g \in Flows |->
              IF g \in group /\ result \in {"allow", "deny"} THEN about[g] ELSE todo[g]]
  /\ UNCHANGED <<stored, limiter, bindings, edits, asked, about, leader, admitted,
                 lastWord>>

-----------------------------------------------------------------------------
(* What becomes of the outcome                                             *)

\* The caller's own stale view: the limit trips whatever happened since.
Trip(f) ==
  /\ outcome[f] = "ratelimited"
  /\ Return(f, "answered", FALSE)
  /\ limited' = TRUE
  /\ UNCHANGED <<stored, burst, resuming, bindings, edits, asked, about, todo,
                 leader, outcome, lastWord>>

Dismiss(f) ==
  /\ outcome[f] = "dismissed"
  /\ Return(f, "answered", FALSE)
  /\ UNCHANGED <<stored, limiter, bindings, edits, asked, about, todo, leader,
                 outcome, lastWord>>

\* Put a rule into one list and take it out of the other.
SetRule(layer, list, p) ==
  [l \in {"allow", "deny"} |-> IF l = list THEN layer[l] \cup {p} ELSE layer[l] \ {p}]

\* One subject's rule goes to the kitchen file; or the write fails.
WriteRule(f, p) ==
  /\ pc[f] = "answered" /\ p \in todo[f]
  /\ todo' = [todo EXCEPT ![f] = @ \ {p}]
  /\ \/ /\ layers' = [layers EXCEPT ![1] = SetRule(@, outcome[f], p)]
        /\ lastWord' = IF todo[f] = about[f] \/ lastWord = f THEN f ELSE NoFlow
     \/ UNCHANGED layers /\ lastWord' = NoFlow
  /\ UNCHANGED <<mode, grants, limiter, bindings, edits, pc, asked, about, leader,
                 outcome, admitted>>

\* The flow gets its verdict, written or not.
Conclude(f) ==
  /\ outcome[f] \in {"allow", "deny"} /\ todo[f] = {}
  /\ Return(f, "answered", outcome[f] = "allow")
  /\ UNCHANGED <<stored, limiter, bindings, edits, asked, about, todo, leader,
                 outcome, lastWord>>

\* The key of a temporary allow.
SessionKey(p) == IF p.kind = "exact" THEN p.name ELSE p.address

\* Fault variant: the allow is kept for the address whatever was asked.
GrantAddress(f) ==
  /\ outcome[f] = "temp"
  /\ grants' = grants \cup {AddressOf[f]}
  /\ lastWord' = f
  /\ Return(f, "answered", TRUE)
  /\ UNCHANGED <<layers, mode, limiter, bindings, edits, asked, about, todo, leader,
                 outcome>>

GrantSubjects(f) ==
  /\ outcome[f] = "temp"
  /\ grants' = grants \cup {SessionKey(p) : p \in about[f]}
  /\ lastWord' = f
  /\ Return(f, "answered", TRUE)
  /\ UNCHANGED <<layers, mode, limiter, bindings, edits, asked, about, todo, leader,
                 outcome>>

-----------------------------------------------------------------------------
(* Operators and the sandbox                                               *)

Command == edits < MaxEdits /\ edits' = edits + 1 /\ lastWord' = NoFlow

NetRule(i, list, p) ==
  /\ Command
  /\ layers' = [layers EXCEPT ![i] = SetRule(@, list, p)]
  /\ UNCHANGED <<mode, grants, limiter, bindings, progress>>

NetRevoke(i, p) ==
  /\ Command
  /\ layers' = [layers EXCEPT ![i] = [l \in {"allow", "deny"} |-> @[l] \ {p}]]
  /\ UNCHANGED <<mode, grants, limiter, bindings, progress>>

\* `net temp`: names and addresses only.
Grant(p) ==
  /\ Command
  /\ p.kind \in {"exact", "address"}
  /\ grants' = grants \cup {SessionKey(p)}
  /\ UNCHANGED <<layers, mode, limiter, bindings, progress>>

Expire(key) ==
  /\ key \in grants
  /\ grants' = grants \ {key}
  /\ lastWord' = NoFlow
  /\ UNCHANGED <<layers, mode, limiter, bindings, edits, progress>>

SetMode(m) ==
  /\ Command
  /\ mode' = m
  /\ UNCHANGED <<layers, grants, limiter, bindings, progress>>

\* resume(): the limit first, then the history.
Lift ==
  /\ Command
  /\ ~resuming
  /\ limited' = FALSE /\ resuming' = TRUE
  /\ UNCHANGED <<stored, burst, bindings, progress>>

ResetHistory ==
  /\ resuming
  /\ resuming' = FALSE /\ burst' = 0
  /\ UNCHANGED <<stored, limited, bindings, edits, progress, lastWord>>

\* The resolver binds an answer it relays.
Lookup(a, chain) ==
  /\ chain \notin bindings[a]
  /\ bindings' = [bindings EXCEPT ![a] = @ \cup {chain}]
  /\ UNCHANGED <<stored, limiter, edits, progress, lastWord>>

\* Expiry and eviction take an address with all its chains.
Forget(a) ==
  /\ bindings[a] # {}
  /\ bindings' = [bindings EXCEPT ![a] = {}]
  /\ UNCHANGED <<stored, limiter, edits, progress, lastWord>>

-----------------------------------------------------------------------------
Admit(f) ==
  \/ Arrive(f) \/ CheckLimit(f) \/ Judge(f)
  \/ Prompt(f) \/ Share(f) \/ Refuse(f)
  \/ \E result \in {"allow", "deny", "temp", "dismissed"} : Answer(f, result)
  \/ Trip(f) \/ Dismiss(f) \/ Conclude(f) \/ GrantSubjects(f)
  \/ \E p \in todo[f] : WriteRule(f, p)

Operator ==
  \/ \E i \in 1..2, p \in Rules :
       (\E list \in {"allow", "deny"} : NetRule(i, list, p)) \/ NetRevoke(i, p)
  \/ \E p \in Rules : Grant(p)
  \/ \E m \in {"open", "enforce"} : SetMode(m)
  \/ Lift \/ ResetHistory

Environment ==
  \/ \E key \in grants : Expire(key)
  \/ \E a \in Addresses : Forget(a) \/ \E chain \in Chains : Lookup(a, chain)

Next == (\E f \in Flows : Admit(f)) \/ Operator \/ Environment

Spec == Init /\ [][Next]_vars

-----------------------------------------------------------------------------
(* Properties                                                              *)

\* What admit() returned for this answer.
Wanted(f) == IF outcome[f] = "deny" THEN "deny" ELSE "allow"

\* The rules but for those f's answer put into the kitchen file.
Others(f) ==
  IF outcome[f] = "temp" THEN layers
  ELSE [layers EXCEPT ![1] = [l \in {"allow", "deny"} |-> @[l] \ about[f]]]

\* Whatever f's answer was not about agrees with it, and nothing else that is
\* stored decides what it was about the other way.
Unopposed(f) ==
  LET q == asked[f]
  IN  IF q.candidates = {}
      THEN Verdicts(q, Others(f), grants) \in {{"none"}, {Wanted(f)}}
      ELSE \A c \in q.candidates :
             LET v == CandidateVerdict(q, c, Others(f), grants)
             IN  v = Wanted(f) \/ (v = "none" /\ Exact(c.query) \in about[f])

\* An answer is final: once a human has said "allow", "deny" or "temp", the
\* same destination is decided that way without asking again, however many
\* names and aliases it was looked up by, until somebody edits the rules or
\* an allow expires (apply(), README "Approvals").  It needs the candidates
\* the answer was not about to agree, names no rule can express among them.
AnswerRemembered ==
  \A f \in Flows :
    /\ lastWord = f /\ pc[f] = "done" /\ outcome[f] \in {"allow", "deny", "temp"}
    /\ Unopposed(f)
    => Decide(asked[f], "enforce", layers, grants) = Wanted(f)

Allowed(q) == Decide(q, mode, layers, grants) = "allow"

Tightened ==
  /\ mode' = mode /\ grants' \subseteq grants
  /\ \A i \in 1..2 : /\ layers[i].deny \subseteq layers'[i].deny
                     /\ layers'[i].allow \subseteq layers[i].allow

Loosened ==
  /\ mode' = mode /\ grants \subseteq grants'
  /\ \A i \in 1..2 : /\ layers'[i].deny \subseteq layers[i].deny
                     /\ layers[i].allow \subseteq layers'[i].allow

\* No rule works backwards: denying more, in either file, lets nothing new
\* through, and allowing more holds nothing back that went through, however
\* the files, aliases and temporary allows overlap (decide_layered()).
RulesAreMonotone ==
  [][layers' # layers \/ grants' # grants =>
       \A q \in Questions : /\ Tightened => (Allowed(q)' => Allowed(q))
                            /\ Loosened => (Allowed(q) => Allowed(q)')]_vars

\* A sandbox cannot talk its way in by looking up more names: an address it
\* has resolved stays refused, or asked about, whatever further names it
\* resolves to that address (specs/egress-broker-design.md, 6.1).
LookupsDoNotOpen ==
  [][\A a \in Addresses :
       /\ bindings[a] # {} /\ bindings[a] \subseteq bindings'[a]
       /\ UNCHANGED stored
       => (Allowed(At(a, bindings[a]))' => Allowed(At(a, bindings[a])))]_vars

=============================================================================
