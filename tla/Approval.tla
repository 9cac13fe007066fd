------------------------------ MODULE Approval ------------------------------
(***************************************************************************)
(* The approval queue of the egress broker (broker/approval.rs): flows     *)
(* that no stored rule decides ask a human.  Concurrent flows with the     *)
(* same coalescing key share one request: the first becomes the leader and *)
(* prompts, the others follow its watch channel.  A request ends with an   *)
(* answer (`net decide` or a dialog), at its deadline, or with its flow.   *)
(*                                                                         *)
(* Every flow asks once, so a flow also names the request it creates (the  *)
(* id of the code), the watch channel it opens and the entry it adds to    *)
(* the prompt history.  A flow's task is cut into steps at its awaits and  *)
(* where another thread can tell the difference; critical sections that    *)
(* only commute with everybody else's are one step.                        *)
(*                                                                         *)
(* Time is a number of ticks: deadlines count down, prompt ages count up   *)
(* and stop at Window, beyond which the code cannot tell them apart.       *)
(***************************************************************************)
EXTENDS Naturals, FiniteSets

CONSTANTS
  Flows,          \* flows that ask for approval, once each
  Entries,        \* registrations (SandboxEntry) the flows arrive through
  Names,          \* sandbox names; a name may be registered more than once
  Subjects,       \* what is asked about: names or an address, and a port
  EntryOf,        \* the registration of each flow
  NameOf,         \* the sandbox name of each registration
  SubjectOf,      \* the subject of each flow
  Tcp,            \* flows whose hang-up drops the request (CONNECT)
  Deployments,    \* dialog backend detected or not, approval.headless
  Answers,        \* the answers operators give
  MaxPrompts,     \* approval.max_prompts
  Window,         \* approval.window, in ticks
  Timeout,        \* approval.timeout, in ticks
  NoFlow          \* not a flow

ASSUME FlowAssumption ==
  /\ EntryOf \in [Flows -> Entries]
  /\ NameOf \in [Entries -> Names]
  /\ SubjectOf \in [Flows -> Subjects]
  /\ Tcp \subseteq Flows
  /\ NoFlow \notin Flows

ASSUME SettingsAssumption ==
  /\ Deployments \subseteq [surface : BOOLEAN, headless : {"deny", "queue"}]
  /\ Answers \subseteq {"allow", "deny", "temp"}
  /\ MaxPrompts \in Nat \ {0}
  /\ Window \in Nat \ {0}
  /\ Timeout \in Nat \ {0}

VARIABLES
  pc,         \* where each flow is in ask()
  channel,    \* the leader whose watch channel a flow opened or follows
  outcome,    \* what ask() returns; for a leader also the value of its channel
  inflight,   \* key -> the leader registered for it
  waited,     \* history: the leaders each flow followed
  pending,    \* requests an operator sees
  answer,     \* the oneshot channel of each request
  timer,      \* ticks left before the request's deadline
  screen,     \* the request that holds the screen mutex
  shown,      \* dialogs on the desktop
  recent,     \* name -> prompts in the rate limiter's queue
  age,        \* ticks since each prompt was counted; Window: it no longer is
  cancelled,  \* flows whose cancellation token fired
  stage,      \* how far the retirement of each registration is
  deployment  \* what the queue was created with; it never changes

protocol == <<pc, channel, outcome, inflight, waited>>
prompts  == <<pending, answer, timer, screen, shown>>
limiter  == <<recent, age>>
others   == <<cancelled, stage, deployment>>
vars     == <<protocol, prompts, limiter, others>>

DialogEnds == Answers \cup {"dismissed"}
Outcomes   == {"allow", "deny", "temp", "dismissed", "cancelled", "ratelimited"}
Leading    == {"prompting", "closing"}
Settled    == {"done", "gone"}
Points     == {"asking", "following"} \cup Leading \cup Settled
Stages     == {"live", "cancelling", "draining", "retired"}

Keys == Names \X Subjects
SandboxOf(f) == NameOf[EntryOf[f]]
\* Fault variant: the coalescing key leaves the sandbox out.
KeyWithoutSandbox(f) == <<CHOOSE s \in Names : TRUE, SubjectOf[f]>>
KeyOf(f) == <<SandboxOf(f), SubjectOf[f]>>

TypeOK ==
  /\ pc \in [Flows -> Points]
  /\ channel \in [Flows -> Flows \cup {NoFlow}]
  /\ outcome \in [Flows -> Outcomes \cup {"none"}]
  /\ inflight \in [Keys -> Flows \cup {NoFlow}]
  /\ waited \in [Flows -> SUBSET Flows]
  /\ pending \in SUBSET Flows
  /\ answer \in [Flows -> Outcomes \cup {"none"}]
  /\ timer \in [Flows -> 0..Timeout]
  /\ screen \in Flows \cup {NoFlow}
  /\ shown \in SUBSET Flows
  /\ recent \in [Names -> SUBSET Flows]
  /\ age \in [Flows -> 0..Window]
  /\ cancelled \in SUBSET Flows
  /\ stage \in [Entries -> Stages]
  /\ deployment \in Deployments

Init ==
  /\ pc = [f \in Flows |-> "asking"]
  /\ channel = [f \in Flows |-> NoFlow]
  /\ outcome = [f \in Flows |-> "none"]
  /\ inflight = [k \in Keys |-> NoFlow]
  /\ waited = [f \in Flows |-> {}]
  /\ pending = {}
  /\ answer = [f \in Flows |-> "none"]
  /\ timer = [f \in Flows |-> Timeout]
  /\ screen = NoFlow
  /\ shown = {}
  /\ recent = [s \in Names |-> {}]
  /\ age = [f \in Flows |-> Window]
  /\ cancelled = {}
  /\ stage = [e \in Entries |-> "live"]
  /\ deployment \in Deployments

-----------------------------------------------------------------------------
(* ask(): election, the rate limit, the prompt, and its end                *)

ReachesHuman == deployment.surface \/ deployment.headless = "queue"

Goto(f, from, to) == pc[f] = from /\ pc' = [pc EXCEPT ![f] = to]

\* Fault variant: looked up and inserted in two critical sections.
LeadUnlocked(f) ==
  /\ inflight' = [inflight EXCEPT ![KeyOf(f)] = f]
  /\ channel' = [channel EXCEPT ![f] = f]
  /\ UNCHANGED waited

\* Under the inflight lock: no request for the key, so this flow leads it.
Lead(f) ==
  /\ inflight[KeyOf(f)] = NoFlow
  /\ inflight' = [inflight EXCEPT ![KeyOf(f)] = f]
  /\ channel' = [channel EXCEPT ![f] = f]
  /\ UNCHANGED waited

\* Fault variant: the window is one tick short.
PrunedEarly(s) == {f \in recent[s] : age[f] + 1 < Window}

\* The queue of a sandbox's prompt times after its expired front is popped.
Pruned(s) == {f \in recent[s] : age[f] < Window}

\* count_prompt() has room: the prompt is counted, listed, and its deadline
\* starts.
LeadAndPrompt(f) ==
  LET s == SandboxOf(f) IN
  /\ ReachesHuman
  /\ Cardinality(Pruned(s)) < MaxPrompts
  /\ Goto(f, "asking", "prompting")
  /\ Lead(f)
  /\ recent' = [recent EXCEPT ![s] = Pruned(s) \cup {f}]
  /\ age' = [age EXCEPT ![f] = 0]
  /\ pending' = pending \cup {f}
  /\ UNCHANGED <<outcome, answer, timer, screen, shown, others>>

\* Fault variant: expired prompts are not popped before the comparison.
LeadLimitedStale(f) ==
  LET s == SandboxOf(f) IN
  /\ ReachesHuman
  /\ Cardinality(recent[s]) >= MaxPrompts
  /\ Goto(f, "asking", "closing")
  /\ Lead(f)
  /\ outcome' = [outcome EXCEPT ![f] = "ratelimited"]
  /\ UNCHANGED <<recent, age, prompts, others>>

\* count_prompt() has none: the flow leads, but nobody is asked.
LeadLimited(f) ==
  LET s == SandboxOf(f) IN
  /\ ReachesHuman
  /\ Cardinality(Pruned(s)) >= MaxPrompts
  /\ Goto(f, "asking", "closing")
  /\ Lead(f)
  /\ outcome' = [outcome EXCEPT ![f] = "ratelimited"]
  /\ recent' = [recent EXCEPT ![s] = Pruned(s)]
  /\ UNCHANGED <<age, prompts, others>>

\* No surface and headless = "deny": prompt() returns at once, uncounted.
LeadHeadless(f) ==
  /\ ~ReachesHuman
  /\ Goto(f, "asking", "closing")
  /\ Lead(f)
  /\ outcome' = [outcome EXCEPT ![f] = "dismissed"]
  /\ UNCHANGED <<prompts, limiter, others>>

\* A request for the key is in flight: wait for its leader's outcome.
Follow(f) ==
  LET l == inflight[KeyOf(f)] IN
  /\ l # NoFlow
  /\ Goto(f, "asking", "following")
  /\ channel' = [channel EXCEPT ![f] = l]
  /\ waited' = [waited EXCEPT ![f] = @ \cup {l}]
  /\ UNCHANGED <<outcome, inflight, prompts, limiter, others>>

\* Fault variant: a screen of its own for each sandbox.
TakeOwnScreen(f) ==
  /\ deployment.surface /\ pc[f] = "prompting"
  /\ screen \notin {g \in Flows : SandboxOf(g) = SandboxOf(f)}
  /\ screen' = f
  /\ UNCHANGED <<protocol, pending, answer, timer, shown, limiter, others>>

\* show(): the dialog future gets the screen mutex ...
TakeScreen(f) ==
  /\ deployment.surface /\ pc[f] = "prompting"
  /\ screen = NoFlow
  /\ screen' = f
  /\ UNCHANGED <<protocol, pending, answer, timer, shown, limiter, others>>

\* ... waits for the attribution, and opens the dialog if time remains.
Show(f) ==
  /\ pc[f] = "prompting" /\ screen = f
  /\ timer[f] > 0
  /\ shown' = shown \cup {f}
  /\ UNCHANGED <<protocol, pending, answer, timer, screen, limiter, others>>

\* Dropping the dialog future closes its window and releases the screen; the
\* deadline goes with the request.
DropPrompt(f) ==
  /\ shown' = shown \ {f}
  /\ screen' = IF screen = f THEN NoFlow ELSE screen
  /\ timer' = [timer EXCEPT ![f] = Timeout]

\* What the branches of prompt()'s select! offer; it takes any that is ready.
Ready(f) ==
  ({answer[f]} \ {"none"})
  \cup (IF f \in shown THEN DialogEnds ELSE {})
  \cup (IF timer[f] = 0 THEN {"dismissed"} ELSE {})
  \cup (IF f \in cancelled THEN {"cancelled"} ELSE {})

\* Fault variant: only decide() takes requests off the list.
ResolveListed(f) ==
  /\ Goto(f, "prompting", "closing")
  /\ \E o \in Ready(f) : outcome' = [outcome EXCEPT ![f] = o]
  /\ DropPrompt(f)
  /\ UNCHANGED <<channel, inflight, waited, pending, answer, limiter, others>>

Resolve(f) ==
  /\ Goto(f, "prompting", "closing")
  /\ \E o \in Ready(f) : outcome' = [outcome EXCEPT ![f] = o]
  /\ DropPrompt(f)
  /\ pending' = pending \ {f}
  /\ UNCHANGED <<channel, inflight, waited, answer, limiter, others>>

\* Fault variant: the outcome is published but the key stays taken.
FinishKeepingKey(f) ==
  /\ Goto(f, "closing", "done")
  /\ UNCHANGED <<channel, outcome, inflight, waited, prompts, limiter, others>>

\* The leader gives up its key and publishes the outcome to its followers.
Finish(f) ==
  /\ Goto(f, "closing", "done")
  /\ inflight' = [inflight EXCEPT ![KeyOf(f)] = NoFlow]
  /\ UNCHANGED <<channel, outcome, waited, prompts, limiter, others>>

\* A follower's select!: its own cancellation ...
FollowCancelled(f) ==
  /\ f \in cancelled
  /\ Goto(f, "following", "done")
  /\ outcome' = [outcome EXCEPT ![f] = "cancelled"]
  /\ UNCHANGED <<channel, inflight, waited, prompts, limiter, others>>

\* ... the leader's outcome ...
Inherit(f) ==
  LET l == channel[f] IN
  /\ Goto(f, "following", "done")
  /\ pc[l] = "done" /\ outcome[l] # "cancelled"
  /\ outcome' = [outcome EXCEPT ![f] = outcome[l]]
  /\ UNCHANGED <<channel, inflight, waited, prompts, limiter, others>>

\* Fault variant: a dismissed prompt is asked again by every follower.
RetryDismissed(f) ==
  LET l == channel[f] IN
  /\ Goto(f, "following", "asking")
  /\ \/ pc[l] = "done" /\ outcome[l] \in {"cancelled", "dismissed"}
     \/ pc[l] = "gone"
  /\ UNCHANGED <<channel, outcome, inflight, waited, prompts, limiter, others>>

\* ... or the leader's end without one: ask again.
Retry(f) ==
  LET l == channel[f] IN
  /\ Goto(f, "following", "asking")
  /\ \/ pc[l] = "done" /\ outcome[l] = "cancelled"
     \/ pc[l] = "gone"
  /\ UNCHANGED <<channel, outcome, inflight, waited, prompts, limiter, others>>

-----------------------------------------------------------------------------
(* The other threads: operators, retirement, the guest's sockets, time     *)

\* decide(): take the request out and answer its oneshot.  The send fails,
\* and decide() returns false, if nothing waits for it any more.
Decide(f, a) ==
  /\ f \in pending
  /\ pending' = pending \ {f}
  /\ answer' = IF pc[f] = "prompting" THEN [answer EXCEPT ![f] = a] ELSE answer
  /\ UNCHANGED <<protocol, timer, screen, shown, limiter, others>>

Forget(s) ==
  /\ recent' = [recent EXCEPT ![s] = {}]
  /\ age' = [f \in Flows |-> IF SandboxOf(f) = s THEN Window ELSE age[f]]

\* reset(), from `net resume`.
Reset(s) ==
  /\ recent[s] # {}
  /\ Forget(s)
  /\ UNCHANGED <<protocol, prompts, others>>

\* Broker::retire() cancels the registration's token, which every flow's
\* token is a child of ...
CancelEntry(e) ==
  /\ stage[e] = "live"
  /\ stage' = [stage EXCEPT ![e] = "cancelling"]
  /\ cancelled' = cancelled \cup {f \in Flows : EntryOf[f] = e}
  /\ UNCHANGED <<protocol, prompts, limiter, deployment>>

\* Fault variant: requests of other sandboxes are answered too.
DrainEverything(e) ==
  /\ stage[e] = "cancelling"
  /\ stage' = [stage EXCEPT ![e] = "draining"]
  /\ pending' = {}
  /\ answer' = [f \in Flows |-> IF f \in pending /\ pc[f] = "prompting"
                                THEN "cancelled" ELSE answer[f]]
  /\ UNCHANGED <<protocol, timer, screen, shown, limiter, cancelled, deployment>>

\* ... then cancel_sandbox() answers every pending request of that *name* ...
DrainPending(e) ==
  LET mine == {f \in pending : SandboxOf(f) = NameOf[e]} IN
  /\ stage[e] = "cancelling"
  /\ stage' = [stage EXCEPT ![e] = "draining"]
  /\ pending' = pending \ mine
  /\ answer' = [f \in Flows |-> IF f \in mine /\ pc[f] = "prompting"
                                THEN "cancelled" ELSE answer[f]]
  /\ UNCHANGED <<protocol, timer, screen, shown, limiter, cancelled, deployment>>

\* ... and forgets the name's prompt history.
ResetRetired(e) ==
  /\ stage[e] = "draining"
  /\ stage' = [stage EXCEPT ![e] = "retired"]
  /\ Forget(NameOf[e])
  /\ UNCHANGED <<protocol, prompts, cancelled, deployment>>

\* A UDP association closes: its token fires, its ask() runs on.
CloseAssociation(f) ==
  /\ f \notin Tcp \cup cancelled
  /\ pc[f] \notin Settled
  /\ cancelled' = cancelled \cup {f}
  /\ UNCHANGED <<protocol, prompts, limiter, stage, deployment>>

\* A TCP client hangs up while ask() waits: connect()'s select! takes the
\* client_gone branch and drops the ask() future where it stands.
HangUp(f) ==
  /\ f \in Tcp
  /\ pc[f] \in {"following", "prompting"}
  /\ pc' = [pc EXCEPT ![f] = "gone"]
  /\ DropPrompt(f)
  /\ UNCHANGED <<channel, outcome, inflight, waited, pending, answer, limiter,
                 others>>

\* Fault variant: the remaining time underflows.
TickPastDeadline ==
  /\ \E f \in Flows : pc[f] = "prompting" \/ age[f] < Window
  /\ timer' = [f \in Flows |-> IF pc[f] = "prompting" THEN timer[f] - 1 ELSE timer[f]]
  /\ age' = [f \in Flows |-> IF age[f] < Window THEN age[f] + 1 ELSE age[f]]
  /\ UNCHANGED <<protocol, pending, answer, screen, shown, recent, others>>

Tick ==
  /\ \/ \E f \in Flows : pc[f] = "prompting" /\ timer[f] > 0
     \/ \E f \in Flows : age[f] < Window
  /\ timer' = [f \in Flows |-> IF pc[f] = "prompting" /\ timer[f] > 0
                               THEN timer[f] - 1 ELSE timer[f]]
  /\ age' = [f \in Flows |-> IF age[f] < Window THEN age[f] + 1 ELSE age[f]]
  /\ UNCHANGED <<protocol, pending, answer, screen, shown, recent, others>>

-----------------------------------------------------------------------------
\* What a flow's own task does next, human answers aside.
Run(f) ==
  \/ LeadAndPrompt(f) \/ LeadLimited(f) \/ LeadHeadless(f) \/ Follow(f)
  \/ Finish(f) \/ FollowCancelled(f) \/ Inherit(f) \/ Retry(f)

Retire(e) == CancelEntry(e) \/ DrainPending(e) \/ ResetRetired(e)

\* Every flow has been served: nothing is left to do.
AllServed ==
  /\ \A f \in Flows : pc[f] \in Settled
  /\ UNCHANGED vars

Next ==
  \/ \E f \in Flows :
       \/ Run(f) \/ TakeScreen(f) \/ Show(f) \/ Resolve(f)
       \/ CloseAssociation(f) \/ HangUp(f)
       \/ \E a \in Answers : Decide(f, a)
  \/ \E e \in Entries : Retire(e)
  \/ \E s \in Names : Reset(s)
  \/ Tick
  \/ AllServed

Spec == Init /\ [][Next]_vars

\* A prompt that needs no human any more: answered, expired or cancelled.
Due(f) == answer[f] # "none" \/ timer[f] = 0 \/ f \in cancelled

\* The runtime polls every task that is ready and time passes; no human, no
\* guest and no CLI has to act.  select! polls its branches in random order,
\* so a follower that waits over and over sees its cancellation in the end.
Fairness ==
  /\ \A f \in Flows : /\ WF_vars(Run(f)) /\ WF_vars(Due(f) /\ Resolve(f))
                      /\ SF_vars(FollowCancelled(f))
  /\ WF_vars(Tick)

FairSpec == Spec /\ Fairness

-----------------------------------------------------------------------------
(* Safety                                                                  *)

\* Flows to one destination share one approval: between winning the election
\* and giving the key up, a leader is alone on its (sandbox, subject) key.
OneLeaderPerKey ==
  \A f, g \in Flows :
    pc[f] \in Leading /\ pc[g] \in Leading /\ KeyOf(f) = KeyOf(g) => f = g

\* Dialogs are shown strictly one at a time across all sandboxes, and the
\* screen is never held by a request that ended, in whatever way it ended.
OneDialog ==
  /\ \A f, g \in shown : f = g
  /\ \A f \in shown \cup ({screen} \ {NoFlow}) : pc[f] = "prompting"

\* A follower returns what its leader was told, and it leads a prompt of its
\* own only when every leader it waited for died without an answer.
FollowersShareTheAnswer ==
  \A f \in Flows : \A l \in waited[f] :
    /\ pc[f] = "done" /\ channel[f] = l /\ outcome[f] # "cancelled"
         => pc[l] = "done" /\ outcome[f] = outcome[l]
    /\ pc[f] \in Leading => pc[l] = "gone" \/ outcome[l] = "cancelled"

\* A flow is cancelled only by its own end or a retirement of its own sandbox
\* name; the cancellation of another flow never leaks into its outcome.
CancelledForCause ==
  \A f \in Flows : outcome[f] = "cancelled" =>
    \/ f \in cancelled
    \/ \E e \in Entries : NameOf[e] = SandboxOf(f) /\ stage[e] # "live"

\* Prompts that reached a human within the window, as long as nobody reset it.
InWindow(s) == {f \in Flows : SandboxOf(f) = s /\ age[f] < Window}

\* The rate limit bounds what reaches a human: in any window no more than
\* MaxPrompts prompts of one sandbox, unless the limit was reset in between.
BurstBounded == \A s \in Names : Cardinality(InWindow(s)) <= MaxPrompts

\* The limit never trips early: a flow is refused only after MaxPrompts
\* requests of its sandbox reached a human within the window, coalesced ones
\* counting once.
NoSpuriousLimit ==
  [][\A f \in Flows : LeadLimited(f) =>
       Cardinality(InWindow(SandboxOf(f))) >= MaxPrompts]_vars

\* What `net pending` lists still waits for the answer, whichever way the
\* others ended; only a CONNECT client's hang-up leaves its request behind.
ListedIsAlive ==
  \A f \in pending : pc[f] = "prompting" \/ (f \in Tcp /\ pc[f] = "gone")

-----------------------------------------------------------------------------
(* Liveness                                                                *)

\* The only way to wait for ever is behind a leader whose CONNECT client hung
\* up: ask() was dropped before it could give the key up.  Neither end is
\* ever left, so all flows reach theirs together.
Orphaned(k) == inflight[k] # NoFlow /\ pc[inflight[k]] = "gone"
AnsweredUnlessOrphaned ==
  <>(\A f \in Flows : pc[f] \in Settled \/ Orphaned(KeyOf(f)))
=============================================================================
