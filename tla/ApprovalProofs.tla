--------------------------- MODULE ApprovalProofs ---------------------------
(***************************************************************************)
(* Theorems about the approval queue, for every set of flows, sandboxes    *)
(* and settings.  The argument: a leader is the flow its key is registered *)
(* for (Registered), so no two lead one key; a follower's channel belongs  *)
(* to a leader of the same key (Channels); every leader a flow has left    *)
(* behind is dead (LeftBehind); the screen belongs to the prompt shown on  *)
(* it (Screened); who is told "cancelled" ended or retires (SentForCause); *)
(* what is in the window is in its sandbox's history (Counted).            *)
(***************************************************************************)
EXTENDS ApprovalRefinement, FiniteSetTheorems, TLAPS

\* Types, and that a follower follows somebody.
Typed ==
  /\ TypeOK
  /\ \A f \in Flows : pc[f] = "following" => channel[f] \in Flows

Dead(l) == pc[l] = "gone" \/ (pc[l] = "done" /\ outcome[l] = "cancelled")

Registered ==
  /\ \A f \in Flows : pc[f] \in Leading =>
       channel[f] = f /\ inflight[KeyOf(f)] = f
  /\ \A k \in Keys : inflight[k] # NoFlow =>
       /\ KeyOf(inflight[k]) = k
       /\ channel[inflight[k]] = inflight[k]

Channels ==
  \A f \in Flows :
    /\ channel[f] = f => pc[f] \in Leading \cup Settled
    /\ pc[f] = "following" =>
         /\ channel[f] \in Flows
         /\ KeyOf(channel[f]) = KeyOf(f)
         /\ channel[channel[f]] = channel[f]
    /\ pc[f] \in {"closing", "done"} => outcome[f] # "none"

LeftBehind ==
  \A f \in Flows : \A l \in waited[f] :
    /\ pc[f] \in {"asking"} \cup Leading => Dead(l)
    /\ pc[f] = "following" /\ channel[f] # l => Dead(l)
    /\ pc[f] = "done" /\ channel[f] = l /\ outcome[f] # "cancelled"
         => pc[l] = "done" /\ outcome[f] = outcome[l]

Screened ==
  /\ \A f \in shown : screen = f
  /\ screen # NoFlow => screen \in Flows /\ pc[screen] = "prompting"

-----------------------------------------------------------------------------
LEMMA KeyTyping == \A f \in Flows : KeyOf(f) \in Keys
BY FlowAssumption DEF KeyOf, Keys, SandboxOf

\* Every step keeps the types, and a follower never follows nobody.
LEMMA Typing == Spec => []Typed
<1> USE FlowAssumption, SettingsAssumption
<1>1. Init => Typed
  BY DEF Init, Typed, TypeOK, Points, Stages
<1>2. Typed /\ [Next]_vars => Typed'
  <2> SUFFICES ASSUME Typed, [Next]_vars PROVE Typed'
    OBVIOUS
  <2> USE DEF Typed, TypeOK, Points, Leading, Settled, Stages, Outcomes,
              protocol, prompts, limiter, others
  <2>1. ASSUME NEW f \in Flows, LeadAndPrompt(f) PROVE Typed'
    <3>1. SandboxOf(f) \in Names
      BY DEF SandboxOf
    <3> QED
      BY <2>1, <3>1, KeyTyping DEF LeadAndPrompt, Lead, Goto, Pruned
  <2>2. ASSUME NEW f \in Flows, LeadLimited(f) PROVE Typed'
    BY <2>2, KeyTyping DEF LeadLimited, Lead, Goto, Pruned
  <2>3. ASSUME NEW f \in Flows, LeadHeadless(f) PROVE Typed'
    BY <2>3, KeyTyping DEF LeadHeadless, Lead, Goto
  <2>4. ASSUME NEW f \in Flows, Follow(f) PROVE Typed'
    BY <2>4, KeyTyping DEF Follow, Goto
  <2>5. ASSUME NEW f \in Flows, Finish(f) PROVE Typed'
    BY <2>5 DEF Finish, Goto
  <2>6. ASSUME NEW f \in Flows,
               FollowCancelled(f) \/ Inherit(f) \/ Retry(f) PROVE Typed'
    <3>1. CASE FollowCancelled(f)
      BY <3>1 DEF FollowCancelled, Goto
    <3>2. CASE Inherit(f)
      <4>1. channel[f] \in Flows
        BY <3>2 DEF Inherit, Goto
      <4> QED
        BY <3>2, <4>1 DEF Inherit, Goto
    <3>3. CASE Retry(f)
      BY <3>3 DEF Retry, Goto
    <3> QED
      BY <2>6, <3>1, <3>2, <3>3
  <2>7. ASSUME NEW f \in Flows, TakeScreen(f) \/ Show(f) PROVE Typed'
    BY <2>7 DEF TakeScreen, Show
  <2>8. ASSUME NEW f \in Flows, Resolve(f) PROVE Typed'
    <3>1. Ready(f) \subseteq Outcomes
      BY DEF Ready, DialogEnds
    <3> QED
      BY <2>8, <3>1 DEF Resolve, DropPrompt, Goto
  <2>9. ASSUME NEW f \in Flows, HangUp(f) PROVE Typed'
    BY <2>9 DEF HangUp, DropPrompt
  <2>10. ASSUME NEW f \in Flows, CloseAssociation(f) PROVE Typed'
    BY <2>10 DEF CloseAssociation
  <2>11. ASSUME NEW f \in Flows, NEW a \in Answers, Decide(f, a) PROVE Typed'
    BY <2>11 DEF Decide
  <2>12. ASSUME NEW e \in Entries, Retire(e) PROVE Typed'
    <3>1. CASE CancelEntry(e)
      BY <3>1 DEF CancelEntry
    <3>2. CASE DrainPending(e)
      BY <3>2 DEF DrainPending
    <3>3. CASE ResetRetired(e)
      BY <3>3 DEF ResetRetired, Forget
    <3> QED
      BY <2>12, <3>1, <3>2, <3>3 DEF Retire
  <2>13. ASSUME NEW s \in Names, Reset(s) PROVE Typed'
    BY <2>13 DEF Reset, Forget
  <2>14. CASE Tick
    BY <2>14 DEF Tick
  <2>15. CASE AllServed \/ UNCHANGED vars
    BY <2>15 DEF AllServed, vars
  <2> QED
    BY <2>1, <2>2, <2>3, <2>4, <2>5, <2>6, <2>7, <2>8, <2>9, <2>10, <2>11,
       <2>12, <2>13, <2>14, <2>15 DEF Next, Run
<1> QED
  BY <1>1, <1>2, PTL DEF Spec

\* Type correctness of the approval queue.
THEOREM TypeCorrect == Spec => []TypeOK
<1>1. Typed => TypeOK
  BY DEF Typed
<1> QED
  BY <1>1, Typing, PTL

-----------------------------------------------------------------------------
\* The screen belongs to a prompt that still waits, and so does every dialog.
LEMMA ScreenedInductive == Screened /\ Typed /\ [Next]_vars => Screened'
<1> SUFFICES ASSUME Screened, Typed, [Next]_vars PROVE Screened'
  OBVIOUS
<1> USE FlowAssumption
<1> USE DEF Screened, Typed, TypeOK, protocol, prompts, limiter, others
<1>1. ASSUME NEW f \in Flows, Run(f) PROVE Screened'
  <2>1. UNCHANGED <<screen, shown>> /\ pc[f] # "prompting"
        /\ \A g \in Flows \ {f} : pc'[g] = pc[g]
    BY <1>1 DEF Run, LeadAndPrompt, LeadLimited, LeadHeadless, Follow, Finish,
                FollowCancelled, Inherit, Retry, Goto
  <2> QED
    BY <2>1
<1>2. ASSUME NEW f \in Flows, TakeScreen(f) \/ Show(f) PROVE Screened'
  BY <1>2 DEF TakeScreen, Show
<1>3. ASSUME NEW f \in Flows, Resolve(f) \/ HangUp(f) PROVE Screened'
  <2>1. DropPrompt(f) /\ \A g \in Flows \ {f} : pc'[g] = pc[g]
    BY <1>3 DEF Resolve, HangUp, Goto
  <2> QED
    BY <2>1 DEF DropPrompt
<1>4. ASSUME NEW f \in Flows, CloseAssociation(f) PROVE Screened'
  BY <1>4 DEF CloseAssociation
<1>5. ASSUME NEW f \in Flows, NEW a \in Answers, Decide(f, a) PROVE Screened'
  BY <1>5 DEF Decide
<1>6. ASSUME NEW e \in Entries, Retire(e) PROVE Screened'
  BY <1>6 DEF Retire, CancelEntry, DrainPending, ResetRetired, Forget
<1>7. ASSUME NEW s \in Names, Reset(s) PROVE Screened'
  BY <1>7 DEF Reset, Forget
<1>8. CASE Tick \/ AllServed \/ UNCHANGED vars
  BY <1>8 DEF Tick, AllServed, vars
<1> QED
  BY <1>1, <1>2, <1>3, <1>4, <1>5, <1>6, <1>7, <1>8 DEF Next

\* At most one dialog is on the desktop, for however many sandboxes, and the
\* screen is never left with a request that was answered, timed out or died.
THEOREM DialogsOneAtATime == Spec => []OneDialog
<1>1. Init => Screened
  BY DEF Init, Screened
<1>2. Screened /\ Typed => OneDialog
  BY FlowAssumption DEF Screened, OneDialog, Typed, TypeOK
<1> QED
  BY <1>1, <1>2, ScreenedInductive, Typing, PTL DEF Spec

-----------------------------------------------------------------------------
\* Who leads a key is who the key is registered for.
LEMMA RegisteredInductive ==
  Registered /\ Channels /\ Typed /\ [Next]_vars => Registered'
<1> SUFFICES ASSUME Registered, Channels, Typed, [Next]_vars PROVE Registered'
  OBVIOUS
<1> USE FlowAssumption, KeyTyping
<1> USE DEF Registered, Typed, TypeOK, Leading, protocol, prompts, limiter, others
<1>1. ASSUME NEW f \in Flows, Lead(f),
             pc[f] = "asking", \A g \in Flows \ {f} : pc'[g] = pc[g]
      PROVE  Registered'
  <2>1. \A k \in Keys : inflight[k] # NoFlow => inflight[k] # f
    BY <1>1 DEF Channels, Settled
  <2> QED
    BY <1>1, <2>1 DEF Lead, KeyOf, SandboxOf
<1>2. ASSUME NEW f \in Flows, LeadAndPrompt(f) \/ LeadLimited(f) \/ LeadHeadless(f)
      PROVE  Registered'
  BY <1>1, <1>2 DEF LeadAndPrompt, LeadLimited, LeadHeadless, Goto
<1>3. ASSUME NEW f \in Flows, Follow(f) PROVE Registered'
  <2>1. \A k \in Keys : inflight[k] # NoFlow => inflight[k] # f
    BY <1>3 DEF Follow, Goto, Channels, Settled
  <2> QED
    BY <1>3, <2>1 DEF Follow, Goto, KeyOf, SandboxOf
<1>4. ASSUME NEW f \in Flows, Finish(f) PROVE Registered'
  <2>1. \A g \in Flows \ {f} : pc[g] \in Leading => KeyOf(g) # KeyOf(f)
    BY <1>4 DEF Finish, Goto
  <2> QED
    BY <1>4, <2>1 DEF Finish, Goto, KeyOf, SandboxOf
<1>5. ASSUME NEW f \in Flows,
             \/ FollowCancelled(f) \/ Inherit(f) \/ Retry(f)
             \/ TakeScreen(f) \/ Show(f) \/ Resolve(f) \/ HangUp(f)
             \/ CloseAssociation(f)
      PROVE  Registered'
  <2>1. /\ UNCHANGED <<inflight, channel>>
        /\ \A g \in Flows : pc'[g] \in Leading => pc[g] \in Leading
    BY <1>5 DEF FollowCancelled, Inherit, Retry, TakeScreen, Show, Resolve,
                HangUp, CloseAssociation, Goto
  <2> QED
    BY <2>1 DEF KeyOf, SandboxOf
<1>6. CASE \/ \E f \in Flows, a \in Answers : Decide(f, a)
           \/ \E e \in Entries : Retire(e)
           \/ \E s \in Names : Reset(s)
           \/ Tick \/ AllServed \/ UNCHANGED vars
  <2>1. UNCHANGED <<pc, inflight, channel>>
    BY <1>6 DEF Decide, Retire, CancelEntry, DrainPending, ResetRetired, Reset,
                Tick, AllServed, vars
  <2> QED
    BY <2>1 DEF KeyOf, SandboxOf
<1> QED
  BY <1>2, <1>3, <1>4, <1>5, <1>6 DEF Next, Run

\* A follower's channel is a leader's of its own key.
LEMMA ChannelsInductive ==
  Registered /\ Channels /\ Typed /\ [Next]_vars => Channels'
<1> SUFFICES ASSUME Registered, Channels, Typed, [Next]_vars PROVE Channels'
  OBVIOUS
<1> USE FlowAssumption, SettingsAssumption, KeyTyping
<1> USE DEF Channels, Typed, TypeOK, Leading, Settled, protocol, prompts,
            limiter, others
<1>1. ASSUME NEW f \in Flows, LeadAndPrompt(f) \/ LeadLimited(f) \/ LeadHeadless(f)
      PROVE  Channels'
  <2>1. /\ pc[f] = "asking" /\ pc' \in [Flows -> Points]
        /\ pc'[f] = "prompting" \/ (pc'[f] = "closing" /\ outcome'[f] # "none")
        /\ channel' = [channel EXCEPT ![f] = f]
        /\ \A g \in Flows \ {f} : pc'[g] = pc[g] /\ outcome'[g] = outcome[g]
    BY <1>1 DEF LeadAndPrompt, LeadLimited, LeadHeadless, Lead, Goto, Points
  <2> QED
    BY <2>1 DEF KeyOf, SandboxOf
<1>2. ASSUME NEW f \in Flows, Follow(f) PROVE Channels'
  <2> DEFINE l == inflight[KeyOf(f)]
  <2>1. /\ l \in Flows \ {f} /\ KeyOf(l) = KeyOf(f) /\ channel[l] = l
        /\ pc[f] = "asking"
    BY <1>2 DEF Follow, Goto, Registered
  <2> QED
    BY <1>2, <2>1 DEF Follow, Goto, KeyOf, SandboxOf
<1>3. ASSUME NEW f \in Flows,
             FollowCancelled(f) \/ Inherit(f) \/ Retry(f) \/ Finish(f) \/ HangUp(f)
      PROVE  Channels'
  <2>1. /\ UNCHANGED channel
        /\ \A g \in Flows \ {f} : pc'[g] = pc[g] /\ outcome'[g] = outcome[g]
        /\ \/ pc[f] = "following" /\ pc'[f] \in {"asking", "gone"}
           \/ pc[f] = "following" /\ pc'[f] = "done" /\ outcome'[f] # "none"
           \/ pc[f] = "prompting" /\ pc'[f] = "gone"
           \/ pc[f] = "closing" /\ pc'[f] = "done" /\ outcome'[f] = outcome[f]
    BY <1>3 DEF FollowCancelled, Inherit, Retry, Finish, HangUp, Goto
  <2> QED
    BY <2>1 DEF KeyOf, SandboxOf
<1>4. ASSUME NEW f \in Flows, Resolve(f) PROVE Channels'
  <2>1. "none" \notin Ready(f)
    BY DEF Ready, DialogEnds
  <2> QED
    BY <1>4, <2>1 DEF Resolve, Goto, KeyOf, SandboxOf
<1>5. CASE \/ \E f \in Flows : TakeScreen(f) \/ Show(f) \/ CloseAssociation(f)
           \/ \E f \in Flows, a \in Answers : Decide(f, a)
           \/ \E e \in Entries : Retire(e)
           \/ \E s \in Names : Reset(s)
           \/ Tick \/ AllServed \/ UNCHANGED vars
  <2>1. UNCHANGED <<pc, outcome, channel>>
    BY <1>5 DEF TakeScreen, Show, CloseAssociation, Decide, Retire, CancelEntry,
                DrainPending, ResetRetired, Reset, Tick, AllServed, vars
  <2> QED
    BY <2>1 DEF KeyOf, SandboxOf
<1> QED
  BY <1>1, <1>2, <1>3, <1>4, <1>5 DEF Next, Run

LEMMA Coalesced == Spec => [](Registered /\ Channels)
<1>1. Init => Registered /\ Channels
  BY KeyTyping, FlowAssumption DEF Init, Registered, Channels, Leading, Settled
<1> QED
  BY <1>1, RegisteredInductive, ChannelsInductive, Typing, PTL DEF Spec

\* Concurrent flows to one destination share one request: at any time at most
\* one flow leads a (sandbox, subject) key.
THEOREM OneLeader == Spec => []OneLeaderPerKey
<1>1. Registered => OneLeaderPerKey
  BY DEF Registered, OneLeaderPerKey
<1> QED
  BY <1>1, Coalesced, PTL

-----------------------------------------------------------------------------
\* What happened to a flow that is done or gone stays so.
LEMMA SettledForGood ==
  ASSUME Typed, [Next]_vars, NEW l \in Flows, pc[l] \in Settled
  PROVE  pc'[l] = pc[l] /\ outcome'[l] = outcome[l]
<1> USE DEF Typed, TypeOK, Settled, protocol, prompts, limiter, others
<1>1. ASSUME NEW f \in Flows, Run(f) PROVE pc'[l] = pc[l] /\ outcome'[l] = outcome[l]
  BY <1>1 DEF Run, LeadAndPrompt, LeadLimited, LeadHeadless, Follow, Finish,
              FollowCancelled, Inherit, Retry, Goto
<1>2. ASSUME NEW f \in Flows, TakeScreen(f) \/ Show(f) \/ Resolve(f) \/ HangUp(f)
      PROVE  pc'[l] = pc[l] /\ outcome'[l] = outcome[l]
  BY <1>2 DEF TakeScreen, Show, Resolve, HangUp, Goto
<1>3. CASE \/ \E f \in Flows : CloseAssociation(f)
           \/ \E f \in Flows, a \in Answers : Decide(f, a)
           \/ \E e \in Entries : Retire(e)
           \/ \E s \in Names : Reset(s)
           \/ Tick \/ AllServed \/ UNCHANGED vars
  BY <1>3 DEF CloseAssociation, Decide, Retire, CancelEntry, DrainPending,
              ResetRetired, Reset, Tick, AllServed, vars
<1> QED
  BY <1>1, <1>2, <1>3 DEF Next

LEMMA LeftBehindInductive ==
  LeftBehind /\ Registered /\ Channels /\ Typed /\ [Next]_vars => LeftBehind'
<1> SUFFICES ASSUME LeftBehind, Registered, Channels, Typed, [Next]_vars,
                    NEW f \in Flows
             PROVE  (\A l \in waited[f] :
                      /\ pc[f] \in {"asking"} \cup Leading => Dead(l)
                      /\ pc[f] = "following" /\ channel[f] # l => Dead(l)
                      /\ pc[f] = "done" /\ channel[f] = l /\ outcome[f] # "cancelled"
                           => pc[l] = "done" /\ outcome[f] = outcome[l])'
  BY DEF LeftBehind
<1> USE DEF Typed, TypeOK, Leading, Settled, protocol, prompts, limiter, others
<1>1. \A l \in Flows : Dead(l) => Dead(l)'
  BY SettledForGood DEF Dead
<1>2. \A l \in waited[f] : l \in Flows
  OBVIOUS
<1>3. CASE UNCHANGED <<pc[f], channel[f], waited[f], outcome[f]>>
  BY <1>1, <1>2, <1>3, SettledForGood DEF LeftBehind
<1>4. CASE pc[f] = "asking" /\ pc'[f] \in Leading /\ waited'[f] = waited[f]
  BY <1>1, <1>2, <1>4 DEF LeftBehind
<1>5. CASE Follow(f)
  BY <1>1, <1>2, <1>5 DEF LeftBehind, Follow, Goto
<1>6. CASE Retry(f)
  BY <1>1, <1>2, <1>6 DEF LeftBehind, Retry, Goto, Dead
<1>7. CASE Inherit(f)
  BY <1>2, <1>7, SettledForGood DEF Inherit, Goto
<1>8. CASE FollowCancelled(f)
  BY <1>8 DEF FollowCancelled, Goto
<1>9. CASE Resolve(f)
  BY <1>1, <1>2, <1>9 DEF LeftBehind, Resolve, Goto
<1>10. CASE Finish(f)
  <2>1. f \notin waited[f] /\ channel[f] = f
    BY <1>10 DEF LeftBehind, Finish, Goto, Dead, Registered
  <2> QED
    BY <1>10, <2>1 DEF Finish, Goto
<1>11. CASE HangUp(f)
  BY <1>11 DEF HangUp
<1>12. ASSUME NEW g \in Flows, Run(g) \/ Resolve(g) \/ HangUp(g), g # f
       PROVE  UNCHANGED <<pc[f], channel[f], waited[f], outcome[f]>>
  BY <1>12 DEF Run, LeadAndPrompt, LeadLimited, LeadHeadless, Lead, Follow, Finish,
               FollowCancelled, Inherit, Retry, Resolve, HangUp, Goto
<1>13. CASE LeadAndPrompt(f) \/ LeadLimited(f) \/ LeadHeadless(f)
  BY <1>4, <1>13 DEF LeadAndPrompt, LeadLimited, LeadHeadless, Lead, Goto
<1>14. CASE \/ \E g \in Flows : TakeScreen(g) \/ Show(g) \/ CloseAssociation(g)
            \/ \E g \in Flows, a \in Answers : Decide(g, a)
            \/ \E e \in Entries : Retire(e)
            \/ \E s \in Names : Reset(s)
            \/ Tick \/ AllServed \/ UNCHANGED vars
  BY <1>3, <1>14 DEF TakeScreen, Show, CloseAssociation, Decide, Retire, CancelEntry,
                     DrainPending, ResetRetired, Reset, Tick, AllServed, vars
<1> QED
  BY <1>3, <1>5, <1>6, <1>7, <1>8, <1>9, <1>10, <1>11, <1>12, <1>13, <1>14
     DEF Next, Run

\* Followers return what their leader was told, and ask a human again only if
\* every leader they waited for died without an answer.
THEOREM AnswersShared == Spec => []FollowersShareTheAnswer
<1>1. Init => LeftBehind
  BY DEF Init, LeftBehind
<1>2. LeftBehind => FollowersShareTheAnswer
  BY DEF LeftBehind, FollowersShareTheAnswer, Dead
<1> QED
  BY <1>1, <1>2, LeftBehindInductive, Coalesced, Typing, PTL DEF Spec

-----------------------------------------------------------------------------
\* What is listed is somebody's prompt, until a CONNECT client hangs up.
LEMMA ListedInductive == ListedIsAlive /\ Typed /\ [Next]_vars => ListedIsAlive'
<1> SUFFICES ASSUME ListedIsAlive, Typed, [Next]_vars PROVE ListedIsAlive'
  OBVIOUS
<1> USE DEF ListedIsAlive, Typed, TypeOK, protocol, prompts, limiter, others
<1>1. ASSUME NEW f \in Flows, LeadAndPrompt(f) PROVE ListedIsAlive'
  BY <1>1 DEF LeadAndPrompt, Goto
<1>2. ASSUME NEW f \in Flows, Run(f), ~LeadAndPrompt(f) PROVE ListedIsAlive'
  <2>1. UNCHANGED pending /\ pc[f] \notin {"prompting", "gone"}
        /\ \A g \in Flows \ {f} : pc'[g] = pc[g]
    BY <1>2 DEF Run, LeadLimited, LeadHeadless, Follow, Finish, FollowCancelled,
                Inherit, Retry, Goto
  <2> QED
    BY <2>1
<1>3. ASSUME NEW f \in Flows, Resolve(f) PROVE ListedIsAlive'
  BY <1>3 DEF Resolve, Goto
<1>4. ASSUME NEW f \in Flows, HangUp(f) PROVE ListedIsAlive'
  BY <1>4 DEF HangUp
<1>5. CASE \/ \E f \in Flows : TakeScreen(f) \/ Show(f) \/ CloseAssociation(f)
           \/ \E f \in Flows, a \in Answers : Decide(f, a)
           \/ \E e \in Entries : Retire(e)
           \/ \E s \in Names : Reset(s)
           \/ Tick \/ AllServed \/ UNCHANGED vars
  <2>1. UNCHANGED pc /\ pending' \subseteq pending
    BY <1>5 DEF TakeScreen, Show, CloseAssociation, Decide, Retire, CancelEntry,
                DrainPending, ResetRetired, Reset, Tick, AllServed, vars
  <2> QED
    BY <2>1
<1> QED
  BY <1>1, <1>2, <1>3, <1>4, <1>5 DEF Next

\* `net pending` lists no request that ended, whichever way it did, but for
\* those whose CONNECT client hung up.
THEOREM ListedAlive == Spec => []ListedIsAlive
<1>1. Init => ListedIsAlive
  BY DEF Init, ListedIsAlive
<1> QED
  BY <1>1, ListedInductive, Typing, PTL DEF Spec

-----------------------------------------------------------------------------
(* Cancellations.  A oneshot that says "cancelled" was sent by             *)
(* cancel_sandbox(), which only a retirement calls.                        *)

Retiring(f) == \E e \in Entries : NameOf[e] = SandboxOf(f) /\ stage[e] # "live"

SentForCause ==
  /\ \A f \in Flows : answer[f] = "cancelled" => Retiring(f)
  /\ \A f \in Flows : outcome[f] = "cancelled" => f \in cancelled \/ Retiring(f)

LEMMA RetiringForGood ==
  ASSUME Typed, [Next]_vars, NEW f \in Flows
  PROVE  (Retiring(f) => Retiring(f)') /\ cancelled \subseteq cancelled'
<1>1. \A e \in Entries : stage[e] # "live" => stage'[e] # "live"
  BY DEF Typed, TypeOK, Next, Run, LeadAndPrompt, LeadLimited, LeadHeadless, Follow,
         Finish, FollowCancelled, Inherit, Retry, TakeScreen, Show, Resolve, HangUp,
         CloseAssociation, Decide, Retire, CancelEntry, DrainPending, ResetRetired, Reset,
         Tick, AllServed, vars, others
<1>2. cancelled \subseteq cancelled'
  BY DEF Next, Run, LeadAndPrompt, LeadLimited, LeadHeadless, Follow,
         Finish, FollowCancelled, Inherit, Retry, TakeScreen, Show, Resolve, HangUp,
         CloseAssociation, Decide, Retire, CancelEntry, DrainPending, ResetRetired, Reset,
         Tick, AllServed, vars, others
<1> QED
  BY <1>1, <1>2 DEF Retiring, SandboxOf

LEMMA SentInductive == SentForCause /\ Typed /\ [Next]_vars => SentForCause'
<1> SUFFICES ASSUME SentForCause, Typed, [Next]_vars, NEW g \in Flows
             PROVE  /\ answer'[g] = "cancelled" => Retiring(g)'
                    /\ outcome'[g] = "cancelled" => g \in cancelled' \/ Retiring(g)'
  BY DEF SentForCause
<1> USE DEF Typed, TypeOK, protocol, prompts, limiter, others
<1>1. /\ Retiring(g) => Retiring(g)'
      /\ g \in cancelled => g \in cancelled'
      /\ answer[g] = "cancelled" => Retiring(g)
      /\ outcome[g] = "cancelled" => g \in cancelled \/ Retiring(g)
  BY RetiringForGood DEF SentForCause
<1>2. ASSUME NEW f \in Flows, Run(f)
      PROVE  answer'[g] = answer[g] /\ (outcome'[g] = "cancelled" => outcome[g] = "cancelled" \/ g \in cancelled)
  BY <1>2 DEF Run, LeadAndPrompt, LeadLimited, LeadHeadless, Follow, Finish,
              FollowCancelled, Inherit, Retry
<1>3. ASSUME NEW f \in Flows, Resolve(f)
      PROVE  /\ answer'[g] = answer[g]
             /\ outcome'[g] = "cancelled" => outcome[g] = "cancelled" \/ answer[g] = "cancelled" \/ g \in cancelled
  <2>1. "cancelled" \in Ready(f) => answer[f] = "cancelled" \/ f \in cancelled
    BY SettingsAssumption DEF Ready, DialogEnds
  <2> QED
    BY <1>3, <2>1 DEF Resolve
<1>4. ASSUME NEW f \in Flows, NEW a \in Answers, Decide(f, a)
      PROVE  outcome'[g] = outcome[g] /\ (answer'[g] = "cancelled" => answer[g] = "cancelled")
  BY <1>4, SettingsAssumption DEF Decide
<1>5. ASSUME NEW e \in Entries, DrainPending(e)
      PROVE  outcome'[g] = outcome[g] /\ (answer'[g] = "cancelled" => answer[g] = "cancelled" \/ Retiring(g)')
  <2>1. stage'[e] # "live"
    BY <1>5 DEF DrainPending
  <2>2. answer'[g] = "cancelled" => answer[g] = "cancelled" \/ SandboxOf(g) = NameOf[e]
    BY <1>5 DEF DrainPending
  <2>3. SandboxOf(g)' = SandboxOf(g)
    BY DEF SandboxOf
  <2> QED
    BY <1>5, <2>1, <2>2, <2>3 DEF DrainPending, Retiring
<1>6. CASE \/ \E f \in Flows : TakeScreen(f) \/ Show(f) \/ CloseAssociation(f) \/ HangUp(f)
           \/ \E e \in Entries : CancelEntry(e) \/ ResetRetired(e)
           \/ \E s \in Names : Reset(s)
           \/ Tick \/ AllServed \/ UNCHANGED vars
  <2>1. UNCHANGED <<answer, outcome>>
    BY <1>6 DEF TakeScreen, Show, CloseAssociation, HangUp, CancelEntry, ResetRetired, Reset,
                Tick, AllServed, vars
  <2> QED
    BY <1>1, <2>1
<1> QED
  BY <1>1, <1>2, <1>3, <1>4, <1>5, <1>6 DEF Next, Retire

\* A cancellation never leaks: a flow is cancelled by its own end, or because
\* its own sandbox name retires.
THEOREM CancelledOnlyForCause == Spec => []CancelledForCause
<1>1. Init => SentForCause
  BY DEF Init, SentForCause
<1>2. SentForCause => CancelledForCause
  BY DEF SentForCause, Retiring, CancelledForCause
<1> QED
  BY <1>1, <1>2, SentInductive, Typing, PTL DEF Spec

-----------------------------------------------------------------------------
(* The rate limit.  What is in the window is in its sandbox's history, so  *)
(* count_prompt() sees all of it.                                          *)

History ==
  /\ \A s \in Names : IsFiniteSet(recent[s]) /\ \A f \in recent[s] : SandboxOf(f) = s
  /\ \A f \in Flows : age[f] < Window => f \in recent[SandboxOf(f)]

Counted == History /\ BurstBounded

LEMMA WindowIsPruned ==
  ASSUME History, Typed, NEW s \in Names
  PROVE  InWindow(s) = Pruned(s) /\ IsFiniteSet(InWindow(s)) /\ Cardinality(InWindow(s)) \in Nat
<1>1. InWindow(s) = Pruned(s)
  BY DEF InWindow, Pruned, History, Typed, TypeOK
<1>2. IsFiniteSet(Pruned(s))
  BY FS_Subset DEF Pruned, History
<1> QED
  BY <1>1, <1>2, FS_CardinalityType

\* A window that nothing enters stays within the limit.
LEMMA WindowShrinks ==
  ASSUME Counted, Typed, NEW s \in Names, NEW W \in SUBSET InWindow(s)
  PROVE  Cardinality(W) <= MaxPrompts
<1>1. IsFiniteSet(InWindow(s)) /\ Cardinality(InWindow(s)) <= MaxPrompts
  BY WindowIsPruned DEF Counted, BurstBounded
<1>2. IsFiniteSet(W) /\ Cardinality(W) <= Cardinality(InWindow(s))
  BY <1>1, FS_Subset
<1>3. Cardinality(W) \in Nat /\ Cardinality(InWindow(s)) \in Nat /\ MaxPrompts \in Nat
  BY <1>1, <1>2, FS_CardinalityType, SettingsAssumption
<1> QED
  BY <1>1, <1>2, <1>3

LEMMA CountedInductive == Counted /\ Typed /\ [Next]_vars => Counted'
<1> SUFFICES ASSUME Counted, Typed, [Next]_vars PROVE Counted'
  OBVIOUS
<1> USE DEF protocol, prompts, limiter, others
<1>0. /\ recent \in [Names -> SUBSET Flows] /\ age \in [Flows -> 0..Window]
      /\ Window \in Nat /\ MaxPrompts \in Nat /\ \A f \in Flows : SandboxOf(f) \in Names
  BY FlowAssumption, SettingsAssumption DEF Typed, TypeOK, SandboxOf
<1>1. ASSUME NEW f \in Flows, LeadAndPrompt(f) PROVE Counted'
  <2> DEFINE s == SandboxOf(f)
  <2>1. /\ recent' = [recent EXCEPT ![s] = Pruned(s) \cup {f}]
        /\ age' = [age EXCEPT ![f] = 0]
        /\ Cardinality(Pruned(s)) < MaxPrompts
    BY <1>1 DEF LeadAndPrompt
  <2>2. InWindow(s) = Pruned(s) /\ IsFiniteSet(Pruned(s)) /\ Cardinality(Pruned(s)) \in Nat
    BY <1>0, WindowIsPruned DEF Counted
  <2>3. IsFiniteSet(Pruned(s) \cup {f}) /\ Cardinality(Pruned(s) \cup {f}) <= MaxPrompts
    <3> DEFINE before == Pruned(s)
    <3> HIDE DEF before
    <3>1. IsFiniteSet(before) /\ Cardinality(before) \in Nat /\ Cardinality(before) < MaxPrompts
      BY <2>1, <2>2 DEF before
    <3>2. /\ IsFiniteSet(before \cup {f})
          /\ Cardinality(before \cup {f}) = IF f \in before THEN Cardinality(before) ELSE Cardinality(before) + 1
      BY <3>1, FS_AddElement
    <3>3. Cardinality(before \cup {f}) <= MaxPrompts
      BY <1>0, <3>1, <3>2
    <3> QED
      BY <3>2, <3>3 DEF before
  <2>4. History'
    <3>1. ASSUME NEW n \in Names
          PROVE  IsFiniteSet(recent'[n]) /\ \A g \in recent'[n] : SandboxOf(g) = n
      <4>1. CASE n = s
        BY <1>0, <2>1, <2>3, <4>1 DEF Counted, History, Pruned
      <4>2. CASE n # s
        BY <1>0, <2>1, <4>2 DEF Counted, History
      <4> QED
        BY <4>1, <4>2
    <3>2. ASSUME NEW g \in Flows, age'[g] < Window
          PROVE  g \in recent'[SandboxOf(g)]
      <4>1. CASE g = f
        BY <1>0, <2>1, <4>1
      <4>2. CASE g # f
        <5>1. age[g] < Window /\ g \in recent[SandboxOf(g)]
          BY <1>0, <2>1, <3>2, <4>2 DEF Counted, History
        <5> QED
          BY <1>0, <2>1, <5>1 DEF Pruned
      <4> QED
        BY <4>1, <4>2
    <3> QED
      BY <3>1, <3>2 DEF History, SandboxOf
  <2>5. ASSUME NEW n \in Names PROVE Cardinality(InWindow(n)') <= MaxPrompts
    <3>1. CASE n = s
      <4>1. InWindow(n)' \subseteq Pruned(s) \cup {f}
        BY <1>0, <2>1, <2>2, <3>1 DEF InWindow, SandboxOf
      <4>2. IsFiniteSet(InWindow(n)') /\ Cardinality(InWindow(n)') <= Cardinality(Pruned(s) \cup {f})
        BY <2>3, <4>1, FS_Subset
      <4>3. Cardinality(InWindow(n)') \in Nat /\ Cardinality(Pruned(s) \cup {f}) \in Nat
        BY <2>3, <4>2, FS_CardinalityType
      <4> QED
        BY <1>0, <2>3, <4>2, <4>3
    <3>2. CASE n # s
      <4>1. InWindow(n)' \subseteq InWindow(n)
        BY <1>0, <2>1, <3>2 DEF InWindow, SandboxOf
      <4> QED
        BY <4>1, WindowShrinks
    <3> QED
      BY <3>1, <3>2
  <2> QED
    BY <2>4, <2>5 DEF Counted, BurstBounded
<1>2. ASSUME \A f \in Flows : age'[f] < Window => age[f] < Window, History'
      PROVE  Counted'
  <2>1. ASSUME NEW n \in Names PROVE Cardinality(InWindow(n)') <= MaxPrompts
    <3>1. InWindow(n)' \subseteq InWindow(n)
      BY <1>2 DEF InWindow, SandboxOf
    <3> QED
      BY <3>1, WindowShrinks
  <2> QED
    BY <1>2, <2>1 DEF Counted, BurstBounded
<1>3. ASSUME NEW f \in Flows, LeadLimited(f) PROVE Counted'
  <2> DEFINE s == SandboxOf(f)
  <2>1. recent' = [recent EXCEPT ![s] = Pruned(s)] /\ age' = age
    BY <1>3 DEF LeadLimited
  <2>2. IsFiniteSet(Pruned(s))
    BY <1>0, WindowIsPruned DEF Counted
  <2>3. History'
    BY <1>0, <2>1, <2>2 DEF Counted, History, Pruned, SandboxOf
  <2> QED
    BY <1>2, <2>1, <2>3
<1>4. ASSUME NEW n \in Names, Forget(n) PROVE Counted'
  <2>1. /\ recent' = [recent EXCEPT ![n] = {}]
        /\ age' = [g \in Flows |-> IF SandboxOf(g) = n THEN Window ELSE age[g]]
    BY <1>4 DEF Forget
  <2>2. History'
    BY <1>0, <2>1, FS_EmptySet DEF Counted, History, SandboxOf
  <2>3. \A g \in Flows : age'[g] < Window => age[g] < Window
    BY <1>0, <2>1
  <2> QED
    BY <1>2, <2>2, <2>3
<1>5. CASE Tick
  <2>1. recent' = recent /\ \A g \in Flows : age'[g] < Window => age[g] < Window
    BY <1>0, <1>5 DEF Tick
  <2>2. History'
    BY <2>1 DEF Counted, History, SandboxOf
  <2> QED
    BY <1>2, <2>1, <2>2
<1>6. CASE UNCHANGED limiter
  <2>1. History'
    BY <1>6 DEF Counted, History, SandboxOf
  <2> QED
    BY <1>2, <1>6, <2>1
<1>7. ASSUME NEW f \in Flows,
             \/ LeadHeadless(f) \/ Follow(f) \/ Finish(f) \/ FollowCancelled(f) \/ Inherit(f)
             \/ Retry(f) \/ TakeScreen(f) \/ Show(f) \/ Resolve(f) \/ HangUp(f)
             \/ CloseAssociation(f) \/ \E a \in Answers : Decide(f, a)
      PROVE  UNCHANGED limiter
  BY <1>7 DEF LeadHeadless, Follow, Finish, FollowCancelled, Inherit, Retry, TakeScreen, Show,
              Resolve, HangUp, CloseAssociation, Decide
<1>8. CASE \E e \in Entries : Retire(e)
  <2>1. PICK e \in Entries : Retire(e)
    BY <1>8
  <2>2. NameOf[e] \in Names
    BY FlowAssumption
  <2>3. CASE CancelEntry(e) \/ DrainPending(e)
    BY <1>6, <2>3 DEF CancelEntry, DrainPending
  <2>4. CASE ResetRetired(e)
    BY <1>4, <2>2, <2>4 DEF ResetRetired
  <2> QED
    BY <2>1, <2>3, <2>4 DEF Retire
<1>9. CASE \E n \in Names : Reset(n)
  BY <1>4, <1>9 DEF Reset
<1>10. CASE AllServed \/ UNCHANGED vars
  BY <1>6, <1>10 DEF AllServed, vars
<1> QED
  BY <1>1, <1>3, <1>5, <1>6, <1>7, <1>8, <1>9, <1>10 DEF Next, Run

LEMMA Counting == Spec => []Counted
<1>1. Init => Counted
  <2> SUFFICES ASSUME Init PROVE Counted
    OBVIOUS
  <2>1. History
    BY FlowAssumption, SettingsAssumption, FS_EmptySet DEF Init, History
  <2>2. \A s \in Names : InWindow(s) = {}
    BY SettingsAssumption DEF Init, InWindow
  <2>3. BurstBounded
    BY <2>2, SettingsAssumption, FS_EmptySet DEF BurstBounded
  <2> QED
    BY <2>1, <2>3 DEF Counted
<1> QED
  BY <1>1, CountedInductive, Typing, PTL DEF Spec

\* However many flows ask at once, at most MaxPrompts of a sandbox's requests
\* reach a human within the window.
THEOREM BurstsBounded == Spec => []BurstBounded
<1>1. Counted => BurstBounded
  BY DEF Counted
<1> QED
  BY <1>1, Counting, PTL

\* The limit trips on nothing less.
THEOREM LimitNotSpurious == Spec => NoSpuriousLimit
<1>1. Counted /\ Typed /\ [Next]_vars =>
        [\A f \in Flows : LeadLimited(f) => Cardinality(InWindow(SandboxOf(f))) >= MaxPrompts]_vars
  <2> SUFFICES ASSUME Counted, Typed, NEW f \in Flows, LeadLimited(f)
               PROVE  Cardinality(InWindow(SandboxOf(f))) >= MaxPrompts
    OBVIOUS
  <2>1. SandboxOf(f) \in Names
    BY FlowAssumption DEF SandboxOf
  <2> QED
    BY <2>1, WindowIsPruned DEF Counted, LeadLimited
<1> QED
  BY <1>1, Counting, Typing, PTL DEF Spec, NoSpuriousLimit

-----------------------------------------------------------------------------
(* The refinement of ApprovalPromise.  Told(q) collects what the leaders   *)
(* of question q resolved to; it changes only where a leader resolves.     *)

Resolved(q) == {l \in Flows : /\ channel[l] = l
                              /\ pc[l] \in {"closing", "done"}
                              /\ QuestionOf[l] = q}

LEMMA QuestionIsKey == \A f \in Flows : QuestionOf[f] = KeyOf(f) /\ KeyOf(f) \in Keys
BY KeyTyping DEF QuestionOf, KeyOf, SandboxOf

\* A step that moves no leader tells nothing.
LEMMA StutterStep ==
  ASSUME Typed, Typed',
         UNCHANGED <<pc, outcome, channel>>
  PROVE  UNCHANGED <<Told, Verdict>>
<1>1. \A q \in Names \X Subjects :
        {outcome'[l] : l \in Resolved(q)'} = {outcome[l] : l \in Resolved(q)}
  BY DEF Resolved
<1>2. Told' = Told
  BY <1>1 DEF Told, Resolved
<1>3. Verdict' = Verdict
  BY DEF Verdict
<1> QED
  BY <1>2, <1>3

\* Neither does a flow that stays short of resolving.
LEMMA UntoldStep ==
  ASSUME Typed, Typed', NEW f \in Flows,
         pc[f] \notin {"closing", "done"}, pc'[f] \notin {"closing", "done"},
         \A g \in Flows : /\ outcome'[g] = outcome[g]
                          /\ g # f => channel'[g] = channel[g] /\ pc'[g] = pc[g]
  PROVE  UNCHANGED <<Told, Verdict>>
<1>1. \A q : Resolved(q)' = Resolved(q) /\ Resolved(q) \subseteq Flows
  BY DEF Resolved
<1>2. \A q : {outcome'[l] : l \in Resolved(q)'} = {outcome[l] : l \in Resolved(q)}
  BY <1>1
<1> QED
  BY <1>2 DEF Told, Resolved, Verdict

\* A leader that resolves tells its question, unless it was cancelled.
LEMMA TellStep ==
  ASSUME Typed, Typed', NEW l \in Flows,
         pc[l] \notin {"closing", "done"}, pc'[l] = "closing",
         channel'[l] = l, outcome'[l] # "none",
         \A f \in Flows \ {l} : /\ channel'[f] = channel[f]
                                /\ outcome'[f] = outcome[f]
                                /\ pc'[f] = pc[f]
  PROVE  [Promise!Next]_<<Told, Verdict>>
<1> DEFINE q == QuestionOf[l]
           v == outcome'[l]
<1>1. q \in Names \X Subjects
  BY QuestionIsKey DEF Keys
<1>2. v \in Outcomes
  BY DEF Typed, TypeOK
<1>3. Verdict' = Verdict
  BY DEF Verdict
<1>4. \A p \in Names \X Subjects :
        Resolved(p)' = IF p = q THEN Resolved(p) \cup {l} ELSE Resolved(p)
  BY DEF Resolved
<1>5. \A p \in Names \X Subjects :
        {outcome'[f] : f \in Resolved(p)'}
          = IF p = q THEN {outcome[f] : f \in Resolved(p)} \cup {v}
                     ELSE {outcome[f] : f \in Resolved(p)}
  <2>1. \A p : l \notin Resolved(p)
    BY DEF Resolved
  <2>2. \A p : \A f \in Resolved(p) : outcome'[f] = outcome[f]
    BY <2>1 DEF Resolved
  <2> QED
    BY <1>4, <2>2
<1>6. \A p \in Names \X Subjects :
        Told'[p] = IF p = q THEN Told[p] \cup ({v} \ {"cancelled"}) ELSE Told[p]
  BY <1>5 DEF Told, Resolved
<1>7. CASE v = "cancelled"
  <2>1. \A p \in Names \X Subjects : Told'[p] = Told[p]
    BY <1>6, <1>7
  <2>2. Told' = Told
    BY <2>1 DEF Told
  <2> QED
    BY <1>3, <2>2
<1>8. CASE v # "cancelled"
  <2>1. \A p \in Names \X Subjects : Told'[p] = [Told EXCEPT ![q] = @ \cup {v}][p]
    BY <1>6, <1>8 DEF Told
  <2>2. Told' = [Told EXCEPT ![q] = @ \cup {v}]
    BY <2>1 DEF Told
  <2> QED
    BY <1>1, <1>2, <1>3, <1>8, <2>2 DEF Promise!Next, Promise!Tell
<1> QED
  BY <1>7, <1>8

\* A flow that returns from ask() takes what its question was told, or its
\* own cancellation.
LEMMA GiveStep ==
  ASSUME Typed, Typed', NEW f \in Flows, NEW l \in Flows,
         pc[f] # "done", pc'[f] = "done", UNCHANGED channel,
         \A g \in Flows \ {f} : pc'[g] = pc[g] /\ outcome'[g] = outcome[g],
         \/ channel[f] # f
         \/ pc[f] = "closing" /\ outcome'[f] = outcome[f],
         \/ outcome'[f] = "cancelled"
         \/ /\ channel[l] = l /\ QuestionOf[l] = QuestionOf[f]
            /\ pc[l] \in {"closing", "done"} /\ outcome'[f] = outcome[l]
  PROVE  Promise!Next
<1>1. Told' = Told
  <2>1. \A q \in Names \X Subjects : Resolved(q)' = Resolved(q)
    BY DEF Resolved
  <2>2. \A q : \A g \in Resolved(q) : outcome'[g] = outcome[g]
    BY DEF Resolved
  <2>3. \A q \in Names \X Subjects :
          {outcome'[g] : g \in Resolved(q)'} = {outcome[g] : g \in Resolved(q)}
    BY <2>1, <2>2
  <2> QED
    BY <2>3 DEF Told, Resolved
<1>2. Verdict[f] = "none" /\ Verdict' = [Verdict EXCEPT ![f] = outcome'[f]]
  BY DEF Verdict
<1>3. CASE outcome'[f] = "cancelled"
  BY <1>1, <1>2, <1>3 DEF Promise!Next, Promise!Cancel
<1>4. CASE outcome'[f] # "cancelled"
  <2>1. outcome'[f] \in Told[QuestionOf[f]]
    BY <1>4, QuestionIsKey DEF Told, Keys
  <2> QED
    BY <1>1, <1>2, <2>1 DEF Promise!Next, Promise!Give
<1> QED
  BY <1>3, <1>4

LEMMA PromiseStep ==
  Registered /\ Channels /\ Typed /\ Typed' /\ [Next]_vars
    => [Promise!Next]_<<Told, Verdict>>
<1> SUFFICES ASSUME Registered, Channels, Typed, Typed', [Next]_vars
             PROVE  [Promise!Next]_<<Told, Verdict>>
  OBVIOUS
<1> USE FlowAssumption, SettingsAssumption
<1> USE DEF Typed, TypeOK, Leading, Settled, protocol, prompts, limiter, others
<1>1. ASSUME NEW f \in Flows, LeadAndPrompt(f) \/ Retry(f) \/ Follow(f) \/ HangUp(f)
      PROVE  [Promise!Next]_<<Told, Verdict>>
  <2>1. \A g \in Flows :
          /\ outcome'[g] = outcome[g]
          /\ g # f => channel'[g] = channel[g] /\ pc'[g] = pc[g]
    BY <1>1 DEF LeadAndPrompt, Lead, Retry, Follow, HangUp, Goto
  <2>2. pc[f] \notin {"closing", "done"} /\ pc'[f] \notin {"closing", "done"}
    BY <1>1 DEF LeadAndPrompt, Retry, Follow, HangUp, Goto
  <2> QED
    BY <2>1, <2>2, UntoldStep
<1>2. ASSUME NEW f \in Flows, LeadLimited(f) \/ LeadHeadless(f) \/ Resolve(f)
      PROVE  [Promise!Next]_<<Told, Verdict>>
  <2>1. "none" \notin Ready(f)
    BY DEF Ready, DialogEnds
  <2>2. /\ pc[f] \notin {"closing", "done"} /\ pc'[f] = "closing"
        /\ channel'[f] = f /\ outcome'[f] # "none"
    BY <1>2, <2>1 DEF LeadLimited, LeadHeadless, Lead, Resolve, Goto, Registered
  <2>3. \A g \in Flows \ {f} : /\ channel'[g] = channel[g]
                               /\ outcome'[g] = outcome[g]
                               /\ pc'[g] = pc[g]
    BY <1>2 DEF LeadLimited, LeadHeadless, Lead, Resolve, Goto
  <2> QED
    BY <2>2, <2>3, TellStep
<1>3. ASSUME NEW f \in Flows, Finish(f) PROVE [Promise!Next]_<<Told, Verdict>>
  <2>1. /\ pc[f] = "closing" /\ pc'[f] = "done" /\ channel[f] = f
        /\ UNCHANGED <<channel, outcome>>
        /\ \A g \in Flows \ {f} : pc'[g] = pc[g]
    BY <1>3 DEF Finish, Goto, Registered
  <2> QED
    BY <2>1, GiveStep
<1>4. ASSUME NEW f \in Flows, FollowCancelled(f) \/ Inherit(f)
      PROVE  [Promise!Next]_<<Told, Verdict>>
  <2>1. pc[f] = "following" /\ pc'[f] = "done" /\ UNCHANGED channel
    BY <1>4 DEF FollowCancelled, Inherit, Goto
  <2>2. channel[f] \in Flows /\ channel[f] # f
    BY <2>1 DEF Channels
  <2>3. channel[channel[f]] = channel[f] /\ KeyOf(channel[f]) = KeyOf(f)
    BY <2>1 DEF Channels
  <2>4. \A g \in Flows \ {f} : pc'[g] = pc[g] /\ outcome'[g] = outcome[g]
    BY <1>4 DEF FollowCancelled, Inherit, Goto
  <2>5. CASE FollowCancelled(f)
    <3>1. outcome'[f] = "cancelled"
      BY <2>5 DEF FollowCancelled
    <3> QED
      BY <2>1, <2>2, <2>4, <3>1, GiveStep
  <2>6. CASE Inherit(f)
    <3>1. pc[channel[f]] = "done" /\ outcome'[f] = outcome[channel[f]]
      BY <2>6 DEF Inherit
    <3>2. QuestionOf[channel[f]] = QuestionOf[f]
      BY <2>2, <2>3, QuestionIsKey
    <3> QED
      BY <2>1, <2>2, <2>3, <2>4, <3>1, <3>2, GiveStep
  <2> QED
    BY <1>4, <2>5, <2>6
<1>5. CASE \/ \E f \in Flows : TakeScreen(f) \/ Show(f) \/ CloseAssociation(f)
           \/ \E f \in Flows, a \in Answers : Decide(f, a)
           \/ \E e \in Entries : Retire(e)
           \/ \E s \in Names : Reset(s)
           \/ Tick \/ AllServed \/ UNCHANGED vars
  <2>1. UNCHANGED <<pc, outcome, channel>>
    BY <1>5 DEF TakeScreen, Show, CloseAssociation, Decide, Retire, CancelEntry,
                DrainPending, ResetRetired, Reset, Tick, AllServed, vars
  <2> QED
    BY <2>1, StutterStep
<1> QED
  BY <1>1, <1>2, <1>3, <1>4, <1>5 DEF Next, Run

\* The approval queue implements ApprovalPromise: nobody is told the answer to
\* somebody else's question, and nobody is told twice.
THEOREM PromiseKept == Spec => KeepsThePromise
<1>1. Init => Promise!Init
  BY FlowAssumption DEF Init, Promise!Init, Told, Verdict
<1> QED
  BY <1>1, PromiseStep, Coalesced, Typing, PTL
     DEF Spec, KeepsThePromise, Promise!Spec
=============================================================================
