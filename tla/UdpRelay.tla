------------------------------ MODULE UdpRelay ------------------------------
(***************************************************************************)
(* One `UDP ASSOCIATE` (broker/mediator/udp.rs): the relay loop decides    *)
(* once per destination, holds a few datagrams meanwhile, and passes       *)
(* replies from where it was allowed to send.  The admissions run as tasks *)
(* of their own and report over a channel; the association ends with its   *)
(* control connection or its registration.                                 *)
(*                                                                         *)
(* The loop handles one event at a time.  A datagram is the position it    *)
(* has among the owner's datagrams to its target.                          *)
(***************************************************************************)
EXTENDS Naturals, Sequences, FiniteSets

CONSTANTS
  Targets,      \* destinations, domain names resolved
  Senders,      \* sockets that can reach the relay
  QueueLimit,   \* PENDING_QUEUE_LIMIT
  MaxSent,      \* bound: datagrams per target
  Nobody        \* not a sender

ASSUME RelayAssumption ==
  /\ QueueLimit \in Nat \ {0}
  /\ MaxSent \in Nat
  /\ Nobody \notin Senders

VARIABLES
  open,         \* the association lives
  client,       \* the first sender
  verdicts,     \* what the loop knows of each target
  queue,        \* datagrams held for a pending target
  admitting,    \* targets whose admission task runs
  decided,      \* the channel: <<target, allowed>>
  sent,         \* datagrams the owner has sent to each target
  upstream,     \* datagrams each target has got
  replies,      \* targets that the owner has got a reply from
  asked,        \* history: admissions started per target
  settledAt     \* history: datagrams sent when the verdict was known

loop == <<client, verdicts, queue>>
vars == <<open, loop, admitting, decided, sent, upstream, replies, asked, settledAt>>

TypeOK ==
  /\ open \in BOOLEAN
  /\ client \in Senders \cup {Nobody}
  /\ verdicts \in [Targets -> {"none", "pending", "allowed", "denied"}]
  /\ queue \in [Targets -> Seq(1..MaxSent)]
  /\ \A t \in Targets : Len(queue[t]) <= QueueLimit
  /\ admitting \in SUBSET Targets
  /\ decided \in Seq(Targets \X BOOLEAN)
  /\ sent \in [Targets -> 0..MaxSent]
  /\ upstream \in [Targets -> Seq(1..MaxSent)]
  /\ replies \in SUBSET Targets
  /\ asked \in [Targets -> Nat]
  /\ settledAt \in [Targets -> 0..MaxSent]

Init ==
  /\ open = FALSE
  /\ client = Nobody
  /\ verdicts = [t \in Targets |-> "none"]
  /\ queue = [t \in Targets |-> <<>>]
  /\ admitting = {}
  /\ decided = <<>>
  /\ sent = [t \in Targets |-> 0]
  /\ upstream = [t \in Targets |-> <<>>]
  /\ replies = {}
  /\ asked = [t \in Targets |-> 0]
  /\ settledAt = [t \in Targets |-> 0]

-----------------------------------------------------------------------------
\* associate(): the relay's socket exists from here on, and is told the client.
Open ==
  /\ ~open /\ sent = [t \in Targets |-> 0] /\ client = Nobody
  /\ open' = TRUE
  /\ UNCHANGED <<loop, admitting, decided, sent, upstream, replies, asked, settledAt>>

\* The first sender owns the relay, even if its datagram is no good.
Owns(s) ==
  /\ client \in {Nobody, s}
  /\ client' = s

\* A fragment, a malformed datagram, a name that does not resolve.
ReceiveUnusable(s) ==
  /\ open
  /\ Owns(s)
  /\ UNCHANGED <<open, verdicts, queue, admitting, decided, sent, upstream, replies,
                 asked, settledAt>>

Datagram(s, t) ==
  /\ open
  /\ Owns(s)
  /\ sent[t] < MaxSent
  /\ sent' = [sent EXCEPT ![t] = @ + 1]
  /\ UNCHANGED <<open, decided, replies, settledAt>>

Forward(s, t) ==
  /\ verdicts[t] = "allowed"
  /\ Datagram(s, t)
  /\ upstream' = [upstream EXCEPT ![t] = Append(@, sent'[t])]
  /\ UNCHANGED <<verdicts, queue, admitting, asked>>

Refuse(s, t) ==
  /\ verdicts[t] = "denied"
  /\ Datagram(s, t)
  /\ UNCHANGED <<verdicts, queue, upstream, admitting, asked>>

\* Fault variant: a full queue makes room for the newest.
HoldNewest(s, t) ==
  /\ verdicts[t] = "pending"
  /\ Datagram(s, t)
  /\ queue' = [queue EXCEPT ![t] =
       Append(IF Len(@) < QueueLimit THEN @ ELSE Tail(@), sent'[t])]
  /\ UNCHANGED <<verdicts, upstream, admitting, asked>>

\* What comes when the queue is full is lost.
Hold(s, t) ==
  /\ verdicts[t] = "pending"
  /\ Datagram(s, t)
  /\ queue' = [queue EXCEPT ![t] = IF Len(@) < QueueLimit THEN Append(@, sent'[t]) ELSE @]
  /\ UNCHANGED <<verdicts, upstream, admitting, asked>>

\* Fault variant: the target is only known once it has been decided.
AskUnmarked(s, t) ==
  /\ verdicts[t] = "none"
  /\ Datagram(s, t)
  /\ queue' = [queue EXCEPT ![t] = <<sent'[t]>>]
  /\ admitting' = admitting \cup {t}
  /\ asked' = [asked EXCEPT ![t] = @ + 1]
  /\ UNCHANGED <<verdicts, upstream>>

\* The first datagram to a target starts its admission.
Ask(s, t) ==
  /\ verdicts[t] = "none"
  /\ Datagram(s, t)
  /\ verdicts' = [verdicts EXCEPT ![t] = "pending"]
  /\ queue' = [queue EXCEPT ![t] = <<sent'[t]>>]
  /\ admitting' = admitting \cup {t}
  /\ asked' = [asked EXCEPT ![t] = @ + 1]
  /\ UNCHANGED upstream

\* Fault variant: only good news is reported.
AdmittedSilently(t, allowed) ==
  /\ t \in admitting
  /\ admitting' = admitting \ {t}
  /\ decided' = IF open /\ allowed THEN Append(decided, <<t, allowed>>) ELSE decided
  /\ UNCHANGED <<open, loop, sent, upstream, replies, asked, settledAt>>

\* The task's end; nobody listens once the association is closed.
Admitted(t, allowed) ==
  /\ t \in admitting
  /\ admitting' = admitting \ {t}
  /\ decided' = IF open THEN Append(decided, <<t, allowed>>) ELSE decided
  /\ UNCHANGED <<open, loop, sent, upstream, replies, asked, settledAt>>

\* The loop learns a verdict and sends or drops what it held.
Settle ==
  /\ open /\ decided # <<>>
  /\ decided' = Tail(decided)
  /\ LET t == Head(decided)[1]
         allowed == Head(decided)[2]
     IN  /\ verdicts' = [verdicts EXCEPT ![t] = IF allowed THEN "allowed" ELSE "denied"]
         /\ upstream' = IF allowed THEN [upstream EXCEPT ![t] = @ \o queue[t]] ELSE upstream
         /\ queue' = [queue EXCEPT ![t] = <<>>]
         /\ settledAt' = [settledAt EXCEPT ![t] = sent[t]]
  /\ UNCHANGED <<open, client, admitting, sent, replies, asked>>

\* Fault variant: a reply is good from any target the owner has tried.
ReplyAsked(t) ==
  /\ open /\ client # Nobody
  /\ verdicts[t] # "none"
  /\ replies' = replies \cup {t}
  /\ UNCHANGED <<open, loop, admitting, decided, sent, upstream, asked, settledAt>>

\* Anyone can send to the upstream sockets; the loop drops the rest.
Reply(t) ==
  /\ open /\ client # Nobody
  /\ verdicts[t] = "allowed"
  /\ replies' = replies \cup {t}
  /\ UNCHANGED <<open, loop, admitting, decided, sent, upstream, asked, settledAt>>

\* The control connection or the registration ends.
Close ==
  /\ open
  /\ open' = FALSE
  /\ decided' = <<>>
  /\ UNCHANGED <<loop, admitting, sent, upstream, replies, asked, settledAt>>

Receive(s, t) == Forward(s, t) \/ Refuse(s, t) \/ Hold(s, t) \/ Ask(s, t)

Relay ==
  \/ \E s \in Senders : ReceiveUnusable(s) \/ \E t \in Targets : Receive(s, t)
  \/ \E t \in Targets : Reply(t) \/ \E allowed \in BOOLEAN : Admitted(t, allowed)
  \/ Settle

Next == Open \/ Relay \/ Close

Spec == Init /\ [][Next]_vars

-----------------------------------------------------------------------------
(* Properties                                                              *)

\* A human is asked once per destination however the datagrams and verdicts
\* interleave ("decides once per destination", udp.rs).
AsksOnce == \A t \in Targets : asked[t] <= 1

Increasing(s) == \A i \in 1..(Len(s) - 1) : s[i] < s[i + 1]

Lost(t) == 1..sent[t] \ {upstream[t][i] : i \in DOMAIN upstream[t]}

\* An allowed destination gets the owner's datagrams in order, and all of
\* them but those that found the queue full while the verdict was open: the
\* handover from the queue to direct sending neither loses nor reorders.
LossOnlyByOverflow ==
  \A t \in Targets :
    /\ Increasing(upstream[t])
    /\ verdicts[t] = "allowed" => \A n \in Lost(t) : QueueLimit < n /\ n <= settledAt[t]

\* The relay is no reflector: the owner hears only from destinations it has
\* reached (forward_reply()).
RepliesAnswered == \A t \in replies : upstream[t] # <<>>

\* No destination stays undecided while the association lives: what is held
\* for it is sent or dropped.
HeldIsSettled == \A t \in Targets : verdicts[t] = "pending" ~> verdicts[t] # "pending" \/ ~open
=============================================================================
