---------------------------- MODULE MediatorProofs ----------------------------
(***************************************************************************)
(* What module UdpRelay promises of an association, for any number of      *)
(* targets, senders and datagrams and a queue of any length.  All of it    *)
(* rests on what the loop knows of a target: IInv says, verdict by         *)
(* verdict, which datagrams are where.  A connection drives its            *)
(* association as module UdpRelay says, so that what is proved of the      *)
(* association holds of it within the connection.                          *)
(***************************************************************************)
EXTENDS Mediator, TLAPS


\* A verdict under way is about a target that waits for it, and is alone.
Underway ==
  /\ \A t \in admitting : verdicts[t] = "pending"
  /\ \A i \in DOMAIN decided :
       /\ verdicts[decided[i][1]] = "pending"
       /\ decided[i][1] \notin admitting
       /\ \A j \in DOMAIN decided : i # j => decided[i][1] # decided[j][1]

\* Nothing has been sent to a target that nobody was asked about.
Untouched(t) == sent[t] = 0 /\ asked[t] = 0 /\ upstream[t] = <<>>

\* The queue has the first datagrams, as many as fit.
Waiting(t) ==
  /\ asked[t] = 1 /\ upstream[t] = <<>>
  /\ sent[t] > 0
  /\ Len(queue[t]) = IF sent[t] < QueueLimit THEN sent[t] ELSE QueueLimit
  /\ \A i \in DOMAIN queue[t] : queue[t][i] = i

Reached(t) ==
  /\ asked[t] = 1 /\ upstream[t] # <<>>
  /\ settledAt[t] <= sent[t]
  /\ Increasing(upstream[t])
  /\ \A i \in DOMAIN upstream[t] : upstream[t][i] <= sent[t]
  /\ \A n \in Lost(t) : QueueLimit < n /\ n <= settledAt[t]

Refused(t) == asked[t] = 1 /\ upstream[t] = <<>>

Place(t) ==
  /\ verdicts[t] = "none" => Untouched(t)
  /\ verdicts[t] = "pending" => Waiting(t)
  /\ verdicts[t] = "allowed" => Reached(t)
  /\ verdicts[t] = "denied" => Refused(t)

Places == \A t \in Targets : Place(t)

IInv == TypeOK /\ Underway /\ Places /\ RepliesAnswered

-----------------------------------------------------------------------------
(* Facts about the sequences of the model.                                 *)

LEMMA AppendIs ==
  ASSUME NEW S, NEW s \in Seq(S), NEW e \in S
  PROVE  /\ Append(s, e) \in Seq(S) /\ Append(s, e) # <<>>
         /\ Len(Append(s, e)) = Len(s) + 1 /\ DOMAIN Append(s, e) = 1..(Len(s) + 1)
         /\ \A i \in 1..Len(s) : Append(s, e)[i] = s[i]
         /\ Append(s, e)[Len(s) + 1] = e
  OBVIOUS

LEMMA TailIs ==
  ASSUME NEW S, NEW s \in Seq(S), s # <<>>
  PROVE  /\ Tail(s) \in Seq(S) /\ Head(s) = s[1] /\ 1 \in DOMAIN s /\ Head(s) \in S
         /\ \A i \in DOMAIN Tail(s) : i + 1 \in DOMAIN s /\ Tail(s)[i] = s[i + 1]
         /\ DOMAIN Tail(s) \subseteq Nat /\ DOMAIN s \subseteq Nat
  OBVIOUS

LEMMA ConcatEmpty ==
  ASSUME NEW S, NEW s \in Seq(S)
  PROVE  <<>> \o s = s
  OBVIOUS

\* Sending one more datagram keeps the order and loses nothing.
LEMMA AppendIncreasing ==
  ASSUME NEW m \in Nat, NEW s \in Seq(1..m), NEW n \in 1..m, Increasing(s),
         \A i \in DOMAIN s : s[i] < n
  PROVE  Increasing(Append(s, n))
<1>. DEFINE a == Append(s, n)
<1>1. \A i \in 1..Len(s) : a[i] = s[i]
  BY AppendIs
<1>2. a[Len(s) + 1] = n
  BY AppendIs
<1>3. Len(a) = Len(s) + 1
  BY AppendIs
<1>4. Len(s) \in Nat /\ DOMAIN s = 1..Len(s)
  OBVIOUS
<1>. HIDE DEF a
<1>5. ASSUME NEW i \in 1..Len(s) PROVE a[i] < a[i + 1]
  <2>1. CASE i = Len(s)
    BY <1>1, <1>2, <1>4, <2>1
  <2>2. CASE i # Len(s)
    <3>1. i \in 1..(Len(s) - 1) /\ i + 1 \in 1..Len(s)
      BY <2>2
    <3>. QED  BY <3>1, <1>1 DEF Increasing
  <2>. QED  BY <2>1, <2>2
<1>. QED  BY <1>3, <1>4, <1>5 DEF Increasing, a

-----------------------------------------------------------------------------
(* Types.                                                                  *)

LEMMA TypeDatagram ==
  ASSUME TypeOK, NEW s \in Senders, NEW t \in Targets, Receive(s, t)
  PROVE  TypeOK'
<1>1. Datagram(s, t)
  BY DEF Receive, Forward, Refuse, Hold, Ask
<1>2. /\ sent[t] < MaxSent /\ sent' = [sent EXCEPT ![t] = @ + 1]
      /\ client' = s
      /\ UNCHANGED <<open, decided, replies, settledAt>>
  BY <1>1 DEF Datagram, Owns
<1>3. sent[t] \in 0..MaxSent /\ MaxSent \in Nat /\ QueueLimit \in Nat \ {0}
  BY RelayAssumption DEF TypeOK
<1>4. sent' \in [Targets -> 0..MaxSent] /\ sent'[t] = sent[t] + 1 /\ sent'[t] \in 1..MaxSent
  BY <1>2, <1>3 DEF TypeOK
<1>5. /\ queue[t] \in Seq(1..MaxSent) /\ upstream[t] \in Seq(1..MaxSent)
      /\ Append(queue[t], sent'[t]) \in Seq(1..MaxSent)
      /\ Len(Append(queue[t], sent'[t])) = Len(queue[t]) + 1
      /\ Append(upstream[t], sent'[t]) \in Seq(1..MaxSent)
      /\ <<sent'[t]>> \in Seq(1..MaxSent) /\ Len(<<sent'[t]>>) = 1
  <2>1. queue[t] \in Seq(1..MaxSent) /\ upstream[t] \in Seq(1..MaxSent)
    BY DEF TypeOK
  <2>2. <<sent'[t]>> \in Seq(1..MaxSent) /\ Len(<<sent'[t]>>) = 1
    BY <1>4
  <2>. QED  BY <1>4, <2>1, <2>2, AppendIs
<1>6. /\ open' \in BOOLEAN /\ client' \in Senders \cup {Nobody}
      /\ decided' \in Seq(Targets \X BOOLEAN) /\ replies' \in SUBSET Targets
      /\ settledAt' \in [Targets -> 0..MaxSent]
  BY <1>2 DEF TypeOK
<1>7. CASE Forward(s, t)
  <2>1. /\ UNCHANGED <<verdicts, queue, admitting, asked>>
        /\ upstream' = [upstream EXCEPT ![t] = Append(@, sent'[t])]
    BY <1>7 DEF Forward
  <2>2. upstream' \in [Targets -> Seq(1..MaxSent)]
    BY <1>5, <2>1 DEF TypeOK
  <2>. QED  BY <1>4, <1>6, <2>1, <2>2 DEF TypeOK
<1>8. CASE Refuse(s, t)
  BY <1>4, <1>6, <1>8 DEF Refuse, TypeOK
<1>9. CASE Hold(s, t)
  <2>1. /\ UNCHANGED <<verdicts, upstream, admitting, asked>>
        /\ queue' = [queue EXCEPT ![t] =
                      IF Len(queue[t]) < QueueLimit THEN Append(queue[t], sent'[t]) ELSE queue[t]]
    BY <1>9 DEF Hold
  <2>2. Len(queue[t]) \in Nat /\ Len(queue[t]) <= QueueLimit
    BY DEF TypeOK
  <2>3. queue' \in [Targets -> Seq(1..MaxSent)] /\ \A u \in Targets : Len(queue'[u]) <= QueueLimit
    <3>1. CASE Len(queue[t]) < QueueLimit
      <4>1. queue' = [queue EXCEPT ![t] = Append(queue[t], sent'[t])]
        BY <2>1, <3>1
      <4>2. queue' \in [Targets -> Seq(1..MaxSent)]
        BY <1>5, <4>1 DEF TypeOK
      <4>3. Len(queue'[t]) <= QueueLimit
        BY <1>3, <1>5, <2>2, <3>1, <4>1 DEF TypeOK
      <4>4. \A u \in Targets \ {t} : Len(queue'[u]) <= QueueLimit
        BY <4>1 DEF TypeOK
      <4>. QED  BY <4>2, <4>3, <4>4
    <3>2. CASE ~(Len(queue[t]) < QueueLimit)
      BY <2>1, <3>2 DEF TypeOK
    <3>. QED  BY <3>1, <3>2
  <2>. QED  BY <1>4, <1>6, <2>1, <2>3 DEF TypeOK
<1>10. CASE Ask(s, t)
  <2>1. /\ verdicts' = [verdicts EXCEPT ![t] = "pending"]
        /\ queue' = [queue EXCEPT ![t] = <<sent'[t]>>]
        /\ admitting' = admitting \cup {t}
        /\ asked' = [asked EXCEPT ![t] = @ + 1]
        /\ UNCHANGED upstream
    BY <1>10 DEF Ask
  <2>2. queue' \in [Targets -> Seq(1..MaxSent)]
    BY <1>5, <2>1 DEF TypeOK
  <2>3. \A u \in Targets : Len(queue'[u]) <= QueueLimit
    <3>1. Len(queue'[t]) <= QueueLimit
      BY <1>3, <1>5, <2>1 DEF TypeOK
    <3>2. \A u \in Targets \ {t} : Len(queue'[u]) <= QueueLimit
      BY <2>1 DEF TypeOK
    <3>. QED  BY <3>1, <3>2
  <2>4. asked' \in [Targets -> Nat]
    BY <2>1 DEF TypeOK
  <2>. QED  BY <1>4, <1>6, <2>1, <2>2, <2>3, <2>4 DEF TypeOK
<1>. QED  BY <1>7, <1>8, <1>9, <1>10 DEF Receive

LEMMA TypeAdmitted ==
  ASSUME TypeOK, NEW t \in Targets, NEW allowed \in BOOLEAN, Admitted(t, allowed)
  PROVE  TypeOK'
<1>1. decided' \in Seq(Targets \X BOOLEAN)
  <2>1. <<t, allowed>> \in Targets \X BOOLEAN
    OBVIOUS
  <2>2. decided \in Seq(Targets \X BOOLEAN)
    BY DEF TypeOK
  <2>3. decided' = decided \/ decided' = Append(decided, <<t, allowed>>)
    BY DEF Admitted
  <2>. QED  BY <2>1, <2>2, <2>3, AppendIs
<1>. QED  BY <1>1 DEF Admitted, TypeOK, loop

\* What the loop does with the verdict at the head of the channel.
LEMMA SettleIs ==
  ASSUME TypeOK, Settle
  PROVE  \E t \in Targets, allowed \in BOOLEAN :
           /\ decided # <<>> /\ Head(decided) = <<t, allowed>> /\ decided[1][1] = t
           /\ verdicts' = [verdicts EXCEPT ![t] = IF allowed THEN "allowed" ELSE "denied"]
           /\ upstream' = IF allowed THEN [upstream EXCEPT ![t] = @ \o queue[t]] ELSE upstream
           /\ queue' = [queue EXCEPT ![t] = <<>>]
           /\ settledAt' = [settledAt EXCEPT ![t] = sent[t]]
<1>1. decided \in Seq(Targets \X BOOLEAN) /\ decided # <<>>
  BY DEF TypeOK, Settle
<1>2. Head(decided) = decided[1] /\ Head(decided) \in Targets \X BOOLEAN
  BY <1>1, TailIs
<1>3. PICK t \in Targets, allowed \in BOOLEAN : Head(decided) = <<t, allowed>>
  BY <1>2
<1>4. Head(decided)[1] = t /\ Head(decided)[2] = allowed
  BY <1>3
<1>5. /\ verdicts' = [verdicts EXCEPT ![t] = IF allowed THEN "allowed" ELSE "denied"]
      /\ upstream' = IF allowed THEN [upstream EXCEPT ![t] = @ \o queue[t]] ELSE upstream
      /\ queue' = [queue EXCEPT ![t] = <<>>]
      /\ settledAt' = [settledAt EXCEPT ![t] = sent[t]]
  BY <1>4 DEF Settle
<1>. QED  BY <1>1, <1>2, <1>3, <1>4, <1>5

LEMMA TypeSettle ==
  ASSUME TypeOK, Settle
  PROVE  TypeOK'
<1>1. PICK t \in Targets, allowed \in BOOLEAN :
        /\ verdicts' = [verdicts EXCEPT ![t] = IF allowed THEN "allowed" ELSE "denied"]
        /\ upstream' = IF allowed THEN [upstream EXCEPT ![t] = @ \o queue[t]] ELSE upstream
        /\ queue' = [queue EXCEPT ![t] = <<>>]
        /\ settledAt' = [settledAt EXCEPT ![t] = sent[t]]
  BY SettleIs
<1>2. decided' \in Seq(Targets \X BOOLEAN)
  <2>1. decided \in Seq(Targets \X BOOLEAN) /\ decided # <<>> /\ decided' = Tail(decided)
    BY DEF TypeOK, Settle
  <2>. QED  BY <2>1, TailIs
<1>3. upstream' \in [Targets -> Seq(1..MaxSent)]
  <2>1. queue[t] \in Seq(1..MaxSent) /\ upstream[t] \in Seq(1..MaxSent)
    BY DEF TypeOK
  <2>2. upstream[t] \o queue[t] \in Seq(1..MaxSent)
    BY <2>1
  <2>. QED  BY <1>1, <2>2 DEF TypeOK
<1>4. queue' \in [Targets -> Seq(1..MaxSent)] /\ \A u \in Targets : Len(queue'[u]) <= QueueLimit
  <2>1. <<>> \in Seq(1..MaxSent) /\ Len(<<>>) = 0
    OBVIOUS
  <2>2. queue' \in [Targets -> Seq(1..MaxSent)] /\ queue'[t] = <<>>
    BY <1>1, <2>1 DEF TypeOK
  <2>3. \A u \in Targets \ {t} : Len(queue'[u]) <= QueueLimit
    BY <1>1 DEF TypeOK
  <2>. QED  BY <2>1, <2>2, <2>3, RelayAssumption
<1>5. verdicts' \in [Targets -> {"none", "pending", "allowed", "denied"}]
  BY <1>1 DEF TypeOK
<1>6. settledAt' \in [Targets -> 0..MaxSent]
  BY <1>1 DEF TypeOK
<1>7. UNCHANGED <<open, client, admitting, sent, replies, asked>>
  BY DEF Settle
<1>. QED  BY <1>2, <1>3, <1>4, <1>5, <1>6, <1>7 DEF TypeOK

LEMMA TypeStep ==
  ASSUME TypeOK, [Next]_vars
  PROVE  TypeOK'
<1>1. CASE Open
  BY <1>1 DEF Open, loop, TypeOK
<1>2. ASSUME NEW s \in Senders, ReceiveUnusable(s) PROVE TypeOK'
  BY <1>2 DEF ReceiveUnusable, Owns, TypeOK
<1>3. ASSUME NEW s \in Senders, NEW t \in Targets, Receive(s, t) PROVE TypeOK'
  BY <1>3, TypeDatagram
<1>4. ASSUME NEW t \in Targets, Reply(t) PROVE TypeOK'
  BY <1>4 DEF Reply, loop, TypeOK
<1>5. ASSUME NEW t \in Targets, NEW allowed \in BOOLEAN, Admitted(t, allowed) PROVE TypeOK'
  BY <1>5, TypeAdmitted
<1>6. CASE Settle
  BY <1>6, TypeSettle
<1>7. CASE Close
  <2>1. <<>> \in Seq(Targets \X BOOLEAN)
    OBVIOUS
  <2>2. /\ open' = FALSE /\ decided' = <<>>
        /\ UNCHANGED <<client, verdicts, queue, admitting, sent, upstream, replies, asked, settledAt>>
    BY <1>7 DEF Close, loop
  <2>. QED  BY <2>1, <2>2 DEF TypeOK
<1>8. CASE UNCHANGED vars
  BY <1>8 DEF vars, loop, TypeOK
<1>. QED
  BY <1>1, <1>2, <1>3, <1>4, <1>5, <1>6, <1>7, <1>8 DEF Next, Relay

-----------------------------------------------------------------------------
(* Verdicts under way.                                                     *)

LEMMA UnderwayStep ==
  ASSUME TypeOK, Underway, [Next]_vars
  PROVE  Underway'
<1>0. /\ decided \in Seq(Targets \X BOOLEAN) /\ verdicts \in [Targets -> {"none", "pending", "allowed", "denied"}]
      /\ admitting \subseteq Targets
      /\ \A i \in DOMAIN decided : decided[i][1] \in Targets
  <2>1. decided \in Seq(Targets \X BOOLEAN) /\ admitting \subseteq Targets
    BY DEF TypeOK
  <2>2. \A i \in DOMAIN decided : decided[i] \in Targets \X BOOLEAN
    BY <2>1
  <2>3. \A i \in DOMAIN decided : decided[i][1] \in Targets
    BY <2>2
  <2>. QED  BY <2>1, <2>3 DEF TypeOK
<1>1. ASSUME UNCHANGED <<verdicts, admitting, decided>> PROVE Underway'
  BY <1>1 DEF Underway
<1>2. CASE Open
  BY <1>1, <1>2 DEF Open, loop
<1>3. ASSUME NEW s \in Senders, ReceiveUnusable(s) PROVE Underway'
  BY <1>1, <1>3 DEF ReceiveUnusable
<1>4. ASSUME NEW s \in Senders, NEW t \in Targets, Receive(s, t) PROVE Underway'
  <2>1. CASE Forward(s, t)
    BY <1>1, <2>1 DEF Forward, Datagram
  <2>2. CASE Refuse(s, t)
    BY <1>1, <2>2 DEF Refuse, Datagram
  <2>3. CASE Hold(s, t)
    BY <1>1, <2>3 DEF Hold, Datagram
  <2>4. CASE Ask(s, t)
    <3>1. /\ verdicts[t] = "none" /\ verdicts' = [verdicts EXCEPT ![t] = "pending"]
          /\ admitting' = admitting \cup {t} /\ decided' = decided
      BY <2>4 DEF Ask, Datagram
    <3>2. \A i \in DOMAIN decided : decided[i][1] # t
      BY <3>1 DEF Underway
    <3>. QED  BY <1>0, <3>1, <3>2 DEF Underway
  <2>. QED  BY <1>4, <2>1, <2>2, <2>3, <2>4 DEF Receive
<1>5. ASSUME NEW t \in Targets, Reply(t) PROVE Underway'
  BY <1>1, <1>5 DEF Reply, loop
<1>6. ASSUME NEW t \in Targets, NEW allowed \in BOOLEAN, Admitted(t, allowed) PROVE Underway'
  <2>1. t \in admitting /\ admitting' = admitting \ {t} /\ verdicts' = verdicts
    BY <1>6 DEF Admitted, loop
  <2>2. verdicts[t] = "pending" /\ \A i \in DOMAIN decided : decided[i][1] # t
    BY <2>1 DEF Underway
  <2>3. CASE decided' = decided
    BY <2>1, <2>3 DEF Underway
  <2>4. CASE decided' = Append(decided, <<t, allowed>>)
    <3>1. <<t, allowed>> \in Targets \X BOOLEAN /\ <<t, allowed>>[1] = t
      OBVIOUS
    <3>2. /\ DOMAIN decided' = 1..(Len(decided) + 1)
          /\ \A i \in 1..Len(decided) : decided'[i] = decided[i]
          /\ decided'[Len(decided) + 1] = <<t, allowed>>
          /\ DOMAIN decided = 1..Len(decided) /\ Len(decided) \in Nat
      BY <1>0, <2>4, <3>1, AppendIs
    <3>3. \A i \in DOMAIN decided' : i \in DOMAIN decided \/ i = Len(decided) + 1
      BY <3>2
    <3>4. \A i \in DOMAIN decided' :
            /\ verdicts'[decided'[i][1]] = "pending"
            /\ decided'[i][1] \notin admitting'
      BY <2>1, <2>2, <3>1, <3>2, <3>3 DEF Underway
    <3>5. \A i, j \in DOMAIN decided' : i # j => decided'[i][1] # decided'[j][1]
      BY <2>2, <3>1, <3>2, <3>3 DEF Underway
    <3>6. \A u \in admitting' : verdicts'[u] = "pending"
      BY <2>1 DEF Underway
    <3>. QED  BY <3>4, <3>5, <3>6 DEF Underway
  <2>. QED  BY <1>6, <2>3, <2>4 DEF Admitted
<1>7. CASE Settle
  <2>1. PICK t \in Targets, allowed \in BOOLEAN :
          /\ decided # <<>> /\ decided[1][1] = t
          /\ verdicts' = [verdicts EXCEPT ![t] = IF allowed THEN "allowed" ELSE "denied"]
    BY <1>7, SettleIs
  <2>2. decided' = Tail(decided) /\ admitting' = admitting
    BY <1>7 DEF Settle
  <2>3. /\ 1 \in DOMAIN decided
        /\ \A i \in DOMAIN decided' : i + 1 \in DOMAIN decided /\ decided'[i] = decided[i + 1]
        /\ \A i \in DOMAIN decided' : i \in Nat /\ i + 1 # 1
    <3>1. \A i \in DOMAIN decided' : i \in Nat /\ i >= 1
      BY <1>0, <2>1, <2>2
    <3>. QED  BY <1>0, <2>1, <2>2, <3>1, TailIs
  <2>4. t \notin admitting
    BY <2>1, <2>3 DEF Underway
  <2>5. \A i \in DOMAIN decided' : decided'[i][1] # t /\ decided'[i][1] \in Targets
    BY <1>0, <2>1, <2>3 DEF Underway
  <2>6. \A u \in Targets \ {t} : verdicts'[u] = verdicts[u]
    BY <2>1, <1>0
  <2>7. \A u \in admitting' : verdicts'[u] = "pending"
    BY <1>0, <2>2, <2>4, <2>6 DEF Underway
  <2>8. \A i \in DOMAIN decided' :
          verdicts'[decided'[i][1]] = "pending" /\ decided'[i][1] \notin admitting'
    BY <2>2, <2>3, <2>5, <2>6 DEF Underway
  <2>9. \A i, j \in DOMAIN decided' : i # j => decided'[i][1] # decided'[j][1]
    <3>1. TAKE i, j \in DOMAIN decided'
    <3>2. i # j => i + 1 # j + 1
      BY <2>3
    <3>. QED  BY <2>3, <3>2 DEF Underway
  <2>. QED  BY <2>7, <2>8, <2>9 DEF Underway
<1>8. CASE Close
  <2>1. decided' = <<>> /\ UNCHANGED <<verdicts, admitting>>
    BY <1>8 DEF Close, loop
  <2>. QED  BY <2>1 DEF Underway
<1>9. CASE UNCHANGED vars
  BY <1>1, <1>9 DEF vars, loop
<1>. QED
  BY <1>2, <1>3, <1>4, <1>5, <1>6, <1>7, <1>8, <1>9 DEF Next, Relay

-----------------------------------------------------------------------------
(* Where the datagrams are.                                                *)

LEMMA PlaceKept ==
  ASSUME NEW u \in Targets, Place(u),
         verdicts'[u] = verdicts[u], queue'[u] = queue[u], sent'[u] = sent[u],
         upstream'[u] = upstream[u], asked'[u] = asked[u], settledAt'[u] = settledAt[u]
  PROVE  Place(u)'
<1>1. Untouched(u) => Untouched(u)'
  BY DEF Untouched
<1>2. Waiting(u) => Waiting(u)'
  BY DEF Waiting
<1>3. Lost(u)' = Lost(u)
  BY DEF Lost
<1>4. Reached(u) => Reached(u)'
  BY <1>3 DEF Reached, Increasing
<1>5. Refused(u) => Refused(u)'
  BY DEF Refused
<1>. QED  BY <1>1, <1>2, <1>4, <1>5 DEF Place

\* A datagram of the owner only concerns its target.
LEMMA PlaceDatagram ==
  ASSUME TypeOK, Places, NEW s \in Senders, NEW t \in Targets, Receive(s, t)
  PROVE  Places'
<1>1. Datagram(s, t)
  BY DEF Receive, Forward, Refuse, Hold, Ask
<1>2. /\ sent[t] < MaxSent /\ sent' = [sent EXCEPT ![t] = @ + 1]
      /\ settledAt' = settledAt
  BY <1>1 DEF Datagram
<1>3. /\ sent[t] \in 0..MaxSent /\ MaxSent \in Nat /\ QueueLimit \in Nat \ {0}
      /\ sent'[t] = sent[t] + 1 /\ sent'[t] \in 1..MaxSent
      /\ queue[t] \in Seq(1..MaxSent) /\ upstream[t] \in Seq(1..MaxSent)
      /\ settledAt'[t] = settledAt[t] /\ settledAt[t] \in 0..MaxSent
      /\ Place(t)
  BY <1>2, RelayAssumption DEF TypeOK, Places
<1>4. ASSUME NEW u \in Targets \ {t} PROVE Place(u)'
  <2>1. /\ sent'[u] = sent[u] /\ settledAt'[u] = settledAt[u]
    BY <1>2 DEF TypeOK
  <2>2. /\ verdicts'[u] = verdicts[u] /\ queue'[u] = queue[u]
        /\ upstream'[u] = upstream[u] /\ asked'[u] = asked[u]
    BY DEF Receive, Forward, Refuse, Hold, Ask, TypeOK
  <2>. QED  BY <2>1, <2>2, PlaceKept DEF Places
<1>5. Place(t)'
  <2>1. CASE Forward(s, t)
    <3>1. /\ verdicts[t] = "allowed" /\ verdicts'[t] = "allowed"
          /\ upstream'[t] = Append(upstream[t], sent'[t]) /\ asked'[t] = asked[t]
      BY <2>1 DEF Forward, TypeOK
    <3>2. Reached(t)
      BY <1>3, <3>1 DEF Place
    <3>3. /\ DOMAIN upstream'[t] = 1..(Len(upstream[t]) + 1) /\ Len(upstream'[t]) = Len(upstream[t]) + 1
          /\ \A i \in 1..Len(upstream[t]) : upstream'[t][i] = upstream[t][i]
          /\ upstream'[t][Len(upstream[t]) + 1] = sent'[t]
          /\ DOMAIN upstream[t] = 1..Len(upstream[t]) /\ Len(upstream[t]) \in Nat
      BY <1>3, <3>1, AppendIs
    <3>4. \A i \in DOMAIN upstream[t] : upstream[t][i] \in Nat /\ upstream[t][i] < sent'[t]
      <4>1. \A i \in DOMAIN upstream[t] : upstream[t][i] \in Nat /\ upstream[t][i] <= sent[t]
        BY <1>3, <3>2 DEF Reached
      <4>. QED  BY <1>3, <4>1
    <3>5. Increasing(upstream'[t])
      <4>1. Increasing(upstream[t])
        BY <3>2 DEF Reached
      <4>. QED  BY <1>3, <3>1, <3>4, <4>1, AppendIncreasing
    <3>6. \A i \in DOMAIN upstream'[t] : i \in DOMAIN upstream[t] \/ i = Len(upstream[t]) + 1
      BY <3>3
    <3>7. \A i \in DOMAIN upstream'[t] : upstream'[t][i] <= sent'[t]
      <4>1. ASSUME NEW i \in DOMAIN upstream[t] PROVE upstream'[t][i] <= sent'[t]
        <5>1. upstream'[t][i] = upstream[t][i]
          BY <3>3
        <5>2. upstream[t][i] \in Nat /\ upstream[t][i] < sent'[t] /\ sent'[t] \in Nat
          BY <1>3, <3>4
        <5>. QED  BY <5>1, <5>2
      <4>. QED  BY <1>3, <3>3, <3>6, <4>1
    <3>12. upstream'[t] # <<>>
      <4>1. Len(upstream'[t]) # 0
        BY <3>3
      <4>. QED  BY <4>1
    <3>8. ASSUME NEW n \in Lost(t)' PROVE n \in Lost(t)
      <4>1. n \in 1..sent'[t] /\ \A i \in DOMAIN upstream'[t] : upstream'[t][i] # n
        BY <3>8 DEF Lost
      <4>2. n # sent'[t]
        BY <3>3, <4>1
      <4>3. n \in 1..sent[t]
        BY <1>3, <4>1, <4>2
      <4>4. \A i \in DOMAIN upstream[t] : upstream[t][i] # n
        BY <3>3, <4>1
      <4>. QED  BY <4>3, <4>4 DEF Lost
    <3>9. \A n \in Lost(t)' : QueueLimit < n /\ n <= settledAt'[t]
      BY <1>3, <3>2, <3>8 DEF Reached
    <3>10. asked'[t] = 1 /\ settledAt'[t] <= sent'[t]
      BY <1>3, <3>1, <3>2 DEF Reached
    <3>11. Reached(t)'
      BY <3>5, <3>7, <3>9, <3>10, <3>12 DEF Reached
    <3>. QED  BY <3>1, <3>11 DEF Place
  <2>2. CASE Refuse(s, t)
    <3>1. verdicts'[t] = "denied" /\ Refused(t) /\ upstream'[t] = upstream[t] /\ asked'[t] = asked[t]
      BY <1>3, <2>2 DEF Refuse, Place
    <3>. QED  BY <3>1 DEF Place, Refused
  <2>3. CASE Hold(s, t)
    <3>1. /\ verdicts[t] = "pending" /\ verdicts'[t] = "pending"
          /\ queue'[t] = IF Len(queue[t]) < QueueLimit THEN Append(queue[t], sent'[t]) ELSE queue[t]
          /\ upstream'[t] = upstream[t] /\ asked'[t] = asked[t]
      BY <2>3 DEF Hold, TypeOK
    <3>2. Waiting(t)
      BY <1>3, <3>1 DEF Place
    <3>3. /\ Len(queue'[t]) = IF sent'[t] < QueueLimit THEN sent'[t] ELSE QueueLimit
          /\ \A i \in DOMAIN queue'[t] : queue'[t][i] = i
      <4>0. Len(queue[t]) = IF sent[t] < QueueLimit THEN sent[t] ELSE QueueLimit
        BY <3>2 DEF Waiting
      <4>1. CASE sent[t] < QueueLimit
        <5>1. Len(queue[t]) = sent[t] /\ queue'[t] = Append(queue[t], sent'[t])
          BY <1>3, <3>1, <4>0, <4>1
        <5>2. /\ DOMAIN queue'[t] = 1..(Len(queue[t]) + 1) /\ Len(queue'[t]) = Len(queue[t]) + 1
              /\ \A i \in 1..Len(queue[t]) : queue'[t][i] = queue[t][i]
              /\ queue'[t][Len(queue[t]) + 1] = sent'[t]
              /\ DOMAIN queue[t] = 1..Len(queue[t]) /\ Len(queue[t]) \in Nat
          BY <1>3, <5>1, AppendIs
        <5>3. \A i \in DOMAIN queue'[t] : i \in DOMAIN queue[t] \/ i = Len(queue[t]) + 1
          BY <5>2
        <5>4. \A i \in DOMAIN queue'[t] : queue'[t][i] = i
          BY <1>3, <3>2, <5>1, <5>2, <5>3 DEF Waiting
        <5>5. Len(queue'[t]) = sent'[t] /\ sent'[t] <= QueueLimit
          BY <1>3, <4>1, <5>1, <5>2
        <5>. QED  BY <1>3, <5>4, <5>5
      <4>2. CASE ~(sent[t] < QueueLimit)
        <5>1. queue'[t] = queue[t] /\ Len(queue[t]) = QueueLimit
          BY <1>3, <3>1, <4>0, <4>2
        <5>2. ~(sent'[t] < QueueLimit)
          BY <1>3, <4>2
        <5>. QED  BY <3>2, <5>1, <5>2 DEF Waiting
      <4>. QED  BY <4>1, <4>2
    <3>4. Waiting(t)'
      BY <1>3, <3>1, <3>2, <3>3 DEF Waiting
    <3>. QED  BY <3>1, <3>4 DEF Place
  <2>4. CASE Ask(s, t)
    <3>1. /\ verdicts[t] = "none" /\ verdicts'[t] = "pending"
          /\ queue'[t] = <<sent'[t]>> /\ asked'[t] = asked[t] + 1 /\ upstream'[t] = upstream[t]
      BY <2>4 DEF Ask, TypeOK
    <3>2. Untouched(t)
      BY <1>3, <3>1 DEF Place
    <3>3. sent'[t] = 1 /\ asked'[t] = 1 /\ upstream'[t] = <<>>
      BY <1>3, <3>1, <3>2 DEF Untouched
    <3>4. Len(<<1>>) = 1 /\ \A i \in DOMAIN <<1>> : <<1>>[i] = i
      OBVIOUS
    <3>5. Waiting(t)'
      BY <1>3, <3>1, <3>3, <3>4 DEF Waiting
    <3>. QED  BY <3>1, <3>5 DEF Place
  <2>. QED  BY <2>1, <2>2, <2>3, <2>4 DEF Receive
<1>. QED  BY <1>4, <1>5 DEF Places

\* The verdict hands over what was held, or drops it.
LEMMA PlaceSettle ==
  ASSUME TypeOK, Underway, Places, Settle
  PROVE  Places'
<1>1. PICK t \in Targets, allowed \in BOOLEAN :
        /\ decided # <<>> /\ decided[1][1] = t
        /\ verdicts' = [verdicts EXCEPT ![t] = IF allowed THEN "allowed" ELSE "denied"]
        /\ upstream' = IF allowed THEN [upstream EXCEPT ![t] = @ \o queue[t]] ELSE upstream
        /\ queue' = [queue EXCEPT ![t] = <<>>]
        /\ settledAt' = [settledAt EXCEPT ![t] = sent[t]]
  BY SettleIs
<1>2. sent' = sent /\ asked' = asked
  BY DEF Settle
<1>3. verdicts[t] = "pending"
  <2>1. 1 \in DOMAIN decided
    <3>1. decided \in Seq(Targets \X BOOLEAN)
      BY DEF TypeOK
    <3>. QED  BY <1>1, <3>1, TailIs
  <2>. QED  BY <1>1, <2>1 DEF Underway
<1>4. Waiting(t)
  BY <1>3 DEF Places, Place
<1>5. ASSUME NEW u \in Targets \ {t} PROVE Place(u)'
  <2>1. /\ verdicts'[u] = verdicts[u] /\ queue'[u] = queue[u] /\ sent'[u] = sent[u]
        /\ upstream'[u] = upstream[u] /\ asked'[u] = asked[u] /\ settledAt'[u] = settledAt[u]
    BY <1>1, <1>2 DEF TypeOK
  <2>. QED  BY <2>1, PlaceKept DEF Places
<1>6. Place(t)'
  <2>1. CASE allowed
    <3>1. /\ verdicts'[t] = "allowed" /\ settledAt'[t] = sent[t] /\ sent'[t] = sent[t]
          /\ asked'[t] = 1 /\ upstream'[t] = upstream[t] \o queue[t]
      BY <1>1, <1>2, <1>4, <2>1 DEF TypeOK, Waiting
    <3>2. queue[t] \in Seq(1..MaxSent) /\ sent[t] \in 0..MaxSent /\ MaxSent \in Nat
          /\ QueueLimit \in Nat \ {0}
      BY RelayAssumption DEF TypeOK
    <3>3. upstream'[t] = queue[t]
      BY <1>4, <3>1, <3>2, ConcatEmpty DEF Waiting
    <3>4. /\ Len(queue[t]) = IF sent[t] < QueueLimit THEN sent[t] ELSE QueueLimit
          /\ sent[t] > 0 /\ \A i \in DOMAIN queue[t] : queue[t][i] = i
      BY <1>4 DEF Waiting
    <3>5. DOMAIN queue[t] = 1..Len(queue[t]) /\ Len(queue[t]) \in Nat
      BY <3>2
    <3>6. queue[t] # <<>>
      BY <3>2, <3>4
    <3>7. Increasing(queue[t])
      BY <3>4, <3>5, SMTT(30) DEF Increasing
    <3>8. \A i \in DOMAIN queue[t] : queue[t][i] <= sent[t]
      BY <3>2, <3>4, <3>5
    <3>9. ASSUME NEW n \in Lost(t)' PROVE QueueLimit < n /\ n <= sent[t]
      <4>1. n \in 1..sent[t] /\ \A i \in DOMAIN queue[t] : queue[t][i] # n
        BY <3>1, <3>3, <3>9 DEF Lost
      <4>2. ~(n <= Len(queue[t]))
        BY <3>4, <3>5, <4>1
      <4>. QED  BY <3>2, <3>4, <4>1, <4>2
    <3>10. Reached(t)'
      BY <3>1, <3>2, <3>3, <3>6, <3>7, <3>8, <3>9 DEF Reached
    <3>. QED  BY <3>1, <3>10 DEF Place
  <2>2. CASE ~allowed
    <3>1. verdicts'[t] = "denied" /\ asked'[t] = 1 /\ upstream'[t] = <<>>
      BY <1>1, <1>2, <1>4, <2>2 DEF TypeOK, Waiting
    <3>. QED  BY <3>1 DEF Place, Refused
  <2>. QED  BY <2>1, <2>2
<1>. QED  BY <1>5, <1>6 DEF Places

LEMMA PlacesStep ==
  ASSUME TypeOK, Underway, Places, [Next]_vars
  PROVE  Places'
<1>1. ASSUME UNCHANGED <<verdicts, queue, sent, upstream, asked, settledAt>> PROVE Places'
  BY <1>1, PlaceKept DEF Places
<1>2. CASE Open
  BY <1>1, <1>2 DEF Open, loop
<1>3. ASSUME NEW s \in Senders, ReceiveUnusable(s) PROVE Places'
  BY <1>1, <1>3 DEF ReceiveUnusable
<1>4. ASSUME NEW s \in Senders, NEW t \in Targets, Receive(s, t) PROVE Places'
  BY <1>4, PlaceDatagram
<1>5. ASSUME NEW t \in Targets, Reply(t) PROVE Places'
  BY <1>1, <1>5 DEF Reply, loop
<1>6. ASSUME NEW t \in Targets, NEW allowed \in BOOLEAN, Admitted(t, allowed) PROVE Places'
  BY <1>1, <1>6 DEF Admitted, loop
<1>7. CASE Settle
  BY <1>7, PlaceSettle
<1>8. CASE Close
  BY <1>1, <1>8 DEF Close, loop
<1>9. CASE UNCHANGED vars
  BY <1>1, <1>9 DEF vars, loop
<1>. QED
  BY <1>2, <1>3, <1>4, <1>5, <1>6, <1>7, <1>8, <1>9 DEF Next, Relay

-----------------------------------------------------------------------------
(* Replies, and the whole.                                                 *)

\* What has been sent to a target stays sent.
LEMMA UpstreamStays ==
  ASSUME TypeOK, [Next]_vars, NEW t \in Targets, upstream[t] # <<>>, Underway, Places
  PROVE  upstream'[t] # <<>>
<1>1. ~Untouched(t) /\ ~Waiting(t) /\ ~Refused(t)
  BY DEF Untouched, Waiting, Refused
<1>2. verdicts[t] = "allowed"
  BY <1>1 DEF Places, Place, TypeOK
<1>3. verdicts'[t] = "allowed"
  <2>1. CASE Settle
    <3>1. PICK u \in Targets, allowed \in BOOLEAN :
            /\ decided # <<>> /\ decided[1][1] = u
            /\ verdicts' = [verdicts EXCEPT ![u] = IF allowed THEN "allowed" ELSE "denied"]
      BY <2>1, SettleIs
    <3>2. verdicts[u] = "pending"
      <4>1. decided \in Seq(Targets \X BOOLEAN)
        BY DEF TypeOK
      <4>2. 1 \in DOMAIN decided
        BY <3>1, <4>1, TailIs
      <4>. QED  BY <3>1, <4>2 DEF Underway
    <3>. QED  BY <1>2, <3>1, <3>2 DEF TypeOK
  <2>2. ASSUME NEW s \in Senders, NEW u \in Targets, Ask(s, u) PROVE verdicts'[t] = "allowed"
    BY <1>2, <2>2 DEF Ask, TypeOK
  <2>3. CASE UNCHANGED verdicts
    BY <1>2, <2>3
  <2>. QED
    BY <2>1, <2>2, <2>3 DEF Next, Relay, Open, Close, Reply, Admitted, ReceiveUnusable, Receive,
       Forward, Refuse, Hold, Datagram, loop, vars
<1>4. Place(t)'
  BY PlacesStep DEF Places
<1>. QED  BY <1>3, <1>4 DEF Place, Reached

LEMMA RepliesStep ==
  ASSUME IInv, [Next]_vars
  PROVE  RepliesAnswered'
<1>1. TypeOK /\ Underway /\ Places /\ RepliesAnswered
  BY DEF IInv
<1>2. ASSUME NEW t \in replies PROVE upstream'[t] # <<>>
  BY <1>1, <1>2, UpstreamStays DEF RepliesAnswered, TypeOK
<1>3. ASSUME NEW t \in Targets, Reply(t) PROVE RepliesAnswered'
  <2>1. replies' = replies \cup {t} /\ upstream' = upstream /\ verdicts[t] = "allowed"
    BY <1>3 DEF Reply
  <2>2. upstream[t] # <<>>
    BY <1>1, <2>1 DEF Places, Place, Reached
  <2>. QED  BY <1>2, <2>1, <2>2 DEF RepliesAnswered
<1>4. CASE UNCHANGED replies
  BY <1>2, <1>4 DEF RepliesAnswered
<1>. QED
  BY <1>3, <1>4 DEF Next, Relay, Open, Close, Settle, Admitted, ReceiveUnusable, Receive,
     Forward, Refuse, Hold, Ask, Datagram, vars

LEMMA InitialIInv == Init => IInv
<1>. SUFFICES ASSUME Init PROVE IInv
  OBVIOUS
<1>1. TypeOK
  <2>1. <<>> \in Seq(1..MaxSent) /\ <<>> \in Seq(Targets \X BOOLEAN) /\ Len(<<>>) = 0
    OBVIOUS
  <2>2. /\ queue \in [Targets -> Seq(1..MaxSent)] /\ upstream \in [Targets -> Seq(1..MaxSent)]
        /\ decided \in Seq(Targets \X BOOLEAN)
    BY <2>1 DEF Init
  <2>3. \A t \in Targets : Len(queue[t]) <= QueueLimit
    BY <2>1, RelayAssumption DEF Init
  <2>4. 0 \in 0..MaxSent
    BY RelayAssumption
  <2>5. sent \in [Targets -> 0..MaxSent] /\ settledAt \in [Targets -> 0..MaxSent]
    BY <2>4 DEF Init
  <2>. QED  BY <2>2, <2>3, <2>5 DEF Init, TypeOK
<1>2. Underway
  BY DEF Init, Underway
<1>3. Places
  BY DEF Init, Places, Place, Untouched
<1>4. RepliesAnswered
  BY DEF Init, RepliesAnswered
<1>. QED  BY <1>1, <1>2, <1>3, <1>4 DEF IInv

LEMMA InductiveIInv == IInv /\ [Next]_vars => IInv'
  BY TypeStep, UnderwayStep, PlacesStep, RepliesStep DEF IInv

\* What is forwarded was asked about, and in which order.
LEMMA IInvSuffices == IInv => AsksOnce /\ LossOnlyByOverflow /\ RepliesAnswered
<1>. SUFFICES ASSUME IInv PROVE AsksOnce /\ LossOnlyByOverflow /\ RepliesAnswered
  OBVIOUS
<1>1. ASSUME NEW t \in Targets
      PROVE  /\ asked[t] <= 1 /\ Increasing(upstream[t])
             /\ verdicts[t] = "allowed" => \A n \in Lost(t) : QueueLimit < n /\ n <= settledAt[t]
  <2>1. Untouched(t) \/ Waiting(t) \/ Reached(t) \/ Refused(t)
    BY DEF IInv, TypeOK, Places, Place
  <2>2. Increasing(<<>>)
    BY DEF Increasing
  <2>3. asked[t] <= 1
    BY <2>1 DEF Untouched, Waiting, Reached, Refused
  <2>4. Increasing(upstream[t])
    BY <2>1, <2>2 DEF Untouched, Waiting, Reached, Refused
  <2>5. verdicts[t] = "allowed" => Reached(t)
    BY DEF IInv, Places, Place
  <2>. QED  BY <2>3, <2>4, <2>5 DEF Reached
<1>. QED  BY <1>1 DEF AsksOnce, LossOnlyByOverflow, IInv

LEMMA RelayInvariant == Spec => []IInv
  BY InitialIInv, InductiveIInv, PTL DEF Spec

\* Every variable of the relay keeps to its values, and no queue outgrows
\* PENDING_QUEUE_LIMIT.
THEOREM RelayTyping == Spec => []TypeOK
<1>1. IInv => TypeOK
  BY DEF IInv
<1>. QED  BY <1>1, RelayInvariant, PTL

\* A human is asked once per destination of an association (associate(),
\* udp.rs), however many datagrams arrive before the answer.
THEOREM AskedOnce == Spec => []AsksOnce
  BY IInvSuffices, RelayInvariant, PTL

\* The handover from the held queue to direct sending neither loses nor
\* reorders a datagram that the queue had room for (udp.rs).
THEOREM NothingElseLost == Spec => []LossOnlyByOverflow
  BY IInvSuffices, RelayInvariant, PTL

\* Nobody replies who has not been sent something (forward_reply(), udp.rs).
THEOREM OnlyReachedReply == Spec => []RepliesAnswered
  BY IInvSuffices, RelayInvariant, PTL

-----------------------------------------------------------------------------
(* The association within a connection.                                    *)

\* A step of the handler is one of the association's, or none.
LEMMA StepsRelay == [MediatorNext]_allVars => [Next]_vars
<1>. SUFFICES ASSUME [MediatorNext]_allVars PROVE [Next]_vars
  OBVIOUS
<1>1. CASE Relaying
  BY <1>1 DEF Relaying, Next
<1>2. ASSUME NEW command, NEW address, Request(command, address) PROVE [Next]_vars
  BY <1>2 DEF Request, Next, Rest
<1>3. CASE TornDown \/ ControlClosed
  BY <1>3 DEF TornDown, ControlClosed, Next
<1>4. CASE Broken \/ Withdraw \/ Connected \/ NotConnected \/ Spliced
  BY <1>4 DEF Broken, Withdraw, Connected, NotConnected, Spliced, Rest
<1>5. ASSUME NEW b \in BOOLEAN, Greeting(b) \/ Resolve(b) \/ Decided(b) PROVE [Next]_vars
  BY <1>5 DEF Greeting, Resolve, Decided, Rest
<1>6. ASSUME NEW name, NEW password, Credentials(name, password) PROVE [Next]_vars
  BY <1>6 DEF Credentials, Rest
<1>7. CASE Leave \/ SendEarly \/ Retire
  BY <1>7 DEF Leave, SendEarly, Retire
<1>8. CASE UNCHANGED allVars
  BY <1>8 DEF allVars
<1>. QED
  BY <1>1, <1>2, <1>3, <1>4, <1>5, <1>6, <1>7, <1>8 DEF MediatorNext

\* The handler of a connection (mediator/mod.rs) implements the relay: it opens
\* it, lets it run, and closes it.
THEOREM MediatorRelays == MediatorSpec => Spec
<1>1. MediatorInit => Init
  BY DEF MediatorInit
<1>. QED  BY <1>1, StepsRelay, PTL DEF MediatorSpec, Spec

\* Within a connection too a human is asked once per destination.
THEOREM MediatorAsksOnce == MediatorSpec => []AsksOnce
  BY MediatorRelays, AskedOnce, PTL

\* Within a connection too only what finds the queue full is lost.
THEOREM MediatorLosesNothingElse == MediatorSpec => []LossOnlyByOverflow
  BY MediatorRelays, NothingElseLost, PTL

\* Within a connection too only destinations that were reached reply.
THEOREM MediatorReplies == MediatorSpec => []RepliesAnswered
  BY MediatorRelays, OnlyReachedReply, PTL

=============================================================================
