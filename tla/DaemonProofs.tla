----------------------------- MODULE DaemonProofs -----------------------------
(***************************************************************************)
(* What module Daemon promises, for any number of commands and broker      *)
(* processes.  The lock is what it all hangs on: IInv says what a broker   *)
(* in each phase may count on, and what a command may count on that no     *)
(* broker has disturbed.                                                   *)
(***************************************************************************)
EXTENDS Daemon, TLAPS

Phases == {"off", "started", "locked", "clear", "bound", "serving", "stopping", "unlinked", "ending"}
Stops == {"idle", "load", "create", "write"} \cup Asking

Commands == [cmd : {"none", "up", "start", "stop"}, at : Stops,
             secret : Clients \cup {NoFile, Torn}, result : {"none", "ok", "failed"}]
Wires == [to : Brokers \cup {NoOne},
          state : {"closed", "lost", "queued", "accepted", "handled", "refused"}]

DaemonTypeOK ==
  /\ phase \in [Brokers -> Phases]
  /\ lock \in Brokers \cup {NoOne}
  /\ sock \in Brokers \cup {NoOne, Stale}
  /\ port \in Brokers \cup {NoOne}
  /\ kept \in BOOLEAN
  /\ told \in SUBSET Brokers
  /\ file \in Clients \cup {NoFile, Torn}
  /\ client \in [Clients -> Commands]
  /\ wire \in [Clients -> Wires]
  /\ cause \in SUBSET Clients

\* Only a command that asks has a connection.
Asks == \A c \in Clients : client[c].at \notin Asking => wire[c] = Closed

\* The lock is held from Lock to the end of Leave, the socket from Bind to
\* its beginning, and there is no other while the next one is made.
Locks == {"locked", "clear", "bound", "serving", "stopping", "unlinked"}
Names == {"bound", "serving", "stopping"}
Serves == {"serving", "stopping", "unlinked", "ending"}

Held ==
  /\ \A b \in Brokers : phase[b] \in Locks <=> lock = b
  /\ \A b \in Brokers : phase[b] \in Names <=> sock = b
  /\ \A b \in Brokers : phase[b] = "clear" => sock = NoOne

\* Whoever is connected is connected to a process that is there, and so is
\* the port.
Served ==
  /\ \A b \in Brokers : port = b => phase[b] \in Serves
  /\ \A c \in Clients : wire[c].state = "queued" => wire[c].to \in Brokers /\ phase[wire[c].to] \in Listening
  /\ \A c \in Clients : wire[c].state \in {"accepted", "handled", "refused"} =>
                          wire[c].to \in Brokers /\ phase[wire[c].to] \in Serves
  /\ \A c \in Clients : wire[c].state \in {"closed", "lost"} => wire[c].to = NoOne

\* A command that no end of a broker has disturbed may count on a broker.
Hopeful ==
  /\ (\E b \in Brokers : phase[b] \in Leaving) => Active \subseteq cause
  /\ \A c \in Clients \ cause :
       /\ client[c].at = "poll" => \E b \in Brokers : phase[b] \in Coming
       /\ client[c].at = "register" =>
            (\E b \in Brokers : phase[b] = "serving") /\ wire[c].state \notin {"lost", "refused"}
  /\ \A c \in Clients : client[c].at \in {"check", "shutdown", "wait"} => client[c].cmd = "stop"

\* The file is written by the one that created it.
Written ==
  /\ file = NoFile => \A c \in Clients : client[c].secret = NoFile /\ client[c].at # "write"
  /\ \A c \in Clients : client[c].at = "write" => file = Torn
  /\ \A c, d \in Clients : client[c].at = "write" /\ client[d].at = "write" => c = d

IInv ==
  DaemonTypeOK /\ Asks /\ Held /\ Served /\ Hopeful /\ Written /\ StartFailsForCause /\ PasswordsAgree

-----------------------------------------------------------------------------
(* Types.                                                                  *)

LEMMA TypeEnds ==
  ASSUME DaemonTypeOK, NEW b \in Brokers, Ends(b), cause' \in SUBSET Clients
  PROVE  DaemonTypeOK'
  BY DEF DaemonTypeOK, Ends, Phases, Wires, Commands, Stops, Asking

LEMMA TypeBroker ==
  ASSUME DaemonTypeOK, NEW b \in Brokers, BrokerStep(b)
  PROVE  DaemonTypeOK'
<1>1. Active \subseteq Clients /\ cause \in SUBSET Clients
  BY DEF Active, DaemonTypeOK
<1>2. CASE Ends(b)
  <2>1. cause' \in SUBSET Clients
    BY <1>1, <1>2 DEF BrokerStep, Ends, Moves, Lock, Clear, Bind, Misconfigured, Restore, Break, Leave,
       Exit, Crash, Accept
  <2>. QED  BY <1>2, <2>1, TypeEnds
<1>3. CASE Lock(b)
  BY <1>2, <1>3 DEF Lock, Moves, DaemonTypeOK, Phases
<1>4. CASE Clear(b)
  BY <1>4 DEF Clear, Moves, DaemonTypeOK, Phases
<1>5. CASE Bind(b)
  BY <1>2, <1>5 DEF Bind, Moves, DaemonTypeOK, Phases
<1>6. CASE Restore(b)
  BY <1>6 DEF Restore, Moves, DaemonTypeOK, Phases
<1>7. CASE Break(b)
  BY <1>1, <1>7 DEF Break, Moves, DaemonTypeOK, Phases
<1>8. CASE Leave(b)
  BY <1>8 DEF Leave, Moves, DaemonTypeOK, Phases
<1>9. ASSUME NEW c \in Clients, Accept(b, c) PROVE DaemonTypeOK'
  BY <1>9 DEF Accept, broker, DaemonTypeOK, Wires
<1>. QED
  BY <1>2, <1>3, <1>4, <1>5, <1>6, <1>7, <1>8, <1>9 DEF BrokerStep, Misconfigured, Exit, Crash

\* The ways a command goes on.
LEMMA TypeMoves ==
  ASSUME DaemonTypeOK, NEW c \in Clients,
         \/ client' = client
         \/ \E at \in Stops : Go(c, at)
         \/ \E result \in {"ok", "failed"} : Finish(c, result)
         \/ \E secret \in Clients \cup {NoFile, Torn} : Exports(c, secret)
  PROVE  client' \in [Clients -> Commands]
<1>1. client \in [Clients -> Commands]
  BY DEF DaemonTypeOK
<1>2. CASE client' = client
  BY <1>1, <1>2
<1>3. ASSUME NEW at \in Stops, Go(c, at) PROVE client' \in [Clients -> Commands]
  BY <1>1, <1>3 DEF Go, Commands
<1>4. ASSUME NEW result \in {"ok", "failed"}, Finish(c, result) PROVE client' \in [Clients -> Commands]
  BY <1>1, <1>4 DEF Finish, Commands, Stops
<1>5. ASSUME NEW secret \in Clients \cup {NoFile, Torn}, Exports(c, secret)
      PROVE client' \in [Clients -> Commands]
  <2>1. client[c] \in Commands
    BY <1>1
  <2>2. [client[c] EXCEPT !.secret = secret, !.at = "probe"] \in Commands
    BY <2>1 DEF Commands, Stops, Asking
  <2>3. client' = [client EXCEPT ![c] = [client[c] EXCEPT !.secret = secret, !.at = "probe"]]
    BY <1>1, <1>5 DEF Exports
  <2>. QED  BY <1>1, <2>2, <2>3
<1>. QED  BY <1>2, <1>3, <1>4, <1>5

LEMMA TypeClient ==
  ASSUME DaemonTypeOK, Asks, Served, NEW c \in Clients, ClientStep(c)
  PROVE  DaemonTypeOK'
<1>0. Closed \in Wires
  BY DEF Closed, Wires
<1>1. ASSUME NEW cmd \in {"up", "start", "stop"}, Begin(c, cmd) PROVE DaemonTypeOK'
  <2>1. PICK at \in {"load", "probe", "check"} :
          client' = [client EXCEPT ![c] =
                       [cmd |-> cmd, secret |-> NoFile, result |-> "none", at |-> at]]
    BY <1>1 DEF Begin
  <2>2. client' \in [Clients -> Commands]
    BY <2>1 DEF DaemonTypeOK, Commands, Stops, Asking
  <2>3. cause' \in SUBSET Clients
    BY <1>1 DEF Begin, DaemonTypeOK
  <2>4. wire' \in [Clients -> Wires]
    BY <1>0, <1>1 DEF Begin, DaemonTypeOK
  <2>. QED  BY <1>1, <2>2, <2>3, <2>4 DEF Begin, broker, DaemonTypeOK
<1>2. CASE LoadSecret(c)
  <2>1. client' \in [Clients -> Commands]
    BY <1>2, TypeMoves DEF LoadSecret, DaemonTypeOK, Stops
  <2>. QED  BY <1>2, <2>1 DEF LoadSecret, broker, DaemonTypeOK
<1>3. CASE CreateSecret(c)
  <2>1. client' \in [Clients -> Commands]
    BY <1>3, TypeMoves DEF CreateSecret, DaemonTypeOK, Stops
  <2>. QED  BY <1>3, <2>1 DEF CreateSecret, broker, DaemonTypeOK
<1>4. CASE WriteSecret(c)
  <2>1. client' \in [Clients -> Commands]
    BY <1>4, TypeMoves DEF WriteSecret
  <2>. QED  BY <1>4, <2>1 DEF WriteSecret, broker, DaemonTypeOK
<1>5. CASE Connect(c)
  <2>1. [to |-> NoOne, state |-> "lost"] \in Wires
    BY DEF Wires
  <2>2. sock \in Brokers => [to |-> sock, state |-> "queued"] \in Wires
    BY DEF Wires
  <2>3. PICK r \in Wires : wire' = [wire EXCEPT ![c] = r]
    BY <1>5, <2>1, <2>2 DEF Connect
  <2>4. wire' \in [Clients -> Wires]
    BY <2>3 DEF DaemonTypeOK
  <2>. QED  BY <1>5, <2>4 DEF Connect, broker, DaemonTypeOK
<1>6. CASE Handle(c)
  <2>1. wire[c].to \in Brokers
    BY <1>6 DEF Handle, Served
  <2>. QED  BY <1>6, <2>1 DEF Handle, DaemonTypeOK, Wires
<1>7. CASE Answered(c)
  <2>1. client[c].at \in Asking
    BY <1>7 DEF Asks, Answered, Closed
  <2>2. client' \in [Clients -> Commands]
    BY <1>7, <2>1, TypeMoves DEF Answered, Connected, Asking, Stops
  <2>3. wire' \in [Clients -> Wires] /\ UNCHANGED <<broker, file, cause>>
    BY <1>0, <1>7 DEF Answered, DaemonTypeOK
  <2>. QED  BY <2>2, <2>3 DEF broker, DaemonTypeOK
<1>8. CASE Unanswered(c)
  <2>1. client[c].at \in Asking
    BY <1>8 DEF Asks, Unanswered, Closed
  <2>2. client' \in [Clients -> Commands]
    BY <1>8, <2>1, TypeMoves DEF Unanswered, Spawn, Asking, Stops
  <2>3. wire' \in [Clients -> Wires] /\ UNCHANGED <<file, cause>>
    BY <1>0, <1>8 DEF Unanswered, DaemonTypeOK
  <2>4. phase' \in [Brokers -> Phases] /\ UNCHANGED <<lock, sock, port, kept, told>>
    BY <1>8, <2>1 DEF Unanswered, Spawn, Moves, Asking, broker, DaemonTypeOK, Phases
  <2>. QED  BY <2>2, <2>3, <2>4 DEF DaemonTypeOK
<1>9. CASE StartTimeout(c)
  <2>1. client' \in [Clients -> Commands]
    BY <1>9, TypeMoves DEF StartTimeout
  <2>. QED  BY <1>9, <2>1 DEF StartTimeout, broker, DaemonTypeOK
<1>10. CASE StopTimeout(c)
  <2>1. client' \in [Clients -> Commands]
    BY <1>10, TypeMoves DEF StopTimeout
  <2>. QED  BY <1>10, <2>1 DEF StopTimeout, broker, DaemonTypeOK
<1>. QED
  BY <1>1, <1>2, <1>3, <1>4, <1>5, <1>6, <1>7, <1>8, <1>9, <1>10 DEF ClientStep

LEMMA TypeStep ==
  ASSUME DaemonTypeOK, Asks, Served, [Next]_vars
  PROVE  DaemonTypeOK'
<1>1. CASE UNCHANGED vars
  BY <1>1 DEF vars, broker, DaemonTypeOK
<1>. QED  BY <1>1, TypeBroker, TypeClient DEF Next

-----------------------------------------------------------------------------
(* Connections, the lock, the socket and the port.                         *)

\* Where an answer, or its absence, leads.
LEMMA Replies ==
  ASSUME Asks, NEW c \in Clients
  PROVE  /\ Answered(c) \/ Unanswered(c) => client[c].at \in Asking
         /\ Answered(c) => Go(c, "register") \/ Go(c, "shutdown") \/ Go(c, "wait") \/ Finish(c, "ok")
         /\ Unanswered(c) => client' = client \/ Go(c, "poll") \/ Finish(c, "ok") \/ Finish(c, "failed")
<1>1. Answered(c) \/ Unanswered(c) => client[c].at \in Asking
  <2>1. wire[c].state # "closed" => client[c].at \in Asking
    BY DEF Asks, Closed
  <2>. QED  BY <2>1 DEF Answered, Unanswered
<1>2. Answered(c) => Connected(c) \/ Go(c, "shutdown") \/ Go(c, "wait") \/ Finish(c, "ok")
  BY <1>1 DEF Answered, Asking
<1>3. Unanswered(c) => client' = client \/ Go(c, "poll") \/ Finish(c, "ok") \/ Finish(c, "failed")
  BY <1>1 DEF Unanswered, Spawn, Asking
<1>. QED  BY <1>1, <1>2, <1>3 DEF Connected

\* A command's step is its own: the others' state and connections stay.
LEMMA OwnStep ==
  ASSUME DaemonTypeOK, Asks, NEW c \in Clients, ClientStep(c)
  PROVE  \A d \in Clients \ {c} : client'[d] = client[d] /\ wire'[d] = wire[d]
<1>1. client \in [Clients -> Commands] /\ wire \in [Clients -> Wires]
  BY DEF DaemonTypeOK
<1>2. ASSUME NEW at, Go(c, at) PROVE \A d \in Clients \ {c} : client'[d] = client[d]
  BY <1>1, <1>2 DEF Go
<1>3. ASSUME NEW result, Finish(c, result) PROVE \A d \in Clients \ {c} : client'[d] = client[d]
  BY <1>1, <1>3 DEF Finish
<1>4. ASSUME NEW secret, Exports(c, secret) PROVE \A d \in Clients \ {c} : client'[d] = client[d]
  BY <1>1, <1>4 DEF Exports
<1>5. ASSUME NEW cmd, Begin(c, cmd) PROVE \A d \in Clients \ {c} : client'[d] = client[d]
  BY <1>1, <1>5 DEF Begin
<1>6. \A d \in Clients \ {c} : client'[d] = client[d]
  <2>1. CASE Answered(c) \/ Unanswered(c)
    BY <2>1, <1>2, <1>3, Replies
  <2>2. CASE Connect(c) \/ Handle(c)
    BY <2>2 DEF Connect, Handle
  <2>3. CASE LoadSecret(c) \/ CreateSecret(c) \/ WriteSecret(c)
    BY <2>3, <1>2, <1>4 DEF LoadSecret, CreateSecret, WriteSecret
  <2>4. CASE StartTimeout(c) \/ StopTimeout(c)
    BY <2>4, <1>3 DEF StartTimeout, StopTimeout
  <2>. QED  BY <1>5, <2>1, <2>2, <2>3, <2>4 DEF ClientStep
<1>7. \A d \in Clients \ {c} : wire'[d] = wire[d]
  <2>1. CASE \E cmd \in {"up", "start", "stop"} : Begin(c, cmd)
    BY <1>1, <2>1 DEF Begin
  <2>2. CASE LoadSecret(c) \/ CreateSecret(c) \/ WriteSecret(c) \/ StartTimeout(c) \/ StopTimeout(c)
    BY <2>2 DEF LoadSecret, CreateSecret, WriteSecret, StartTimeout, StopTimeout
  <2>3. CASE Connect(c) \/ Handle(c) \/ Answered(c) \/ Unanswered(c)
    BY <1>1, <2>3 DEF Connect, Handle, Answered, Unanswered
  <2>. QED  BY <2>1, <2>2, <2>3 DEF ClientStep
<1>. QED  BY <1>6, <1>7

LEMMA AsksStep ==
  ASSUME DaemonTypeOK, Asks, [Next]_vars
  PROVE  Asks'
<1>1. ASSUME NEW b \in Brokers, Ends(b) PROVE Asks'
  BY <1>1, DistinctAssumption DEF Ends, Asks, DaemonTypeOK, Closed, Wires
<1>2. ASSUME NEW b \in Brokers, NEW c \in Clients, Accept(b, c) PROVE Asks'
  BY <1>2 DEF Accept, Asks, DaemonTypeOK, Closed, Wires
<1>3. ASSUME NEW b \in Brokers, UNCHANGED <<client, wire>> PROVE Asks'
  BY <1>3 DEF Asks
<1>4. ASSUME NEW b \in Brokers, BrokerStep(b) PROVE Asks'
  BY <1>1, <1>2, <1>3, <1>4 DEF BrokerStep, Lock, Clear, Bind, Misconfigured, Restore, Break, Leave, Exit, Crash
<1>5. ASSUME NEW c \in Clients, ClientStep(c) PROVE Asks'
  <2>1. wire'[c] = Closed \/ client'[c].at \in Asking
    <3>1. CASE Connect(c) \/ Handle(c)
      BY <3>1 DEF Connect, Handle, Asks, Closed
    <3>2. CASE LoadSecret(c) \/ CreateSecret(c) \/ WriteSecret(c)
      BY <3>2 DEF LoadSecret, CreateSecret, WriteSecret, Asks, Asking
    <3>. QED
      BY <1>5, <3>1, <3>2 DEF ClientStep, Begin, Answered, Unanswered, StartTimeout, StopTimeout, DaemonTypeOK
  <2>. QED  BY <1>5, <2>1, OwnStep DEF Asks
<1>6. CASE UNCHANGED vars
  BY <1>6 DEF vars, Asks
<1>. QED  BY <1>4, <1>5, <1>6 DEF Next

\* Of what the broker has, a command changes only a phase, when it starts
\* one, and what Handle changes on its behalf.
LEMMA BrokerSide ==
  ASSUME DaemonTypeOK, Asks, NEW c \in Clients, ClientStep(c)
  PROVE  \/ UNCHANGED broker
         \/ Unanswered(c) /\ client[c].at = "probe" /\ Spawn(c)
         \/ Handle(c)
<1>1. Unanswered(c) => client[c].at \in Asking
  BY DEF Asks, Unanswered, Closed
<1>2. CASE Unanswered(c)
  BY <1>1, <1>2 DEF Unanswered, Asking
<1>3. CASE \E cmd \in {"up", "start", "stop"} : Begin(c, cmd)
  BY <1>3 DEF Begin
<1>. QED
  BY <1>2, <1>3 DEF ClientStep, LoadSecret, CreateSecret, WriteSecret, Connect, Answered, StartTimeout, StopTimeout

LEMMA HeldStep ==
  ASSUME DaemonTypeOK, Asks, Held, [Next]_vars
  PROVE  Held'
<1>1. ASSUME NEW b \in Brokers, Ends(b) PROVE Held'
  BY <1>1, DistinctAssumption DEF Ends, Held, DaemonTypeOK, Locks, Names
<1>2. ASSUME NEW b \in Brokers, Lock(b) PROVE Held'
  BY <1>1, <1>2, DistinctAssumption DEF Lock, Moves, Held, DaemonTypeOK, Locks, Names
<1>3. ASSUME NEW b \in Brokers, Clear(b) PROVE Held'
  BY <1>3, DistinctAssumption DEF Clear, Moves, Held, DaemonTypeOK, Locks, Names
<1>4. ASSUME NEW b \in Brokers, Bind(b) PROVE Held'
  BY <1>1, <1>4, DistinctAssumption DEF Bind, Moves, Held, DaemonTypeOK, Locks, Names
<1>5. ASSUME NEW b \in Brokers, Restore(b) \/ Break(b) PROVE Held'
  BY <1>5, DistinctAssumption DEF Restore, Break, Moves, Held, DaemonTypeOK, Locks, Names
<1>6. ASSUME NEW b \in Brokers, Leave(b) PROVE Held'
  BY <1>6, DistinctAssumption DEF Leave, Moves, Held, DaemonTypeOK, Locks, Names
<1>7. CASE UNCHANGED <<phase, lock, sock>>
  BY <1>7 DEF Held
<1>8. ASSUME NEW b \in Brokers, BrokerStep(b) PROVE Held'
  BY <1>1, <1>2, <1>3, <1>4, <1>5, <1>6, <1>7, <1>8 DEF BrokerStep, Misconfigured, Exit, Crash, Accept, broker
<1>9. ASSUME NEW c \in Clients, Spawn(c) PROVE Held'
  BY <1>9, DistinctAssumption DEF Spawn, Moves, Held, DaemonTypeOK, Locks, Names
<1>10. ASSUME NEW c \in Clients, ClientStep(c) PROVE Held'
  BY <1>7, <1>9, <1>10, BrokerSide DEF Handle, broker
<1>11. CASE UNCHANGED vars
  BY <1>7, <1>11 DEF vars, broker
<1>. QED  BY <1>8, <1>10, <1>11 DEF Next

LEMMA ServedStep ==
  ASSUME DaemonTypeOK, Asks, Held, Served, [Next]_vars
  PROVE  Served'
<1>1. ASSUME NEW b \in Brokers, Ends(b) PROVE Served'
  BY <1>1, DistinctAssumption DEF Ends, Served, DaemonTypeOK
<1>2. ASSUME NEW b \in Brokers, Lock(b) \/ Clear(b) \/ Bind(b) \/ Break(b) \/ Leave(b) PROVE Served'
  BY <1>1, <1>2 DEF Lock, Clear, Bind, Break, Leave, Moves, Served, DaemonTypeOK, Listening, Serves
<1>3. ASSUME NEW b \in Brokers, Restore(b) PROVE Served'
  BY <1>3, DistinctAssumption DEF Restore, Moves, Served, DaemonTypeOK, Listening, Serves
<1>4. ASSUME NEW b \in Brokers, NEW c \in Clients, Accept(b, c) PROVE Served'
  BY <1>4 DEF Accept, broker, Served, DaemonTypeOK, Wires, Listening, Serves
<1>5. ASSUME NEW b \in Brokers, BrokerStep(b) PROVE Served'
  BY <1>1, <1>2, <1>3, <1>4, <1>5 DEF BrokerStep, Misconfigured, Exit, Crash
<1>6. ASSUME NEW c \in Clients, ClientStep(c) PROVE Served'
  <2>1. CASE Handle(c)
    BY <2>1, DistinctAssumption DEF Handle, Served, DaemonTypeOK, Wires
  <2>2. CASE UNCHANGED wire /\ UNCHANGED broker
    BY <2>2 DEF broker, Served
  <2>3. CASE wire'[c] = Closed /\ UNCHANGED broker
    BY <1>6, <2>3, OwnStep DEF broker, Served, Closed
  <2>4. CASE wire'[c] = Closed /\ UNCHANGED port /\ Spawn(c)
    BY <1>6, <2>4, OwnStep DEF Served, Closed, Spawn, Moves, DaemonTypeOK, Listening, Serves
  <2>5. CASE Connect(c)
    <3>1. wire'[c].state = "queued" => wire'[c].to = sock /\ sock \in Brokers /\ phase[sock] \in Names
      BY <2>5 DEF Connect, DaemonTypeOK, Held
    <3>2. /\ wire'[c].state \in {"lost", "queued"} /\ UNCHANGED broker
          /\ wire'[c].state = "lost" => wire'[c].to = NoOne
      BY <2>5 DEF Connect, DaemonTypeOK
    <3>. QED  BY <1>6, <3>1, <3>2, OwnStep DEF broker, Served, Names, Listening
  <2>6. CASE Unanswered(c)
    BY <1>6, <2>3, <2>4, <2>6, BrokerSide DEF Unanswered, Spawn, Handle, DaemonTypeOK
  <2>7. CASE \E cmd \in {"up", "start", "stop"} : Begin(c, cmd)
    BY <2>3, <2>7 DEF Begin, DaemonTypeOK
  <2>8. CASE Answered(c)
    BY <2>3, <2>8 DEF Answered, DaemonTypeOK
  <2>. QED
    BY <1>6, <2>1, <2>2, <2>5, <2>6, <2>7, <2>8 DEF ClientStep, LoadSecret, CreateSecret, WriteSecret,
       StartTimeout, StopTimeout
<1>7. CASE UNCHANGED vars
  BY <1>7 DEF vars, broker, Served
<1>. QED  BY <1>5, <1>6, <1>7 DEF Next

-----------------------------------------------------------------------------
(* What a command may count on.                                            *)

\* A broker's steps leave the commands where they are and forget no cause.
LEMMA BrokersApart ==
  ASSUME NEW b \in Brokers, BrokerStep(b)
  PROVE  client' = client /\ file' = file /\ cause \subseteq cause'
  BY DEF BrokerStep, Lock, Clear, Bind, Misconfigured, Restore, Break, Leave, Exit, Crash, Accept, Ends

\* A broker comes to an end by itself only where it says so.
LEMMA HopefulBroker ==
  ASSUME DaemonTypeOK, Held, Served, Hopeful, NEW b \in Brokers, BrokerStep(b)
  PROVE  Hopeful'
<1>1. client' = client /\ cause \subseteq cause' /\ Active' = Active
  BY BrokersApart DEF Active
<1>2. Active \subseteq cause \/ \A d \in Brokers : phase[d] \notin Leaving
  BY DEF Hopeful
<1>3. ASSUME \A d \in Brokers : phase'[d] \in Leaving => phase[d] \in Leaving,
             \A d \in Brokers : phase[d] \in Coming => phase'[d] \in Coming,
             \A d \in Brokers : phase[d] = "serving" => phase'[d] = "serving",
             \A c \in Clients : wire'[c].state \in {"lost", "refused"} =>
               wire[c].state \in {"lost", "refused"}
      PROVE Hopeful'
  BY <1>1, <1>3 DEF Hopeful
<1>4. ASSUME Active \subseteq cause' PROVE Hopeful'
  BY <1>1, <1>4 DEF Hopeful, Active
<1>5. CASE Misconfigured(b) \/ Break(b) \/ Crash(b)
  BY <1>4, <1>5 DEF Misconfigured, Break, Crash
<1>6. CASE Exit(b)
  BY <1>1, <1>2, <1>4, <1>6 DEF Exit, Leaving
<1>7. CASE Leave(b)
  BY <1>1, <1>2, <1>4, <1>7 DEF Leave, Moves, Leaving
<1>8. CASE Clear(b) \/ Restore(b)
  BY <1>3, <1>8 DEF Clear, Restore, Moves, DaemonTypeOK, Leaving, Coming
<1>9. CASE Bind(b)
  <2>1. sock = NoOne
    BY <1>9 DEF Bind, Held
  <2>. QED  BY <1>3, <1>9, <2>1 DEF Bind, Moves, DaemonTypeOK, Leaving, Coming
<1>10. ASSUME NEW c \in Clients, Accept(b, c) PROVE Hopeful'
  BY <1>3, <1>10 DEF Accept, broker, DaemonTypeOK
<1>11. CASE Lock(b)
  <2>1. CASE lock = NoOne
    BY <1>3, <1>11, <2>1, DistinctAssumption DEF Lock, Moves, DaemonTypeOK, Leaving, Coming, Held, Locks
  <2>2. CASE lock # NoOne
    <3>1. phase[b] = "started" /\ Ends(b)
      BY <1>11, <2>2 DEF Lock
    <3>2. lock \in Brokers /\ phase[lock] \in Locks /\ lock # b
      BY <2>2, <3>1 DEF DaemonTypeOK, Held, Locks
    <3>3. CASE phase[lock] \in Leaving
      BY <1>1, <1>2, <1>4, <3>2, <3>3
    <3>4. CASE phase[lock] \in Coming
      <4>1. phase'[lock] \in Coming
        BY <3>1, <3>2, <3>4 DEF Ends, DaemonTypeOK
      <4>2. \A c \in Clients : wire'[c] = wire[c]
        BY <3>1, DistinctAssumption DEF Ends, DaemonTypeOK, Served, Wires, Listening, Serves
      <4>3. \A d \in Brokers : phase'[d] \in Leaving => phase[d] \in Leaving
        BY <3>1 DEF Ends, DaemonTypeOK, Leaving
      <4>4. \A d \in Brokers : phase[d] = "serving" => phase'[d] = "serving"
        BY <3>1 DEF Ends, DaemonTypeOK
      <4>. QED  BY <1>1, <3>2, <4>1, <4>2, <4>3, <4>4 DEF Hopeful
    <3>. QED  BY <3>2, <3>3, <3>4 DEF Locks, Leaving, Coming
  <2>. QED  BY <2>1, <2>2
<1>. QED
  BY <1>5, <1>6, <1>7, <1>8, <1>9, <1>10, <1>11 DEF BrokerStep

\* A command keeps its name until the next one begins.
LEMMA Named ==
  ASSUME DaemonTypeOK, Asks, NEW c \in Clients, ClientStep(c)
  PROVE  \/ \E cmd \in {"up", "start", "stop"} : Begin(c, cmd)
         \/ /\ client'[c].cmd = client[c].cmd
            /\ client[c].at # "idle"
            /\ cause \subseteq cause'
<1>1. client \in [Clients -> Commands]
  BY DEF DaemonTypeOK
<1>2. ASSUME NEW at, Go(c, at) PROVE client'[c].cmd = client[c].cmd
  BY <1>1, <1>2 DEF Go, Commands
<1>3. ASSUME NEW result, Finish(c, result) PROVE client'[c].cmd = client[c].cmd
  BY <1>1, <1>3 DEF Finish, Commands
<1>4. ASSUME NEW secret, Exports(c, secret) PROVE client'[c].cmd = client[c].cmd
  BY <1>1, <1>4 DEF Exports, Commands
<1>5. CASE Answered(c) \/ Unanswered(c)
  <2>1. client[c].at \in Asking
    BY <1>5, Replies
  <2>2. client'[c].cmd = client[c].cmd
    BY <1>2, <1>3, <1>5, Replies
  <2>3. cause' = cause
    BY <1>5 DEF Answered, Unanswered
  <2>. QED  BY <2>1, <2>2, <2>3 DEF Asking
<1>6. CASE LoadSecret(c) \/ CreateSecret(c) \/ WriteSecret(c)
  BY <1>2, <1>4, <1>6 DEF LoadSecret, CreateSecret, WriteSecret
<1>7. CASE StartTimeout(c) \/ StopTimeout(c)
  BY <1>3, <1>7 DEF StartTimeout, StopTimeout
<1>8. CASE Connect(c) \/ Handle(c)
  <2>1. client[c].at # "idle"
    BY <1>8 DEF Connect, Handle, Asks, Asking, Closed
  <2>. QED  BY <1>8, <2>1 DEF Connect, Handle
<1>. QED  BY <1>5, <1>6, <1>7, <1>8 DEF ClientStep

LEMMA HopefulClient ==
  ASSUME DaemonTypeOK, Asks, Held, Served, Hopeful, NEW c \in Clients, ClientStep(c)
  PROVE  Hopeful'
<1>1. /\ \A b \in Brokers : phase'[b] \in Leaving <=> phase[b] \in Leaving
      /\ \A b \in Brokers : phase[b] \in Coming => phase'[b] \in Coming
      /\ \A b \in Brokers : phase[b] = "serving" => phase'[b] = "serving"
  BY BrokerSide DEF broker, Handle, Spawn, Moves, DaemonTypeOK, Leaving, Coming
<1>2. \A d \in Clients \ {c} : /\ client'[d] = client[d] /\ wire'[d] = wire[d]
                               /\ d \in cause => d \in cause'
  BY OwnStep, Named DEF Begin
<1>3. (\E b \in Brokers : phase'[b] \in Leaving) => Active' \subseteq cause'
  <2>1. c \in cause' \/ client[c].at # "idle" \/ \A b \in Brokers : phase[b] \notin Leaving
    BY Named DEF Begin
  <2>2. c \in cause /\ client[c].at # "idle" => c \in cause'
    BY Named DEF Begin
  <2>. QED  BY <1>1, <1>2, <2>1, <2>2 DEF Hopeful, Active
<1>4. SUFFICES
        /\ client'[c].at = "poll" /\ c \notin cause' => \E b \in Brokers : phase'[b] \in Coming
        /\ client'[c].at = "register" /\ c \notin cause' =>
             (\E b \in Brokers : phase'[b] = "serving") /\ wire'[c].state \notin {"lost", "refused"}
        /\ client'[c].at \in {"check", "shutdown", "wait"} => client'[c].cmd = "stop"
  BY <1>1, <1>2, <1>3 DEF Hopeful
<1>5. ASSUME NEW cmd \in {"up", "start", "stop"}, Begin(c, cmd)
      PROVE  /\ client'[c].at \notin {"poll", "register"}
             /\ client'[c].at \in {"check", "shutdown", "wait"} => client'[c].cmd = "stop"
  BY <1>5 DEF Begin, DaemonTypeOK
<1>6. CASE LoadSecret(c) \/ CreateSecret(c) \/ WriteSecret(c) \/ StartTimeout(c) \/ StopTimeout(c)
  <2>1. client'[c].at \in {"idle", "create", "write", "probe"}
    BY <1>6 DEF LoadSecret, CreateSecret, WriteSecret, StartTimeout, StopTimeout, Go, Exports, Finish,
       DaemonTypeOK, Commands
  <2>. QED  BY <2>1
<1>7. CASE Connect(c)
  <2>1. client' = client /\ cause' = cause /\ phase' = phase
    BY <1>7 DEF Connect, broker
  <2>2. (\E b \in Brokers : phase[b] = "serving") => wire'[c].state = "queued"
    BY <1>7 DEF Connect, DaemonTypeOK, Held, Names
  <2>. QED  BY <2>1, <2>2 DEF Hopeful
<1>8. CASE Handle(c)
  <2>1. client' = client /\ cause \subseteq cause' /\ phase' = phase
    BY <1>8 DEF Handle
  <2>2. wire'[c].state = "handled" \/ c \in cause'
    BY <1>8 DEF Handle, DaemonTypeOK, Wires
  <2>. QED  BY <2>1, <2>2 DEF Hopeful
<1>9. CASE Answered(c)
  <2>1. client[c].at \in Asking /\ wire'[c].state = "closed" /\ cause' = cause /\ phase' = phase
    BY <1>9, Replies DEF Answered, Closed, DaemonTypeOK, broker
  <2>2. c \in cause \/ \E b \in Brokers : phase[b] = "serving"
    BY <1>9, <2>1 DEF Answered, Served, Hopeful, Active, Asking, Serves, Leaving
  <2>3. client'[c].at \in {"idle", "register", "shutdown", "wait"}
    <3>1. \A at \in Stops : Go(c, at) => client'[c].at = at
      BY DEF Go, DaemonTypeOK, Commands
    <3>2. \A result : Finish(c, result) => client'[c].at = "idle"
      BY DEF Finish, DaemonTypeOK, Commands
    <3>. QED  BY <1>9, <3>1, <3>2, Replies DEF Stops, Asking
  <2>4. client'[c].at \in {"shutdown", "wait"} => client[c].at \in {"check", "shutdown", "wait"}
    <3>1. Go(c, "register") \/ Finish(c, "ok") => client'[c].at \in {"idle", "register"}
      BY DEF Go, Finish, DaemonTypeOK, Commands
    <3>2. client[c].at \in {"probe", "poll", "register"} => Connected(c) \/ Finish(c, "ok")
      BY <1>9 DEF Answered
    <3>3. Connected(c) => Go(c, "register") \/ Finish(c, "ok")
      BY DEF Connected
    <3>. QED  BY <2>1, <3>1, <3>2, <3>3 DEF Asking
  <2>5. client'[c].cmd = client[c].cmd
    BY <1>9, <2>1, Named DEF Begin, Asking
  <2>6. client'[c].at = "poll" \/ client'[c].at = "check" => FALSE
    BY <2>3
  <2>7. client'[c].at \in {"shutdown", "wait"} => client'[c].cmd = "stop"
    BY <2>4, <2>5 DEF Hopeful
  <2>. QED  BY <2>1, <2>2, <2>6, <2>7
<1>10. CASE Unanswered(c)
  <2>1. client[c].at \in Asking /\ wire'[c].state = "closed" /\ cause' = cause
    BY <1>10, Replies DEF Unanswered, Closed, DaemonTypeOK
  <2>2. CASE client[c].at = "probe"
    <3>1. client'[c].at = "poll" /\ \E b \in Brokers : phase'[b] = "started"
      BY <1>10, <2>2 DEF Unanswered, Spawn, Moves, Go, DaemonTypeOK, Commands
    <3>. QED  BY <3>1 DEF Coming
  <2>3. CASE client[c].at = "poll"
    BY <1>1, <1>10, <2>1, <2>3 DEF Unanswered, Hopeful
  <2>4. CASE client[c].at \in Asking \ {"probe", "poll"}
    <3>1. client'[c].at = "idle"
      BY <1>10, <2>4, ZenonT(30) DEF Unanswered, Asking, Finish, DaemonTypeOK, Commands
    <3>. QED  BY <3>1
  <2>. QED  BY <2>1, <2>2, <2>3, <2>4
<1>. QED  BY <1>5, <1>6, <1>7, <1>8, <1>9, <1>10 DEF ClientStep

\* A failure for no cause would be a command's last step without one.
LEMMA FailsStep ==
  ASSUME DaemonTypeOK, Asks, Hopeful, StartFailsForCause, [Next]_vars
  PROVE  StartFailsForCause'
<1>1. CASE client' = client /\ cause \subseteq cause'
  BY <1>1 DEF StartFailsForCause
<1>2. ASSUME NEW c \in Clients, ClientStep(c) PROVE StartFailsForCause'
  <2>1. \A d \in Clients \ {c} : client'[d] = client[d] /\ (d \in cause => d \in cause')
    BY <1>2, OwnStep, Named DEF Begin
  <2>2. SUFFICES client'[c].result = "failed" /\ client'[c].cmd \in {"up", "start"} => c \in cause'
    BY <2>1 DEF StartFailsForCause
  <2>3. CASE \E cmd \in {"up", "start", "stop"} : Begin(c, cmd)
    BY <2>3 DEF Begin, DaemonTypeOK
  <2>4. CASE client'[c].cmd = client[c].cmd /\ cause \subseteq cause'
    <3>1. SUFFICES client'[c].result = "failed" /\ client[c].result # "failed"
                     => c \in cause \/ client[c].cmd = "stop"
      BY <2>4 DEF StartFailsForCause, DaemonTypeOK, Commands
    <3>2. \A at : Go(c, at) => client'[c].result = client[c].result
      BY DEF Go, DaemonTypeOK, Commands
    <3>3. \A secret : Exports(c, secret) => client'[c].result = client[c].result
      BY DEF Exports, DaemonTypeOK, Commands
    <3>4. Finish(c, "ok") => client'[c].result = "ok"
      BY DEF Finish, DaemonTypeOK, Commands
    <3>5. CASE Answered(c)
      BY <3>2, <3>4, <3>5, Replies
    <3>6. CASE Unanswered(c)
      <4>1. client[c].at \in Asking
        BY <3>6, Replies
      <4>2. CASE client[c].at \in {"probe", "poll", "check", "wait"}
        BY <3>2, <3>4, <3>6, <4>2 DEF Unanswered, Spawn
      <4>3. CASE client[c].at \in {"register", "shutdown"}
        BY <3>6, <4>3 DEF Unanswered, Hopeful
      <4>. QED  BY <4>1, <4>2, <4>3 DEF Asking
    <3>7. CASE StartTimeout(c)
      BY <3>7 DEF StartTimeout, Hopeful
    <3>8. CASE LoadSecret(c) \/ CreateSecret(c) \/ WriteSecret(c) \/ Connect(c) \/ Handle(c) \/ StopTimeout(c)
      BY <3>2, <3>3, <3>4, <3>8 DEF LoadSecret, CreateSecret, WriteSecret, Connect, Handle, StopTimeout
    <3>9. CASE \E cmd \in {"up", "start", "stop"} : Begin(c, cmd)
      BY <3>9 DEF Begin, DaemonTypeOK
    <3>. QED  BY <1>2, <3>5, <3>6, <3>7, <3>8, <3>9 DEF ClientStep
  <2>. QED  BY <1>2, <2>3, <2>4, Named
<1>3. ASSUME NEW b \in Brokers, BrokerStep(b) PROVE StartFailsForCause'
  BY <1>1, <1>3, BrokersApart
<1>4. CASE UNCHANGED vars
  BY <1>1, <1>4 DEF vars
<1>. QED  BY <1>2, <1>3, <1>4 DEF Next

-----------------------------------------------------------------------------
(* The password.                                                           *)

LEMMA WrittenStep ==
  ASSUME DaemonTypeOK, Asks, Written, PasswordsAgree, [Next]_vars
  PROVE  Written' /\ PasswordsAgree'
<1>1. CASE client' = client /\ file' = file
  BY <1>1 DEF Written, PasswordsAgree
<1>2. ASSUME NEW c \in Clients, ClientStep(c) PROVE Written' /\ PasswordsAgree'
  <2>1. \A d \in Clients \ {c} : client'[d] = client[d]
    BY <1>2, OwnStep
  <2>2. CASE /\ file' = file /\ client'[c].at # "write"
             /\ client'[c].secret \in {client[c].secret, NoFile, file}
    BY <2>1, <2>2 DEF Written, PasswordsAgree
  <2>3. CASE \E cmd \in {"up", "start", "stop"} : Begin(c, cmd)
    BY <2>2, <2>3 DEF Begin, DaemonTypeOK
  <2>4. CASE LoadSecret(c)
    BY <2>2, <2>4 DEF LoadSecret, Go, Exports, DaemonTypeOK, Commands
  <2>5. CASE CreateSecret(c)
    <3>1. CASE file # NoFile
      BY <2>2, <2>5, <3>1 DEF CreateSecret, Exports, DaemonTypeOK, Commands
    <3>2. CASE file = NoFile
      <4>1. client'[c].at = "write" /\ client'[c].secret = client[c].secret /\ file' = Torn
        BY <2>5, <3>2 DEF CreateSecret, Go, DaemonTypeOK, Commands
      <4>. QED  BY <2>1, <3>2, <4>1, DistinctAssumption DEF Written, PasswordsAgree
    <3>. QED  BY <3>1, <3>2
  <2>6. CASE WriteSecret(c)
    <3>1. client'[c].at = "probe" /\ client'[c].secret = c /\ file' = c /\ file = Torn
      BY <2>6 DEF WriteSecret, Exports, Written, DaemonTypeOK, Commands
    <3>2. \A d \in Clients \ {c} : client[d].at # "write"
      BY <2>6 DEF WriteSecret, Written
    <3>. QED  BY <2>1, <3>1, <3>2, DistinctAssumption DEF Written, PasswordsAgree
  <2>7. CASE Connect(c) \/ Handle(c)
    BY <1>1, <2>7 DEF Connect, Handle
  <2>8. CASE Answered(c) \/ Unanswered(c) \/ StartTimeout(c) \/ StopTimeout(c)
    <3>1. file' = file
      BY <2>8 DEF Answered, Unanswered, StartTimeout, StopTimeout
    <3>2. \A at : Go(c, at) => client'[c].at = at /\ client'[c].secret = client[c].secret
      BY DEF Go, DaemonTypeOK, Commands
    <3>3. \A result : Finish(c, result) => client'[c].at = "idle" /\ client'[c].secret = client[c].secret
      BY DEF Finish, DaemonTypeOK, Commands
    <3>4. client' = client \/ (client'[c].at # "write" /\ client'[c].secret = client[c].secret)
      BY <2>8, <3>2, <3>3, Replies DEF StartTimeout, StopTimeout
    <3>. QED  BY <1>1, <2>2, <3>1, <3>4
  <2>. QED  BY <1>2, <2>3, <2>4, <2>5, <2>6, <2>7, <2>8 DEF ClientStep
<1>3. ASSUME NEW b \in Brokers, BrokerStep(b) PROVE Written' /\ PasswordsAgree'
  BY <1>1, <1>3, BrokersApart
<1>4. CASE UNCHANGED vars
  BY <1>1, <1>4 DEF vars
<1>. QED  BY <1>2, <1>3, <1>4 DEF Next

-----------------------------------------------------------------------------
(* The promises.                                                           *)

LEMMA Invariance == Spec => []IInv
<1>1. Init => IInv
  <2>1. Init => DaemonTypeOK
    <3>1. Idle \in Commands /\ Closed \in Wires /\ "off" \in Phases
      BY DEF Idle, Closed, Commands, Stops, Wires, Phases
    <3>. QED  BY <3>1 DEF Init, DaemonTypeOK
  <2>2. Init => Asks /\ Served /\ Written /\ StartFailsForCause /\ PasswordsAgree
    BY DistinctAssumption DEF Init, Asks, Asking, Served, Written, StartFailsForCause, PasswordsAgree, Idle, Closed
  <2>3. Init => Held /\ Hopeful
    BY DistinctAssumption DEF Init, Held, Hopeful, Idle, Closed, Locks, Names, Leaving
  <2>. QED  BY <2>1, <2>2, <2>3 DEF IInv
<1>2. IInv /\ [Next]_vars => IInv'
  <2>1. SUFFICES ASSUME IInv, [Next]_vars PROVE IInv'
    OBVIOUS
  <2>2. DaemonTypeOK' /\ Asks' /\ Held' /\ Served'
    BY <2>1, TypeStep, AsksStep, HeldStep, ServedStep DEF IInv
  <2>3. Hopeful'
    <3>1. CASE UNCHANGED vars
      BY <2>1, <3>1 DEF IInv, Hopeful, Active, vars, broker
    <3>. QED  BY <2>1, <3>1, HopefulBroker, HopefulClient DEF IInv, Next
  <2>4. Written' /\ StartFailsForCause' /\ PasswordsAgree'
    BY <2>1, FailsStep, WrittenStep DEF IInv
  <2>. QED  BY <2>2, <2>3, <2>4 DEF IInv
<1>. QED  BY <1>1, <1>2, PTL DEF Spec

\* The variables of a broker, a command and a connection keep their types.
THEOREM DaemonTyping == Spec => []DaemonTypeOK
<1>1. IInv => DaemonTypeOK
  BY DEF IInv
<1>. QED  BY <1>1, Invariance, PTL

\* A broker that serves holds the lock and is the one that admin.sock names
\* (daemon.rs:40-87), however many are started and killed.
THEOREM Reachable == Spec => []ServingIsReachable
<1>1. IInv => ServingIsReachable
  BY DEF IInv, Held, Locks, Names, ServingIsReachable
<1>. QED  BY <1>1, Invariance, PTL

\* `up` and `broker start` fail only if a broker ended, was killed or was
\* misconfigured while they ran.
THEOREM FailsForCause == Spec => []StartFailsForCause
<1>1. IInv => StartFailsForCause
  BY DEF IInv
<1>. QED  BY <1>1, Invariance, PTL

\* Commands that race to make the password agree on it (secret.rs:48-76).
THEOREM Agreement == Spec => []PasswordsAgree
<1>1. IInv => PasswordsAgree
  BY DEF IInv
<1>. QED  BY <1>1, Invariance, PTL

\* A restart drops the sandbox from registry.json only while the port is
\* with a broker that has given up the lock.
THEOREM NotForgotten == Spec => RegistrationIsKept
<1>1. IInv /\ [Next]_vars => (kept' \/ ~kept \/ \E b \in Brokers : phase[b] = "ending" /\ port = b) \/ UNCHANGED vars
  <2>1. SUFFICES ASSUME IInv, Next, kept, ~kept'
                 PROVE  \E b \in Brokers : phase[b] = "ending" /\ port = b
    OBVIOUS
  <2>2. \A c \in Clients : ~ClientStep(c)
    BY <2>1, BrokerSide DEF IInv, broker, Spawn, Handle
  <2>3. PICK b \in Brokers : Restore(b)
    BY <2>1, <2>2 DEF Next, BrokerStep, Lock, Clear, Bind, Misconfigured, Break, Leave, Exit, Crash, Accept,
       broker, Ends
  <2>4. port \in Brokers /\ phase[port] \in Serves /\ phase[b] = "bound"
    BY <2>1, <2>3 DEF IInv, Restore, Moves, DaemonTypeOK, Served
  <2>5. lock = b /\ phase[port] \notin Locks
    BY <2>1, <2>4 DEF IInv, Held, Locks, Serves
  <2>. QED  BY <2>4, <2>5 DEF Serves, Locks
<1>. QED  BY <1>1, Invariance, PTL DEF Spec, RegistrationIsKept

=============================================================================
