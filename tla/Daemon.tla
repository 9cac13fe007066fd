-------------------------------- MODULE Daemon --------------------------------
(***************************************************************************)
(* One broker per microkitchen home, and the commands that start it on     *)
(* demand, use it and stop it: the life of a broker process                *)
(* (broker/daemon.rs), a request over the admin socket (broker/client.rs), *)
(* `broker start` and `broker stop` (cli/broker.rs), and the password that *)
(* a command makes and exports before anything else (state/secret.rs,      *)
(* cli/mod.rs).                                                            *)
(*                                                                         *)
(* There is one sandbox.  What the broker does with a registration is      *)
(* Registry's subject; of it this module keeps the listeners' port and     *)
(* whether registry.json has the sandbox.  The lock and the sockets of a   *)
(* process are the kernel's: they go when the process goes, however it     *)
(* ends, and the name of its admin socket stays.                           *)
(***************************************************************************)
EXTENDS FiniteSets

CONSTANTS
  Clients,     \* microkitchen processes at work at one time
  Brokers,     \* broker processes at one time: bounds what clients spawn
  Faults,      \* what may happen: "crash", "signal", "settings"
  NoOne,       \* no process
  Stale,       \* the socket's name, left by a process that is gone
  NoFile, Torn \* proxy-secret: absent, created and not yet written

ASSUME FaultAssumption == Faults \subseteq {"crash", "signal", "settings"}
ASSUME DistinctAssumption ==
  /\ NoOne \notin Brokers /\ Stale \notin Brokers
  /\ NoFile \notin Clients /\ Torn \notin Clients /\ NoFile # Torn

VARIABLES
  phase,      \* each broker process
  lock,       \* who holds broker.lock
  sock,       \* whose listener admin.sock names
  port,       \* who listens on the sandbox's port
  kept,       \* registry.json has the sandbox
  told,       \* the brokers whose shutdown token is cancelled
  file,       \* proxy-secret: who made the password it holds
  client,     \* each command
  wire,       \* each command's connection to a broker
  cause       \* history: the commands that overlapped an end of a broker

broker == <<phase, lock, sock, port, kept, told>>
vars == <<broker, file, client, wire, cause>>

\* From Bind on, connections to the socket succeed.
Listening == {"bound", "serving", "stopping", "unlinked", "ending"}
Leaving == {"stopping", "unlinked", "ending"}

Idle == [cmd |-> "none", at |-> "idle", secret |-> NoFile, result |-> "none"]
Closed == [to |-> NoOne, state |-> "closed"]

Init ==
  /\ phase = [b \in Brokers |-> "off"]
  /\ lock = NoOne /\ sock = NoOne /\ port = NoOne
  /\ kept = FALSE /\ told = {}
  /\ file = NoFile
  /\ client = [c \in Clients |-> Idle]
  /\ wire = [c \in Clients |-> Closed]
  /\ cause = {}

Active == {c \in Clients : client[c].at # "idle"}
Go(c, at) == client' = [client EXCEPT ![c].at = at]
Finish(c, result) == client' = [client EXCEPT ![c].at = "idle", ![c].result = result]

-----------------------------------------------------------------------------
(* run(): the broker process.                                              *)

\* The process ends: the kernel takes back its lock, its sockets and its
\* connections.
Ends(b) ==
  /\ phase' = [phase EXCEPT ![b] = "off"]
  /\ lock' = IF lock = b THEN NoOne ELSE lock
  /\ sock' = IF sock = b THEN Stale ELSE sock
  /\ port' = IF port = b THEN NoOne ELSE port
  /\ told' = told \ {b}
  /\ wire' = [c \in Clients |-> IF wire[c].to = b THEN [to |-> NoOne, state |-> "lost"] ELSE wire[c]]
  /\ UNCHANGED <<kept, file, client>>

Moves(b, from, to) == phase[b] = from /\ phase' = [phase EXCEPT ![b] = to]

\* Fault variant: A lock that is held is not respected.
Lock_Ignored(b) ==
  /\ Moves(b, "started", "locked") /\ lock' = b
  /\ UNCHANGED <<sock, port, kept, told, file, client, wire, cause>>

Lock(b) ==
  \/ /\ Moves(b, "started", "locked") /\ lock = NoOne /\ lock' = b
     /\ UNCHANGED <<sock, port, kept, told, file, client, wire, cause>>
  \/ /\ phase[b] = "started" /\ lock # NoOne
     /\ Ends(b) /\ UNCHANGED cause

\* Fault variant: What a killed broker left is not removed.
Clear_Nothing(b) ==
  /\ Moves(b, "locked", "clear")
  /\ UNCHANGED <<lock, sock, port, kept, told, file, client, wire, cause>>

Clear(b) ==
  /\ Moves(b, "locked", "clear") /\ sock' = NoOne
  /\ UNCHANGED <<lock, port, kept, told, file, client, wire, cause>>

\* UnixListener::bind() wants a name that is free, as Clear has made it.
Bind(b) ==
  /\ phase[b] = "clear" /\ UNCHANGED cause
  /\ IF sock # NoOne THEN Ends(b)
     ELSE /\ Moves(b, "clear", "bound") /\ sock' = b
          /\ UNCHANGED <<lock, port, kept, told, file, client, wire>>

\* Settings::load() refuses the user's config.toml.
Misconfigured(b) ==
  /\ "settings" \in Faults /\ phase[b] = "bound"
  /\ Ends(b)
  /\ cause' = cause \cup Active

\* restore() and the start of the accept loop: a sandbox whose port is in
\* use is skipped, and registry.json is written without it.
Restore(b) ==
  /\ Moves(b, "bound", "serving")
  /\ kept' = (kept /\ port = NoOne)
  /\ port' = IF kept' THEN b ELSE port
  /\ UNCHANGED <<lock, sock, told, file, client, wire, cause>>

Accept(b, c) ==
  /\ phase[b] = "serving"
  /\ wire[c] = [to |-> b, state |-> "queued"]
  /\ wire' = [wire EXCEPT ![c].state = "accepted"]
  /\ UNCHANGED <<broker, file, client, cause>>

\* The accept loop is left: a Shutdown request, SIGINT or SIGTERM.
Break(b) ==
  /\ b \in told \/ "signal" \in Faults
  /\ Moves(b, "serving", "stopping")
  /\ cause' = cause \cup Active
  /\ UNCHANGED <<lock, sock, port, kept, told, file, client, wire>>

\* Fault variant: The lock is released before the socket is removed.
Leave_LockFirst(b) ==
  \/ /\ Moves(b, "stopping", "unlinked") /\ lock' = IF lock = b THEN NoOne ELSE lock
     /\ UNCHANGED <<sock, port, kept, told, file, client, wire, cause>>
  \/ /\ Moves(b, "unlinked", "ending") /\ sock' = NoOne
     /\ UNCHANGED <<lock, port, kept, told, file, client, wire, cause>>

\* The socket is removed, then the lock dropped; the runtime, its tasks and
\* their sockets go a little later.
Leave(b) ==
  \/ /\ Moves(b, "stopping", "unlinked") /\ sock' = NoOne
     /\ UNCHANGED <<lock, port, kept, told, file, client, wire, cause>>
  \/ /\ Moves(b, "unlinked", "ending") /\ lock' = NoOne
     /\ UNCHANGED <<sock, port, kept, told, file, client, wire, cause>>

Exit(b) == phase[b] = "ending" /\ Ends(b) /\ UNCHANGED cause

Crash(b) ==
  /\ "crash" \in Faults /\ phase[b] # "off"
  /\ Ends(b)
  /\ cause' = cause \cup Active

-----------------------------------------------------------------------------
(* export_proxy_secret() and load_or_create().                             *)

\* Only the commands that may start the sandbox export its password.
Begin(c, cmd) ==
  /\ client[c].at = "idle"
  /\ client' = [client EXCEPT ![c] =
       [cmd |-> cmd, secret |-> NoFile, result |-> "none",
        at |-> CASE cmd = "up" -> "load" [] cmd = "start" -> "probe" [] cmd = "stop" -> "check"]]
  /\ cause' = (cause \ {c}) \cup (IF \E b \in Brokers : phase[b] \in Leaving THEN {c} ELSE {})
  /\ wire' = [wire EXCEPT ![c] = Closed]
  /\ UNCHANGED <<broker, file>>

Exports(c, secret) == client' = [client EXCEPT ![c].secret = secret, ![c].at = "probe"]

LoadSecret(c) ==
  /\ client[c].at = "load"
  /\ IF file = NoFile THEN Go(c, "create") ELSE Exports(c, file)
  /\ UNCHANGED <<broker, file, wire, cause>>

\* Fault variant: The file is opened whether or not it exists.
CreateSecret_Anyway(c) ==
  /\ client[c].at = "create"
  /\ file' = Torn /\ Go(c, "write")
  /\ UNCHANGED <<broker, wire, cause>>

\* open(create_new): who comes second uses the file as it is.
CreateSecret(c) ==
  /\ client[c].at = "create"
  /\ IF file = NoFile THEN file' = Torn /\ Go(c, "write")
     ELSE Exports(c, file) /\ UNCHANGED file
  /\ UNCHANGED <<broker, wire, cause>>

WriteSecret(c) ==
  /\ client[c].at = "write"
  /\ file' = c /\ Exports(c, c)
  /\ UNCHANGED <<broker, wire, cause>>

-----------------------------------------------------------------------------
(* request(), by what it is for: the first is_running() of ensure_running()*)
(* ("probe") and those after the spawn ("poll"), register(), and the first *)
(* is_running() of `broker stop` ("check"), shutdown(), and those after it *)
(* ("wait").                                                               *)

Asking == {"probe", "poll", "register", "check", "shutdown", "wait"}

Connect(c) ==
  /\ client[c].at \in Asking /\ wire[c] = Closed
  /\ wire' = [wire EXCEPT ![c] =
       IF sock \in Brokers THEN [to |-> sock, state |-> "queued"] ELSE [to |-> NoOne, state |-> "lost"]]
  /\ UNCHANGED <<broker, file, client, cause>>

\* dispatch(), on a task that runs until the process ends.  A registration
\* wants its port, unless the sandbox is registered already.
Handle(c) ==
  LET b == wire[c].to
      refused == client[c].at = "register" /\ port \notin {NoOne, b}
  IN /\ wire[c].state = "accepted"
     /\ told' = IF client[c].at = "shutdown" THEN told \cup {b} ELSE told
     /\ port' = IF client[c].at = "register" /\ ~refused THEN b ELSE port
     /\ kept' = (kept \/ (client[c].at = "register" /\ ~refused))
     /\ wire' = [wire EXCEPT ![c].state = IF refused THEN "refused" ELSE "handled"]
     /\ cause' = IF refused THEN cause \cup {c} ELSE cause
     /\ UNCHANGED <<phase, lock, sock, file, client>>

\* spawn(): a new broker process, in a group of its own.
Spawn(c) ==
  /\ \E b \in Brokers : Moves(b, "off", "started")
  /\ Go(c, "poll")
  /\ UNCHANGED <<lock, sock, port, kept, told>>

\* ensure_running() has a broker that answered.
Connected(c) ==
  IF client[c].cmd = "up" THEN Go(c, "register") ELSE Finish(c, "ok")

Answered(c) ==
  /\ wire[c].state = "handled"
  /\ wire' = [wire EXCEPT ![c] = Closed]
  /\ CASE client[c].at \in {"probe", "poll"} -> Connected(c)
       [] client[c].at = "register" -> Finish(c, "ok")
       [] client[c].at = "check" -> Go(c, "shutdown")
       [] client[c].at \in {"shutdown", "wait"} -> Go(c, "wait")
  /\ UNCHANGED <<broker, file, cause>>

\* No connection, no answer, or a refusal.
Unanswered(c) ==
  /\ wire[c].state \in {"lost", "refused"}
  /\ wire' = [wire EXCEPT ![c] = Closed]
  /\ CASE client[c].at = "probe" -> Spawn(c)
       [] client[c].at = "poll" -> UNCHANGED <<broker, client>>
       [] client[c].at \in {"register", "shutdown"} -> Finish(c, "failed") /\ UNCHANGED broker
       [] client[c].at \in {"check", "wait"} -> Finish(c, "ok") /\ UNCHANGED broker
  /\ UNCHANGED <<file, cause>>

\* START_TIMEOUT: ten seconds in which no broker comes up.
Coming == {"started", "locked", "clear", "bound", "serving"}
StartTimeout(c) ==
  /\ client[c].at = "poll" /\ wire[c] = Closed
  /\ \A b \in Brokers : phase[b] \notin Coming
  /\ Finish(c, "failed")
  /\ UNCHANGED <<broker, file, wire, cause>>

\* `broker stop` says that the broker stopped after fifty polls, whatever
\* the last one found.
StopTimeout(c) ==
  /\ client[c].at = "wait" /\ wire[c] = Closed
  /\ Finish(c, "ok")
  /\ UNCHANGED <<broker, file, wire, cause>>

-----------------------------------------------------------------------------
BrokerStep(b) ==
  \/ Lock(b) \/ Clear(b) \/ Bind(b) \/ Misconfigured(b) \/ Restore(b)
  \/ Break(b) \/ Leave(b) \/ Exit(b) \/ Crash(b)
  \/ \E c \in Clients : Accept(b, c)
ClientStep(c) ==
  \/ \E cmd \in {"up", "start", "stop"} : Begin(c, cmd)
  \/ LoadSecret(c) \/ CreateSecret(c) \/ WriteSecret(c)
  \/ Connect(c) \/ Handle(c) \/ Answered(c) \/ Unanswered(c)
  \/ StartTimeout(c) \/ StopTimeout(c)

Next == (\E b \in Brokers : BrokerStep(b)) \/ (\E c \in Clients : ClientStep(c))
Spec == Init /\ [][Next]_vars

-----------------------------------------------------------------------------
(* Properties.                                                             *)

\* A broker that serves is the one that a client reaches, and is alone: no
\* broker that ends takes away the socket of the one that follows it.
ServingIsReachable ==
  \A b \in Brokers : phase[b] \in {"bound", "serving"} => sock = b /\ lock = b

\* `up` and `broker start` fail for a reason: a broker ended, was killed or
\* could not read its settings while they ran.  A broker that was killed
\* before, or two commands that start a broker at once, are none.
StartFailsForCause ==
  \A c \in Clients : (client[c].result = "failed" /\ client[c].cmd \in {"up", "start"}) => c \in cause

\* registry.json loses the sandbox at a start of the broker only if the last
\* one has given up the lock and not yet its port (daemon.rs:85-86).
RegistrationIsKept ==
  [][kept' \/ ~kept \/ \E b \in Brokers : phase[b] = "ending" /\ port = b]_vars

\* Commands that race to make the password agree on it, with each other and
\* with the file that the broker reads - but for the one that reads the file
\* between its creation and its writing (secret.rs:56-66).
PasswordsAgree ==
  \A c \in Clients : client[c].secret \in {NoFile, Torn, file}
=============================================================================
