------------------------------ MODULE Registry ------------------------------
(***************************************************************************)
(* The broker's registrations (broker/registry.rs): the sandboxes map, the *)
(* endpoints each entry listens on, and broker/registry.json, which is     *)
(* rewritten after every change and read back by restore() when the broker *)
(* starts.                                                                 *)
(*                                                                         *)
(* A task is one admin request, one flow that trips its sandbox's rate     *)
(* limit, or (Main) the broker's start, whose restore() runs register()    *)
(* for every saved registration before admin requests are accepted.  A     *)
(* task is cut into steps where the code gives up a lock or awaits: map    *)
(* lookup, field write, snapshot under the map's lock, file replacement.   *)
(*                                                                         *)
(* An entry is an Arc<SandboxEntry>; a port stands for its resolver and    *)
(* proxy port together, bound one after the other and given up together.   *)
(***************************************************************************)
EXTENDS Naturals, FiniteSets

CONSTANTS
  Names,        \* sandbox names
  Files,        \* kitchen files
  Modes,        \* open, enforce
  Ports,        \* endpoint ports (broker.port_range)
  Entries,      \* entries whose listeners exist at one time: bounds them
  Tasks,        \* tasks at work at one time: bounds the concurrency
  Main,         \* the task that runs restore()
  NamesOf,      \* the names each task's requests are about
  Foreign,      \* ports another process of the host may occupy
  Crashes,      \* the phases in which the broker process may end
  DiskFails,    \* writing registry.json may fail
  NoEntry, NoReg, NoTask,
  AnyPort       \* register without a requested port

ASSUME TaskAssumption ==
  /\ Main \in Tasks
  /\ NamesOf \in [Tasks -> SUBSET Names]

ASSUME ValueAssumption ==
  /\ Foreign \subseteq Ports
  /\ Crashes \subseteq {"restoring", "serving"}
  /\ DiskFails \in BOOLEAN
  /\ NoEntry \notin Entries
  /\ AnyPort \notin Ports

VARIABLES
  phase,      \* the broker process
  sandboxes,  \* name -> its entry
  reg,        \* the entries whose listeners' sockets exist
  cancelled,  \* the entries whose token was cancelled
  occupied,   \* the ports other processes hold
  task,       \* where each task is, and what it works on
  disk,       \* registry.json
  lost,       \* the last write of registry.json failed
  saved,      \* what restore() read
  todo,       \* the names restore() has still to register
  tripped,    \* names whose limit was durable and that nobody resumed since
  setback    \* some restore() was: the broker ended before it served

memory == <<sandboxes, reg, cancelled>>
file   == <<disk, lost, tripped, setback>>
boot   == <<phase, saved, todo>>
vars   == <<memory, file, boot, occupied, task>>

Registrations ==
  [name : Names, file : Files, mode : Modes, port : Ports, limited : BOOLEAN]
Requests ==
  [name : Names, file : Files, mode : Modes, port : Ports \cup {AnyPort},
   limited : BOOLEAN]
Registries == [Names -> Registrations \cup {NoReg}]
Empty      == [n \in Names |-> NoReg]
Points     == {"mode", "lift", "remove", "cancel", "bind", "insert", "snapshot",
               "write", "limit", "restore"}
Goals      == {"idle", "bind", "limit", "serve"}

\* A task at work: its next step, the entry it holds, its request, the
\* snapshot it will write, and where it goes once that is written.
Work == [at : Points, entry : Entries \cup {NoEntry},
         want : Requests \cup {NoReg}, snap : Registries, goal : Goals]

ASSUME BlankAssumption == NoReg \notin Requests /\ NoTask \notin Work

TypeOK ==
  /\ phase \in {"down", "restoring", "serving"}
  /\ sandboxes \in [Names -> Entries \cup {NoEntry}]
  /\ reg \in [Entries -> Registrations \cup {NoReg}]
  /\ cancelled \in SUBSET Entries
  /\ occupied \in SUBSET Foreign
  /\ task \in [Tasks -> Work \cup {NoTask}]
  /\ disk \in Registries
  /\ lost \in BOOLEAN
  /\ saved \in Registries
  /\ todo \in SUBSET Names
  /\ tripped \in SUBSET Names
  /\ setback \in BOOLEAN

Init ==
  /\ phase = "serving"
  /\ sandboxes = [n \in Names |-> NoEntry]
  /\ reg = [i \in Entries |-> NoReg]
  /\ cancelled = {}
  /\ occupied = {}
  /\ task = [t \in Tasks |-> NoTask]
  /\ disk = Empty
  /\ lost = FALSE
  /\ saved = Empty
  /\ todo = {}
  /\ tripped = {}
  /\ setback = FALSE

-----------------------------------------------------------------------------
Job(at, i, want, snap, goal) ==
  [at |-> at, entry |-> i, want |-> want, snap |-> snap, goal |-> goal]

Begin(t, at, i, want, goal) ==
  task' = [task EXCEPT ![t] = Job(at, i, want, Empty, goal)]

At(t, point) == task[t] # NoTask /\ task[t].at = point
Goto(t, point) == task' = [task EXCEPT ![t].at = point]

\* A task that reached its goal: a request is answered, restore() goes on.
Arrive(t) ==
  LET goal == task[t].goal IN
  /\ task' = [task EXCEPT ![t] =
       IF goal \in {"idle", "serve"} THEN NoTask
       ELSE Job(goal, NoEntry, task[t].want, Empty,
                IF goal = "bind" THEN "idle" ELSE goal)]
  /\ phase' = IF goal = "serve" THEN "serving" ELSE phase
  /\ saved' = IF goal = "serve" THEN Empty ELSE saved
  /\ UNCHANGED todo

\* serve_admin() takes a request about one of the task's names.
Accepts(t, n) == phase = "serving" /\ task[t] = NoTask /\ n \in NamesOf[t]

Held == {reg[i].port : i \in {j \in Entries : reg[j] # NoReg}} \cup occupied

\* What persist() collects under the map's lock.
Snapshot ==
  [n \in Names |-> IF sandboxes[n] = NoEntry THEN NoReg ELSE reg[sandboxes[n]]]

-----------------------------------------------------------------------------
(* register()                                                              *)

\* A compatible registration is kept; only the mode changes.
Compatible(want, i) ==
  /\ reg[i].file = want.file
  /\ want.port \in {reg[i].port, AnyPort}

Register(t, want) ==
  LET i == sandboxes[want.name] IN
  /\ Accepts(t, want.name)
  /\ IF i = NoEntry THEN Begin(t, "bind", NoEntry, want, "idle")
     ELSE IF Compatible(want, i) THEN Begin(t, "mode", i, want, "idle")
     ELSE Begin(t, "remove", NoEntry, want, "bind")
  /\ UNCHANGED <<memory, file, boot, occupied>>

\* bind_resolver() and bind_proxy(): the requested port, or any free one.  The
\* listeners' tasks start with the entry, before the map knows it.
Bind(t, i, p) ==
  LET want == task[t].want IN
  /\ At(t, "bind")
  /\ reg[i] = NoReg /\ \A u \in Tasks : task[u] # NoTask => task[u].entry # i
  /\ p \in Ports \ Held /\ want.port \in {p, AnyPort}
  /\ reg' = [reg EXCEPT ![i] = [want EXCEPT !.port = p, !.limited = FALSE]]
  /\ task' = [task EXCEPT ![t].at = "insert", ![t].entry = i]
  /\ UNCHANGED <<sandboxes, cancelled, file, boot, occupied>>

\* The requested port is in use, or every port that was tried: the request
\* fails, and restore() goes on with the next registration.
BindFails(t) ==
  LET want == task[t].want IN
  /\ At(t, "bind")
  /\ IF want.port = AnyPort THEN Held # {} ELSE want.port \in Held
  /\ IF phase = "restoring" THEN Goto(t, "restore")
     ELSE task' = [task EXCEPT ![t] = NoTask]
  /\ setback' = (setback \/ phase = "restoring")
  /\ UNCHANGED <<memory, disk, lost, tripped, boot, occupied>>

Insert(t) ==
  /\ At(t, "insert")
  /\ sandboxes' = [sandboxes EXCEPT ![task[t].want.name] = task[t].entry]
  /\ Goto(t, "snapshot")
  /\ UNCHANGED <<reg, cancelled, file, boot, occupied>>

-----------------------------------------------------------------------------
(* retire(), set_mode(), resume() and a tripped rate limit                 *)

Retire(t, n) ==
  /\ Accepts(t, n) /\ sandboxes[n] # NoEntry
  /\ Begin(t, "remove", NoEntry, reg[sandboxes[n]], "idle")
  /\ UNCHANGED <<memory, file, boot, occupied>>

\* Take the entry out of the map; nothing more to do if it is gone already.
Remove(t) ==
  LET n == task[t].want.name IN
  /\ At(t, "remove")
  /\ IF sandboxes[n] = NoEntry
     THEN /\ Arrive(t)
          /\ UNCHANGED <<sandboxes, tripped>>
     ELSE /\ Begin(t, "cancel", sandboxes[n], task[t].want, task[t].goal)
          /\ sandboxes' = [sandboxes EXCEPT ![n] = NoEntry]
          /\ tripped' = tripped \ {n}
          /\ UNCHANGED boot
  /\ UNCHANGED <<reg, cancelled, disk, lost, setback, occupied>>

\* Fault variant: the listeners are not told.
CancelNothing(t) ==
  /\ At(t, "cancel")
  /\ Goto(t, "snapshot")
  /\ UNCHANGED <<memory, file, boot, occupied>>

Cancel(t) ==
  /\ At(t, "cancel")
  /\ cancelled' = cancelled \cup {task[t].entry}
  /\ Goto(t, "snapshot")
  /\ UNCHANGED <<sandboxes, reg, file, boot, occupied>>

\* The listeners' tasks notice and drop their sockets, some time later.
CloseListeners(i) ==
  /\ i \in cancelled
  /\ cancelled' = cancelled \ {i}
  /\ reg' = [reg EXCEPT ![i] = NoReg]
  /\ UNCHANGED <<sandboxes, file, boot, occupied, task>>

SetMode(t, n, m) ==
  /\ Accepts(t, n) /\ sandboxes[n] # NoEntry
  /\ Begin(t, "mode", sandboxes[n], [reg[sandboxes[n]] EXCEPT !.mode = m], "idle")
  /\ UNCHANGED <<memory, file, boot, occupied>>

\* The entry may have been retired since; then nobody reads its fields again.
Assign(i, r) == reg' = IF reg[i] = NoReg THEN reg ELSE [reg EXCEPT ![i] = r]

WriteMode(t) ==
  LET i == task[t].entry IN
  /\ At(t, "mode")
  /\ Assign(i, [reg[i] EXCEPT !.mode = task[t].want.mode])
  /\ Goto(t, "snapshot")
  /\ UNCHANGED <<sandboxes, cancelled, file, boot, occupied>>

Resume(t, n) ==
  /\ Accepts(t, n) /\ sandboxes[n] # NoEntry
  /\ Begin(t, "lift", sandboxes[n], reg[sandboxes[n]], "idle")
  /\ UNCHANGED <<memory, file, boot, occupied>>

\* Fault variant: a lifted limit is not persisted.
LiftUnpersisted(t) ==
  LET i == task[t].entry IN
  /\ At(t, "lift")
  /\ Assign(i, [reg[i] EXCEPT !.limited = FALSE])
  /\ tripped' = tripped \ {task[t].want.name}
  /\ task' = [task EXCEPT ![t] = NoTask]
  /\ UNCHANGED <<sandboxes, cancelled, disk, lost, setback, boot, occupied>>

Lift(t) ==
  LET i == task[t].entry IN
  /\ At(t, "lift")
  /\ Assign(i, [reg[i] EXCEPT !.limited = FALSE])
  /\ tripped' = tripped \ {task[t].want.name}
  /\ Goto(t, "snapshot")
  /\ UNCHANGED <<sandboxes, cancelled, disk, lost, setback, boot, occupied>>

\* trip_rate_limit(), from a flow of the entry; also while restore() runs,
\* since a restored endpoint serves at once.
Trip(t, i) ==
  /\ phase # "down" /\ task[t] = NoTask
  /\ reg[i] # NoReg /\ reg[i].name \in NamesOf[t] /\ ~reg[i].limited
  /\ reg' = [reg EXCEPT ![i].limited = TRUE]
  /\ Begin(t, "snapshot", NoEntry, NoReg, "idle")
  /\ UNCHANGED <<sandboxes, cancelled, file, boot, occupied>>

-----------------------------------------------------------------------------
(* persist()                                                               *)

TakeSnapshot(t) ==
  /\ At(t, "snapshot")
  /\ task' = [task EXCEPT ![t] =
       Job("write", NoEntry, task[t].want, Snapshot, task[t].goal)]
  /\ UNCHANGED <<memory, file, boot, occupied>>

\* write_atomic() replaces the file, or leaves it and the failure is logged.
Write(t) ==
  LET snap == task[t].snap IN
  /\ At(t, "write")
  /\ \/ /\ disk' = snap
        /\ lost' = FALSE
        /\ tripped' = tripped \cup {n \in Names : snap[n] # NoReg /\ snap[n].limited}
     \/ /\ DiskFails
        /\ lost' = TRUE
        /\ UNCHANGED <<disk, tripped>>
  /\ Arrive(t)
  /\ UNCHANGED <<memory, setback, occupied>>

-----------------------------------------------------------------------------
(* The broker's end and its next start                                     *)

\* Shutdown, a signal or a crash: only registry.json remains.
Crash ==
  /\ phase \in Crashes
  /\ phase' = "down"
  /\ sandboxes' = [n \in Names |-> NoEntry]
  /\ reg' = [i \in Entries |-> NoReg]
  /\ cancelled' = {}
  /\ task' = [t \in Tasks |-> NoTask]
  /\ saved' = Empty
  /\ todo' = {}
  /\ setback' = (setback \/ phase = "restoring" \/ lost)
  /\ UNCHANGED <<disk, lost, tripped, occupied>>

Start ==
  /\ phase = "down"
  /\ phase' = "restoring"
  /\ saved' = disk
  /\ todo' = {n \in Names : disk[n] # NoReg}
  /\ lost' = FALSE
  /\ Begin(Main, "restore", NoEntry, NoReg, "limit")
  /\ UNCHANGED <<memory, disk, tripped, setback, occupied>>

\* Fault variant: a restored sandbox gets whatever port is free.
RestoreOnAnyPort(n) ==
  /\ At(Main, "restore")
  /\ n \in todo /\ todo' = todo \ {n}
  /\ Begin(Main, "bind", NoEntry, [saved[n] EXCEPT !.port = AnyPort], "limit")
  /\ UNCHANGED <<memory, file, phase, saved, occupied>>

\* The next saved registration, in the arbitrary order of the file.
RestoreNext(n) ==
  /\ At(Main, "restore")
  /\ n \in todo /\ todo' = todo \ {n}
  /\ Begin(Main, "bind", NoEntry, saved[n], "limit")
  /\ UNCHANGED <<memory, file, phase, saved, occupied>>

\* Fault variant: the flag is read back but not applied.
RestoreUnlimited ==
  /\ At(Main, "limit")
  /\ Goto(Main, "restore")
  /\ UNCHANGED <<memory, file, boot, occupied>>

\* register() made it unlimited, and persisted it so; now the limit follows.
RestoreLimit ==
  LET want == task[Main].want
      i    == sandboxes[want.name] IN
  /\ At(Main, "limit")
  /\ reg' = IF want.limited /\ i # NoEntry THEN [reg EXCEPT ![i].limited = TRUE]
            ELSE reg
  /\ Goto(Main, "restore")
  /\ UNCHANGED <<sandboxes, cancelled, file, boot, occupied>>

\* All done: persist() once more, then serve.
RestoreDone ==
  /\ At(Main, "restore") /\ todo = {}
  /\ Begin(Main, "snapshot", NoEntry, NoReg, "serve")
  /\ UNCHANGED <<memory, file, boot, occupied>>

\* Another process of the host takes or gives up a port.
Occupy(p) ==
  /\ p \in Foreign \ Held
  /\ occupied' = occupied \cup {p}
  /\ UNCHANGED <<memory, file, boot, task>>

Vacate(p) ==
  /\ p \in occupied
  /\ occupied' = occupied \ {p}
  /\ UNCHANGED <<memory, file, boot, task>>

Persist(t) == TakeSnapshot(t) \/ Write(t)
Restore == (\E n \in Names : RestoreNext(n)) \/ RestoreLimit \/ RestoreDone

Request(t) ==
  \/ \E n \in Names, f \in Files, m \in Modes, p \in Ports \cup {AnyPort} :
       Register(t, [name |-> n, file |-> f, mode |-> m, port |-> p,
                    limited |-> FALSE])
  \/ \E n \in Names : Retire(t, n) \/ Resume(t, n) \/ \E m \in Modes : SetMode(t, n, m)
  \/ \E i \in Entries : Trip(t, i)

Step(t) ==
  \/ \E i \in Entries, p \in Ports : Bind(t, i, p)
  \/ BindFails(t) \/ Insert(t) \/ Remove(t) \/ Cancel(t)
  \/ WriteMode(t) \/ Lift(t) \/ Persist(t)

Next ==
  \/ \E t \in Tasks : Request(t) \/ Step(t)
  \/ Restore
  \/ \E i \in Entries : CloseListeners(i)
  \/ Crash \/ Start
  \/ \E p \in Ports : Occupy(p) \/ Vacate(p)

Spec == Init /\ [][Next]_vars

-----------------------------------------------------------------------------
Quiet == phase = "serving" /\ \A t \in Tasks : task[t] = NoTask

\* Registrations survive a broker restart: once every request is answered,
\* registry.json says exactly what the map says, unless the last write of it
\* failed; the next one that succeeds makes up for all that failed.
DurableWhenQuiet == Quiet /\ ~lost => disk = Snapshot

\* A tripped rate limit survives a restart; only `net resume` lifts it, or a
\* retirement.  A start that is cut short may lose it: register() persists the
\* restored sandbox unlimited before restore() limits it again.
LimitSurvives ==
  phase = "serving" /\ ~setback => \A n \in tripped :
    sandboxes[n] # NoEntry => reg[sandboxes[n]].limited

\* The entries that hold a listening socket and were not told to stop.
Listening == {i \in Entries : reg[i] # NoReg} \ cancelled

\* Endpoints and registrations stay in step: a registered name's endpoints
\* listen, no two entries listen on one port, and a listener nobody told to
\* stop serves the entry registered under its name, unless its task has it
\* in hand: register() before the insert, retire() after the removal.
EndpointsOwned ==
  /\ \A n \in Names : sandboxes[n] # NoEntry =>
       sandboxes[n] \in Listening /\ reg[sandboxes[n]].name = n
  /\ \A i, j \in Entries : reg[i] # NoReg /\ reg[j] # NoReg
                             /\ reg[i].port = reg[j].port => i = j
  /\ \A i \in Listening : \/ sandboxes[reg[i].name] = i
                          \/ \E t \in Tasks : /\ task[t] # NoTask
                                              /\ task[t].at \in {"insert", "cancel"}
                                              /\ task[t].entry = i

\* restore() brings back what was registered, and nothing else: the same
\* name, file, mode and ports, limited at least when it was.  A registration
\* is missing afterwards only if another process may hold its port.
RestoreFaithful ==
  [][phase = "restoring" /\ phase' = "serving" => \A n \in Names :
       LET old == saved[n]  i == sandboxes'[n] IN
       IF i = NoEntry THEN old = NoReg \/ old.port \in Foreign
       ELSE /\ old # NoReg
            /\ [reg'[i] EXCEPT !.limited = old.limited] = old
            /\ old.limited => reg'[i].limited]_vars
=============================================================================
