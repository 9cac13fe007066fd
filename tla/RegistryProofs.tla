--------------------------- MODULE RegistryProofs ---------------------------
(***************************************************************************)
(* Endpoints and registrations stay in step, and restore() brings back     *)
(* what was registered, for any number of sandboxes, ports and tasks, as   *)
(* long as no two tasks work on one sandbox at a time: the second of two   *)
(* register() calls for a fresh name would otherwise replace, not retire,  *)
(* the entry of the first.  With one task at a time registry.json and      *)
(* tripped limits last as well.                                            *)
(*                                                                         *)
(* The inductive invariant adds to TypeOK and EndpointsOwned what a task   *)
(* between two steps may rely on (InHand, Vacant), that the name it works  *)
(* on is its own (Claims, Booting), and what the files hold (Named).  On   *)
(* top of it: Recorded (what is written is the map), Restored (each name   *)
(* restore() read is to do, in work, back or missing) and Lasting (where a *)
(* limit that nobody lifted is kept).                                      *)
(***************************************************************************)
EXTENDS Registry, TLAPS

OneCommandPerSandbox ==
  \A t, u \in Tasks : t # u => NamesOf[t] \cap NamesOf[u] = {}

Busy(t) == task[t] # NoTask

\* A task that will read its request has one.
Asked ==
  \A t \in Tasks : Busy(t) /\
    (\/ task[t].at \in {"mode", "lift", "bind", "insert", "remove", "cancel", "limit"}
     \/ task[t].goal = "bind"
     \/ task[t].goal = "limit" /\ task[t].at # "restore") =>
      task[t].want \in Requests

\* The map leads to listening entries of the right name.
Mapped ==
  \A n \in Names : sandboxes[n] # NoEntry =>
    sandboxes[n] \in Listening /\ reg[sandboxes[n]].name = n

\* Entries do not share ports; only entries with sockets are cancelled.
Exclusive ==
  /\ \A i, j \in Entries : reg[i] # NoReg /\ reg[j] # NoReg
                             /\ reg[i].port = reg[j].port => i = j
  /\ \A i \in cancelled : reg[i] # NoReg

\* The entry a task will insert, or cancel, listens.
InHand ==
  \A t \in Tasks : Busy(t) /\ task[t].at \in {"insert", "cancel"} =>
    task[t].entry \in Listening /\ reg[task[t].entry].name = task[t].want.name

\* From the lookup to the insert, and from the removal on, the map has no
\* entry under the task's name.
Vacant ==
  \A t \in Tasks : Busy(t) /\
    (\/ task[t].at \in {"bind", "insert", "cancel"}
     \/ task[t].goal = "bind" /\ task[t].at # "remove") =>
      sandboxes[task[t].want.name] = NoEntry

\* Once register() binds, nothing of the retirement before it is left to do.
Chained ==
  \A t \in Tasks : Busy(t) /\ task[t].goal = "bind" =>
    task[t].at \in {"remove", "cancel", "snapshot", "write"}

\* A task that will change the map works on a name of its own.
Claims ==
  \A t \in Tasks : Busy(t) /\
    (task[t].at \in {"bind", "insert", "remove", "cancel"} \/ task[t].goal = "bind") =>
      \/ task[t].want.name \in NamesOf[t]
      \/ t = Main /\ phase = "restoring"

\* Who else listens is in the hands of a task.
Served ==
  \A i \in Listening :
    \/ sandboxes[reg[i].name] = i
    \/ \E t \in Tasks : /\ task[t] # NoTask
                        /\ task[t].at \in {"insert", "cancel"}
                        /\ task[t].entry = i

\* What the phase says of the tasks: none while the broker is down, and only
\* requests while it serves.
Phased ==
  /\ phase = "down" => /\ \A t \in Tasks : ~Busy(t)
                       /\ \A n \in Names : sandboxes[n] = NoEntry
  /\ phase = "serving" => \A t \in Tasks : Busy(t) =>
       task[t].goal \in {"idle", "bind"} /\ task[t].at \notin {"restore", "limit"}

\* While restore() runs the others only persist a tripped limit, and what it
\* has still to register is not in the map.
Booting ==
  phase = "restoring" =>
    /\ \A t \in Tasks \ {Main} : Busy(t) =>
         task[t].at \in {"snapshot", "write"} /\ task[t].goal = "idle"
    /\ Busy(Main) /\ task[Main].goal \in {"limit", "serve"}
    /\ task[Main].at \in {"restore", "bind", "insert", "snapshot", "write", "limit"}
    /\ task[Main].goal = "serve" => todo = {} /\ task[Main].at \in {"snapshot", "write"}
    /\ task[Main].at \in {"bind", "insert"} => task[Main].want.name \notin todo
    /\ \A n \in todo : sandboxes[n] = NoEntry /\ saved[n] # NoReg

NamedIn(r) == \A n \in Names : r[n] # NoReg => r[n].name = n

\* The registries on disk, read back and about to be written file each
\* registration under its own name.
Named ==
  /\ NamedIn(disk) /\ NamedIn(saved)
  /\ \A t \in Tasks : Busy(t) => NamedIn(task[t].snap)

IInv == /\ TypeOK /\ Asked /\ Mapped /\ Exclusive /\ InHand /\ Vacant
        /\ Chained /\ Claims /\ Served /\ Phased /\ Booting /\ Named

USE DEF IInv, Busy, Listening, At, memory, file, boot, Registries, Empty

-----------------------------------------------------------------------------
(* What the operators do to the state                                      *)

LEMMA BeginEffect ==
  ASSUME IInv, NEW t \in Tasks, NEW at \in Points, NEW i \in Entries \cup {NoEntry},
         NEW want \in Requests \cup {NoReg}, NEW goal \in Goals,
         Begin(t, at, i, want, goal)
  PROVE  /\ task' \in [Tasks -> Work \cup {NoTask}]
         /\ \A u \in Tasks : u # t => task'[u] = task[u]
         /\ task'[t] # NoTask
         /\ task'[t].at = at /\ task'[t].entry = i /\ task'[t].want = want
         /\ task'[t].goal = goal /\ task'[t].snap = Empty
BY BlankAssumption DEF TypeOK, Begin, Job, Work

LEMMA GotoEffect ==
  ASSUME IInv, NEW t \in Tasks, NEW at \in Points, Busy(t), Goto(t, at)
  PROVE  /\ task' \in [Tasks -> Work \cup {NoTask}]
         /\ \A u \in Tasks : u # t => task'[u] = task[u]
         /\ task'[t] # NoTask
         /\ task'[t].at = at /\ task'[t].entry = task[t].entry
         /\ task'[t].want = task[t].want
         /\ task'[t].goal = task[t].goal /\ task'[t].snap = task[t].snap
BY BlankAssumption DEF TypeOK, Goto, Work

LEMMA ArriveEffect ==
  ASSUME IInv, NEW t \in Tasks, Busy(t), Arrive(t)
  PROVE  /\ task' \in [Tasks -> Work \cup {NoTask}]
         /\ \A u \in Tasks : u # t => task'[u] = task[u]
         /\ task[t].goal \in {"idle", "serve"} => task'[t] = NoTask
         /\ task[t].goal \in {"bind", "limit"} =>
              /\ task'[t] # NoTask
              /\ task'[t].at = task[t].goal /\ task'[t].entry = NoEntry
              /\ task'[t].want = task[t].want /\ task'[t].snap = Empty
              /\ task'[t].goal = IF task[t].goal = "bind" THEN "idle" ELSE "limit"
         /\ task[t].goal \in Goals
<1> DEFINE w == task[t]
           next == Job(w.goal, NoEntry, w.want, Empty,
                       IF w.goal = "bind" THEN "idle" ELSE w.goal)
<1>1. w \in Work
  BY DEF TypeOK
<1>2. CASE w.goal \in {"idle", "serve"}
  <2>1. task' = [task EXCEPT ![t] = NoTask]
    BY <1>2 DEF Arrive
  <2> QED BY <1>1, <1>2, <2>1 DEF TypeOK, Goals
<1>3. CASE w.goal \in {"bind", "limit"}
  <2>1. task' = [task EXCEPT ![t] = next]
    BY <1>3 DEF Arrive
  <2>2. next \in Work
    BY <1>1, <1>3 DEF Work, Points, Goals, Job
  <2>3. next # NoTask
    BY <2>2, BlankAssumption
  <2>4. task'[t] = next /\ \A u \in Tasks : u # t => task'[u] = task[u]
    BY <2>1 DEF TypeOK
  <2>5. task' \in [Tasks -> Work \cup {NoTask}]
    BY <2>1, <2>2 DEF TypeOK
  <2> QED BY <1>1, <1>3, <2>3, <2>4, <2>5 DEF Goals, Job
<1> QED BY <1>1, <1>2, <1>3 DEF Work, Goals

LEMMA SnapshotTyping ==
  ASSUME IInv PROVE Snapshot \in Registries /\ NamedIn(Snapshot)
BY DEF TypeOK, Snapshot, Mapped, NamedIn

LEMMA SnapshotEffect ==
  ASSUME IInv, NEW t \in Tasks, TakeSnapshot(t)
  PROVE  /\ task' \in [Tasks -> Work \cup {NoTask}]
         /\ \A u \in Tasks : u # t => task'[u] = task[u]
         /\ task'[t] # NoTask
         /\ task'[t].at = "write" /\ task'[t].entry = NoEntry
         /\ task'[t].want = task[t].want
         /\ task'[t].goal = task[t].goal /\ task'[t].snap = Snapshot
<1> DEFINE w == task[t]
           next == Job("write", NoEntry, w.want, Snapshot, w.goal)
<1>1. w \in Work /\ w # NoTask
  BY DEF TypeOK, TakeSnapshot
<1>2. next \in Work
  BY <1>1, SnapshotTyping DEF Work, Points, Job
<1>3. task' = [task EXCEPT ![t] = next]
  BY DEF TakeSnapshot
<1>4. next # NoTask
  BY <1>2, BlankAssumption
<1> QED BY <1>1, <1>2, <1>3, <1>4 DEF TypeOK, Job

\* Changing the mode or the limit of an entry leaves its endpoints alone.
SameEndpoints ==
  \A i \in Entries : /\ reg'[i] = NoReg <=> reg[i] = NoReg
                     /\ reg[i] # NoReg => /\ reg'[i].name = reg[i].name
                                          /\ reg'[i].port = reg[i].port

LEMMA FieldEffect ==
  ASSUME IInv, \/ \E t \in Tasks : WriteMode(t) \/ Lift(t) \/ \E i \in Entries : Trip(t, i)
               \/ RestoreLimit
  PROVE  SameEndpoints /\ reg' \in [Entries -> Registrations \cup {NoReg}]
         /\ UNCHANGED <<sandboxes, cancelled>>
<1> USE BlankAssumption DEF SameEndpoints, TypeOK
<1> DEFINE Kept(i, r) == /\ reg' = [reg EXCEPT ![i] = r]
                         /\ r \in Registrations
                         /\ r.name = reg[i].name /\ r.port = reg[i].port
<1>1. ASSUME NEW i \in Entries, reg[i] # NoReg
      PROVE  /\ \A m \in Modes : LET r == [reg[i] EXCEPT !.mode = m] IN
                  r \in Registrations /\ r.name = reg[i].name /\ r.port = reg[i].port
             /\ \A l \in BOOLEAN : LET r == [reg[i] EXCEPT !.limited = l] IN
                  r \in Registrations /\ r.name = reg[i].name /\ r.port = reg[i].port
  BY <1>1 DEF Registrations
<1>2. ASSUME NEW i \in Entries, NEW r, reg[i] # NoReg, Kept(i, r)
      PROVE  SameEndpoints /\ reg' \in [Entries -> Registrations \cup {NoReg}]
  BY <1>2 DEF Registrations, Requests
<1>3. ASSUME reg' = reg
      PROVE  SameEndpoints /\ reg' \in [Entries -> Registrations \cup {NoReg}]
  BY <1>3
<1>4. ASSUME NEW i, i \notin Entries, NEW r, reg' = [reg EXCEPT ![i] = r]
      PROVE  reg' = reg
  BY <1>4
<1> HIDE DEF Kept, SameEndpoints
<1>5. ASSUME NEW t \in Tasks, WriteMode(t)
      PROVE  SameEndpoints /\ reg' \in [Entries -> Registrations \cup {NoReg}]
  <2> DEFINE i == task[t].entry
             r == [reg[i] EXCEPT !.mode = task[t].want.mode]
  <2>1. task[t].want.mode \in Modes
    BY <1>5 DEF WriteMode, Asked, Requests
  <2>2. Assign(i, r)
    BY <1>5 DEF WriteMode
  <2>3. CASE i \in Entries /\ reg[i] # NoReg
    <3>1. reg' = [reg EXCEPT ![i] = r]
      BY <2>2, <2>3 DEF Assign
    <3>2. Kept(i, r)
      BY <1>1, <2>1, <2>3, <3>1 DEF Kept
    <3> QED BY <1>2, <2>3, <3>2
  <2> HIDE DEF i, r
  <2>4. CASE ~(i \in Entries /\ reg[i] # NoReg)
    BY <1>3, <1>4, <2>2, <2>4 DEF Assign
  <2> QED BY <2>3, <2>4
<1>6. ASSUME NEW t \in Tasks, Lift(t)
      PROVE  SameEndpoints /\ reg' \in [Entries -> Registrations \cup {NoReg}]
  <2> DEFINE i == task[t].entry
             r == [reg[i] EXCEPT !.limited = FALSE]
  <2>1. Assign(i, r)
    BY <1>6 DEF Lift
  <2>2. CASE i \in Entries /\ reg[i] # NoReg
    <3>1. reg' = [reg EXCEPT ![i] = r]
      BY <2>1, <2>2 DEF Assign
    <3>2. Kept(i, r)
      BY <1>1, <2>2, <3>1 DEF Kept
    <3> QED BY <1>2, <2>2, <3>2
  <2> HIDE DEF i, r
  <2>3. CASE ~(i \in Entries /\ reg[i] # NoReg)
    BY <1>3, <1>4, <2>1, <2>3 DEF Assign
  <2> QED BY <2>2, <2>3
<1>7. ASSUME NEW i \in Entries, reg[i] # NoReg,
             reg' = [reg EXCEPT ![i] = [reg[i] EXCEPT !.limited = TRUE]]
      PROVE  SameEndpoints /\ reg' \in [Entries -> Registrations \cup {NoReg}]
  BY <1>1, <1>2, <1>7 DEF Kept
<1>8. ASSUME NEW t \in Tasks, NEW i \in Entries, Trip(t, i)
      PROVE  SameEndpoints /\ reg' \in [Entries -> Registrations \cup {NoReg}]
  BY <1>7, <1>8 DEF Trip
<1>9. ASSUME RestoreLimit
      PROVE  SameEndpoints /\ reg' \in [Entries -> Registrations \cup {NoReg}]
  <2> DEFINE i == sandboxes[task[Main].want.name]
  <2>1. CASE reg' = reg
    BY <1>3, <2>1
  <2>2. CASE reg' # reg
    <3>1. i # NoEntry /\ reg' = [reg EXCEPT ![i] = [reg[i] EXCEPT !.limited = TRUE]]
      BY <1>9, <2>2 DEF RestoreLimit
    <3>2. task[Main].want \in Requests
      BY <1>9, TaskAssumption DEF RestoreLimit, Asked
    <3>3. i \in Entries /\ reg[i] # NoReg
      BY <3>1, <3>2 DEF Mapped, Requests
    <3> QED BY <1>7, <3>1, <3>3
  <2> QED BY <2>1, <2>2
<1> QED BY <1>5, <1>6, <1>8, <1>9 DEF WriteMode, Lift, Trip, RestoreLimit

-----------------------------------------------------------------------------
(* Type correctness                                                        *)

LEMMA Typing == IInv /\ Next => TypeOK' /\ Asked'
<1> SUFFICES ASSUME IInv, Next PROVE TypeOK' /\ Asked'
  OBVIOUS
<1> USE TaskAssumption, ValueAssumption, BlankAssumption DEF Points, Goals
<1>1. ASSUME NEW t \in Tasks, NEW w \in Requests, Register(t, w)
      PROVE  TypeOK' /\ Asked'
  BY <1>1 DEF Register, Accepts, TypeOK, Asked, Begin, Job, Work, Requests
<1>2. ASSUME NEW t \in Tasks, NEW n \in Names,
             Retire(t, n) \/ Resume(t, n) \/ \E m \in Modes : SetMode(t, n, m)
      PROVE  TypeOK' /\ Asked'
  <2>1. /\ reg[sandboxes[n]] \in Requests
        /\ \A m \in Modes : [reg[sandboxes[n]] EXCEPT !.mode = m] \in Requests
    <3>1. reg[sandboxes[n]] \in Registrations
      BY <1>2 DEF Mapped, Retire, Resume, SetMode, TypeOK
    <3> QED BY <3>1 DEF Registrations, Requests
  <2> QED
    BY <1>2, <2>1 DEF Retire, Resume, SetMode, Accepts, TypeOK, Asked, Begin, Job, Work
<1>3. ASSUME NEW t \in Tasks, NEW i \in Entries, Trip(t, i)
      PROVE  TypeOK' /\ Asked'
  <2>1. Begin(t, "snapshot", NoEntry, NoReg, "idle")
    BY <1>3 DEF Trip
  <2>2. TypeOK'
    BY <1>3, <2>1, BeginEffect, FieldEffect DEF Trip, TypeOK
  <2>3. Asked'
    BY <2>1, BeginEffect DEF Asked
  <2> QED BY <2>2, <2>3
<1>4. ASSUME NEW t \in Tasks, NEW i \in Entries, NEW p \in Ports, Bind(t, i, p)
      PROVE  TypeOK' /\ Asked'
  BY <1>4 DEF Bind, TypeOK, Asked, Work, Requests, Registrations
<1>5. ASSUME NEW t \in Tasks, BindFails(t)
      PROVE  TypeOK' /\ Asked'
  BY <1>5, GotoEffect DEF BindFails, TypeOK, Asked
<1>6. ASSUME NEW t \in Tasks, Insert(t) \/ Cancel(t)
      PROVE  TypeOK' /\ Asked'
  BY <1>6, GotoEffect DEF Insert, Cancel, TypeOK, Asked, InHand
<1>7. ASSUME NEW t \in Tasks, Remove(t)
      PROVE  TypeOK' /\ Asked'
  <2>1. CASE sandboxes[task[t].want.name] = NoEntry
    BY <1>7, <2>1, ArriveEffect DEF Remove, Arrive, TypeOK, Asked
  <2>2. CASE sandboxes[task[t].want.name] # NoEntry
    <3>1. /\ task[t].want \in Requests /\ task[t].goal \in Goals
          /\ sandboxes[task[t].want.name] \in Entries
      BY <1>7, <2>2 DEF Remove, TypeOK, Asked, Work, Requests
    <3>2. Begin(t, "cancel", sandboxes[task[t].want.name], task[t].want, task[t].goal)
      BY <1>7, <2>2 DEF Remove
    <3>3. /\ sandboxes' = [sandboxes EXCEPT ![task[t].want.name] = NoEntry]
          /\ tripped' = tripped \ {task[t].want.name}
          /\ UNCHANGED <<reg, cancelled, disk, lost, setback, occupied, phase, saved,
                         todo>>
      BY <1>7, <2>2 DEF Remove
    <3>4. task' \in [Tasks -> Work \cup {NoTask}]
      BY <3>1, <3>2, BeginEffect
    <3>5. TypeOK'
      BY <3>3, <3>4 DEF TypeOK
    <3>6. Asked'
      BY <3>1, <3>2, BeginEffect DEF Asked
    <3> QED BY <3>5, <3>6
  <2> QED BY <2>1, <2>2
<1>8. ASSUME NEW t \in Tasks, WriteMode(t) \/ Lift(t)
      PROVE  TypeOK' /\ Asked'
  <2>1. Goto(t, "snapshot") /\ Busy(t)
    BY <1>8 DEF WriteMode, Lift
  <2>2. reg' \in [Entries -> Registrations \cup {NoReg}]
    BY <1>8, FieldEffect
  <2>3. TypeOK'
    BY <1>8, <2>1, <2>2, GotoEffect DEF WriteMode, Lift, TypeOK
  <2>4. Asked'
    BY <1>8, <2>1, GotoEffect DEF WriteMode, Lift, Asked
  <2> QED BY <2>3, <2>4
<1>9. ASSUME NEW t \in Tasks, TakeSnapshot(t)
      PROVE  TypeOK' /\ Asked'
  <2>1. TypeOK'
    BY <1>9, SnapshotEffect DEF TakeSnapshot, TypeOK
  <2>2. Asked'
    <3>1. task[t].at = "snapshot" /\ Busy(t)
      BY <1>9 DEF TakeSnapshot
    <3>2. /\ \A u \in Tasks : u # t => task'[u] = task[u]
          /\ task'[t].at = "write" /\ task'[t].want = task[t].want
          /\ task'[t].goal = task[t].goal
      BY <1>9, SnapshotEffect
    <3> QED BY <3>1, <3>2 DEF Asked
  <2> QED BY <2>1, <2>2
<1>10. ASSUME NEW t \in Tasks, Write(t)
       PROVE  TypeOK' /\ Asked'
  <2>1. task[t].snap \in Registries
    BY <1>10 DEF Write, TypeOK, Work
  <2>2. TypeOK'
    BY <1>10, <2>1, ArriveEffect DEF Write, Arrive, TypeOK
  <2>3. Asked'
    BY <1>10, ArriveEffect DEF Write, Asked
  <2> QED BY <2>2, <2>3
<1>11. ASSUME NEW n \in Names, RestoreNext(n)
       PROVE  TypeOK' /\ Asked'
  BY <1>11 DEF RestoreNext, TypeOK, Asked, Begin, Job, Work, Booting, Phased,
               Requests, Registrations
<1>12. CASE RestoreLimit
  BY <1>12, FieldEffect, GotoEffect DEF RestoreLimit, TypeOK, Asked
<1>13. CASE RestoreDone
  <2>1. Begin(Main, "snapshot", NoEntry, NoReg, "serve")
    BY <1>13 DEF RestoreDone
  <2>2. TypeOK'
    BY <1>13, <2>1, BeginEffect DEF RestoreDone, TypeOK
  <2>3. Asked'
    BY <2>1, BeginEffect DEF Asked
  <2> QED BY <2>2, <2>3
<1>14. CASE Start
  <2>1. Begin(Main, "restore", NoEntry, NoReg, "limit")
    BY <1>14 DEF Start
  <2>2. TypeOK'
    BY <1>14, <2>1, BeginEffect DEF Start, TypeOK
  <2>3. Asked'
    BY <2>1, BeginEffect DEF Asked
  <2> QED BY <2>2, <2>3
<1>15. CASE Crash
  <2>1. setback' \in BOOLEAN
    BY <1>15, Zenon DEF Crash, TypeOK
  <2>2. TypeOK' /\ Asked'
    BY <1>15, <2>1 DEF Crash, TypeOK, Asked
  <2> QED BY <2>2
<1>16. CASE \E i \in Entries : CloseListeners(i)
  BY <1>16 DEF CloseListeners, TypeOK, Asked
<1>17. CASE \E p \in Ports : Occupy(p) \/ Vacate(p)
  BY <1>17 DEF Occupy, Vacate, TypeOK, Asked
<1> QED
  BY <1>1, <1>2, <1>3, <1>4, <1>5, <1>6, <1>7, <1>8, <1>9, <1>10, <1>11, <1>12,
     <1>13, <1>14, <1>15, <1>16, <1>17
  DEF Next, Request, Step, Persist, Restore, Requests
-----------------------------------------------------------------------------
(* The map, the entries and their ports                                    *)

Assigning ==
  \/ \E t \in Tasks : WriteMode(t) \/ Lift(t) \/ \E i \in Entries : Trip(t, i)
  \/ RestoreLimit

\* What a step may do to the map and the entries.
LEMMA MemorySteps ==
  ASSUME Next
  PROVE  \/ UNCHANGED memory
         \/ Assigning
         \/ \E t \in Tasks, i \in Entries, p \in Ports : Bind(t, i, p)
         \/ \E t \in Tasks : Insert(t) \/ Remove(t) \/ Cancel(t)
         \/ \E i \in Entries : CloseListeners(i)
         \/ Crash
<1>1. ASSUME NEW t \in Tasks, Request(t)
      PROVE  UNCHANGED memory \/ Assigning
  <2>1. CASE \E i \in Entries : Trip(t, i)
    BY <2>1 DEF Assigning
  <2>2. \A w : Register(t, w) => UNCHANGED memory
    BY DEF Register
  <2>3. \A n, m : Retire(t, n) \/ Resume(t, n) \/ SetMode(t, n, m) => UNCHANGED memory
    BY DEF Retire, Resume, SetMode
  <2> QED BY <1>1, <2>1, <2>2, <2>3 DEF Request
<1>2. ASSUME NEW t \in Tasks, Persist(t) \/ BindFails(t)
      PROVE  UNCHANGED memory
  BY <1>2 DEF Persist, TakeSnapshot, Write, BindFails
<1>3. CASE Restore
  BY <1>3 DEF Restore, RestoreNext, RestoreDone, Assigning
<1>4. CASE Start \/ \E p \in Ports : Occupy(p) \/ Vacate(p)
  BY <1>4 DEF Start, Occupy, Vacate
<1> QED BY <1>1, <1>2, <1>3, <1>4 DEF Next, Step, Assigning

\* Two tasks that are about to touch the map have different names in hand.
LEMMA OwnName ==
  ASSUME OneCommandPerSandbox, IInv, NEW t \in Tasks, NEW u \in Tasks, t # u,
         Busy(t), task[t].at \in {"bind", "insert", "remove", "cancel"},
         Busy(u), \/ task[u].at \in {"bind", "insert", "remove", "cancel"}
                  \/ task[u].goal = "bind"
  PROVE  task[t].want.name # task[u].want.name
<1>1. CASE phase = "restoring"
  BY <1>1, TaskAssumption DEF Booting
<1>2. CASE phase # "restoring"
  BY <1>2 DEF Claims, OneCommandPerSandbox
<1> QED BY <1>1, <1>2

LEMMA Mapping ==
  ASSUME OneCommandPerSandbox, IInv, Next PROVE Mapped' /\ Exclusive'
<1>1. CASE UNCHANGED memory
  BY <1>1 DEF Mapped, Exclusive
<1>2. CASE Assigning
  BY <1>2, FieldEffect DEF Assigning, SameEndpoints, Mapped, Exclusive, TypeOK
<1>3. ASSUME NEW t \in Tasks, NEW i \in Entries, NEW p \in Ports, Bind(t, i, p)
      PROVE  Mapped' /\ Exclusive'
  BY <1>3, BlankAssumption DEF Bind, Mapped, Exclusive, TypeOK, Asked, Held, Requests
<1>4. ASSUME NEW t \in Tasks, Insert(t)
      PROVE  Mapped' /\ Exclusive'
  BY <1>4 DEF Insert, InHand, Mapped, Exclusive, TypeOK
<1>5. ASSUME NEW t \in Tasks, Remove(t)
      PROVE  Mapped' /\ Exclusive'
  BY <1>5 DEF Remove, Mapped, Exclusive, TypeOK
<1>6. ASSUME NEW t \in Tasks, Cancel(t)
      PROVE  Mapped' /\ Exclusive'
  BY <1>6 DEF Cancel, InHand, Vacant, Mapped, Exclusive
<1>7. ASSUME NEW i \in Entries, CloseListeners(i)
      PROVE  Mapped' /\ Exclusive'
  BY <1>7 DEF CloseListeners, Mapped, Exclusive, TypeOK
<1>8. CASE Crash
  BY <1>8 DEF Crash, Mapped, Exclusive
<1> QED
  BY <1>1, <1>2, <1>3, <1>4, <1>5, <1>6, <1>7, <1>8, MemorySteps

-----------------------------------------------------------------------------
(* What tasks have in hand                                                 *)

LEMMA Hands ==
  ASSUME OneCommandPerSandbox, IInv, Next PROVE InHand' /\ Vacant' /\ Claims'
<1> USE TaskAssumption
<1>1. ASSUME NEW t \in Tasks, NEW w \in Requests, Register(t, w)
      PROVE  InHand' /\ Vacant' /\ Claims'
  BY <1>1 DEF Register, Accepts, Begin, Job, TypeOK, InHand, Vacant, Claims
<1>2. ASSUME NEW t \in Tasks, NEW n \in Names,
             Retire(t, n) \/ Resume(t, n) \/ \E m \in Modes : SetMode(t, n, m)
      PROVE  InHand' /\ Vacant' /\ Claims'
  BY <1>2 DEF Retire, Resume, SetMode, Accepts, Begin, Job, TypeOK, Mapped,
              InHand, Vacant, Claims
<1>3. ASSUME NEW t \in Tasks, NEW i \in Entries, Trip(t, i)
      PROVE  InHand' /\ Vacant' /\ Claims'
  <2>1. SameEndpoints /\ UNCHANGED <<sandboxes, cancelled, phase>>
    BY <1>3, FieldEffect DEF Trip
  <2>2. Begin(t, "snapshot", NoEntry, NoReg, "idle")
    BY <1>3 DEF Trip
  <2>3. /\ \A u \in Tasks : u # t => task'[u] = task[u]
        /\ task'[t].at = "snapshot" /\ task'[t].goal = "idle"
    BY <2>2, BeginEffect DEF Points, Goals
  <2> QED BY <2>1, <2>3 DEF SameEndpoints, InHand, Vacant, Claims
<1>4. ASSUME NEW t \in Tasks, NEW i \in Entries, NEW p \in Ports, Bind(t, i, p)
      PROVE  InHand' /\ Vacant' /\ Claims'
  BY <1>4 DEF Bind, TypeOK, Work, InHand, Vacant, Claims
<1>5. ASSUME NEW t \in Tasks, BindFails(t)
      PROVE  InHand' /\ Vacant' /\ Claims'
  BY <1>5 DEF BindFails, Goto, TypeOK, Work, InHand, Vacant, Claims
<1>6. ASSUME NEW t \in Tasks, Insert(t)
      PROVE  InHand' /\ Vacant' /\ Claims'
  <2>1. /\ At(t, "insert") /\ Goto(t, "snapshot")
        /\ sandboxes' = [sandboxes EXCEPT ![task[t].want.name] = task[t].entry]
        /\ UNCHANGED <<reg, cancelled, phase>>
    BY <1>6 DEF Insert
  <2>2. /\ \A u \in Tasks : u # t => task'[u] = task[u]
        /\ task'[t].at = "snapshot" /\ task'[t].want = task[t].want
        /\ task'[t].goal = task[t].goal /\ task'[t].goal # "bind"
    BY <2>1, GotoEffect DEF Points, Claims, Chained
  <2>3. InHand' /\ Claims'
    BY <2>1, <2>2 DEF InHand, Claims
  <2>4. Vacant'
    BY <2>1, <2>2, OwnName DEF Vacant, TypeOK
  <2> QED BY <2>3, <2>4
<1>7. ASSUME NEW t \in Tasks, Remove(t)
      PROVE  InHand' /\ Vacant' /\ Claims'
  <2> DEFINE n == task[t].want.name
  <2>1. task[t].want \in Requests /\ task[t].goal \in Goals /\ At(t, "remove")
    BY <1>7 DEF Remove, Asked, TypeOK, Work
  <2>2. CASE sandboxes[n] = NoEntry
    <3>1. Arrive(t) /\ UNCHANGED <<sandboxes, reg, cancelled>>
      BY <1>7, <2>2 DEF Remove
    <3>2. task[t].goal \in {"idle", "bind"}
      BY <2>1 DEF Booting, Phased, TypeOK
    <3>3. phase' = phase
      BY <3>1, <3>2 DEF Arrive
    <3>4. /\ \A u \in Tasks : u # t => task'[u] = task[u]
          /\ task'[t] # NoTask => /\ task[t].goal = "bind" /\ task'[t].at = "bind"
                                  /\ task'[t].want = task[t].want
      BY <2>1, <3>1, <3>2, ArriveEffect
    <3>5. InHand' /\ Claims'
      BY <2>1, <3>1, <3>3, <3>4 DEF InHand, Claims
    <3>6. Vacant'
      BY <2>1, <2>2, <3>1, <3>4 DEF Vacant
    <3> QED BY <3>5, <3>6
  <2>3. CASE sandboxes[n] # NoEntry
    <3>1. /\ Begin(t, "cancel", sandboxes[n], task[t].want, task[t].goal)
          /\ sandboxes' = [sandboxes EXCEPT ![n] = NoEntry]
          /\ UNCHANGED <<reg, cancelled, phase>>
      BY <1>7, <2>3 DEF Remove
    <3>2. sandboxes[n] \in Listening /\ reg[sandboxes[n]].name = n
      BY <2>1, <2>3 DEF Mapped, Requests
    <3>3. /\ \A u \in Tasks : u # t => task'[u] = task[u]
          /\ task'[t].at = "cancel" /\ task'[t].want = task[t].want
          /\ task'[t].goal = task[t].goal /\ task'[t].entry = sandboxes[n]
      BY <2>1, <3>1, <3>2, BeginEffect DEF Points
    <3>4. InHand' /\ Claims'
      BY <2>1, <3>1, <3>2, <3>3 DEF InHand, Claims
    <3>5. Vacant'
      BY <2>1, <3>1, <3>3 DEF Vacant, TypeOK, Requests
    <3> QED BY <3>4, <3>5
  <2> QED BY <2>2, <2>3
<1>8. ASSUME NEW t \in Tasks, Cancel(t)
      PROVE  InHand' /\ Vacant' /\ Claims'
  BY <1>8, OwnName DEF Cancel, Goto, TypeOK, Work, InHand, Vacant, Claims
<1>9. ASSUME NEW t \in Tasks, WriteMode(t) \/ Lift(t)
      PROVE  InHand' /\ Vacant' /\ Claims'
  <2>1. SameEndpoints /\ UNCHANGED <<sandboxes, cancelled, phase>>
    BY <1>9, FieldEffect DEF WriteMode, Lift
  <2>2. Goto(t, "snapshot") /\ Busy(t) /\ task[t].at \in {"mode", "lift"}
    BY <1>9 DEF WriteMode, Lift
  <2>3. /\ \A u \in Tasks : u # t => task'[u] = task[u]
        /\ task'[t].at = "snapshot" /\ task'[t].want = task[t].want
        /\ task'[t].goal = task[t].goal
    BY <2>2, GotoEffect DEF Points
  <2> QED BY <2>1, <2>2, <2>3 DEF SameEndpoints, InHand, Vacant, Claims
<1>10. ASSUME NEW t \in Tasks, TakeSnapshot(t)
       PROVE  InHand' /\ Vacant' /\ Claims'
  <2>1. At(t, "snapshot") /\ UNCHANGED <<memory, phase>>
    BY <1>10 DEF TakeSnapshot
  <2>2. /\ \A u \in Tasks : u # t => task'[u] = task[u]
        /\ task'[t].at = "write" /\ task'[t].want = task[t].want
        /\ task'[t].goal = task[t].goal
    BY <1>10, SnapshotEffect
  <2> QED BY <2>1, <2>2 DEF InHand, Vacant, Claims
<1>11. ASSUME NEW t \in Tasks, Write(t)
       PROVE  InHand' /\ Vacant' /\ Claims'
  <2>1. At(t, "write") /\ Arrive(t) /\ UNCHANGED memory
    BY <1>11 DEF Write
  <2>2. phase' = phase \/ (task[t].goal = "serve" /\ phase' = "serving")
    BY <2>1 DEF Arrive
  <2>3. /\ \A u \in Tasks : u # t => task'[u] = task[u]
        /\ task'[t] # NoTask =>
             /\ task[t].goal \in {"bind", "limit"}
             /\ task'[t].at = task[t].goal /\ task'[t].want = task[t].want
             /\ task'[t].goal # "bind"
    BY <2>1, ArriveEffect DEF Goals
  <2>4. InHand'
    BY <2>1, <2>3 DEF InHand
  <2>5. Vacant'
    BY <2>1, <2>3 DEF Vacant
  <2>6. Claims'
    BY <2>1, <2>2, <2>3 DEF Claims, Phased, Booting, TypeOK
  <2> QED BY <2>4, <2>5, <2>6
<1>12. ASSUME NEW n \in Names, RestoreNext(n)
       PROVE  InHand' /\ Vacant' /\ Claims'
  BY <1>12 DEF RestoreNext, Begin, Job, TypeOK, Phased, Booting, Named, NamedIn,
               InHand, Vacant, Claims
<1>13. CASE RestoreLimit
  <2>1. SameEndpoints /\ UNCHANGED <<sandboxes, cancelled, phase>>
    BY <1>13, FieldEffect DEF RestoreLimit
  <2>2. Goto(Main, "restore") /\ At(Main, "limit")
    BY <1>13 DEF RestoreLimit
  <2>3. /\ \A u \in Tasks : u # Main => task'[u] = task[u]
        /\ task'[Main].at = "restore" /\ task'[Main].want = task[Main].want
        /\ task'[Main].goal = task[Main].goal
    BY <2>2, GotoEffect DEF Points
  <2> QED BY <2>1, <2>2, <2>3 DEF SameEndpoints, InHand, Vacant, Claims
<1>14. CASE RestoreDone
  BY <1>14 DEF RestoreDone, Begin, Job, TypeOK, InHand, Vacant, Claims
<1>15. CASE Start
  BY <1>15 DEF Start, Begin, Job, TypeOK, Phased, InHand, Vacant, Claims
<1>16. CASE Crash
  BY <1>16 DEF Crash, InHand, Vacant, Claims
<1>17. ASSUME NEW i \in Entries, CloseListeners(i)
       PROVE  InHand' /\ Vacant' /\ Claims'
  BY <1>17 DEF CloseListeners, TypeOK, InHand, Vacant, Claims
<1>18. CASE \E p \in Ports : Occupy(p) \/ Vacate(p)
  BY <1>18 DEF Occupy, Vacate, InHand, Vacant, Claims
<1> QED
  BY <1>1, <1>2, <1>3, <1>4, <1>5, <1>6, <1>7, <1>8, <1>9, <1>10, <1>11, <1>12,
     <1>13, <1>14, <1>15, <1>16, <1>17, <1>18
  DEF Next, Request, Step, Persist, Restore, Requests
-----------------------------------------------------------------------------
(* Who listens is registered or in hand                                    *)

\* A request begins on an idle task and leaves the others, the files and the
\* phase alone.
Begins(t) ==
  /\ task[t] = NoTask
  /\ \E at, i, w, g : Begin(t, at, i, w, g)
  /\ UNCHANGED <<disk, saved, phase, todo>>

LEMMA RequestEffect ==
  ASSUME NEW t \in Tasks, Request(t) PROVE Begins(t)
<1>1. \A w : Register(t, w) => Begins(t)
  BY DEF Register, Accepts, Begins
<1>2. \A n : Retire(t, n) => Begins(t)
  BY DEF Retire, Accepts, Begins
<1>3. \A n : Resume(t, n) => Begins(t)
  BY DEF Resume, Accepts, Begins
<1>4. \A n, m : SetMode(t, n, m) => Begins(t)
  BY DEF SetMode, Accepts, Begins
<1>5. \A i : Trip(t, i) => Begins(t)
  BY DEF Trip, Begins
<1> QED BY <1>1, <1>2, <1>3, <1>4, <1>5 DEF Request

\* A task keeps what it has in hand until it inserts or cancels it.
LEMMA HandsKept ==
  ASSUME IInv, Next, ~Crash, NEW u \in Tasks, Busy(u),
         task[u].at \in {"insert", "cancel"}, ~Insert(u), ~Cancel(u)
  PROVE  task'[u] = task[u]
<1> USE TaskAssumption DEF TypeOK
<1>1. ASSUME NEW t \in Tasks, Request(t) PROVE task'[u] = task[u]
  BY <1>1, RequestEffect DEF Begins, Begin
<1>2. ASSUME NEW t \in Tasks, Step(t) PROVE task'[u] = task[u]
  <2>1. CASE t = u
    BY <1>2, <2>1 DEF Step, Persist, Bind, BindFails, Remove, WriteMode, Lift,
                      TakeSnapshot, Write
  <2>2. CASE t # u
    BY <1>2, <2>2 DEF Step, Persist, Bind, BindFails, Insert, Remove, Cancel,
                      WriteMode, Lift, TakeSnapshot, Write, Goto, Begin, Arrive
  <2> QED BY <2>1, <2>2
<1>3. CASE Restore
  BY <1>3 DEF Restore, RestoreNext, RestoreLimit, RestoreDone, Begin, Goto
<1>4. CASE Start
  BY <1>4 DEF Start, Phased
<1>5. CASE \/ \E i \in Entries : CloseListeners(i)
           \/ \E p \in Ports : Occupy(p) \/ Vacate(p)
  BY <1>5 DEF CloseListeners, Occupy, Vacate
<1> QED BY <1>1, <1>2, <1>3, <1>4, <1>5 DEF Next

LEMMA Serving ==
  ASSUME OneCommandPerSandbox, IInv, Next PROVE Served'
<1>1. ASSUME NEW t \in Tasks, Insert(t) PROVE Served'
  <2>1. \A u \in Tasks : u # t => task'[u] = task[u]
    BY <1>1, GotoEffect DEF Insert, Points
  <2>2. /\ At(t, "insert") /\ UNCHANGED <<reg, cancelled>>
        /\ sandboxes' = [sandboxes EXCEPT ![task[t].want.name] = task[t].entry]
    BY <1>1 DEF Insert
  <2>3. /\ reg[task[t].entry].name = task[t].want.name
        /\ task[t].want.name \in Names
        /\ sandboxes[task[t].want.name] = NoEntry
    BY <2>2 DEF InHand, Vacant, Asked, Requests
  <2>4. sandboxes'[task[t].want.name] = task[t].entry
    BY <2>2, <2>3 DEF TypeOK
  <2>5. \A n \in Names : sandboxes[n] # NoEntry => sandboxes'[n] = sandboxes[n]
    BY <2>2, <2>3 DEF TypeOK
  <2> QED
    BY <2>1, <2>2, <2>3, <2>4, <2>5, ValueAssumption DEF Served, TypeOK, Registrations
<1>2. ASSUME NEW t \in Tasks, Cancel(t) PROVE Served'
  <2>1. \A u \in Tasks : u # t => task'[u] = task[u]
    BY <1>2, GotoEffect DEF Cancel, Points
  <2> QED BY <1>2, <2>1 DEF Cancel, Served
<1>3. CASE Crash
  BY <1>3 DEF Crash, Served
<1>4. CASE ~Crash /\ \A t \in Tasks : ~Insert(t) /\ ~Cancel(t)
  <2>1. \A u \in Tasks : Busy(u) /\ task[u].at \in {"insert", "cancel"}
                           => task'[u] = task[u]
    BY <1>4, HandsKept
  <2>2. CASE UNCHANGED memory
    BY <2>1, <2>2 DEF Served
  <2>3. CASE Assigning
    BY <2>1, <2>3, FieldEffect DEF Assigning, SameEndpoints, Served
  <2>4. ASSUME NEW t \in Tasks, NEW i \in Entries, NEW p \in Ports, Bind(t, i, p)
        PROVE  Served'
    <3>1. task'[t] # NoTask /\ task'[t].at = "insert" /\ task'[t].entry = i
      BY <2>4, BlankAssumption DEF Bind, TypeOK, Work
    <3>2. \A j \in Entries : j # i => reg'[j] = reg[j]
      BY <2>4 DEF Bind, TypeOK
    <3>3. UNCHANGED <<sandboxes, cancelled>> /\ reg[i] = NoReg
      BY <2>4 DEF Bind
    <3> QED BY <2>1, <3>1, <3>2, <3>3 DEF Served
  <2>5. ASSUME NEW t \in Tasks, Remove(t) PROVE Served'
    <3> DEFINE n == task[t].want.name
    <3>1. CASE sandboxes[n] = NoEntry
      BY <2>1, <2>5, <3>1 DEF Remove, Served
    <3>2. CASE sandboxes[n] # NoEntry
      <4>1. /\ task'[t] # NoTask /\ task'[t].at = "cancel"
            /\ task'[t].entry = sandboxes[n]
        <5>1. Begin(t, "cancel", sandboxes[n], task[t].want, task[t].goal)
          BY <2>5, <3>2 DEF Remove
        <5>2. /\ task[t].want \in Requests /\ task[t].goal \in Goals
              /\ sandboxes[n] \in Entries
          BY <2>5, <3>2 DEF Remove, Asked, TypeOK, Work, Requests
        <5> QED BY <5>1, <5>2, BeginEffect DEF Points
      <4>2. /\ sandboxes' = [sandboxes EXCEPT ![n] = NoEntry]
            /\ UNCHANGED <<reg, cancelled>>
        BY <2>5, <3>2 DEF Remove
      <4> QED BY <2>1, <4>1, <4>2 DEF Served, TypeOK
    <3> QED BY <3>1, <3>2
  <2>6. ASSUME NEW i \in Entries, CloseListeners(i) PROVE Served'
    BY <2>1, <2>6 DEF CloseListeners, Served, TypeOK
  <2> QED BY <1>4, <2>2, <2>3, <2>4, <2>5, <2>6, MemorySteps
<1> QED BY <1>1, <1>2, <1>3, <1>4

-----------------------------------------------------------------------------
(* The phases, and the names things are filed under                        *)

LEMMA Naming == ASSUME IInv, Next PROVE Named'
<1> USE TaskAssumption DEF Named, NamedIn
<1>1. ASSUME NEW t \in Tasks, Request(t) PROVE Named'
  BY <1>1, RequestEffect DEF Begins, Begin, Job, TypeOK
<1>2. ASSUME NEW t \in Tasks, TakeSnapshot(t) PROVE Named'
  <2>1. UNCHANGED <<disk, saved>>
    BY <1>2 DEF TakeSnapshot
  <2> QED BY <1>2, <2>1, SnapshotEffect, SnapshotTyping
<1>3. ASSUME NEW t \in Tasks, Remove(t) \/ Write(t) PROVE Named'
  <2>1. Busy(t)
    BY <1>3 DEF Remove, Write
  <2>2. NamedIn(disk') /\ NamedIn(saved')
    BY <1>3 DEF Remove, Write, Arrive
  <2>3. \A u \in Tasks : u # t => task'[u] = task[u]
    BY <1>3 DEF Remove, Write, Arrive, Begin, TypeOK
  <2>4. task'[t] # NoTask => task'[t].snap = Empty
    BY <1>3 DEF Remove, Write, Arrive, Begin, Job, TypeOK
  <2> QED BY <2>2, <2>3, <2>4
<1>4. ASSUME NEW t \in Tasks, NEW i \in Entries, NEW p \in Ports, Bind(t, i, p)
      PROVE Named'
  BY <1>4 DEF Bind, TypeOK, Work
<1>5. ASSUME NEW t \in Tasks,
             BindFails(t) \/ Insert(t) \/ Cancel(t) \/ WriteMode(t) \/ Lift(t)
      PROVE Named'
  BY <1>5 DEF BindFails, Insert, Cancel, WriteMode, Lift, Goto, TypeOK, Work
<1>6. CASE Restore \/ Start
  BY <1>6 DEF Restore, RestoreNext, RestoreLimit, RestoreDone, Start, Begin, Job,
              Goto, TypeOK, Work
<1>7. CASE \/ Crash \/ \E i \in Entries : CloseListeners(i)
           \/ \E p \in Ports : Occupy(p) \/ Vacate(p)
  BY <1>7 DEF Crash, CloseListeners, Occupy, Vacate
<1> QED BY <1>1, <1>2, <1>3, <1>4, <1>5, <1>6, <1>7 DEF Next, Step, Persist
LEMMA Phasing == ASSUME IInv, Next PROVE Phased' /\ Chained' /\ Booting'
<1> USE TaskAssumption
<1> DEFINE Goal == Phased' /\ Chained' /\ Booting'
           Others(t) == \A u \in Tasks : u # t => task'[u] = task[u]
<1>1. ASSUME NEW t \in Tasks, Request(t), phase = "serving" PROVE Goal
  <2> DEFINE Plain == /\ phase' = phase
                      /\ \E at, i, w, g : /\ Begin(t, at, i, w, g)
                                          /\ at \notin {"restore", "limit"}
                                          /\ \/ g = "idle"
                                             \/ g = "bind" /\ at = "remove"
  <2>1. \A w : Register(t, w) => Plain
    BY DEF Register
  <2>2. \A n, m : Retire(t, n) \/ Resume(t, n) \/ SetMode(t, n, m) => Plain
    BY DEF Retire, Resume, SetMode
  <2>3. \A i : Trip(t, i) => Plain
    BY DEF Trip
  <2>4. Plain
    BY <1>1, <2>1, <2>2, <2>3 DEF Request
  <2> QED BY <1>1, <2>4 DEF Begin, Job, TypeOK, Phased, Chained, Booting
<1>2. ASSUME NEW t \in Tasks, Request(t), phase # "serving" PROVE Goal
  <2>1. \E i \in Entries : Trip(t, i)
    <3>1. \A w : ~Register(t, w)
      BY <1>2 DEF Register, Accepts
    <3>2. \A n, m : ~(Retire(t, n) \/ Resume(t, n) \/ SetMode(t, n, m))
      BY <1>2 DEF Retire, Resume, SetMode, Accepts
    <3> QED BY <1>2, <3>1, <3>2 DEF Request
  <2>2. /\ Begin(t, "snapshot", NoEntry, NoReg, "idle") /\ t # Main
        /\ phase = "restoring" /\ UNCHANGED <<sandboxes, phase, saved, todo>>
    BY <1>2, <2>1 DEF Trip, Booting, TypeOK
  <2>3. Others(t) /\ task'[t].at = "snapshot" /\ task'[t].goal = "idle"
    BY <2>2, BeginEffect DEF Points, Goals
  <2> QED BY <2>2, <2>3 DEF Phased, Chained, Booting
<1>3. ASSUME NEW t \in Tasks, NEW i \in Entries, NEW p \in Ports, Bind(t, i, p)
      PROVE  Goal
  <2>1. /\ At(t, "bind") /\ UNCHANGED <<sandboxes, phase, saved, todo>>
    BY <1>3 DEF Bind
  <2>2. /\ Others(t) /\ task'[t] # NoTask
        /\ task'[t].at = "insert" /\ task'[t].want = task[t].want
        /\ task'[t].goal = task[t].goal
    BY <1>3, BlankAssumption DEF Bind, TypeOK, Work
  <2> QED BY <2>1, <2>2 DEF Phased, Chained, Booting
<1>4. ASSUME NEW t \in Tasks, BindFails(t) PROVE Goal
  <2>1. /\ At(t, "bind") /\ UNCHANGED <<sandboxes, phase, saved, todo>>
    BY <1>4 DEF BindFails
  <2>2. Others(t)
    BY <1>4 DEF BindFails, Goto, TypeOK
  <2>3. CASE phase = "restoring"
    <3>1. /\ task'[t] # NoTask /\ task'[t].at = "restore"
          /\ task'[t].goal = task[t].goal
      BY <1>4, <2>1, <2>3, GotoEffect DEF BindFails, Points
    <3> QED BY <2>1, <2>2, <2>3, <3>1 DEF Phased, Chained, Booting
  <2>4. CASE phase # "restoring"
    <3>1. task'[t] = NoTask
      BY <1>4, <2>4 DEF BindFails, TypeOK
    <3> QED BY <2>1, <2>2, <2>4, <3>1 DEF Phased, Chained, Booting
  <2> QED BY <2>3, <2>4
<1>5. ASSUME NEW t \in Tasks, Insert(t) PROVE Goal
  <2>1. /\ At(t, "insert") /\ Goto(t, "snapshot") /\ UNCHANGED <<phase, saved, todo>>
        /\ sandboxes' = [sandboxes EXCEPT ![task[t].want.name] = task[t].entry]
    BY <1>5 DEF Insert
  <2>2. /\ Others(t) /\ task'[t] # NoTask /\ task'[t].at = "snapshot"
        /\ task'[t].goal = task[t].goal
    BY <2>1, GotoEffect DEF Points
  <2>3. phase = "restoring" => \A n \in todo : sandboxes'[n] = sandboxes[n]
    BY <2>1 DEF Booting, TypeOK
  <2> QED BY <2>1, <2>2, <2>3 DEF Phased, Chained, Booting
<1>6. ASSUME NEW t \in Tasks, Remove(t) PROVE Goal
  <2>1. /\ At(t, "remove") /\ phase = "serving" /\ task[t].goal \in {"idle", "bind"}
        /\ task[t].want \in Requests
    BY <1>6 DEF Remove, Phased, Booting, TypeOK, Asked
  <2>2. phase' = "serving" /\ Others(t)
    BY <1>6, <2>1 DEF Remove, Arrive, Begin, TypeOK
  <2>3. task'[t] # NoTask => \/ task'[t].at = "bind" /\ task'[t].goal = "idle"
                             \/ task'[t].at = "cancel" /\ task'[t].goal = task[t].goal
    BY <1>6, <2>1 DEF Remove, Arrive, Begin, Job, TypeOK
  <2> QED BY <2>1, <2>2, <2>3 DEF Phased, Chained, Booting
<1>7. ASSUME NEW t \in Tasks, Cancel(t) \/ WriteMode(t) \/ Lift(t) PROVE Goal
  <2>1. /\ Busy(t) /\ task[t].at \in {"cancel", "mode", "lift"} /\ Goto(t, "snapshot")
        /\ UNCHANGED <<sandboxes, phase, saved, todo>>
    BY <1>7 DEF Cancel, WriteMode, Lift
  <2>2. /\ Others(t) /\ task'[t] # NoTask /\ task'[t].at = "snapshot"
        /\ task'[t].goal = task[t].goal
    BY <2>1, GotoEffect DEF Points
  <2> QED BY <2>1, <2>2 DEF Phased, Chained, Booting
<1>8. ASSUME NEW t \in Tasks, TakeSnapshot(t) PROVE Goal
  <2>1. /\ At(t, "snapshot") /\ UNCHANGED <<sandboxes, phase, saved, todo>>
    BY <1>8 DEF TakeSnapshot
  <2>2. /\ Others(t) /\ task'[t] # NoTask /\ task'[t].at = "write"
        /\ task'[t].goal = task[t].goal
    BY <1>8, SnapshotEffect
  <2> QED BY <2>1, <2>2 DEF Phased, Chained, Booting
<1>9. ASSUME NEW t \in Tasks, Write(t) PROVE Goal
  <2>1. At(t, "write") /\ Arrive(t) /\ UNCHANGED sandboxes
    BY <1>9 DEF Write
  <2>2. /\ Others(t)
        /\ task[t].goal \in {"idle", "serve"} => task'[t] = NoTask
        /\ task[t].goal \in {"bind", "limit"} =>
             /\ task'[t] # NoTask /\ task'[t].at = task[t].goal
             /\ task'[t].goal = IF task[t].goal = "bind" THEN "idle" ELSE "limit"
        /\ task[t].goal \in Goals
    BY <2>1, ArriveEffect
  <2>3. CASE task[t].goal = "serve"
    <3>1. phase = "restoring" /\ t = Main /\ phase' = "serving"
      BY <2>1, <2>3 DEF Arrive, Phased, Booting, TypeOK
    <3>2. \A u \in Tasks : task'[u] # NoTask =>
            task'[u].at \in {"snapshot", "write"} /\ task'[u].goal = "idle"
      BY <2>2, <2>3, <3>1 DEF Booting
    <3> QED BY <3>1, <3>2 DEF Phased, Chained, Booting
  <2>4. CASE task[t].goal # "serve"
    <3>1. UNCHANGED <<phase, saved, todo>>
      BY <2>1, <2>4 DEF Arrive
    <3>2. CASE phase = "restoring"
      BY <2>1, <2>2, <2>4, <3>1, <3>2 DEF Phased, Chained, Booting, Goals
    <3>3. CASE phase = "serving"
      BY <2>1, <2>2, <2>4, <3>1, <3>3 DEF Phased, Chained, Booting, Goals
    <3> QED BY <2>1, <3>2, <3>3 DEF Phased, TypeOK
  <2> QED BY <2>3, <2>4
<1>10. ASSUME NEW n \in Names, RestoreNext(n) PROVE Goal
  <2>1. /\ phase = "restoring" /\ todo' = todo \ {n} /\ n \in todo
        /\ UNCHANGED <<sandboxes, phase, saved>>
        /\ Begin(Main, "bind", NoEntry, saved[n], "limit")
    BY <1>10 DEF RestoreNext, Phased, TypeOK
  <2>2. saved[n] \in Requests /\ saved[n].name = n
    BY <2>1 DEF Booting, Named, NamedIn, TypeOK, Registrations, Requests
  <2>3. /\ Others(Main) /\ task'[Main] # NoTask /\ task'[Main].at = "bind"
        /\ task'[Main].want = saved[n] /\ task'[Main].goal = "limit"
    BY <2>1, <2>2, BeginEffect DEF Points, Goals
  <2> QED BY <2>1, <2>2, <2>3 DEF Phased, Chained, Booting
<1>11. CASE RestoreLimit
  <2>1. /\ At(Main, "limit") /\ Goto(Main, "restore") /\ phase = "restoring"
        /\ UNCHANGED <<sandboxes, phase, saved, todo>>
    BY <1>11 DEF RestoreLimit, Phased, TypeOK
  <2>2. /\ Others(Main) /\ task'[Main] # NoTask /\ task'[Main].at = "restore"
        /\ task'[Main].goal = task[Main].goal
    BY <2>1, GotoEffect DEF Points
  <2> QED BY <2>1, <2>2 DEF Phased, Chained, Booting
<1>12. CASE RestoreDone
  <2>1. /\ Begin(Main, "snapshot", NoEntry, NoReg, "serve") /\ phase = "restoring"
        /\ todo = {} /\ UNCHANGED <<sandboxes, phase, saved, todo>>
    BY <1>12 DEF RestoreDone, Phased, TypeOK
  <2>2. /\ Others(Main) /\ task'[Main] # NoTask /\ task'[Main].at = "snapshot"
        /\ task'[Main].goal = "serve"
    BY <2>1, BeginEffect DEF Points, Goals
  <2> QED BY <2>1, <2>2 DEF Phased, Chained, Booting
<1>13. CASE Start
  <2>1. /\ Begin(Main, "restore", NoEntry, NoReg, "limit") /\ phase = "down"
        /\ phase' = "restoring" /\ UNCHANGED sandboxes /\ saved' = disk
        /\ todo' = {n \in Names : disk[n] # NoReg}
    BY <1>13 DEF Start
  <2>2. /\ Others(Main) /\ task'[Main] # NoTask /\ task'[Main].at = "restore"
        /\ task'[Main].goal = "limit"
    BY <2>1, BeginEffect DEF Points, Goals
  <2> QED BY <2>1, <2>2 DEF Phased, Chained, Booting
<1>14. CASE Crash
  BY <1>14 DEF Crash, Phased, Chained, Booting
<1>15. CASE \/ \E i \in Entries : CloseListeners(i)
            \/ \E p \in Ports : Occupy(p) \/ Vacate(p)
  BY <1>15 DEF CloseListeners, Occupy, Vacate, Phased, Chained, Booting
<1> QED
  BY <1>1, <1>2, <1>3, <1>4, <1>5, <1>6, <1>7, <1>8, <1>9, <1>10, <1>11, <1>12,
     <1>13, <1>14, <1>15
  DEF Next, Step, Persist, Restore

-----------------------------------------------------------------------------
(* The theorems                                                            *)

LEMMA Inductive == ASSUME OneCommandPerSandbox PROVE Spec => []IInv
<1>1. Init => IInv
  BY TaskAssumption, ValueAssumption
  DEF Init, TypeOK, Asked, Mapped, Exclusive, InHand, Vacant, Chained, Claims,
      Served, Phased, Booting, Named, NamedIn
<1>2. IInv /\ [Next]_vars => IInv'
  <2>1. CASE Next
    BY <2>1, Typing, Mapping, Hands, Serving, Phasing, Naming, OneCommandPerSandbox
  <2>2. CASE UNCHANGED vars
    BY <2>2
    DEF vars, TypeOK, Asked, Mapped, Exclusive, InHand, Vacant, Chained, Claims,
        Served, Phased, Booting, Named, NamedIn
  <2> QED BY <2>1, <2>2
<1> QED BY <1>1, <1>2, PTL DEF Spec

\* Every variable keeps to its values: a task never works on a request it does
\* not have, nor writes a registry with a half-registered sandbox.
THEOREM RegistryTyping == ASSUME OneCommandPerSandbox PROVE Spec => []TypeOK
<1>1. IInv => TypeOK
  OBVIOUS
<1> QED BY <1>1, Inductive, PTL

\* Endpoints and registrations stay in step through register, retire and
\* restore, crashes and failed writes included: what the map names listens, no
\* port is shared, and no listener is forgotten.
THEOREM EndpointsStayOwned ==
  ASSUME OneCommandPerSandbox PROVE Spec => []EndpointsOwned
<1>1. IInv => EndpointsOwned
  BY DEF Mapped, Exclusive, Served, EndpointsOwned
<1> QED BY <1>1, Inductive, PTL

-----------------------------------------------------------------------------
(* registry.json and the map, one command at a time                        *)

OneCommandAtATime == \A t, u \in Tasks : t = u

\* What is about to be written is the map, and a task that may still end
\* without writing leaves a file that says what the map says.
Recorded ==
  /\ \A t \in Tasks : Busy(t) /\ task[t].at = "write" => task[t].snap = Snapshot
  /\ phase = "serving" /\ ~lost
       /\ (\A t \in Tasks : Busy(t) => task[t].at \in {"remove", "bind"})
         => disk = Snapshot

\* What the map names is not touched when listeners open and close.
LEMMA SnapshotKept ==
  ASSUME IInv,
         \/ UNCHANGED <<sandboxes, reg>>
         \/ \E i \in Entries : CloseListeners(i)
         \/ \E t \in Tasks, i \in Entries, p \in Ports : Bind(t, i, p)
  PROVE  Snapshot' = Snapshot
<1>1. CASE UNCHANGED <<sandboxes, reg>>
  BY <1>1 DEF Snapshot
<1>2. ASSUME NEW i \in Entries, UNCHANGED sandboxes,
             \A n \in Names : sandboxes[n] # i, \E r : reg' = [reg EXCEPT ![i] = r]
      PROVE  Snapshot' = Snapshot
  <2>1. \A n \in Names : sandboxes[n] # NoEntry => reg'[sandboxes[n]] = reg[sandboxes[n]]
    BY <1>2 DEF TypeOK
  <2> QED BY <1>2, <2>1 DEF Snapshot
<1>3. ASSUME NEW i \in Entries, CloseListeners(i) PROVE Snapshot' = Snapshot
  <2>1. \A n \in Names : sandboxes[n] # i
    BY <1>3, ValueAssumption DEF CloseListeners, Mapped
  <2> QED BY <1>2, <1>3, <2>1 DEF CloseListeners
<1>4. ASSUME NEW t \in Tasks, NEW i \in Entries, NEW p \in Ports, Bind(t, i, p)
      PROVE  Snapshot' = Snapshot
  <2>0. reg[i] = NoReg
    BY <1>4 DEF Bind
  <2>1. \A n \in Names : sandboxes[n] # i
    BY <2>0, ValueAssumption DEF Mapped
  <2> DEFINE r == [task[t].want EXCEPT !.port = p, !.limited = FALSE]
  <2>2. UNCHANGED sandboxes /\ reg' = [reg EXCEPT ![i] = r]
    BY <1>4 DEF Bind
  <2> HIDE DEF r
  <2> QED BY <1>2, <2>1, <2>2
<1> QED BY <1>1, <1>3, <1>4

LEMMA Recording ==
  ASSUME OneCommandAtATime, IInv, Recorded, Next PROVE Recorded'
<1> USE TaskAssumption DEF OneCommandAtATime
<1>1. ASSUME NEW t \in Tasks, Request(t) PROVE Recorded'
  <2> DEFINE Asks == /\ \E at, i, w, g : Begin(t, at, i, w, g) /\ at # "write"
                     /\ UNCHANGED <<phase, disk, lost>>
                     /\ UNCHANGED memory \/ \E i \in Entries : Trip(t, i)
  <2>1. Asks
    <3>1. \A w : Register(t, w) => Asks
      BY DEF Register
    <3>2. \A n, m : Retire(t, n) \/ Resume(t, n) \/ SetMode(t, n, m) => Asks
      BY DEF Retire, Resume, SetMode
    <3>3. ASSUME NEW i \in Entries, Trip(t, i) PROVE Asks
      <4>1. /\ Begin(t, "snapshot", NoEntry, NoReg, "idle")
            /\ UNCHANGED <<phase, disk, lost>>
        BY <3>3 DEF Trip
      <4> QED BY <3>3, <4>1
    <3> QED BY <1>1, <3>1, <3>2, <3>3 DEF Request
  <2>2. ~Busy(t) /\ (task'[t] # NoTask => task'[t].at # "write")
    BY <1>1, <2>1, RequestEffect DEF Begins, Begin, Job, TypeOK
  <2>4. CASE \E i \in Entries : Trip(t, i)
    <3>1. task'[t] # NoTask /\ task'[t].at = "snapshot"
      BY <2>4, BeginEffect DEF Trip, Points, Goals
    <3> QED BY <3>1 DEF Recorded
  <2>5. CASE ~\E i \in Entries : Trip(t, i)
    <3>1. UNCHANGED memory
      BY <2>1, <2>5
    <3> QED BY <2>1, <2>2, <3>1, SnapshotKept DEF Recorded
  <2> QED BY <2>4, <2>5
<1>2. ASSUME NEW t \in Tasks, NEW i \in Entries, NEW p \in Ports, Bind(t, i, p)
      PROVE  Recorded'
  <2>1. task'[t] # NoTask /\ task'[t].at = "insert"
    BY <1>2, BlankAssumption DEF Bind, TypeOK, Work
  <2> QED BY <2>1 DEF Recorded
<1>3. ASSUME NEW t \in Tasks, BindFails(t) PROVE Recorded'
  <2>1. At(t, "bind") /\ UNCHANGED <<memory, disk, lost, phase>>
    BY <1>3 DEF BindFails
  <2>2. CASE phase = "restoring"
    <3>1. task'[t] # NoTask /\ task'[t].at = "restore"
      BY <1>3, <2>1, <2>2, GotoEffect DEF BindFails, Points
    <3> QED BY <2>1, <2>2, <3>1 DEF Recorded
  <2>3. CASE phase # "restoring"
    <3>1. task'[t] = NoTask
      BY <1>3, <2>3 DEF BindFails, TypeOK
    <3> QED BY <2>1, <3>1, SnapshotKept DEF Recorded
  <2> QED BY <2>2, <2>3
<1>4. ASSUME NEW t \in Tasks, Insert(t) \/ Cancel(t) \/ WriteMode(t) \/ Lift(t)
      PROVE  Recorded'
  <2>1. Busy(t) /\ Goto(t, "snapshot")
    BY <1>4 DEF Insert, Cancel, WriteMode, Lift
  <2>2. task'[t] # NoTask /\ task'[t].at = "snapshot"
    BY <2>1, GotoEffect DEF Points
  <2> QED BY <2>2 DEF Recorded
<1>5. ASSUME NEW t \in Tasks, Remove(t) PROVE Recorded'
  <2> DEFINE n == task[t].want.name
  <2>1. At(t, "remove") /\ UNCHANGED <<disk, lost, reg>>
    BY <1>5 DEF Remove
  <2>2. CASE sandboxes[n] = NoEntry
    <3>1. Arrive(t) /\ UNCHANGED sandboxes
      BY <1>5, <2>2 DEF Remove
    <3>2. task[t].goal \in {"idle", "bind"} /\ phase' = phase
      BY <2>1, <3>1 DEF Phased, Booting, TypeOK, Arrive
    <3>3. task'[t] = NoTask \/ task'[t].at = "bind"
      BY <2>1, <3>1, <3>2, ArriveEffect
    <3> QED BY <2>1, <3>1, <3>2, <3>3, SnapshotKept DEF Recorded
  <2>3. CASE sandboxes[n] # NoEntry
    <3>1. task'[t] # NoTask /\ task'[t].at = "cancel"
      <4>1. Begin(t, "cancel", sandboxes[n], task[t].want, task[t].goal)
        BY <1>5, <2>3 DEF Remove
      <4>2. /\ task[t].want \in Requests /\ task[t].goal \in Goals
            /\ sandboxes[n] \in Entries
        BY <2>1, <2>3 DEF Asked, TypeOK, Work, Requests
      <4> QED BY <4>1, <4>2, BeginEffect DEF Points
    <3> QED BY <3>1 DEF Recorded
  <2> QED BY <2>2, <2>3
<1>6. ASSUME NEW t \in Tasks, TakeSnapshot(t) PROVE Recorded'
  <2>1. UNCHANGED memory
    BY <1>6 DEF TakeSnapshot
  <2> QED BY <1>6, <2>1, SnapshotEffect, SnapshotKept DEF Recorded
<1>7. ASSUME NEW t \in Tasks, Write(t) PROVE Recorded'
  <2>1. At(t, "write") /\ Arrive(t) /\ UNCHANGED memory
    BY <1>7 DEF Write
  <2>2. disk' = Snapshot \/ lost'
    BY <1>7, <2>1 DEF Write, Recorded
  <2>3. task'[t] # NoTask => task'[t].at # "write"
    BY <2>1, ArriveEffect DEF Goals
  <2> QED BY <2>1, <2>2, <2>3, SnapshotKept DEF Recorded
<1>8. CASE Restore
  <2>1. phase = "restoring" /\ UNCHANGED phase
    BY <1>8 DEF Restore, RestoreNext, RestoreLimit, RestoreDone, Phased, TypeOK
  <2>2. task'[Main] # NoTask => task'[Main].at # "write"
    BY <1>8 DEF Restore, RestoreNext, RestoreLimit, RestoreDone, Begin, Job, Goto, TypeOK, Work
  <2> QED BY <2>1, <2>2 DEF Recorded
<1>9. CASE Start
  <2>1. phase' = "restoring" /\ (task'[Main] # NoTask => task'[Main].at # "write")
    BY <1>9 DEF Start, Begin, Job, TypeOK
  <2> QED BY <2>1 DEF Recorded
<1>10. CASE Crash
  BY <1>10 DEF Crash, Recorded
<1>11. CASE \/ \E i \in Entries : CloseListeners(i)
            \/ \E p \in Ports : Occupy(p) \/ Vacate(p)
  <2>1. Snapshot' = Snapshot
    BY <1>11, SnapshotKept DEF Occupy, Vacate
  <2>2. UNCHANGED <<task, phase, disk, lost>>
    BY <1>11 DEF CloseListeners, Occupy, Vacate
  <2> QED BY <2>1, <2>2 DEF Recorded
<1> QED
  BY <1>1, <1>2, <1>3, <1>4, <1>5, <1>6, <1>7, <1>8, <1>9, <1>10, <1>11
  DEF Next, Step, Persist

LEMMA Unshared == OneCommandAtATime => OneCommandPerSandbox
BY DEF OneCommandAtATime, OneCommandPerSandbox

\* A broker that serves one command at a time has nothing in memory that
\* registry.json does not say once the command is answered, whatever failed
\* or crashed before, unless its own last write failed.
THEOREM RegistrationsAreDurable ==
  ASSUME OneCommandAtATime PROVE Spec => []DurableWhenQuiet
<1>1. Init => Recorded
  BY DEF Init, Recorded, Snapshot
<1>2. IInv /\ Recorded /\ [Next]_vars => Recorded'
  <2>1. CASE IInv /\ Recorded /\ Next
    BY <2>1, Recording
  <2>2. CASE Recorded /\ UNCHANGED vars
    BY <2>2 DEF vars, Recorded, Snapshot
  <2> QED BY <2>1, <2>2
<1>3. Recorded => DurableWhenQuiet
  BY DEF Recorded, DurableWhenQuiet, Quiet
<1>4. Spec => []IInv
  BY Inductive, Unshared
<1> QED BY <1>1, <1>2, <1>3, <1>4, PTL DEF Spec

-----------------------------------------------------------------------------
(* What restore() has brought back so far                                  *)

\* No two registrations of one file are for one port.
PortsApart(r) ==
  \A m, n \in Names : r[m] # NoReg /\ r[n] # NoReg /\ r[m].port = r[n].port => m = n

Apart ==
  /\ PortsApart(disk) /\ PortsApart(saved)
  /\ \A t \in Tasks : Busy(t) => PortsApart(task[t].snap)

\* The same registration, whatever its limit.
Alike(r, old) ==
  r.name = old.name /\ r.file = old.file /\ r.mode = old.mode /\ r.port = old.port

Returned(n) == /\ saved[n] # NoReg /\ sandboxes[n] # NoEntry
               /\ Alike(reg[sandboxes[n]], saved[n])
               /\ saved[n].limited => reg[sandboxes[n]].limited

Missing(n) == /\ saved[n] # NoReg /\ sandboxes[n] = NoEntry
              /\ saved[n].port \in Foreign /\ setback

\* The registration restore() works on: register() until it has persisted it,
\* then the limit.
AtWork == task[Main].goal = "limit" /\ task[Main].at # "restore"

Returning(n) == /\ AtWork /\ saved[n] # NoReg /\ task[Main].want = saved[n]
                /\ task[Main].at \in {"snapshot", "write", "limit"} =>
                     /\ sandboxes[n] # NoEntry
                     /\ Alike(reg[sandboxes[n]], saved[n])

Restored ==
  /\ phase # "serving" => cancelled = {}
  /\ phase = "restoring" =>
       /\ AtWork => /\ task[Main].want # NoReg
                    /\ saved[task[Main].want.name] = task[Main].want
       /\ task[Main].at = "insert" => Alike(reg[task[Main].entry], task[Main].want)
       /\ \A n \in Names : \/ saved[n] = NoReg /\ sandboxes[n] = NoEntry
                           \/ n \in todo
                           \/ Returning(n) \/ Returned(n) \/ Missing(n)

LEMMA MapApart == ASSUME IInv PROVE PortsApart(Snapshot)
BY DEF PortsApart, Snapshot, Mapped, Exclusive, TypeOK

LEMMA Separating == ASSUME IInv, Apart, Next PROVE Apart'
<1> USE TaskAssumption DEF Apart, PortsApart
<1>1. ASSUME NEW t \in Tasks, Request(t) PROVE Apart'
  BY <1>1, RequestEffect DEF Begins, Begin, Job, TypeOK
<1>2. ASSUME NEW t \in Tasks, TakeSnapshot(t) PROVE Apart'
  <2>1. UNCHANGED <<disk, saved>>
    BY <1>2 DEF TakeSnapshot
  <2> QED BY <1>2, <2>1, SnapshotEffect, MapApart
<1>3. ASSUME NEW t \in Tasks, Remove(t) \/ Write(t) PROVE Apart'
  <2>1. Busy(t)
    BY <1>3 DEF Remove, Write
  <2>2. PortsApart(disk') /\ PortsApart(saved')
    BY <1>3 DEF Remove, Write, Arrive
  <2>3. \A u \in Tasks : u # t => task'[u] = task[u]
    BY <1>3 DEF Remove, Write, Arrive, Begin, TypeOK
  <2>4. task'[t] # NoTask => task'[t].snap = Empty
    BY <1>3 DEF Remove, Write, Arrive, Begin, Job, TypeOK
  <2> QED BY <2>2, <2>3, <2>4
<1>4. ASSUME NEW t \in Tasks, NEW i \in Entries, NEW p \in Ports, Bind(t, i, p)
      PROVE Apart'
  BY <1>4 DEF Bind, TypeOK, Work
<1>5. ASSUME NEW t \in Tasks,
             BindFails(t) \/ Insert(t) \/ Cancel(t) \/ WriteMode(t) \/ Lift(t)
      PROVE Apart'
  BY <1>5 DEF BindFails, Insert, Cancel, WriteMode, Lift, Goto, TypeOK, Work
<1>6. CASE Restore \/ Start
  <2>1. UNCHANGED disk /\ (saved' = saved \/ saved' = disk)
    BY <1>6 DEF Restore, RestoreNext, RestoreLimit, RestoreDone, Start
  <2>2. \A u \in Tasks : u # Main => task'[u] = task[u]
    BY <1>6 DEF Restore, RestoreNext, RestoreLimit, RestoreDone, Start, Begin, Goto, TypeOK
  <2>3. task'[Main] # NoTask =>
          \/ task'[Main].snap = Empty
          \/ Busy(Main) /\ task'[Main].snap = task[Main].snap
    <3>1. \A at, i, w, g : Begin(Main, at, i, w, g) => task'[Main].snap = Empty
      BY DEF Begin, Job, TypeOK
    <3>2. RestoreLimit => Busy(Main) /\ task'[Main].snap = task[Main].snap
      BY GotoEffect DEF RestoreLimit, Points
    <3>3. \/ RestoreLimit
          \/ \E at, i, w, g : Begin(Main, at, i, w, g)
      <4>1. \A n : RestoreNext(n) => \E at, i, w, g : Begin(Main, at, i, w, g)
        BY DEF RestoreNext
      <4> QED BY <1>6, <4>1 DEF Restore, RestoreDone, Start
    <3> QED BY <3>1, <3>2, <3>3
  <2> QED BY <2>1, <2>2, <2>3
<1>7. CASE \/ Crash \/ \E i \in Entries : CloseListeners(i)
           \/ \E p \in Ports : Occupy(p) \/ Vacate(p)
  BY <1>7 DEF Crash, CloseListeners, Occupy, Vacate
<1> QED BY <1>1, <1>2, <1>3, <1>4, <1>5, <1>6, <1>7 DEF Next, Step, Persist

\* A step that leaves Main, the map and what was read alone, and at most limits
\* somebody, undoes nothing that was restored.
LEMMA RestoredKept ==
  ASSUME IInv, Restored,
         UNCHANGED <<phase, sandboxes, cancelled, saved, todo>>, setback => setback',
         phase = "restoring" => task'[Main] = task[Main],
         \A i \in Entries : reg[i] # NoReg =>
           /\ Alike(reg'[i], reg[i])
           /\ reg[i].limited => reg'[i].limited
  PROVE  Restored'
<1> USE TaskAssumption
<1>1. \A n \in Names : Returned(n) => Returned(n)'
  BY DEF Returned, Alike, Mapped
<1>2. \A n \in Names : Missing(n) => Missing(n)'
  BY DEF Missing
<1>3. ASSUME phase = "restoring" PROVE \A n \in Names : Returning(n) => Returning(n)'
  BY <1>3 DEF Returning, AtWork, Alike, Mapped
<1>4. ASSUME phase = "restoring" PROVE
        task[Main].at = "insert" => Alike(reg'[task[Main].entry], task[Main].want)
  BY <1>4 DEF Restored, Booting, InHand, Alike
<1> QED BY <1>1, <1>2, <1>3, <1>4 DEF Restored, AtWork

\* What the task that restores does; n is the registration it works on.
LEMMA RestoringStep ==
  ASSUME IInv, Restored, Apart, phase = "restoring", Step(Main)
  PROVE  Restored'
<1> USE TaskAssumption
<1> DEFINE w == task[Main].want
           n == w.name
           Frame == UNCHANGED <<phase, cancelled, saved, todo>>
<1>1. /\ Busy(Main) /\ task[Main].goal \in {"limit", "serve"}
      /\ task[Main].at \in {"restore", "bind", "insert", "snapshot", "write", "limit"}
      /\ cancelled = {}
  BY DEF Booting, Restored
<1>2. task[Main].at \in {"bind", "insert"} => task[Main].goal = "limit"
  BY <1>1 DEF Booting
<1>3. AtWork => /\ w \in Requests /\ n \in Names /\ saved[n] = w /\ w # NoReg
                /\ w \in Registrations
  BY BlankAssumption DEF Restored, AtWork, Asked, Requests, Booting, TypeOK
<1>4. \A m \in Names : Returning(m) => m = n
  BY DEF Returning, Named, NamedIn
<1>5. ASSUME NEW i \in Entries, NEW p \in Ports, Bind(Main, i, p) PROVE Restored'
  <2>1. AtWork /\ reg[i] = NoReg /\ w.port = p
    <3>1. task[Main].at = "bind" /\ reg[i] = NoReg /\ w.port \in {p, AnyPort}
      BY <1>5 DEF Bind
    <3> QED BY <1>2, <1>3, <3>1, ValueAssumption DEF AtWork, Registrations
  <2>2. Frame /\ UNCHANGED <<sandboxes, setback>>
    BY <1>5 DEF Bind
  <2>3. /\ task'[Main].at = "insert" /\ task'[Main].entry = i
        /\ task'[Main].want = w /\ task'[Main].goal = task[Main].goal
    BY <1>5 DEF Bind, TypeOK, Work
  <2>4. Alike(reg'[i], w)
    BY <1>5, <1>3, <2>1 DEF Bind, TypeOK, Alike, Registrations
  <2>5. \A j \in Entries : j # i => reg'[j] = reg[j]
    BY <1>5 DEF Bind, TypeOK
  <2>6. \A m \in Names : sandboxes[m] # i
    BY <2>1, ValueAssumption DEF Mapped
  <2>7. \A m \in Names : Returned(m) => Returned(m)'
    BY <2>2, <2>5, <2>6 DEF Returned, Mapped
  <2>8. \A m \in Names : (Missing(m) => Missing(m)') /\ (Returning(m) => Returning(m)')
    BY <1>4, <2>1, <2>2, <2>3 DEF Missing, Returning, AtWork
  <2> QED BY <1>1, <1>3, <2>1, <2>2, <2>3, <2>4, <2>7, <2>8 DEF Restored, AtWork
<1>6. ASSUME BindFails(Main) PROVE Restored'
  <2>1. task[Main].at = "bind" /\ AtWork
    BY <1>2, <1>6 DEF BindFails, AtWork
  <2>2. Frame /\ UNCHANGED <<sandboxes, reg>> /\ setback'
    BY <1>6 DEF BindFails
  <2>3. task'[Main].at = "restore" /\ task'[Main].want = w
    BY <1>6, GotoEffect DEF BindFails, Points
  <2>4. w.port \in Held
    BY <1>3, <1>6, <2>1, ValueAssumption DEF BindFails, Registrations
  <2>5. sandboxes[n] = NoEntry /\ n \notin todo
    BY <1>1, <2>1 DEF Vacant, Booting
  <2>6. ASSUME NEW j \in Entries, reg[j] # NoReg, reg[j].port = w.port PROVE FALSE
    <3>1. sandboxes[reg[j].name] = j /\ reg[j].name \in Names
      BY <1>1, <2>1, <2>6 DEF Served, Booting, TypeOK, Registrations
    <3> DEFINE m == reg[j].name
    <3>2. m # n
      BY <2>5, <3>1, ValueAssumption
    <3>3. Returned(m)
      BY <1>4, <3>1, <3>2, ValueAssumption DEF Restored, Booting, Missing
    <3>4. saved[m] # NoReg /\ saved[m].port = saved[n].port
      BY <1>3, <2>1, <2>6, <3>1, <3>3 DEF Returned, Alike
    <3> QED BY <1>3, <2>1, <3>1, <3>2, <3>4 DEF Apart, PortsApart
  <2>7. w.port \in Foreign
    BY <2>4, <2>6 DEF Held, TypeOK
  <2>8. Missing(n)'
    BY <1>3, <2>1, <2>2, <2>3, <2>5, <2>7 DEF Missing
  <2>9. \A m \in Names : (Returned(m) => Returned(m)') /\ (Missing(m) => Missing(m)')
    BY <2>2 DEF Returned, Missing
  <2> QED BY <1>1, <1>4, <2>2, <2>3, <2>8, <2>9 DEF Restored, AtWork
<1>7. ASSUME Insert(Main) PROVE Restored'
  <2>1. task[Main].at = "insert" /\ AtWork
    BY <1>2, <1>7 DEF Insert, AtWork
  <2>2. Frame /\ UNCHANGED <<reg, setback>> /\ Goto(Main, "snapshot")
        /\ sandboxes' = [sandboxes EXCEPT ![n] = task[Main].entry]
    BY <1>7 DEF Insert
  <2>3. /\ task'[Main].at = "snapshot" /\ task'[Main].want = w
        /\ task'[Main].goal = task[Main].goal
    BY <1>1, <2>2, GotoEffect DEF Points
  <2>4. sandboxes[n] = NoEntry
    BY <1>1, <2>1 DEF Vacant
  <2>5. sandboxes'[n] = task[Main].entry /\ task[Main].entry # NoEntry
    BY <1>1, <1>3, <2>1, <2>2, ValueAssumption DEF TypeOK, InHand
  <2>6. Alike(reg[task[Main].entry], w)
    BY <2>1 DEF Restored
  <2>7. Returning(n)'
    BY <1>3, <2>1, <2>2, <2>3, <2>5, <2>6 DEF Returning, AtWork
  <2>8. \A m \in Names : m # n => sandboxes'[m] = sandboxes[m]
    BY <2>2 DEF TypeOK
  <2>9. \A m \in Names : m # n => (Returned(m) => Returned(m)') /\ (Missing(m) => Missing(m)')
    BY <2>2, <2>8 DEF Returned, Missing
  <2> QED BY <1>1, <1>3, <1>4, <2>1, <2>2, <2>3, <2>7, <2>8, <2>9 DEF Restored, AtWork
<1>8. ASSUME TakeSnapshot(Main) PROVE Restored'
  <2>1. At(Main, "snapshot") /\ Frame /\ UNCHANGED <<sandboxes, reg, setback>>
    BY <1>8 DEF TakeSnapshot
  <2>2. /\ task'[Main].at = "write" /\ task'[Main].want = w
        /\ task'[Main].goal = task[Main].goal
    BY <1>8, SnapshotEffect
  <2>3. \A m \in Names : /\ Returned(m) => Returned(m)'
                         /\ Missing(m) => Missing(m)'
                         /\ Returning(m) => Returning(m)'
    BY <2>1, <2>2 DEF Returned, Missing, Returning, AtWork
  <2> QED BY <2>1, <2>2, <2>3 DEF Restored, AtWork
<1>9. ASSUME Write(Main) PROVE Restored'
  <2>1. At(Main, "write") /\ Arrive(Main) /\ UNCHANGED <<memory, setback>>
    BY <1>9 DEF Write
  <2>2. CASE task[Main].goal = "serve"
    BY <2>1, <2>2 DEF Arrive, Restored
  <2>3. CASE task[Main].goal = "limit"
    <3>1. Frame
      BY <2>1, <2>3 DEF Arrive
    <3>2. /\ task'[Main].at = "limit" /\ task'[Main].want = w
          /\ task'[Main].goal = "limit"
      BY <2>1, <2>3, ArriveEffect
    <3>3. \A m \in Names : /\ Returned(m) => Returned(m)'
                           /\ Missing(m) => Missing(m)'
                           /\ Returning(m) => Returning(m)'
      BY <2>1, <2>3, <3>1, <3>2 DEF Returned, Missing, Returning, AtWork
    <3> QED BY <2>1, <2>3, <3>1, <3>2, <3>3 DEF Restored, AtWork
  <2> QED BY <1>1, <2>2, <2>3
<1> QED
  BY <1>1, <1>5, <1>6, <1>7, <1>8, <1>9
  DEF Step, Persist, Remove, Cancel, WriteMode, Lift

LEMMA Restoring == ASSUME IInv, Restored, Apart, Next PROVE Restored'
<1> USE TaskAssumption
<1>1. CASE phase = "serving" /\ ~Crash
  <2>1. phase' = "serving"
    <3>1. \A t \in Tasks : Arrive(t) => phase' = "serving"
      BY <1>1 DEF Arrive
    <3>2. \A t \in Tasks : Request(t) => phase' = phase
      BY RequestEffect DEF Begins
    <3>3. \A t \in Tasks : Step(t) => phase' = "serving"
      BY <1>1, <3>1 DEF Step, Bind, BindFails, Insert, Remove, Cancel, WriteMode, Lift,
                        Persist, TakeSnapshot, Write
    <3> QED BY <1>1, <3>2, <3>3 DEF Next, Restore, RestoreNext, RestoreLimit, RestoreDone,
                                    CloseListeners, Start, Occupy, Vacate
  <2> QED BY <2>1 DEF Restored
<1>2. CASE Crash
  BY <1>2 DEF Crash, Restored
<1>3. CASE Start
  <2>1. /\ Begin(Main, "restore", NoEntry, NoReg, "limit") /\ phase = "down"
        /\ phase' = "restoring" /\ saved' = disk
        /\ todo' = {n \in Names : disk[n] # NoReg}
        /\ UNCHANGED <<sandboxes, cancelled>>
    BY <1>3 DEF Start
  <2>2. task'[Main].at = "restore"
    BY <2>1, BeginEffect DEF Points, Goals
  <2>3. cancelled' = {} /\ \A n \in Names : sandboxes'[n] = NoEntry
    BY <2>1 DEF Restored, Phased
  <2>4. \A n \in Names : saved'[n] = NoReg \/ n \in todo'
    BY <2>1
  <2> QED BY <2>1, <2>2, <2>3, <2>4 DEF Restored, AtWork
<1>4. ASSUME NEW t \in Tasks, Request(t), phase # "serving" PROVE Restored'
  <2>1. \A w : ~Register(t, w)
    BY <1>4 DEF Register, Accepts
  <2>2. \A n, m : ~(Retire(t, n) \/ Resume(t, n) \/ SetMode(t, n, m))
    BY <1>4 DEF Retire, Resume, SetMode, Accepts
  <2>3. PICK i \in Entries : Trip(t, i)
    BY <1>4, <2>1, <2>2 DEF Request
  <2>4. /\ UNCHANGED <<phase, sandboxes, cancelled, saved, todo, setback>>
        /\ reg[i] # NoReg /\ ~Busy(t) /\ Begin(t, "snapshot", NoEntry, NoReg, "idle")
        /\ reg' = [reg EXCEPT ![i].limited = TRUE]
    BY <2>3 DEF Trip
  <2>5. phase = "restoring" => task'[Main] = task[Main]
    BY <2>4 DEF Booting, Begin, TypeOK
  <2>6. \A j \in Entries : reg[j] # NoReg =>
          Alike(reg'[j], reg[j]) /\ (reg[j].limited => reg'[j].limited)
    BY <2>4 DEF TypeOK, Alike, Registrations
  <2> QED BY <2>4, <2>5, <2>6, RestoredKept
<1>5. ASSUME NEW t \in Tasks, Step(t), phase = "restoring", t # Main PROVE Restored'
  <2>1. /\ Busy(t) => task[t].at \in {"snapshot", "write"} /\ task[t].goal = "idle"
    BY <1>5 DEF Booting
  <2>2. TakeSnapshot(t) \/ Write(t)
    BY <1>5, <2>1 DEF Step, Persist, Bind, BindFails, Insert, Remove, Cancel, WriteMode, Lift
  <2>3. UNCHANGED <<phase, sandboxes, reg, cancelled, saved, todo, setback>>
    BY <2>1, <2>2 DEF TakeSnapshot, Write, Arrive
  <2>4. task'[Main] = task[Main]
    BY <1>5, <2>2 DEF TakeSnapshot, Write, Arrive, TypeOK
  <2> QED BY <2>3, <2>4, RestoredKept DEF Alike
<1>6. ASSUME NEW t \in Tasks, Step(t), phase = "down" PROVE Restored'
  BY <1>6 DEF Phased, Step, Persist, TakeSnapshot, Write, Bind, BindFails, Insert, Remove,
              Cancel, WriteMode, Lift
<1>7. ASSUME NEW n \in Names, RestoreNext(n) PROVE Restored'
  <2>1. /\ At(Main, "restore") /\ phase = "restoring" /\ todo' = todo \ {n} /\ n \in todo
        /\ UNCHANGED <<sandboxes, reg, cancelled, phase, saved, setback>>
        /\ Begin(Main, "bind", NoEntry, saved[n], "limit")
    BY <1>7 DEF RestoreNext, Phased, TypeOK
  <2>2. saved[n] \in Requests /\ saved[n].name = n /\ saved[n] # NoReg
    BY <2>1 DEF Booting, Named, NamedIn, TypeOK, Registrations, Requests
  <2>3. /\ task'[Main].at = "bind" /\ task'[Main].want = saved[n]
        /\ task'[Main].goal = "limit"
    BY <2>1, <2>2, BeginEffect DEF Points, Goals
  <2>4. Returning(n)'
    BY <2>1, <2>2, <2>3 DEF Returning, AtWork
  <2>5. \A m \in Names : /\ Returned(m) => Returned(m)'
                         /\ Missing(m) => Missing(m)'
                         /\ ~Returning(m)
    BY <2>1 DEF Returned, Missing, Returning, AtWork
  <2> QED BY <2>1, <2>2, <2>3, <2>4, <2>5 DEF Restored, AtWork
<1>8. CASE RestoreLimit
  <2> DEFINE w == task[Main].want
             i == sandboxes[w.name]
  <2>1. /\ At(Main, "limit") /\ phase = "restoring" /\ Goto(Main, "restore")
        /\ UNCHANGED <<sandboxes, cancelled, phase, saved, todo, setback>>
        /\ reg' = IF w.limited /\ i # NoEntry THEN [reg EXCEPT ![i] = [reg[i] EXCEPT !.limited = TRUE]] ELSE reg
    BY <1>8 DEF RestoreLimit, Phased, TypeOK
  <2>2. task'[Main].at = "restore"
    BY <2>1, GotoEffect DEF Points
  <2>3. \A j \in Entries : reg[j] # NoReg =>
          /\ Alike(reg'[j], reg[j])
          /\ reg[j].limited => reg'[j].limited
          /\ w.limited /\ j = i => reg'[j].limited
    BY <2>1, ValueAssumption DEF TypeOK, Alike, Registrations
  <2> HIDE DEF w, i
  <2>4. ASSUME NEW m \in Names
        PROVE  (Returned(m) => Returned(m)') /\ (Missing(m) => Missing(m)')
    <3>1. Missing(m) => Missing(m)'
      BY <2>1 DEF Missing
    <3>2. Returned(m) => Returned(m)'
      BY <2>1, <2>3 DEF Returned, Alike, Mapped
    <3> QED BY <3>1, <3>2
  <2> USE DEF w, i
  <2>5. ASSUME NEW m \in Names, Returning(m) PROVE Returned(m)'
    <3>1. w = saved[m] /\ w.name = m /\ saved[m] # NoReg
      BY <2>5 DEF Returning, Named, NamedIn
    <3>2. i # NoEntry /\ i = sandboxes[m] /\ Alike(reg[i], saved[m])
      BY <2>1, <2>5, <3>1 DEF Returning
    <3>3. i \in Entries /\ reg[i] # NoReg
      BY <3>2 DEF Mapped
    <3> QED BY <2>1, <2>3, <3>1, <3>2, <3>3 DEF Returned, Alike
  <2> QED BY <2>1, <2>2, <2>4, <2>5 DEF Restored, AtWork
<1>9. CASE RestoreDone
  <2>1. /\ At(Main, "restore") /\ Begin(Main, "snapshot", NoEntry, NoReg, "serve")
        /\ phase = "restoring"
        /\ UNCHANGED <<sandboxes, reg, cancelled, phase, saved, todo, setback>>
    BY <1>9 DEF RestoreDone, Phased, TypeOK
  <2>2. task'[Main].at = "snapshot" /\ task'[Main].goal = "serve"
    BY <2>1, BeginEffect DEF Points, Goals
  <2>3. \A m \in Names : /\ Returned(m) => Returned(m)'
                         /\ Missing(m) => Missing(m)'
                         /\ ~Returning(m)
    BY <2>1 DEF Returned, Missing, Returning, AtWork
  <2> QED BY <2>1, <2>2, <2>3 DEF Restored, AtWork
<1>10. ASSUME NEW i \in Entries, CloseListeners(i), phase # "serving" PROVE Restored'
  BY <1>10 DEF CloseListeners, Restored
<1>11. ASSUME NEW p \in Ports, Occupy(p) \/ Vacate(p) PROVE Restored'
  <2>1. UNCHANGED <<phase, sandboxes, reg, cancelled, saved, todo, setback, task>>
    BY <1>11 DEF Occupy, Vacate
  <2> QED BY <2>1, RestoredKept DEF Alike
<1> QED
  BY <1>1, <1>2, <1>3, <1>4, <1>5, <1>6, <1>7, <1>8, <1>9, <1>10, <1>11, RestoringStep
  DEF Next, Restore, TypeOK

LEMMA RestoredIn ==
  ASSUME OneCommandPerSandbox PROVE Spec => [](IInv /\ Apart /\ Restored)
<1>1. Init => Apart /\ Restored
  BY DEF Init, Apart, PortsApart, Restored
<1>2. IInv /\ Apart /\ Restored /\ [Next]_vars => Apart' /\ Restored'
  <2>1. CASE IInv /\ Apart /\ Restored /\ Next
    BY <2>1, Separating, Restoring
  <2>2. CASE Apart /\ Restored /\ UNCHANGED vars
    BY <2>2 DEF vars, Apart, PortsApart, Restored, AtWork, Returning, Returned, Missing
  <2> QED BY <2>1, <2>2
<1>3. Spec => []IInv
  BY Inductive
<1> QED BY <1>1, <1>2, <1>3, PTL DEF Spec

\* The broker serves once restore() has gone through all it read, and the last
\* write changes nothing in memory.
LEMMA ServeStep ==
  ASSUME IInv, Next, phase = "restoring", phase' = "serving"
  PROVE  todo = {} /\ ~AtWork /\ UNCHANGED <<sandboxes, reg>>
<1> USE TaskAssumption
<1>1. ASSUME NEW t \in Tasks, Arrive(t), phase' # phase, Busy(t)
      PROVE  task[t].goal = "serve" /\ t = Main
  BY <1>1 DEF Arrive, Booting
<1>2. ASSUME NEW t \in Tasks, Remove(t) PROVE FALSE
  BY <1>2 DEF Remove, Booting
<1>3. PICK t \in Tasks : Write(t)
  <2>1. \A t \in Tasks : Request(t) => phase' = phase
    BY RequestEffect DEF Begins
  <2>2. \A t \in Tasks : Step(t) => Write(t) \/ phase' = phase
    BY <1>2 DEF Step, Bind, BindFails, Insert, Cancel, WriteMode, Lift, Persist, TakeSnapshot
  <2> QED BY <2>1, <2>2 DEF Next, Restore, RestoreNext, RestoreLimit, RestoreDone,
                            CloseListeners, Crash, Start, Occupy, Vacate
<1>4. Arrive(t) /\ Busy(t) /\ UNCHANGED <<sandboxes, reg>>
  BY <1>3 DEF Write
<1> QED BY <1>1, <1>4 DEF Booting, AtWork

\* A restart brings back what was registered: the same files, modes and ports,
\* limited at least where it was, for any number of sandboxes, and whatever
\* failed or crashed before; what is missing had a port others may take.
THEOREM RestoreIsFaithful ==
  ASSUME OneCommandPerSandbox PROVE Spec => RestoreFaithful
<1> DEFINE Faithful ==
      phase = "restoring" /\ phase' = "serving" => \A n \in Names :
        LET old == saved[n]  i == sandboxes'[n] IN
        IF i = NoEntry THEN old = NoReg \/ old.port \in Foreign
        ELSE /\ old # NoReg
             /\ [reg'[i] EXCEPT !.limited = old.limited] = old
             /\ old.limited => reg'[i].limited
<1>1. IInv /\ Apart /\ Restored /\ [Next]_vars => [Faithful]_vars
  <2> SUFFICES ASSUME IInv, Restored, Next, phase = "restoring", phase' = "serving",
                      NEW n \in Names
               PROVE  IF sandboxes'[n] = NoEntry
                      THEN saved[n] = NoReg \/ saved[n].port \in Foreign
                      ELSE /\ saved[n] # NoReg
                           /\ [reg'[sandboxes'[n]] EXCEPT !.limited = saved[n].limited] = saved[n]
                           /\ saved[n].limited => reg'[sandboxes'[n]].limited
    BY DEF vars
  <2>1. \/ saved[n] = NoReg /\ sandboxes[n] = NoEntry
        \/ Returned(n) \/ Missing(n)
    BY ServeStep DEF Restored, Returning
  <2>2. UNCHANGED <<sandboxes, reg>>
    BY ServeStep
  <2>3. CASE Returned(n)
    <3>1. reg[sandboxes[n]] \in Registrations /\ saved[n] \in Registrations
      BY <2>3 DEF Returned, Mapped, TypeOK
    <3>2. [reg[sandboxes[n]] EXCEPT !.limited = saved[n].limited] = saved[n]
      BY <2>3, <3>1 DEF Returned, Alike, Registrations
    <3> QED BY <2>2, <2>3, <3>2 DEF Returned
  <2> QED BY <2>1, <2>2, <2>3 DEF Missing
<1> QED BY <1>1, RestoredIn, PTL DEF Spec, RestoreFaithful

-----------------------------------------------------------------------------
(* Tripped limits, one command at a time                                   *)

IsLimited(r, n) == r[n] # NoReg /\ r[n].limited

\* A limit nobody lifted is in force, and on disk unless the last write failed;
\* while the broker is down on disk; while it restores in what it read, or in
\* force again.
Lasting ==
  ~setback => \A n \in tripped :
    /\ phase = "serving" => IsLimited(Snapshot, n) /\ (lost \/ IsLimited(disk, n))
    /\ phase = "down" => IsLimited(disk, n)
    /\ phase = "restoring" => IsLimited(saved, n) \/ IsLimited(Snapshot, n)

\* resume() lifts the limit of the entry under its name.
Lifting ==
  \A t \in Tasks : Busy(t) /\ task[t].at = "lift" =>
    /\ task[t].want.name \in Names
    /\ sandboxes[task[t].want.name] = task[t].entry
    /\ task[t].entry # NoEntry

LEMMA InForce ==
  ASSUME NEW n \in Names
  PROVE  IsLimited(Snapshot, n) <=>
           sandboxes[n] # NoEntry /\ reg[sandboxes[n]] # NoReg /\ reg[sandboxes[n]].limited
BY DEF IsLimited, Snapshot

LEMMA LiftingKept ==
  ASSUME OneCommandAtATime, IInv, Lifting, Next PROVE Lifting'
<1> USE TaskAssumption DEF OneCommandAtATime, Lifting
<1>1. ASSUME NEW t \in Tasks, Request(t) PROVE Lifting'
  <2>1. CASE \E n \in Names : Resume(t, n)
    <3>1. PICK n \in Names : Resume(t, n)
      BY <2>1
    <3>2. /\ Begin(t, "lift", sandboxes[n], reg[sandboxes[n]], "idle")
          /\ sandboxes[n] # NoEntry /\ UNCHANGED sandboxes
      BY <3>1 DEF Resume
    <3>3. reg[sandboxes[n]].name = n /\ reg[sandboxes[n]] \in Requests /\ sandboxes[n] \in Entries
      BY <3>2 DEF Mapped, TypeOK, Registrations, Requests
    <3>4. task'[t].entry = sandboxes[n] /\ task'[t].want = reg[sandboxes[n]]
      BY <3>2, <3>3, BeginEffect DEF Points, Goals
    <3> QED BY <3>2, <3>3, <3>4
  <2>2. CASE ~\E n \in Names : Resume(t, n)
    <3> DEFINE Else == \E at, i, w, g : Begin(t, at, i, w, g) /\ at # "lift"
    <3>1. \A w : Register(t, w) => Else
      BY DEF Register
    <3>2. \A n, m : Retire(t, n) \/ SetMode(t, n, m) => Else
      BY DEF Retire, SetMode
    <3>3. \A i \in Entries : Trip(t, i) => Else
      BY DEF Trip
    <3>4. Else
      BY <1>1, <2>2, <3>1, <3>2, <3>3 DEF Request
    <3>5. task'[t] # NoTask => task'[t].at # "lift"
      BY <3>4 DEF Begin, Job, TypeOK
    <3> QED BY <3>5
  <2> QED BY <2>1, <2>2
<1>2. ASSUME NEW t \in Tasks, NEW i \in Entries, NEW p \in Ports, Bind(t, i, p)
      PROVE  Lifting'
  <2>1. task'[t].at = "insert"
    BY <1>2 DEF Bind, TypeOK, Work
  <2> QED BY <2>1
<1>3. ASSUME NEW t \in Tasks, BindFails(t) PROVE Lifting'
  <2>1. task'[t] = NoTask \/ task'[t].at = "restore"
    BY <1>3, GotoEffect DEF BindFails, Points, TypeOK
  <2> QED BY <2>1
<1>4. ASSUME NEW t \in Tasks, Insert(t) \/ Cancel(t) \/ WriteMode(t) \/ Lift(t)
      PROVE  Lifting'
  <2>1. task'[t].at = "snapshot"
    BY <1>4, GotoEffect DEF Insert, Cancel, WriteMode, Lift, Points
  <2> QED BY <2>1
<1>5. ASSUME NEW t \in Tasks, Remove(t) \/ Write(t) PROVE Lifting'
  <2>1. Busy(t) /\ (Arrive(t) \/ \E i, w, g : Begin(t, "cancel", i, w, g))
    BY <1>5 DEF Remove, Write
  <2>2. Arrive(t) => task'[t] = NoTask \/ task'[t].at # "lift"
    BY <2>1, ArriveEffect DEF Goals
  <2>3. \A i, w, g : Begin(t, "cancel", i, w, g) => task'[t].at # "lift"
    BY DEF Begin, Job, TypeOK
  <2> QED BY <2>1, <2>2, <2>3
<1>6. ASSUME NEW t \in Tasks, TakeSnapshot(t) PROVE Lifting'
  <2>1. task'[t].at = "write"
    BY <1>6, SnapshotEffect
  <2> QED BY <2>1
<1>7. CASE Restore \/ Start
  <2>1. \A i, w, g, at : Begin(Main, at, i, w, g) /\ at # "lift" => task'[Main].at # "lift"
    BY DEF Begin, Job, TypeOK
  <2>2. RestoreLimit => task'[Main].at # "lift"
    BY GotoEffect DEF RestoreLimit, Points
  <2>3. \A n : RestoreNext(n) => task'[Main].at # "lift"
    BY <2>1 DEF RestoreNext
  <2>4. RestoreDone \/ Start => task'[Main].at # "lift"
    BY <2>1 DEF RestoreDone, Start
  <2> QED BY <1>7, <2>2, <2>3, <2>4 DEF Restore
<1>8. CASE Crash
  BY <1>8 DEF Crash
<1>9. CASE \/ \E i \in Entries : CloseListeners(i)
           \/ \E p \in Ports : Occupy(p) \/ Vacate(p)
  BY <1>9 DEF CloseListeners, Occupy, Vacate
<1> QED
  BY <1>1, <1>2, <1>3, <1>4, <1>5, <1>6, <1>7, <1>8, <1>9
  DEF Next, Step, Persist

\* A step that lifts no limit but forgets of it keeps the others.
LEMMA LastingKept ==
  ASSUME Lasting, UNCHANGED <<phase, disk, saved, lost>>, setback => setback',
         tripped' \subseteq tripped,
         \A n \in tripped' : IsLimited(Snapshot, n) => IsLimited(Snapshot', n)
  PROVE  Lasting'
BY DEF Lasting

\* Changing a field of an entry other than to lift a limit.
LEMMA Limits ==
  ASSUME IInv, UNCHANGED sandboxes, NEW n \in Names,
         \A i \in Entries : reg[i] # NoReg /\ reg[i].limited /\ sandboxes[n] = i =>
                              reg'[i] # NoReg /\ reg'[i].limited
  PROVE  IsLimited(Snapshot, n) => IsLimited(Snapshot', n)
BY DEF TypeOK, IsLimited, Snapshot

LEMMA WriteKeepsLimits ==
  ASSUME OneCommandAtATime, IInv, Recorded, Restored, Lasting, Next,
         NEW t \in Tasks, Write(t)
  PROVE  Lasting'
<1>1. /\ At(t, "write") /\ Arrive(t) /\ UNCHANGED <<sandboxes, reg, setback>>
      /\ task[t].snap = Snapshot
  BY DEF Write, Recorded
<1>2. Snapshot' = Snapshot
  BY <1>1, SnapshotKept
<1>3. \/ disk' = Snapshot
         /\ tripped' = tripped \cup {n \in Names : IsLimited(Snapshot, n)}
      \/ lost' /\ UNCHANGED tripped
  BY <1>1 DEF Write, IsLimited
<1>4. phase \in {"serving", "restoring"}
  BY <1>1 DEF Phased, TypeOK
<1>5. ASSUME NEW n \in tripped', ~setback
      PROVE  \/ IsLimited(Snapshot, n)
             \/ phase = "restoring" /\ n \in tripped /\ IsLimited(saved, n)
  BY <1>3, <1>4, <1>5 DEF Lasting
<1>6. CASE phase' = "serving"
  <2>1. ASSUME NEW n \in tripped', ~setback PROVE IsLimited(Snapshot, n)
    <3>1. CASE phase = "restoring" /\ n \in tripped /\ IsLimited(saved, n)
      <4>1. n \in Names
        BY <3>1 DEF TypeOK
      <4>2. todo = {} /\ ~AtWork
        BY <1>6, <3>1, ServeStep
      <4>3. Returned(n)
        BY <2>1, <3>1, <4>1, <4>2 DEF Restored, Returning, Missing, IsLimited
      <4> QED BY <3>1, <4>1, <4>3, InForce DEF Returned, Mapped, IsLimited
    <3> QED BY <1>5, <2>1, <3>1
  <2> QED BY <1>1, <1>2, <1>3, <1>6, <2>1 DEF Lasting
<1>7. CASE phase' # "serving"
  <2>1. phase' = phase /\ saved' = saved
    BY <1>1, <1>7 DEF Arrive
  <2> QED BY <1>1, <1>2, <1>4, <1>5, <1>7, <2>1 DEF Lasting
<1> QED BY <1>6, <1>7

LEMMA LimitsLast ==
  ASSUME OneCommandAtATime, IInv, Recorded, Restored, Lifting, Lasting, Next
  PROVE  Lasting'
<1> USE TaskAssumption
<1>1. CASE /\ UNCHANGED <<phase, disk, saved, lost, tripped>> /\ (setback => setback')
           /\ Snapshot' = Snapshot
  BY <1>1, LastingKept
<1>2. ASSUME NEW t \in Tasks, Request(t) PROVE Lasting'
  <2> DEFINE Same == UNCHANGED <<phase, disk, saved, lost, tripped, setback>>
  <2>1. Same /\ (UNCHANGED memory \/ \E i \in Entries : Trip(t, i))
    <3>1. \A w : Register(t, w) => Same /\ UNCHANGED memory
      BY DEF Register
    <3>2. \A n, m : Retire(t, n) \/ Resume(t, n) \/ SetMode(t, n, m) => Same /\ UNCHANGED memory
      BY DEF Retire, Resume, SetMode
    <3>3. \A i \in Entries : Trip(t, i) => Same
      BY DEF Trip
    <3> QED BY <1>2, <3>1, <3>2, <3>3 DEF Request
  <2>2. CASE UNCHANGED memory
    BY <1>1, <2>1, <2>2, SnapshotKept
  <2>3. ASSUME NEW i \in Entries, Trip(t, i) PROVE Lasting'
    <3>1. UNCHANGED sandboxes /\ reg' = [reg EXCEPT ![i].limited = TRUE] /\ reg[i] # NoReg
      BY <2>3 DEF Trip
    <3>2. \A j \in Entries : reg[j] # NoReg /\ reg[j].limited => reg'[j] # NoReg /\ reg'[j].limited
      <4>1. SameEndpoints
        BY <2>3, FieldEffect
      <4> QED BY <3>1, <4>1 DEF TypeOK, Registrations, SameEndpoints
    <3> QED BY <2>1, <3>1, <3>2, Limits, LastingKept DEF TypeOK
  <2> QED BY <2>1, <2>2, <2>3
<1>3. ASSUME NEW t \in Tasks, NEW i \in Entries, NEW p \in Ports, Bind(t, i, p)
      PROVE  Lasting'
  <2>1. UNCHANGED <<phase, disk, saved, lost, tripped, setback>>
    BY <1>3 DEF Bind
  <2> QED BY <1>1, <1>3, <2>1, SnapshotKept
<1>4. ASSUME NEW t \in Tasks, BindFails(t) \/ TakeSnapshot(t) \/ Cancel(t) PROVE Lasting'
  <2>1. /\ UNCHANGED <<phase, disk, saved, lost, tripped, sandboxes, reg>>
        /\ setback => setback'
    <3>1. UNCHANGED <<phase, disk, saved, lost, tripped, sandboxes, reg>>
      BY <1>4 DEF BindFails, TakeSnapshot, Cancel
    <3>2. BindFails(t) => (setback => setback')
      BY DEF BindFails
    <3>3. TakeSnapshot(t) \/ Cancel(t) => UNCHANGED setback
      BY DEF TakeSnapshot, Cancel
    <3> QED BY <1>4, <3>1, <3>2, <3>3
  <2> QED BY <1>1, <2>1, SnapshotKept
<1>5. ASSUME NEW t \in Tasks, Insert(t) PROVE Lasting'
  <2> DEFINE n == task[t].want.name
  <2>1. UNCHANGED <<phase, disk, saved, lost, tripped, setback, reg>>
        /\ At(t, "insert") /\ sandboxes' = [sandboxes EXCEPT ![n] = task[t].entry]
    BY <1>5 DEF Insert
  <2>2. sandboxes[n] = NoEntry
    BY <2>1 DEF Vacant
  <2>3. \A m \in Names : m # n => sandboxes'[m] = sandboxes[m]
    BY <2>1 DEF TypeOK
  <2>4. \A m \in Names : IsLimited(Snapshot, m) => IsLimited(Snapshot', m)
    BY <2>1, <2>2, <2>3 DEF IsLimited, Snapshot
  <2> QED BY <2>1, <2>4, LastingKept DEF TypeOK
<1>6. ASSUME NEW t \in Tasks, WriteMode(t) PROVE Lasting'
  <2> DEFINE i == task[t].entry
  <2>1. /\ UNCHANGED <<phase, disk, saved, lost, tripped, setback, sandboxes>>
        /\ reg' = reg \/ reg' = [reg EXCEPT ![i] = [reg[i] EXCEPT !.mode = task[t].want.mode]]
    BY <1>6 DEF WriteMode, Assign
  <2>2. \A j \in Entries : reg[j] # NoReg /\ reg[j].limited => reg'[j] # NoReg /\ reg'[j].limited
    <3>1. SameEndpoints
      BY <1>6, FieldEffect
    <3> QED BY <2>1, <3>1 DEF TypeOK, Registrations, SameEndpoints
  <2> QED BY <2>1, <2>2, Limits, LastingKept DEF TypeOK
<1>7. ASSUME NEW t \in Tasks, Lift(t) PROVE Lasting'
  <2> DEFINE i == task[t].entry
             n == task[t].want.name
  <2>1. /\ UNCHANGED <<phase, disk, saved, lost, setback, sandboxes>>
        /\ tripped' = tripped \ {n} /\ At(t, "lift")
        /\ reg' = reg \/ reg' = [reg EXCEPT ![i] = [reg[i] EXCEPT !.limited = FALSE]]
    BY <1>7 DEF Lift, Assign
  <2>2. n \in Names /\ sandboxes[n] = i /\ i # NoEntry
    BY <2>1 DEF Lifting
  <2>3. \A m \in Names : m # n => sandboxes[m] # i
    BY <2>2 DEF Mapped
  <2>4. \A j \in Entries : j # i => reg'[j] = reg[j]
    BY <2>1 DEF TypeOK
  <2>5. \A m \in tripped' : IsLimited(Snapshot, m) => IsLimited(Snapshot', m)
    BY <2>1, <2>3, <2>4, Limits DEF TypeOK
  <2> QED BY <2>1, <2>5, LastingKept
<1>8. ASSUME NEW t \in Tasks, Remove(t) PROVE Lasting'
  <2> DEFINE n == task[t].want.name
  <2>1. At(t, "remove") /\ UNCHANGED <<disk, lost, reg, setback>>
    BY <1>8 DEF Remove
  <2>2. CASE sandboxes[n] = NoEntry
    <3>1. Arrive(t) /\ UNCHANGED <<sandboxes, tripped>>
      BY <1>8, <2>2 DEF Remove
    <3>2. phase' = phase /\ saved' = saved
      BY <2>1, <3>1 DEF Phased, Booting, TypeOK, Arrive
    <3> QED BY <1>1, <2>1, <3>1, <3>2, SnapshotKept
  <2>3. CASE sandboxes[n] # NoEntry
    <3>1. /\ sandboxes' = [sandboxes EXCEPT ![n] = NoEntry]
          /\ tripped' = tripped \ {n} /\ UNCHANGED <<phase, saved>>
      BY <1>8, <2>3 DEF Remove
    <3>2. \A m \in tripped' : IsLimited(Snapshot, m) => IsLimited(Snapshot', m)
      BY <2>1, <3>1 DEF IsLimited, Snapshot, TypeOK
    <3> QED BY <2>1, <3>1, <3>2, LastingKept
  <2> QED BY <2>2, <2>3
<1>9. CASE RestoreDone \/ \E n \in Names : RestoreNext(n)
  <2>1. UNCHANGED <<phase, disk, saved, lost, tripped, setback, sandboxes, reg>>
    BY <1>9 DEF RestoreDone, RestoreNext
  <2> QED BY <1>1, <2>1, SnapshotKept
<1>10. CASE RestoreLimit
  <2> DEFINE i == sandboxes[task[Main].want.name]
  <2>1. /\ UNCHANGED <<phase, disk, saved, lost, tripped, setback, sandboxes>>
        /\ reg' = reg \/ reg' = [reg EXCEPT ![i] = [reg[i] EXCEPT !.limited = TRUE]]
    BY <1>10 DEF RestoreLimit
  <2>2. \A j \in Entries : reg[j] # NoReg /\ reg[j].limited => reg'[j] # NoReg /\ reg'[j].limited
    <3>1. SameEndpoints
      BY <1>10, FieldEffect
    <3> QED BY <2>1, <3>1 DEF TypeOK, Registrations, SameEndpoints
  <2> QED BY <2>1, <2>2, Limits, LastingKept DEF TypeOK
<1>11. CASE \/ \E i \in Entries : CloseListeners(i)
            \/ \E p \in Ports : Occupy(p) \/ Vacate(p)
  <2>1. Snapshot' = Snapshot
    BY <1>11, SnapshotKept DEF Occupy, Vacate
  <2>2. UNCHANGED <<phase, disk, saved, lost, tripped, setback>>
    BY <1>11 DEF CloseListeners, Occupy, Vacate
  <2> QED BY <1>1, <2>1, <2>2
<1>12. CASE Crash
  <2>1. /\ phase' = "down" /\ UNCHANGED <<disk, tripped>>
        /\ setback' = (setback \/ phase = "restoring" \/ lost)
        /\ phase \in {"restoring", "serving"}
    BY <1>12, ValueAssumption DEF Crash
  <2> QED BY <2>1 DEF Lasting
<1>13. CASE Start
  BY <1>13 DEF Start, Lasting
<1> QED
  BY <1>2, <1>3, <1>4, <1>5, <1>6, <1>7, <1>8, <1>9, <1>10, <1>11, <1>12, <1>13,
     WriteKeepsLimits
  DEF Next, Step, Persist, Restore

\* With one command at a time a tripped limit stays in force through restarts
\* until it is lifted or its sandbox is retired, unless a start was cut short,
\* a port was taken, or the broker ended with a write lost.
THEOREM LimitsSurvive == ASSUME OneCommandAtATime PROVE Spec => []LimitSurvives
<1>1. Init => Recorded /\ Lifting /\ Lasting
  BY DEF Init, Recorded, Snapshot, Lifting, Lasting
<1>2. IInv /\ Restored /\ Recorded /\ Lifting /\ Lasting /\ [Next]_vars
        => Recorded' /\ Lifting' /\ Lasting'
  <2>1. CASE IInv /\ Restored /\ Recorded /\ Lifting /\ Lasting /\ Next
    BY <2>1, Recording, LiftingKept, LimitsLast
  <2>2. CASE Recorded /\ Lifting /\ Lasting /\ UNCHANGED vars
    BY <2>2 DEF vars, Recorded, Snapshot, Lifting, Lasting, IsLimited
  <2> QED BY <2>1, <2>2
<1>3. IInv /\ Lasting => LimitSurvives
  <2> SUFFICES ASSUME IInv, Lasting, phase = "serving", ~setback, NEW n \in tripped
               PROVE  sandboxes[n] # NoEntry => reg[sandboxes[n]].limited
    BY DEF LimitSurvives
  <2>1. n \in Names /\ IsLimited(Snapshot, n)
    BY DEF Lasting, TypeOK
  <2> QED BY <2>1, InForce
<1>4. Spec => [](IInv /\ Apart /\ Restored)
  BY RestoredIn, Unshared
<1> QED BY <1>1, <1>2, <1>3, <1>4, PTL DEF Spec
=============================================================================
