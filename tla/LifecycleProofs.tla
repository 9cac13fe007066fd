-------------------------- MODULE LifecycleProofs --------------------------
(***************************************************************************)
(* What a command leaves behind, for any kitchen files, dotfiles, ports    *)
(* and secrets and any number of faults, as long as one command runs on a  *)
(* sandbox at a time: the mode of what was bootstrapped, the truth of      *)
(* state.json, and the endpoints and password of what was registered.      *)
(*                                                                         *)
(* A command is proved about between any two of its awaits, so CommandInv  *)
(* says what it may rely on at each.  Flows: what is left to do is a path  *)
(* of the order in which lifecycle.rs and remodel.rs await.  SecretInv:    *)
(* the VM has the password of the file, and so has a command that may      *)
(* start it.  RegInv: who believes in the record has the broker's          *)
(* endpoints.  ModeInv: the mode is open for the bootstrap only.           *)
(* TruthInv: what the record and the command say of the VM, from the step  *)
(* that makes the record untrue to the one that makes it true again.       *)
(***************************************************************************)
EXTENDS Lifecycle, TLAPS

-----------------------------------------------------------------------------
(* One command at a time.  Two commands that run on the same sandbox at    *)
(* the same time break what follows: no lock is held over a command.       *)

OneCommand == \A p, q \in Jobs : p = q

-----------------------------------------------------------------------------
(* What is left of a command is a path through the steps: which step may   *)
(* come after which, by command.                                           *)

Creating == {"up", "recreate"}

Leads(cmd, a, b) ==
  \/ a \in {"find", "purge", "diff"} /\ b = "end"
  \/ a = "check" /\ cmd \in Creating /\ b = "end"
  \/ a = "remove" /\ b = "retire"
  \/ a = "retire" /\ cmd \in Creating /\ b = "fresh"
  \/ a = "retire" /\ cmd = "down" /\ b = "end"
  \/ a = "retire" /\ cmd = "purge" /\ b = "purge"
  \/ a = "fresh" /\ cmd \in Creating /\ b = "create"
  \/ a = "connect" /\ cmd \in MayStart /\ b = "register"
  \/ a = "register" /\ cmd \in MayStart /\ b = "boot"
  \/ a = "register" /\ cmd \in Creating /\ b = "create"
  \/ a = "create" /\ cmd \in Creating /\ b = "guest"
  \/ a = "guest" /\ cmd \in Creating \cup Remodels /\ b = "stage"
  \/ a = "stage" /\ cmd \in Creating /\ b = "save"
  \/ a = "stage" /\ cmd \in Remodels /\ b = "open"
  \/ a = "save" /\ cmd \in Creating /\ b = "docker"
  \/ a = "boot" /\ cmd \in MayStart \ Remodels /\ b \in {"docker", "end"}
  \/ a = "boot" /\ cmd \in Remodels /\ b = "guest"
  \/ a = "docker" /\ cmd \in Creating /\ b = "check"
  \/ a = "docker" /\ cmd = "bootstrap" /\ b = "plan"
  \/ a = "docker" /\ cmd \in MayStart /\ b = "end"
  \/ a = "plan" /\ cmd = "bootstrap" /\ b = "restage"
  \/ a = "restage" /\ b = "note"
  \/ a = "note" /\ b = "open"
  \/ a = "open" /\ cmd \in MayStart /\ b = "run"
  \/ a = "run" /\ b = "enforce"
  \/ a = "enforce" /\ cmd \in MayStart /\ b = "record"
  \/ a = "record" /\ b = "end"
  \/ a = "record" /\ cmd \in Remodels /\ b = "refresh"
  \/ a = "refresh" /\ cmd \in Remodels \cup {"restart"} /\ b = "connect"
  \/ a = "refresh" /\ cmd \in Remodels /\ b = "stop"
  \/ a = "stop" /\ b = "end"
  \/ a = "stop" /\ cmd = "restart" /\ b = "refresh"
  \/ a = "modify" /\ cmd \in Remodels /\ b = "update"
  \/ a = "update" /\ cmd \in Remodels /\ b \in {"guest", "refresh", "end"}

\* The i-th step that is left.
Nth(s, i) == IF i <= Len(s) THEN s[i] ELSE "end"

\* A path from its first step to one that leads to `to`.
Path(cmd, s, to) ==
  /\ s \in Seq(Steps)
  /\ \A i \in 1..Len(s) :
       /\ Leads(cmd, s[i], IF i < Len(s) THEN s[i + 1] ELSE to)
       /\ s[i] = "connect" => i + 2 <= Len(s) /\ s[i + 2] = "boot"
       /\ s[i] = "record" /\ i + 2 <= Len(s) => s[i + 2] # "connect"
       /\ s[i] = "purge" => cmd = "purge"

Walk(cmd, s) == Path(cmd, s, "end")

Now(j) == Nth(j.todo, 1)
After(j) == Nth(j.todo, 2)
Third(j) == Nth(j.todo, 3)

\* What a command carries along: nothing it has not got yet.
Flow(j) ==
  /\ Walk(j.cmd, j.todo)
  /\ j.halt => j.cmd \in Remodels /\ Now(j) \notin {"find", "diff"}
  /\ j.cmd \in Creating \/ Now(j) \in {"find", "diff"} => j.held = NoRecord /\ ~j.was
  /\ j.was => j.cmd \in Remodels \/ Now(j) \in {"restage", "note", "open", "run", "enforce", "record", "end"}
  /\ Now(j) \in {"find", "diff", "remove", "retire", "fresh"} => ~j.heard
  /\ Now(j) = "diff" => j.cmd \in Remodels
  /\ Now(j) \in {"modify", "update"} => j.held # NoRecord

Flows == \A p \in Jobs : job[p] # NoJob => Flow(job[p])

-----------------------------------------------------------------------------
(* The secret, the endpoints and the registration.                         *)

\* What is removed, or not created yet, is not there.
Gone(j) ==
  Now(j) \in {"retire", "fresh", "purge", "create"} \/ (Now(j) = "register" /\ After(j) = "create")
    => box = NoBox

\* The VM has the password that is in the file.
SecretKept == box # NoBox => secret # 0 /\ box.pass = secret

PortKept(believed) ==
  believed /\ box # NoBox /\ box.port # 0 /\ reg # NoReg => reg.port = box.port

\* A command that may start the VM has the secret.
Armed(j) == j.cmd \in MayStart => secret # 0 /\ j.pass = secret

SecretInv == SecretKept /\ \A p \in Jobs : job[p] # NoJob => Gone(job[p]) /\ Armed(job[p])

Heard(j) ==
  /\ j.heard => reg # NoReg /\ j.cmd \in MayStart
  /\ PortKept(j.was)
  /\ Now(j) = "register" /\ After(j) = "boot" /\ (trust \/ j.was) /\ box # NoBox => j.port = box.port
  /\ Now(j) \in {"create", "guest", "stage", "save"} /\ j.cmd \in Creating /\ reg # NoReg /\ j.port # 0
       => reg.port = j.port
  /\ Now(j) \in {"guest", "stage", "save"} /\ j.cmd \in Creating /\ box # NoBox => box.port = j.port

RegInv == PortKept(trust) /\ \A p \in Jobs : job[p] # NoJob => Heard(job[p])

-----------------------------------------------------------------------------
(* The mode.                                                               *)

Bootstrapped == box # NoBox /\ box.done # "never" /\ state # NoRecord /\ state.boot

Closed(j) ==
  /\ j.heard /\ reg # NoReg /\ Bootstrapped => reg.mode = "enforce" \/ Now(j) \in {"run", "enforce"}
  /\ Now(j) = "register" /\ After(j) = "boot" /\ Bootstrapped => j.mode = "enforce"
  /\ Now(j) = "record" /\ j.heard /\ reg # NoReg => reg.mode = "enforce"

-----------------------------------------------------------------------------
(* The record.                                                             *)

Configured(applied) == applied = [res |-> box.res, fixed |-> box.fixed, user |-> box.user]

Describes(record) ==
  /\ Configured(record.applied)
  /\ record.text.guest = box.guest /\ record.staged = box.files /\ record.port = box.port

Proven(record) == record.boot => box.done = <<box.guest, box.files>>

\* The record is not told yet what happens to the VM.
Partway(j) ==
  /\ j.cmd \in Remodels
  /\ Now(j) \in {"guest", "stage", "connect", "register", "boot"} \/ (Now(j) = "refresh" /\ After(j) = "connect")

Created(j) ==
  j.cmd \in Creating /\ Now(j) \in {"guest", "stage", "save"} /\ box # NoBox =>
    /\ Configured(Config(j.plan))
    /\ Now(j) # "guest" => box.guest = j.plan.text.guest
    /\ box.files = IF Now(j) = "save" THEN Stage(j.plan) ELSE <<>>

Remodelled(j) ==
  /\ Now(j) \in {"modify", "update"} => state # NoRecord
  /\ Now(j) = "modify" =>
       /\ Third(j) = "end" <=> ~GuestChanged(j.plan, j.held)
       /\ "res" \in j.groups <=> j.plan.text.res # j.held.applied.res
       /\ j.was /\ box # NoBox => Describes(j.held) /\ Proven(j.held)
  /\ Now(j) = "update" =>
       /\ After(j) = "end" <=> ~GuestChanged(j.plan, j.held)
       /\ j.was /\ box # NoBox =>
            /\ Configured([j.held.applied EXCEPT !.res = j.plan.text.res])
            /\ j.held.text.guest = box.guest /\ j.held.staged = box.files /\ j.held.port = box.port
            /\ Proven(j.held)
  /\ Partway(j) /\ j.was /\ box # NoBox =>
       /\ state # NoRecord /\ j.held # NoRecord
       /\ Configured(state.applied) /\ state.port = box.port
       /\ state.text = j.plan.text /\ state.staged = Stage(j.plan)
       /\ box.files = j.held.staged
       /\ Now(j) = "stage" => box.guest = j.plan.text.guest

Rebootstrapped(j) ==
  /\ Now(j) = "restage" /\ j.was /\ box # NoBox => state # NoRecord /\ Describes(state)
  /\ Now(j) = "note" /\ j.was /\ box # NoBox =>
       /\ state # NoRecord /\ Describes([state EXCEPT !.staged = Stage(j.plan)])
  /\ Now(j) \in {"open", "run", "enforce", "record"} /\ j.was /\ box # NoBox =>
       state # NoRecord /\ Describes(state)
  /\ Now(j) \in {"enforce", "record"} /\ j.ok /\ box # NoBox => box.done = <<box.guest, box.files>>

Told(j) ==
  /\ Now(j) \in {"guest", "stage", "save", "restage", "note", "modify", "update"} \/ Partway(j) => ~trust
  /\ Now(j) \in {"restage", "note", "modify", "update"} => j.held = state
  /\ Created(j) /\ Remodelled(j) /\ Rebootstrapped(j)

TruthKept == trust /\ box # NoBox => state # NoRecord /\ Describes(state) /\ Proven(state)

ModeInv == \A p \in Jobs : job[p] # NoJob => Closed(job[p])

TruthInv == TruthKept /\ \A p \in Jobs : job[p] # NoJob => Told(job[p])

CommandInv == TypeOK /\ Flows /\ SecretInv /\ RegInv /\ ModeInv /\ TruthInv

-----------------------------------------------------------------------------
(* Paths.                                                                  *)

\* A command that has a step left is at it, and the path goes on behind it.
LEMMA WalkOn ==
  ASSUME NEW cmd, NEW s, Walk(cmd, s), s # <<>>
  PROVE  /\ Head(s) = Nth(s, 1) /\ Nth(s, 1) \in Steps
         /\ Leads(cmd, Nth(s, 1), Nth(s, 2))
         /\ Nth(s, 1) = "connect" => Nth(s, 3) = "boot"
         /\ Nth(s, 1) = "purge" => cmd = "purge"
         /\ Walk(cmd, Tail(s)) /\ Tail(s) \in Seq(Steps)
         /\ Nth(Tail(s), 1) = Nth(s, 2) /\ Nth(Tail(s), 2) = Nth(s, 3)
<1>1. s \in Seq(Steps) /\ Len(s) \in Nat \ {0}
  BY DEF Walk, Path
<1>2. PICK t : t = Tail(s)
  OBVIOUS
<1>3. /\ t \in Seq(Steps) /\ Len(t) = Len(s) - 1 /\ Len(t) \in Nat
      /\ \A i \in 1..Len(t) : t[i] = s[i + 1]
  BY <1>1, <1>2
<1>4. \A i \in 1..Len(s) : /\ Leads(cmd, s[i], IF i < Len(s) THEN s[i + 1] ELSE "end")
                           /\ s[i] = "connect" => i + 2 <= Len(s) /\ s[i + 2] = "boot"
                           /\ s[i] = "record" /\ i + 2 <= Len(s) => s[i + 2] # "connect"
                           /\ s[i] = "purge" => cmd = "purge"
  BY DEF Walk, Path
<1>5. Walk(cmd, t)
  <2>1. SUFFICES ASSUME NEW i \in 1..Len(t)
                PROVE  /\ Leads(cmd, t[i], IF i < Len(t) THEN t[i + 1] ELSE "end")
                       /\ t[i] = "connect" => i + 2 <= Len(t) /\ t[i + 2] = "boot"
                       /\ t[i] = "record" /\ i + 2 <= Len(t) => t[i + 2] # "connect"
                       /\ t[i] = "purge" => cmd = "purge"
    BY <1>3 DEF Walk, Path
  <2>2. i + 1 \in 1..Len(s) /\ t[i] = s[i + 1]
    BY <1>1, <1>3
  <2>3. (IF i < Len(t) THEN t[i + 1] ELSE "end") = IF i + 1 < Len(s) THEN s[(i + 1) + 1] ELSE "end"
    BY <1>1, <1>3
  <2>4. /\ (i + 1) + 2 <= Len(s) <=> i + 2 <= Len(t)
        /\ (i + 1) + 2 <= Len(s) => t[i + 2] = s[(i + 1) + 2]
    BY <1>1, <1>3
  <2>. QED
    BY <1>4, <2>2, <2>3, <2>4
<1>6. Nth(t, 1) = Nth(s, 2) /\ Nth(t, 2) = Nth(s, 3)
  BY <1>1, <1>3 DEF Nth
<1>7. Head(s) = Nth(s, 1) /\ s[1] = Nth(s, 1) /\ Nth(s, 1) \in Steps
  BY <1>1 DEF Nth
<1>8. Leads(cmd, Nth(s, 1), Nth(s, 2))
  <2>1. 1 \in 1..Len(s)
    BY <1>1
  <2>2. PICK b : b = IF 1 < Len(s) THEN s[1 + 1] ELSE "end"
    OBVIOUS
  <2>3. Leads(cmd, s[1], b)
    BY <1>4, <2>1, <2>2, Zenon
  <2>4. Nth(s, 2) = b
    BY <1>1, <2>2 DEF Nth
  <2>. QED
    BY <1>7, <2>3, <2>4
<1>9. /\ Nth(s, 1) = "connect" => Nth(s, 3) = "boot"
      /\ Nth(s, 1) = "purge" => cmd = "purge"
  <2>1. 1 \in 1..Len(s)
    BY <1>1
  <2>2. /\ s[1] = "connect" => 3 <= Len(s) /\ s[3] = "boot"
        /\ s[1] = "purge" => cmd = "purge"
    BY <1>4, <2>1
  <2>3. Nth(s, 3) = IF 3 <= Len(s) THEN s[3] ELSE "end"
    BY DEF Nth
  <2>. QED
    BY <1>7, <2>2, <2>3
<1>. QED
  BY <1>2, <1>3, <1>5, <1>6, <1>7, <1>8, <1>9

\* After the outcome is recorded, nothing connects any more.
LEMMA WalkPast ==
  ASSUME NEW cmd, NEW s, Walk(cmd, s), Nth(s, 1) = "record"
  PROVE  Nth(s, 3) # "connect"
<1>1. /\ s \in Seq(Steps)
      /\ \A i \in 1..Len(s) : s[i] = "record" /\ i + 2 <= Len(s) => s[i + 2] # "connect"
  BY DEF Walk, Path
<1>. QED
  BY <1>1 DEF Nth

\* What cannot be followed by a connection, and what cannot bring one.
Plain(s) == \A i \in 1..Len(s) : s[i] # "record"
Settled(s) == \A i \in 1..Len(s) : s[i] # "connect"

\* A path that leads to where another one begins is continued by it.
LEMMA PathJoin ==
  ASSUME NEW cmd, NEW s, NEW t, NEW to,
         Path(cmd, s, IF t = <<>> THEN to ELSE t[1]), Path(cmd, t, to), Plain(s) \/ Settled(t)
  PROVE  /\ Path(cmd, s \o t, to)
         /\ \A i \in Nat \ {0} : Nth(s \o t, i) = IF i <= Len(s) THEN s[i] ELSE Nth(t, i - Len(s))
<1>1. /\ s \in Seq(Steps) /\ t \in Seq(Steps) /\ s \o t \in Seq(Steps)
      /\ Len(s \o t) = Len(s) + Len(t) /\ Len(s) \in Nat /\ Len(t) \in Nat
      /\ \A i \in 1..(Len(s) + Len(t)) : (s \o t)[i] = IF i <= Len(s) THEN s[i] ELSE t[i - Len(s)]
      /\ t = <<>> <=> Len(t) = 0
  BY DEF Path
<1>2. \A i \in Nat \ {0} : Nth(s \o t, i) = IF i <= Len(s) THEN s[i] ELSE Nth(t, i - Len(s))
  BY <1>1 DEF Nth
<1>3. ASSUME NEW i \in 1..Len(s \o t)
      PROVE  /\ Leads(cmd, (s \o t)[i], IF i < Len(s \o t) THEN (s \o t)[i + 1] ELSE to)
             /\ (s \o t)[i] = "connect" => i + 2 <= Len(s \o t) /\ (s \o t)[i + 2] = "boot"
             /\ (s \o t)[i] = "record" /\ i + 2 <= Len(s \o t) => (s \o t)[i + 2] # "connect"
             /\ (s \o t)[i] = "purge" => cmd = "purge"
  <2>1. CASE i <= Len(s)
    <3>1. i \in 1..Len(s) /\ (s \o t)[i] = s[i]
      BY <1>1, <2>1
    <3>2. (IF i < Len(s \o t) THEN (s \o t)[i + 1] ELSE to)
            = IF i < Len(s) THEN s[i + 1] ELSE IF t = <<>> THEN to ELSE t[1]
      BY <1>1, <3>1
    <3>3. i + 2 <= Len(s) => i + 2 <= Len(s \o t) /\ (s \o t)[i + 2] = s[i + 2]
      BY <1>1
    <3>4. (s \o t)[i] = "record" /\ i + 2 <= Len(s \o t) => (s \o t)[i + 2] # "connect"
      <4>1. CASE i + 2 <= Len(s)
        BY <1>1, <3>1, <3>3, <4>1 DEF Path
      <4>2. CASE i + 2 > Len(s) /\ i + 2 <= Len(s \o t)
        <5>1. i + 2 - Len(s) \in 1..Len(t) /\ (s \o t)[i + 2] = t[i + 2 - Len(s)]
          BY <1>1, <3>1, <4>2
        <5>. QED
          BY <3>1, <5>1 DEF Plain, Settled
      <4>. QED
        BY <1>1, <4>1, <4>2
    <3>. QED
      BY <3>1, <3>2, <3>3, <3>4 DEF Path
  <2>2. CASE i > Len(s)
    <3>. DEFINE m == i - Len(s)
    <3>1. m \in 1..Len(t) /\ (s \o t)[i] = t[m]
      BY <1>1, <2>2
    <3>2. (IF i < Len(s \o t) THEN (s \o t)[i + 1] ELSE to) = IF m < Len(t) THEN t[m + 1] ELSE to
      <4>1. i < Len(s \o t) <=> m < Len(t)
        BY <1>1, <2>2
      <4>2. i < Len(s \o t) => (s \o t)[i + 1] = t[m + 1]
        BY <1>1, <2>2
      <4>. QED
        BY <4>1, <4>2
    <3>3. /\ m + 2 <= Len(t) <=> i + 2 <= Len(s \o t)
          /\ m + 2 <= Len(t) => (s \o t)[i + 2] = t[m + 2]
      BY <1>1, <2>2
    <3>. HIDE DEF m
    <3>. QED
      BY <3>1, <3>2, <3>3 DEF Path
  <2>. QED
    BY <1>1, <2>1, <2>2
<1>. QED
  BY <1>1, <1>2, <1>3 DEF Path

\* Nothing left is a path, and is the end.
LEMMA NothingLeft ==
  ASSUME NEW cmd
  PROVE  /\ \A to : Path(cmd, <<>>, to)
         /\ Nth(<<>>, 1) = "end" /\ Nth(<<>>, 2) = "end" /\ Nth(<<>>, 3) = "end"
  BY DEF Path, Nth

\* A part of a command: it begins with `first` and leads to `to`.
Part(cmd, s, first, to) ==
  Path(cmd, s, to) /\ s # <<>> /\ s[1] = first /\ (Plain(s) \/ to \in {"refresh", "end"})

\* Two parts, the one before the other, are a part.
LEMMA PartJoin ==
  ASSUME NEW cmd, NEW s, NEW first, NEW t, NEW next, NEW to,
         Part(cmd, s, first, next), Part(cmd, t, next, to),
         (next # "refresh" /\ next # "end") \/ Plain(s) \/ (Settled(t) /\ to = "end")
  PROVE  Part(cmd, s \o t, first, to)
<1>0. Plain(s) \/ Settled(t)
  BY DEF Part
<1>1. /\ Path(cmd, s \o t, to)
      /\ \A i \in Nat \ {0} : Nth(s \o t, i) = IF i <= Len(s) THEN s[i] ELSE Nth(t, i - Len(s))
  BY <1>0, PathJoin, ZenonT(60) DEF Part
<1>2. s \in Seq(Steps) /\ t \in Seq(Steps) /\ Len(s) > 0 /\ s[1] = first
  BY DEF Part, Path
<1>3. Len(s \o t) > 0 /\ (s \o t)[1] = s[1]
  BY <1>2
<1>4. Plain(s) /\ Plain(t) => Plain(s \o t)
  BY <1>2 DEF Plain
<1>5. Plain(s \o t) \/ to \in {"refresh", "end"}
  BY <1>4 DEF Part
<1>. QED
  BY <1>1, <1>2, <1>3, <1>5 DEF Part

\* A part that leads to the end is a whole path.
LEMMA PartWalks ==
  ASSUME NEW cmd, NEW s, NEW first, Part(cmd, s, first, "end")
  PROVE  Walk(cmd, s) /\ Nth(s, 1) = first
<1>1. s \in Seq(Steps) /\ Len(s) > 0
  BY DEF Part, Path
<1>. QED
  BY <1>1 DEF Part, Walk, Nth

-----------------------------------------------------------------------------
(* The commands.                                                           *)

\* Every command by its name, the two remodels together.
LEMMA Cmds ==
  ASSUME NEW cmd \in Commands \cup {"recreate"}
  PROVE  \/ cmd = "up" \/ cmd = "recreate" \/ cmd = "shell" \/ cmd = "start" \/ cmd = "stop"
         \/ cmd = "restart" \/ cmd = "down" \/ cmd = "purge" \/ cmd = "bootstrap" \/ cmd \in Remodels
  BY LifecycleAssumption, Zenon DEF Remodels

\* Which of the sets of commands overlap.
LEMMA CmdSets ==
  /\ \A cmd \in Remodels : /\ cmd \in MayStart /\ cmd \in Requires /\ cmd \notin Creating
                           /\ cmd # "bootstrap" /\ cmd # "restart" /\ cmd # "purge" /\ cmd # "down"
                           /\ cmd # "shell" /\ cmd # "start" /\ cmd # "stop" /\ cmd # "up" /\ cmd # "recreate"
  /\ \A cmd \in Creating : cmd \in MayStart \ Remodels
  /\ "shell" \in MayStart \ Remodels /\ "start" \in MayStart \ Remodels
  /\ "restart" \in MayStart \ Remodels /\ "bootstrap" \in MayStart \ Remodels
  /\ "up" \in Creating /\ "recreate" \in Creating
  /\ "stop" \notin MayStart /\ "down" \notin MayStart /\ "purge" \notin MayStart
  /\ "shell" \in Requires /\ "start" \in Requires /\ "stop" \in Requires
  /\ "restart" \in Requires /\ "bootstrap" \in Requires
<1>1. \A cmd \in Remodels : /\ cmd \in MayStart /\ cmd \in Requires /\ cmd \notin Creating
                            /\ cmd # "bootstrap" /\ cmd # "restart" /\ cmd # "purge" /\ cmd # "down"
                            /\ cmd # "shell" /\ cmd # "start" /\ cmd # "stop" /\ cmd # "up" /\ cmd # "recreate"
  BY Zenon DEF Remodels, MayStart, Requires, Creating
<1>2. \A cmd \in Creating : cmd \in MayStart \ Remodels
  BY Zenon DEF Remodels, MayStart, Requires, Creating
<1>. QED
  BY <1>1, <1>2, Zenon DEF Remodels, MayStart, Requires, Creating

\* The parts that commands are put together from.
LEMMA CommandParts ==
  ASSUME NEW cmd
  PROVE  /\ cmd \in MayStart \ Remodels =>
              Part(cmd, Mediated, "connect", "docker") /\ Part(cmd, Mediated, "connect", "end")
         /\ cmd \in Remodels => Part(cmd, Mediated, "connect", "guest")
         /\ cmd \in Creating => Part(cmd, Creation, "fresh", "docker")
         /\ cmd \in MayStart => Part(cmd, Bootstrapping, "open", "end")
         /\ cmd \in Remodels => Part(cmd, Bootstrapping, "open", "refresh") /\ Part(cmd, Halt, "refresh", "end")
<1>1. cmd \in MayStart \ Remodels =>
        Part(cmd, Mediated, "connect", "docker") /\ Part(cmd, Mediated, "connect", "end")
  BY DEF Part, Plain, Path, Mediated, Leads, Steps, Fallible
<1>2. cmd \in Remodels => Part(cmd, Mediated, "connect", "guest")
  <2>. SUFFICES ASSUME cmd \in Remodels PROVE Part(cmd, Mediated, "connect", "guest")
    OBVIOUS
  <2>1. cmd \in MayStart
    BY CmdSets
  <2>. QED
    BY <2>1 DEF Part, Plain, Path, Mediated, Leads, Steps, Fallible
<1>3. cmd \in Creating => Part(cmd, Creation, "fresh", "docker")
  BY DEF Part, Plain, Path, Creation, Leads, Steps, Fallible
<1>4. cmd \in MayStart => Part(cmd, Bootstrapping, "open", "end")
  BY DEF Part, Plain, Path, Bootstrapping, Leads, Steps, Fallible
<1>5. cmd \in Remodels => Part(cmd, Bootstrapping, "open", "refresh") /\ Part(cmd, Halt, "refresh", "end")
  <2>. SUFFICES ASSUME cmd \in Remodels
                PROVE  Part(cmd, Bootstrapping, "open", "refresh") /\ Part(cmd, Halt, "refresh", "end")
    OBVIOUS
  <2>1. cmd \in MayStart
    BY CmdSets
  <2>. QED
    BY <2>1 DEF Part, Plain, Path, Bootstrapping, Halt, Leads, Steps, Fallible
<1>. QED
  BY <1>1, <1>2, <1>3, <1>4, <1>5

\* The parts the handlers splice in front of what is left.
LEMMA SmallParts ==
  ASSUME NEW cmd
  PROVE  /\ cmd \in Creating => Part(cmd, <<"remove", "retire">>, "remove", "fresh")
         /\ cmd = "purge" => Part(cmd, <<"remove", "retire">>, "remove", "purge")
         /\ cmd = "down" => Part(cmd, <<"remove", "retire">>, "remove", "end")
         /\ cmd = "purge" => Part(cmd, <<"purge">>, "purge", "end")
         /\ cmd = "restart" => Part(cmd, <<"stop">>, "stop", "refresh") /\ Part(cmd, <<"refresh">>, "refresh", "connect")
         /\ Part(cmd, <<"stop">>, "stop", "end") /\ Part(cmd, <<"diff">>, "diff", "end")
         /\ Part(cmd, <<"find">>, "find", "end")
         /\ cmd \in Creating => Part(cmd, <<"docker", "check">>, "docker", "end")
         /\ cmd \in {"start", "restart"} => Part(cmd, <<"docker">>, "docker", "end")
         /\ cmd = "bootstrap" => Part(cmd, <<"docker", "plan", "restage", "note">>, "docker", "open")
<1>1. /\ cmd \in Creating => Part(cmd, <<"remove", "retire">>, "remove", "fresh")
      /\ cmd = "purge" => Part(cmd, <<"remove", "retire">>, "remove", "purge")
      /\ cmd = "down" => Part(cmd, <<"remove", "retire">>, "remove", "end")
  BY DEF Part, Plain, Path, Leads, Steps, Fallible
<1>2. cmd = "purge" => Part(cmd, <<"purge">>, "purge", "end")
  BY DEF Part, Plain, Path, Leads, Steps, Fallible
<1>3. cmd = "restart" => Part(cmd, <<"stop">>, "stop", "refresh") /\ Part(cmd, <<"refresh">>, "refresh", "connect")
  BY DEF Part, Plain, Path, Leads, Steps, Fallible
<1>4. /\ Part(cmd, <<"stop">>, "stop", "end") /\ Part(cmd, <<"diff">>, "diff", "end")
      /\ Part(cmd, <<"find">>, "find", "end")
  BY DEF Part, Plain, Path, Leads, Steps, Fallible
<1>5. cmd \in Creating => Part(cmd, <<"docker", "check">>, "docker", "end")
  BY DEF Part, Plain, Path, Leads, Steps, Fallible
<1>6. cmd \in {"start", "restart"} => Part(cmd, <<"docker">>, "docker", "end")
  BY CmdSets DEF Part, Plain, Path, Leads, Steps, Fallible
<1>7. cmd = "bootstrap" => Part(cmd, <<"docker", "plan", "restage", "note">>, "docker", "open")
  BY DEF Part, Plain, Path, Leads, Steps, Fallible
<1>. QED
  BY <1>1, <1>2, <1>3, <1>4, <1>5, <1>6, <1>7

\* `up` and `recreate`, which is `up` after the sandbox was removed.
LEMMA UpParts ==
  ASSUME NEW cmd \in Creating, NEW exists \in BOOLEAN, NEW recreate \in BOOLEAN
  PROVE  Part(cmd, Up(exists, recreate),
              IF ~exists THEN "fresh" ELSE IF recreate THEN "remove" ELSE "connect", "end")
<1>1. /\ Part(cmd, Creation, "fresh", "docker") /\ Part(cmd, Mediated, "connect", "docker")
      /\ Part(cmd, <<"docker", "check">>, "docker", "end")
      /\ Part(cmd, <<"remove", "retire">>, "remove", "fresh")
  BY CommandParts, SmallParts, CmdSets
<1>2. Part(cmd, <<"remove", "retire">> \o Creation, "remove", "docker")
  BY <1>1, PartJoin
<1>3. /\ Part(cmd, Creation \o <<"docker", "check">>, "fresh", "end")
      /\ Part(cmd, Mediated \o <<"docker", "check">>, "connect", "end")
      /\ Part(cmd, (<<"remove", "retire">> \o Creation) \o <<"docker", "check">>, "remove", "end")
  BY <1>1, <1>2, PartJoin, Zenon
<1>4. CASE ~exists
  BY <1>3, <1>4, Zenon DEF Up
<1>5. CASE exists /\ recreate
  BY <1>3, <1>5, Zenon DEF Up
<1>6. CASE exists /\ ~recreate
  BY <1>3, <1>6, Zenon DEF Up
<1>. QED
  BY <1>4, <1>5, <1>6

\* What a command goes on with once it looked the sandbox up: only where there
\* is none does it create one or purge, and it begins nowhere in the middle.
LEMMA FoundWalks ==
  ASSUME NEW cmd \in Commands \cup {"recreate"}, NEW exists \in BOOLEAN, NEW on \in BOOLEAN,
         exists \/ cmd \notin Requires
  PROVE  LET todo == AfterFind(cmd, exists, on)
             first == Nth(todo, 1)
         IN /\ Walk(cmd, todo)
            /\ \/ first \in {"end", "connect", "remove", "stop", "diff"}
               \/ first = "refresh" /\ cmd = "restart"
               \/ first = "fresh" /\ ~exists
               \/ first = "purge" /\ ~exists
            /\ first = "diff" => cmd \in Remodels
<1>. DEFINE todo == AfterFind(cmd, exists, on)
<1>e. Walk(cmd, <<>>) /\ Nth(<<>>, 1) = "end"
  BY NothingLeft DEF Walk
<1>1. CASE cmd = "up"
  <2>1. Part(cmd, todo, IF ~exists THEN "fresh" ELSE "connect", "end")
    BY <1>1, UpParts, CmdSets DEF AfterFind
  <2>. QED
    BY <2>1, PartWalks
<1>2. CASE cmd = "recreate"
  <2>1. Part(cmd, todo, IF ~exists THEN "fresh" ELSE "remove", "end")
    BY <1>2, UpParts, CmdSets DEF AfterFind
  <2>. QED
    BY <2>1, PartWalks
<1>3. CASE cmd = "shell"
  <2>1. Part(cmd, todo, "connect", "end")
    BY <1>3, CommandParts, CmdSets DEF AfterFind
  <2>. QED
    BY <2>1, PartWalks
<1>4. CASE cmd = "start"
  <2>1. todo = Mediated \o <<"docker">>
    BY <1>4 DEF AfterFind
  <2>2. Part(cmd, Mediated, "connect", "docker") /\ Part(cmd, <<"docker">>, "docker", "end")
    BY <1>4, CommandParts, SmallParts, CmdSets
  <2>3. Part(cmd, todo, "connect", "end")
    BY <2>1, <2>2, PartJoin, Zenon
  <2>. QED
    BY <2>3, PartWalks
<1>5. CASE cmd = "stop"
  <2>1. Part(cmd, <<"stop">>, "stop", "end")
    BY SmallParts
  <2>2. todo = IF on THEN <<"stop">> ELSE <<>>
    BY <1>5 DEF AfterFind
  <2>. QED
    BY <1>e, <2>1, <2>2, PartWalks
<1>6. CASE cmd = "restart"
  <2>1. /\ Part(cmd, <<"stop">>, "stop", "refresh") /\ Part(cmd, <<"refresh">>, "refresh", "connect")
        /\ Part(cmd, Mediated, "connect", "docker") /\ Part(cmd, <<"docker">>, "docker", "end")
    BY <1>6, CommandParts, SmallParts, CmdSets
  <2>2. ASSUME NEW before, NEW first, Part(cmd, before, first, "connect")
        PROVE  Part(cmd, (before \o Mediated) \o <<"docker">>, first, "end")
    <3>1. Part(cmd, before \o Mediated, first, "docker")
      BY <2>1, <2>2, PartJoin, Zenon
    <3>. QED
      BY <2>1, <3>1, PartJoin, Zenon
  <2>3. CASE on
    <3>1. todo = ((<<"stop">> \o <<"refresh">>) \o Mediated) \o <<"docker">>
      BY <1>6, <2>3 DEF AfterFind
    <3>2. Part(cmd, <<"stop">> \o <<"refresh">>, "stop", "connect")
      <4>1. Plain(<<"stop">>)
        BY DEF Plain
      <4>. QED
        BY <2>1, <4>1, PartJoin, Zenon
    <3>3. Part(cmd, todo, "stop", "end")
      BY <2>2, <3>1, <3>2, Zenon
    <3>. QED
      BY <3>3, PartWalks
  <2>4. CASE ~on
    <3>1. <<>> \o <<"refresh">> = <<"refresh">>
      OBVIOUS
    <3>2. todo = ((<<>> \o <<"refresh">>) \o Mediated) \o <<"docker">>
      BY <1>6, <2>4 DEF AfterFind
    <3>3. Part(cmd, todo, "refresh", "end")
      BY <2>1, <2>2, <3>1, <3>2, Zenon
    <3>. QED
      BY <1>6, <3>3, PartWalks
  <2>. QED
    BY <2>3, <2>4
<1>7. CASE cmd = "down"
  <2>1. Part(cmd, <<"remove", "retire">>, "remove", "end")
    BY <1>7, SmallParts, CmdSets
  <2>2. todo = IF exists THEN <<"remove", "retire">> ELSE <<>>
    BY <1>7 DEF AfterFind
  <2>. QED
    BY <1>e, <2>1, <2>2, PartWalks
<1>8. CASE cmd = "purge"
  <2>1. Part(cmd, <<"remove", "retire">>, "remove", "purge") /\ Part(cmd, <<"purge">>, "purge", "end")
    BY <1>8, SmallParts, CmdSets
  <2>2. todo = (IF exists THEN <<"remove", "retire">> ELSE <<>>) \o <<"purge">>
    BY <1>8 DEF AfterFind
  <2>3. Part(cmd, <<"remove", "retire">> \o <<"purge">>, "remove", "end")
    BY <2>1, PartJoin, Zenon
  <2>4. <<>> \o <<"purge">> = <<"purge">>
    OBVIOUS
  <2>5. Part(cmd, todo, IF exists THEN "remove" ELSE "purge", "end")
    <3>1. CASE exists
      BY <2>2, <2>3, <3>1, Zenon
    <3>2. CASE ~exists
      BY <2>1, <2>2, <2>4, <3>2, Zenon
    <3>. QED
      BY <3>1, <3>2
  <2>. QED
    BY <2>5, PartWalks
<1>9. CASE cmd = "bootstrap"
  <2>1. /\ Part(cmd, Mediated, "connect", "docker")
        /\ Part(cmd, <<"docker", "plan", "restage", "note">>, "docker", "open")
        /\ Part(cmd, Bootstrapping, "open", "end")
    BY <1>9, CommandParts, SmallParts, CmdSets
  <2>2. todo = (Mediated \o <<"docker", "plan", "restage", "note">>) \o Bootstrapping
    BY <1>9 DEF AfterFind
  <2>3. Part(cmd, Mediated \o <<"docker", "plan", "restage", "note">>, "connect", "open")
    BY <2>1, PartJoin, Zenon
  <2>4. Part(cmd, todo, "connect", "end")
    BY <2>1, <2>2, <2>3, PartJoin, Zenon
  <2>. QED
    BY <2>4, PartWalks
<1>10. CASE cmd \in Remodels
  <2>1. Part(cmd, todo, "diff", "end")
    BY <1>10, SmallParts, CmdSets DEF AfterFind
  <2>. QED
    BY <1>10, <2>1, PartWalks
<1>. QED
  BY <1>1, <1>2, <1>3, <1>4, <1>5, <1>6, <1>7, <1>8, <1>9, <1>10, Cmds

\* What `remodel` goes on with when something differs.
LEMMA DiffWalks ==
  ASSUME NEW cmd \in Remodels, NEW on \in BOOLEAN, NEW inGuest \in BOOLEAN
  PROVE  LET todo == <<"modify", "update">> \o (IF inGuest THEN GuestPart(on) ELSE <<>>)
         IN /\ Walk(cmd, todo)
            /\ Nth(todo, 1) = "modify" /\ Nth(todo, 2) = "update"
            /\ Nth(todo, 3) = "end" <=> ~inGuest
<1>. DEFINE apply == <<"guest", "stage">> \o Bootstrapping
            begin == <<"modify", "update">>
<1>1. /\ Part(cmd, Mediated, "connect", "guest") /\ Part(cmd, Bootstrapping, "open", "refresh")
      /\ Part(cmd, Bootstrapping, "open", "end") /\ Part(cmd, Halt, "refresh", "end")
  <2>1. cmd \in MayStart
    BY CmdSets
  <2>. QED
    BY <2>1, CommandParts
<1>2. Part(cmd, <<"guest", "stage">>, "guest", "open") /\ Part(cmd, <<"refresh">>, "refresh", "connect")
  BY DEF Part, Plain, Path, Leads, Steps, Fallible
<1>3. Part(cmd, apply, "guest", "refresh") /\ Part(cmd, apply, "guest", "end")
  BY <1>1, <1>2, PartJoin, Zenon
<1>. HIDE DEF apply
<1>4. Part(cmd, ((<<"refresh">> \o Mediated) \o apply) \o Halt, "refresh", "end")
  <2>1. Part(cmd, <<"refresh">> \o Mediated, "refresh", "guest")
    BY <1>1, <1>2, PartJoin, Zenon
  <2>2. Part(cmd, (<<"refresh">> \o Mediated) \o apply, "refresh", "refresh")
    BY <1>3, <2>1, PartJoin, Zenon
  <2>3. Settled(Halt)
    BY DEF Settled, Halt
  <2>. QED
    BY <1>1, <2>2, <2>3, PartJoin, Zenon
<1>5. GuestPart(on) = IF on THEN apply ELSE ((<<"refresh">> \o Mediated) \o apply) \o Halt
  BY Zenon DEF GuestPart, apply
<1>6. Part(cmd, GuestPart(on), IF on THEN "guest" ELSE "refresh", "end")
  <2>1. CASE on
    BY <1>3, <1>5, <2>1, Zenon
  <2>2. CASE ~on
    BY <1>4, <1>5, <2>2, Zenon
  <2>. QED
    BY <2>1, <2>2
<1>7. /\ Path(cmd, begin, "guest") /\ Path(cmd, begin, "refresh") /\ Path(cmd, begin, "end")
      /\ Len(begin) = 2 /\ begin[1] = "modify" /\ begin[2] = "update" /\ Plain(begin)
  BY DEF Path, Plain, Leads, Steps, Fallible
<1>. HIDE DEF begin
<1>8. ASSUME NEW t, NEW first, Path(cmd, t, "end"), Path(cmd, begin, first),
             first = IF t = <<>> THEN "end" ELSE t[1]
      PROVE  /\ Walk(cmd, begin \o t) /\ Nth(begin \o t, 1) = "modify"
             /\ Nth(begin \o t, 2) = "update" /\ Nth(begin \o t, 3) = Nth(t, 1)
  <2>1. Path(cmd, begin, IF t = <<>> THEN "end" ELSE t[1])
    BY <1>8, Zenon
  <2>2. /\ Path(cmd, begin \o t, "end")
        /\ \A i \in Nat \ {0} : Nth(begin \o t, i) = IF i <= Len(begin) THEN begin[i] ELSE Nth(t, i - Len(begin))
    BY <1>7, <1>8, <2>1, PathJoin
  <2>. QED
    BY <1>7, <2>2 DEF Walk
<1>9. CASE inGuest
  <2>1. PICK first \in {"guest", "refresh"} : Part(cmd, GuestPart(on), first, "end")
    BY <1>6
  <2>2. Nth(GuestPart(on), 1) = first
    BY <2>1, PartWalks
  <2>3. Path(cmd, begin, first)
    BY <1>7, <2>1
  <2>. QED
    BY <1>8, <1>9, <2>1, <2>2, <2>3 DEF Part, begin
<1>10. CASE ~inGuest
  BY <1>7, <1>8, <1>10, NothingLeft DEF begin
<1>. QED
  BY <1>9, <1>10

\* Steps put before what is left.
LEMMA BeforeWalks ==
  ASSUME NEW cmd, NEW t, Walk(cmd, t)
  PROVE  /\ Nth(t, 1) = "end" => t = <<>>
         /\ <<>> \o t = t
         /\ Nth(t, 1) = "create" /\ cmd \in Creating =>
              /\ Walk(cmd, <<"register">> \o t)
              /\ Nth(<<"register">> \o t, 1) = "register" /\ Nth(<<"register">> \o t, 2) = "create"
         /\ t = <<>> /\ cmd \in MayStart => /\ Walk(cmd, Bootstrapping \o t) /\ Nth(Bootstrapping \o t, 1) = "open"
<1>1. t \in Seq(Steps) /\ "end" \notin Steps
  BY DEF Walk, Path, Steps, Fallible
<1>2. Nth(t, 1) = "end" => t = <<>>
  BY <1>1 DEF Nth
<1>3. <<>> \o t = t
  BY <1>1
<1>4. ASSUME Nth(t, 1) = "create", cmd \in Creating
      PROVE  /\ Walk(cmd, <<"register">> \o t)
             /\ Nth(<<"register">> \o t, 1) = "register" /\ Nth(<<"register">> \o t, 2) = "create"
  <2>1. t # <<>> /\ t[1] = "create"
    BY <1>1, <1>4 DEF Nth
  <2>2. /\ Path(cmd, <<"register">>, "create")
        /\ Len(<<"register">>) = 1 /\ <<"register">>[1] = "register" /\ Plain(<<"register">>)
    BY <1>4, CmdSets DEF Path, Plain, Leads, Steps, Fallible
  <2>. DEFINE s == <<"register">>
  <2>. HIDE DEF s
  <2>3. Path(cmd, s, IF t = <<>> THEN "end" ELSE t[1])
    BY <2>1, <2>2, Zenon DEF s
  <2>4. /\ Path(cmd, s \o t, "end")
        /\ \A i \in Nat \ {0} : Nth(s \o t, i) = IF i <= Len(s) THEN s[i] ELSE Nth(t, i - Len(s))
    BY <2>2, <2>3, PathJoin DEF Walk, s
  <2>5. Nth(s \o t, 1) = s[1] /\ Nth(s \o t, 2) = Nth(t, 1)
    BY <2>2, <2>4 DEF s
  <2>. QED
    BY <1>4, <2>2, <2>4, <2>5 DEF Walk, s
<1>5. ASSUME t = <<>>, cmd \in MayStart
      PROVE  Walk(cmd, Bootstrapping \o t) /\ Nth(Bootstrapping \o t, 1) = "open"
  <2>1. Bootstrapping \o t = Bootstrapping
    BY <1>5 DEF Bootstrapping
  <2>. QED
    BY <1>5, <2>1, CommandParts, PartWalks
<1>. QED
  BY <1>2, <1>3, <1>4, <1>5

-----------------------------------------------------------------------------
(* What a step makes of a command.                                         *)

\* Nothing leads back to the beginning.
LEMMA LeadsOnly ==
  ASSUME NEW cmd, NEW a, NEW b, Leads(cmd, a, b)
  PROVE  /\ b \notin {"find", "diff", "remove", "modify"}
         /\ b \in {"retire", "fresh"} => a \in {"remove", "retire"}
         /\ b = "update" => a = "modify"
  BY DEF Leads

\* A command at a step.
LEMMA AtStep ==
  ASSUME TypeOK, Flows, NEW p \in Jobs, NEW s, At(p, s)
  PROVE  LET j == job[p]
         IN /\ j \in Works /\ j # NoJob /\ Flow(j) /\ Now(j) = s /\ j.todo # <<>>
            /\ Leads(j.cmd, s, After(j))
            /\ s = "connect" => After(j) = "register" /\ Third(j) = "boot"
            /\ s = "record" => Third(j) # "connect"
            /\ s = "purge" => j.cmd = "purge"
            /\ Walk(j.cmd, Tail(j.todo)) /\ Tail(j.todo) \in Seq(Steps)
            /\ Nth(Tail(j.todo), 1) = After(j) /\ Nth(Tail(j.todo), 2) = Third(j)
<1>. DEFINE j == job[p]
<1>1. j \in Works /\ j # NoJob /\ Flow(j) /\ j.todo # <<>> /\ Head(j.todo) = s
  BY DEF At, TypeOK, Flows
<1>2. Walk(j.cmd, j.todo)
  BY <1>1 DEF Flow
<1>. HIDE DEF j
<1>n. Nth(j.todo, 1) = "record" => Nth(j.todo, 3) # "connect"
  BY <1>2, WalkPast, Zenon
<1>3. /\ Head(j.todo) = Nth(j.todo, 1)
      /\ Leads(j.cmd, Nth(j.todo, 1), Nth(j.todo, 2))
      /\ Nth(j.todo, 1) = "connect" => Nth(j.todo, 3) = "boot"
      /\ Nth(j.todo, 1) = "purge" => j.cmd = "purge"
      /\ Walk(j.cmd, Tail(j.todo)) /\ Tail(j.todo) \in Seq(Steps)
      /\ Nth(Tail(j.todo), 1) = Nth(j.todo, 2) /\ Nth(Tail(j.todo), 2) = Nth(j.todo, 3)
  BY <1>1, <1>2, WalkOn, ZenonT(60)
<1>4. Nth(j.todo, 1) = s
  BY <1>1, <1>3, Zenon
<1>5. s = "connect" => Nth(j.todo, 2) = "register"
  <2>1. Leads(j.cmd, s, Nth(j.todo, 2))
    BY <1>3, <1>4, Zenon
  <2>. QED
    BY <2>1 DEF Leads
<1>. QED
  BY <1>1, <1>n, <1>3, <1>4, <1>5, Zenon DEF Now, After, Third, j

\* A command that goes on has a path before it again.
LEMMA FlowOn ==
  ASSUME NEW j \in Works, NEW k \in Works, NEW b, Flow(j), Leads(j.cmd, Now(j), b),
         k.cmd = j.cmd, Walk(k.cmd, k.todo), Now(k) = b,
         k.halt => j.halt \/ j.cmd \in Remodels,
         k.held = j.held, k.was = j.was,
         Now(j) \in {"remove", "retire"} => k.heard = j.heard
  PROVE  Flow(k)
<1>1. /\ Now(k) \notin {"find", "diff", "remove", "modify"}
      /\ Now(k) \in {"retire", "fresh"} => Now(j) \in {"remove", "retire"}
      /\ Now(k) = "update" => Now(j) = "modify"
  BY LeadsOnly
<1>2. k.halt => k.cmd \in Remodels
  BY DEF Flow
<1>3. k.cmd \in Creating => k.held = NoRecord /\ ~k.was
  BY DEF Flow
<1>4. Now(k) \in {"retire", "fresh"} => ~k.heard
  BY <1>1 DEF Flow
<1>5. Now(k) \in {"modify", "update"} => k.held # NoRecord
  BY <1>1 DEF Flow
<1>6. k.was => k.cmd \in Remodels \/ Now(k) \in {"restage", "note", "open", "run", "enforce", "record", "end"}
  <2>. SUFFICES ASSUME k.was, k.cmd \notin Remodels
                PROVE  Now(k) \in {"restage", "note", "open", "run", "enforce", "record", "end"}
    OBVIOUS
  <2>1. Now(j) \in {"restage", "note", "open", "run", "enforce", "record", "end"}
    BY DEF Flow
  <2>. QED
    BY <2>1 DEF Leads
<1>. QED
  BY <1>1, <1>2, <1>3, <1>4, <1>5, <1>6 DEF Flow

\* Step p's job becomes k.
Becomes(p, k) == k \in Works /\ Flow(k) /\ job' = [job EXCEPT ![p] = k]

\* A job that becomes another one keeps the types and the flow of all.
LEMMA BecomesFlows ==
  ASSUME TypeOK, Flows, NEW p \in Jobs, NEW k, Becomes(p, k)
  PROVE  /\ job' \in [Jobs -> Works \cup {NoJob}] /\ Flows'
         /\ job'[p] = k /\ k # NoJob
<1>1. job \in [Jobs -> Works \cup {NoJob}] /\ k \in Works /\ Flow(k) /\ job' = [job EXCEPT ![p] = k]
  BY DEF TypeOK, Becomes
<1>2. \A q \in Jobs : job'[q] = IF q = p THEN k ELSE job[q]
  BY <1>1
<1>3. Flows'
  <2>. SUFFICES ASSUME NEW q \in Jobs, job'[q] # NoJob PROVE Flow(job'[q])
    BY DEF Flows
  <2>. QED
    BY <1>1, <1>2 DEF Flows
<1>. QED
  BY <1>1, <1>2, <1>3, AbsentAssumption

\* The step is done: the command is at the next one.
LEMMA GoStep ==
  ASSUME TypeOK, Flows, NEW p \in Jobs, NEW s, At(p, s), Go(p)
  PROVE  LET k == [job[p] EXCEPT !.todo = Tail(job[p].todo)]
         IN Becomes(p, k) /\ Now(k) = After(job[p]) /\ After(k) = Third(job[p])
<1>. DEFINE j == job[p]
            k == [j EXCEPT !.todo = Tail(j.todo)]
<1>1. /\ j \in Works /\ Flow(j) /\ Now(j) = s /\ Leads(j.cmd, s, After(j))
      /\ Walk(j.cmd, Tail(j.todo)) /\ Tail(j.todo) \in Seq(Steps)
      /\ Nth(Tail(j.todo), 1) = After(j) /\ Nth(Tail(j.todo), 2) = Third(j)
  BY AtStep
<1>2. /\ k \in Works /\ k.todo = Tail(j.todo) /\ k.cmd = j.cmd /\ k.halt = j.halt /\ k.held = j.held
      /\ k.was = j.was /\ k.heard = j.heard
  BY <1>1 DEF Works
<1>3. Now(k) = After(j) /\ After(k) = Third(j)
  BY <1>1, <1>2 DEF Now, After
<1>4. Flow(k)
  <2>. HIDE DEF j, k
  <2>. QED
    BY <1>1, <1>2, <1>3, FlowOn
<1>5. job' = [job EXCEPT ![p] = k]
  <2>1. <<>> \o Tail(j.todo) = Tail(j.todo)
    BY <1>1
  <2>. QED
    BY <2>1 DEF Go, Then
<1>. QED
  BY <1>2, <1>3, <1>4, <1>5 DEF Becomes

\* The step failed: `remodel` goes on to stop the VM it started, others end.
LEMMA FailStep ==
  ASSUME TypeOK, Flows, NEW p \in Jobs, NEW s, At(p, s), Fail(p)
  PROVE  LET j == job[p]
             k == [j EXCEPT !.failed = TRUE, !.halt = FALSE, !.todo = IF j.halt THEN Halt ELSE <<>>]
         IN /\ Becomes(p, k)
            /\ (Now(k) = "end" \/ (Now(k) = "refresh" /\ After(k) = "stop"))
<1>. DEFINE j == job[p]
            todo == IF j.halt THEN Halt ELSE <<>>
            k == [j EXCEPT !.failed = TRUE, !.halt = FALSE, !.todo = todo]
<1>1. j \in Works /\ Flow(j)
  BY AtStep
<1>2. /\ Walk(j.cmd, todo)
      /\ (Nth(todo, 1) = "end" \/ (Nth(todo, 1) = "refresh" /\ Nth(todo, 2) = "stop" /\ j.cmd \in Remodels))
  <2>1. j.halt => j.cmd \in Remodels
    BY <1>1 DEF Flow
  <2>2. Nth(Halt, 1) = "refresh" /\ Nth(Halt, 2) = "stop"
    BY DEF Nth, Halt
  <2>3. j.cmd \in Remodels => Walk(j.cmd, Halt)
    BY CommandParts, PartWalks
  <2>. QED
    BY <2>1, <2>2, <2>3, NothingLeft DEF Walk
<1>3. todo \in Seq(Steps)
  BY <1>2 DEF Walk, Path
<1>. HIDE DEF todo
<1>4. /\ k \in Works /\ k.todo = todo /\ k.cmd = j.cmd /\ ~k.halt /\ k.held = j.held
      /\ k.was = j.was /\ k.heard = j.heard
  BY <1>1, <1>3 DEF Works
<1>5. Now(k) = "end" \/ (Now(k) = "refresh" /\ After(k) = "stop" /\ k.cmd \in Remodels)
  BY <1>2, <1>4 DEF Now, After
<1>6. Flow(k)
  <2>. HIDE DEF j, k
  <2>. QED
    BY <1>1, <1>2, <1>4, <1>5 DEF Flow
<1>7. job' = [job EXCEPT ![p] = k]
  BY Zenon DEF Fail, todo
<1>. QED
  BY <1>4, <1>5, <1>6, <1>7 DEF Becomes, todo

\* A step that changes other things than what is left, too.
LEMMA MoveStep ==
  ASSUME TypeOK, Flows, NEW p \in Jobs, NEW s, At(p, s), NEW k \in Works,
         k.todo = Tail(job[p].todo), k.cmd = job[p].cmd, k.halt => job[p].halt \/ k.cmd \in Remodels,
         k.held = job[p].held, k.was = job[p].was,
         s \in {"remove", "retire"} => k.heard = job[p].heard,
         job' = [job EXCEPT ![p] = k]
  PROVE  Becomes(p, k) /\ Now(k) = After(job[p]) /\ After(k) = Third(job[p])
<1>. DEFINE j == job[p]
<1>1. /\ j \in Works /\ Flow(j) /\ Now(j) = s /\ Leads(j.cmd, s, After(j))
      /\ Walk(j.cmd, Tail(j.todo))
      /\ Nth(Tail(j.todo), 1) = After(j) /\ Nth(Tail(j.todo), 2) = Third(j)
  BY AtStep
<1>2. Now(k) = After(j) /\ After(k) = Third(j)
  BY <1>1 DEF Now, After
<1>3. Flow(k)
  BY <1>1, <1>2, FlowOn
<1>. QED
  BY <1>2, <1>3 DEF Becomes

\* The record of a command that begins.
Begun(cmd) ==
  [cmd |-> cmd, todo |-> <<"find">>, pass |-> IF cmd \in MayStart THEN secret' ELSE 0,
   plan |-> kitchen, on |-> FALSE, held |-> NoRecord, mode |-> "open", port |-> 0,
   ok |-> FALSE, failed |-> FALSE, halt |-> FALSE, heard |-> FALSE, was |-> FALSE,
   groups |-> {}]

\* A command begins with looking the sandbox up, the secret made before.
LEMMA BeginStep ==
  ASSUME TypeOK, Flows, NEW p \in Jobs, Begin(p)
  PROVE  \E cmd \in Commands :
           /\ Becomes(p, Begun(cmd)) /\ Now(Begun(cmd)) = "find" /\ After(Begun(cmd)) = "end"
           /\ secret' \in Nat /\ (cmd \in MayStart => secret' # 0)
           /\ IF cmd \in MayStart /\ secret = 0 THEN TRUE ELSE secret' = secret
<1>1. PICK cmd \in Commands :
        /\ IF cmd \in MayStart /\ secret = 0 THEN secret' \in Passwords \ InUse ELSE secret' = secret
        /\ job' = [job EXCEPT ![p] = Begun(cmd)]
  BY Zenon DEF Begin, Begun
<1>2. /\ secret' \in Nat /\ (cmd \in MayStart => secret' # 0)
      /\ IF cmd \in MayStart /\ secret = 0 THEN TRUE ELSE secret' = secret
  BY <1>1, LifecycleAssumption DEF TypeOK
<1>3. /\ <<"find">> \in Seq(Steps) /\ Walk(cmd, <<"find">>)
      /\ Nth(<<"find">>, 1) = "find" /\ Nth(<<"find">>, 2) = "end"
  <2>1. Walk(cmd, <<"find">>)
    BY SmallParts, PartWalks
  <2>2. <<"find">> \in Seq(Steps) /\ Nth(<<"find">>, 1) = "find" /\ Nth(<<"find">>, 2) = "end"
    BY DEF Steps, Fallible, Nth
  <2>. QED
    BY <2>1, <2>2
<1>. DEFINE k == Begun(cmd)
<1>4. /\ k \in Works /\ k.cmd = cmd /\ k.todo = <<"find">> /\ ~k.halt /\ k.held = NoRecord
      /\ ~k.was /\ ~k.heard
  BY <1>2, <1>3 DEF Begun, Works, TypeOK, Modes, Endpoints
<1>5. Now(k) = "find" /\ After(k) = "end"
  BY <1>3, <1>4 DEF Now, After
<1>. HIDE DEF k
<1>6. Flow(k)
  BY <1>3, <1>4, <1>5 DEF Flow
<1>7. Becomes(p, k)
  BY <1>1, <1>4, <1>6 DEF Becomes, k
<1>. QED
  BY <1>2, <1>5, <1>7 DEF k

\* What each command does about a sandbox that is or is not there.
LEMMA FindStep ==
  ASSUME TypeOK, Flows, NEW p \in Jobs, Find(p)
  PROVE  \/ Fail(p)
         \/ LET k == job'[p]
            IN /\ Becomes(p, k)
               /\ k = [job[p] EXCEPT !.todo = k.todo, !.on = k.on]
               /\ \/ Now(k) \in {"end", "connect", "remove", "stop", "diff"}
                  \/ Now(k) = "refresh" /\ k.cmd = "restart"
                  \/ Now(k) \in {"fresh", "purge"} /\ box = NoBox
               /\ k.cmd \in Remodels => Now(k) = "diff"
               /\ k.on = (box # NoBox /\ box.on)
<1>. DEFINE j == job[p]
            exists == box # NoBox
            on == box # NoBox /\ box.on
            todo == AfterFind(j.cmd, exists, on)
            k == [j EXCEPT !.todo = todo, !.on = on]
<1>. SUFFICES ASSUME ~Fail(p)
              PROVE  LET l == job'[p]
                     IN /\ Becomes(p, l)
                        /\ l = [job[p] EXCEPT !.todo = l.todo, !.on = l.on]
                        /\ \/ Now(l) \in {"end", "connect", "remove", "stop", "diff"}
                           \/ Now(l) = "refresh" /\ l.cmd = "restart"
                           \/ Now(l) \in {"fresh", "purge"} /\ box = NoBox
                        /\ l.cmd \in Remodels => Now(l) = "diff"
                        /\ l.on = (box # NoBox /\ box.on)
  BY Zenon
<1>1. job' = [job EXCEPT ![p] = k] /\ (exists \/ j.cmd \notin Requires)
  BY Zenon DEF Find
<1>2. j \in Works /\ Flow(j) /\ Now(j) = "find"
  BY AtStep DEF Find
<1>3. j.cmd \in Commands \cup {"recreate"} /\ on \in BOOLEAN /\ exists \in BOOLEAN
  BY <1>2 DEF Works, TypeOK, Boxes
<1>. HIDE DEF exists, on
<1>4. /\ Walk(j.cmd, todo)
      /\ \/ Nth(todo, 1) \in {"end", "connect", "remove", "stop", "diff"}
         \/ Nth(todo, 1) = "refresh" /\ j.cmd = "restart"
         \/ Nth(todo, 1) \in {"fresh", "purge"} /\ ~exists
      /\ Nth(todo, 1) = "diff" => j.cmd \in Remodels
  BY <1>1, <1>3, FoundWalks
<1>5. todo \in Seq(Steps)
  BY <1>4 DEF Walk, Path
<1>12. j.cmd \in Remodels => Nth(todo, 1) = "diff"
  <2>1. j.cmd \in Remodels => todo = <<"diff">>
    BY CmdSets DEF AfterFind
  <2>. QED
    BY <2>1 DEF Nth
<1>. HIDE DEF todo
<1>6. /\ k \in Works /\ k.todo = todo /\ k.cmd = j.cmd /\ k.halt = j.halt /\ k.held = j.held
      /\ k.was = j.was /\ k.heard = j.heard /\ k.on = on
  BY <1>2, <1>3, <1>5 DEF Works
<1>7. /\ ~k.halt /\ k.held = NoRecord /\ ~k.was /\ ~k.heard
  BY <1>2, <1>6 DEF Flow
<1>8. Now(k) = Nth(todo, 1)
  BY <1>6 DEF Now
<1>9. k = [j EXCEPT !.todo = k.todo, !.on = k.on]
  BY <1>6
<1>. HIDE DEF k
<1>10. Flow(k)
  BY <1>4, <1>6, <1>7, <1>8 DEF Flow
<1>11. Becomes(p, k) /\ job'[p] = k
  <2>1. Becomes(p, k)
    BY <1>1, <1>6, <1>10 DEF Becomes
  <2>. QED
    BY <2>1, BecomesFlows
<1>. QED
  BY <1>4, <1>6, <1>8, <1>9, <1>11, <1>12 DEF exists, on

\* The sandbox's state is read again before it is started or stopped.
LEMMA RefreshStep ==
  ASSUME TypeOK, Flows, NEW p \in Jobs, Refresh(p)
  PROVE  \/ Fail(p)
         \/ LET k == [job[p] EXCEPT !.todo = Tail(job[p].todo), !.on = box.on]
            IN Becomes(p, k) /\ Now(k) = After(job[p]) /\ After(k) = Third(job[p])
<1>. DEFINE j == job[p]
            k == [j EXCEPT !.todo = Tail(j.todo), !.on = box.on]
<1>1. Fail(p) \/ (job' = [job EXCEPT ![p] = k] /\ box # NoBox)
  BY Zenon DEF Refresh
<1>2. At(p, "refresh")
  BY DEF Refresh
<1>3. j \in Works /\ Tail(j.todo) \in Seq(Steps)
  BY <1>2, AtStep
<1>4. CASE box # NoBox /\ job' = [job EXCEPT ![p] = k]
  <2>1. box.on \in BOOLEAN
    BY <1>4 DEF TypeOK, Boxes
  <2>2. /\ k \in Works /\ k.todo = Tail(j.todo) /\ k.cmd = j.cmd /\ k.halt = j.halt /\ k.held = j.held
        /\ k.was = j.was /\ k.heard = j.heard
    BY <1>3, <2>1 DEF Works
  <2>. QED
    BY <1>2, <1>4, <2>2, MoveStep
<1>. QED
  BY <1>1, <1>4

\* A start registers with the recorded endpoints and mode, or, without any, boots.
LEMMA ConnectStep ==
  ASSUME TypeOK, Flows, NEW p \in Jobs, Connect(p)
  PROVE  \/ LET k == [job[p] EXCEPT !.todo = Tail(Tail(job[p].todo))]
            IN Becomes(p, k) /\ Now(k) = "boot"
         \/ /\ state # NoRecord
            /\ LET k == [job[p] EXCEPT !.todo = Tail(job[p].todo), !.port = state.port,
                                       !.mode = IF state.boot THEN "enforce" ELSE "open"]
               IN Becomes(p, k) /\ Now(k) = "register" /\ After(k) = "boot"
<1>. DEFINE j == job[p]
            skip == [j EXCEPT !.todo = Tail(Tail(j.todo))]
            k == [j EXCEPT !.todo = Tail(j.todo), !.port = state.port,
                           !.mode = IF state.boot THEN "enforce" ELSE "open"]
<1>1. /\ At(p, "connect")
      /\ \/ job' = [job EXCEPT ![p] = skip]
         \/ state # NoRecord /\ job' = [job EXCEPT ![p] = k]
  BY Zenon DEF Connect
<1>2. /\ j \in Works /\ Flow(j) /\ Now(j) = "connect" /\ After(j) = "register" /\ Third(j) = "boot"
      /\ Walk(j.cmd, Tail(j.todo)) /\ Tail(j.todo) \in Seq(Steps)
      /\ Nth(Tail(j.todo), 1) = After(j) /\ Nth(Tail(j.todo), 2) = Third(j)
  BY <1>1, AtStep
<1>3. CASE job' = [job EXCEPT ![p] = skip]
  <2>. DEFINE t == Tail(j.todo)
  <2>1. t # <<>>
    BY <1>2, NothingLeft
  <2>2. /\ Walk(j.cmd, t) /\ Nth(t, 1) = "register" /\ Nth(t, 2) = "boot"
    BY <1>2
  <2>. HIDE DEF t
  <2>3. /\ Walk(j.cmd, Tail(t)) /\ Tail(t) \in Seq(Steps) /\ Nth(Tail(t), 1) = "boot"
        /\ Leads(j.cmd, "register", "boot")
    BY <2>1, <2>2, WalkOn
  <2>. DEFINE l == [j EXCEPT !.todo = Tail(t)]
  <2>4. /\ l \in Works /\ l.todo = Tail(t) /\ l.cmd = j.cmd /\ l.halt = j.halt /\ l.held = j.held
        /\ l.was = j.was /\ l.heard = j.heard
    BY <1>2, <2>3 DEF Works
  <2>. HIDE DEF l
  <2>5. Now(l) = "boot"
    BY <2>3, <2>4 DEF Now
  <2>6. Flow(l)
    BY <1>2, <2>3, <2>4, <2>5 DEF Flow
  <2>. QED
    BY <1>3, <2>4, <2>5, <2>6, Zenon DEF Becomes, l, t
<1>4. CASE state # NoRecord /\ job' = [job EXCEPT ![p] = k]
  <2>1. state.port \in Endpoints /\ state.boot \in BOOLEAN
    BY <1>4 DEF TypeOK, Records
  <2>2. /\ k \in Works /\ k.todo = Tail(j.todo) /\ k.cmd = j.cmd /\ k.halt = j.halt /\ k.held = j.held
        /\ k.was = j.was /\ k.heard = j.heard
    BY <1>2, <2>1 DEF Works, Modes
  <2>3. Becomes(p, k) /\ Now(k) = After(j) /\ After(k) = Third(j)
    BY <1>1, <1>4, <2>2, MoveStep
  <2>. QED
    BY <1>2, <1>4, <2>3
<1>. QED
  BY <1>1, <1>3, <1>4

\* A creation registers first, unless the kitchen file wants no network.
LEMMA FreshStep ==
  ASSUME TypeOK, Flows, NEW p \in Jobs, Fresh(p)
  PROVE  LET k == job'[p]
         IN /\ Becomes(p, k)
            /\ k = [job[p] EXCEPT !.port = 0, !.mode = "open", !.todo = k.todo]
            /\ \/ Now(k) = "create"
               \/ Now(k) = "register" /\ After(k) = "create"
<1>. DEFINE j == job[p]
            more == IF j.plan.text.fixed \in Offline THEN <<>> ELSE <<"register">>
            t == Tail(j.todo)
            k == [j EXCEPT !.port = 0, !.mode = "open", !.todo = more \o t]
<1>1. At(p, "fresh") /\ job' = [job EXCEPT ![p] = k]
  BY Zenon DEF Fresh
<1>2. /\ j \in Works /\ Flow(j) /\ Now(j) = "fresh" /\ Leads(j.cmd, "fresh", After(j))
      /\ Walk(j.cmd, t) /\ Nth(t, 1) = After(j) /\ Nth(t, 2) = Third(j)
  BY <1>1, AtStep
<1>3. After(j) = "create" /\ j.cmd \in Creating
  BY <1>2 DEF Leads
<1>. HIDE DEF t, j
<1>4. /\ Walk(j.cmd, more \o t)
      /\ \/ Nth(more \o t, 1) = "create"
         \/ Nth(more \o t, 1) = "register" /\ Nth(more \o t, 2) = "create"
  <2>1. CASE more = <<>>
    BY <1>2, <1>3, <2>1, BeforeWalks, Zenon
  <2>2. CASE more = <<"register">>
    BY <1>2, <1>3, <2>2, BeforeWalks, Zenon
  <2>. QED
    BY <2>1, <2>2, Zenon
<1>5. more \o t \in Seq(Steps)
  BY <1>4 DEF Walk, Path
<1>. HIDE DEF more
<1>6. /\ k \in Works /\ k.todo = more \o t /\ k.cmd = j.cmd /\ k.halt = j.halt /\ k.held = j.held
      /\ k.was = j.was /\ k.heard = j.heard
  BY <1>2, <1>5 DEF Works, Modes, Endpoints
<1>7. k = [j EXCEPT !.port = 0, !.mode = "open", !.todo = k.todo]
  BY <1>6
<1>. HIDE DEF k
<1>8. Now(k) = "create" \/ (Now(k) = "register" /\ After(k) = "create")
  BY <1>4, <1>6 DEF Now, After
<1>9. Flow(k)
  BY <1>2, <1>4, <1>6, <1>8 DEF Flow
<1>10. Becomes(p, k) /\ job'[p] = k
  <2>1. Becomes(p, k)
    BY <1>1, <1>6, <1>9, Zenon DEF Becomes, k, j
  <2>. QED
    BY <2>1, BecomesFlows
<1>. QED
  BY <1>7, <1>8, <1>10 DEF j

\* What the broker restores from its file is a registration.
LEMMA RestoredType ==
  ASSUME TypeOK
  PROVE  /\ Restored \in Regs \cup {NoReg}
         /\ Restored # NoReg => /\ reg # NoReg /\ Restored.mode = reg.mode /\ Restored.port = reg.port
         /\ reg # NoReg /\ secret # 0 => Restored # NoReg
<1>1. CASE reg = NoReg \/ secret = 0
  BY <1>1 DEF Restored
<1>2. CASE reg # NoReg /\ secret # 0
  <2>1. reg \in Regs /\ secret \in Nat /\ Restored = [reg EXCEPT !.pass = secret]
    BY <1>2 DEF TypeOK, Restored
  <2>. QED
    BY <1>2, <2>1, AbsentAssumption DEF Regs
<1>. QED
  BY <1>1, <1>2

\* A registration is in the broker afterwards, in the mode that was asked for
\* and at the command's port; unless there is no secret.
LEMMA RegisterStep ==
  ASSUME TypeOK, Flows, NEW p \in Jobs, Register(p)
  PROVE  \/ secret = 0 /\ Fail(p) /\ reg' = NoReg
         \/ \E port \in Ports :
              LET k == [job[p] EXCEPT !.todo = Tail(job[p].todo), !.port = port, !.heard = TRUE]
              IN /\ Becomes(p, k) /\ Now(k) = After(job[p]) /\ After(k) = Third(job[p])
                 /\ reg' \in Regs /\ reg'.mode = job[p].mode /\ reg'.port = port
                 /\ job[p].port \in {0, port}
<1>. DEFINE j == job[p]
            K(port) == [j EXCEPT !.todo = Tail(j.todo), !.port = port, !.heard = TRUE]
            known == IF serving THEN reg ELSE Restored
<1>1. /\ At(p, "register")
      /\ \/ /\ known # NoReg /\ j.port \in {0, known.port}
            /\ reg' = [known EXCEPT !.mode = j.mode] /\ job' = [job EXCEPT ![p] = K(known.port)]
         \/ secret = 0 /\ reg' = NoReg /\ Fail(p)
         \/ \E port \in IF j.port = 0 THEN Ports ELSE {j.port} :
              /\ reg' = [mode |-> j.mode, port |-> port, pass |-> secret]
              /\ job' = [job EXCEPT ![p] = K(port)]
  BY ZenonT(60) DEF Register
<1>2. /\ j \in Works /\ Tail(j.todo) \in Seq(Steps) /\ j.mode \in Modes /\ j.port \in Ports \cup {0}
  BY <1>1, AtStep DEF Works, Endpoints
<1>3. ASSUME NEW port \in Ports, job' = [job EXCEPT ![p] = K(port)]
      PROVE  Becomes(p, K(port)) /\ Now(K(port)) = After(j) /\ After(K(port)) = Third(j)
  <2>. DEFINE k == K(port)
  <2>1. /\ k \in Works /\ k.todo = Tail(j.todo) /\ k.cmd = j.cmd /\ k.halt = j.halt /\ k.held = j.held
        /\ k.was = j.was
    BY <1>2 DEF Works, Endpoints
  <2>. HIDE DEF k
  <2>2. job' = [job EXCEPT ![p] = k]
    BY <1>3 DEF k
  <2>3. At(p, "register") /\ "register" \notin {"remove", "retire"}
    BY <1>1
  <2>4. Becomes(p, k) /\ Now(k) = After(j) /\ After(k) = Third(j)
    BY <2>1, <2>2, <2>3, MoveStep, ZenonT(60)
  <2>. QED
    BY <2>4 DEF k
<1>4. CASE /\ known # NoReg /\ j.port \in {0, known.port}
           /\ reg' = [known EXCEPT !.mode = j.mode] /\ job' = [job EXCEPT ![p] = K(known.port)]
  <2>1. known \in Regs /\ known.port \in Ports
    BY <1>4, RestoredType DEF TypeOK, Regs
  <2>2. reg' \in Regs /\ reg'.mode = j.mode /\ reg'.port = known.port
    <3>. HIDE DEF known
    <3>. QED
      BY <1>2, <1>4, <2>1 DEF Regs
  <2>. HIDE DEF known, K
  <2>3. Becomes(p, K(known.port)) /\ Now(K(known.port)) = After(j) /\ After(K(known.port)) = Third(j)
    BY <1>3, <1>4, <2>1
  <2>. QED
    BY <1>4, <2>1, <2>2, <2>3, Zenon DEF K
<1>5. ASSUME NEW port \in IF j.port = 0 THEN Ports ELSE {j.port},
             reg' = [mode |-> j.mode, port |-> port, pass |-> secret],
             job' = [job EXCEPT ![p] = K(port)]
      PROVE  \E q \in Ports :
               /\ Becomes(p, K(q)) /\ Now(K(q)) = After(j) /\ After(K(q)) = Third(j)
               /\ reg' \in Regs /\ reg'.mode = j.mode /\ reg'.port = q /\ j.port \in {0, q}
  <2>1. port \in Ports /\ j.port \in {0, port}
    BY <1>2, <1>5
  <2>2. reg' \in Regs /\ reg'.mode = j.mode /\ reg'.port = port
    BY <1>2, <1>5, <2>1 DEF Regs, TypeOK
  <2>. HIDE DEF K
  <2>3. Becomes(p, K(port)) /\ Now(K(port)) = After(j) /\ After(K(port)) = Third(j)
    BY <1>3, <1>5, <2>1
  <2>. QED
    BY <2>1, <2>2, <2>3
<1>. QED
  BY <1>1, <1>4, <1>5, Zenon

\* A change of mode reaches the registration, or nobody heard it.
LEMMA SetModeStep ==
  ASSUME TypeOK, Flows, NEW p \in Jobs, NEW s \in {"open", "enforce"}, NEW mode \in Modes, SetMode(p, s, mode)
  PROVE  /\ LET k == [job[p] EXCEPT !.todo = Tail(job[p].todo), !.heard = serving /\ reg # NoReg]
            IN Becomes(p, k) /\ Now(k) = After(job[p]) /\ After(k) = Third(job[p])
         /\ reg' \in Regs \cup {NoReg}
         /\ reg = NoReg => reg' = NoReg
         /\ reg # NoReg => /\ reg' # NoReg /\ reg'.port = reg.port
                           /\ reg'.mode = IF serving THEN mode ELSE reg.mode
<1>. DEFINE j == job[p]
            b == serving /\ reg # NoReg
            k == [j EXCEPT !.todo = Tail(j.todo), !.heard = b]
<1>1. /\ At(p, s) /\ job' = [job EXCEPT ![p] = k]
      /\ reg' = IF serving /\ reg # NoReg THEN [reg EXCEPT !.mode = mode] ELSE reg
  BY Zenon DEF SetMode
<1>2. j \in Works /\ Tail(j.todo) \in Seq(Steps) /\ b \in BOOLEAN
  BY <1>1, AtStep DEF TypeOK
<1>. HIDE DEF b
<1>3. /\ k \in Works /\ k.todo = Tail(j.todo) /\ k.cmd = j.cmd /\ k.halt = j.halt /\ k.held = j.held
      /\ k.was = j.was
  BY <1>2 DEF Works
<1>. HIDE DEF k
<1>4. Becomes(p, k) /\ Now(k) = After(j) /\ After(k) = Third(j)
  <2>1. s = "open" \/ s = "enforce"
    OBVIOUS
  <2>2. "open" \notin {"remove", "retire"} /\ "enforce" \notin {"remove", "retire"}
    BY Zenon
  <2>3. s \notin {"remove", "retire"}
    BY <2>1, <2>2, Zenon
  <2>4. At(p, s) /\ job' = [job EXCEPT ![p] = k]
    BY <1>1 DEF k
  <2>. QED
    BY <1>3, <2>3, <2>4, MoveStep, ZenonT(60)
<1>5. CASE reg # NoReg
  <2>1. reg \in Regs
    BY <1>5 DEF TypeOK
  <2>2. reg' \in Regs /\ reg'.port = reg.port /\ reg'.mode = IF serving THEN mode ELSE reg.mode
    BY <1>1, <1>5, <2>1 DEF Regs
  <2>. QED
    BY <1>4, <1>5, <2>2, AbsentAssumption DEF b, k
<1>6. CASE reg = NoReg
  BY <1>1, <1>4, <1>6 DEF b, k
<1>. QED
  BY <1>5, <1>6

\* The VM starts with what it was configured with.
LEMMA BootStep ==
  ASSUME TypeOK, Flows, NEW p \in Jobs, Boot(p)
  PROVE  \/ Fail(p) /\ box' = box
         \/ /\ box # NoBox
            /\ LET k == [job[p] EXCEPT !.todo = Tail(job[p].todo), !.halt = job[p].cmd \in Remodels]
               IN Becomes(p, k) /\ Now(k) = After(job[p]) /\ After(k) = Third(job[p])
            /\ \/ box' = box
               \/ box' = [box EXCEPT !.on = TRUE, !.pass = job[p].pass]
<1>. DEFINE j == job[p]
            b == j.cmd \in Remodels
            k == [j EXCEPT !.todo = Tail(j.todo), !.halt = b]
<1>1. /\ At(p, "boot")
      /\ \/ Fail(p) /\ box' = box
         \/ /\ box # NoBox /\ job' = [job EXCEPT ![p] = k]
            /\ box' = box \/ box' = [box EXCEPT !.on = TRUE, !.pass = j.pass]
  BY Zenon DEF Boot
<1>2. j \in Works /\ Tail(j.todo) \in Seq(Steps) /\ b \in BOOLEAN
  BY <1>1, AtStep
<1>. HIDE DEF b
<1>3. /\ k \in Works /\ k.todo = Tail(j.todo) /\ k.cmd = j.cmd /\ k.halt = b /\ k.held = j.held
      /\ k.was = j.was /\ k.heard = j.heard
  BY <1>2 DEF Works
<1>. HIDE DEF k
<1>4. k.halt => j.cmd \in Remodels
  BY <1>3 DEF b
<1>5. job' = [job EXCEPT ![p] = k] => Becomes(p, k) /\ Now(k) = After(j) /\ After(k) = Third(j)
  BY <1>1, <1>3, <1>4, MoveStep
<1>. QED
  BY <1>1, <1>5, Zenon DEF k, b

\* The bootstrap command succeeded in the VM, or not.
LEMMA RunStep ==
  ASSUME TypeOK, Flows, NEW p \in Jobs, RunBootstrap(p)
  PROVE  \E ok \in BOOLEAN :
           /\ LET k == [job[p] EXCEPT !.todo = Tail(job[p].todo), !.ok = ok]
              IN Becomes(p, k) /\ Now(k) = After(job[p]) /\ After(k) = Third(job[p])
           /\ ok => box # NoBox /\ box' = [box EXCEPT !.done = <<box.guest, box.files>>]
           /\ ~ok => box' = box
           /\ faults' \in {faults, faults + 1}
<1>. DEFINE j == job[p]
            K(ok) == [j EXCEPT !.todo = Tail(j.todo), !.ok = ok]
<1>1. /\ At(p, "run")
      /\ \E ok \in BOOLEAN :
           /\ IF ok \/ ~InGuest(p) THEN ok = InGuest(p) /\ faults' = faults ELSE Fault("fail")
           /\ job' = [job EXCEPT ![p] = K(ok)]
           /\ box' = IF ok THEN [box EXCEPT !.done = <<box.guest, box.files>>] ELSE box
  BY Zenon DEF RunBootstrap
<1>2. PICK ok \in BOOLEAN :
        /\ IF ok \/ ~InGuest(p) THEN ok = InGuest(p) /\ faults' = faults ELSE Fault("fail")
        /\ job' = [job EXCEPT ![p] = K(ok)]
        /\ box' = IF ok THEN [box EXCEPT !.done = <<box.guest, box.files>>] ELSE box
  BY <1>1
<1>3. j \in Works /\ Tail(j.todo) \in Seq(Steps)
  BY <1>1, AtStep
<1>. DEFINE k == K(ok)
<1>4. /\ k \in Works /\ k.todo = Tail(j.todo) /\ k.cmd = j.cmd /\ k.halt = j.halt /\ k.held = j.held
      /\ k.was = j.was /\ k.heard = j.heard
  BY <1>3 DEF Works
<1>5. job' = [job EXCEPT ![p] = k]
  BY <1>2
<1>. HIDE DEF k
<1>6. Becomes(p, k) /\ Now(k) = After(j) /\ After(k) = Third(j)
  BY <1>1, <1>4, <1>5, MoveStep
<1>7. ok => box # NoBox
  BY <1>2 DEF InGuest
<1>8. faults' \in {faults, faults + 1}
  BY <1>2 DEF Fault
<1>. QED
  BY <1>2, <1>6, <1>7, <1>8 DEF k

\* A command whose `todo` is replaced by another path.
LEMMA TurnStep ==
  ASSUME TypeOK, Flows, NEW p \in Jobs, NEW s, At(p, s), NEW k \in Works,
         s \notin {"find", "diff"}, Walk(k.cmd, k.todo), k.cmd = job[p].cmd,
         Now(k) \notin {"find", "diff", "remove", "retire", "fresh", "modify", "update"},
         k.was => k.cmd \in Remodels \/ Now(k) \in {"restage", "note", "open", "run", "enforce", "record", "end"},
         k.halt => job[p].halt, k.cmd \in Creating => k.held = job[p].held /\ k.was = job[p].was,
         job' = [job EXCEPT ![p] = k]
  PROVE  Becomes(p, k)
<1>1. Flow(job[p])
  BY AtStep
<1>2. Flow(k)
  BY <1>1 DEF Flow
<1>. QED
  BY <1>2 DEF Becomes

\* `up` ends there if the record says bootstrapped, or goes on to bootstrap.
LEMMA CheckStep ==
  ASSUME TypeOK, Flows, NEW p \in Jobs, Check(p)
  PROVE  LET k == job'[p]
         IN /\ Becomes(p, k)
            /\ k = [job[p] EXCEPT !.todo = k.todo]
            /\ \/ Now(k) = "end" /\ state # NoRecord /\ state.boot
               \/ Now(k) = "open"
<1>. DEFINE j == job[p]
            boot == state # NoRecord /\ state.boot
            t == Tail(j.todo)
            todo == (IF boot THEN <<>> ELSE Bootstrapping) \o t
            k == [j EXCEPT !.todo = todo]
<1>1. At(p, "check") /\ job' = [job EXCEPT ![p] = k]
  BY Zenon DEF Check, Then
<1>2. j \in Works /\ Leads(j.cmd, "check", After(j)) /\ Walk(j.cmd, t) /\ Nth(t, 1) = After(j)
  BY <1>1, AtStep
<1>. HIDE DEF j, t
<1>3. Nth(t, 1) = "end" /\ j.cmd \in MayStart
  <2>1. Nth(t, 1) = "end" /\ j.cmd \in Creating
    BY <1>2 DEF Leads
  <2>. QED
    BY <2>1, CmdSets
<1>4. t = <<>> /\ <<>> \o t = t /\ Walk(j.cmd, Bootstrapping \o t) /\ Nth(Bootstrapping \o t, 1) = "open"
  BY <1>2, <1>3, BeforeWalks, Zenon
<1>5. Walk(j.cmd, todo) /\ (IF boot THEN Nth(todo, 1) = "end" ELSE Nth(todo, 1) = "open")
  BY <1>2, <1>3, <1>4, Zenon
<1>6. todo \in Seq(Steps)
  BY <1>5 DEF Walk, Path
<1>. HIDE DEF todo
<1>7. /\ k \in Works /\ k.todo = todo /\ k.cmd = j.cmd /\ k.halt = j.halt /\ k.held = j.held
      /\ k.was = j.was
  BY <1>2, <1>6 DEF Works
<1>8. k = [j EXCEPT !.todo = k.todo]
  BY <1>7
<1>. HIDE DEF k
<1>9. Now(k) = Nth(todo, 1)
  BY <1>7 DEF Now
<1>10. IF boot THEN Now(k) = "end" ELSE Now(k) = "open"
  BY <1>5, <1>9, Zenon
<1>11. Now(k) \notin {"find", "diff", "remove", "retire", "fresh", "modify", "update"}
  BY <1>10
<1>12. Becomes(p, k)
  <2>1. "check" \notin {"find", "diff"} /\ At(p, "check") /\ job' = [job EXCEPT ![p] = k]
    BY <1>1
  <2>2. Walk(k.cmd, k.todo)
    BY <1>5, <1>7, Zenon
  <2>3. Now(k) \in {"restage", "note", "open", "run", "enforce", "record", "end"}
    BY <1>10
  <2>. QED
    BY <1>7, <1>11, <2>1, <2>2, <2>3, TurnStep, Zenon DEF j
<1>13. job'[p] = k
  BY <1>12, BecomesFlows
<1>. QED
  BY <1>8, <1>10, <1>12, <1>13, Zenon DEF j, boot

\* `bootstrap` stages again, unless nothing is or was staged.
LEMMA ReplanStep ==
  ASSUME TypeOK, Flows, NEW p \in Jobs, Replan(p)
  PROVE  LET k == job'[p]
             nothing == kitchen.text.roots = {} /\ (state # NoRecord => DOMAIN state.staged = {})
         IN /\ Becomes(p, k)
            /\ k = [job[p] EXCEPT !.plan = kitchen, !.held = state, !.was = trust, !.todo = k.todo]
            /\ k.cmd = "bootstrap" /\ trust' = (trust /\ nothing)
            /\ IF nothing THEN Now(k) = "open" ELSE Now(k) = "restage"
<1>. DEFINE j == job[p]
            nothing == kitchen.text.roots = {} /\ (state # NoRecord => DOMAIN state.staged = {})
            t == Tail(j.todo)
            todo == IF nothing THEN Tail(Tail(t)) ELSE t
            k == [j EXCEPT !.plan = kitchen, !.held = state, !.was = trust, !.todo = todo]
<1>1. At(p, "plan") /\ job' = [job EXCEPT ![p] = k] /\ trust' = (trust /\ nothing)
  BY Zenon DEF Replan
<1>2. j \in Works /\ Leads(j.cmd, "plan", After(j)) /\ Walk(j.cmd, t) /\ Nth(t, 1) = After(j)
  BY <1>1, AtStep
<1>. HIDE DEF j, t
<1>3. Nth(t, 1) = "restage" /\ j.cmd = "bootstrap"
  BY <1>2 DEF Leads
<1>4. /\ Walk(j.cmd, t) /\ Walk(j.cmd, Tail(Tail(t)))
      /\ Nth(Tail(Tail(t)), 1) = "open"
  <2>1. t # <<>>
    BY <1>3, NothingLeft
  <2>2. Walk(j.cmd, Tail(t)) /\ Nth(Tail(t), 1) = Nth(t, 2) /\ Leads(j.cmd, "restage", Nth(t, 2))
    BY <1>2, <1>3, <2>1, WalkOn
  <2>3. Nth(Tail(t), 1) = "note"
    BY <2>2 DEF Leads
  <2>. DEFINE u == Tail(t)
  <2>4. u # <<>> /\ Nth(u, 1) = "note" /\ Walk(j.cmd, u)
    BY <2>2, <2>3, NothingLeft
  <2>. HIDE DEF u
  <2>5. Walk(j.cmd, Tail(u)) /\ Nth(Tail(u), 1) = Nth(u, 2) /\ Leads(j.cmd, "note", Nth(u, 2))
    BY <2>4, WalkOn
  <2>6. Nth(Tail(u), 1) = "open"
    BY <2>5 DEF Leads
  <2>. QED
    BY <1>2, <2>5, <2>6, Zenon DEF u
<1>. HIDE DEF nothing
<1>5. Walk(j.cmd, todo) /\ (IF nothing THEN Nth(todo, 1) = "open" ELSE Nth(todo, 1) = "restage")
  BY <1>3, <1>4, Zenon
<1>6. todo \in Seq(Steps)
  BY <1>5 DEF Walk, Path
<1>. HIDE DEF todo
<1>7. kitchen \in Projects /\ state \in Records \cup {NoRecord} /\ trust \in BOOLEAN
  BY DEF TypeOK
<1>8. /\ k \in Works /\ k.todo = todo /\ k.cmd = j.cmd /\ k.halt = j.halt
  BY <1>2, <1>6, <1>7 DEF Works
<1>9. k = [j EXCEPT !.plan = kitchen, !.held = state, !.was = trust, !.todo = k.todo]
  BY <1>8
<1>. HIDE DEF k
<1>10. Now(k) = Nth(todo, 1)
  BY <1>8 DEF Now
<1>11. IF nothing THEN Now(k) = "open" ELSE Now(k) = "restage"
  BY <1>5, <1>10, Zenon
<1>12. Now(k) \notin {"find", "diff", "remove", "retire", "fresh", "modify", "update"}
  BY <1>11
<1>13. Becomes(p, k)
  <2>1. "plan" \notin {"find", "diff"} /\ At(p, "plan") /\ job' = [job EXCEPT ![p] = k]
    BY <1>1
  <2>2. Walk(k.cmd, k.todo)
    BY <1>5, <1>8, Zenon
  <2>3. "bootstrap" \notin Creating
    BY Zenon DEF Creating
  <2>4. k.cmd \notin Creating
    BY <1>3, <1>8, <2>3, Zenon
  <2>5. Now(k) \in {"restage", "note", "open", "run", "enforce", "record", "end"}
    BY <1>11
  <2>. QED
    BY <1>8, <1>12, <2>1, <2>2, <2>4, <2>5, TurnStep, Zenon DEF j
<1>14. job'[p] = k
  BY <1>13, BecomesFlows
<1>. QED
  BY <1>1, <1>3, <1>8, <1>9, <1>11, <1>13, <1>14, Zenon DEF j, nothing

\* What differs, as `remodel` finds it.
Nothing(plan) == ~GuestChanged(plan, state) /\ SdkGroups(plan) = {} /\ Config(plan) = state.applied

\* `remodel` has nothing to do, has something to change, or recreates.
LEMMA DiffStep ==
  ASSUME TypeOK, Flows, NEW p \in Jobs, Diff(p)
  PROVE  LET j == job[p]
             k == job'[p]
         IN \/ Fail(p) /\ trust' = trust
            \/ /\ Becomes(p, k) /\ Now(k) = "find" /\ After(k) = "end" /\ k.cmd = "recreate"
               /\ k = [j EXCEPT !.cmd = k.cmd, !.plan = kitchen, !.todo = k.todo]
               /\ trust' = trust /\ j.cmd \in Remodels
            \/ /\ state # NoRecord /\ box # NoBox /\ j.cmd \in Remodels
               /\ Becomes(p, k)
               /\ k = [j EXCEPT !.held = state, !.was = trust, !.groups = SdkGroups(j.plan), !.todo = k.todo]
               /\ trust' = (trust /\ Nothing(j.plan))
               /\ \/ Now(k) = "end"
                  \/ /\ Now(k) = "modify" /\ After(k) = "update" /\ ~Nothing(j.plan)
                     /\ Third(k) = "end" <=> ~GuestChanged(j.plan, state)
<1>. DEFINE j == job[p]
            inGuest == GuestChanged(j.plan, state)
            groups == SdkGroups(j.plan)
            nothing == Nothing(j.plan)
            todo == IF nothing THEN <<>>
                    ELSE <<"modify", "update">> \o (IF inGuest THEN GuestPart(j.on) ELSE <<>>)
            again == [j EXCEPT !.cmd = "recreate", !.plan = kitchen, !.todo = <<"find">>]
            k == [j EXCEPT !.held = state, !.was = trust, !.groups = groups, !.todo = todo]
<1>1. /\ At(p, "diff")
      /\ \/ Fail(p) /\ trust' = trust
         \/ job' = [job EXCEPT ![p] = again] /\ trust' = trust
         \/ /\ state # NoRecord /\ box # NoBox
            /\ job' = [job EXCEPT ![p] = k] /\ trust' = (trust /\ nothing)
  BY Zenon DEF Diff, Nothing
<1>2. /\ j \in Works /\ Flow(j) /\ Now(j) = "diff"
      /\ kitchen \in Projects /\ state \in Records \cup {NoRecord} /\ trust \in BOOLEAN
  BY <1>1, AtStep DEF TypeOK
<1>3. j.cmd \in Remodels /\ ~j.halt /\ ~j.heard /\ j.held = NoRecord /\ ~j.was
  BY <1>2 DEF Flow
<1>4. CASE job' = [job EXCEPT ![p] = again] /\ trust' = trust
  <2>1. Walk("recreate", <<"find">>) /\ Nth(<<"find">>, 1) = "find" /\ Nth(<<"find">>, 2) = "end"
    <3>1. Part("recreate", <<"find">>, "find", "end")
      BY SmallParts, Zenon
    <3>2. Walk("recreate", <<"find">>)
      BY <3>1, PartWalks
    <3>. QED
      BY <3>2 DEF Nth
  <2>2. <<"find">> \in Seq(Steps)
    BY <2>1 DEF Walk, Path
  <2>3. /\ again \in Works /\ again.todo = <<"find">> /\ again.cmd = "recreate" /\ again.halt = j.halt
        /\ again.held = j.held /\ again.was = j.was /\ again.heard = j.heard
    BY <1>2, <2>2 DEF Works
  <2>4. again = [j EXCEPT !.cmd = again.cmd, !.plan = kitchen, !.todo = again.todo]
    BY <2>3
  <2>. HIDE DEF again, j
  <2>5. Now(again) = "find" /\ After(again) = "end"
    BY <2>1, <2>3 DEF Now, After
  <2>6. Flow(again)
    BY <1>3, <2>1, <2>3, <2>5 DEF Flow
  <2>7. Becomes(p, again)
    BY <1>4, <2>3, <2>6 DEF Becomes
  <2>8. job'[p] = again
    BY <2>7, BecomesFlows
  <2>. QED
    BY <1>3, <1>4, <2>3, <2>4, <2>5, <2>7, <2>8, Zenon DEF j
<1>5. CASE /\ state # NoRecord /\ box # NoBox
           /\ job' = [job EXCEPT ![p] = k] /\ trust' = (trust /\ nothing)
  <2>1. inGuest \in BOOLEAN /\ j.on \in BOOLEAN /\ groups \in SUBSET {"res", "env"}
    BY <1>2 DEF GuestChanged, UserPending, SdkGroups, Works
  <2>. HIDE DEF inGuest, groups, nothing, j
  <2>2. /\ Walk(j.cmd, todo)
        /\ \/ Nth(todo, 1) = "end"
           \/ /\ ~nothing /\ Nth(todo, 1) = "modify" /\ Nth(todo, 2) = "update"
              /\ Nth(todo, 3) = "end" <=> ~inGuest
    <3>1. CASE nothing
      BY <3>1, NothingLeft DEF Walk
    <3>2. CASE ~nothing
      <4>1. todo = <<"modify", "update">> \o (IF inGuest THEN GuestPart(j.on) ELSE <<>>)
        BY <3>2, Zenon
      <4>. QED
        BY <1>3, <2>1, <3>2, <4>1, DiffWalks, Zenon
    <3>. QED
      BY <3>1, <3>2
  <2>3. todo \in Seq(Steps)
    BY <2>2 DEF Walk, Path
  <2>. HIDE DEF todo
  <2>4. /\ k \in Works /\ k.todo = todo /\ k.cmd = j.cmd /\ k.halt = j.halt /\ k.heard = j.heard
        /\ k.held = state
    BY <1>2, <2>1, <2>3 DEF Works
  <2>5. k = [j EXCEPT !.held = state, !.was = trust, !.groups = groups, !.todo = k.todo]
    BY <2>4
  <2>. HIDE DEF k
  <2>6. Now(k) = Nth(todo, 1) /\ After(k) = Nth(todo, 2) /\ Third(k) = Nth(todo, 3)
    BY <2>4 DEF Now, After, Third
  <2>7. \/ Now(k) = "end"
        \/ /\ Now(k) = "modify" /\ After(k) = "update" /\ ~nothing
           /\ Third(k) = "end" <=> ~inGuest
    BY <2>2, <2>6, Zenon
  <2>8. Now(k) \notin {"find", "diff", "remove", "retire", "fresh"} /\ k.cmd \notin Creating
    <3>1. Now(k) = "end" \/ Now(k) = "modify"
      BY <2>7, Zenon
    <3>2. Now(k) \notin {"find", "diff", "remove", "retire", "fresh"}
      BY <3>1
    <3>3. k.cmd \in Remodels
      BY <1>3, <2>4
    <3>. QED
      BY <3>2, <3>3, CmdSets, Zenon
  <2>9. Flow(k)
    <3>1. Walk(k.cmd, k.todo)
      BY <2>2, <2>4
    <3>. QED
      BY <1>3, <1>5, <2>4, <2>8, <3>1 DEF Flow
  <2>10. Becomes(p, k)
    BY <1>5, <2>4, <2>9, Zenon DEF Becomes
  <2>11. job'[p] = k
    BY <2>10, BecomesFlows
  <2>. QED
    BY <1>3, <1>5, <2>5, <2>7, <2>10, <2>11, Zenon DEF j, inGuest, groups, nothing
<1>. QED
  BY <1>1, <1>4, <1>5

\* A command that is over is no job.
LEMMA OverStep ==
  ASSUME TypeOK, Flows, NEW p \in Jobs, job' = [job EXCEPT ![p] = NoJob]
  PROVE  /\ job' \in [Jobs -> Works \cup {NoJob}] /\ Flows'
         /\ job'[p] = NoJob
<1>1. job \in [Jobs -> Works \cup {NoJob}]
  BY DEF TypeOK
<1>2. \A q \in Jobs : job'[q] = IF q = p THEN NoJob ELSE job[q]
  BY <1>1
<1>3. Flows'
  <2>. SUFFICES ASSUME NEW q \in Jobs, job'[q] # NoJob PROVE Flow(job'[q])
    BY DEF Flows
  <2>. QED
    BY <1>2 DEF Flows
<1>. QED
  BY <1>1, <1>2, <1>3

-----------------------------------------------------------------------------
(* Types of what a plan, a record and the VM are made of.                  *)

\* What a plan configures and stages has the types of a record.
LEMMA PlanType ==
  ASSUME NEW plan \in Projects
  PROVE  /\ plan.text \in Kitchens /\ plan.text.guest \in Guests /\ Config(plan) \in Applied
         /\ Stage(plan) \in Trees /\ DOMAIN Stage(plan) = plan.text.roots
<1>1. plan.text \in Kitchens /\ plan.content \in Contents
  BY DEF Projects
<1>2. plan.text.guest \in Guests /\ Config(plan) \in Applied
  BY <1>1 DEF Config, Applied, Guests
<1>3. Stage(plan) \in Trees /\ DOMAIN Stage(plan) = plan.text.roots
  <2>1. Stage(plan) \in [plan.text.roots -> Contents]
    BY <1>1 DEF Stage
  <2>2. plan.text.roots \in SUBSET (UNION {k.roots : k \in Kitchens})
    BY <1>1
  <2>. QED
    BY <2>1, <2>2 DEF Trees
<1>. QED
  BY <1>1, <1>2, <1>3

\* Files written over files are files again.
LEMMA TreeTypes ==
  /\ <<>> \in Trees /\ DOMAIN <<>> = {}
  /\ \A stale : \A files, stage \in Trees : Restaged(files, stage, stale) \in Trees
<1>1. <<>> \in Trees /\ DOMAIN <<>> = {}
  <2>1. <<>> = [r \in {} |-> r]
    OBVIOUS
  <2>2. [r \in {} |-> r] \in [{} -> Contents]
    OBVIOUS
  <2>. QED
    BY <2>1, <2>2 DEF Trees
<1>2. ASSUME NEW files \in Trees, NEW stage \in Trees, NEW stale
      PROVE  Restaged(files, stage, stale) \in Trees
  <2>. DEFINE all == UNION {k.roots : k \in Kitchens}
  <2>1. PICK a \in SUBSET all : files \in [a -> Contents]
    BY DEF Trees
  <2>2. PICK b \in SUBSET all : stage \in [b -> Contents]
    BY DEF Trees
  <2>. DEFINE c == (a \ stale) \cup b
  <2>. HIDE DEF all
  <2>3. Restaged(files, stage, stale) \in [c -> Contents] /\ c \in SUBSET all
    BY <2>1, <2>2 DEF Restaged
  <2>. QED
    BY <2>3 DEF Trees, all
<1>. QED
  BY <1>1, <1>2

\* Everything a command carries has its type.
LEMMA JobType ==
  ASSUME NEW j \in Works
  PROVE  /\ j.cmd \in Commands \cup {"recreate"} /\ j.todo \in Seq(Steps) /\ j.pass \in Nat
         /\ j.plan \in Projects /\ j.on \in BOOLEAN /\ j.held \in Records \cup {NoRecord}
         /\ j.mode \in Modes /\ j.port \in Endpoints /\ j.ok \in BOOLEAN /\ j.halt \in BOOLEAN
         /\ j.heard \in BOOLEAN /\ j.was \in BOOLEAN /\ j.groups \in SUBSET {"res", "env"}
  BY DEF Works

\* A VM that is changed at its files, its guest or its power is a VM.
LEMMA BoxType ==
  ASSUME NEW b \in Boxes
  PROVE  /\ \A on \in BOOLEAN : [b EXCEPT !.on = on] \in Boxes
         /\ \A pass \in Nat : [b EXCEPT !.on = TRUE, !.pass = pass] \in Boxes
         /\ \A guest \in Guests : [b EXCEPT !.guest = guest] \in Boxes
         /\ \A files \in Trees : [b EXCEPT !.files = files] \in Boxes
         /\ [b EXCEPT !.done = <<b.guest, b.files>>] \in Boxes
         /\ \A k \in Kitchens : \A res \in {b.res, k.res}, env \in {b.env, k.env} :
              [b EXCEPT !.res = res, !.env = env] \in Boxes
<1>1. \A on \in BOOLEAN : [b EXCEPT !.on = on] \in Boxes
  BY DEF Boxes
<1>2. \A pass \in Nat : [b EXCEPT !.on = TRUE, !.pass = pass] \in Boxes
  BY DEF Boxes
<1>3. \A guest \in Guests : [b EXCEPT !.guest = guest] \in Boxes
  BY DEF Boxes
<1>4. \A files \in Trees : [b EXCEPT !.files = files] \in Boxes
  BY DEF Boxes
<1>5. [b EXCEPT !.done = <<b.guest, b.files>>] \in Boxes
  BY DEF Boxes
<1>6. ASSUME NEW k \in Kitchens, NEW res \in {b.res, k.res}, NEW env \in {b.env, k.env}
      PROVE  [b EXCEPT !.res = res, !.env = env] \in Boxes
  BY DEF Boxes
<1>. QED
  BY <1>1, <1>2, <1>3, <1>4, <1>5, <1>6

-----------------------------------------------------------------------------
(* Every step keeps the types and the paths.                               *)

JobsOK == job \in [Jobs -> Works \cup {NoJob}] /\ Flows

\* A step that goes on or fails keeps the jobs' types.
LEMMA GoneOn ==
  ASSUME TypeOK, Flows, NEW p \in Jobs, NEW s, At(p, s), Go(p) \/ Fail(p)
  PROVE  JobsOK'
<1>1. CASE Go(p)
  BY <1>1, GoStep, BecomesFlows DEF JobsOK
<1>2. CASE Fail(p)
  BY <1>2, FailStep, BecomesFlows DEF JobsOK
<1>. QED
  BY <1>1, <1>2

\* The steps that change nothing but the command itself and the broker.
LEMMA BrokerSteps ==
  ASSUME TypeOK, Flows, NEW p \in Jobs,
         \/ Find(p) \/ Refresh(p) \/ Connect(p) \/ Fresh(p) \/ Register(p) \/ Retire(p)
         \/ SetMode(p, "open", "open") \/ SetMode(p, "enforce", "enforce") \/ Docker(p) \/ Check(p)
  PROVE  JobsOK' /\ serving' \in BOOLEAN /\ reg' \in Regs \cup {NoReg} /\ UNCHANGED <<disk, box>>
<1>. USE DEF JobsOK
<1>0. serving \in BOOLEAN /\ reg \in Regs \cup {NoReg}
  BY DEF TypeOK
<1>1. CASE Find(p)
  <2>1. JobsOK'
    <3>1. CASE Fail(p)
      BY <1>1, <3>1, GoneOn DEF Find
    <3>2. CASE ~Fail(p)
      BY <1>1, <3>2, FindStep, BecomesFlows
    <3>. QED
      BY <3>1, <3>2
  <2>. QED
    BY <1>0, <1>1, <2>1 DEF Find
<1>2. CASE Refresh(p)
  <2>1. JobsOK'
    <3>1. CASE Fail(p)
      BY <1>2, <3>1, GoneOn DEF Refresh
    <3>2. CASE ~Fail(p)
      BY <1>2, <3>2, RefreshStep, BecomesFlows, ZenonT(60)
    <3>. QED
      BY <3>1, <3>2
  <2>. QED
    BY <1>0, <1>2, <2>1 DEF Refresh
<1>3. CASE Connect(p)
  BY <1>0, <1>3, ConnectStep, BecomesFlows, Zenon DEF Connect
<1>4. CASE Fresh(p)
  BY <1>0, <1>4, FreshStep, BecomesFlows, Zenon DEF Fresh
<1>5. CASE Register(p)
  <2>1. serving' \in BOOLEAN /\ UNCHANGED <<disk, box>>
    BY <1>5 DEF Register
  <2>2. CASE secret = 0 /\ Fail(p) /\ reg' = NoReg
    <3>1. At(p, "register")
      BY <1>5 DEF Register
    <3>. QED
      BY <2>1, <2>2, <3>1, GoneOn
  <2>3. CASE ~(secret = 0 /\ Fail(p) /\ reg' = NoReg)
    <3>1. PICK k : Becomes(p, k) /\ reg' \in Regs
      BY <1>5, <2>3, RegisterStep, Zenon
    <3>. QED
      BY <2>1, <3>1, BecomesFlows
  <2>. QED
    BY <2>2, <2>3
<1>6. CASE Retire(p)
  <2>1. At(p, "retire") /\ Go(p) /\ serving' = serving /\ reg' \in {reg, NoReg} /\ UNCHANGED <<disk, box>>
    BY <1>6 DEF Retire
  <2>. QED
    BY <1>0, <2>1, GoneOn
<1>7. ASSUME NEW s \in {"open", "enforce"}, NEW mode \in Modes, SetMode(p, s, mode)
      PROVE  JobsOK' /\ serving' \in BOOLEAN /\ reg' \in Regs \cup {NoReg} /\ UNCHANGED <<disk, box>>
  <2>1. serving' = serving /\ UNCHANGED <<disk, box>>
    BY <1>7 DEF SetMode
  <2>2. PICK k : Becomes(p, k) /\ reg' \in Regs \cup {NoReg}
    BY <1>7, SetModeStep, Zenon
  <2>. QED
    BY <1>0, <2>1, <2>2, BecomesFlows
<1>8. CASE Docker(p)
  <2>1. At(p, "docker") /\ (Go(p) \/ Fail(p)) /\ UNCHANGED <<serving, reg>> /\ UNCHANGED <<disk, box>>
    BY <1>8 DEF Docker
  <2>. QED
    BY <1>0, <2>1, GoneOn
<1>9. CASE Check(p)
  BY <1>0, <1>9, CheckStep, BecomesFlows DEF Check
<1>10. CASE SetMode(p, "open", "open") \/ SetMode(p, "enforce", "enforce")
  <2>1. "open" \in Modes /\ "enforce" \in Modes
    BY DEF Modes
  <2>. QED
    BY <1>7, <1>10, <2>1
<1>. QED
  BY <1>1, <1>2, <1>3, <1>4, <1>5, <1>6, <1>8, <1>9, <1>10

\* The steps that change the VM.
LEMMA BoxSteps ==
  ASSUME TypeOK, Flows, NEW p \in Jobs,
         \/ Create(p) \/ Boot(p) \/ Stop(p) \/ Remove(p) \/ WriteGuest(p) \/ StageFiles(p)
         \/ RunBootstrap(p) \/ Modify(p)
  PROVE  JobsOK' /\ box' \in Boxes \cup {NoBox} /\ faults' \in Nat /\ UNCHANGED <<kitchen, state, secret, serving, reg>>
         /\ trust' \in BOOLEAN
<1>. USE DEF JobsOK
<1>0. box \in Boxes \cup {NoBox} /\ faults \in Nat /\ trust \in BOOLEAN
  BY DEF TypeOK
<1>j. \A s : At(p, s) => job[p] \in Works
  BY AtStep
<1>1. CASE Create(p)
  <2>1. At(p, "create") /\ (Go(p) \/ Fail(p)) /\ UNCHANGED <<kitchen, state, secret, serving, reg>> /\ faults' = faults
    BY <1>1 DEF Create, disk
  <2>2. /\ trust' \in {trust, FALSE}
        /\ LET text == job[p].plan.text
           IN box' \in {box, [on |-> TRUE, res |-> text.res, env |-> text.env, fixed |-> text.fixed,
                              user |-> text.user, port |-> job[p].port, pass |-> job[p].pass,
                              guest |-> "none", files |-> <<>>, done |-> "never"]}
    BY <1>1 DEF Create
  <2>3. job[p].plan.text \in Kitchens /\ job[p].port \in Endpoints /\ job[p].pass \in Nat /\ <<>> \in Trees
    BY <1>j, <2>1, JobType, PlanType, TreeTypes
  <2>4. box' \in Boxes \cup {NoBox}
    <3>. DEFINE text == job[p].plan.text
                new == [on |-> TRUE, res |-> text.res, env |-> text.env, fixed |-> text.fixed,
                        user |-> text.user, port |-> job[p].port, pass |-> job[p].pass,
                        guest |-> "none", files |-> <<>>, done |-> "never"]
    <3>1. new \in Boxes
      BY <2>3 DEF Boxes
    <3>2. box' = box \/ box' = new
      BY <2>2
    <3>. QED
      BY <1>0, <3>1, <3>2
  <2>. QED
    BY <1>0, <2>1, <2>2, <2>4, GoneOn
<1>2. CASE Boot(p)
  <2>1. At(p, "boot") /\ UNCHANGED <<kitchen, state, secret, serving, reg, trust>> /\ faults' = faults
    BY <1>2 DEF Boot, disk
  <2>2. CASE Fail(p) /\ box' = box
    BY <1>0, <2>1, <2>2, GoneOn
  <2>3. CASE ~(Fail(p) /\ box' = box)
    <3>1. job[p].pass \in Nat
      BY <1>j, <2>1, JobType
    <3>2. PICK k : /\ Becomes(p, k) /\ box # NoBox
                   /\ box' = box \/ box' = [box EXCEPT !.on = TRUE, !.pass = job[p].pass]
      BY <1>2, <2>3, BootStep, Zenon
    <3>3. box' \in Boxes
      BY <1>0, <3>1, <3>2, BoxType
    <3>. QED
      BY <1>0, <2>1, <3>2, <3>3, BecomesFlows
  <2>. QED
    BY <2>2, <2>3
<1>3. CASE Stop(p)
  <2>1. /\ At(p, "stop") /\ (Go(p) \/ Fail(p)) /\ UNCHANGED <<kitchen, state, secret, serving, reg, trust>> /\ faults' = faults
        /\ box' = box \/ (box # NoBox /\ box' = [box EXCEPT !.on = FALSE])
    BY <1>3 DEF Stop, disk
  <2>2. box' \in Boxes \cup {NoBox}
    BY <1>0, <2>1, BoxType
  <2>. QED
    BY <1>0, <2>1, <2>2, GoneOn
<1>4. CASE Remove(p)
  <2>1. /\ At(p, "remove") /\ (Go(p) \/ Fail(p)) /\ UNCHANGED <<kitchen, state, secret, serving, reg, trust>> /\ faults' = faults
        /\ box' = NoBox
    BY <1>4 DEF Remove, disk
  <2>. QED
    BY <1>0, <2>1, GoneOn
<1>5. CASE WriteGuest(p)
  <2>1. /\ At(p, "guest") /\ (Go(p) \/ Fail(p)) /\ UNCHANGED <<kitchen, state, secret, serving, reg, trust>> /\ faults' = faults
        /\ box' = box \/ (box # NoBox /\ box' = [box EXCEPT !.guest = job[p].plan.text.guest])
    BY <1>5 DEF WriteGuest, InGuest, disk
  <2>2. job[p].plan.text.guest \in Guests
    BY <1>j, <2>1, JobType, PlanType
  <2>3. box' \in Boxes \cup {NoBox}
    BY <1>0, <2>1, <2>2, BoxType
  <2>. QED
    BY <1>0, <2>1, <2>3, GoneOn
<1>6. CASE StageFiles(p)
  <2>1. /\ At(p, "stage") \/ At(p, "restage")
        /\ Go(p) \/ Fail(p)
        /\ UNCHANGED <<kitchen, state, secret, serving, reg, trust>> /\ faults' = faults
    BY <1>6 DEF StageFiles, disk
  <2>2. box' = box \/ (box # NoBox /\ box' = [box EXCEPT !.files = Restaged(box.files, Stage(job[p].plan), StaleRoots(p))])
    BY <1>6, Zenon DEF StageFiles, InGuest
  <2>3. Stage(job[p].plan) \in Trees
    BY <1>j, <2>1, JobType, PlanType
  <2>4. box # NoBox => Restaged(box.files, Stage(job[p].plan), StaleRoots(p)) \in Trees
    <3>1. box # NoBox => box.files \in Trees
      BY <1>0 DEF Boxes
    <3>. QED
      BY <2>3, <3>1, TreeTypes
  <2>5. box' \in Boxes \cup {NoBox}
    BY <1>0, <2>2, <2>4, BoxType, ZenonT(60)
  <2>. QED
    BY <1>0, <2>1, <2>5, GoneOn
<1>7. CASE RunBootstrap(p)
  <2>1. UNCHANGED <<kitchen, state, secret, serving, reg, trust>>
    BY <1>7 DEF RunBootstrap
  <2>2. PICK ok, k :
          /\ ok \in BOOLEAN /\ Becomes(p, k) /\ faults' \in {faults, faults + 1}
          /\ ok => box # NoBox /\ box' = [box EXCEPT !.done = <<box.guest, box.files>>]
          /\ ~ok => box' = box
    BY <1>7, RunStep, Zenon
  <2>3. box' \in Boxes \cup {NoBox}
    BY <1>0, <2>2, BoxType
  <2>4. faults' \in Nat
    BY <1>0, <2>2
  <2>. QED
    BY <1>0, <2>1, <2>2, <2>3, <2>4, BecomesFlows
<1>8. CASE Modify(p)
  <2>1. /\ At(p, "modify") /\ (Go(p) \/ Fail(p)) /\ UNCHANGED <<kitchen, state, secret, serving, reg, trust>>
        /\ faults' = faults \/ faults' = faults + 1
    BY <1>8 DEF Modify, Fault
  <2>2. \/ box' = box
        \/ box # NoBox /\ \E done \in SUBSET job[p].groups :
             box' = [box EXCEPT !.res = IF "res" \in done THEN job[p].plan.text.res ELSE box.res,
                                !.env = IF "env" \in done THEN job[p].plan.text.env ELSE box.env]
    BY <1>8, Zenon DEF Modify
  <2>3. job[p].plan.text \in Kitchens
    BY <1>j, <2>1, JobType, PlanType
  <2>4. box' \in Boxes \cup {NoBox}
    <3>1. CASE box' = box
      BY <1>0, <3>1
    <3>2. ASSUME box # NoBox, NEW done,
                 box' = [box EXCEPT !.res = IF "res" \in done THEN job[p].plan.text.res ELSE box.res,
                                    !.env = IF "env" \in done THEN job[p].plan.text.env ELSE box.env]
          PROVE  box' \in Boxes
      <4>. DEFINE res == IF "res" \in done THEN job[p].plan.text.res ELSE box.res
                  env == IF "env" \in done THEN job[p].plan.text.env ELSE box.env
      <4>1. /\ res = box.res \/ res = job[p].plan.text.res
            /\ env = box.env \/ env = job[p].plan.text.env
        OBVIOUS
      <4>2. box' = [box EXCEPT !.res = res, !.env = env]
        BY <3>2
      <4>. DEFINE text == job[p].plan.text
      <4>3. box \in Boxes /\ text \in Kitchens /\ res \in {box.res, text.res} /\ env \in {box.env, text.env}
        BY <1>0, <2>3, <3>2, <4>1, Zenon
      <4>. HIDE DEF res, env, text
      <4>4. [box EXCEPT !.res = res, !.env = env] \in Boxes
        BY <4>3, BoxType, Zenon
      <4>. QED
        BY <4>2, <4>4, Zenon
    <3>. QED
      BY <2>2, <3>1, <3>2
  <2>5. faults' \in Nat
    BY <1>0, <2>1
  <2>. QED
    BY <1>0, <2>1, <2>4, <2>5, GoneOn
<1>. QED
  BY <1>1, <1>2, <1>3, <1>4, <1>5, <1>6, <1>7, <1>8

\* What a change of resources and environment leaves alone.
LEMMA ModifiedBox ==
  ASSUME NEW b \in Boxes, NEW res, NEW env
  PROVE  LET c == [b EXCEPT !.res = res, !.env = env]
         IN /\ c.res = res /\ c.env = env /\ c.on = b.on /\ c.fixed = b.fixed /\ c.user = b.user
            /\ c.port = b.port /\ c.pass = b.pass /\ c.guest = b.guest /\ c.files = b.files /\ c.done = b.done
  BY DEF Boxes

\* The configuration of the VM changes at the groups that were asked for.
LEMMA ModifyStep ==
  ASSUME TypeOK, NEW p \in Jobs, Modify(p)
  PROVE  /\ At(p, "modify")
         /\ \/ Fail(p) /\ box' = box
            \/ /\ box # NoBox
               /\ \E done \in SUBSET job[p].groups :
                    /\ (done = job[p].groups /\ Go(p)) \/ Fail(p)
                    /\ box'.res = IF "res" \in done THEN job[p].plan.text.res ELSE box.res
                    /\ box'.on = box.on /\ box'.fixed = box.fixed /\ box'.user = box.user
                    /\ box'.port = box.port /\ box'.pass = box.pass /\ box'.guest = box.guest
                    /\ box'.files = box.files /\ box'.done = box.done
<1>1. At(p, "modify") /\ box \in Boxes \cup {NoBox}
  BY DEF Modify, TypeOK
<1>2. CASE box = NoBox
  BY <1>1, <1>2, Zenon DEF Modify
<1>3. CASE box # NoBox
  <2>. DEFINE Res(done) == IF "res" \in done THEN job[p].plan.text.res ELSE box.res
              Env(done) == IF "env" \in done THEN job[p].plan.text.env ELSE box.env
  <2>1. PICK done \in SUBSET job[p].groups :
          /\ box' = [box EXCEPT !.res = Res(done), !.env = Env(done)]
          /\ (done = job[p].groups /\ Go(p)) \/ Fail(p)
    BY <1>3, Zenon DEF Modify
  <2>. HIDE DEF Res, Env
  <2>2. /\ box'.res = Res(done) /\ box'.on = box.on /\ box'.fixed = box.fixed /\ box'.user = box.user
        /\ box'.port = box.port /\ box'.pass = box.pass /\ box'.guest = box.guest
        /\ box'.files = box.files /\ box'.done = box.done
    <3>1. box \in Boxes
      BY <1>1, <1>3
    <3>. QED
      BY <2>1, <3>1, ModifiedBox
  <2>. QED
    BY <1>1, <1>3, <2>1, <2>2, Zenon DEF Res
<1>. QED
  BY <1>2, <1>3

\* The steps that change state.json, and those that begin and end a command.
LEMMA RecordSteps ==
  ASSUME TypeOK, Flows, NEW p \in Jobs,
         \/ Replan(p) \/ Save(p) \/ Record(p) \/ Note(p) \/ Purge(p) \/ Diff(p) \/ Update(p)
  PROVE  /\ JobsOK' /\ state' \in Records \cup {NoRecord} /\ secret' \in Nat /\ trust' \in BOOLEAN
         /\ UNCHANGED <<kitchen, faults, box, serving, reg>>
<1>. USE DEF JobsOK
<1>0. state \in Records \cup {NoRecord} /\ secret \in Nat /\ trust \in BOOLEAN
  BY DEF TypeOK
<1>j. \A s : At(p, s) => job[p] \in Works
  BY AtStep
<1>1. CASE Replan(p)
  <2>1. UNCHANGED <<kitchen, state, secret, faults, box, serving, reg>> /\ trust' \in BOOLEAN
    BY <1>0, <1>1 DEF Replan, disk
  <2>2. JobsOK'
    BY <1>1, ReplanStep, BecomesFlows
  <2>. QED
    BY <1>0, <2>1, <2>2
<1>2. CASE Save(p)
  <2>1. /\ At(p, "save") /\ Go(p) /\ trust' = TRUE /\ UNCHANGED <<kitchen, secret, faults, box, serving, reg>>
        /\ state' = [applied |-> Config(job[p].plan), text |-> job[p].plan.text,
                     staged |-> Stage(job[p].plan), boot |-> FALSE, port |-> job[p].port]
    BY <1>2 DEF Save
  <2>2. /\ Config(job[p].plan) \in Applied /\ job[p].plan.text \in Kitchens
        /\ Stage(job[p].plan) \in Trees /\ job[p].port \in Endpoints
    BY <1>j, <2>1, JobType, PlanType
  <2>3. state' \in Records
    BY <2>1, <2>2 DEF Records
  <2>. QED
    BY <1>0, <2>1, <2>3, GoneOn
<1>3. CASE Record(p)
  <2>1. /\ At(p, "record") /\ (Go(p) \/ Fail(p)) /\ trust' = (trust \/ job[p].was)
        /\ UNCHANGED <<kitchen, secret, faults, box, serving, reg>>
        /\ state' = IF state = NoRecord THEN state ELSE [state EXCEPT !.boot = job[p].ok]
    BY <1>3 DEF Record
  <2>2. job[p].ok \in BOOLEAN /\ job[p].was \in BOOLEAN
    BY <1>j, <2>1, JobType
  <2>3. state' \in Records \cup {NoRecord}
    BY <1>0, <2>1, <2>2 DEF Records
  <2>. QED
    BY <1>0, <2>1, <2>2, <2>3, GoneOn
<1>4. CASE Note(p)
  <2>1. /\ At(p, "note") /\ Go(p) /\ UNCHANGED <<kitchen, secret, faults, box, serving, reg, trust>>
        /\ state' = IF job[p].held = NoRecord THEN state
                    ELSE [job[p].held EXCEPT !.staged = Stage(job[p].plan)]
    BY <1>4 DEF Note
  <2>2. job[p].held \in Records \cup {NoRecord} /\ Stage(job[p].plan) \in Trees
    BY <1>j, <2>1, JobType, PlanType
  <2>3. state' \in Records \cup {NoRecord}
    BY <1>0, <2>1, <2>2 DEF Records
  <2>. QED
    BY <1>0, <2>1, <2>3, GoneOn
<1>5. CASE Purge(p)
  <2>1. /\ At(p, "purge") /\ Go(p) /\ UNCHANGED <<kitchen, faults, box, serving, reg>>
        /\ state' = NoRecord /\ secret' = 0 /\ trust' \in BOOLEAN
    BY <1>0, <1>5 DEF Purge
  <2>. QED
    BY <2>1, GoneOn
<1>6. CASE Diff(p)
  <2>1. UNCHANGED <<kitchen, state, secret, faults, box, serving, reg>> /\ At(p, "diff")
    BY <1>6 DEF Diff, disk
  <2>2. JobsOK' /\ trust' \in BOOLEAN
    <3>1. CASE Fail(p) /\ trust' = trust
      BY <1>0, <2>1, <3>1, GoneOn
    <3>2. CASE ~(Fail(p) /\ trust' = trust)
      <4>1. Becomes(p, job'[p])
        BY <1>6, <3>2, DiffStep, Zenon
      <4>2. trust' = trust \/ trust' = (trust /\ Nothing(job[p].plan))
        BY <1>6, DiffStep, Zenon
      <4>. QED
        BY <1>0, <4>1, <4>2, BecomesFlows
    <3>. QED
      BY <3>1, <3>2
  <2>. QED
    BY <1>0, <2>1, <2>2
<1>7. CASE Update(p)
  <2>. DEFINE plan == job[p].plan
              applied == WithoutRecreate(job[p].held.applied, Config(plan))
              held == [job[p].held EXCEPT !.applied = applied]
  <2>1. /\ At(p, "update") /\ Go(p) /\ UNCHANGED <<kitchen, secret, faults, box, serving, reg>>
        /\ trust' = (trust \/ (job[p].was /\ Len(job[p].todo) = 1))
        /\ \/ state' = held
           \/ state' = [held EXCEPT !.text = plan.text, !.staged = Stage(plan)]
    BY <1>7, Zenon DEF Update
  <2>2. /\ job[p].held \in Records /\ job[p].was \in BOOLEAN
        /\ Config(plan) \in Applied /\ plan.text \in Kitchens /\ Stage(plan) \in Trees
    <3>1. job[p] \in Works /\ job[p].held # NoRecord
      BY <2>1, AtStep DEF Flow
    <3>. QED
      BY <3>1, JobType, PlanType
  <2>3. applied \in Applied
    BY <2>2 DEF WithoutRecreate, Applied, Records
  <2>. HIDE DEF plan, applied
  <2>4. held \in Records
    BY <2>2, <2>3 DEF Records
  <2>. HIDE DEF held
  <2>5. [held EXCEPT !.text = plan.text, !.staged = Stage(plan)] \in Records
    BY <2>2, <2>4 DEF Records
  <2>6. state' \in Records
    BY <2>1, <2>4, <2>5
  <2>. QED
    BY <1>0, <2>1, <2>2, <2>6, GoneOn
<1>. QED
  BY <1>1, <1>2, <1>3, <1>4, <1>5, <1>6, <1>7

\* Beginning, ending, failing and being killed touch the jobs and the secret only.
LEMMA OtherSteps ==
  ASSUME TypeOK, Flows, NEW p \in Jobs, Begin(p) \/ End(p) \/ Kill(p) \/ StepFails(p)
  PROVE  /\ JobsOK' /\ secret' \in Nat /\ faults' \in Nat
         /\ UNCHANGED <<kitchen, state, box, serving, reg, trust>>
<1>. USE DEF JobsOK
<1>0. secret \in Nat /\ faults \in Nat
  BY DEF TypeOK
<1>1. CASE Begin(p)
  <2>1. faults' = faults /\ UNCHANGED <<kitchen, state, box, serving, reg, trust>>
    BY <1>1 DEF Begin
  <2>2. PICK k : Becomes(p, k) /\ secret' \in Nat
    BY <1>1, BeginStep, Zenon
  <2>. QED
    BY <1>0, <2>1, <2>2, BecomesFlows
<1>2. CASE End(p)
  BY <1>0, <1>2, OverStep DEF End, disk
<1>3. CASE Kill(p)
  <2>1. /\ job' = [job EXCEPT ![p] = NoJob] /\ faults' = faults + 1 /\ secret' = secret
        /\ UNCHANGED <<kitchen, state, box, serving, reg, trust>>
    BY <1>3, Zenon DEF Kill, Fault
  <2>2. JobsOK'
    BY <2>1, OverStep
  <2>. QED
    BY <1>0, <2>1, <2>2
<1>4. CASE StepFails(p)
  <2>1. PICK s \in Fallible : At(p, s)
    BY <1>4 DEF StepFails
  <2>2. Fail(p) /\ faults' = faults + 1 /\ secret' = secret /\ UNCHANGED <<kitchen, state, box, serving, reg, trust>>
    BY <1>4 DEF StepFails, Fault
  <2>. QED
    BY <1>0, <2>1, <2>2, GoneOn
<1>. QED
  BY <1>1, <1>2, <1>3, <1>4

\* What happens around the commands: an edit, an outage, a broker that starts.
LEMMA AroundSteps ==
  ASSUME TypeOK, Edit \/ Outage \/ BrokerStart
  PROVE  /\ kitchen' \in Projects /\ serving' \in BOOLEAN /\ reg' \in Regs \cup {NoReg} /\ faults' \in Nat
         /\ UNCHANGED <<state, secret, box, job, trust>>
<1>0. kitchen \in Projects /\ serving \in BOOLEAN /\ reg \in Regs \cup {NoReg} /\ faults \in Nat
  BY DEF TypeOK
<1>1. CASE Edit
  <2>1. \E text \in Kitchens, content \in Contents : kitchen' = [text |-> text, content |-> content]
    BY <1>1, Zenon DEF Edit
  <2>2. kitchen' \in Projects
    BY <2>1 DEF Projects
  <2>3. UNCHANGED <<state, secret, faults, box, serving, reg, job, trust>>
    BY <1>1, Zenon DEF Edit
  <2>. QED
    BY <1>0, <2>2, <2>3
<1>2. CASE Outage
  <2>1. faults' = faults + 1
    <3>1. Fault("outage")
      BY <1>2 DEF Outage
    <3>. QED
      BY <3>1 DEF Fault
  <2>2. serving' = FALSE /\ UNCHANGED <<kitchen, state, secret, box, reg, job, trust>>
    BY <1>2 DEF Outage
  <2>3. faults' \in Nat
    BY <1>0, <2>1
  <2>4. serving' \in BOOLEAN
    BY <2>2
  <2>. QED
    BY <1>0, <2>2, <2>3, <2>4
<1>3. CASE BrokerStart
  BY <1>0, <1>3, RestoredType DEF BrokerStart, disk
<1>. QED
  BY <1>1, <1>2, <1>3

\* Every step keeps the types and the order of the steps that are left.
LEMMA TypeKept == TypeOK /\ Flows /\ [Next]_vars => TypeOK' /\ Flows'
<1>. SUFFICES ASSUME TypeOK, Flows, [Next]_vars PROVE TypeOK' /\ Flows'
  OBVIOUS
<1>0. /\ kitchen \in Projects /\ state \in Records \cup {NoRecord} /\ secret \in Nat
      /\ box \in Boxes \cup {NoBox} /\ serving \in BOOLEAN /\ reg \in Regs \cup {NoReg}
      /\ faults \in Nat /\ trust \in BOOLEAN /\ JobsOK
  BY DEF TypeOK, JobsOK
<1>1. CASE UNCHANGED vars
  BY <1>0, <1>1 DEF TypeOK, vars, Flows
<1>2. CASE Edit \/ Outage \/ BrokerStart
  <2>1. JobsOK'
    BY <1>0, <1>2, AroundSteps DEF JobsOK, Flows
  <2>. QED
    BY <1>0, <1>2, <2>1, AroundSteps DEF TypeOK, JobsOK
<1>3. ASSUME NEW p \in Jobs, Step(p) \/ StepFails(p) \/ Kill(p) PROVE TypeOK' /\ Flows'
  <2>1. CASE Begin(p) \/ End(p) \/ Kill(p) \/ StepFails(p)
    BY <1>0, <2>1, OtherSteps DEF TypeOK, JobsOK
  <2>2. CASE \/ Find(p) \/ Refresh(p) \/ Connect(p) \/ Fresh(p) \/ Register(p) \/ Retire(p)
             \/ SetMode(p, "open", "open") \/ SetMode(p, "enforce", "enforce") \/ Docker(p) \/ Check(p)
    <3>1. JobsOK' /\ serving' \in BOOLEAN /\ reg' \in Regs \cup {NoReg} /\ UNCHANGED <<disk, box>>
      BY <2>2, BrokerSteps, Zenon
    <3>2. trust' \in BOOLEAN
      BY <1>0, <2>2, Zenon DEF Find, Refresh, Connect, Fresh, Register, Retire, SetMode, Docker, Check
    <3>. QED
      BY <1>0, <3>1, <3>2 DEF TypeOK, JobsOK, disk
  <2>3. CASE \/ Create(p) \/ Boot(p) \/ Stop(p) \/ Remove(p) \/ WriteGuest(p) \/ StageFiles(p)
             \/ RunBootstrap(p) \/ Modify(p)
    BY <1>0, <2>3, BoxSteps DEF TypeOK, JobsOK
  <2>4. CASE \/ Replan(p) \/ Save(p) \/ Record(p) \/ Note(p) \/ Purge(p) \/ Diff(p) \/ Update(p)
    BY <1>0, <2>4, RecordSteps DEF TypeOK, JobsOK
  <2>. QED
    BY <1>3, <2>1, <2>2, <2>3, <2>4, Zenon DEF Step
<1>. QED
  BY <1>1, <1>2, <1>3 DEF Next

\* The variables keep their types, and what is left of a command is always a
\* path of the order in which lifecycle.rs and remodel.rs await their steps.
THEOREM TypeCorrect == Spec => [](TypeOK /\ Flows)
<1>1. Init => TypeOK /\ Flows
  <2>. SUFFICES ASSUME Init PROVE TypeOK /\ Flows
    OBVIOUS
  <2>1. /\ kitchen \in Projects /\ state = NoRecord /\ secret = 0 /\ box = NoBox /\ serving = FALSE
        /\ reg = NoReg /\ faults = 0 /\ trust = TRUE
    BY Zenon DEF Init, Projects
  <2>2. job = [p \in Jobs |-> NoJob]
    BY Zenon DEF Init
  <2>. QED
    BY <2>1, <2>2 DEF TypeOK, Flows
<1>. QED
  BY <1>1, TypeKept, PTL DEF Spec

-----------------------------------------------------------------------------
(* What the steps of one command have in common.                           *)

\* Nothing but what is left of the command changes.
Kept(j, k) ==
  /\ k.cmd = j.cmd /\ k.pass = j.pass /\ k.plan = j.plan /\ k.held = j.held /\ k.mode = j.mode
  /\ k.port = j.port /\ k.ok = j.ok /\ k.heard = j.heard /\ k.was = j.was /\ k.groups = j.groups

\* The next step of its path.
Onward(j, k) ==
  /\ Leads(j.cmd, Now(j), Now(k)) /\ Now(k) = After(j) /\ After(k) = Third(j)

\* A command that failed.
Halts(k) == Now(k) = "end" \/ (Now(k) = "refresh" /\ After(k) = "stop")

\* A step that is done, by what the command is afterwards.
LEMMA Goes ==
  ASSUME TypeOK, Flows, NEW p \in Jobs, NEW s, At(p, s), Go(p)
  PROVE  LET j == job[p]
             k == job'[p]
         IN /\ Becomes(p, k) /\ Onward(j, k) /\ Kept(j, k)
            /\ Now(j) = s /\ j \in Works /\ k \in Works /\ j # NoJob /\ Flow(j)
<1>. DEFINE j == job[p]
            k == [j EXCEPT !.todo = Tail(j.todo)]
<1>1. j \in Works /\ Now(j) = s /\ Leads(j.cmd, s, After(j)) /\ j # NoJob /\ Flow(j)
  BY AtStep
<1>2. Becomes(p, k) /\ Now(k) = After(j) /\ After(k) = Third(j)
  BY GoStep
<1>3. Kept(j, k)
  BY <1>1 DEF Kept, Works
<1>4. k = job'[p] /\ k \in Works
  BY <1>2, BecomesFlows DEF Becomes
<1>. HIDE DEF k, j
<1>. QED
  BY <1>1, <1>2, <1>3, <1>4, Zenon DEF Onward, j

\* A step that failed, by what the command is afterwards.
LEMMA Fails ==
  ASSUME TypeOK, Flows, NEW p \in Jobs, NEW s, At(p, s), Fail(p)
  PROVE  LET j == job[p]
             k == job'[p]
         IN /\ Becomes(p, k) /\ Halts(k) /\ Kept(j, k)
            /\ Now(j) = s /\ j \in Works /\ k \in Works /\ j # NoJob /\ Flow(j)
<1>. DEFINE j == job[p]
            todo == IF j.halt THEN Halt ELSE <<>>
            k == [j EXCEPT !.failed = TRUE, !.halt = FALSE, !.todo = todo]
<1>1. j \in Works /\ Now(j) = s /\ j # NoJob /\ Flow(j)
  BY AtStep
<1>2. Becomes(p, k) /\ (Now(k) = "end" \/ (Now(k) = "refresh" /\ After(k) = "stop"))
  BY FailStep, Zenon
<1>. HIDE DEF todo
<1>3. Kept(j, k)
  BY <1>1 DEF Kept, Works
<1>. HIDE DEF k, j
<1>4. k = job'[p] /\ k \in Works
  BY <1>2, BecomesFlows DEF Becomes
<1>. QED
  BY <1>1, <1>2, <1>3, <1>4, Zenon DEF Halts, j

\* There is no other command.
LEMMA Alone ==
  ASSUME TypeOK, Flows, OneCommand, NEW p \in Jobs, NEW k, Becomes(p, k)
  PROVE  \A q \in Jobs : job'[q] = k
<1>1. job'[p] = k
  BY BecomesFlows
<1>. QED
  BY <1>1 DEF OneCommand

-----------------------------------------------------------------------------
(* The secret.                                                             *)

\* The secret's invariant, when the one command became k.
LEMMA SecretBy ==
  ASSUME TypeOK, Flows, OneCommand, NEW p \in Jobs, NEW k, Becomes(p, k),
         SecretKept', Gone(k)', Armed(k)'
  PROVE  SecretInv'
  BY Alone DEF SecretInv

\* What is not there is not there one step later, until `create`.
LEMMA GoneAfter ==
  ASSUME NEW j, NEW k, Onward(j, k), Gone(j), Now(j) \notin {"remove", "connect"},
         box = NoBox => box' = NoBox \/ Now(j) = "create"
  PROVE  Gone(k)'
<1>1. /\ Now(k) = "retire" => Now(j) = "remove"
      /\ Now(k) = "fresh" => Now(j) = "retire"
      /\ Now(k) = "purge" => Now(j) = "retire"
      /\ Now(k) = "create" => Now(j) = "fresh" \/ (Now(j) = "register" /\ After(j) = "create")
      /\ Now(k) # "register"
      /\ Now(j) = "create" => Now(k) = "guest"
  BY DEF Onward, Leads
<1>2. CASE Now(j) = "create"
  BY <1>1, <1>2 DEF Gone
<1>3. CASE Now(j) # "create"
  <2>1. Now(k) \in {"retire", "fresh", "purge", "create"} => box = NoBox
    BY <1>1, <1>3 DEF Gone
  <2>. QED
    BY <1>1, <1>3, <2>1 DEF Gone
<1>. QED
  BY <1>2, <1>3

\* A step that leaves the secret, and the password of the VM if there is one.
LEMMA SecretOn ==
  ASSUME TypeOK, Flows, OneCommand, SecretInv, NEW p \in Jobs, job[p] # NoJob, NEW k, Becomes(p, k),
         k.pass = job[p].pass, k.cmd = job[p].cmd \/ job[p].cmd \in Remodels, secret' = secret,
         box' # NoBox => box # NoBox /\ box'.pass = box.pass, Gone(k)'
  PROVE  SecretInv'
<1>1. SecretKept'
  BY DEF SecretInv, SecretKept
<1>2. Armed(k)'
  <2>1. k.cmd \in MayStart => job[p].cmd \in MayStart
    BY CmdSets, Zenon
  <2>. QED
    BY <2>1 DEF SecretInv, Armed
<1>. QED
  BY <1>1, <1>2, SecretBy

\* A step along the path, or the command's failure.
LEMMA SecretGo ==
  ASSUME TypeOK, Flows, OneCommand, SecretInv, NEW p \in Jobs, NEW s, At(p, s), Go(p),
         s \notin {"remove", "connect", "create"}, secret' = secret,
         box' # NoBox => box # NoBox /\ box'.pass = box.pass
  PROVE  SecretInv'
<1>. DEFINE j == job[p]
<1>1. PICK k : /\ Becomes(p, k) /\ Onward(j, k) /\ Kept(j, k) /\ Now(j) = s /\ j # NoJob
  BY Goes, Zenon
<1>2. Gone(j)
  BY <1>1 DEF SecretInv
<1>3. Gone(k)'
  BY <1>1, <1>2, GoneAfter
<1>4. k.cmd = j.cmd /\ k.pass = j.pass
  BY <1>1 DEF Kept
<1>. QED
  BY <1>1, <1>3, <1>4, SecretOn

\* A failing step leaves the secret where it is.
LEMMA SecretFail ==
  ASSUME TypeOK, Flows, OneCommand, SecretInv, NEW p \in Jobs, NEW s, At(p, s), Fail(p),
         secret' = secret, box' # NoBox => box # NoBox /\ box'.pass = box.pass
  PROVE  SecretInv'
<1>. DEFINE j == job[p]
<1>1. PICK k : Becomes(p, k) /\ Halts(k) /\ Kept(j, k) /\ j # NoJob
  BY Fails, Zenon
<1>2. Gone(k)'
  BY <1>1 DEF Halts, Gone
<1>3. k.cmd = j.cmd /\ k.pass = j.pass
  BY <1>1 DEF Kept
<1>. QED
  BY <1>1, <1>2, <1>3, SecretOn

\* A step to somewhere that says nothing about what is gone.
LEMMA SecretTurn ==
  ASSUME TypeOK, Flows, OneCommand, SecretInv, NEW p \in Jobs, NEW s, At(p, s), NEW k, Becomes(p, k),
         k.pass = job[p].pass, k.cmd = job[p].cmd \/ job[p].cmd \in Remodels, secret' = secret,
         box' # NoBox => box # NoBox /\ box'.pass = box.pass,
         \/ Now(k) \notin {"retire", "fresh", "purge", "create", "register"}
         \/ Now(k) = "register" /\ After(k) = "boot"
  PROVE  SecretInv'
<1>1. Gone(k)'
  BY DEF Gone
<1>2. job[p] # NoJob
  BY DEF At
<1>. QED
  BY <1>1, <1>2, SecretOn

\* The steps that talk to the broker keep the secret's invariant.
LEMMA SecretBroker ==
  ASSUME TypeOK, Flows, OneCommand, SecretInv, NEW p \in Jobs,
         \/ Find(p) \/ Refresh(p) \/ Connect(p) \/ Fresh(p) \/ Register(p) \/ Retire(p)
         \/ SetMode(p, "open", "open") \/ SetMode(p, "enforce", "enforce") \/ Docker(p) \/ Check(p)
  PROVE  SecretInv'
<1>. DEFINE j == job[p]
<1>0. secret' = secret /\ box' = box
  BY BrokerSteps DEF disk
<1>1. CASE Find(p)
  <2>1. At(p, "find")
    BY <1>1 DEF Find
  <2>2. CASE Fail(p)
    BY <1>0, <2>1, <2>2, SecretFail
  <2>3. CASE ~Fail(p)
    <3>1. PICK k : /\ Becomes(p, k)
                   /\ k = [j EXCEPT !.todo = k.todo, !.on = k.on]
                   /\ \/ Now(k) \in {"end", "connect", "remove", "stop", "diff"}
                      \/ Now(k) = "refresh" /\ k.cmd = "restart"
                      \/ Now(k) \in {"fresh", "purge"} /\ box = NoBox
      BY <1>1, <2>3, FindStep, Zenon
    <3>2. j \in Works /\ j # NoJob
      BY <2>1, AtStep
    <3>3. k.pass = j.pass /\ k.cmd = j.cmd
      BY <3>1, <3>2 DEF Works
    <3>4. Gone(k)'
      <4>1. Now(k) \in {"fresh", "purge", "retire", "create", "register"} => box' = NoBox
        BY <1>0, <3>1
      <4>. QED
        BY <4>1 DEF Gone
    <3>. QED
      BY <1>0, <3>1, <3>2, <3>3, <3>4, SecretOn
  <2>. QED
    BY <2>2, <2>3
<1>2. CASE Refresh(p)
  <2>1. At(p, "refresh") /\ (Fail(p) \/ ~Fail(p))
    BY <1>2 DEF Refresh
  <2>2. CASE Fail(p)
    BY <1>0, <2>1, <2>2, SecretFail
  <2>3. CASE ~Fail(p)
    <3>. DEFINE k == [j EXCEPT !.todo = Tail(j.todo), !.on = box.on]
    <3>1. Becomes(p, k) /\ Now(k) = After(j)
      BY <1>2, <2>3, RefreshStep, Zenon
    <3>2. j \in Works /\ Leads(j.cmd, "refresh", After(j))
      BY <2>1, AtStep
    <3>3. k.pass = j.pass /\ k.cmd = j.cmd
      BY <3>2 DEF Works
    <3>. HIDE DEF k, j
    <3>4. Now(k) \notin {"retire", "fresh", "purge", "create", "register"}
      BY <3>1, <3>2 DEF Leads
    <3>. QED
      BY <1>0, <2>1, <3>1, <3>3, <3>4, SecretTurn DEF j
  <2>. QED
    BY <2>2, <2>3
<1>3. CASE Connect(p)
  <2>1. At(p, "connect")
    BY <1>3 DEF Connect
  <2>2. j \in Works
    BY <2>1, AtStep
  <2>3. PICK k : /\ Becomes(p, k) /\ k.pass = j.pass /\ k.cmd = j.cmd
                 /\ Now(k) = "boot" \/ (Now(k) = "register" /\ After(k) = "boot")
    BY <1>3, <2>2, ConnectStep DEF Works
  <2>. QED
    BY <1>0, <2>1, <2>3, SecretTurn
<1>4. CASE Fresh(p)
  <2>1. At(p, "fresh")
    BY <1>4 DEF Fresh
  <2>2. j \in Works /\ j # NoJob /\ Now(j) = "fresh"
    BY <2>1, AtStep
  <2>3. PICK k : Becomes(p, k) /\ k = [j EXCEPT !.port = 0, !.mode = "open", !.todo = k.todo]
    BY <1>4, FreshStep, Zenon
  <2>4. k.pass = j.pass /\ k.cmd = j.cmd
    BY <2>2, <2>3 DEF Works
  <2>5. Gone(k)'
    <3>1. box = NoBox
      BY <2>2 DEF SecretInv, Gone
    <3>. QED
      BY <1>0, <3>1 DEF Gone
  <2>. QED
    BY <1>0, <2>2, <2>3, <2>4, <2>5, SecretOn
<1>5. CASE Register(p)
  <2>1. At(p, "register")
    BY <1>5 DEF Register
  <2>2. CASE Fail(p)
    BY <1>0, <2>1, <2>2, SecretFail
  <2>3. CASE ~Fail(p)
    <3>1. PICK port \in Ports :
            LET k == [j EXCEPT !.todo = Tail(j.todo), !.port = port, !.heard = TRUE]
            IN Becomes(p, k) /\ Now(k) = After(j) /\ After(k) = Third(j)
      BY <1>5, <2>3, RegisterStep, Zenon
    <3>2. j \in Works /\ j # NoJob /\ Now(j) = "register" /\ Leads(j.cmd, "register", After(j))
      BY <2>1, AtStep
    <3>3. PICK k : k = [j EXCEPT !.todo = Tail(j.todo), !.port = port, !.heard = TRUE]
      OBVIOUS
    <3>4. Becomes(p, k) /\ Now(k) = After(j) /\ After(k) = Third(j)
      BY <3>1, <3>3, Zenon
    <3>5. Gone(k)'
      <4>1. Gone(j) /\ Onward(j, k)
        BY <3>2, <3>4 DEF SecretInv, Onward
      <4>2. Now(j) \notin {"remove", "connect"}
        BY <3>2
      <4>. QED
        BY <1>0, <4>1, <4>2, GoneAfter
    <3>6. k.pass = j.pass /\ k.cmd = j.cmd
      BY <3>2, <3>3 DEF Works
    <3>. QED
      BY <1>0, <3>2, <3>4, <3>5, <3>6, SecretOn
  <2>. QED
    BY <2>2, <2>3
<1>6. CASE Retire(p)
  <2>1. At(p, "retire") /\ Go(p)
    BY <1>6 DEF Retire
  <2>. QED
    BY <1>0, <2>1, SecretGo
<1>7. ASSUME NEW s \in {"open", "enforce"}, NEW mode \in Modes, SetMode(p, s, mode)
      PROVE  SecretInv'
  <2>1. At(p, s)
    BY <1>7 DEF SetMode
  <2>2. j \in Works /\ Leads(j.cmd, s, After(j))
    BY <2>1, AtStep
  <2>. DEFINE k == [j EXCEPT !.todo = Tail(j.todo), !.heard = serving /\ reg # NoReg]
  <2>3. Becomes(p, k) /\ Now(k) = After(j)
    BY <1>7, SetModeStep, Zenon
  <2>4. k.pass = j.pass /\ k.cmd = j.cmd
    BY <2>2 DEF Works
  <2>. HIDE DEF k, j
  <2>5. Now(k) \notin {"retire", "fresh", "purge", "create", "register"}
    BY <1>7, <2>2, <2>3 DEF Leads
  <2>. QED
    BY <1>0, <2>1, <2>3, <2>4, <2>5, SecretTurn DEF j
<1>8. CASE Docker(p)
  <2>1. At(p, "docker") /\ (Go(p) \/ Fail(p))
    BY <1>8 DEF Docker
  <2>. QED
    BY <1>0, <2>1, SecretGo, SecretFail
<1>9. CASE Check(p)
  <2>1. At(p, "check")
    BY <1>9 DEF Check
  <2>2. j \in Works
    BY <2>1, AtStep
  <2>3. PICK k : /\ Becomes(p, k) /\ k = [j EXCEPT !.todo = k.todo]
                 /\ Now(k) = "end" \/ Now(k) = "open"
    BY <1>9, CheckStep, Zenon
  <2>4. k.pass = j.pass /\ k.cmd = j.cmd
    BY <2>2, <2>3 DEF Works
  <2>5. Now(k) \notin {"retire", "fresh", "purge", "create", "register"}
    BY <2>3
  <2>. QED
    BY <1>0, <2>1, <2>3, <2>4, <2>5, SecretTurn
<1>10. "open" \in Modes /\ "enforce" \in Modes
  BY DEF Modes
<1>. QED
  BY <1>1, <1>2, <1>3, <1>4, <1>5, <1>6, <1>7, <1>8, <1>9, <1>10

\* So do the steps on the VM: it is created with the password of the file.
LEMMA SecretBox ==
  ASSUME TypeOK, Flows, OneCommand, SecretInv, NEW p \in Jobs,
         \/ Create(p) \/ Boot(p) \/ Stop(p) \/ Remove(p) \/ WriteGuest(p) \/ StageFiles(p)
         \/ RunBootstrap(p) \/ Modify(p)
  PROVE  SecretInv'
<1>. DEFINE j == job[p]
<1>0. secret' = secret /\ box \in Boxes \cup {NoBox}
  BY BoxSteps DEF TypeOK
<1>1. CASE Create(p)
  <2>1. At(p, "create")
    BY <1>1 DEF Create
  <2>2. CASE box # NoBox
    <3>1. Fail(p) /\ box' = box
      BY <1>1, <2>2 DEF Create
    <3>. QED
      BY <1>0, <2>1, <3>1, SecretFail
  <2>3. CASE box = NoBox
    <3>1. Go(p) /\ box'.pass = j.pass
      BY <1>1, <2>3 DEF Create
    <3>2. PICK k : /\ Becomes(p, k) /\ Onward(j, k) /\ Kept(j, k) /\ Now(j) = "create" /\ j # NoJob
      BY <2>1, <3>1, Goes, Zenon
    <3>3. Now(k) = "guest" /\ j.cmd \in Creating
      <4>1. Leads(j.cmd, "create", Now(k))
        BY <3>2, Zenon DEF Onward
      <4>. QED
        BY <4>1 DEF Leads
    <3>4. j.cmd \in MayStart /\ k.cmd = j.cmd /\ k.pass = j.pass
      BY <3>2, <3>3, CmdSets DEF Kept
    <3>5. secret # 0 /\ j.pass = secret
      BY <3>2, <3>4 DEF SecretInv, Armed
    <3>6. SecretKept' /\ Armed(k)'
      BY <1>0, <3>1, <3>4, <3>5 DEF SecretKept, Armed
    <3>7. Gone(k)'
      BY <3>3 DEF Gone
    <3>. QED
      BY <3>2, <3>6, <3>7, SecretBy
  <2>. QED
    BY <2>2, <2>3
<1>2. CASE Boot(p)
  <2>1. At(p, "boot")
    BY <1>2 DEF Boot
  <2>2. CASE Fail(p) /\ box' = box
    BY <1>0, <2>1, <2>2, SecretFail
  <2>3. CASE ~(Fail(p) /\ box' = box)
    <3>1. PICK k : k = [j EXCEPT !.todo = Tail(j.todo), !.halt = j.cmd \in Remodels]
      OBVIOUS
    <3>2. /\ box # NoBox /\ Becomes(p, k) /\ Now(k) = After(j)
          /\ box' = box \/ box' = [box EXCEPT !.on = TRUE, !.pass = j.pass]
      BY <1>2, <2>3, <3>1, BootStep, Zenon
    <3>3. j \in Works /\ j # NoJob /\ Leads(j.cmd, "boot", Now(k))
      BY <2>1, <3>2, AtStep
    <3>4. k.pass = j.pass /\ k.cmd = j.cmd
      BY <3>1, <3>3 DEF Works
    <3>5. j.cmd \in MayStart /\ Now(k) \notin {"retire", "fresh", "purge", "create", "register"}
      <4>. HIDE DEF j
      <4>1. j.cmd \in MayStart \ Remodels \/ j.cmd \in Remodels
        BY <3>3 DEF Leads
      <4>2. Now(k) \notin {"retire", "fresh", "purge", "create", "register"}
        BY <3>3 DEF Leads
      <4>. QED
        BY <4>1, <4>2, CmdSets
    <3>6. secret # 0 /\ j.pass = secret
      BY <3>3, <3>5 DEF SecretInv, Armed
    <3>7. SecretKept'
      <4>1. box \in Boxes
        BY <1>0, <3>2
      <4>2. box'.pass = box.pass \/ box'.pass = j.pass
        BY <3>2, <4>1 DEF Boxes
      <4>. QED
        BY <1>0, <3>2, <3>6, <4>2 DEF SecretInv, SecretKept
    <3>8. Armed(k)' /\ Gone(k)'
      BY <1>0, <3>4, <3>5, <3>6 DEF Armed, Gone
    <3>. QED
      BY <3>2, <3>7, <3>8, SecretBy
  <2>. QED
    BY <2>2, <2>3
<1>3. CASE Stop(p)
  <2>1. At(p, "stop") /\ (Go(p) \/ Fail(p))
    BY <1>3 DEF Stop
  <2>2. box' # NoBox => box # NoBox /\ box'.pass = box.pass
    BY <1>0, <1>3 DEF Stop, Boxes
  <2>. QED
    BY <1>0, <2>1, <2>2, SecretGo, SecretFail
<1>4. CASE Remove(p)
  <2>1. At(p, "remove") /\ box' = NoBox
    BY <1>4 DEF Remove
  <2>2. CASE Fail(p)
    BY <1>0, <2>1, <2>2, SecretFail
  <2>3. CASE Go(p)
    <3>1. PICK k : /\ Becomes(p, k) /\ Kept(j, k) /\ j # NoJob
      BY <2>1, <2>3, Goes, Zenon
    <3>2. k.cmd = j.cmd /\ k.pass = j.pass
      BY <3>1 DEF Kept
    <3>3. Gone(k)'
      BY <2>1 DEF Gone
    <3>. QED
      BY <1>0, <2>1, <3>1, <3>2, <3>3, SecretOn
  <2>. QED
    BY <1>4, <2>2, <2>3 DEF Remove
<1>5. CASE WriteGuest(p)
  <2>1. At(p, "guest") /\ (Go(p) \/ Fail(p))
    BY <1>5 DEF WriteGuest
  <2>2. box' # NoBox => box # NoBox /\ box'.pass = box.pass
    BY <1>0, <1>5 DEF WriteGuest, InGuest, Boxes
  <2>. QED
    BY <1>0, <2>1, <2>2, SecretGo, SecretFail
<1>6. CASE StageFiles(p)
  <2>1. PICK s \in {"stage", "restage"} : At(p, s) /\ (Go(p) \/ Fail(p))
    BY <1>6 DEF StageFiles
  <2>2. s \notin {"remove", "connect", "create"}
    BY <2>1
  <2>3. box' = box \/ (box # NoBox /\ box' = [box EXCEPT !.files = Restaged(box.files, Stage(job[p].plan), StaleRoots(p))])
    BY <1>6, Zenon DEF StageFiles, InGuest
  <2>4. box' # NoBox => box # NoBox /\ box'.pass = box.pass
    BY <1>0, <2>3 DEF Boxes
  <2>. QED
    BY <1>0, <2>1, <2>2, <2>4, SecretGo, SecretFail
<1>7. CASE RunBootstrap(p)
  <2>1. At(p, "run")
    BY <1>7 DEF RunBootstrap
  <2>2. PICK ok, k :
          /\ ok \in BOOLEAN /\ k = [j EXCEPT !.todo = Tail(j.todo), !.ok = ok]
          /\ Becomes(p, k) /\ Now(k) = After(j)
          /\ ok => box # NoBox /\ box' = [box EXCEPT !.done = <<box.guest, box.files>>]
          /\ ~ok => box' = box
    BY <1>7, RunStep, Zenon
  <2>3. j \in Works /\ Leads(j.cmd, "run", Now(k))
    BY <2>1, <2>2, AtStep
  <2>4. k.pass = j.pass /\ k.cmd = j.cmd
    BY <2>2, <2>3 DEF Works
  <2>5. Now(k) \notin {"retire", "fresh", "purge", "create", "register"}
    BY <2>3 DEF Leads
  <2>6. box' # NoBox => box # NoBox /\ box'.pass = box.pass
    BY <1>0, <2>2 DEF Boxes
  <2>. QED
    BY <1>0, <2>1, <2>2, <2>4, <2>5, <2>6, SecretTurn
<1>8. CASE Modify(p)
  <2>1. At(p, "modify") /\ (Go(p) \/ Fail(p))
    BY <1>8 DEF Modify
  <2>3. box' # NoBox => box # NoBox /\ box'.pass = box.pass
    BY <1>8, ModifyStep, Zenon
  <2>. QED
    BY <1>0, <2>1, <2>3, SecretGo, SecretFail
<1>. QED
  BY <1>1, <1>2, <1>3, <1>4, <1>5, <1>6, <1>7, <1>8

\* So do the steps on state.json; `purge` removes the secret after the VM.
LEMMA SecretRecord ==
  ASSUME TypeOK, Flows, OneCommand, SecretInv, NEW p \in Jobs,
         \/ Replan(p) \/ Save(p) \/ Record(p) \/ Note(p) \/ Purge(p) \/ Diff(p) \/ Update(p)
  PROVE  SecretInv'
<1>. DEFINE j == job[p]
<1>0. box' = box
  BY RecordSteps
<1>1. CASE Replan(p)
  <2>1. At(p, "plan") /\ secret' = secret
    BY <1>1 DEF Replan, disk
  <2>2. PICK k : /\ Becomes(p, k)
                 /\ Now(k) = "open" \/ Now(k) = "restage"
                 /\ k = [j EXCEPT !.plan = kitchen, !.held = state, !.was = trust, !.todo = k.todo]
    BY <1>1, ReplanStep, Zenon
  <2>3. j \in Works
    BY <2>1, AtStep
  <2>4. k.pass = j.pass /\ k.cmd = j.cmd
    BY <2>2, <2>3 DEF Works
  <2>5. Now(k) \notin {"retire", "fresh", "purge", "create", "register"}
    BY <2>2
  <2>. QED
    BY <1>0, <2>1, <2>2, <2>4, <2>5, SecretTurn
<1>2. CASE Save(p)
  <2>1. At(p, "save") /\ Go(p) /\ secret' = secret
    BY <1>2 DEF Save
  <2>. QED
    BY <1>0, <2>1, SecretGo
<1>3. CASE Record(p)
  <2>1. At(p, "record") /\ (Go(p) \/ Fail(p)) /\ secret' = secret
    BY <1>3 DEF Record
  <2>. QED
    BY <1>0, <2>1, SecretGo, SecretFail
<1>4. CASE Note(p)
  <2>1. At(p, "note") /\ Go(p) /\ secret' = secret
    BY <1>4 DEF Note
  <2>. QED
    BY <1>0, <2>1, SecretGo
<1>5. CASE Purge(p)
  <2>1. At(p, "purge") /\ Go(p)
    BY <1>5 DEF Purge
  <2>2. PICK k : /\ Becomes(p, k) /\ Kept(j, k) /\ Now(j) = "purge" /\ j # NoJob
    BY <2>1, Goes, Zenon
  <2>3. box = NoBox
    BY <2>2 DEF SecretInv, Gone
  <2>4. k.cmd = "purge"
    <3>1. j.cmd = "purge"
      BY <2>1, AtStep
    <3>. QED
      BY <2>2, <3>1 DEF Kept
  <2>5. SecretKept' /\ Gone(k)'
    BY <1>0, <2>3 DEF SecretKept, Gone
  <2>6. Armed(k)'
    <3>1. k.cmd \notin MayStart
      BY <2>4, CmdSets, Zenon
    <3>. QED
      BY <3>1 DEF Armed
  <2>. QED
    BY <2>2, <2>5, <2>6, SecretBy
<1>6. CASE Diff(p)
  <2>1. At(p, "diff") /\ secret' = secret
    BY <1>6 DEF Diff, disk
  <2>2. j \in Works
    BY <2>1, AtStep
  <2>3. CASE Fail(p) /\ trust' = trust
    BY <1>0, <2>1, <2>3, SecretFail
  <2>4. ASSUME NEW k, Becomes(p, k), Now(k) = "find",
               k = [j EXCEPT !.cmd = k.cmd, !.plan = kitchen, !.todo = k.todo], j.cmd \in Remodels
        PROVE  SecretInv'
    <3>1. k.pass = j.pass
      BY <2>2, <2>4 DEF Works
    <3>2. Now(k) \notin {"retire", "fresh", "purge", "create", "register"}
      BY <2>4
    <3>. QED
      BY <1>0, <2>1, <2>4, <3>1, <3>2, SecretTurn
  <2>5. ASSUME NEW k, Becomes(p, k), Now(k) = "end" \/ Now(k) = "modify",
               k = [j EXCEPT !.held = state, !.was = trust, !.groups = SdkGroups(j.plan), !.todo = k.todo]
        PROVE  SecretInv'
    <3>1. k.pass = j.pass /\ k.cmd = j.cmd
      BY <2>2, <2>5 DEF Works
    <3>2. Now(k) \notin {"retire", "fresh", "purge", "create", "register"}
      BY <2>5
    <3>. QED
      BY <1>0, <2>1, <2>5, <3>1, <3>2, SecretTurn
  <2>. QED
    BY <1>6, <2>3, <2>4, <2>5, DiffStep, Zenon
<1>7. CASE Update(p)
  <2>1. At(p, "update") /\ Go(p) /\ secret' = secret
    BY <1>7 DEF Update
  <2>. QED
    BY <1>0, <2>1, SecretGo
<1>. QED
  BY <1>1, <1>2, <1>3, <1>4, <1>5, <1>6, <1>7

\* So do beginning, which makes the secret, ending, failing and being killed.
LEMMA SecretOther ==
  ASSUME TypeOK, Flows, OneCommand, SecretInv, NEW p \in Jobs, Begin(p) \/ End(p) \/ Kill(p) \/ StepFails(p)
  PROVE  SecretInv'
<1>. DEFINE j == job[p]
<1>0. box' = box
  BY OtherSteps
<1>1. CASE Begin(p)
  <2>1. PICK cmd, k :
          /\ cmd \in Commands /\ k = Begun(cmd) /\ Becomes(p, k) /\ Now(k) = "find"
          /\ cmd \in MayStart => secret' # 0
          /\ IF cmd \in MayStart /\ secret = 0 THEN TRUE ELSE secret' = secret
    BY <1>1, BeginStep, Zenon
  <2>2. k.cmd = cmd /\ k.pass = IF cmd \in MayStart THEN secret' ELSE 0
    BY <2>1 DEF Begun
  <2>3. SecretKept'
    BY <1>0, <2>1 DEF SecretInv, SecretKept
  <2>4. Armed(k)'
    BY <2>1, <2>2 DEF Armed
  <2>5. Gone(k)'
    BY <2>1 DEF Gone
  <2>. QED
    BY <2>1, <2>3, <2>4, <2>5, SecretBy
<1>2. CASE End(p) \/ Kill(p)
  <2>1. job' = [job EXCEPT ![p] = NoJob] /\ secret' = secret
    BY <1>2 DEF End, Kill, disk
  <2>2. \A q \in Jobs : job'[q] = NoJob
    BY <2>1, OverStep DEF OneCommand
  <2>. QED
    BY <1>0, <2>1, <2>2 DEF SecretInv, SecretKept
<1>3. CASE StepFails(p)
  <2>1. PICK s \in Fallible : At(p, s)
    BY <1>3 DEF StepFails
  <2>2. Fail(p) /\ secret' = secret
    BY <1>3 DEF StepFails
  <2>. QED
    BY <1>0, <2>1, <2>2, SecretFail
<1>. QED
  BY <1>1, <1>2, <1>3

\* The VM has the password of the file, at every await point of one command.
LEMMA SecretInvKept ==
  ASSUME OneCommand PROVE TypeOK /\ Flows /\ SecretInv /\ [Next]_vars => SecretInv'
<1>. SUFFICES ASSUME TypeOK, Flows, SecretInv, [Next]_vars PROVE SecretInv'
  OBVIOUS
<1>1. CASE UNCHANGED vars
  BY <1>1 DEF vars, SecretInv, SecretKept, Gone, Armed
<1>2. CASE Edit \/ Outage \/ BrokerStart
  BY <1>2, AroundSteps DEF SecretInv, SecretKept, Gone, Armed
<1>3. ASSUME NEW p \in Jobs, Step(p) \/ StepFails(p) \/ Kill(p) PROVE SecretInv'
  BY <1>3, SecretOther, SecretBroker, SecretBox, SecretRecord, Zenon DEF Step
<1>. QED
  BY <1>1, <1>2, <1>3 DEF Next

-----------------------------------------------------------------------------
(* The endpoints and the registration.                                     *)

\* The registration's invariant, when the one command became k.
LEMMA RegBy ==
  ASSUME TypeOK, Flows, OneCommand, NEW p \in Jobs, NEW k, Becomes(p, k), PortKept(trust)', Heard(k)'
  PROVE  RegInv'
  BY Alone DEF RegInv

\* A step that leaves the registration and the endpoints of the VM.
LEMMA RegOn ==
  ASSUME TypeOK, Flows, OneCommand, RegInv, NEW p \in Jobs, job[p] # NoJob, NEW k, Becomes(p, k),
         reg' = reg, trust' => trust \/ job[p].was \/ PortKept(TRUE), box' # NoBox => box # NoBox /\ box'.port = box.port,
         k.was => job[p].was \/ trust, k.heard => k.cmd \in MayStart /\ job[p].heard,
         ~(Now(k) = "register" /\ After(k) = "boot"),
         Now(k) \in {"create", "guest", "stage", "save"} /\ k.cmd \in Creating =>
           /\ Now(job[p]) \in {"guest", "stage", "save"} /\ job[p].cmd \in Creating
           /\ k.port = job[p].port /\ Now(k) # "create"
  PROVE  RegInv'
<1>. DEFINE j == job[p]
<1>1. PortKept(trust) /\ Heard(j)
  BY DEF RegInv
<1>2. PortKept(trust)'
  BY <1>1 DEF Heard, PortKept
<1>3. Heard(k)'
  <2>1. (k.heard => reg # NoReg /\ k.cmd \in MayStart)'
    BY <1>1 DEF Heard
  <2>2. PortKept(k.was)'
    BY <1>1 DEF Heard, PortKept
  <2>3. (Now(k) \in {"create", "guest", "stage", "save"} /\ k.cmd \in Creating /\ reg # NoReg /\ k.port # 0
          => reg.port = k.port)'
    BY <1>1 DEF Heard
  <2>4. (Now(k) \in {"guest", "stage", "save"} /\ k.cmd \in Creating /\ box # NoBox => box.port = k.port)'
    BY <1>1 DEF Heard
  <2>5. ~(Now(k) = "register" /\ After(k) = "boot")'
    OBVIOUS
  <2>. QED
    BY <2>1, <2>2, <2>3, <2>4, <2>5 DEF Heard
<1>. QED
  BY <1>2, <1>3, RegBy

\* A step that leaves the endpoints alone keeps them in agreement.
LEMMA RegGo ==
  ASSUME TypeOK, Flows, OneCommand, RegInv, NEW p \in Jobs, NEW s, At(p, s), Go(p),
         s \notin {"connect", "fresh", "register", "create"},
         reg' = reg, trust' => trust \/ job[p].was \/ PortKept(TRUE), box' # NoBox => box # NoBox /\ box'.port = box.port
  PROVE  RegInv'
<1>. DEFINE j == job[p]
<1>1. PICK k : /\ Becomes(p, k) /\ Onward(j, k) /\ Kept(j, k) /\ Now(j) = s /\ j # NoJob
  BY Goes, Zenon
<1>2. k.cmd = j.cmd /\ k.was = j.was /\ k.heard = j.heard /\ k.port = j.port
  BY <1>1 DEF Kept
<1>3. Leads(j.cmd, s, Now(k))
  BY <1>1 DEF Onward
<1>4. /\ Now(k) \notin {"register", "create"}
      /\ Now(k) \in {"guest", "stage", "save"} /\ j.cmd \in Creating => s \in {"guest", "stage", "save"}
  <2>1. j.cmd \in Creating => j.cmd \notin Remodels
    BY CmdSets, Zenon
  <2>. HIDE DEF j
  <2>. QED
    BY <1>3, <2>1 DEF Leads
<1>5. k.heard => k.cmd \in MayStart /\ j.heard
  BY <1>1, <1>2 DEF RegInv, Heard
<1>6. ~(Now(k) = "register" /\ After(k) = "boot")
  BY <1>4
<1>7. Now(k) \in {"create", "guest", "stage", "save"} /\ k.cmd \in Creating =>
           /\ Now(job[p]) \in {"guest", "stage", "save"} /\ job[p].cmd \in Creating
           /\ k.port = job[p].port /\ Now(k) # "create"
  BY <1>1, <1>2, <1>4
<1>8. Becomes(p, k) /\ job[p] # NoJob
  BY <1>1
<1>. QED
  BY <1>2, <1>5, <1>6, <1>7, <1>8, RegOn

\* A failing step leaves the endpoints in agreement.
LEMMA RegFail ==
  ASSUME TypeOK, Flows, OneCommand, RegInv, NEW p \in Jobs, NEW s, At(p, s), Fail(p),
         reg' = reg, trust' => trust \/ job[p].was \/ PortKept(TRUE), box' # NoBox => box # NoBox /\ box'.port = box.port
  PROVE  RegInv'
<1>. DEFINE j == job[p]
<1>1. PICK k : Becomes(p, k) /\ Halts(k) /\ Kept(j, k) /\ j # NoJob
  BY Fails, Zenon
<1>2. k.cmd = j.cmd /\ k.was = j.was /\ k.heard = j.heard
  BY <1>1 DEF Kept
<1>3. k.heard => k.cmd \in MayStart /\ j.heard
  BY <1>1, <1>2 DEF RegInv, Heard
<1>4. Now(k) \notin {"create", "guest", "stage", "save", "register"}
  BY <1>1 DEF Halts
<1>. QED
  BY <1>1, <1>2, <1>3, <1>4, RegOn

\* A step to somewhere that says nothing about the endpoints.
LEMMA RegTurn ==
  ASSUME TypeOK, Flows, OneCommand, RegInv, NEW p \in Jobs, NEW s, At(p, s), NEW k, Becomes(p, k),
         reg' = reg, trust' => trust \/ job[p].was \/ PortKept(TRUE), box' # NoBox => box # NoBox /\ box'.port = box.port,
         k.was => job[p].was \/ trust, k.heard => job[p].heard,
         k.cmd = job[p].cmd \/ job[p].cmd \in Remodels, k.cmd \in MayStart \/ k.cmd = job[p].cmd,
         Now(k) \notin {"create", "guest", "stage", "save"},
         ~(Now(k) = "register" /\ After(k) = "boot")
  PROVE  RegInv'
<1>1. job[p] # NoJob
  BY DEF At
<1>2. k.heard => k.cmd \in MayStart /\ job[p].heard
  BY <1>1 DEF RegInv, Heard
<1>. QED
  BY <1>1, <1>2, RegOn

\* Registering, retiring and refreshing keep the endpoints in agreement.
LEMMA RegBroker ==
  ASSUME TypeOK, Flows, OneCommand, SecretInv, RegInv, TruthInv, NEW p \in Jobs,
         \/ Find(p) \/ Refresh(p) \/ Connect(p) \/ Fresh(p) \/ Register(p) \/ Retire(p)
         \/ SetMode(p, "open", "open") \/ SetMode(p, "enforce", "enforce") \/ Docker(p) \/ Check(p)
  PROVE  RegInv'
<1>. DEFINE j == job[p]
<1>0. /\ box' = box /\ trust' = trust
      /\ job[p] # NoJob => Heard(j) /\ Armed(j) /\ Gone(j) /\ Told(j)
      /\ PortKept(trust)
  BY BrokerSteps, Zenon DEF disk, Find, Refresh, Connect, Fresh, Register, Retire, SetMode, Docker, Check, RegInv, SecretInv, TruthInv
<1>1. CASE Find(p)
  <2>1. At(p, "find") /\ reg' = reg
    BY <1>1 DEF Find
  <2>2. CASE Fail(p)
    BY <1>0, <2>1, <2>2, RegFail
  <2>3. CASE ~Fail(p)
    <3>1. PICK k : /\ Becomes(p, k)
                   /\ k = [j EXCEPT !.todo = k.todo, !.on = k.on]
                   /\ \/ Now(k) \in {"end", "connect", "remove", "stop", "diff"}
                      \/ Now(k) = "refresh" /\ k.cmd = "restart"
                      \/ Now(k) \in {"fresh", "purge"} /\ box = NoBox
      BY <1>1, <2>3, FindStep, Zenon
    <3>2. j \in Works
      BY <2>1, AtStep
    <3>3. k.heard = j.heard /\ k.was = j.was /\ k.cmd = j.cmd
      BY <3>1, <3>2 DEF Works
    <3>4. Now(k) \notin {"create", "guest", "stage", "save", "register"}
      BY <3>1
    <3>. QED
      BY <1>0, <2>1, <3>1, <3>3, <3>4, RegTurn
  <2>. QED
    BY <2>2, <2>3
<1>2. CASE Refresh(p)
  <2>1. At(p, "refresh") /\ reg' = reg
    BY <1>2 DEF Refresh
  <2>2. CASE Fail(p)
    BY <1>0, <2>1, <2>2, RegFail
  <2>3. CASE ~Fail(p)
    <3>1. PICK k : k = [j EXCEPT !.todo = Tail(j.todo), !.on = box.on]
      OBVIOUS
    <3>2. Becomes(p, k) /\ Now(k) = After(j)
      BY <1>2, <2>3, <3>1, RefreshStep, Zenon
    <3>3. j \in Works /\ Leads(j.cmd, "refresh", Now(k))
      BY <2>1, <3>2, AtStep
    <3>4. k.heard = j.heard /\ k.was = j.was /\ k.cmd = j.cmd
      BY <3>1, <3>3 DEF Works
    <3>5. Now(k) \notin {"create", "guest", "stage", "save", "register"}
      BY <3>3 DEF Leads
    <3>. QED
      BY <1>0, <2>1, <3>2, <3>4, <3>5, RegTurn
  <2>. QED
    BY <2>2, <2>3
<1>3. CASE Connect(p)
  <2>1. At(p, "connect") /\ reg' = reg
    BY <1>3 DEF Connect
  <2>2. j \in Works /\ j # NoJob /\ Now(j) = "connect" /\ Flow(j) /\ Leads(j.cmd, "connect", After(j))
    BY <2>1, AtStep
  <2>3. ASSUME NEW k, k = [j EXCEPT !.todo = Tail(Tail(j.todo))], Becomes(p, k), Now(k) = "boot"
        PROVE  RegInv'
    <3>1. k.heard = j.heard /\ k.was = j.was /\ k.cmd = j.cmd
      BY <2>2, <2>3 DEF Works
    <3>2. Now(k) \notin {"create", "guest", "stage", "save", "register"}
      BY <2>3
    <3>. QED
      BY <1>0, <2>1, <2>3, <3>1, <3>2, RegTurn
  <2>4. ASSUME NEW k, state # NoRecord, Becomes(p, k), Now(k) = "register", After(k) = "boot",
               k = [j EXCEPT !.todo = Tail(j.todo), !.port = state.port,
                             !.mode = IF state.boot THEN "enforce" ELSE "open"]
        PROVE  RegInv'
    <3>1. k.heard = j.heard /\ k.was = j.was /\ k.cmd = j.cmd /\ k.port = state.port
      BY <2>2, <2>4 DEF Works
    <3>2. trust /\ box # NoBox => state.port = box.port
      BY DEF TruthInv, TruthKept, Describes
    <3>3. j.was /\ box # NoBox => state.port = box.port
      <4>1. j.was => j.cmd \in Remodels
        BY <2>2 DEF Flow
      <4>2. j.was => Partway(j)
        BY <2>2, <4>1 DEF Partway
      <4>. QED
        BY <1>0, <2>2, <4>2 DEF Told, Remodelled
    <3>4. PortKept(trust)' /\ Heard(j)
      BY <1>0, <2>1, <2>2 DEF PortKept
    <3>5. Heard(k)'
      <4>1. (k.heard => reg # NoReg /\ k.cmd \in MayStart)'
        BY <2>1, <3>1, <3>4 DEF Heard
      <4>2. PortKept(k.was)'
        BY <1>0, <2>1, <3>1, <3>4 DEF Heard, PortKept
      <4>3. ((trust \/ k.was) /\ box # NoBox => k.port = box.port)'
        BY <1>0, <3>1, <3>2, <3>3
      <4>4. Now(k) \notin {"create", "guest", "stage", "save"}
        BY <2>4
      <4>. QED
        BY <4>1, <4>2, <4>3, <4>4 DEF Heard
    <3>. QED
      BY <2>4, <3>4, <3>5, RegBy
  <2>. QED
    BY <1>3, <2>3, <2>4, ConnectStep, Zenon
<1>4. CASE Fresh(p)
  <2>1. At(p, "fresh") /\ reg' = reg
    BY <1>4 DEF Fresh
  <2>2. j \in Works /\ j # NoJob
    BY <2>1, AtStep
  <2>3. PICK k : /\ Becomes(p, k) /\ k = [j EXCEPT !.port = 0, !.mode = "open", !.todo = k.todo]
                 /\ Now(k) = "create" \/ (Now(k) = "register" /\ After(k) = "create")
    BY <1>4, FreshStep, Zenon
  <2>4. k.heard = j.heard /\ k.was = j.was /\ k.cmd = j.cmd /\ k.port = 0
    BY <2>2, <2>3 DEF Works
  <2>5. PortKept(trust)' /\ Heard(j)
    BY <1>0, <2>1, <2>2 DEF PortKept
  <2>6. Heard(k)'
    <3>1. (k.heard => reg # NoReg /\ k.cmd \in MayStart)'
      BY <2>1, <2>4, <2>5 DEF Heard
    <3>2. PortKept(k.was)'
      BY <1>0, <2>1, <2>4, <2>5 DEF Heard, PortKept
    <3>3. ~(Now(k) = "register" /\ After(k) = "boot") /\ Now(k) \notin {"guest", "stage", "save"}
      BY <2>3
    <3>. QED
      BY <2>4, <3>1, <3>2, <3>3 DEF Heard
  <2>. QED
    BY <2>3, <2>5, <2>6, RegBy
<1>5. CASE Register(p)
  <2>1. At(p, "register")
    BY <1>5 DEF Register
  <2>2. j \in Works /\ j # NoJob /\ Now(j) = "register" /\ Leads(j.cmd, "register", After(j))
    BY <2>1, AtStep
  <2>3. j.cmd \in MayStart /\ (After(j) = "boot" \/ After(j) = "create")
    <3>. HIDE DEF j
    <3>1. (j.cmd \in MayStart \/ j.cmd \in Creating) /\ (After(j) = "boot" \/ After(j) = "create")
      BY <2>2 DEF Leads
    <3>. QED
      BY <3>1, CmdSets
  <2>4. secret # 0
    BY <1>0, <2>2, <2>3 DEF Armed
  <2>5. PICK port \in Ports :
          /\ LET k == [j EXCEPT !.todo = Tail(j.todo), !.port = port, !.heard = TRUE]
             IN Becomes(p, k) /\ Now(k) = After(j) /\ After(k) = Third(j)
          /\ reg' \in Regs /\ reg'.port = port /\ j.port \in {0, port}
    BY <1>5, <2>4, RegisterStep, Zenon
  <2>6. PICK k : k = [j EXCEPT !.todo = Tail(j.todo), !.port = port, !.heard = TRUE]
    OBVIOUS
  <2>7. Becomes(p, k) /\ Now(k) = After(j)
    BY <2>5, <2>6, Zenon
  <2>8. k.cmd = j.cmd /\ k.was = j.was /\ k.port = port
    BY <2>2, <2>6 DEF Works
  <2>9. (trust \/ j.was) /\ box # NoBox /\ box.port # 0 => port = box.port
    <3>1. After(j) = "create" => box = NoBox
      BY <1>0, <2>2 DEF Gone
    <3>2. After(j) = "boot" /\ (trust \/ j.was) /\ box # NoBox => j.port = box.port
      BY <1>0, <2>2 DEF Heard
    <3>. QED
      BY <2>3, <2>5, <3>1, <3>2
  <2>10. PortKept(trust)'
    BY <1>0, <2>5, <2>9 DEF PortKept
  <2>11. Heard(k)'
    <3>1. reg' # NoReg /\ k.cmd \in MayStart
      BY <2>3, <2>5, <2>8, AbsentAssumption
    <3>2. PortKept(k.was)'
      BY <1>0, <2>5, <2>8, <2>9 DEF PortKept
    <3>3. Now(k) \notin {"register", "guest", "stage", "save"}
      BY <2>3, <2>7
    <3>4. reg'.port = k.port
      BY <2>5, <2>8
    <3>. QED
      BY <3>1, <3>2, <3>3, <3>4 DEF Heard
  <2>. QED
    BY <2>7, <2>10, <2>11, RegBy
<1>6. CASE Retire(p)
  <2>1. At(p, "retire") /\ Go(p) /\ (reg' = reg \/ reg' = NoReg)
    BY <1>6 DEF Retire
  <2>2. PICK k : /\ Becomes(p, k) /\ Onward(j, k) /\ Kept(j, k) /\ Now(j) = "retire" /\ j # NoJob /\ Flow(j)
    BY <2>1, Goes, Zenon
  <2>3. k.heard = j.heard /\ k.was = j.was /\ k.cmd = j.cmd
    BY <2>2 DEF Kept
  <2>4. ~k.heard
    BY <2>2, <2>3 DEF Flow
  <2>5. Now(k) \notin {"register", "create", "guest", "stage", "save"}
    <3>1. Leads(j.cmd, "retire", Now(k))
      BY <2>2 DEF Onward
    <3>. QED
      BY <3>1 DEF Leads
  <2>6. PortKept(trust)' /\ PortKept(k.was)'
    BY <1>0, <2>1, <2>2, <2>3 DEF Heard, PortKept
  <2>7. Heard(k)'
    BY <2>4, <2>5, <2>6 DEF Heard
  <2>. QED
    BY <2>2, <2>6, <2>7, RegBy
<1>7. ASSUME NEW s \in {"open", "enforce"}, NEW mode \in Modes, SetMode(p, s, mode)
      PROVE  RegInv'
  <2>1. At(p, s)
    BY <1>7 DEF SetMode
  <2>2. j \in Works /\ j # NoJob /\ Leads(j.cmd, s, After(j)) /\ Now(j) = s
    BY <2>1, AtStep
  <2>3. PICK k : k = [j EXCEPT !.todo = Tail(j.todo), !.heard = serving /\ reg # NoReg]
    OBVIOUS
  <2>4. /\ Becomes(p, k) /\ Now(k) = After(j)
        /\ reg = NoReg => reg' = NoReg
        /\ reg # NoReg => reg' # NoReg /\ reg'.port = reg.port
    BY <1>7, <2>3, SetModeStep, Zenon
  <2>5. /\ k.heard = (serving /\ reg # NoReg) /\ k.was = j.was /\ k.cmd = j.cmd
    BY <2>2, <2>3 DEF Works
  <2>. HIDE DEF j
  <2>6. Now(k) \notin {"register", "create", "guest", "stage", "save"}
    BY <1>7, <2>2, <2>4 DEF Leads
  <2>7. k.cmd \in MayStart
    <3>1. j.cmd \in MayStart
      BY <1>7, <2>2 DEF Leads
    <3>. QED
      BY <2>5, <3>1
  <2>8. PortKept(trust)' /\ PortKept(k.was)'
    BY <1>0, <2>2, <2>4, <2>5 DEF Heard, PortKept, j
  <2>9. Heard(k)'
    BY <2>4, <2>5, <2>6, <2>7, <2>8 DEF Heard
  <2>. QED
    BY <2>4, <2>8, <2>9, RegBy
<1>8. CASE Docker(p)
  <2>1. At(p, "docker") /\ (Go(p) \/ Fail(p)) /\ reg' = reg
    BY <1>8 DEF Docker
  <2>. QED
    BY <1>0, <2>1, RegGo, RegFail
<1>9. CASE Check(p)
  <2>1. At(p, "check") /\ reg' = reg
    BY <1>9 DEF Check
  <2>2. j \in Works
    BY <2>1, AtStep
  <2>3. PICK k : /\ Becomes(p, k) /\ k = [j EXCEPT !.todo = k.todo]
                 /\ Now(k) = "end" \/ Now(k) = "open"
    BY <1>9, CheckStep, Zenon
  <2>4. k.heard = j.heard /\ k.was = j.was /\ k.cmd = j.cmd
    BY <2>2, <2>3 DEF Works
  <2>5. Now(k) \notin {"create", "guest", "stage", "save", "register"}
    BY <2>3
  <2>. QED
    BY <1>0, <2>1, <2>3, <2>4, <2>5, RegTurn
<1>10. "open" \in Modes /\ "enforce" \in Modes
  BY DEF Modes
<1>. QED
  BY <1>1, <1>2, <1>3, <1>4, <1>5, <1>6, <1>7, <1>8, <1>9, <1>10, SMTT(60)

\* So do the steps on the VM: it is created and started with the endpoints
\* the broker gave.
LEMMA RegBox ==
  ASSUME TypeOK, Flows, OneCommand, SecretInv, RegInv, NEW p \in Jobs,
         \/ Create(p) \/ Boot(p) \/ Stop(p) \/ Remove(p) \/ WriteGuest(p) \/ StageFiles(p)
         \/ RunBootstrap(p) \/ Modify(p)
  PROVE  RegInv'
<1>. DEFINE j == job[p]
<1>0. /\ reg' = reg /\ box \in Boxes \cup {NoBox}
      /\ job[p] # NoJob => Heard(j)
      /\ PortKept(trust)
  BY BoxSteps DEF TypeOK, RegInv
<1>1. CASE Create(p)
  <2>1. At(p, "create")
    BY <1>1 DEF Create
  <2>2. CASE box # NoBox
    <3>1. Fail(p) /\ box' = box /\ trust' = trust
      BY <1>1, <2>2 DEF Create
    <3>. QED
      BY <1>0, <2>1, <3>1, RegFail
  <2>3. CASE box = NoBox
    <3>1. Go(p) /\ box'.port = j.port /\ trust' = FALSE
      BY <1>1, <2>3 DEF Create
    <3>2. PICK k : /\ Becomes(p, k) /\ Onward(j, k) /\ Kept(j, k) /\ Now(j) = "create" /\ j # NoJob /\ Flow(j)
      BY <2>1, <3>1, Goes, Zenon
    <3>3. Now(k) = "guest" /\ j.cmd \in Creating
      <4>1. Leads(j.cmd, "create", Now(k))
        BY <3>2, Zenon DEF Onward
      <4>. QED
        BY <4>1 DEF Leads
    <3>4. k.cmd = j.cmd /\ k.heard = j.heard /\ k.was = j.was /\ k.port = j.port
      BY <3>2 DEF Kept
    <3>5. PortKept(trust)' /\ ~k.was
      BY <3>1, <3>2, <3>3, <3>4 DEF PortKept, Flow
    <3>6. Heard(k)'
      <4>1. (k.heard => reg # NoReg /\ k.cmd \in MayStart)'
        BY <1>0, <3>2, <3>4 DEF Heard
      <4>2. PortKept(k.was)'
        BY <3>5 DEF PortKept
      <4>3. reg' # NoReg /\ k.port # 0 => reg'.port = k.port
        BY <1>0, <3>2, <3>3, <3>4 DEF Heard
      <4>4. box'.port = k.port
        BY <3>1, <3>4
      <4>. QED
        BY <3>3, <4>1, <4>2, <4>3, <4>4 DEF Heard
    <3>. QED
      BY <3>2, <3>5, <3>6, RegBy
  <2>. QED
    BY <2>2, <2>3
<1>2. CASE Boot(p)
  <2>1. At(p, "boot") /\ trust' = trust
    BY <1>2 DEF Boot
  <2>2. CASE Fail(p) /\ box' = box
    BY <1>0, <2>1, <2>2, RegFail
  <2>3. CASE ~(Fail(p) /\ box' = box)
    <3>1. PICK k : k = [j EXCEPT !.todo = Tail(j.todo), !.halt = j.cmd \in Remodels]
      OBVIOUS
    <3>2. /\ box # NoBox /\ Becomes(p, k) /\ Now(k) = After(j)
          /\ box' = box \/ box' = [box EXCEPT !.on = TRUE, !.pass = j.pass]
      BY <1>2, <2>3, <3>1, BootStep, Zenon
    <3>3. j \in Works /\ j # NoJob /\ Leads(j.cmd, "boot", Now(k))
      BY <2>1, <3>2, AtStep
    <3>4. k.cmd = j.cmd /\ k.heard = j.heard /\ k.was = j.was
      BY <3>1, <3>3 DEF Works
    <3>5. Now(k) \notin {"create", "stage", "save", "register"} /\ ~(Now(k) = "guest" /\ k.cmd \in Creating)
      <4>. HIDE DEF j
      <4>1. j.cmd \in Creating => j.cmd \notin Remodels
        BY CmdSets, Zenon
      <4>. QED
        BY <3>3, <3>4, <4>1 DEF Leads
    <3>6. box'.port = box.port
      <4>1. box \in Boxes
        BY <1>0, <3>2
      <4>. QED
        BY <3>2, <4>1 DEF Boxes
    <3>7. k.heard => k.cmd \in MayStart /\ j.heard
      BY <1>0, <3>3, <3>4 DEF Heard
    <3>. QED
      BY <1>0, <2>1, <3>2, <3>3, <3>4, <3>5, <3>6, <3>7, RegOn
  <2>. QED
    BY <2>2, <2>3
<1>3. CASE Stop(p)
  <2>1. At(p, "stop") /\ (Go(p) \/ Fail(p)) /\ trust' = trust
    BY <1>3 DEF Stop
  <2>2. box' # NoBox => box # NoBox /\ box'.port = box.port
    BY <1>0, <1>3 DEF Stop, Boxes
  <2>. QED
    BY <1>0, <2>1, <2>2, RegGo, RegFail
<1>4. CASE Remove(p)
  <2>1. At(p, "remove") /\ box' = NoBox /\ (Go(p) \/ Fail(p)) /\ trust' = trust
    BY <1>4 DEF Remove
  <2>. QED
    BY <1>0, <2>1, RegGo, RegFail
<1>5. CASE WriteGuest(p)
  <2>1. At(p, "guest") /\ (Go(p) \/ Fail(p)) /\ trust' = trust
    BY <1>5 DEF WriteGuest
  <2>2. box' # NoBox => box # NoBox /\ box'.port = box.port
    BY <1>0, <1>5 DEF WriteGuest, InGuest, Boxes
  <2>. QED
    BY <1>0, <2>1, <2>2, RegGo, RegFail
<1>6. CASE StageFiles(p)
  <2>1. PICK s \in {"stage", "restage"} : At(p, s) /\ (Go(p) \/ Fail(p))
    BY <1>6 DEF StageFiles
  <2>2. s \notin {"connect", "fresh", "register", "create"}
    BY <2>1
  <2>3. box' = box \/ (box # NoBox /\ box' = [box EXCEPT !.files = Restaged(box.files, Stage(job[p].plan), StaleRoots(p))])
    BY <1>6, Zenon DEF StageFiles, InGuest
  <2>4. box' # NoBox => box # NoBox /\ box'.port = box.port
    BY <1>0, <2>3 DEF Boxes
  <2>5. trust' = trust
    BY <1>6 DEF StageFiles
  <2>. QED
    BY <1>0, <2>1, <2>2, <2>4, <2>5, RegGo, RegFail
<1>7. CASE RunBootstrap(p)
  <2>1. At(p, "run") /\ trust' = trust
    BY <1>7 DEF RunBootstrap
  <2>2. PICK ok, k :
          /\ ok \in BOOLEAN /\ k = [j EXCEPT !.todo = Tail(j.todo), !.ok = ok]
          /\ Becomes(p, k) /\ Now(k) = After(j)
          /\ ok => box # NoBox /\ box' = [box EXCEPT !.done = <<box.guest, box.files>>]
          /\ ~ok => box' = box
    BY <1>7, RunStep, Zenon
  <2>3. j \in Works /\ Leads(j.cmd, "run", Now(k))
    BY <2>1, <2>2, AtStep
  <2>4. k.heard = j.heard /\ k.was = j.was /\ k.cmd = j.cmd
    BY <2>2, <2>3 DEF Works
  <2>5. Now(k) \notin {"create", "guest", "stage", "save", "register"}
    BY <2>3 DEF Leads
  <2>6. box' # NoBox => box # NoBox /\ box'.port = box.port
    BY <1>0, <2>2 DEF Boxes
  <2>. QED
    BY <1>0, <2>1, <2>2, <2>4, <2>5, <2>6, RegTurn
<1>8. CASE Modify(p)
  <2>1. At(p, "modify") /\ (Go(p) \/ Fail(p)) /\ trust' = trust
    BY <1>8 DEF Modify
  <2>2. box' # NoBox => box # NoBox /\ box'.port = box.port
    BY <1>8, ModifyStep, Zenon
  <2>. QED
    BY <1>0, <2>1, <2>2, RegGo, RegFail
<1>. QED
  BY <1>1, <1>2, <1>3, <1>4, <1>5, <1>6, <1>7, <1>8

\* So do the steps on state.json, from where a start takes its endpoints.
LEMMA RegRecord ==
  ASSUME TypeOK, Flows, OneCommand, SecretInv, RegInv, NEW p \in Jobs,
         \/ Replan(p) \/ Save(p) \/ Record(p) \/ Note(p) \/ Purge(p) \/ Diff(p) \/ Update(p)
  PROVE  RegInv'
<1>. DEFINE j == job[p]
<1>0. /\ box' = box /\ reg' = reg
      /\ job[p] # NoJob => Heard(j)
      /\ PortKept(trust)
  BY RecordSteps DEF RegInv
<1>1. CASE Replan(p)
  <2>1. At(p, "plan") /\ (trust' => trust)
    BY <1>1 DEF Replan
  <2>2. PICK k : /\ Becomes(p, k)
                 /\ Now(k) = "open" \/ Now(k) = "restage"
                 /\ k = [j EXCEPT !.plan = kitchen, !.held = state, !.was = trust, !.todo = k.todo]
    BY <1>1, ReplanStep, Zenon
  <2>3. j \in Works
    BY <2>1, AtStep
  <2>4. k.heard = j.heard /\ k.was = trust /\ k.cmd = j.cmd
    BY <2>2, <2>3 DEF Works
  <2>5. Now(k) \notin {"create", "guest", "stage", "save", "register"}
    BY <2>2
  <2>. QED
    BY <1>0, <2>1, <2>2, <2>4, <2>5, RegTurn
<1>2. CASE Save(p)
  <2>1. At(p, "save") /\ Go(p)
    BY <1>2 DEF Save
  <2>2. j # NoJob /\ Now(j) = "save" /\ Leads(j.cmd, "save", After(j))
    BY <2>1, AtStep
  <2>3. j.cmd \in Creating
    <3>. HIDE DEF j
    <3>. QED
      BY <2>2 DEF Leads
  <2>4. PortKept(TRUE)
    BY <1>0, <2>2, <2>3 DEF Heard, PortKept
  <2>. QED
    BY <1>0, <2>1, <2>4, RegGo
<1>3. CASE Record(p)
  <2>1. At(p, "record") /\ (Go(p) \/ Fail(p)) /\ trust' = (trust \/ j.was)
    BY <1>3 DEF Record
  <2>. QED
    BY <1>0, <2>1, RegGo, RegFail
<1>4. CASE Note(p)
  <2>1. At(p, "note") /\ Go(p) /\ trust' = trust
    BY <1>4 DEF Note
  <2>. QED
    BY <1>0, <2>1, RegGo
<1>5. CASE Purge(p)
  <2>1. At(p, "purge") /\ Go(p) /\ (trust' => trust)
    BY <1>5 DEF Purge
  <2>. QED
    BY <1>0, <2>1, RegGo
<1>6. CASE Diff(p)
  <2>1. At(p, "diff")
    BY <1>6 DEF Diff
  <2>2. j \in Works /\ Flow(j) /\ Now(j) = "diff"
    BY <2>1, AtStep
  <2>3. CASE Fail(p) /\ trust' = trust
    BY <1>0, <2>1, <2>3, RegFail
  <2>4. ASSUME NEW k, Becomes(p, k), Now(k) = "find", k.cmd = "recreate", trust' = trust,
               k = [j EXCEPT !.cmd = k.cmd, !.plan = kitchen, !.todo = k.todo], j.cmd \in Remodels
        PROVE  RegInv'
    <3>1. k.heard = j.heard /\ k.was = j.was
      BY <2>2, <2>4 DEF Works
    <3>2. Now(k) \notin {"create", "guest", "stage", "save", "register"}
      BY <2>4
    <3>3. k.cmd \in MayStart
      BY <2>4, CmdSets, Zenon
    <3>. QED
      BY <1>0, <2>1, <2>4, <3>1, <3>2, <3>3, RegTurn
  <2>5. ASSUME NEW k, Becomes(p, k), Now(k) = "end" \/ Now(k) = "modify", trust' => trust,
               k = [j EXCEPT !.held = state, !.was = trust, !.groups = SdkGroups(j.plan), !.todo = k.todo]
        PROVE  RegInv'
    <3>1. k.heard = j.heard /\ k.was = trust /\ k.cmd = j.cmd
      BY <2>2, <2>5 DEF Works
    <3>2. Now(k) \notin {"create", "guest", "stage", "save", "register"}
      BY <2>5
    <3>. QED
      BY <1>0, <2>1, <2>5, <3>1, <3>2, RegTurn
  <2>. QED
    BY <1>6, <2>3, <2>4, <2>5, DiffStep, Zenon
<1>7. CASE Update(p)
  <2>1. At(p, "update") /\ Go(p) /\ (trust' => trust \/ j.was)
    BY <1>7 DEF Update
  <2>. QED
    BY <1>0, <2>1, RegGo
<1>. QED
  BY <1>1, <1>2, <1>3, <1>4, <1>5, <1>6, <1>7

\* So do beginning, ending, failing and being killed.
LEMMA RegOther ==
  ASSUME TypeOK, Flows, OneCommand, RegInv, NEW p \in Jobs, Begin(p) \/ End(p) \/ Kill(p) \/ StepFails(p)
  PROVE  RegInv'
<1>0. box' = box /\ reg' = reg /\ trust' = trust /\ PortKept(trust)
  BY OtherSteps DEF RegInv
<1>1. CASE Begin(p)
  <2>1. PICK cmd, k : cmd \in Commands /\ k = Begun(cmd) /\ Becomes(p, k) /\ Now(k) = "find"
    BY <1>1, BeginStep, Zenon
  <2>2. ~k.heard /\ ~k.was
    BY <2>1 DEF Begun
  <2>3. PortKept(trust)'
    BY <1>0 DEF PortKept
  <2>4. Heard(k)'
    BY <2>1, <2>2 DEF Heard, PortKept
  <2>. QED
    BY <2>1, <2>3, <2>4, RegBy
<1>2. CASE End(p) \/ Kill(p)
  <2>1. job' = [job EXCEPT ![p] = NoJob]
    BY <1>2 DEF End, Kill
  <2>2. \A q \in Jobs : job'[q] = NoJob
    BY <2>1, OverStep DEF OneCommand
  <2>. QED
    BY <1>0, <2>2 DEF RegInv, PortKept
<1>3. CASE StepFails(p)
  <2>1. PICK s \in Fallible : At(p, s)
    BY <1>3 DEF StepFails
  <2>2. Fail(p)
    BY <1>3 DEF StepFails
  <2>. QED
    BY <1>0, <2>1, <2>2, RegFail
<1>. QED
  BY <1>1, <1>2, <1>3

\* The broker ends and comes back: with the registration it had, as long as
\* there is a secret to verify with.
LEMMA RestartFacts ==
  ASSUME TypeOK, Edit \/ Outage \/ BrokerStart
  PROVE  /\ reg' # NoReg => reg # NoReg /\ reg'.mode = reg.mode /\ reg'.port = reg.port
         /\ reg # NoReg /\ secret # 0 => reg' # NoReg
<1>1. CASE Edit \/ Outage
  BY <1>1 DEF Edit, Outage
<1>2. CASE BrokerStart
  BY <1>2, RestoredType DEF BrokerStart
<1>. QED
  BY <1>1, <1>2

\* The broker and the VM agree on the endpoints, at every await point.
LEMMA RegInvKept ==
  ASSUME OneCommand PROVE TypeOK /\ Flows /\ SecretInv /\ RegInv /\ TruthInv /\ [Next]_vars => RegInv'
<1>. SUFFICES ASSUME TypeOK, Flows, SecretInv, RegInv, TruthInv, [Next]_vars PROVE RegInv'
  OBVIOUS
<1>1. CASE UNCHANGED vars
  BY <1>1 DEF vars, RegInv, Heard, PortKept
<1>2. CASE Edit \/ Outage \/ BrokerStart
  <2>1. UNCHANGED <<secret, box, job, trust>>
    BY <1>2, AroundSteps
  <2>2. PortKept(trust)'
    BY <1>2, <2>1, RestartFacts DEF RegInv, PortKept
  <2>3. ASSUME NEW q \in Jobs, job[q] # NoJob PROVE Heard(job[q])'
    <3>1. Heard(job[q]) /\ Armed(job[q])
      BY <2>3 DEF RegInv, SecretInv
    <3>2. (job[q].heard => reg # NoReg /\ job[q].cmd \in MayStart)'
      BY <1>2, <2>1, <3>1, RestartFacts DEF Heard, Armed
    <3>3. PortKept(job[q].was)'
      BY <1>2, <2>1, <3>1, RestartFacts DEF Heard, PortKept
    <3>. QED
      BY <1>2, <2>1, <3>1, <3>2, <3>3, RestartFacts DEF Heard
  <2>. QED
    BY <2>1, <2>2, <2>3 DEF RegInv
<1>3. ASSUME NEW p \in Jobs, Step(p) \/ StepFails(p) \/ Kill(p) PROVE RegInv'
  BY <1>3, RegOther, RegBroker, RegBox, RegRecord, Zenon DEF Step
<1>. QED
  BY <1>1, <1>2, <1>3 DEF Next

-----------------------------------------------------------------------------
(* The mode.                                                               *)

\* The mode's invariant, when the one command became k.
LEMMA ModeBy ==
  ASSUME TypeOK, Flows, OneCommand, NEW p \in Jobs, NEW k, Becomes(p, k), Closed(k)'
  PROVE  ModeInv'
  BY Alone DEF ModeInv

\* A step that leaves the registration, and bootstraps nothing.
LEMMA ModeOn ==
  ASSUME TypeOK, Flows, OneCommand, ModeInv, NEW p \in Jobs, job[p] # NoJob, NEW k, Becomes(p, k),
         reg' = reg, Bootstrapped' => Bootstrapped, k.heard => job[p].heard,
         Now(job[p]) \notin {"run", "enforce"}, Now(k) \notin {"record", "register"}
  PROVE  ModeInv'
<1>1. Closed(job[p])
  BY DEF ModeInv
<1>2. Closed(k)'
  BY <1>1 DEF Closed
<1>. QED
  BY <1>2, ModeBy

\* A step that bootstraps nothing new and leaves the mode keeps it closed.
LEMMA ModeGo ==
  ASSUME TypeOK, Flows, OneCommand, ModeInv, NEW p \in Jobs, NEW s, At(p, s), Go(p),
         s \notin {"run", "enforce", "connect", "register"},
         reg' = reg, Bootstrapped' => Bootstrapped
  PROVE  ModeInv'
<1>. DEFINE j == job[p]
<1>1. PICK k : /\ Becomes(p, k) /\ Onward(j, k) /\ Kept(j, k) /\ Now(j) = s /\ j # NoJob
  BY Goes, Zenon
<1>2. k.heard = j.heard
  BY <1>1 DEF Kept
<1>3. Leads(j.cmd, s, Now(k))
  BY <1>1 DEF Onward
<1>4. Now(k) \notin {"record", "register"}
  <2>. HIDE DEF j
  <2>. QED
    BY <1>3 DEF Leads
<1>. QED
  BY <1>1, <1>2, <1>4, ModeOn

\* So does a failing step outside the bootstrap.
LEMMA ModeFail ==
  ASSUME TypeOK, Flows, OneCommand, ModeInv, NEW p \in Jobs, NEW s, At(p, s), Fail(p),
         s \notin {"run", "enforce"}, reg' = reg, Bootstrapped' => Bootstrapped
  PROVE  ModeInv'
<1>. DEFINE j == job[p]
<1>1. PICK k : Becomes(p, k) /\ Halts(k) /\ Kept(j, k) /\ Now(j) = s /\ j # NoJob
  BY Fails, Zenon
<1>2. k.heard = j.heard
  BY <1>1 DEF Kept
<1>3. Now(k) \notin {"record", "register"}
  BY <1>1 DEF Halts
<1>. QED
  BY <1>1, <1>2, <1>3, ModeOn

\* A step to somewhere that says nothing about the mode.
LEMMA ModeTurn ==
  ASSUME TypeOK, Flows, OneCommand, ModeInv, NEW p \in Jobs, NEW s, At(p, s), NEW k, Becomes(p, k),
         reg' = reg, Bootstrapped' => Bootstrapped, k.heard => job[p].heard,
         s \notin {"run", "enforce"}, Now(k) \notin {"record", "register"}
  PROVE  ModeInv'
<1>1. job[p] # NoJob /\ Now(job[p]) = s
  BY AtStep
<1>. QED
  BY <1>1, ModeOn

\* What a VM has to keep for it to be no more bootstrapped than it was.
LEMMA BootstrappedBy ==
  ASSUME state' = state, box' # NoBox => box # NoBox /\ box'.done = box.done
  PROVE  Bootstrapped' => Bootstrapped
  BY DEF Bootstrapped

\* The steps that talk to the broker open the mode for the bootstrap only.
LEMMA ModeBroker ==
  ASSUME TypeOK, Flows, OneCommand, SecretInv, ModeInv, NEW p \in Jobs,
         \/ Find(p) \/ Refresh(p) \/ Connect(p) \/ Fresh(p) \/ Register(p) \/ Retire(p)
         \/ SetMode(p, "open", "open") \/ SetMode(p, "enforce", "enforce") \/ Docker(p) \/ Check(p)
  PROVE  ModeInv'
<1>. DEFINE j == job[p]
<1>0. /\ box' = box /\ state' = state /\ (Bootstrapped' <=> Bootstrapped)
      /\ job[p] # NoJob => Closed(j) /\ Armed(j) /\ Gone(j)
  BY BrokerSteps DEF disk, Bootstrapped, ModeInv, SecretInv
<1>1. CASE Find(p)
  <2>1. At(p, "find") /\ reg' = reg
    BY <1>1 DEF Find
  <2>2. CASE Fail(p)
    BY <1>0, <2>1, <2>2, ModeFail
  <2>3. CASE ~Fail(p)
    <3>1. PICK k : /\ Becomes(p, k)
                   /\ k = [j EXCEPT !.todo = k.todo, !.on = k.on]
                   /\ \/ Now(k) \in {"end", "connect", "remove", "stop", "diff"}
                      \/ Now(k) = "refresh" /\ k.cmd = "restart"
                      \/ Now(k) \in {"fresh", "purge"} /\ box = NoBox
      BY <1>1, <2>3, FindStep, Zenon
    <3>2. j \in Works
      BY <2>1, AtStep
    <3>3. k.heard = j.heard
      BY <3>1, <3>2 DEF Works
    <3>4. Now(k) \notin {"record", "register"}
      BY <3>1
    <3>. QED
      BY <1>0, <2>1, <3>1, <3>3, <3>4, ModeTurn
  <2>. QED
    BY <2>2, <2>3
<1>2. CASE Refresh(p)
  <2>1. At(p, "refresh") /\ reg' = reg
    BY <1>2 DEF Refresh
  <2>2. CASE Fail(p)
    BY <1>0, <2>1, <2>2, ModeFail
  <2>3. CASE ~Fail(p)
    <3>1. PICK k : k = [j EXCEPT !.todo = Tail(j.todo), !.on = box.on]
      OBVIOUS
    <3>2. Becomes(p, k) /\ Now(k) = After(j)
      BY <1>2, <2>3, <3>1, RefreshStep, Zenon
    <3>3. j \in Works /\ Leads(j.cmd, "refresh", Now(k))
      BY <2>1, <3>2, AtStep
    <3>4. k.heard = j.heard
      BY <3>1, <3>3 DEF Works
    <3>5. Now(k) \notin {"record", "register"}
      BY <3>3 DEF Leads
    <3>. QED
      BY <1>0, <2>1, <3>2, <3>4, <3>5, ModeTurn
  <2>. QED
    BY <2>2, <2>3
<1>3. CASE Connect(p)
  <2>1. At(p, "connect") /\ reg' = reg
    BY <1>3 DEF Connect
  <2>2. j \in Works /\ j # NoJob /\ Now(j) = "connect"
    BY <2>1, AtStep
  <2>3. ASSUME NEW k, k = [j EXCEPT !.todo = Tail(Tail(j.todo))], Becomes(p, k), Now(k) = "boot"
        PROVE  ModeInv'
    <3>1. k.heard = j.heard
      BY <2>2, <2>3 DEF Works
    <3>2. Becomes(p, k) /\ Now(k) \notin {"record", "register"} /\ "connect" \notin {"run", "enforce"}
      BY <2>3
    <3>. QED
      BY <1>0, <2>1, <3>1, <3>2, ModeTurn, Zenon
  <2>4. ASSUME NEW k, state # NoRecord, Becomes(p, k), Now(k) = "register",
               k = [j EXCEPT !.todo = Tail(j.todo), !.port = state.port,
                             !.mode = IF state.boot THEN "enforce" ELSE "open"]
        PROVE  ModeInv'
    <3>1. k.heard = j.heard /\ k.mode = IF state.boot THEN "enforce" ELSE "open"
      BY <2>2, <2>4 DEF Works
    <3>2. Bootstrapped => k.mode = "enforce"
      BY <3>1 DEF Bootstrapped
    <3>3. Closed(k)'
      BY <1>0, <2>1, <2>2, <2>4, <3>1, <3>2 DEF Closed
    <3>. QED
      BY <2>4, <3>3, ModeBy
  <2>. QED
    BY <1>3, <2>3, <2>4, ConnectStep, Zenon
<1>4. CASE Fresh(p)
  <2>1. At(p, "fresh") /\ reg' = reg
    BY <1>4 DEF Fresh
  <2>2. j \in Works /\ j # NoJob /\ Now(j) = "fresh" /\ Flow(j)
    BY <2>1, AtStep
  <2>3. PICK k : /\ Becomes(p, k) /\ k = [j EXCEPT !.port = 0, !.mode = "open", !.todo = k.todo]
                 /\ Now(k) = "create" \/ (Now(k) = "register" /\ After(k) = "create")
    BY <1>4, FreshStep, Zenon
  <2>4. ~k.heard
    BY <2>2, <2>3 DEF Works, Flow
  <2>5. Closed(k)'
    BY <2>3, <2>4 DEF Closed
  <2>. QED
    BY <2>3, <2>5, ModeBy
<1>5. CASE Register(p)
  <2>1. At(p, "register")
    BY <1>5 DEF Register
  <2>2. j \in Works /\ j # NoJob /\ Now(j) = "register" /\ Leads(j.cmd, "register", After(j))
    BY <2>1, AtStep
  <2>3. j.cmd \in MayStart /\ (After(j) = "boot" \/ After(j) = "create")
    <3>. HIDE DEF j
    <3>1. (j.cmd \in MayStart \/ j.cmd \in Creating) /\ (After(j) = "boot" \/ After(j) = "create")
      BY <2>2 DEF Leads
    <3>. QED
      BY <3>1, CmdSets
  <2>4. secret # 0
    BY <1>0, <2>2, <2>3 DEF Armed
  <2>5. PICK port \in Ports :
          /\ LET k == [j EXCEPT !.todo = Tail(j.todo), !.port = port, !.heard = TRUE]
             IN Becomes(p, k) /\ Now(k) = After(j) /\ After(k) = Third(j)
          /\ reg' \in Regs /\ reg'.mode = j.mode
    BY <1>5, <2>4, RegisterStep, Zenon
  <2>6. PICK k : k = [j EXCEPT !.todo = Tail(j.todo), !.port = port, !.heard = TRUE]
    OBVIOUS
  <2>7. Becomes(p, k) /\ Now(k) = After(j)
    BY <2>5, <2>6, Zenon
  <2>8. Bootstrapped => j.mode = "enforce"
    <3>1. After(j) = "create" => ~Bootstrapped
      BY <1>0, <2>2 DEF Gone, Bootstrapped
    <3>. QED
      BY <1>0, <2>2, <2>3, <3>1 DEF Closed
  <2>9. Now(k) \notin {"record", "register"}
    BY <2>3, <2>7
  <2>10. Closed(k)'
    BY <1>0, <2>5, <2>8, <2>9 DEF Closed
  <2>. QED
    BY <2>7, <2>10, ModeBy
<1>6. CASE Retire(p)
  <2>1. At(p, "retire") /\ Go(p)
    BY <1>6 DEF Retire
  <2>2. PICK k : /\ Becomes(p, k) /\ Onward(j, k) /\ Kept(j, k) /\ Now(j) = "retire" /\ Flow(j)
    BY <2>1, Goes, Zenon
  <2>3. ~k.heard
    BY <2>2 DEF Kept, Flow
  <2>4. Now(k) \notin {"record", "register"}
    <3>1. Leads(j.cmd, "retire", Now(k))
      BY <2>2 DEF Onward
    <3>. QED
      BY <3>1 DEF Leads
  <2>5. Closed(k)'
    BY <2>3, <2>4 DEF Closed
  <2>. QED
    BY <2>2, <2>5, ModeBy
<1>7. ASSUME NEW s \in {"open", "enforce"}, NEW mode \in Modes, SetMode(p, s, mode), s = mode
      PROVE  ModeInv'
  <2>1. At(p, s)
    BY <1>7 DEF SetMode
  <2>2. j \in Works /\ j # NoJob /\ Leads(j.cmd, s, After(j))
    BY <2>1, AtStep
  <2>3. PICK k : k = [j EXCEPT !.todo = Tail(j.todo), !.heard = serving /\ reg # NoReg]
    OBVIOUS
  <2>4. /\ Becomes(p, k) /\ Now(k) = After(j)
        /\ reg = NoReg => reg' = NoReg
        /\ reg # NoReg => reg'.mode = IF serving THEN mode ELSE reg.mode
    BY <1>7, <2>3, SetModeStep, Zenon
  <2>5. k.heard = (serving /\ reg # NoReg)
    BY <2>2, <2>3 DEF Works
  <2>6. s = "open" => Now(k) = "run"
    <3>. HIDE DEF j
    <3>. QED
      BY <2>2, <2>4 DEF Leads
  <2>7. s = "enforce" => Now(k) = "record"
    <3>. HIDE DEF j
    <3>. QED
      BY <2>2, <2>4 DEF Leads
  <2>8. k.heard /\ reg' # NoReg => reg'.mode = s
    BY <1>7, <2>4, <2>5
  <2>9. s = "open" \/ s = "enforce"
    BY <1>7
  <2>10. Closed(k)'
    BY <2>6, <2>7, <2>8, <2>9 DEF Closed
  <2>. QED
    BY <2>4, <2>10, ModeBy
<1>8. CASE Docker(p)
  <2>1. At(p, "docker") /\ (Go(p) \/ Fail(p)) /\ reg' = reg
    BY <1>8 DEF Docker
  <2>. QED
    BY <1>0, <2>1, ModeGo, ModeFail
<1>9. CASE Check(p)
  <2>1. At(p, "check") /\ reg' = reg
    BY <1>9 DEF Check
  <2>2. j \in Works
    BY <2>1, AtStep
  <2>3. PICK k : /\ Becomes(p, k) /\ k = [j EXCEPT !.todo = k.todo]
                 /\ Now(k) = "end" \/ Now(k) = "open"
    BY <1>9, CheckStep, Zenon
  <2>4. k.heard = j.heard
    BY <2>2, <2>3 DEF Works
  <2>5. Now(k) \notin {"record", "register"}
    BY <2>3
  <2>. QED
    BY <1>0, <2>1, <2>3, <2>4, <2>5, ModeTurn
<1>10. "open" \in Modes /\ "enforce" \in Modes
  BY DEF Modes
<1>. QED
  BY <1>1, <1>2, <1>3, <1>4, <1>5, <1>6, <1>7, <1>8, <1>9, <1>10

\* The steps on the VM are bootstrapped only between opening and enforcing.
LEMMA ModeBox ==
  ASSUME TypeOK, Flows, OneCommand, ModeInv, NEW p \in Jobs,
         \/ Create(p) \/ Boot(p) \/ Stop(p) \/ Remove(p) \/ WriteGuest(p) \/ StageFiles(p)
         \/ RunBootstrap(p) \/ Modify(p)
  PROVE  ModeInv'
<1>. DEFINE j == job[p]
<1>0. reg' = reg /\ state' = state /\ box \in Boxes \cup {NoBox}
  BY BoxSteps DEF TypeOK
<1>1. CASE Create(p)
  <2>1. /\ At(p, "create")
        /\ \/ Fail(p) /\ box' = box
           \/ Go(p) /\ box'.done = "never"
    BY <1>1 DEF Create
  <2>2. Bootstrapped' => Bootstrapped
    BY <1>0, <2>1 DEF Bootstrapped
  <2>. QED
    BY <1>0, <2>1, <2>2, ModeGo, ModeFail
<1>2. CASE Boot(p)
  <2>1. At(p, "boot")
    BY <1>2 DEF Boot
  <2>2. CASE Fail(p) /\ box' = box
    BY <1>0, <2>1, <2>2, BootstrappedBy, ModeFail
  <2>3. CASE ~(Fail(p) /\ box' = box)
    <3>1. PICK k : k = [j EXCEPT !.todo = Tail(j.todo), !.halt = j.cmd \in Remodels]
      OBVIOUS
    <3>2. /\ box # NoBox /\ Becomes(p, k) /\ Now(k) = After(j)
          /\ box' = box \/ box' = [box EXCEPT !.on = TRUE, !.pass = j.pass]
      BY <1>2, <2>3, <3>1, BootStep, Zenon
    <3>3. j \in Works /\ Leads(j.cmd, "boot", Now(k))
      BY <2>1, <3>2, AtStep
    <3>4. k.heard = j.heard
      BY <3>1, <3>3 DEF Works
    <3>5. Now(k) \notin {"record", "register"}
      <4>. HIDE DEF j
      <4>. QED
        BY <3>3 DEF Leads
    <3>6. box'.done = box.done
      <4>1. box \in Boxes
        BY <1>0, <3>2
      <4>. QED
        BY <3>2, <4>1 DEF Boxes
    <3>7. Bootstrapped' => Bootstrapped
      BY <1>0, <3>2, <3>6, BootstrappedBy
    <3>. QED
      BY <1>0, <2>1, <3>2, <3>4, <3>5, <3>7, ModeTurn
  <2>. QED
    BY <2>2, <2>3
<1>3. CASE Stop(p)
  <2>1. At(p, "stop") /\ (Go(p) \/ Fail(p))
    BY <1>3 DEF Stop
  <2>2. box' # NoBox => box # NoBox /\ box'.done = box.done
    BY <1>0, <1>3 DEF Stop, Boxes
  <2>. QED
    BY <1>0, <2>1, <2>2, BootstrappedBy, ModeGo, ModeFail
<1>4. CASE Remove(p)
  <2>1. At(p, "remove") /\ box' = NoBox /\ (Go(p) \/ Fail(p))
    BY <1>4 DEF Remove
  <2>. QED
    BY <1>0, <2>1, BootstrappedBy, ModeGo, ModeFail
<1>5. CASE WriteGuest(p)
  <2>1. At(p, "guest") /\ (Go(p) \/ Fail(p))
    BY <1>5 DEF WriteGuest
  <2>2. box' # NoBox => box # NoBox /\ box'.done = box.done
    BY <1>0, <1>5 DEF WriteGuest, InGuest, Boxes
  <2>. QED
    BY <1>0, <2>1, <2>2, BootstrappedBy, ModeGo, ModeFail
<1>6. CASE StageFiles(p)
  <2>1. PICK s \in {"stage", "restage"} : At(p, s) /\ (Go(p) \/ Fail(p))
    BY <1>6 DEF StageFiles
  <2>2. s \notin {"run", "enforce", "connect", "register"}
    BY <2>1
  <2>3. box' = box \/ (box # NoBox /\ box' = [box EXCEPT !.files = Restaged(box.files, Stage(job[p].plan), StaleRoots(p))])
    BY <1>6, Zenon DEF StageFiles, InGuest
  <2>4. box' # NoBox => box # NoBox /\ box'.done = box.done
    BY <1>0, <2>3 DEF Boxes
  <2>. QED
    BY <1>0, <2>1, <2>2, <2>4, BootstrappedBy, ModeGo, ModeFail
<1>7. CASE RunBootstrap(p)
  <2>1. At(p, "run")
    BY <1>7 DEF RunBootstrap
  <2>2. PICK ok, k :
          /\ ok \in BOOLEAN /\ k = [j EXCEPT !.todo = Tail(j.todo), !.ok = ok]
          /\ Becomes(p, k) /\ Now(k) = After(j)
    BY <1>7, RunStep, Zenon
  <2>3. j \in Works /\ Leads(j.cmd, "run", Now(k))
    BY <2>1, <2>2, AtStep
  <2>4. Now(k) = "enforce"
    BY <2>3 DEF Leads
  <2>5. Closed(k)'
    BY <2>4 DEF Closed
  <2>. QED
    BY <2>2, <2>5, ModeBy
<1>8. CASE Modify(p)
  <2>1. At(p, "modify") /\ (Go(p) \/ Fail(p))
    BY <1>8 DEF Modify
  <2>2. box' # NoBox => box # NoBox /\ box'.done = box.done
    BY <1>8, ModifyStep, Zenon
  <2>. QED
    BY <1>0, <2>1, <2>2, BootstrappedBy, ModeGo, ModeFail
<1>. QED
  BY <1>1, <1>2, <1>3, <1>4, <1>5, <1>6, <1>7, <1>8

\* state.json says bootstrapped only of a sandbox in enforce mode.
LEMMA ModeRecord ==
  ASSUME TypeOK, Flows, OneCommand, ModeInv, TruthInv, NEW p \in Jobs,
         \/ Replan(p) \/ Save(p) \/ Record(p) \/ Note(p) \/ Purge(p) \/ Diff(p) \/ Update(p)
  PROVE  ModeInv'
<1>. DEFINE j == job[p]
<1>0. box' = box /\ reg' = reg /\ (job[p] # NoJob => Closed(j) /\ Told(j))
  BY RecordSteps DEF ModeInv, TruthInv
<1>1. CASE Replan(p)
  <2>1. At(p, "plan") /\ state' = state
    BY <1>1 DEF Replan, disk
  <2>2. PICK k : /\ Becomes(p, k)
                 /\ Now(k) = "open" \/ Now(k) = "restage"
                 /\ k = [j EXCEPT !.plan = kitchen, !.held = state, !.was = trust, !.todo = k.todo]
    BY <1>1, ReplanStep, Zenon
  <2>3. j \in Works
    BY <2>1, AtStep
  <2>4. k.heard = j.heard
    BY <2>2, <2>3 DEF Works
  <2>5. Now(k) \notin {"record", "register"}
    BY <2>2
  <2>. QED
    BY <1>0, <2>1, <2>2, <2>4, <2>5, BootstrappedBy, ModeTurn
<1>2. CASE Save(p)
  <2>1. At(p, "save") /\ Go(p) /\ ~state'.boot
    BY <1>2 DEF Save
  <2>2. ~Bootstrapped'
    BY <2>1 DEF Bootstrapped
  <2>. QED
    BY <1>0, <2>1, <2>2, ModeGo
<1>3. CASE Record(p)
  <2>1. At(p, "record") /\ (Go(p) \/ Fail(p))
    BY <1>3 DEF Record
  <2>2. PICK k : /\ Becomes(p, k) /\ (Onward(j, k) \/ Halts(k)) /\ Kept(j, k)
                 /\ Now(j) = "record" /\ j # NoJob
    BY <2>1, Goes, Fails, Zenon
  <2>3. Now(k) \notin {"record", "register"}
    BY <2>2 DEF Onward, Halts, Leads
  <2>4. k.heard = j.heard
    BY <2>2 DEF Kept
  <2>5. k.heard /\ reg' # NoReg => reg'.mode = "enforce"
    BY <1>0, <2>2, <2>4 DEF Closed
  <2>6. Closed(k)'
    BY <2>3, <2>5 DEF Closed
  <2>. QED
    BY <2>2, <2>6, ModeBy
<1>4. CASE Note(p)
  <2>1. /\ At(p, "note") /\ Go(p)
        /\ state' = IF j.held = NoRecord THEN state ELSE [j.held EXCEPT !.staged = Stage(j.plan)]
    BY <1>4 DEF Note
  <2>2. j \in Works /\ j # NoJob /\ Now(j) = "note"
    BY <2>1, AtStep
  <2>3. j.held = state /\ j.held \in Records \cup {NoRecord}
    BY <1>0, <2>2, JobType DEF Told
  <2>4. state' # NoRecord => state # NoRecord /\ state'.boot = state.boot
    <3>. HIDE DEF j
    <3>. QED
      BY <2>1, <2>3 DEF Records
  <2>5. Bootstrapped' => Bootstrapped
    BY <1>0, <2>4 DEF Bootstrapped
  <2>. QED
    BY <1>0, <2>1, <2>5, ModeGo
<1>5. CASE Purge(p)
  <2>1. At(p, "purge") /\ Go(p) /\ state' = NoRecord
    BY <1>5 DEF Purge
  <2>2. ~Bootstrapped'
    BY <2>1 DEF Bootstrapped
  <2>. QED
    BY <1>0, <2>1, <2>2, ModeGo
<1>6. CASE Diff(p)
  <2>1. At(p, "diff") /\ state' = state
    BY <1>6 DEF Diff, disk
  <2>2. j \in Works
    BY <2>1, AtStep
  <2>3. Bootstrapped' => Bootstrapped
    BY <1>0, <2>1, BootstrappedBy
  <2>4. CASE Fail(p)
    BY <1>0, <2>1, <2>3, <2>4, ModeFail
  <2>5. ASSUME NEW k, Becomes(p, k), Now(k) = "find",
               k = [j EXCEPT !.cmd = k.cmd, !.plan = kitchen, !.todo = k.todo]
        PROVE  ModeInv'
    <3>1. k.heard = j.heard
      BY <2>2, <2>5 DEF Works
    <3>2. Now(k) \notin {"record", "register"}
      BY <2>5
    <3>. QED
      BY <1>0, <2>1, <2>3, <2>5, <3>1, <3>2, ModeTurn
  <2>6. ASSUME NEW k, Becomes(p, k), Now(k) = "end" \/ Now(k) = "modify",
               k = [j EXCEPT !.held = state, !.was = trust, !.groups = SdkGroups(j.plan), !.todo = k.todo]
        PROVE  ModeInv'
    <3>1. k.heard = j.heard
      BY <2>2, <2>6 DEF Works
    <3>2. Now(k) \notin {"record", "register"}
      BY <2>6
    <3>. QED
      BY <1>0, <2>1, <2>3, <2>6, <3>1, <3>2, ModeTurn
  <2>. QED
    BY <1>6, <2>4, <2>5, <2>6, DiffStep, Zenon
<1>7. CASE Update(p)
  <2>. DEFINE plan == j.plan
              applied == WithoutRecreate(j.held.applied, Config(plan))
              held == [j.held EXCEPT !.applied = applied]
  <2>1. /\ At(p, "update") /\ Go(p)
        /\ \/ state' = held
           \/ state' = [held EXCEPT !.text = plan.text, !.staged = Stage(plan)]
    BY <1>7, Zenon DEF Update
  <2>2. j \in Works /\ j # NoJob /\ Now(j) = "update" /\ Flow(j)
    BY <2>1, AtStep
  <2>3. j.held = state /\ j.held # NoRecord /\ j.held \in Records
    BY <1>0, <2>2, JobType DEF Told, Flow
  <2>4. state'.boot = state.boot
    <3>. HIDE DEF applied, plan, j
    <3>. QED
      BY <2>1, <2>3 DEF Records
  <2>5. Bootstrapped' => Bootstrapped
    BY <1>0, <2>3, <2>4 DEF Bootstrapped
  <2>. QED
    BY <1>0, <2>1, <2>5, ModeGo
<1>. QED
  BY <1>1, <1>2, <1>3, <1>4, <1>5, <1>6, <1>7

\* Ending, failing and being killed open nothing.
LEMMA ModeOther ==
  ASSUME TypeOK, Flows, OneCommand, ModeInv, NEW p \in Jobs, Begin(p) \/ End(p) \/ Kill(p) \/ StepFails(p)
  PROVE  ModeInv'
<1>0. box' = box /\ reg' = reg /\ state' = state
  BY OtherSteps
<1>1. CASE Begin(p)
  <2>1. PICK cmd, k : cmd \in Commands /\ k = Begun(cmd) /\ Becomes(p, k) /\ Now(k) = "find"
    BY <1>1, BeginStep, Zenon
  <2>2. ~k.heard
    BY <2>1 DEF Begun
  <2>3. Closed(k)'
    BY <2>1, <2>2 DEF Closed
  <2>. QED
    BY <2>1, <2>3, ModeBy
<1>2. CASE End(p) \/ Kill(p)
  <2>1. job' = [job EXCEPT ![p] = NoJob]
    BY <1>2 DEF End, Kill
  <2>2. \A q \in Jobs : job'[q] = NoJob
    BY <2>1, OverStep DEF OneCommand
  <2>. QED
    BY <2>2 DEF ModeInv
<1>3. CASE StepFails(p)
  <2>1. PICK s \in Fallible : At(p, s)
    BY <1>3 DEF StepFails
  <2>2. Fail(p)
    BY <1>3 DEF StepFails
  <2>3. s \notin {"run", "enforce"}
    BY <2>1 DEF Fallible
  <2>. QED
    BY <1>0, <2>1, <2>2, <2>3, BootstrappedBy, ModeFail
<1>. QED
  BY <1>1, <1>2, <1>3

\* What is bootstrapped is in enforce mode, at every await point but the
\* bootstrap's own.
LEMMA ModeInvKept ==
  ASSUME OneCommand
  PROVE  TypeOK /\ Flows /\ SecretInv /\ ModeInv /\ TruthInv /\ [Next]_vars => ModeInv'
<1>. SUFFICES ASSUME TypeOK, Flows, SecretInv, ModeInv, TruthInv, [Next]_vars PROVE ModeInv'
  OBVIOUS
<1>1. CASE UNCHANGED vars
  BY <1>1 DEF vars, ModeInv, Closed, Bootstrapped
<1>2. CASE Edit \/ Outage \/ BrokerStart
  <2>1. UNCHANGED <<state, box, job>>
    BY <1>2, AroundSteps
  <2>. QED
    BY <1>2, <2>1, RestartFacts DEF ModeInv, Closed, Bootstrapped
<1>3. ASSUME NEW p \in Jobs, Step(p) \/ StepFails(p) \/ Kill(p) PROVE ModeInv'
  BY <1>3, ModeOther, ModeBroker, ModeBox, ModeRecord, Zenon DEF Step
<1>. QED
  BY <1>1, <1>2, <1>3 DEF Next

-----------------------------------------------------------------------------
(* The record.                                                             *)

\* The record's invariant, when the one command became k.
LEMMA TruthBy ==
  ASSUME TypeOK, Flows, OneCommand, NEW p \in Jobs, NEW k, Becomes(p, k), TruthKept', Told(k)'
  PROVE  TruthInv'
  BY Alone DEF TruthInv

\* A command that has nothing to tell about the record.
Idle(j) ==
  /\ Now(j) \notin {"guest", "stage", "save", "restage", "note", "modify", "update",
                    "open", "run", "enforce", "record"}
  /\ ~Partway(j)

\* A command with nothing to tell keeps the record's invariant.
LEMMA TruthIdle ==
  ASSUME TypeOK, Flows, OneCommand, NEW p \in Jobs, NEW k, Becomes(p, k), Idle(k), TruthKept'
  PROVE  TruthInv'
<1>1. /\ Now(k) \notin {"guest", "stage", "save", "restage", "note", "modify", "update"} /\ (~Partway(k))'
      /\ Now(k) \notin {"open", "run", "enforce", "record"}
  BY DEF Idle, Partway
<1>2. Created(k)'
  BY <1>1 DEF Created
<1>3. Remodelled(k)'
  BY <1>1 DEF Remodelled
<1>4. Rebootstrapped(k)'
  BY <1>1 DEF Rebootstrapped
<1>5. Told(k)'
  BY <1>1, <1>2, <1>3, <1>4 DEF Told
<1>. QED
  BY <1>5, TruthBy

\* What the record is about stays as it is.
SameBox ==
  box' # NoBox =>
    /\ box # NoBox /\ box'.res = box.res /\ box'.fixed = box.fixed /\ box'.user = box.user
    /\ box'.port = box.port /\ box'.guest = box.guest /\ box'.files = box.files /\ box'.done = box.done

\* A record that described the VM goes on to do so while both stay.
LEMMA TruthStays ==
  ASSUME TruthKept, state' = state, trust' => trust, SameBox PROVE TruthKept'
  BY DEF TruthKept, Describes, Proven, Configured, SameBox

\* A failing step changes neither the record nor the VM.
LEMMA TruthFail ==
  ASSUME TypeOK, Flows, OneCommand, NEW p \in Jobs, NEW s, At(p, s), Fail(p), TruthKept'
  PROVE  TruthInv'
<1>1. PICK k : Becomes(p, k) /\ Halts(k)
  BY Fails, Zenon
<1>2. Idle(k)
  BY <1>1 DEF Halts, Idle, Partway
<1>. QED
  BY <1>1, <1>2, TruthIdle

\* A step of `remodel` between the record and the VM.
LEMMA TruthPart ==
  ASSUME TypeOK, Flows, OneCommand, TruthInv, NEW p \in Jobs, job[p] # NoJob, NEW k, Becomes(p, k),
         state' = state, trust' = trust, SameBox,
         k.cmd = job[p].cmd, k.plan = job[p].plan, k.held = job[p].held, k.was = job[p].was,
         Partway(k) => Partway(job[p]),
         Now(k) \notin {"stage", "save", "restage", "note", "modify", "update", "open", "run", "enforce", "record"},
         Now(k) = "guest" => k.cmd \in Remodels
  PROVE  TruthInv'
<1>. DEFINE j == job[p]
<1>1. TruthKept'
  BY TruthStays DEF TruthInv
<1>2. Told(j)
  BY DEF TruthInv
<1>3. Created(k)'
  <2>1. Now(k) = "guest" => k.cmd \notin Creating
    BY CmdSets, Zenon
  <2>. QED
    BY <2>1 DEF Created
<1>4. Rebootstrapped(k)'
  BY DEF Rebootstrapped
<1>5. Remodelled(k)'
  <2>1. Remodelled(j)
    BY <1>2 DEF Told
  <2>2. Partway(k)' = Partway(k)
    BY DEF Partway
  <2>. SUFFICES ASSUME Partway(k), k.was, box' # NoBox
                PROVE  (/\ state # NoRecord /\ k.held # NoRecord
                        /\ Configured(state.applied) /\ state.port = box.port
                        /\ state.text = k.plan.text /\ state.staged = Stage(k.plan)
                        /\ box.files = k.held.staged)'
    BY <2>2 DEF Remodelled
  <2>3. /\ state # NoRecord /\ j.held # NoRecord
        /\ Configured(state.applied) /\ state.port = box.port
        /\ state.text = j.plan.text /\ state.staged = Stage(j.plan)
        /\ box.files = j.held.staged
    BY <2>1 DEF Remodelled, SameBox
  <2>4. Configured(state.applied)'
    BY <2>3 DEF Configured, SameBox
  <2>5. (box.port = box.port)' /\ box'.port = box.port /\ box'.files = box.files
    BY DEF SameBox
  <2>6. Stage(k.plan) = Stage(j.plan)
    BY DEF Stage
  <2>. QED
    BY <2>3, <2>4, <2>5, <2>6
<1>6. Now(k) = "guest" => Partway(k)
  BY DEF Partway
<1>7. (Now(k) \in {"guest", "stage", "save", "restage", "note", "modify", "update"} \/ Partway(k) => ~trust)'
  <2>1. Partway(k)' = Partway(k)
    BY DEF Partway
  <2>. QED
    BY <1>2, <1>6, <2>1 DEF Told
<1>8. Told(k)'
  BY <1>3, <1>4, <1>5, <1>7 DEF Told
<1>. QED
  BY <1>1, <1>8, TruthBy

\* A step around the bootstrapping.
LEMMA TruthBooted ==
  ASSUME TypeOK, Flows, OneCommand, TruthInv, NEW p \in Jobs, job[p] # NoJob, NEW k, Becomes(p, k),
         state' = state, trust' = trust, box' = box,
         k.was = job[p].was, k.ok = job[p].ok, Now(job[p]) \in {"open", "run", "enforce"},
         \/ Now(k) = "run"
         \/ Now(k) = "record" /\ Now(job[p]) = "enforce"
  PROVE  TruthInv'
<1>. DEFINE j == job[p]
<1>1. TruthKept'
  BY DEF TruthInv, TruthKept, Describes, Configured, Proven
<1>2. Rebootstrapped(j)
  BY DEF TruthInv, Told
<1>3. /\ j.was /\ box # NoBox => state # NoRecord /\ Describes(state)
      /\ Now(k) = "record" /\ j.ok /\ box # NoBox => box.done = <<box.guest, box.files>>
  BY <1>2 DEF Rebootstrapped
<1>4. Rebootstrapped(k)'
  BY <1>3 DEF Rebootstrapped, Describes, Configured
<1>5. (~Partway(k))' /\ Created(k)' /\ Now(k) \notin {"modify", "update", "guest", "stage", "save", "restage", "note"}
  BY DEF Partway, Created
<1>6. Remodelled(k)'
  BY <1>5 DEF Remodelled
<1>7. Told(k)'
  BY <1>4, <1>5, <1>6, SMTT(60) DEF Told
<1>. QED
  BY <1>1, <1>7, TruthBy

\* The steps that talk to the broker change neither the record nor the VM.
LEMMA TruthBroker ==
  ASSUME TypeOK, Flows, OneCommand, TruthInv, NEW p \in Jobs,
         \/ Find(p) \/ Refresh(p) \/ Connect(p) \/ Fresh(p) \/ Register(p) \/ Retire(p)
         \/ SetMode(p, "open", "open") \/ SetMode(p, "enforce", "enforce") \/ Docker(p) \/ Check(p)
  PROVE  TruthInv'
<1>. DEFINE j == job[p]
<1>0. box' = box /\ state' = state /\ trust' = trust
  BY BrokerSteps, Zenon DEF disk, Find, Refresh, Connect, Fresh, Register, Retire, SetMode, Docker, Check
<1>a. SameBox /\ TruthKept'
  BY <1>0, TruthStays DEF SameBox, TruthInv
<1>1. CASE Find(p)
  <2>1. At(p, "find")
    BY <1>1 DEF Find
  <2>2. CASE Fail(p)
    BY <1>a, <2>1, <2>2, TruthFail
  <2>3. CASE ~Fail(p)
    <3>1. PICK k : /\ Becomes(p, k)
                   /\ \/ Now(k) \in {"end", "connect", "remove", "stop", "diff"}
                      \/ Now(k) = "refresh" /\ k.cmd = "restart"
                      \/ Now(k) \in {"fresh", "purge"} /\ box = NoBox
                   /\ k.cmd \in Remodels => Now(k) = "diff"
      BY <1>1, <2>3, FindStep, Zenon
    <3>2. Idle(k)
      BY <3>1 DEF Idle, Partway
    <3>. QED
      BY <1>a, <3>1, <3>2, TruthIdle
  <2>. QED
    BY <2>2, <2>3
<1>2. CASE Refresh(p)
  <2>1. At(p, "refresh")
    BY <1>2 DEF Refresh
  <2>2. CASE Fail(p)
    BY <1>a, <2>1, <2>2, TruthFail
  <2>3. CASE ~Fail(p)
    <3>1. PICK k : k = [j EXCEPT !.todo = Tail(j.todo), !.on = box.on]
      OBVIOUS
    <3>2. Becomes(p, k) /\ Now(k) = After(j)
      BY <1>2, <2>3, <3>1, RefreshStep, Zenon
    <3>3. j \in Works /\ j # NoJob /\ Now(j) = "refresh" /\ Leads(j.cmd, "refresh", Now(k))
      BY <2>1, <3>2, AtStep
    <3>4. k.cmd = j.cmd /\ k.plan = j.plan /\ k.held = j.held /\ k.was = j.was
      BY <3>1, <3>3 DEF Works
    <3>5. Now(k) = "connect" \/ Now(k) = "stop"
      <4>. HIDE DEF j
      <4>. QED
        BY <3>3 DEF Leads
    <3>6. Partway(k) => Partway(j)
      BY <3>2, <3>3, <3>4, <3>5 DEF Partway
    <3>7. Now(k) \notin {"guest", "stage", "save", "restage", "note", "modify", "update", "open", "run", "enforce", "record"}
      BY <3>5
    <3>. QED
      BY <1>0, <1>a, <3>2, <3>3, <3>4, <3>6, <3>7, TruthPart
  <2>. QED
    BY <2>2, <2>3
<1>3. CASE Connect(p)
  <2>1. At(p, "connect")
    BY <1>3 DEF Connect
  <2>2. j \in Works /\ j # NoJob /\ Now(j) = "connect"
    BY <2>1, AtStep
  <2>3. ASSUME NEW k, Becomes(p, k), Now(k) = "boot" \/ Now(k) = "register",
               k.cmd = j.cmd, k.plan = j.plan, k.held = j.held, k.was = j.was
        PROVE  TruthInv'
    <3>1. Partway(k) => Partway(j)
      BY <2>2, <2>3 DEF Partway
    <3>2. Now(k) \notin {"guest", "stage", "save", "restage", "note", "modify", "update", "open", "run", "enforce", "record"}
      BY <2>3
    <3>. QED
      BY <1>0, <1>a, <2>2, <2>3, <3>1, <3>2, TruthPart
  <2>4. ASSUME NEW k, k = [j EXCEPT !.todo = Tail(Tail(j.todo))], Becomes(p, k), Now(k) = "boot"
        PROVE  TruthInv'
    <3>1. k.cmd = j.cmd /\ k.plan = j.plan /\ k.held = j.held /\ k.was = j.was
      BY <2>2, <2>4 DEF Works
    <3>. QED
      BY <2>3, <2>4, <3>1, Zenon
  <2>5. ASSUME NEW k, Becomes(p, k), Now(k) = "register",
               k = [j EXCEPT !.todo = Tail(j.todo), !.port = state.port,
                             !.mode = IF state.boot THEN "enforce" ELSE "open"]
        PROVE  TruthInv'
    <3>1. k.cmd = j.cmd /\ k.plan = j.plan /\ k.held = j.held /\ k.was = j.was
      BY <2>2, <2>5 DEF Works
    <3>. QED
      BY <2>3, <2>5, <3>1, Zenon
  <2>. QED
    BY <1>3, <2>4, <2>5, ConnectStep, Zenon
<1>4. CASE Fresh(p)
  <2>1. At(p, "fresh")
    BY <1>4 DEF Fresh
  <2>2. j \in Works /\ Leads(j.cmd, "fresh", After(j))
    BY <2>1, AtStep
  <2>3. PICK k : /\ Becomes(p, k) /\ k = [j EXCEPT !.port = 0, !.mode = "open", !.todo = k.todo]
                 /\ Now(k) = "create" \/ (Now(k) = "register" /\ After(k) = "create")
    BY <1>4, FreshStep, Zenon
  <2>4. k.cmd = j.cmd
    BY <2>2, <2>3 DEF Works
  <2>5. k.cmd \notin Remodels
    <3>1. j.cmd \in Creating
      BY <2>2 DEF Leads
    <3>. QED
      BY <2>4, <3>1, CmdSets, Zenon
  <2>6. Idle(k)
    BY <2>3, <2>5 DEF Idle, Partway
  <2>. QED
    BY <1>a, <2>3, <2>6, TruthIdle
<1>5. CASE Register(p)
  <2>1. At(p, "register")
    BY <1>5 DEF Register
  <2>2. j \in Works /\ j # NoJob /\ Now(j) = "register" /\ Leads(j.cmd, "register", After(j))
    BY <2>1, AtStep
  <2>3. CASE Fail(p)
    BY <1>a, <2>1, <2>3, TruthFail
  <2>4. CASE ~Fail(p)
    <3>1. PICK port \in Ports :
            LET k == [j EXCEPT !.todo = Tail(j.todo), !.port = port, !.heard = TRUE]
            IN Becomes(p, k) /\ Now(k) = After(j) /\ After(k) = Third(j)
      BY <1>5, <2>4, RegisterStep, Zenon
    <3>2. PICK k : k = [j EXCEPT !.todo = Tail(j.todo), !.port = port, !.heard = TRUE]
      OBVIOUS
    <3>3. Becomes(p, k) /\ Now(k) = After(j)
      BY <3>1, <3>2, Zenon
    <3>4. k.cmd = j.cmd /\ k.plan = j.plan /\ k.held = j.held /\ k.was = j.was
      BY <2>2, <3>2 DEF Works
    <3>5. Now(k) = "boot" \/ Now(k) = "create"
      <4>. HIDE DEF j
      <4>. QED
        BY <2>2, <3>3 DEF Leads
    <3>6. Partway(k) => Partway(j)
      BY <2>2, <3>4 DEF Partway
    <3>7. Now(k) \notin {"guest", "stage", "save", "restage", "note", "modify", "update", "open", "run", "enforce", "record"}
      BY <3>5
    <3>. QED
      BY <1>0, <1>a, <2>2, <3>3, <3>4, <3>6, <3>7, TruthPart
  <2>. QED
    BY <2>3, <2>4
<1>6. CASE Retire(p)
  <2>1. At(p, "retire") /\ Go(p)
    BY <1>6 DEF Retire
  <2>2. PICK k : Becomes(p, k) /\ Onward(j, k) /\ Now(j) = "retire"
    BY <2>1, Goes, Zenon
  <2>3. Now(k) = "fresh" \/ Now(k) = "end" \/ Now(k) = "purge"
    <3>1. Leads(j.cmd, "retire", Now(k))
      BY <2>2 DEF Onward
    <3>. QED
      BY <3>1 DEF Leads
  <2>4. Idle(k)
    BY <2>3 DEF Idle, Partway
  <2>. QED
    BY <1>a, <2>2, <2>4, TruthIdle
<1>7. ASSUME NEW s \in {"open", "enforce"}, NEW mode \in Modes, SetMode(p, s, mode)
      PROVE  TruthInv'
  <2>1. At(p, s)
    BY <1>7 DEF SetMode
  <2>2. j \in Works /\ j # NoJob /\ Now(j) = s /\ Leads(j.cmd, s, After(j))
    BY <2>1, AtStep
  <2>3. PICK k : k = [j EXCEPT !.todo = Tail(j.todo), !.heard = serving /\ reg # NoReg]
    OBVIOUS
  <2>4. Becomes(p, k) /\ Now(k) = After(j)
    BY <1>7, <2>3, SetModeStep, Zenon
  <2>5. k.was = j.was /\ k.ok = j.ok
    BY <2>2, <2>3 DEF Works
  <2>6. s = "open" \/ s = "enforce"
    BY <1>7
  <2>7. Now(k) = "run" \/ (Now(k) = "record" /\ Now(j) = "enforce")
    <3>. HIDE DEF j
    <3>. QED
      BY <2>2, <2>4, <2>6 DEF Leads
  <2>8. Now(j) \in {"open", "run", "enforce"}
    BY <2>2, <2>6
  <2>. QED
    BY <1>0, <2>2, <2>4, <2>5, <2>7, <2>8, TruthBooted
<1>8. CASE Docker(p)
  <2>1. At(p, "docker") /\ (Go(p) \/ Fail(p))
    BY <1>8 DEF Docker
  <2>2. CASE Fail(p)
    BY <1>a, <2>1, <2>2, TruthFail
  <2>3. CASE Go(p)
    <3>1. PICK k : Becomes(p, k) /\ Onward(j, k) /\ Now(j) = "docker"
      BY <2>1, <2>3, Goes, Zenon
    <3>2. Now(k) = "check" \/ Now(k) = "plan" \/ Now(k) = "end"
      <4>1. Leads(j.cmd, "docker", Now(k))
        BY <3>1 DEF Onward
      <4>. QED
        BY <4>1 DEF Leads
    <3>3. Idle(k)
      BY <3>2 DEF Idle, Partway
    <3>. QED
      BY <1>a, <3>1, <3>3, TruthIdle
  <2>. QED
    BY <2>1, <2>2, <2>3
<1>9. CASE Check(p)
  <2>1. At(p, "check")
    BY <1>9 DEF Check
  <2>2. j \in Works /\ Flow(j) /\ Leads(j.cmd, "check", After(j))
    BY <2>1, AtStep
  <2>3. PICK k : /\ Becomes(p, k) /\ k = [j EXCEPT !.todo = k.todo]
                 /\ Now(k) = "end" \/ Now(k) = "open"
    BY <1>9, CheckStep, Zenon
  <2>4. k.was = j.was /\ ~j.was
    <3>1. j.cmd \in Creating
      BY <2>2 DEF Leads
    <3>. QED
      BY <2>2, <2>3, <3>1 DEF Works, Flow
  <2>5. Created(k)' /\ (~Partway(k))' /\ Rebootstrapped(k)'
    BY <2>3, <2>4 DEF Created, Partway, Rebootstrapped
  <2>6. Remodelled(k)'
    BY <2>3, <2>5 DEF Remodelled
  <2>7. Told(k)'
    BY <2>3, <2>5, <2>6 DEF Told
  <2>. QED
    BY <1>a, <2>3, <2>7, TruthBy
<1>10. "open" \in Modes /\ "enforce" \in Modes
  BY DEF Modes
<1>. QED
  BY <1>1, <1>2, <1>3, <1>4, <1>5, <1>6, <1>7, <1>8, <1>9, <1>10

\* Staging leaves nothing of the stage before, when that is what the record
\* says is there.
LEMMA RestagedAll ==
  ASSUME NEW plan \in Projects, NEW files, NEW stale, DOMAIN files \ stale \subseteq plan.text.roots
  PROVE  Restaged(files, Stage(plan), stale) = Stage(plan)
<1>. DEFINE stage == Stage(plan)
<1>1. DOMAIN stage = plan.text.roots /\ stage = [r \in plan.text.roots |-> plan.content]
  BY DEF Stage
<1>2. \A r \in plan.text.roots : stage[r] = plan.content
  BY <1>1
<1>. HIDE DEF stage
<1>3. Restaged(files, stage, stale) = [r \in plan.text.roots |-> plan.content]
  <2>1. (DOMAIN files \ stale) \cup DOMAIN stage = plan.text.roots
    BY <1>1
  <2>2. Restaged(files, stage, stale)
          = [r \in plan.text.roots |-> IF r \in DOMAIN stage THEN stage[r] ELSE files[r]]
    BY <2>1, Zenon DEF Restaged
  <2>. QED
    BY <1>1, <1>2, <2>2
<1>. QED
  BY <1>1, <1>3 DEF stage

\* What one field's change leaves alone.
LEMMA FilesBox ==
  ASSUME NEW b \in Boxes, NEW files
  PROVE  LET c == [b EXCEPT !.files = files]
         IN /\ c.files = files /\ c.res = b.res /\ c.fixed = b.fixed /\ c.user = b.user
            /\ c.port = b.port /\ c.guest = b.guest /\ c.done = b.done
  BY DEF Boxes

\* The VM after its guest configuration was written.
LEMMA GuestBox ==
  ASSUME NEW b \in Boxes, NEW guest
  PROVE  LET c == [b EXCEPT !.guest = guest]
         IN /\ c.guest = guest /\ c.res = b.res /\ c.fixed = b.fixed /\ c.user = b.user
            /\ c.port = b.port /\ c.files = b.files /\ c.done = b.done
  BY DEF Boxes

\* The VM after a bootstrap.
LEMMA DoneBox ==
  ASSUME NEW b \in Boxes, NEW done
  PROVE  LET c == [b EXCEPT !.done = done]
         IN /\ c.done = done /\ c.res = b.res /\ c.fixed = b.fixed /\ c.user = b.user
            /\ c.port = b.port /\ c.files = b.files /\ c.guest = b.guest
  BY DEF Boxes

\* `create` makes the VM of the plan, which nobody trusts the record of yet.
LEMMA TruthCreate ==
  ASSUME TypeOK, Flows, OneCommand, TruthInv, NEW p \in Jobs, Create(p)
  PROVE  TruthInv'
<1>. DEFINE j == job[p]
<1>0. At(p, "create") /\ state' = state
  BY DEF Create, disk
<1>1. CASE box # NoBox
  <2>1. Fail(p) /\ box' = box /\ trust' = trust
    BY <1>1 DEF Create
  <2>2. TruthKept'
    BY <1>0, <2>1, TruthStays DEF SameBox, TruthInv
  <2>. QED
    BY <1>0, <2>1, <2>2, TruthFail
<1>2. CASE box = NoBox
  <2>1. /\ Go(p) /\ trust' = FALSE
        /\ box' = [on |-> TRUE, res |-> j.plan.text.res, env |-> j.plan.text.env, fixed |-> j.plan.text.fixed,
                   user |-> j.plan.text.user, port |-> j.port, pass |-> j.pass,
                   guest |-> "none", files |-> <<>>, done |-> "never"]
    BY <1>2 DEF Create
  <2>2. PICK k : /\ Becomes(p, k) /\ Onward(j, k) /\ Kept(j, k) /\ Now(j) = "create"
    BY <1>0, <2>1, Goes, Zenon
  <2>3. Now(k) = "guest" /\ j.cmd \in Creating
    <3>1. Leads(j.cmd, "create", Now(k))
      BY <2>2, Zenon DEF Onward
    <3>. QED
      BY <3>1 DEF Leads
  <2>4. k.cmd = j.cmd /\ k.plan = j.plan
    BY <2>2 DEF Kept
  <2>5. k.cmd \notin Remodels
    BY <2>3, <2>4, CmdSets, Zenon
  <2>6. /\ box'.res = k.plan.text.res /\ box'.fixed = k.plan.text.fixed /\ box'.user = k.plan.text.user
        /\ box'.files = <<>>
    BY <2>1, <2>4
  <2>7. Created(k)'
    BY <2>3, <2>6 DEF Created, Configured, Config
  <2>8. Remodelled(k)' /\ Rebootstrapped(k)'
    BY <2>3, <2>5 DEF Remodelled, Rebootstrapped, Partway
  <2>9. Told(k)'
    BY <2>1, <2>3, <2>7, <2>8 DEF Told
  <2>10. TruthKept'
    BY <2>1 DEF TruthKept
  <2>. QED
    BY <2>2, <2>9, <2>10, TruthBy
<1>. QED
  BY <1>1, <1>2

\* A VM that starts is configured as before.
LEMMA TruthBoot ==
  ASSUME TypeOK, Flows, OneCommand, TruthInv, NEW p \in Jobs, Boot(p)
  PROVE  TruthInv'
<1>. DEFINE j == job[p]
<1>0. At(p, "boot") /\ state' = state /\ trust' = trust
  BY DEF Boot, disk
<1>1. CASE Fail(p) /\ box' = box
  <2>1. TruthKept'
    BY <1>0, <1>1, TruthStays DEF SameBox, TruthInv
  <2>. QED
    BY <1>0, <1>1, <2>1, TruthFail
<1>2. CASE ~(Fail(p) /\ box' = box)
  <2>1. PICK k : k = [j EXCEPT !.todo = Tail(j.todo), !.halt = j.cmd \in Remodels]
    OBVIOUS
  <2>2. /\ box # NoBox /\ Becomes(p, k) /\ Now(k) = After(j)
        /\ box' = box \/ box' = [box EXCEPT !.on = TRUE, !.pass = j.pass]
    BY <1>2, <2>1, BootStep, Zenon
  <2>3. j \in Works /\ j # NoJob /\ Now(j) = "boot" /\ Leads(j.cmd, "boot", Now(k))
    BY <1>0, <2>2, AtStep
  <2>4. k.cmd = j.cmd /\ k.plan = j.plan /\ k.held = j.held /\ k.was = j.was
    BY <2>1, <2>3 DEF Works
  <2>5. Now(k) = "docker" \/ Now(k) = "end" \/ (Now(k) = "guest" /\ k.cmd \in Remodels)
    <3>. HIDE DEF j
    <3>. QED
      BY <2>3, <2>4 DEF Leads
  <2>6. SameBox
    <3>1. box \in Boxes
      BY <2>2 DEF TypeOK
    <3>. QED
      BY <2>2, <3>1 DEF SameBox, Boxes
  <2>7. Partway(k) => Partway(j)
    BY <2>3, <2>4 DEF Partway
  <2>8. /\ Now(k) \notin {"stage", "save", "restage", "note", "modify", "update", "open", "run", "enforce", "record"}
        /\ Now(k) = "guest" => k.cmd \in Remodels
    BY <2>5
  <2>. QED
    BY <1>0, <2>2, <2>3, <2>4, <2>6, <2>7, <2>8, TruthPart
<1>. QED
  BY <1>1, <1>2

\* A VM that stops is configured as before; one that is removed needs no record.
LEMMA TruthStop ==
  ASSUME TypeOK, Flows, OneCommand, TruthInv, NEW p \in Jobs, Stop(p) \/ Remove(p)
  PROVE  TruthInv'
<1>. DEFINE j == job[p]
<1>0. /\ state' = state /\ trust' = trust
      /\ \E s \in {"stop", "remove"} : At(p, s) /\ (Go(p) \/ Fail(p))
  BY DEF Stop, Remove, disk
<1>1. box \in Boxes \cup {NoBox}
  BY DEF TypeOK
<1>2. SameBox
  <2>1. \/ box' = box \/ box' = NoBox
        \/ box # NoBox /\ box' = [box EXCEPT !.on = FALSE]
    BY DEF Stop, Remove
  <2>. QED
    BY <1>1, <2>1 DEF SameBox, Boxes
<1>3. TruthKept'
  BY <1>0, <1>2, TruthStays DEF TruthInv
<1>4. PICK s \in {"stop", "remove"} : At(p, s) /\ (Go(p) \/ Fail(p))
  BY <1>0
<1>5. CASE Fail(p)
  BY <1>3, <1>4, <1>5, TruthFail
<1>6. CASE Go(p)
  <2>1. PICK k : Becomes(p, k) /\ Onward(j, k) /\ Kept(j, k) /\ Now(j) = s
    BY <1>4, <1>6, Goes, Zenon
  <2>2. Leads(j.cmd, s, Now(k)) /\ k.cmd = j.cmd
    BY <2>1 DEF Onward, Kept
  <2>3. s = "stop" \/ s = "remove"
    BY <1>4
  <2>4. Now(k) = "end" \/ Now(k) = "retire" \/ (Now(k) = "refresh" /\ k.cmd = "restart")
    <3>. HIDE DEF j
    <3>. QED
      BY <2>2, <2>3 DEF Leads
  <2>5. "restart" \notin Remodels
    BY CmdSets, Zenon
  <2>6. Idle(k)
    BY <2>4, <2>5 DEF Idle, Partway
  <2>. QED
    BY <1>3, <2>1, <2>6, TruthIdle
<1>. QED
  BY <1>4, <1>5, <1>6

\* The guest's mise.toml is the one of the plan, the record's or about to be.
LEMMA TruthGuest ==
  ASSUME TypeOK, Flows, OneCommand, TruthInv, NEW p \in Jobs, WriteGuest(p)
  PROVE  TruthInv'
<1>. DEFINE j == job[p]
<1>0. /\ At(p, "guest") /\ state' = state /\ trust' = trust
      /\ \/ Fail(p) /\ box' = box
         \/ Go(p) /\ box # NoBox /\ box' = [box EXCEPT !.guest = j.plan.text.guest]
  BY Zenon DEF WriteGuest, InGuest, disk
<1>1. j \in Works /\ j # NoJob /\ Now(j) = "guest"
  BY <1>0, AtStep
<1>2. Told(j) /\ ~trust
  BY <1>1 DEF TruthInv, Told
<1>3. TruthKept'
  BY <1>0, <1>2 DEF TruthKept
<1>4. CASE Fail(p) /\ box' = box
  BY <1>0, <1>3, <1>4, TruthFail
<1>5. CASE Go(p) /\ box # NoBox /\ box' = [box EXCEPT !.guest = j.plan.text.guest]
  <2>1. PICK k : Becomes(p, k) /\ Onward(j, k) /\ Kept(j, k)
    BY <1>0, <1>5, Goes, Zenon
  <2>2. /\ k.cmd = j.cmd /\ k.plan = j.plan /\ k.held = j.held /\ k.was = j.was
        /\ Leads(j.cmd, "guest", Now(k))
    BY <1>1, <2>1 DEF Onward, Kept
  <2>3. Now(k) = "stage" /\ (k.cmd \in Creating \/ k.cmd \in Remodels)
    <3>. HIDE DEF j
    <3>. QED
      BY <2>2 DEF Leads
  <2>4. /\ box'.guest = j.plan.text.guest /\ box'.res = box.res /\ box'.fixed = box.fixed /\ box'.user = box.user
        /\ box'.port = box.port /\ box'.files = box.files /\ box'.done = box.done
    <3>1. box \in Boxes
      BY <1>5 DEF TypeOK
    <3>. HIDE DEF j
    <3>. QED
      BY <1>5, <3>1, GuestBox
  <2>5. Created(k)'
    <3>1. j.cmd \in Creating => Configured(Config(j.plan)) /\ box.files = <<>>
      BY <1>1, <1>2, <1>5 DEF Told, Created
    <3>2. k.cmd \in Creating => Configured(Config(k.plan))'
      BY <2>2, <2>4, <3>1 DEF Configured, Config
    <3>. QED
      BY <2>2, <2>3, <2>4, <3>1, <3>2 DEF Created
  <2>6. Remodelled(k)'
    <3>1. Partway(j) /\ j.was =>
            /\ state # NoRecord /\ j.held # NoRecord
            /\ Configured(state.applied) /\ state.port = box.port
            /\ state.text = j.plan.text /\ state.staged = Stage(j.plan)
            /\ box.files = j.held.staged
      BY <1>2, <1>5 DEF Told, Remodelled
    <3>2. Partway(k)' => Partway(j)
      BY <1>1, <2>2 DEF Partway
    <3>3. Partway(j) /\ j.was => Configured(state.applied)'
      BY <1>0, <2>4, <3>1 DEF Configured
    <3>. QED
      BY <1>0, <2>2, <2>3, <2>4, <3>1, <3>2, <3>3 DEF Remodelled
  <2>7. Rebootstrapped(k)'
    BY <2>3 DEF Rebootstrapped
  <2>8. Told(k)'
    BY <1>0, <1>2, <2>3, <2>5, <2>6, <2>7 DEF Told
  <2>. QED
    BY <1>3, <2>1, <2>8, TruthBy
<1>. QED
  BY <1>0, <1>4, <1>5

\* Staging leaves in the VM the files that are recorded: `stage_files` removes
\* what is stale.
LEMMA TruthStage ==
  ASSUME TypeOK, Flows, OneCommand, TruthInv, NEW p \in Jobs, StageFiles(p)
  PROVE  TruthInv'
<1>. DEFINE j == job[p]
            files == Restaged(box.files, Stage(j.plan), StaleRoots(p))
<1>0. /\ At(p, "stage") \/ At(p, "restage")
      /\ state' = state /\ trust' = trust
      /\ \/ Fail(p) /\ box' = box
         \/ Go(p) /\ box # NoBox /\ box' = [box EXCEPT !.files = files]
  BY Zenon DEF StageFiles, InGuest, disk
<1>1. /\ j \in Works /\ j # NoJob /\ Flow(j) /\ (Now(j) = "stage" \/ Now(j) = "restage")
      /\ Leads(j.cmd, Now(j), After(j)) /\ At(p, Now(j))
  BY <1>0, AtStep
<1>2. Told(j) /\ ~trust
  BY <1>1 DEF TruthInv, Told
<1>3. TruthKept'
  BY <1>0, <1>2 DEF TruthKept
<1>4. CASE Fail(p) /\ box' = box
  BY <1>1, <1>3, <1>4, TruthFail
<1>5. CASE Go(p) /\ box # NoBox /\ box' = [box EXCEPT !.files = files]
  <2>1. PICK k : Becomes(p, k) /\ Onward(j, k) /\ Kept(j, k)
    BY <1>1, <1>5, Goes, Zenon
  <2>2. /\ k.cmd = j.cmd /\ k.plan = j.plan /\ k.held = j.held /\ k.was = j.was
        /\ Leads(j.cmd, Now(j), Now(k))
    BY <2>1 DEF Onward, Kept
  <2>3. /\ Now(j) = "stage" => \/ Now(k) = "save" /\ k.cmd \in Creating /\ k.cmd \notin Remodels
                               \/ Now(k) = "open" /\ k.cmd \in Remodels
        /\ Now(j) = "restage" => Now(k) = "note"
    <3>1. k.cmd \in Creating => k.cmd \notin Remodels
      BY CmdSets, Zenon
    <3>. HIDE DEF j
    <3>. QED
      BY <2>2, <3>1 DEF Leads
  <2>4. /\ box'.files = files /\ box'.res = box.res /\ box'.fixed = box.fixed /\ box'.user = box.user
        /\ box'.port = box.port /\ box'.guest = box.guest /\ box'.done = box.done
    <3>1. box \in Boxes
      BY <1>5 DEF TypeOK
    <3>. HIDE DEF j, files
    <3>. QED
      BY <1>5, <3>1, FilesBox
  <2>5. j.plan \in Projects
    BY <1>1, JobType
  \* What was there is what the record, or the absence of one, says.
  <2>6. ASSUME IF j.held = NoRecord THEN box.files = <<>> ELSE box.files = j.held.staged
        PROVE  files = Stage(j.plan)
    <3>1. DOMAIN box.files \ StaleRoots(p) \subseteq j.plan.text.roots
      <4>1. CASE j.held = NoRecord
        BY <2>6, <4>1, TreeTypes
      <4>2. CASE j.held # NoRecord
        <5>1. StaleRoots(p) = DOMAIN j.held.staged \ j.plan.text.roots
          BY <4>2 DEF StaleRoots
        <5>. QED
          BY <2>6, <4>2, <5>1
      <4>. QED
        BY <4>1, <4>2
    <3>. QED
      BY <2>5, <3>1, RestagedAll
  <2>. HIDE DEF files
  <2>7. CASE Now(k) = "save"
    <3>1. k.cmd \in Creating /\ Now(j) = "stage" /\ k.cmd \notin Remodels
      BY <1>1, <2>3, <2>7
    <3>2. j.held = NoRecord
      BY <1>1, <2>2, <3>1 DEF Flow
    <3>3. Configured(Config(j.plan)) /\ box.guest = j.plan.text.guest /\ box.files = <<>>
      BY <1>2, <1>5, <2>2, <3>1 DEF Told, Created
    <3>4. box'.files = Stage(k.plan)
      BY <2>2, <2>4, <2>6, <3>2, <3>3
    <3>5. Configured(Config(k.plan))'
      BY <2>2, <2>4, <3>3 DEF Configured, Config
    <3>6. Created(k)'
      <4>1. Stage(k.plan)' = Stage(k.plan)
        BY DEF Stage
      <4>. QED
        BY <2>2, <2>4, <2>7, <3>3, <3>4, <3>5, <4>1 DEF Created
    <3>7. Remodelled(k)' /\ Rebootstrapped(k)'
      BY <2>7, <3>1 DEF Remodelled, Rebootstrapped, Partway
    <3>8. Told(k)'
      BY <1>0, <1>2, <2>7, <3>6, <3>7 DEF Told
    <3>. QED
      BY <1>3, <2>1, <3>8, TruthBy
  <2>8. CASE Now(k) = "open"
    <3>1. k.cmd \in Remodels /\ Now(j) = "stage"
      BY <1>1, <2>3, <2>8
    <3>2. Partway(j)
      BY <2>2, <3>1 DEF Partway
    <3>3. j.was => /\ state # NoRecord /\ j.held # NoRecord
                   /\ Configured(state.applied) /\ state.port = box.port
                   /\ state.text = j.plan.text /\ state.staged = Stage(j.plan)
                   /\ box.files = j.held.staged /\ box.guest = j.plan.text.guest
      BY <1>2, <1>5, <3>1, <3>2 DEF Told, Remodelled
    <3>4. j.was => box'.files = Stage(j.plan)
      BY <2>4, <2>6, <3>3
    <3>5. j.was => Describes(state)'
      <4>1. j.was => Configured(state.applied)'
        BY <1>0, <2>4, <3>3 DEF Configured
      <4>. QED
        BY <1>0, <2>4, <3>3, <3>4, <4>1 DEF Describes
    <3>6. Rebootstrapped(k)'
      BY <1>0, <2>2, <2>8, <3>3, <3>5 DEF Rebootstrapped
    <3>7. (~Partway(k))' /\ Created(k)'
      BY <2>8 DEF Partway, Created
    <3>8. Remodelled(k)'
      BY <2>8, <3>7 DEF Remodelled
    <3>9. Told(k)'
      BY <2>8, <3>6, <3>7, <3>8 DEF Told
    <3>. QED
      BY <1>3, <2>1, <3>9, TruthBy
  <2>9. CASE Now(k) = "note"
    <3>1. Now(j) = "restage"
      BY <1>1, <2>3, <2>9
    <3>2. j.held = state
      BY <1>2, <3>1 DEF Told
    <3>3. j.was => state # NoRecord /\ Describes(state)
      BY <1>2, <1>5, <3>1 DEF Told, Rebootstrapped
    <3>4. j.was => box'.files = Stage(j.plan)
      BY <2>4, <2>6, <3>2, <3>3 DEF Describes
    <3>5. state \in Records \cup {NoRecord}
      BY DEF TypeOK
    <3>6. j.was => Describes([state EXCEPT !.staged = Stage(k.plan)])'
      <4>. SUFFICES ASSUME j.was PROVE Describes([state EXCEPT !.staged = Stage(k.plan)])'
        OBVIOUS
      <4>1. PICK r : r = [state EXCEPT !.staged = Stage(k.plan)]
        OBVIOUS
      <4>2. r.applied = state.applied /\ r.text = state.text /\ r.port = state.port /\ r.staged = Stage(j.plan)
        <5>1. state \in Records /\ Stage(k.plan) = Stage(j.plan)
          BY <2>2, <3>3, <3>5
        <5>. HIDE DEF j
        <5>. QED
          BY <4>1, <5>1 DEF Records
      <4>3. Configured(r.applied)'
        BY <2>4, <3>3, <4>2 DEF Configured, Describes
      <4>4. Describes(r)'
        BY <2>4, <3>3, <3>4, <4>2, <4>3 DEF Describes
      <4>5. [state EXCEPT !.staged = Stage(k.plan)]' = r
        BY <1>0, <4>1 DEF Stage
      <4>. QED
        BY <4>4, <4>5
    <3>7. Rebootstrapped(k)'
      BY <1>0, <2>2, <2>9, <3>3, <3>6 DEF Rebootstrapped
    <3>8. (~Partway(k))' /\ Created(k)'
      BY <2>9 DEF Partway, Created
    <3>9. Remodelled(k)'
      BY <2>9, <3>8 DEF Remodelled
    <3>10. k.held = state'
      BY <1>0, <2>2, <3>2
    <3>11. Told(k)'
      BY <1>0, <1>2, <2>9, <3>7, <3>8, <3>9, <3>10 DEF Told
    <3>. QED
      BY <1>3, <2>1, <3>11, TruthBy
  <2>. QED
    BY <1>1, <2>3, <2>7, <2>8, <2>9
<1>. QED
  BY <1>0, <1>4, <1>5

\* A bootstrap that succeeded is one of what is in the VM now.
LEMMA TruthRun ==
  ASSUME TypeOK, Flows, OneCommand, TruthInv, NEW p \in Jobs, RunBootstrap(p)
  PROVE  TruthInv'
<1>. DEFINE j == job[p]
<1>0. At(p, "run") /\ state' = state /\ trust' = trust
  BY DEF RunBootstrap
<1>1. j \in Works /\ j # NoJob /\ Now(j) = "run" /\ Leads(j.cmd, "run", After(j))
  BY <1>0, AtStep
<1>2. PICK ok, k :
        /\ ok \in BOOLEAN /\ k = [j EXCEPT !.todo = Tail(j.todo), !.ok = ok]
        /\ Becomes(p, k) /\ Now(k) = After(j)
        /\ ok => box # NoBox /\ box' = [box EXCEPT !.done = <<box.guest, box.files>>]
        /\ ~ok => box' = box
  BY RunStep, Zenon
<1>3. k.was = j.was /\ k.ok = ok
  BY <1>1, <1>2 DEF Works
<1>4. Now(k) = "enforce"
  BY <1>1, <1>2 DEF Leads
<1>5. box' # NoBox =>
        /\ box # NoBox /\ box'.res = box.res /\ box'.fixed = box.fixed /\ box'.user = box.user
        /\ box'.port = box.port /\ box'.guest = box.guest /\ box'.files = box.files
        /\ box'.done = IF ok THEN <<box.guest, box.files>> ELSE box.done
  <2>1. CASE ok
    <3>1. box \in Boxes /\ box' = [box EXCEPT !.done = <<box.guest, box.files>>] /\ box # NoBox
      BY <1>2, <2>1 DEF TypeOK
    <3>. QED
      BY <2>1, <3>1, DoneBox
  <2>2. CASE ~ok
    BY <1>2, <2>2
  <2>. QED
    BY <2>1, <2>2
<1>6. /\ TruthKept
      /\ j.was /\ box # NoBox => state # NoRecord /\ Describes(state)
  BY <1>1 DEF TruthInv, Told, Rebootstrapped
<1>7. TruthKept'
  <2>. SUFFICES ASSUME trust, box' # NoBox PROVE (state # NoRecord /\ Describes(state) /\ Proven(state))'
    BY <1>0 DEF TruthKept
  <2>1. state # NoRecord /\ Describes(state) /\ Proven(state)
    BY <1>5, <1>6 DEF TruthKept
  <2>2. Describes(state)'
    BY <1>0, <1>5, <2>1 DEF Describes, Configured
  <2>3. Proven(state)'
    BY <1>0, <1>5, <2>1 DEF Proven
  <2>. QED
    BY <1>0, <2>1, <2>2, <2>3
<1>8. Rebootstrapped(k)'
  <2>2. (k.was /\ box # NoBox => state # NoRecord /\ Describes(state))'
    <3>. SUFFICES ASSUME k.was, box' # NoBox PROVE (state # NoRecord /\ Describes(state))'
      OBVIOUS
    <3>1. state # NoRecord /\ Describes(state)
      BY <1>3, <1>5, <1>6
    <3>. QED
      BY <1>0, <1>5, <3>1 DEF Describes, Configured
  <2>3. (k.ok /\ box # NoBox => box.done = <<box.guest, box.files>>)'
    BY <1>3, <1>5
  <2>. QED
    BY <1>4, <2>2, <2>3 DEF Rebootstrapped
<1>9. (~Partway(k))' /\ Created(k)'
  BY <1>4 DEF Partway, Created
<1>10. Remodelled(k)'
  BY <1>4, <1>9 DEF Remodelled
<1>11. Told(k)'
  BY <1>4, <1>8, <1>9, <1>10 DEF Told
<1>. QED
  BY <1>2, <1>7, <1>11, TruthBy

\* `remodel` changes the resources if they differ from what was applied.
LEMMA TruthModify ==
  ASSUME TypeOK, Flows, OneCommand, TruthInv, NEW p \in Jobs, Modify(p)
  PROVE  TruthInv'
<1>. DEFINE j == job[p]
<1>0. At(p, "modify") /\ state' = state /\ trust' = trust
  BY DEF Modify
<1>1. /\ j \in Works /\ j # NoJob /\ Now(j) = "modify" /\ Flow(j)
      /\ Leads(j.cmd, "modify", After(j))
  BY <1>0, AtStep
<1>2. Told(j) /\ ~trust /\ j.held = state /\ j.held \in Records
  <2>1. Told(j)
    BY <1>1 DEF TruthInv
  <2>2. ~trust /\ j.held = state
    BY <1>1, <2>1 DEF Told
  <2>3. j.held \in Records
    BY <1>1, JobType DEF Flow
  <2>. QED
    BY <2>1, <2>2, <2>3
<1>3. TruthKept'
  BY <1>0, <1>2 DEF TruthKept
<1>4. CASE Fail(p)
  BY <1>0, <1>3, <1>4, TruthFail
<1>5. CASE ~Fail(p)
  <2>1. PICK done \in SUBSET j.groups :
          /\ box # NoBox /\ done = j.groups /\ Go(p)
          /\ box'.res = IF "res" \in done THEN j.plan.text.res ELSE box.res
          /\ box'.fixed = box.fixed /\ box'.user = box.user
          /\ box'.port = box.port /\ box'.guest = box.guest
          /\ box'.files = box.files /\ box'.done = box.done
    BY <1>5, ModifyStep, Zenon
  <2>2. PICK k : Becomes(p, k) /\ Onward(j, k) /\ Kept(j, k)
    BY <1>0, <2>1, Goes, Zenon
  <2>3. /\ k.cmd = j.cmd /\ k.plan = j.plan /\ k.held = j.held /\ k.was = j.was
        /\ Leads(j.cmd, Now(j), Now(k)) /\ After(k) = Third(j)
    BY <2>2 DEF Onward, Kept
  <2>4. Now(k) = "update"
    <3>. HIDE DEF j
    <3>. QED
      BY <1>1, <2>3 DEF Leads
  <2>5. /\ Third(j) = "end" <=> ~GuestChanged(j.plan, j.held)
        /\ "res" \in j.groups <=> j.plan.text.res # j.held.applied.res
        /\ j.was => Describes(j.held) /\ Proven(j.held)
    BY <1>1, <1>2, <2>1 DEF Told, Remodelled
  <2>6. k.was => Configured([k.held.applied EXCEPT !.res = k.plan.text.res])'
    <3>. SUFFICES ASSUME k.was PROVE Configured([k.held.applied EXCEPT !.res = k.plan.text.res])'
      OBVIOUS
    <3>1. j.held.applied = [res |-> box.res, fixed |-> box.fixed, user |-> box.user]
      BY <2>3, <2>5 DEF Describes, Configured
    <3>2. box'.res = j.plan.text.res
      BY <2>1, <2>5, <3>1
    <3>3. [k.held.applied EXCEPT !.res = k.plan.text.res]
            = [res |-> k.plan.text.res, fixed |-> box.fixed, user |-> box.user]
      BY <2>3, <3>1
    <3>. QED
      BY <2>1, <2>3, <3>2, <3>3 DEF Configured
  <2>7. k.was => (/\ k.held.text.guest = box.guest /\ k.held.staged = box.files /\ k.held.port = box.port
                  /\ Proven(k.held))'
    BY <2>1, <2>3, <2>5 DEF Describes, Proven
  <2>8. (After(k) = "end" <=> ~GuestChanged(k.plan, k.held))'
    <3>1. After(k) = "end" <=> ~GuestChanged(k.plan, k.held)
      BY <2>3, <2>5
    <3>. QED
      BY <3>1 DEF GuestChanged, UserPending, Stage
  <2>9. (~Partway(k))' /\ Created(k)' /\ Rebootstrapped(k)'
    BY <2>4 DEF Partway, Created, Rebootstrapped
  <2>10. k.held = state' /\ state' # NoRecord
    BY <1>0, <1>1, <1>2, <2>3 DEF Flow
  <2>11. Remodelled(k)'
    BY <2>4, <2>6, <2>7, <2>8, <2>9, <2>10 DEF Remodelled
  <2>12. Told(k)'
    BY <1>0, <1>2, <2>4, <2>9, <2>10, <2>11 DEF Told
  <2>. QED
    BY <1>3, <2>2, <2>12, TruthBy
<1>. QED
  BY <1>4, <1>5

\* The steps on the VM keep the record's invariant.
LEMMA TruthBox ==
  ASSUME TypeOK, Flows, OneCommand, TruthInv, NEW p \in Jobs,
         \/ Create(p) \/ Boot(p) \/ Stop(p) \/ Remove(p) \/ WriteGuest(p) \/ StageFiles(p)
         \/ RunBootstrap(p) \/ Modify(p)
  PROVE  TruthInv'
  BY TruthCreate, TruthBoot, TruthStop, TruthGuest, TruthStage, TruthRun, TruthModify

\* `bootstrap` sets out from the record it loads before it stages.
LEMMA TruthReplan ==
  ASSUME TypeOK, Flows, OneCommand, TruthInv, NEW p \in Jobs, Replan(p)
  PROVE  TruthInv'
<1>. DEFINE j == job[p]
            nothing == kitchen.text.roots = {} /\ (state # NoRecord => DOMAIN state.staged = {})
<1>1. box' = box /\ state' = state /\ At(p, "plan")
  BY DEF Replan, disk
<1>2. PICK k :
        /\ Becomes(p, k)
        /\ k = [j EXCEPT !.plan = kitchen, !.held = state, !.was = trust, !.todo = k.todo]
        /\ trust' = (trust /\ nothing)
        /\ IF nothing THEN Now(k) = "open" ELSE Now(k) = "restage"
  BY ReplanStep, Zenon
<1>3. j \in Works
  BY <1>1, AtStep
<1>4. k.held = state /\ k.was = trust
  BY <1>2, <1>3 DEF Works
<1>5. TruthKept /\ TruthKept'
  BY <1>1, <1>2, TruthStays DEF TruthInv, SameBox
<1>6. (k.was /\ box # NoBox => state # NoRecord /\ Describes(state))'
  BY <1>1, <1>4, <1>5 DEF TruthKept, Describes, Configured
<1>7. Now(k) = "open" \/ (Now(k) = "restage" /\ ~trust')
  BY <1>2
<1>8. Rebootstrapped(k)' /\ (~Partway(k))' /\ Created(k)'
  BY <1>6, <1>7 DEF Rebootstrapped, Partway, Created
<1>9. Remodelled(k)'
  BY <1>7, <1>8 DEF Remodelled
<1>10. Told(k)'
  BY <1>1, <1>4, <1>7, <1>8, <1>9 DEF Told
<1>. QED
  BY <1>2, <1>5, <1>10, TruthBy

\* `up` records what it created: the first record that is true of the VM.
LEMMA TruthSave ==
  ASSUME TypeOK, Flows, OneCommand, RegInv, TruthInv, NEW p \in Jobs, Save(p)
  PROVE  TruthInv'
<1>. DEFINE j == job[p]
<1>1. /\ At(p, "save") /\ Go(p) /\ box' = box
      /\ state' = [applied |-> Config(j.plan), text |-> j.plan.text,
                   staged |-> Stage(j.plan), boot |-> FALSE, port |-> j.port]
  BY DEF Save
<1>2. /\ j \in Works /\ j # NoJob /\ Now(j) = "save" /\ Leads(j.cmd, "save", After(j))
  BY <1>1, AtStep
<1>3. PICK k : Becomes(p, k) /\ Onward(j, k)
  BY <1>1, Goes, Zenon
<1>4. Now(k) = "docker" /\ j.cmd \in Creating
  <2>1. Leads(j.cmd, "save", Now(k))
    BY <1>2, <1>3 DEF Onward
  <2>. HIDE DEF j
  <2>. QED
    BY <2>1 DEF Leads
<1>5. Idle(k)
  BY <1>4 DEF Idle, Partway
<1>6. TruthKept'
  <2>. SUFFICES ASSUME box' # NoBox PROVE (state # NoRecord /\ Describes(state) /\ Proven(state))'
    BY DEF TruthKept
  <2>1. /\ Configured(Config(j.plan)) /\ box.guest = j.plan.text.guest /\ box.files = Stage(j.plan)
    BY <1>1, <1>2, <1>4 DEF TruthInv, Told, Created
  <2>2. box.port = j.port
    BY <1>1, <1>2, <1>4 DEF RegInv, Heard
  <2>3. /\ Config(j.plan) \in Applied /\ j.plan.text \in Kitchens
        /\ Stage(j.plan) \in Trees /\ j.port \in Endpoints
    BY <1>2, JobType, PlanType
  <2>4. state' \in Records
    BY <1>1, <2>3 DEF Records
  <2>5. state' # NoRecord
    BY <2>4, AbsentAssumption
  <2>6. Describes(state)'
    BY <1>1, <2>1, <2>2 DEF Describes, Configured
  <2>7. Proven(state)'
    BY <1>1 DEF Proven
  <2>. QED
    BY <2>5, <2>6, <2>7
<1>. QED
  BY <1>3, <1>5, <1>6, TruthIdle

\* A bootstrap is recorded as what it was, a success or not.
LEMMA TruthRecordStep ==
  ASSUME TypeOK, Flows, OneCommand, TruthInv, NEW p \in Jobs, Record(p)
  PROVE  TruthInv'
<1>. DEFINE j == job[p]
<1>1. /\ At(p, "record") /\ box' = box /\ trust' = (trust \/ j.was)
      /\ state' = IF state = NoRecord THEN state ELSE [state EXCEPT !.boot = j.ok]
      /\ Go(p) \/ Fail(p)
  BY DEF Record
<1>2. /\ j \in Works /\ j # NoJob /\ Now(j) = "record" /\ Third(j) # "connect"
  BY <1>1, AtStep
<1>3. /\ TruthKept
      /\ j.was /\ box # NoBox => state # NoRecord /\ Describes(state)
      /\ j.ok /\ box # NoBox => box.done = <<box.guest, box.files>>
  BY <1>2 DEF TruthInv, Told, Rebootstrapped
<1>4. TruthKept'
  <2>. SUFFICES ASSUME trust \/ j.was, box # NoBox PROVE (state # NoRecord /\ Describes(state) /\ Proven(state))'
    BY <1>1 DEF TruthKept
  <2>1. state # NoRecord /\ Describes(state)
    BY <1>3 DEF TruthKept
  <2>2. state \in Records /\ j.ok \in BOOLEAN
    BY <1>2, <2>1, JobType DEF TypeOK
  <2>3. /\ state' \in Records
        /\ state'.boot = j.ok /\ state'.applied = state.applied /\ state'.text = state.text
        /\ state'.staged = state.staged /\ state'.port = state.port
    <3>. HIDE DEF j
    <3>. QED
      BY <1>1, <2>1, <2>2 DEF Records
  <2>4. state' # NoRecord
    BY <2>3, AbsentAssumption
  <2>5. Describes(state)'
    BY <1>1, <2>1, <2>3 DEF Describes, Configured
  <2>6. Proven(state)'
    BY <1>1, <1>3, <2>3 DEF Proven
  <2>. QED
    BY <2>4, <2>5, <2>6
<1>5. CASE Fail(p)
  BY <1>1, <1>4, <1>5, TruthFail
<1>6. CASE Go(p)
  <2>1. PICK k : Becomes(p, k) /\ Onward(j, k)
    BY <1>1, <1>6, Goes, Zenon
  <2>2. Leads(j.cmd, "record", Now(k)) /\ After(k) # "connect"
    BY <1>2, <2>1 DEF Onward
  <2>3. Now(k) = "end" \/ Now(k) = "refresh"
    BY <2>2 DEF Leads
  <2>4. Idle(k)
    BY <2>2, <2>3 DEF Idle, Partway
  <2>. QED
    BY <1>4, <2>1, <2>4, TruthIdle
<1>. QED
  BY <1>1, <1>5, <1>6

\* What restaging copied into the VM is recorded after it.
LEMMA TruthNote ==
  ASSUME TypeOK, Flows, OneCommand, TruthInv, NEW p \in Jobs, Note(p)
  PROVE  TruthInv'
<1>. DEFINE j == job[p]
<1>1. /\ At(p, "note") /\ box' = box /\ trust' = trust /\ Go(p)
      /\ state' = IF j.held = NoRecord THEN state ELSE [j.held EXCEPT !.staged = Stage(j.plan)]
  BY DEF Note
<1>2. /\ j \in Works /\ j # NoJob /\ Now(j) = "note" /\ Leads(j.cmd, "note", After(j))
  BY <1>1, AtStep
<1>3. /\ ~trust /\ j.held = state
      /\ j.was /\ box # NoBox => state # NoRecord /\ Describes([state EXCEPT !.staged = Stage(j.plan)])
  BY <1>2 DEF TruthInv, Told, Rebootstrapped
<1>4. TruthKept'
  BY <1>1, <1>3 DEF TruthKept
<1>5. PICK k : Becomes(p, k) /\ Onward(j, k) /\ Kept(j, k)
  BY <1>1, Goes, Zenon
<1>6. Now(k) = "open" /\ k.was = j.was
  <2>1. Leads(j.cmd, "note", Now(k)) /\ k.was = j.was
    BY <1>2, <1>5 DEF Onward, Kept
  <2>. HIDE DEF j
  <2>. QED
    BY <2>1 DEF Leads
<1>7. Rebootstrapped(k)'
  <2>. SUFFICES ASSUME j.was, box # NoBox PROVE (state # NoRecord /\ Describes(state))'
    BY <1>1, <1>6 DEF Rebootstrapped
  <2>1. PICK r : r = [state EXCEPT !.staged = Stage(j.plan)]
    OBVIOUS
  <2>2. state # NoRecord /\ Describes(r) /\ state' = r
    <3>. HIDE DEF j
    <3>. QED
      BY <1>1, <1>3, <2>1
  <2>3. r \in Records
    <3>1. state \in Records /\ Stage(j.plan) \in Trees
      BY <1>2, <2>2, JobType, PlanType DEF TypeOK
    <3>. HIDE DEF j
    <3>. QED
      BY <2>1, <3>1 DEF Records
  <2>4. r # NoRecord
    BY <2>3, AbsentAssumption
  <2>. QED
    BY <1>1, <2>2, <2>4 DEF Describes, Configured
<1>8. (~Partway(k))' /\ Created(k)'
  BY <1>6 DEF Partway, Created
<1>9. Remodelled(k)'
  BY <1>6, <1>8 DEF Remodelled
<1>10. Told(k)'
  BY <1>6, <1>7, <1>8, <1>9 DEF Told
<1>. QED
  BY <1>4, <1>5, <1>10, TruthBy

\* `purge` removes the record after the VM.
LEMMA TruthPurge ==
  ASSUME TypeOK, Flows, OneCommand, SecretInv, TruthInv, NEW p \in Jobs, Purge(p)
  PROVE  TruthInv'
<1>. DEFINE j == job[p]
<1>1. At(p, "purge") /\ box' = box /\ Go(p)
  BY DEF Purge
<1>2. /\ j # NoJob /\ Now(j) = "purge" /\ Leads(j.cmd, "purge", After(j))
  BY <1>1, AtStep
<1>3. TruthKept'
  BY <1>1, <1>2 DEF SecretInv, Gone, TruthKept
<1>4. PICK k : Becomes(p, k) /\ Onward(j, k)
  BY <1>1, Goes, Zenon
<1>5. Now(k) = "end"
  <2>1. Leads(j.cmd, "purge", Now(k))
    BY <1>2, <1>4 DEF Onward
  <2>. QED
    BY <2>1 DEF Leads
<1>6. Idle(k)
  BY <1>5 DEF Idle, Partway
<1>. QED
  BY <1>3, <1>4, <1>6, TruthIdle

\* `remodel` sets out from a record that was true, or remembers that it was not.
LEMMA TruthDiff ==
  ASSUME TypeOK, Flows, OneCommand, TruthInv, NEW p \in Jobs, Diff(p)
  PROVE  TruthInv'
<1>. DEFINE j == job[p]
<1>1. At(p, "diff") /\ box' = box /\ state' = state
  BY DEF Diff, disk
<1>2. j \in Works
  BY <1>1, AtStep
<1>3. ASSUME trust' => trust PROVE TruthKept'
  BY <1>1, <1>3, TruthStays DEF TruthInv, SameBox
<1>4. CASE Fail(p) /\ trust' = trust
  BY <1>1, <1>3, <1>4, TruthFail
<1>5. ASSUME NEW k, Becomes(p, k), trust' => trust, Now(k) = "find" \/ Now(k) = "end"
      PROVE  TruthInv'
  <2>1. Idle(k)
    BY <1>5 DEF Idle, Partway
  <2>. QED
    BY <1>3, <1>5, <2>1, TruthIdle
<1>6. ASSUME NEW k, state # NoRecord, Becomes(p, k),
             k = [j EXCEPT !.held = state, !.was = trust, !.groups = SdkGroups(j.plan), !.todo = k.todo],
             trust' = (trust /\ Nothing(j.plan)),
             Now(k) = "modify", ~Nothing(j.plan), Third(k) = "end" <=> ~GuestChanged(j.plan, state)
      PROVE  TruthInv'
  <2>1. k.held = state /\ k.was = trust /\ k.plan = j.plan /\ k.groups = SdkGroups(j.plan)
    BY <1>2, <1>6 DEF Works
  <2>2. ~trust' /\ TruthKept /\ TruthKept'
    BY <1>3, <1>6 DEF TruthInv
  <2>3. (Third(k) = "end" <=> ~GuestChanged(k.plan, k.held))'
    <3>1. Third(k) = "end" <=> ~GuestChanged(k.plan, k.held)
      BY <1>6, <2>1
    <3>. QED
      BY <3>1 DEF GuestChanged, UserPending, Stage
  <2>4. "res" \in k.groups <=> k.plan.text.res # k.held.applied.res
    <3>. HIDE DEF j
    <3>. QED
      BY <2>1 DEF SdkGroups
  <2>5. (k.was /\ box # NoBox => Describes(k.held) /\ Proven(k.held))'
    BY <1>1, <2>1, <2>2 DEF TruthKept, Describes, Configured, Proven
  <2>6. (~Partway(k))' /\ Created(k)' /\ Rebootstrapped(k)'
    BY <1>6 DEF Partway, Created, Rebootstrapped
  <2>7. Remodelled(k)'
    BY <1>1, <1>6, <2>3, <2>4, <2>5, <2>6 DEF Remodelled
  <2>8. Told(k)'
    BY <1>1, <1>6, <2>1, <2>2, <2>6, <2>7 DEF Told
  <2>. QED
    BY <1>6, <2>2, <2>8, TruthBy
<1>. HIDE DEF j
<1>7. \/ Fail(p) /\ trust' = trust
      \/ Becomes(p, job'[p]) /\ Now(job'[p]) = "find" /\ trust' = trust
      \/ /\ state # NoRecord /\ Becomes(p, job'[p])
         /\ job'[p] = [j EXCEPT !.held = state, !.was = trust, !.groups = SdkGroups(j.plan), !.todo = job'[p].todo]
         /\ trust' = (trust /\ Nothing(j.plan))
         /\ \/ Now(job'[p]) = "end"
            \/ Now(job'[p]) = "modify" /\ ~Nothing(j.plan) /\ (Third(job'[p]) = "end" <=> ~GuestChanged(j.plan, state))
  BY DiffStep, Zenon DEF j
<1>8. CASE Becomes(p, job'[p]) /\ Now(job'[p]) = "find" /\ trust' = trust
  BY <1>5, <1>8, Zenon
<1>9. CASE /\ state # NoRecord /\ Becomes(p, job'[p])
           /\ job'[p] = [j EXCEPT !.held = state, !.was = trust, !.groups = SdkGroups(j.plan), !.todo = job'[p].todo]
           /\ trust' = (trust /\ Nothing(j.plan))
           /\ \/ Now(job'[p]) = "end"
              \/ Now(job'[p]) = "modify" /\ ~Nothing(j.plan) /\ (Third(job'[p]) = "end" <=> ~GuestChanged(j.plan, state))
  <2>1. CASE Now(job'[p]) = "end"
    BY <1>5, <1>9, <2>1, Zenon
  <2>2. CASE Now(job'[p]) = "modify" /\ ~Nothing(j.plan) /\ (Third(job'[p]) = "end" <=> ~GuestChanged(j.plan, state))
    BY <1>6, <1>9, <2>2, Zenon
  <2>. QED
    BY <1>9, <2>1, <2>2, Zenon
<1>. QED
  BY <1>4, <1>7, <1>8, <1>9, Zenon

\* The last step leads to the end, and no other.
LEMMA LastStep ==
  ASSUME NEW s \in Seq(Steps), s # <<>>
  PROVE  Len(s) = 1 <=> Nth(s, 2) = "end"
<1>1. "end" \notin Steps
  BY DEF Steps, Fallible
<1>2. Len(s) \in Nat /\ Len(s) # 0
  OBVIOUS
<1>3. \A n \in Nat : n # 0 /\ ~(2 <= n) => n = 1
  OBVIOUS
<1>4. CASE 2 <= Len(s)
  <2>1. Len(s) # 1 /\ s[2] \in Steps
    BY <1>4
  <2>. QED
    BY <1>1, <1>4, <2>1, Zenon DEF Nth
<1>5. CASE ~(2 <= Len(s))
  <2>1. Len(s) = 1
    BY <1>2, <1>3, <1>5, Zenon
  <2>. QED
    BY <1>5, <2>1, Zenon DEF Nth
<1>. QED
  BY <1>4, <1>5

\* `without_recreate`: the resources are the desired ones, the rest stays.
LEMMA KeptApplied ==
  ASSUME NEW a \in Applied, NEW d \in Applied
  PROVE  /\ WithoutRecreate(a, d) = [a EXCEPT !.res = d.res]
         /\ WithoutRecreate(a, d) \in Applied /\ WithoutRecreate(a, d).user = a.user
<1>1. PICK c : c = [d EXCEPT !.fixed = a.fixed]
  OBVIOUS
<1>2. c \in Applied /\ c.res = d.res /\ c.fixed = a.fixed
  BY <1>1 DEF Applied
<1>3. PICK e : e = [c EXCEPT !.user = a.user]
  OBVIOUS
<1>4. e \in Applied /\ e.res = d.res /\ e.fixed = a.fixed /\ e.user = a.user
  BY <1>2, <1>3 DEF Applied
<1>5. PICK b : b = [a EXCEPT !.res = d.res]
  OBVIOUS
<1>6. b \in Applied /\ b.res = d.res /\ b.fixed = a.fixed /\ b.user = a.user
  BY <1>5 DEF Applied
<1>7. e = [res |-> e.res, fixed |-> e.fixed, user |-> e.user] /\ b = [res |-> b.res, fixed |-> b.fixed, user |-> b.user]
  BY <1>4, <1>6 DEF Applied
<1>8. e = b
  BY <1>4, <1>6, <1>7, Zenon
<1>9. WithoutRecreate(a, d) = e
  BY <1>1, <1>3, Zenon DEF WithoutRecreate
<1>. QED
  BY <1>4, <1>5, <1>8, <1>9, Zenon

\* `remodel` records what it changed: all there is to it, or what it goes on to do.
LEMMA TruthUpdate ==
  ASSUME TypeOK, Flows, OneCommand, TruthInv, NEW p \in Jobs, Update(p)
  PROVE  TruthInv'
<1>. DEFINE j == job[p]
            plan == j.plan
            applied == WithoutRecreate(j.held.applied, Config(plan))
            held == [j.held EXCEPT !.applied = applied]
<1>1. /\ At(p, "update") /\ Go(p) /\ box' = box
      /\ trust' = (trust \/ (j.was /\ Len(j.todo) = 1))
      /\ state' = IF UserPending(plan, held) THEN held ELSE [held EXCEPT !.text = plan.text, !.staged = Stage(plan)]
  BY Zenon DEF Update
<1>2. /\ j \in Works /\ j # NoJob /\ Flow(j) /\ Now(j) = "update" /\ Leads(j.cmd, "update", After(j))
  BY <1>1, AtStep
<1>3. PICK k : Becomes(p, k) /\ Onward(j, k) /\ Kept(j, k)
  BY <1>1, Goes, Zenon
<1>4. /\ k.cmd = j.cmd /\ k.plan = j.plan /\ k.held = j.held /\ k.was = j.was
      /\ Now(k) = After(j) /\ Leads(j.cmd, "update", Now(k))
  BY <1>2, <1>3 DEF Onward, Kept
<1>5. j.cmd \in Remodels /\ (Now(k) = "guest" \/ Now(k) = "refresh" \/ Now(k) = "end")
  <2>. HIDE DEF j
  <2>. QED
    BY <1>4 DEF Leads
<1>6. /\ ~trust /\ j.held = state /\ j.held \in Records /\ j.held # NoRecord
      /\ After(j) = "end" <=> ~GuestChanged(j.plan, j.held)
  BY <1>2, JobType DEF TruthInv, Told, Remodelled, Flow
<1>7. j.was /\ box # NoBox =>
        /\ Configured([j.held.applied EXCEPT !.res = j.plan.text.res])
        /\ j.held.text.guest = box.guest /\ j.held.staged = box.files /\ j.held.port = box.port
        /\ Proven(j.held)
  BY <1>2 DEF TruthInv, Told, Remodelled
<1>8. plan \in Projects /\ plan.text \in Kitchens /\ Stage(plan) \in Trees /\ Config(plan) \in Applied
  BY <1>2, JobType, PlanType
<1>9. /\ applied = [j.held.applied EXCEPT !.res = plan.text.res] /\ applied.user = j.held.applied.user
      /\ applied \in Applied
  <2>1. j.held.applied \in Applied
    BY <1>6 DEF Records
  <2>. HIDE DEF plan, j
  <2>2. Config(plan).res = plan.text.res
    BY DEF Config
  <2>3. applied = [j.held.applied EXCEPT !.res = Config(plan).res]
    BY <1>8, <2>1, KeptApplied, Zenon DEF applied
  <2>4. applied = [j.held.applied EXCEPT !.res = plan.text.res]
    BY <2>2, <2>3, Zenon
  <2>5. applied.user = j.held.applied.user
    BY <1>8, <2>1, KeptApplied, Zenon DEF applied
  <2>6. applied \in Applied
    BY <1>8, <2>1, KeptApplied, Zenon DEF applied
  <2>. QED
    BY <2>4, <2>5, <2>6
<1>. HIDE DEF applied
<1>10. /\ held \in Records /\ held.applied = applied /\ held.text = j.held.text
       /\ held.staged = j.held.staged /\ held.port = j.held.port /\ held.boot = j.held.boot
  <2>. HIDE DEF j
  <2>. QED
    BY <1>6, <1>9 DEF Records
<1>11. UserPending(plan, held) <=> UserPending(plan, j.held)
  <2>. HIDE DEF j, plan, held
  <2>. QED
    BY <1>9, <1>10 DEF UserPending
<1>. HIDE DEF held
<1>12. /\ state' \in Records /\ state' # NoRecord
       /\ state'.applied = applied /\ state'.port = j.held.port /\ state'.boot = j.held.boot
       /\ UserPending(plan, j.held) => state'.text = j.held.text /\ state'.staged = j.held.staged
       /\ ~UserPending(plan, j.held) => state'.text = plan.text /\ state'.staged = Stage(plan)
  <2>. HIDE DEF j, plan
  <2>1. CASE UserPending(plan, j.held)
    BY <1>1, <1>10, <1>11, <2>1, AbsentAssumption
  <2>2. CASE ~UserPending(plan, j.held)
    <3>1. state' = [held EXCEPT !.text = plan.text, !.staged = Stage(plan)]
      BY <1>1, <1>11, <2>2
    <3>2. /\ state' \in Records /\ state'.applied = held.applied /\ state'.port = held.port
          /\ state'.boot = held.boot /\ state'.text = plan.text /\ state'.staged = Stage(plan)
      BY <1>8, <1>10, <3>1 DEF Records
    <3>. QED
      BY <1>10, <2>2, <3>2, AbsentAssumption
  <2>. QED
    BY <2>1, <2>2
<1>13. j.was /\ box # NoBox => Configured(state.applied)' /\ state'.port = box.port
  BY <1>1, <1>7, <1>9, <1>12 DEF Configured
<1>14. Len(j.todo) = 1 <=> After(j) = "end"
  <2>1. /\ j.todo \in Seq(Steps) /\ j.todo # <<>> /\ "end" \notin Steps
    BY <1>1, <1>2, JobType DEF At, Steps, Fallible
  <2>. QED
    BY <2>1, LastStep, Zenon DEF After
<1>15. CASE After(j) = "end"
  <2>1. Now(k) = "end"
    BY <1>4, <1>15
  <2>2. Idle(k)
    BY <2>1 DEF Idle, Partway
  <2>3. TruthKept'
    <3>. SUFFICES ASSUME j.was, box # NoBox PROVE (state # NoRecord /\ Describes(state) /\ Proven(state))'
      BY <1>1, <1>6 DEF TruthKept
    <3>1. ~UserPending(plan, j.held) => plan.text.guest = j.held.text.guest /\ Stage(plan) = j.held.staged
      BY <1>6, <1>15 DEF GuestChanged
    <3>2. state'.text.guest = box.guest /\ state'.staged = box.files
      BY <1>7, <1>12, <3>1
    <3>3. Describes(state)'
      BY <1>1, <1>13, <3>2 DEF Describes
    <3>4. Proven(state)'
      BY <1>1, <1>7, <1>12 DEF Proven
    <3>. QED
      BY <1>12, <3>3, <3>4
  <2>. QED
    BY <1>3, <2>2, <2>3, TruthIdle
<1>16. CASE After(j) # "end"
  <2>1. ~trust' /\ Now(k) # "end" /\ ~UserPending(plan, j.held)
    BY <1>1, <1>4, <1>6, <1>14, <1>16 DEF GuestChanged
  <2>2. TruthKept'
    BY <2>1 DEF TruthKept
  <2>3. k.was /\ box # NoBox =>
          /\ Configured(state.applied)' /\ state'.port = box.port
          /\ state'.text = k.plan.text /\ state'.staged = Stage(k.plan)
          /\ box.files = k.held.staged
    BY <1>4, <1>7, <1>12, <1>13, <2>1
  <2>4. Remodelled(k)'
    <3>1. Stage(k.plan)' = Stage(k.plan)
      BY DEF Stage
    <3>. QED
      BY <1>1, <1>4, <1>5, <1>6, <1>12, <2>1, <2>3, <3>1 DEF Remodelled
  <2>5. k.cmd \notin Creating
    BY <1>4, <1>5, CmdSets, Zenon
  <2>6. Created(k)' /\ Rebootstrapped(k)'
    BY <1>5, <2>1, <2>5 DEF Created, Rebootstrapped
  <2>7. Told(k)'
    BY <1>5, <2>1, <2>4, <2>6 DEF Told
  <2>. QED
    BY <1>3, <2>2, <2>7, TruthBy
<1>. QED
  BY <1>15, <1>16

\* The steps on state.json keep the record's invariant.
LEMMA TruthRecord ==
  ASSUME TypeOK, Flows, OneCommand, SecretInv, RegInv, TruthInv, NEW p \in Jobs,
         \/ Replan(p) \/ Save(p) \/ Record(p) \/ Note(p) \/ Purge(p) \/ Diff(p) \/ Update(p)
  PROVE  TruthInv'
  BY TruthReplan, TruthSave, TruthRecordStep, TruthNote, TruthPurge, TruthDiff, TruthUpdate

\* So do beginning, ending, failing and being killed.
LEMMA TruthOther ==
  ASSUME TypeOK, Flows, OneCommand, TruthInv, NEW p \in Jobs, Begin(p) \/ End(p) \/ Kill(p) \/ StepFails(p)
  PROVE  TruthInv'
<1>0. box' = box /\ state' = state /\ trust' = trust
  BY OtherSteps
<1>1. TruthKept'
  BY <1>0, TruthStays DEF TruthInv, SameBox
<1>2. CASE Begin(p)
  <2>1. PICK cmd, k : cmd \in Commands /\ k = Begun(cmd) /\ Becomes(p, k) /\ Now(k) = "find" /\ After(k) = "end"
    BY <1>2, BeginStep, Zenon
  <2>2. Idle(k)
    BY <2>1 DEF Idle, Partway
  <2>. QED
    BY <1>1, <2>1, <2>2, TruthIdle
<1>3. CASE End(p) \/ Kill(p)
  <2>1. job' = [job EXCEPT ![p] = NoJob]
    BY <1>3 DEF End, Kill
  <2>2. \A q \in Jobs : job'[q] = NoJob
    BY <2>1, OverStep DEF OneCommand
  <2>. QED
    BY <1>1, <2>2 DEF TruthInv
<1>4. CASE StepFails(p)
  <2>1. PICK s \in Fallible : At(p, s)
    BY <1>4 DEF StepFails
  <2>2. Fail(p)
    BY <1>4 DEF StepFails
  <2>. QED
    BY <1>1, <2>1, <2>2, TruthFail
<1>. QED
  BY <1>2, <1>3, <1>4

\* state.json is true of the VM whenever nobody is half-way.
LEMMA TruthInvKept ==
  ASSUME OneCommand
  PROVE  TypeOK /\ Flows /\ SecretInv /\ RegInv /\ TruthInv /\ [Next]_vars => TruthInv'
<1>. SUFFICES ASSUME TypeOK, Flows, SecretInv, RegInv, TruthInv, [Next]_vars PROVE TruthInv'
  OBVIOUS
<1>1. ASSUME UNCHANGED <<state, box, job, trust>> PROVE TruthInv'
  <2>1. TruthKept'
    BY <1>1, TruthStays DEF TruthInv, SameBox
  <2>2. ASSUME NEW q \in Jobs, job'[q] # NoJob PROVE Told(job[q])'
    <3>1. PICK j : j = job[q]
      OBVIOUS
    <3>2. Created(j) /\ Remodelled(j) /\ Rebootstrapped(j) /\ Told(j)
      BY <1>1, <2>2, <3>1 DEF TruthInv, Told
    <3>3. Created(j)'
      BY <1>1, <3>2 DEF Created, Configured
    <3>4. Remodelled(j)'
      BY <1>1, <3>2 DEF Remodelled, Configured, Describes, Proven, Partway
    <3>5. Rebootstrapped(j)'
      BY <1>1, <3>2 DEF Rebootstrapped, Configured, Describes
    <3>6. Told(j)'
      BY <1>1, <3>2, <3>3, <3>4, <3>5 DEF Told, Partway
    <3>. QED
      BY <1>1, <3>1, <3>6
  <2>. QED
    BY <2>1, <2>2 DEF TruthInv
<1>2. CASE UNCHANGED vars
  BY <1>1, <1>2 DEF vars
<1>3. CASE Edit \/ Outage \/ BrokerStart
  BY <1>1, <1>3, AroundSteps
<1>4. ASSUME NEW p \in Jobs, Step(p) \/ StepFails(p) \/ Kill(p) PROVE TruthInv'
  BY <1>4, TruthOther, TruthBroker, TruthBox, TruthRecord, Zenon DEF Step
<1>. QED
  BY <1>2, <1>3, <1>4 DEF Next

-----------------------------------------------------------------------------
(* What the runs check, for every value of the constants.                  *)

\* A machine without a sandbox, a broker and a command.
LEMMA CommandStart == Init => CommandInv
<1>. SUFFICES ASSUME Init PROVE CommandInv
  OBVIOUS
<1>1. /\ kitchen \in Projects /\ state = NoRecord /\ secret = 0 /\ box = NoBox /\ serving = FALSE
      /\ reg = NoReg /\ faults = 0 /\ trust = TRUE
  BY Zenon DEF Init, Projects
<1>2. job = [p \in Jobs |-> NoJob]
  BY Zenon DEF Init
<1>3. TypeOK /\ Flows
  BY <1>1, <1>2 DEF TypeOK, Flows
<1>4. SecretInv
  BY <1>1, <1>2 DEF SecretInv, SecretKept
<1>5. RegInv
  BY <1>1, <1>2 DEF RegInv, PortKept
<1>6. ModeInv /\ TruthInv
  BY <1>1, <1>2 DEF ModeInv, TruthInv, TruthKept
<1>. QED
  BY <1>3, <1>4, <1>5, <1>6 DEF CommandInv

\* As long as one command runs at a time, what it carries along agrees with
\* the VM, the registration, the secret and state.json at every await point.
THEOREM CommandInvariant == ASSUME OneCommand PROVE Spec => []CommandInv
<1>1. CommandInv /\ [Next]_vars => CommandInv'
  <2>. SUFFICES ASSUME CommandInv, [Next]_vars PROVE CommandInv'
    OBVIOUS
  <2>1. TypeOK /\ Flows /\ SecretInv /\ RegInv /\ ModeInv /\ TruthInv
    BY DEF CommandInv
  <2>2. TypeOK' /\ Flows'
    BY <2>1, TypeKept
  <2>3. SecretInv'
    BY <2>1, SecretInvKept
  <2>4. RegInv'
    BY <2>1, RegInvKept
  <2>5. ModeInv'
    BY <2>1, ModeInvKept
  <2>6. TruthInv'
    BY <2>1, TruthInvKept
  <2>. QED
    BY <2>2, <2>3, <2>4, <2>5, <2>6 DEF CommandInv
<1>. QED
  BY <1>1, CommandStart, PTL DEF Spec

\* lifecycle.rs opens the mode for the bootstrap only: whatever failed or was
\* killed before, a command whose last word to the broker was heard leaves a
\* bootstrapped sandbox in enforce mode.
THEOREM EnforcesTheBootstrapped == ASSUME OneCommand PROVE Spec => []BootstrappedIsEnforced
<1>1. CommandInv => BootstrappedIsEnforced
  <2>. SUFFICES ASSUME CommandInv, NEW p \in Jobs, Ended(p), job[p].heard, reg # NoReg,
                       box # NoBox, box.done # "never", state # NoRecord, state.boot
                PROVE  reg.mode = "enforce"
    BY Zenon DEF BootstrappedIsEnforced
  <2>1. job[p] # NoJob /\ job[p].todo = <<>>
    BY DEF Ended
  <2>2. Now(job[p]) = "end"
    BY <2>1 DEF Now, Nth
  <2>3. Closed(job[p])
    BY <2>1 DEF CommandInv, ModeInv
  <2>. QED
    BY <2>2, <2>3 DEF Closed, Bootstrapped
<1>. QED
  BY <1>1, CommandInvariant, PTL

\* state.json describes the sandbox that exists and what was bootstrapped in
\* it, unless a creation, a remodel or a restaging ended half-way.
THEOREM RecordsTheSandbox == ASSUME OneCommand PROVE Spec => []RecordIsTrue
<1>1. CommandInv => RecordIsTrue
  BY DEF CommandInv, TruthInv, TruthKept, Describes, Configured, Proven, RecordIsTrue
<1>. QED
  BY <1>1, CommandInvariant, PTL

\* A command that registered a running sandbox leaves it the endpoints that
\* are in its configuration and the password that is in the file.
THEOREM MediatesTheStarted == ASSUME OneCommand PROVE Spec => []StartedIsMediated
<1>1. CommandInv => StartedIsMediated
  <2>. SUFFICES ASSUME CommandInv, NEW p \in Jobs, Done(p), job[p].heard, trust, box # NoBox, box.port # 0
                PROVE  reg # NoReg /\ reg.port = box.port /\ box.pass = secret
    BY Zenon DEF StartedIsMediated
  <2>1. Heard(job[p])
    BY DEF CommandInv, RegInv, Done, Ended
  <2>2. PortKept(trust) /\ SecretKept
    BY DEF CommandInv, RegInv, SecretInv
  <2>. QED
    BY <2>1, <2>2 DEF Heard, PortKept, SecretKept
<1>. QED
  BY <1>1, CommandInvariant, PTL

=============================================================================
