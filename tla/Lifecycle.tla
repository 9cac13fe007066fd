------------------------------ MODULE Lifecycle ------------------------------
(***************************************************************************)
(* The commands that create, start, change and remove one project's        *)
(* sandbox (cli/lifecycle.rs, cli/remodel.rs), over what they share: the   *)
(* kitchen file and its dotfiles, state.json, the proxy secret, the VM and *)
(* the broker's registration.  A command is a sequence of steps, one for   *)
(* each await after which something outside the process has changed; any   *)
(* of them may fail, and the process may be killed between any two.        *)
(*                                                                         *)
(* A kitchen file is a record of what `remodel` tells apart: res (cpus,    *)
(* memory, disk: compared with state.json), env (environment and secrets:  *)
(* compared with the VM's own configuration), fixed (mounts, ports,        *)
(* preset), user (chef's ids), guest (what is rendered into the guest's    *)
(* mise.toml) and roots (the guest paths its dotfiles are staged at).      *)
(* The VM itself is microsandbox's, modelled from how these files use it.  *)
(***************************************************************************)
EXTENDS Naturals, Sequences

CONSTANTS
  Jobs,        \* processes that may run a command at the same time
  Commands,    \* the commands they may run
  Kitchens,    \* the kitchen files a user may write
  Contents,    \* the contents the dotfiles may have
  Ports,       \* endpoints the broker may bind
  Passwords,   \* the proxy passwords that may be generated
  MaxFaults,   \* things that go wrong in a behaviour
  Offline,     \* the values of `fixed` that have no network
  Faults,      \* what may go wrong: "fail", "kill", "outage"
  NoJob, NoRecord, NoBox, NoReg

ASSUME LifecycleAssumption ==
  /\ Passwords \subseteq Nat \ {0} /\ MaxFaults \in Nat
  /\ Commands \subseteq {"up", "recreate", "shell", "start", "stop", "restart", "down",
                         "purge", "bootstrap", "remodel", "remodel --recreate"}
  /\ Faults \subseteq {"fail", "kill", "outage"} /\ 0 \notin Ports

VARIABLES
  kitchen,   \* [text, content]: the kitchen file and its dotfiles now
  state,     \* state.json
  secret,    \* the proxy-secret file; 0: none
  box,       \* the VM
  serving,   \* whether the broker runs
  reg,       \* the broker's registration, as persisted
  job,       \* what each process is doing
  faults,    \* things that went wrong so far
  trust      \* history: nothing since the last creation ended half-way

disk == <<kitchen, state, secret, faults>>
vars == <<kitchen, state, secret, faults, box, serving, reg, job, trust>>

-----------------------------------------------------------------------------
(* The values the variables take.                                          *)

Projects == [text : Kitchens, content : Contents]
Applied == [res : {k.res : k \in Kitchens}, fixed : {k.fixed : k \in Kitchens},
            user : {k.user : k \in Kitchens}]
Guests == {k.guest : k \in Kitchens}

\* What is staged, and what the VM has of it: content by guest root.
Trees == UNION {[roots -> Contents] : roots \in SUBSET (UNION {k.roots : k \in Kitchens})}

Endpoints == Ports \cup {0}
Records == [applied : Applied, text : Kitchens, staged : Trees, boot : BOOLEAN, port : Endpoints]
Boxes == [on : BOOLEAN, res : {k.res : k \in Kitchens}, env : {k.env : k \in Kitchens},
          fixed : {k.fixed : k \in Kitchens}, user : {k.user : k \in Kitchens},
          port : Endpoints, pass : Nat, guest : Guests \cup {"none"}, files : Trees,
          done : {"never"} \cup (Guests \cup {"none"}) \X Trees]
Modes == {"open", "enforce"}
Regs == [mode : Modes, port : Ports, pass : Nat]

Fallible == {"refresh", "register", "create", "boot", "stop", "remove", "docker", "guest",
             "stage", "plan", "restage", "save", "note", "record", "purge", "diff", "modify",
             "update"}
Steps == Fallible \cup {"find", "connect", "fresh", "retire", "check", "open", "run", "enforce"}
Works == [cmd : Commands \cup {"recreate"}, todo : Seq(Steps), pass : Nat, plan : Projects,
          on : BOOLEAN, held : Records \cup {NoRecord}, mode : Modes, port : Endpoints,
          ok : BOOLEAN, failed : BOOLEAN, halt : BOOLEAN, heard : BOOLEAN, was : BOOLEAN,
          groups : SUBSET {"res", "env"}]

ASSUME AbsentAssumption ==
  NoJob \notin Works /\ NoRecord \notin Records /\ NoBox \notin Boxes /\ NoReg \notin Regs

-----------------------------------------------------------------------------
(* What a plan derives from the project.                                   *)

Config(plan) == [res |-> plan.text.res, fixed |-> plan.text.fixed, user |-> plan.text.user]

\* The staged files: content by guest root.  Its domain is `staged_paths`,
\* the whole function stands for the digest.
Stage(plan) == [r \in plan.text.roots |-> plan.content]

\* After staging, minus the roots the last stage had and this one has not.
Restaged(files, stage, stale) ==
  [r \in (DOMAIN files \ stale) \cup DOMAIN stage |->
     IF r \in DOMAIN stage THEN stage[r] ELSE files[r]]

WithoutRecreate(applied, desired) ==
  [desired EXCEPT !.fixed = applied.fixed, !.user = applied.user]

-----------------------------------------------------------------------------
(* The steps of a command, in the order the code awaits them.              *)

Mediated == <<"connect", "register", "boot">>                  \* start_mediated()
Creation == <<"fresh", "create", "guest", "stage", "save">>    \* connect_egress(fresh), create()
Bootstrapping == <<"open", "run", "enforce", "record">>        \* run_bootstrap()
Halt == <<"refresh", "stop">>

Up(exists, recreate) ==
  (IF ~exists THEN Creation
   ELSE IF recreate THEN <<"remove", "retire">> \o Creation ELSE Mediated)
  \o <<"docker", "check">>

\* What follows once the sandbox was looked up; `require` fails without one.
AfterFind(cmd, exists, on) ==
  CASE cmd = "up"        -> Up(exists, FALSE)
    [] cmd = "recreate"  -> Up(exists, TRUE)
    [] cmd = "shell"     -> Mediated
    [] cmd = "start"     -> Mediated \o <<"docker">>
    [] cmd = "stop"      -> IF on THEN <<"stop">> ELSE <<>>
    [] cmd = "restart"   -> (IF on THEN <<"stop">> ELSE <<>>) \o <<"refresh">>
                              \o Mediated \o <<"docker">>
    [] cmd = "down"      -> IF exists THEN <<"remove", "retire">> ELSE <<>>
    [] cmd = "purge"     -> (IF exists THEN <<"remove", "retire">> ELSE <<>>) \o <<"purge">>
    [] cmd = "bootstrap" -> Mediated \o <<"docker", "plan", "restage", "note">> \o Bootstrapping
    [] OTHER             -> <<"diff">>

Requires == {"shell", "start", "stop", "restart", "bootstrap", "remodel", "remodel --recreate"}
MayStart == {"up", "recreate"} \cup (Requires \ {"stop"})
Remodels == {"remodel", "remodel --recreate"}

At(p, s) == job[p] # NoJob /\ job[p].todo # <<>> /\ Head(job[p].todo) = s
Then(p, more) == job' = [job EXCEPT ![p].todo = more \o Tail(@)]
Go(p) == Then(p, <<>>)

\* A step failed: the rest is skipped, apart from stopping again a sandbox
\* that `remodel` had started.
Fail(p) ==
  job' = [job EXCEPT ![p].failed = TRUE, ![p].halt = FALSE,
                     ![p].todo = IF job[p].halt THEN Halt ELSE <<>>]

\* One more thing goes wrong.
Fault(kind) == kind \in Faults /\ faults < MaxFaults /\ faults' = faults + 1

-----------------------------------------------------------------------------
(* A process begins: main() exports the secret, then the command loads the *)
(* project.                                                                *)

\* A new password, of 256 random bits, is none of those in use.
InUse == {IF reg = NoReg THEN 0 ELSE reg.pass, IF box = NoBox THEN 0 ELSE box.pass}
           \cup {IF job[p] = NoJob THEN 0 ELSE job[p].pass : p \in Jobs}

\* Fault variant: Every process generates a secret of its own.
Begin_Always(p) ==
  /\ job[p] = NoJob
  /\ \E cmd \in Commands :
       /\ IF cmd \in MayStart THEN secret' \in Passwords \ InUse ELSE UNCHANGED secret
       /\ job' = [job EXCEPT ![p] =
            [cmd |-> cmd, todo |-> <<"find">>, pass |-> IF cmd \in MayStart THEN secret' ELSE 0,
             plan |-> kitchen, on |-> FALSE, held |-> NoRecord, mode |-> "open", port |-> 0,
             ok |-> FALSE, failed |-> FALSE, halt |-> FALSE, heard |-> FALSE, was |-> FALSE,
             groups |-> {}]]
  /\ UNCHANGED <<kitchen, state, faults, box, serving, reg, trust>>

Begin(p) ==
  /\ job[p] = NoJob
  /\ \E cmd \in Commands :
       /\ IF cmd \in MayStart /\ secret = 0 THEN secret' \in Passwords \ InUse
          ELSE UNCHANGED secret
       /\ job' = [job EXCEPT ![p] =
            [cmd |-> cmd, todo |-> <<"find">>, pass |-> IF cmd \in MayStart THEN secret' ELSE 0,
             plan |-> kitchen, on |-> FALSE, held |-> NoRecord, mode |-> "open", port |-> 0,
             ok |-> FALSE, failed |-> FALSE, halt |-> FALSE, heard |-> FALSE, was |-> FALSE,
             groups |-> {}]]
  /\ UNCHANGED <<kitchen, state, faults, box, serving, reg, trust>>

End(p) ==
  /\ job[p] # NoJob /\ job[p].todo = <<>>
  /\ job' = [job EXCEPT ![p] = NoJob]
  /\ UNCHANGED <<disk, box, serving, reg, trust>>

Find(p) ==
  /\ At(p, "find")
  /\ LET j == job[p]
         exists == box # NoBox
         on == exists /\ box.on
     IN IF ~exists /\ j.cmd \in Requires THEN Fail(p)
        ELSE job' = [job EXCEPT ![p].todo = AfterFind(j.cmd, exists, on), ![p].on = on]
  /\ UNCHANGED <<disk, box, serving, reg, trust>>

\* handle.refresh(): the status is read again.
Refresh(p) ==
  /\ At(p, "refresh")
  /\ IF box = NoBox THEN Fail(p)
     ELSE job' = [job EXCEPT ![p].todo = Tail(@), ![p].on = box.on]
  /\ UNCHANGED <<disk, box, serving, reg, trust>>

-----------------------------------------------------------------------------
(* Registering with the broker.                                            *)

\* connect_egress() of an existing sandbox: mode and ports from state.json.
\* One without a record, a network or recorded ports is not registered.
Connect(p) ==
  /\ At(p, "connect")
  /\ IF state = NoRecord \/ (state # NoRecord /\ (state.applied.fixed \in Offline \/ state.port = 0))
     THEN job' = [job EXCEPT ![p].todo = Tail(Tail(@))]
     ELSE job' = [job EXCEPT ![p].todo = Tail(@), ![p].port = state.port,
                             ![p].mode = IF state.boot THEN "enforce" ELSE "open"]
  /\ UNCHANGED <<disk, box, serving, reg, trust>>

\* A new sandbox gets whatever endpoints the broker binds, and starts open.
Fresh(p) ==
  /\ At(p, "fresh")
  /\ job' = [job EXCEPT ![p].port = 0, ![p].mode = "open",
             ![p].todo = (IF job[p].plan.text.fixed \in Offline THEN <<>> ELSE <<"register">>) \o Tail(@)]
  /\ UNCHANGED <<disk, box, serving, reg, trust>>

\* A broker that starts registers again what it had persisted, with the
\* secrets as they are in their files now.
Restored == IF reg = NoReg \/ secret = 0 THEN NoReg ELSE [reg EXCEPT !.pass = secret]

\* Registry::register(): a compatible registration only changes its mode.
Register(p) ==
  /\ At(p, "register")
  /\ LET j == job[p]
         known == IF serving THEN reg ELSE Restored
     IN /\ serving' = TRUE
        /\ IF known # NoReg /\ j.port \in {0, known.port}
           THEN /\ reg' = [known EXCEPT !.mode = j.mode]
                /\ job' = [job EXCEPT ![p].todo = Tail(@), ![p].port = known.port, ![p].heard = TRUE]
           ELSE IF secret = 0 THEN reg' = NoReg /\ Fail(p)
           ELSE \E port \in IF j.port = 0 THEN Ports ELSE {j.port} :
                  /\ reg' = [mode |-> j.mode, port |-> port, pass |-> secret]
                  /\ job' = [job EXCEPT ![p].todo = Tail(@), ![p].port = port, ![p].heard = TRUE]
  /\ UNCHANGED <<disk, box, trust>>

\* set_broker_mode(): nothing at all when the broker does not answer.
SetMode(p, s, mode) ==
  /\ At(p, s)
  /\ reg' = IF serving /\ reg # NoReg THEN [reg EXCEPT !.mode = mode] ELSE reg
  /\ job' = [job EXCEPT ![p].todo = Tail(@), ![p].heard = serving /\ reg # NoReg]
  /\ UNCHANGED <<disk, box, serving, trust>>

Retire(p) ==
  /\ At(p, "retire")
  /\ reg' = IF serving THEN NoReg ELSE reg
  /\ Go(p)
  /\ UNCHANGED <<disk, box, serving, trust>>

-----------------------------------------------------------------------------
(* The VM.                                                                 *)

\* create_detached(): refused when the name is taken.
Create(p) ==
  /\ At(p, "create")
  /\ IF box # NoBox THEN Fail(p) /\ UNCHANGED <<box, trust>>
     ELSE LET text == job[p].plan.text
          IN /\ box' = [on |-> TRUE, res |-> text.res, env |-> text.env, fixed |-> text.fixed,
                        user |-> text.user, port |-> job[p].port, pass |-> job[p].pass,
                        guest |-> "none", files |-> <<>>, done |-> "never"]
             /\ Go(p)
             /\ trust' = FALSE
  /\ UNCHANGED <<disk, serving, reg>>

\* The snapshot decides between connecting and starting; microsandbox refuses
\* the one that does not fit any more.  A start reads the exported secret.
Boot(p) ==
  /\ At(p, "boot")
  /\ IF box = NoBox \/ (box # NoBox /\ box.on # job[p].on)
     THEN Fail(p) /\ UNCHANGED box
     ELSE /\ box' = IF box.on THEN box ELSE [box EXCEPT !.on = TRUE, !.pass = job[p].pass]
          /\ job' = [job EXCEPT ![p].todo = Tail(@), ![p].halt = job[p].cmd \in Remodels]
  /\ UNCHANGED <<disk, serving, reg, trust>>

\* lifecycle::stop(): nothing when the snapshot says that it does not run.
Stop(p) ==
  /\ At(p, "stop")
  /\ IF box = NoBox THEN Fail(p) /\ UNCHANGED box
     ELSE /\ box' = IF job[p].on THEN [box EXCEPT !.on = FALSE] ELSE box
          /\ Go(p)
  /\ UNCHANGED <<disk, serving, reg, trust>>

Remove(p) ==
  /\ At(p, "remove")
  /\ IF box = NoBox THEN Fail(p) ELSE Go(p)
  /\ box' = NoBox
  /\ UNCHANGED <<disk, serving, reg, trust>>

\* Everything that runs in the guest needs it running.
InGuest(p) == box # NoBox /\ box.on

Docker(p) ==
  /\ At(p, "docker")
  /\ IF InGuest(p) THEN Go(p) ELSE Fail(p)
  /\ UNCHANGED <<disk, box, serving, reg, trust>>

WriteGuest(p) ==
  /\ At(p, "guest")
  /\ IF InGuest(p)
     THEN box' = [box EXCEPT !.guest = job[p].plan.text.guest] /\ Go(p)
     ELSE UNCHANGED box /\ Fail(p)
  /\ UNCHANGED <<disk, serving, reg, trust>>

StaleRoots(p) ==
  IF job[p].held = NoRecord THEN {} ELSE DOMAIN job[p].held.staged \ job[p].plan.text.roots

\* Copying the staged files in; `restage` of `bootstrap` reads the project and
\* state.json once more for it.
StageFiles(p) ==
  /\ At(p, "stage") \/ At(p, "restage")
  /\ IF InGuest(p)
     THEN box' = [box EXCEPT !.files = Restaged(@, Stage(job[p].plan), StaleRoots(p))] /\ Go(p)
     ELSE UNCHANGED box /\ Fail(p)
  /\ UNCHANGED <<disk, serving, reg, trust>>

Replan(p) ==
  /\ At(p, "plan")
  /\ LET nothing == kitchen.text.roots = {} /\ (state # NoRecord => DOMAIN state.staged = {})
     IN /\ job' = [job EXCEPT ![p].plan = kitchen, ![p].held = state, ![p].was = trust,
                              ![p].todo = IF nothing THEN Tail(Tail(Tail(@))) ELSE Tail(@)]
        /\ trust' = (trust /\ nothing)
  /\ UNCHANGED <<disk, box, serving, reg>>

\* Fault variant: The failure of the scripts is returned at once.
RunBootstrap_Returns(p) ==
  /\ At(p, "run")
  /\ \E ok \in BOOLEAN :
       /\ IF ok \/ ~InGuest(p) THEN ok = InGuest(p) /\ UNCHANGED faults ELSE Fault("fail")
       /\ IF ok THEN job' = [job EXCEPT ![p].todo = Tail(@), ![p].ok = ok] ELSE Fail(p)
       /\ box' = IF ok THEN [box EXCEPT !.done = <<box.guest, box.files>>] ELSE box
  /\ UNCHANGED <<kitchen, state, secret, serving, reg, trust>>

\* The scripts of `mise bootstrap`.  Their failure is the command's, but only
\* after the mode is enforced and the outcome recorded.
RunBootstrap(p) ==
  /\ At(p, "run")
  /\ \E ok \in BOOLEAN :
       /\ IF ok \/ ~InGuest(p) THEN ok = InGuest(p) /\ UNCHANGED faults ELSE Fault("fail")
       /\ job' = [job EXCEPT ![p].todo = Tail(@), ![p].ok = ok]
       /\ box' = IF ok THEN [box EXCEPT !.done = <<box.guest, box.files>>] ELSE box
  /\ UNCHANGED <<kitchen, state, secret, serving, reg, trust>>

-----------------------------------------------------------------------------
(* state.json: every save writes the whole record.                         *)

\* The record of a new sandbox.
Save(p) ==
  /\ At(p, "save")
  /\ state' = [applied |-> Config(job[p].plan), text |-> job[p].plan.text,
               staged |-> Stage(job[p].plan), boot |-> FALSE, port |-> job[p].port]
  /\ Go(p)
  /\ trust' = TRUE
  /\ UNCHANGED <<kitchen, secret, faults, box, serving, reg>>

\* `up` bootstraps a sandbox whose record does not say that it was.
Check(p) ==
  /\ At(p, "check")
  /\ Then(p, IF state # NoRecord /\ state.boot THEN <<>> ELSE Bootstrapping)
  /\ UNCHANGED <<disk, box, serving, reg, trust>>

\* run_bootstrap() loads the record again, but replaces all of it.
Record(p) ==
  /\ At(p, "record")
  /\ state' = IF state = NoRecord THEN state ELSE [state EXCEPT !.boot = job[p].ok]
  /\ IF job[p].ok THEN Go(p) ELSE Fail(p)
  /\ trust' = (trust \/ job[p].was)
  /\ UNCHANGED <<kitchen, secret, faults, box, serving, reg>>

\* Fault variant: restage() keeps what it staged to itself.
Note_Nothing(p) ==
  /\ At(p, "note")
  /\ Go(p)
  /\ UNCHANGED <<disk, box, serving, reg, trust>>

\* restage() saves the record it loaded before the files were copied.
Note(p) ==
  /\ At(p, "note")
  /\ state' = IF job[p].held = NoRecord THEN state
              ELSE [job[p].held EXCEPT !.staged = Stage(job[p].plan)]
  /\ Go(p)
  /\ UNCHANGED <<kitchen, secret, faults, box, serving, reg, trust>>

Purge(p) ==
  /\ At(p, "purge")
  /\ state' = NoRecord /\ secret' = 0
  /\ Go(p)
  /\ trust' = (trust /\ reg = NoReg)
  /\ UNCHANGED <<kitchen, faults, box, serving, reg>>

-----------------------------------------------------------------------------
(* remodel: what differs, where each difference goes, and in which order.  *)

\* Resources are compared with the record, the environment and the secrets
\* with the VM's own configuration.
SdkGroups(plan) ==
  (IF plan.text.res # state.applied.res THEN {"res"} ELSE {})
  \cup (IF plan.text.env # box.env THEN {"env"} ELSE {})

UserPending(plan, held) == plan.text.user # held.applied.user
Recreates(plan, held) == UserPending(plan, held) \/ plan.text.fixed # held.applied.fixed
GuestChanged(plan, held) ==
  ~UserPending(plan, held) /\ (plan.text.guest # held.text.guest \/ Stage(plan) # held.staged)

\* The guest's part.  A stopped sandbox is started for it and stopped again.
GuestPart(on) ==
  LET apply == <<"guest", "stage">> \o Bootstrapping
  IN IF on THEN apply ELSE <<"refresh">> \o Mediated \o apply \o Halt

Diff(p) ==
  /\ At(p, "diff")
  /\ IF state = NoRecord \/ box = NoBox THEN Fail(p) /\ UNCHANGED trust
     ELSE LET plan == job[p].plan
              inGuest == GuestChanged(plan, state)
              groups == SdkGroups(plan)
              nothing == ~inGuest /\ groups = {} /\ Config(plan) = state.applied
          IN IF job[p].cmd = "remodel --recreate" /\ Recreates(plan, state)
             THEN /\ job' = [job EXCEPT ![p].cmd = "recreate", ![p].plan = kitchen,
                                        ![p].todo = <<"find">>]
                  /\ UNCHANGED trust
             ELSE /\ job' = [job EXCEPT ![p].held = state, ![p].was = trust, ![p].groups = groups,
                       ![p].todo = IF nothing THEN <<>>
                                   ELSE <<"modify", "update">>
                                        \o (IF inGuest THEN GuestPart(job[p].on) ELSE <<>>)]
                  /\ trust' = (trust /\ nothing)
  /\ UNCHANGED <<disk, box, serving, reg>>

\* modify().apply() of the groups that change now, next_start() of the others:
\* either way the VM's stored configuration has them.  The second call may
\* fail after the first was applied.
Modify(p) ==
  /\ At(p, "modify")
  /\ IF box = NoBox THEN Fail(p) /\ UNCHANGED <<box, faults>>
     ELSE \E done \in SUBSET job[p].groups :
            /\ box' = [box EXCEPT !.res = IF "res" \in done THEN job[p].plan.text.res ELSE @,
                                  !.env = IF "env" \in done THEN job[p].plan.text.env ELSE @]
            /\ IF done = job[p].groups THEN Go(p) /\ UNCHANGED faults
               ELSE Fail(p) /\ Fault("fail")
  /\ UNCHANGED <<kitchen, state, secret, serving, reg, trust>>

\* The record says that everything but what needs a new sandbox is applied,
\* before the guest's part is.
Update(p) ==
  /\ At(p, "update")
  /\ LET plan == job[p].plan
         held == [job[p].held EXCEPT !.applied = WithoutRecreate(@, Config(plan))]
     IN state' = IF UserPending(plan, held) THEN held
                 ELSE [held EXCEPT !.text = plan.text, !.staged = Stage(plan)]
  /\ Go(p)
  /\ trust' = (trust \/ (job[p].was /\ Len(job[p].todo) = 1))
  /\ UNCHANGED <<kitchen, secret, faults, box, serving, reg>>

-----------------------------------------------------------------------------
(* What happens around the commands.                                       *)

\* A command works on the project as it read it: an edit while it runs counts
\* for it only before it reads once more.
Edit ==
  /\ \A p \in Jobs : job[p] = NoJob \/ At(p, "plan") \/ At(p, "diff")
  /\ \E text \in Kitchens, content \in Contents :
       kitchen' = [text |-> text, content |-> content]
  /\ kitchen' # kitchen
  /\ UNCHANGED <<state, secret, faults, box, serving, reg, job, trust>>

StepFails(p) ==
  /\ Fault("fail")
  /\ \E s \in Fallible : At(p, s)
  /\ Fail(p)
  /\ UNCHANGED <<kitchen, state, secret, box, serving, reg, trust>>

Kill(p) ==
  /\ Fault("kill")
  /\ job[p] # NoJob /\ job[p].todo # <<>>
  /\ job' = [job EXCEPT ![p] = NoJob]
  /\ UNCHANGED <<kitchen, state, secret, box, serving, reg, trust>>

\* The broker ends, or is stopped; `broker start` brings it back.
Outage ==
  /\ serving /\ Fault("outage")
  /\ serving' = FALSE
  /\ UNCHANGED <<kitchen, state, secret, box, reg, job, trust>>

BrokerStart ==
  /\ ~serving
  /\ serving' = TRUE
  /\ reg' = Restored
  /\ UNCHANGED <<disk, box, job, trust>>

Step(p) ==
  \/ Begin(p) \/ End(p) \/ Find(p) \/ Refresh(p)
  \/ Connect(p) \/ Fresh(p) \/ Register(p) \/ Retire(p)
  \/ SetMode(p, "open", "open") \/ SetMode(p, "enforce", "enforce")
  \/ Create(p) \/ Boot(p) \/ Stop(p) \/ Remove(p) \/ Docker(p) \/ WriteGuest(p)
  \/ Replan(p) \/ StageFiles(p) \/ RunBootstrap(p)
  \/ Save(p) \/ Check(p) \/ Record(p) \/ Note(p) \/ Purge(p)
  \/ Diff(p) \/ Modify(p) \/ Update(p)

Next == Edit \/ Outage \/ BrokerStart \/ \E p \in Jobs : Step(p) \/ StepFails(p) \/ Kill(p)

Init ==
  /\ kitchen \in [text : Kitchens, content : Contents]
  /\ state = NoRecord /\ secret = 0
  /\ box = NoBox /\ serving = FALSE /\ reg = NoReg /\ faults = 0
  /\ job = [p \in Jobs |-> NoJob]
  /\ trust = TRUE

Spec == Init /\ [][Next]_vars

-----------------------------------------------------------------------------
(* Properties.                                                             *)

TypeOK ==
  /\ kitchen \in Projects /\ state \in Records \cup {NoRecord} /\ secret \in Nat
  /\ box \in Boxes \cup {NoBox} /\ serving \in BOOLEAN /\ reg \in Regs \cup {NoReg}
  /\ job \in [Jobs -> Works \cup {NoJob}] /\ faults \in Nat /\ trust \in BOOLEAN

Ended(p) == job[p] # NoJob /\ job[p].todo = <<>>
Done(p) == Ended(p) /\ ~job[p].failed
Quiet == \A p \in Jobs : job[p] = NoJob

\* A command that came to its end, well or not, and whose last word to the
\* broker was heard leaves a sandbox that was bootstrapped, and is recorded so,
\* in enforce mode: lifecycle.rs opens the mode for the bootstrap only,
\* whatever failed or was killed before.
BootstrappedIsEnforced ==
  \A p \in Jobs :
    (/\ Ended(p) /\ job[p].heard /\ reg # NoReg
     /\ box # NoBox /\ box.done # "never" /\ state # NoRecord /\ state.boot)
      => reg.mode = "enforce"

\* state.json describes the sandbox that exists, unless a creation, a remodel
\* or a restaging ended half-way: its configuration, its guest's mise.toml and
\* staged files, its endpoints, and that what is in it was bootstrapped.
RecordIsTrue ==
  Quiet /\ trust /\ box # NoBox =>
    /\ state # NoRecord
    /\ state.applied = [res |-> box.res, fixed |-> box.fixed, user |-> box.user]
    /\ state.text.guest = box.guest
    /\ state.staged = box.files
    /\ state.port = box.port
    /\ state.boot => box.done = <<box.guest, box.files>>

\* A command that registered a running sandbox leaves it the endpoints that
\* are in its configuration, and a password that is the one in the file.
StartedIsMediated ==
  \A p \in Jobs :
    Done(p) /\ job[p].heard /\ trust /\ box # NoBox /\ box.on /\ box.port # 0 =>
      reg # NoReg /\ reg.port = box.port /\ box.pass = secret

\* The broker verifies the password that the running sandbox presents: both
\* have it from the same file.
PasswordAgrees ==
  \A p \in Jobs :
    Done(p) /\ job[p].heard /\ box # NoBox /\ box.on /\ box.port # 0 /\ reg # NoReg =>
      reg.pass = box.pass
=============================================================================
