----------------------------- MODULE Provisioning -----------------------------
(***************************************************************************)
(* From the kitchen file to the sandbox and, as the file is edited, to the *)
(* sandbox again: loading the project (config/mod.rs), the plan of a       *)
(* sandbox (sandbox/plan.rs, sandbox/build.rs) and its remodelling         *)
(* (cli/remodel.rs), over the algorithms of the modules below.  Commands   *)
(* are whole here and nothing fails half-way: Lifecycle interleaves them.  *)
(*                                                                         *)
(* A setup is the host's side: [files, tree, output, host], the mise       *)
(* config files, the name of the host's files, what `mise env` prints      *)
(* (Junk: it fails) and the host's environment.                            *)
(***************************************************************************)
EXTENDS Remodel

CONSTANTS
  Trees,      \* the host's files, by name
  Families,   \* sets of setups: what a user edits a project within
  ImageEnv,   \* the image's own variables
  NoBox, NoRecord

VARIABLES
  setup,    \* the host's side now
  project,  \* what a command that loads it now gets
  box,      \* the sandbox: its stored configuration and the guest's files
  record,   \* state.json
  named,    \* history: the variables the kitchen ever set in the sandbox
  last      \* history: the last command, or "edit"

\* TOML has no key without a value; asked only of the tables of chef's ids.
ASSUME WholeTables ==
  \A s \in UNION Families :
    LET text == KitchenFile(s.files).text
    IN \A table \in {Chef(text), Get(Get(text.bootstrap, "groups"), "chef")} :
         IsTable(table) => \A k \in DOMAIN table : table[k] # Absent

\* What is a list is a sequence.
Listed(list) == Elements(list) \in Seq(Range(Elements(list)))
ASSUME ListsAssumption ==
  \A s \in UNION Families :
    LET section == Section(KitchenFile(s.files).text)
        secrets == Get(section, "secrets")
    IN /\ Listed(Get(section, "mounts"))
       /\ \A key \in {"allow", "deny", "ports"} : Listed(Get(Get(section, "network"), key))
       /\ IsTable(secrets) => \A n \in DOMAIN secrets : Listed(Get(secrets[n], "allow"))

\* Every path that a setup is about is a sequence of names.
ASSUME PathsAssumption ==
  \A s \in UNION Families :
    LET file == KitchenFile(s.files)
        dotfiles == Get(Section(file.text), "dotfiles")
    IN /\ {file.path} \cup DOMAIN Trees[s.tree] \subseteq Seq(STRING)
       /\ file.text.entries \in Seq(Range(file.text.entries))
       /\ \A e \in Range(file.text.entries) :
            /\ (~e.short /\ IsTable(e.value)) => Listed(Get(e.value, "variants"))
            /\ \A r \in Range(Requests(e)) : r.text.parts \in Seq(STRING)
       /\ \A root \in {dotfiles, file.text.root} : IsTable(root) => root.parts \in Seq(STRING)

\* What holds something is a directory.
ASSUME TreesAssumption ==
  \A s \in UNION Families :
    LET tree == Trees[s.tree]
    IN \A path \in DOMAIN tree : \A n \in 0..(Len(path) - 1) :
         SubSeq(path, 1, n) \in DOMAIN tree /\ tree[SubSeq(path, 1, n)].kind = "dir"

vars == <<setup, project, box, record, named, last>>

-----------------------------------------------------------------------------
(* Project::load() and SandboxPlan::from_project().                        *)

HostTree(s) == Trees[s.tree]

\* Problems make every command refuse; what follows is then not looked at.
\* Sources are relative to the kitchen file's directory, not to the project's.
\* The environment: what is declared a secret is not in it.
Load(s) ==
  LET file == KitchenFile(s.files)
      dir == ProjectDir(file.path)
      config == Config(file.text, dir)
      declared == Declared(s.files)
      staging == StagePlan(file.text, Front(file.path), dir, config.dotfiles)
      values == IF s.output = Junk THEN <<>> ELSE Environment(s.output, declared, s.host)
      secret == DOMAIN values \cap DOMAIN config.secrets
  IN [text |-> file.text, base |-> Front(file.path), dir |-> dir, tree |-> s.tree,
      sources |-> staging.sources, rewrites |-> staging.rewrites,
      ok |-> /\ ParseErrors(file.text, dir) = {} /\ CheckErrors(config, declared, HostTree(s)) = {}
             /\ staging.errors = {} /\ StagingErrors(staging.sources, HostTree(s)) = {}
             /\ s.output # Junk /\ Collectable(staging.sources, HostTree(s)),
      config |-> config,
      env |-> [n \in DOMAIN values \ secret |-> values[n]],
      secrets |-> [n \in secret |-> [value |-> values[n], hosts |-> config.secrets[n]]],
      archive |-> Archive(staging.sources, HostTree(s)),
      copy |-> Copy(file.text, staging.rewrites)]

\* builder(): the sandbox as it is created, and the first stage.
NewBox ==
  [res |-> [f \in {"cpus", "memory", "disk"} |-> project.config[f]],
   env |-> Over(project.env, Over(GuestEnv, ImageEnv)),
   secrets |-> project.secrets,
   fixed |-> [f \in Recreated |-> project.config[f]],
   copy |-> project.copy,
   files |-> Applied(<<>>, project.archive, {})]

Recorded ==
  [applied |-> project.config, text |-> project.text, staged |-> project.archive,
   roots |-> Roots(project.sources), envKeys |-> DOMAIN project.env]

-----------------------------------------------------------------------------
(* Remodelling.                                                            *)

UserPending == project.config.user # record.applied.user
Stale == record.roots \ Roots(project.sources)

\* applied_guest_config(): the text as last applied, with the sources it
\* names, but with the `dotfiles` of the file as it is now.
AppliedCopy ==
  Copy(record.text,
       StagePlan(record.text, project.base, project.dir, project.config.dotfiles).rewrites)

GuestChanged == ~UserPending /\ AppliedCopy # project.copy
StagedChanged == ~UserPending /\ (project.archive # record.staged \/ Stale # {})

\* write_guest_state()
Staged(b) ==
  [b EXCEPT !.copy = project.copy,
            !.files = IF project.archive = <<>> /\ Stale = {} THEN @
                      ELSE Applied(@, project.archive, Stale)]

\* The record after everything that needs no new sandbox was applied.
Updated ==
  [Recorded EXCEPT !.applied = WithoutRecreate(record.applied, @),
     !.text = IF UserPending THEN record.text ELSE @,
     !.staged = IF UserPending THEN record.staged ELSE @,
     !.roots = IF UserPending THEN record.roots ELSE @]

Up ==
  /\ box = NoBox /\ project.ok
  /\ box' = NewBox /\ record' = Recorded /\ named' = record'.envKeys
  /\ last' = "up"
  /\ UNCHANGED <<setup, project>>

RemodelBox ==
  /\ box # NoBox /\ project.ok
  /\ LET sdk == SdkChanges(box, record, project)
         inGuest == GuestChanged \/ StagedChanged
         modified == Modified(box, sdk, project)
     IN IF Diff(record.applied, project.config) = {} /\ Groups(sdk) = {} /\ ~inGuest
        THEN UNCHANGED <<box, record, named>>
        ELSE /\ box' = IF inGuest THEN Staged(modified) ELSE modified
             /\ record' = Updated /\ named' = named \cup record'.envKeys
  /\ last' = "remodel"
  /\ UNCHANGED <<setup, project>>

\* The user edits files, or the environment changes.  Two edits in a row are one.
Edit ==
  /\ last # "edit"
  /\ \E family \in Families : setup \in family /\ setup' \in family \ {setup}
  /\ project' = Load(setup')
  /\ last' = "edit"
  /\ UNCHANGED <<box, record, named>>

Init ==
  /\ setup \in UNION Families /\ project = Load(setup)
  /\ box = NoBox /\ record = NoRecord /\ named = {} /\ last = "edit"
Next == Up \/ RemodelBox \/ Edit
Spec == Init /\ [][Next]_vars

-----------------------------------------------------------------------------
(* Properties.                                                             *)

InStep == last \in {"up", "remodel"}

\* What may be staged: the host paths that some entry names and leaves in.
Asks ==
  LET dotfiles == project.config.dotfiles
      root == IF IsTable(dotfiles) THEN dotfiles ELSE project.text.root
      asked == (UNION {Range(Requests(e)) : e \in Range(project.text.entries)})
               \cup (IF IsTable(root) THEN {Ask(root, RootSlot, <<>>, FALSE)} ELSE {})
  IN {[host |-> SplitGlob(Resolved(r.text, project.base)).host, exclude |-> r.exclude, git |-> r.git] :
        r \in asked}
LeavesIn(ask, path) ==
  /\ IsPrefix(ask.host, path)
  /\ \A n \in (Len(ask.host) + 1)..Len(path) : ~Excluded(SubSeq(path, Len(ask.host) + 1, n), ask.exclude)
  /\ (ask.git /\ path # ask.host /\ HostTree(project)[path].kind = "file") => path \in Tracked

\* No file leaves the host that every entry naming its directory excludes or
\* git does not track (sandbox/staging.rs:140-141) - unless two entries name
\* one directory with different excludes, which are then dropped.  A file that
\* is itself named leaves it in any case.
OnlyAdmittedLeaves ==
  InStep =>
    LET agreed == \A a, b \in Asks : a.host = b.host => a.exclude = b.exclude
        tree == HostTree(project)
    IN agreed => \A s \in project.sources : \A rel \in Expanded(s, tree) :
                   \E ask \in Asks : LeavesIn(ask, s.host \o rel)

\* What the copy of the kitchen file refers to is there.
Refers == {r.to : r \in {x \in project.rewrites : x.action # "remove"}}

\* What an entry names and the host does not have, or not to be copied.
Lacking == {a \in Asks : a.host \notin DOMAIN HostTree(project)
                           \/ HostTree(project)[a.host].kind = "device"}

\* After `up` or `remodel`, through whatever edits came before, the guest has
\* every staged file as it is on the host, nothing below a path that is not
\* staged any more, and what the copy of the kitchen file refers to is there
\* if the host has it (only what is not below another source is checked, so
\* the host may not), unless a source lies below another that is not inside
\* the project.
StageIsExact ==
  (InStep /\ ~UserPending) =>
    LET nested == \E a, b \in Asks : IsStrictPrefix(a.host, b.host) /\ ~IsStrictPrefix(project.dir, a.host)
    IN /\ \A p \in DOMAIN project.archive : p \in DOMAIN box.files /\ box.files[p] = project.archive[p]
       /\ \A p \in DOMAIN box.files : \E root \in Roots(project.sources) : IsPrefix(root, p)
       /\ nested \/ Refers \ {GuestPath(a.host, project.dir) : a \in Lacking} \subseteq DOMAIN box.files

\* A second `remodel` finds only what needs a new sandbox; the environment is
\* the kitchen's over the sandbox's own over the image's, less what the
\* kitchen once set, and what is a secret now is nowhere in it, whatever it
\* was before.
RemodelConverges ==
  InStep =>
    LET wanted == Over(project.env, GuestEnv)
    IN /\ Diff(record.applied, project.config) \subseteq Recreated
       /\ Groups(SdkChanges(box, record, project)) = {}
       /\ \A k \in DOMAIN box.env : box.env[k] = Over(wanted, ImageEnv)[k]
       /\ DOMAIN wanted \cup (DOMAIN ImageEnv \ named) \subseteq DOMAIN box.env
       /\ DOMAIN box.env \subseteq DOMAIN wanted \cup DOMAIN ImageEnv
       /\ box.secrets = project.secrets /\ DOMAIN box.secrets \cap DOMAIN project.env = {}

\* The guest's copy declares chef with the ids that the sandbox was created to
\* run as, at all times, also while a change of them waits for a new sandbox
\* (cli/remodel.rs:164-165) - if the file declares chef, or no group chef.
IdentityAgrees ==
  box # NoBox =>
    LET b == box.copy.bootstrap
        chef == Get(Get(b, "users"), "chef")
        known == IsTable(Chef(record.text)) \/ Gid(record.text) = Absent
    IN (known /\ IsTable(b) /\ IsTable(Get(b, "users")) /\ Get(b, "groups") # Junk) =>
         /\ Get(chef, "uid") = box.fixed.user.uid
         /\ Get(Get(Get(b, "groups"), GroupOf(chef)), "gid") = box.fixed.user.gid

\* A sandbox is only ever created from a configuration it can be run with:
\* mounts leave microkitchen's own paths and one another alone, no port is
\* published twice or without a network, no rule contradicts itself, every
\* secret has hosts it may be sent to, and all are names.
CreatedIsSound ==
  box # NoBox =>
    LET c == record.applied
        mounts == box.fixed.mounts
    IN /\ \A i \in DOMAIN mounts : \A r \in Reserved : ~Overlaps(mounts[i].guest, r)
       /\ \A i, j \in DOMAIN mounts : mounts[i].guest = mounts[j].guest => i = j
       /\ \A i, j \in DOMAIN box.fixed.ports :
            (box.fixed.ports[i].host = box.fixed.ports[j].host
               /\ box.fixed.ports[i].protocol = box.fixed.ports[j].protocol) => i = j
       /\ box.fixed.preset = "none" => box.fixed.ports = <<>>
       /\ Range(c.allow) \cap Range(c.deny) = {}
       /\ \A n \in DOMAIN box.secrets :
            box.secrets[n].hosts # <<>> /\ \A p \in Range(box.secrets[n].hosts) : IsName(p)
       /\ box.fixed.user.uid # 0

\* The copy refers to what was staged, always: "the descendant's guest path is
\* the ancestor's plus the same relative suffix, so rewrites stay correct"
\* (config/staging.rs:480-482).
RewritesResolve == (InStep /\ ~UserPending) => Refers \subseteq DOMAIN box.files
=============================================================================
