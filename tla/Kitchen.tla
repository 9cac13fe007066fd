------------------------------- MODULE Kitchen -------------------------------
(***************************************************************************)
(* What a project's files say: which of them is the kitchen file           *)
(* (config/discover.rs), the configuration it holds and the problems it    *)
(* has (config/schema.rs, config/size.rs, config/validate.rs), and the     *)
(* variables its [env] tables declare (mise/declarations.rs, mise/env.rs). *)
(*                                                                         *)
(* A TOML table is a function from its keys.  A value of a type the code   *)
(* does not expect there is Junk, what a table does not hold is Absent.    *)
(* Problems are the sets of places an error is reported at; warnings,      *)
(* spans and messages are left out.                                        *)
(***************************************************************************)
EXTENDS HostPaths, FiniteSets

CONSTANTS
  Absent, Junk,
  MaxU32,      \* the largest number of MiB
  MibPerGib, MaxCpus, MaxMemory, DefaultId,
  EnvNames     \* the keys that are POSIX names of environment variables

ASSUME DefaultIdAssumption == DefaultId # 0

IsTable(v) == v \notin {Absent, Junk}
Get(table, key) == IF IsTable(table) /\ key \in DOMAIN table THEN table[key] ELSE Absent
Has(table, key) == Get(table, key) # Absent

\* The elements of s at the positions in `at`, in order.
Kept(s, at) ==
  LET Nth(n) == CHOOSE i \in at : Cardinality({j \in at : j <= i}) = n
  IN [n \in 1..Cardinality(at) |-> s[Nth(n)]]
Elements(list) == IF list \in {Absent, Junk} THEN <<>> ELSE list

-----------------------------------------------------------------------------
(* Discovery.  `files` is what mise loads, highest precedence first; a     *)
(* file is [path, global, text].                                           *)

\* section_in()
HasSection(file) == file.text.tables # {}

\* select_kitchen(): the first project file with a table, or the first one.
\* A project without a project file is refused; none is looked at here.
KitchenFile(files) ==
  LET project == SelectSeq(files, LAMBDA f : ~f.global)
      withTable == SelectSeq(project, HasSection)
  IN IF withTable # <<>> THEN withTable[1] ELSE project[1]

\* The names of config files that start with `config`.
ConfigNames == {"config.toml", "config.local.toml"}

\* project_dir(): the directory whose layout the file belongs to.
ProjectDir(path) ==
  LET without(dir, names) == IF dir # <<>> /\ Last(dir) \in names THEN Front(dir) ELSE dir
      dir == Front(path)
      unconf == without(dir, {"conf.d"})
      nested == Last(path) \in ConfigNames \/ unconf # dir
      inner == IF nested THEN without(unconf, {"mise", ".mise"}) ELSE unconf
  IN without(inner, {".config"})

-----------------------------------------------------------------------------
(* [env]: [shape |-> "table" | "tables" | "none", vars, directives], where *)
(* a variable is declared as "value", "required", "default" or "unset".    *)

\* add_table(): a higher file overrides a lower one, `A = false` undoes it.
Declared(files) ==
  FoldLeft(LAMBDA names, f :
             IF f.text.env.shape = "none" THEN names
             ELSE LET vars == f.text.env.vars
                  IN (names \ {n \in DOMAIN vars : vars[n] = "unset"})
                       \cup {n \in DOMAIN vars : vars[n] # "unset"},
           {}, Reverse(files))

\* merge(): what mise resolved from a config file and no tool, then what it
\* passes through from the host, without the variables that are empty.
\* An entry of `output` is [value, source, tool].
Environment(output, declared, host) ==
  LET resolved == {n \in DOMAIN output : output[n].source /\ ~output[n].tool /\ n # "PATH"}
      passed == {n \in declared \ resolved : n \in DOMAIN host}
      value == [n \in resolved \cup passed |-> IF n \in resolved THEN output[n].value ELSE host[n]]
  IN [n \in {m \in DOMAIN value : value[m] # ""} |-> value[n]]

-----------------------------------------------------------------------------
(* The configuration.                                                      *)

\* parse_size_mib(): a size is [digits, unit].
Mib(size) == IF size.unit = "g" THEN size.digits * MibPerGib ELSE size.digits
SizeFits(size, max) ==
  /\ size \notin {Absent, Junk} /\ size.unit \in {"m", "g"} /\ size.digits > 0
  /\ size.digits <= MaxU32 /\ (size.unit = "g" => size.digits <= MaxU32 \div MibPerGib)
  /\ Mib(size) <= max

SizeOr(size, max, default) == IF SizeFits(size, max) THEN Mib(size) ELSE default

\* patterns(): an equal entry is dropped with a warning.
Patterns(list) ==
  Kept(Elements(list),
       {i \in DOMAIN Elements(list) : list[i] # Junk /\ \A j \in 1..(i - 1) : list[j] # list[i]})
PatternErrors(list, at) ==
  IF list = Junk THEN {at} ELSE {at : i \in {i \in DOMAIN Elements(list) : list[i] = Junk}}
IsName(pattern) == pattern.kind \in {"exact", "suffix"}

\* parse_mount(): `host:guest[:ro|:rw]`.
MountParses(m) ==
  /\ m # Junk /\ m.option \in {"", "ro", "rw"}
  /\ m.host.from = "rel" => m.host.parts # <<>>
  /\ m.guest.from = "abs" /\ Normalized(m.guest.parts) # <<>>
  /\ Resolvable(m.host)
MountOf(m, dir) ==
  [host |-> Resolved(m.host, dir), guest |-> Normalized(m.guest.parts), readonly |-> m.option = "ro"]

\* Fault variant: Only what lies in a reserved path overlaps it.
Mountable_Below(m) == MountParses(m) /\ ~\E r \in Reserved : IsPrefix(r, Normalized(m.guest.parts))

\* mounts(): what overlaps a reserved path is out, and a guest path is taken
\* by the first mount there.
Mountable(m) == MountParses(m) /\ ~\E r \in Reserved : Overlaps(Normalized(m.guest.parts), r)
Mounts(list, dir) ==
  LET first(i) == ~\E j \in 1..(i - 1) :
                      Mountable(list[j]) /\ MountOf(list[j], dir).guest = MountOf(list[i], dir).guest
      kept == Kept(Elements(list), {i \in DOMAIN Elements(list) : Mountable(list[i]) /\ first(i)})
  IN [n \in DOMAIN kept |-> MountOf(kept[n], dir)]
MountErrors(list, dir) ==
  IF list = Junk \/ Len(Mounts(list, dir)) < Len(Elements(list)) THEN {"mounts"} ELSE {}

\* parse_port(): `host:guest[/tcp|/udp]`, each 1 to 65535.
PortParses(p) ==
  p # Junk /\ p.host \in 1..65535 /\ p.guest \in 1..65535 /\ p.protocol \in {"tcp", "udp"}
PortsOf(list) ==
  LET first(i) == ~\E j \in 1..(i - 1) :
        PortParses(list[j]) /\ list[j].host = list[i].host /\ list[j].protocol = list[i].protocol
  IN Kept(Elements(list), {i \in DOMAIN Elements(list) : PortParses(list[i]) /\ first(i)})

Preset(network) ==
  IF Get(network, "network") \in {"none", "public", "open"} THEN network.network ELSE "public"

NetworkKeys == {"network", "allow", "deny", "ports"}
NetworkErrors(network) ==
  IF network = Absent THEN {} ELSE IF network = Junk THEN {"network"}
  ELSE LET allow == Patterns(Get(network, "allow"))
           deny == Patterns(Get(network, "deny"))
           ports == Get(network, "ports")
       IN {"network" : k \in DOMAIN network \ NetworkKeys}
          \cup (IF Get(network, "network") \in {Absent, "none", "public", "open"}
                THEN {} ELSE {"network.network"})
          \cup PatternErrors(Get(network, "allow"), "allow")
          \cup PatternErrors(Get(network, "deny"), "deny")
          \cup {"deny" : p \in Range(allow) \cap Range(deny)}
          \cup (IF ports = Junk \/ Len(PortsOf(ports)) < Len(Elements(ports)) THEN {"ports"} ELSE {})
          \cup (IF Preset(network) = "none" /\ PortsOf(ports) # <<>> THEN {"ports"} ELSE {})

\* secrets(): only names may be allowed; a secret with problems is kept for
\* the checks that follow.
SecretErrors(name, secret) ==
  LET allow == Get(secret, "allow")
  IN IF secret = Junk THEN {name}
     ELSE {name : field \in DOMAIN secret \ {"allow"}}
          \cup (IF allow \in {Absent, Junk, <<>>} THEN {name} ELSE {})
          \cup PatternErrors(allow, name)
          \cup {name : p \in {p \in Range(Patterns(allow)) : ~IsName(p)}}
SecretsOf(secrets) ==
  IF ~IsTable(secrets) THEN <<>>
  ELSE [n \in {m \in DOMAIN secrets \cap EnvNames : IsTable(secrets[m])} |->
          LET allow == Patterns(Get(secrets[n], "allow"))
          IN Kept(allow, {i \in DOMAIN allow : IsName(allow[i])})]
SecretsErrors(secrets) ==
  IF secrets = Absent THEN {} ELSE IF secrets = Junk THEN {"secrets"}
  ELSE (DOMAIN secrets \ EnvNames)
       \cup UNION {SecretErrors(n, secrets[n]) : n \in DOMAIN secrets \cap EnvNames}

-----------------------------------------------------------------------------
(* guest_user(): chef's ids, from the file's [bootstrap] table.            *)

Chef(text) == Get(Get(text.bootstrap, "users"), "chef")
\* The group chef declares, or its own.
GroupOf(chef) == IF Get(chef, "group") \in {Absent, Junk} THEN "chef" ELSE chef.group
Gid(text) == Get(Get(Get(text.bootstrap, "groups"), GroupOf(Chef(text))), "gid")

IdOr(v, default) == IF v \in {Absent, Junk} THEN default ELSE v

\* Fault variant: The gid is that of the group named chef, whichever chef is in.
GuestUser_OwnGroup(text) ==
  IF ~IsTable(Chef(text)) THEN [uid |-> DefaultId, gid |-> DefaultId]
  ELSE [uid |-> IdOr(Get(Chef(text), "uid"), DefaultId),
        gid |-> IdOr(Get(Get(Get(text.bootstrap, "groups"), "chef"), "gid"), DefaultId)]

GuestUser(text) ==
  IF ~IsTable(Chef(text)) THEN [uid |-> DefaultId, gid |-> DefaultId]
  ELSE [uid |-> IdOr(Get(Chef(text), "uid"), DefaultId), gid |-> IdOr(Gid(text), DefaultId)]

UserErrors(text) ==
  IF ~IsTable(Chef(text)) THEN {}
  ELSE (IF Get(Chef(text), "state") = "absent" THEN {"chef.state"} ELSE {})
       \cup (IF Get(Chef(text), "uid") \in {Junk, 0} THEN {"chef.uid"} ELSE {})
       \cup (IF Gid(text) = Junk \/ (Gid(text) = Absent /\ GroupOf(Chef(text)) # "chef")
             THEN {"chef.group"} ELSE {})

-----------------------------------------------------------------------------
(* parse() and the checks of validate.rs.                                  *)

SectionKeys == {"cpus", "memory", "disk", "mounts", "network", "secrets", "dotfiles"}
Section(text) == IF text.tables = {} THEN Absent ELSE text.section

Config(text, dir) ==
  LET s == Section(text)
      network == Get(s, "network")
  IN [cpus |-> IF Get(s, "cpus") \in 1..MaxCpus THEN s.cpus ELSE 2,
      memory |-> SizeOr(Get(s, "memory"), MaxMemory, 4 * MibPerGib),
      disk |-> SizeOr(Get(s, "disk"), MaxU32, 10 * MibPerGib),
      mounts |-> Mounts(Get(s, "mounts"), dir),
      preset |-> Preset(network),
      allow |-> Patterns(Get(network, "allow")),
      deny |-> Patterns(Get(network, "deny")),
      ports |-> PortsOf(Get(network, "ports")),
      secrets |-> SecretsOf(Get(s, "secrets")),
      user |-> GuestUser(text),
      dotfiles |-> IF Get(s, "dotfiles") \notin {Absent, Junk} /\ Resolvable(s.dotfiles)
                   THEN [from |-> "abs", parts |-> Resolved(s.dotfiles, dir)] ELSE Absent]

ParseErrors(text, dir) ==
  LET s == Section(text)
      dotfiles == Get(s, "dotfiles")
  IN (IF Cardinality(text.tables) > 1 THEN {"tables"} ELSE {})
     \cup UserErrors(text)
     \cup (IF s = Junk THEN {"section"}
           ELSE IF s = Absent THEN {} ELSE {"section" : k \in DOMAIN s \ SectionKeys})
     \cup (IF Get(s, "cpus") \in {Absent} \cup 1..MaxCpus THEN {} ELSE {"cpus"})
     \cup (IF Has(s, "memory") /\ ~SizeFits(s.memory, MaxMemory) THEN {"memory"} ELSE {})
     \cup (IF Has(s, "disk") /\ ~SizeFits(s.disk, MaxU32) THEN {"disk"} ELSE {})
     \cup MountErrors(Get(s, "mounts"), dir)
     \cup NetworkErrors(Get(s, "network"))
     \cup SecretsErrors(Get(s, "secrets"))
     \cup (IF dotfiles = Junk \/ (dotfiles # Absent /\ ~Resolvable(dotfiles)) THEN {"dotfiles"} ELSE {})

\* check(): a secret is declared in some [env], a mount's source exists.
CheckErrors(config, declared, tree) ==
  (DOMAIN config.secrets \ declared)
  \cup {"mounts" : m \in {m \in Range(config.mounts) : m.host \notin DOMAIN tree}}

\* check_staging(): what is staged exists.
StagingErrors(sources, tree) == {"dotfiles" : s \in {s \in sources : s.host \notin DOMAIN tree}}
=============================================================================
