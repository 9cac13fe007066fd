--------------------------- MODULE MCProvisioning ---------------------------
(* An instance of Provisioning for TLC: one project with its dotfiles, and *)
(* families of edits to one part of its kitchen file each.                 *)
EXTENDS Provisioning, TLC

P == <<"home", "me", "app">>
HomeDir == <<"home", "me">>

Path(from, parts) == [from |-> from, parts |-> parts]
Rel(parts) == Path("rel", parts)

\* --- the host's files
dir == [kind |-> "dir", bytes |-> 0]
file(n) == [kind |-> "file", bytes |-> n]
Tree1 ==
  <<>> :> dir @@ <<"home">> :> dir @@ HomeDir :> dir @@ P :> dir
  @@ (P \o <<"d">>) :> dir @@ (P \o <<"d", "a">>) :> file(1) @@ (P \o <<"d", "key">>) :> file(2)
  @@ (P \o <<"d", "sub">>) :> dir @@ (P \o <<"d", "sub", "a">>) :> file(3)
  @@ (P \o <<"d", "sub", "pipe">>) :> [kind |-> "device", bytes |-> 0]
  @@ (HomeDir \o <<"dots">>) :> dir @@ (HomeDir \o <<"dots", "vim">>) :> dir
  @@ (HomeDir \o <<"dots", "vim", "rc">>) :> file(4) @@ (HomeDir \o <<"rc">>) :> file(5)
  @@ <<"srv">> :> dir @@ <<"srv", "rc">> :> file(6)
\* One file changed, one gone.
Tree2 == [p \in DOMAIN Tree1 \ {P \o <<"d", "sub", "a">>} |->
            IF p = P \o <<"d", "a">> THEN file(7) ELSE Tree1[p]]

RepoDirs == {P}
HostTrees == [before |-> Tree1, after |-> Tree2]

TrackedPaths == {P \o <<"d", "a">>, P \o <<"d", "sub", "a">>}
\* The directories of a home and of /srv happen to share a hash.
DigestOf == [p \in DOMAIN Tree1 |-> IF p \in {HomeDir, <<"srv">>} THEN "h1" ELSE ToString(p)]

\* --- kitchen files
NoEnv == [shape |-> "table", vars |-> <<>>, directives |-> <<>>]
Plain == [tables |-> {"underscore"}, section |-> <<>>, bootstrap |-> Absent, env |-> NoEnv,
          entries |-> <<>>, root |-> Absent]
Setup(text) == [files |-> <<[path |-> P \o <<"mise.toml">>, global |-> FALSE, text |-> text]>>,
                tree |-> "before", output |-> <<>>, host |-> <<>>]
Setups(texts) == {Setup(t) : t \in texts}
InSection(key, values) == Setups({[Plain EXCEPT !.section = (key :> v)] : v \in values})

\* --- staging
Short(target, text) == [table |-> "dotfiles", target |-> target, short |-> TRUE, value |-> text]
Long(table, target, value) == [table |-> table, target |-> target, short |-> FALSE, value |-> value]
Name(n) == [anchored |-> FALSE, path |-> <<n>>]
D == Rel(<<"d">>)
Sub == Rel(<<"d", "sub">>)
Entries ==
  {Short("x", D), Short("x", Rel(<<"d", "*">>)), Short("x", Rel(<<"..", "dots">>)),
   Long("files", "x", [source |-> D, exclude |-> <<Name("key")>>]),
   Long("files", "x", [source |-> D, exclude |-> <<[anchored |-> TRUE, path |-> <<"sub", "a">>]>>]),
   Long("files", "x", [source |-> D, manifest |-> "git"]),
   Long("directories", "x", [variants |-> <<[source |-> Sub], Junk, [source |-> Path("home", <<"rc">>)]>>]),
   Short("x", Path("home", <<"rc">>))}
Others ==
  {Short("y", Sub), Long("files", "y", [source |-> Sub, manifest |-> "git"]),
   Long("files", "y", [source |-> D, exclude |-> <<Name("a")>>]),
   Long("files", "y", [source |-> Rel(<<"d", "key">>), manifest |-> "git"]), Short("y", Rel(<<"d", "none">>)),
   Short("y", Path("abs", <<"srv", "rc">>)), Short("y", Rel(<<".">>)), Long("files", "y", Junk)}
Dots == {Absent, Path("home", <<"dots">>)}
StagingFamily ==
  {[Setup([Plain EXCEPT !.entries = es, !.section = IF r = Absent THEN <<>> ELSE [dotfiles |-> r]])
      EXCEPT !.tree = t] :
     es \in {<<e>> : e \in Entries} \cup {<<e, o>> : e \in Entries, o \in Others},
     r \in Dots, t \in {"before"}}
ContentFamily ==
  {[Setup([Plain EXCEPT !.entries = es, !.root = r]) EXCEPT !.tree = t] :
     es \in {<<>>} \cup {<<e>> : e \in Entries}, r \in {Absent, D}, t \in {"before", "after"}}
\* The same file in .config/mise: sources are relative to that directory.
LayoutFamily ==
  {[Setup([Plain EXCEPT !.entries = <<e>>]) EXCEPT !.files[1].path = P \o f] :
     e \in {Short("x", Rel(<<"..", "..", "d">>)), Short("x", Path("abs", P \o <<"d">>))},
     f \in {<<"mise.toml">>, <<".config", "mise", "config.toml">>, <<".config", "mise", "conf.d", "x.toml">>}}

\* --- chef
Users == {Absent, Junk, <<>>, [chef |-> <<>>], [chef |-> Junk], [chef |-> [uid |-> 5]],
          [chef |-> [uid |-> 0]], [chef |-> [uid |-> 5, group |-> "staff"]], [chef |-> [state |-> "absent"]]}
GroupTables == {Absent, Junk, [chef |-> [gid |-> 6]], [staff |-> [gid |-> 7]],
            [chef |-> [gid |-> 6], staff |-> [gid |-> 7]], [chef |-> <<>>]}
UserFamily ==
  Setups({[Plain EXCEPT !.bootstrap = b] :
            b \in {Absent, Junk} \cup {[users |-> u, groups |-> g] : u \in Users, g \in GroupTables}})

\* --- variables and secrets
host(n) == [kind |-> "exact", text |-> n]
Anywhere == [kind |-> "network", text |-> "0.0.0.0/0"]
Value(v) == [value |-> v, source |-> TRUE, tool |-> FALSE]
Outputs == {<<>>, [K |-> Value("1"), HOSTTYPE |-> Value("x")], [K |-> Value("2"), PATH |-> Value("/bin")],
            [K |-> Value(""), T |-> [value |-> "9", source |-> TRUE, tool |-> TRUE]], Junk}
SecretTables == {Absent, [K |-> [allow |-> <<host("a")>>]], [K |-> [allow |-> <<host("b"), host("b")>>]],
                 [K |-> [allow |-> <<Anywhere>>]], [K |-> [allow |-> <<>>]]}
EnvFamily ==
  {[files |-> <<[path |-> P \o <<"mise.toml">>, global |-> FALSE,
                 text |-> [Plain EXCEPT !.section = IF s = Absent THEN <<>> ELSE [secrets |-> s],
                                        !.env = [NoEnv EXCEPT !.vars = v]]],
                [path |-> <<"home", "me", ".config", "mise", "config.toml">>, global |-> TRUE,
                 text |-> [Plain EXCEPT !.env = [NoEnv EXCEPT !.vars = [K |-> "required"]]]]>>,
    tree |-> "before", output |-> o, host |-> h] :
     s \in SecretTables, o \in Outputs, h \in {<<>>, [K |-> "3", LANG |-> "x"]},
     v \in {<<>>, [K |-> "unset", LANG |-> "required"]}}

\* --- the rest of the table
Mnt(guest, option) == [host |-> Rel(<<"d">>), guest |-> guest, option |-> option]
Guest(parts) == Path("abs", parts)
MountLists == {Junk, <<Junk>>, <<>>} \cup
  {<<Mnt(Guest(<<"w">>), "ro"), Mnt(g, o)>> :
     g \in {Guest(<<"w">>), Guest(<<"v", "..", "w">>), Guest(<<"opt">>), Guest(<<"opt", "mise", "x">>),
            Guest(<<"opt2">>), Guest(<<"..">>), Rel(<<"w2">>)}, o \in {"", "rw", "x"}}
MountFamily == InSection("mounts", MountLists)
Port(h, g, p) == [host |-> h, guest |-> g, protocol |-> p]
NetworkFamily == InSection("network",
  {[network |-> n, allow |-> a, deny |-> d, ports |-> q] :
     n \in {"none", "open", "?"}, a \in {Absent, <<host("a"), host("b")>>}, d \in {<<>>, <<host("b")>>, <<Junk>>},
     q \in {Absent, <<Port(80, 80, "tcp"), Port(80, 81, "tcp")>>, <<Port(80, 80, "tcp"), Port(80, 80, "udp")>>,
            <<Port(0, 80, "tcp")>>}} \cup {Junk, [typo |-> 1]})
Sizes == {Junk, [digits |-> 0, unit |-> "m"], [digits |-> 64, unit |-> "g"], [digits |-> 65, unit |-> "g"],
          [digits |-> 2097152, unit |-> "g"], [digits |-> 512, unit |-> "m"]}
ResourceFamily == InSection("cpus", {Junk, 0, 1, 64, 65, 257}) \cup InSection("memory", Sizes)
                  \cup InSection("disk", Sizes) \cup InSection("typo", {1})
                  \cup Setups({[Plain EXCEPT !.tables = t] : t \in {{}, {"legacy"}, {"legacy", "underscore"}}})

AllFamilies == {ContentFamily, LayoutFamily, UserFamily, EnvFamily, MountFamily, NetworkFamily, ResourceFamily}
               \cup {StagingFamily}
NestedOnly == {StagingFamily}
GuestVars == [LANG |-> "C.UTF-8"]
ImageVars == [HOSTTYPE |-> "arm"]
=============================================================================
