------------------------------ MODULE GuestCopy ------------------------------
(***************************************************************************)
(* The copy of the kitchen file in the guest (mise/render.rs): its sources *)
(* refer to the staged files, the host's directives are gone, and chef is  *)
(* declared with the ids that the sandbox was created to run as.           *)
(***************************************************************************)
EXTENDS Staging

\* The keys of the file that staging is about, by slot.
Written(text) ==
  LET keys(e) ==
        IF e.short \/ ~IsTable(e.value) THEN {<<<<e.table, e.target>>, e.value>>}
        ELSE {<<<<e.table, e.target, k>>, e.value[k]>> : k \in DOMAIN e.value \cap {"source", "manifest"}}
             \cup {<<<<e.table, e.target, "variants", ToString(i)>>, Get(Elements(Get(e.value, "variants"))[i], "source")>> :
                     i \in DOMAIN Elements(Get(e.value, "variants"))}
      all == (UNION {keys(e) : e \in Range(text.entries)})
             \cup (IF IsTable(text.root) THEN {<<RootSlot, text.root>>} ELSE {})
  IN [slot \in {pair[1] : pair \in all} |-> (CHOOSE pair \in all : pair[1] = slot)[2]]

\* apply_rewrite(): "set" and "remove" only touch keys that exist, "ensure"
\* creates the key, unless a parent is something else than a table.
Rewritten(values, rewrites, blocked) ==
  LET removed == {r.slot : r \in {x \in rewrites : x.action = "remove"}}
      set == {r \in rewrites : \/ r.action = "set" /\ r.slot \in DOMAIN values
                               \/ r.action = "ensure" /\ ~blocked}
      kept == (DOMAIN values \ removed) \cup {r.slot : r \in set}
  IN [slot \in kept |->
        IF \E r \in set : r.slot = slot
        THEN LET r == CHOOSE r \in set : r.slot = slot IN r.to \o r.rest
        ELSE values[slot]]

HostDirectives == {"file", "source", "path"}

\* strip_host_directives(): of the directive tables `_` and `mise`, in [env]
\* or in each [[env]].  (An inline array of tables is neither.)
Stripped(env) ==
  IF env.shape \notin {"table", "tables"} THEN env
  ELSE LET left(key) == env.directives[key] \ HostDirectives
       IN [env EXCEPT !.directives = [key \in {k \in DOMAIN @ : left(k) # {}} |-> left(key)]]

With(table, key, v) == [k \in DOMAIN table \cup {key} |-> IF k = key THEN v ELSE table[k]]
Default(table, key, v) == IF key \in DOMAIN table THEN table ELSE With(table, key, v)
\* implicit_table(): created when it is missing.
Created(v) == IF v = Absent THEN <<>> ELSE v

NewChef == [uid |-> DefaultId, group |-> "chef", groups |-> <<"sudo", "docker">>]

\* add_chef(): what is not a table is left for mise to report, up to the
\* first that is not; chef and its group are replaced.
AddGroup(bootstrap) ==
  LET groups == Created(Get(bootstrap, "groups"))
      chef == Get(groups, "chef")
  IN IF ~IsTable(groups) THEN bootstrap
     ELSE With(bootstrap, "groups",
               With(groups, "chef",
                    IF IsTable(chef) THEN Default(chef, "gid", DefaultId) ELSE [gid |-> DefaultId]))

AddChef(bootstrap) ==
  LET b == Created(bootstrap)
      users == Created(Get(b, "users"))
      chef == Get(users, "chef")
      declared == IF IsTable(chef) THEN Default(Default(chef, "uid", DefaultId), "group", "chef")
                  ELSE NewChef
      with == With(b, "users", With(users, "chef", declared))
  IN IF ~IsTable(b) \/ ~IsTable(users) THEN b
     ELSE IF GroupOf(declared) # "chef" THEN with ELSE AddGroup(with)

\* render_guest_config_with(): [_.microkitchen] is not in the copy at all.
Copy(text, rewrites) ==
  [values |-> Rewritten(Written(text), rewrites, text.root = Junk),
   env |-> Stripped(text.env),
   bootstrap |-> AddChef(text.bootstrap)]
=============================================================================
