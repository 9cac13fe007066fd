-------------------------- MODULE ProvisioningProofs --------------------------
(***************************************************************************)
(* What `up` and `remodel` make of a kitchen file, for any setups, trees   *)
(* and environments and any sequence of edits.  Every invariant is of the  *)
(* sandbox with its record:                                                *)
(*                                                                         *)
(*   ConvergeInv   The record knows every variable and secret it set, and  *)
(*                 right after a command there is nothing left to change.  *)
(*   IdentityInv   Record, sandbox and copy are of one declaration of chef,*)
(*                 that of the last command without a pending user.        *)
(*   SoundInv      What the sandbox was created from, and the rules since, *)
(*                 are of configurations without problems.                 *)
(*   StageInv      The guest has the recorded archive; all it has is below *)
(*                 the recorded roots, and these may be removed.           *)
(*                                                                         *)
(* All of the rest is about operators.  An induction is one over a set of  *)
(* naturals (LeastNatural, Induct).  Two things are assumed where they are *)
(* needed: Opaque, that a value which is no table is no function, and      *)
(* Hashed, that every directory has a short hash that is a file name.      *)
(***************************************************************************)
EXTENDS Provisioning, FiniteSetTheorems, SequenceTheorems, WellFoundedInduction, TLAPS

-----------------------------------------------------------------------------
(* Numbers and sequences.                                                  *)

\* A set of naturals has a least element.
LEMMA LeastNatural ==
  ASSUME NEW T \in SUBSET Nat, T # {}
  PROVE  \E n \in T : \A m \in T : n <= m
<1>. DEFINE R == {p \in Nat \X Nat : p[1] < p[2]}
<1>1. IsWellFoundedOn(R, Nat)
  BY NatLessThanWellFounded DEF OpToRel
<1>2. \E x \in T : \A y \in T : ~(<<y, x>> \in R)
  <2>. HIDE DEF R
  <2>. QED  BY <1>1, WFMin
<1>3. PICK n \in T : \A m \in T : <<m, n>> \notin R
  BY <1>2
<1>4. \A m \in T : n <= m
  <2>. SUFFICES ASSUME NEW m \in T PROVE n <= m
    OBVIOUS
  <2>1. n \in Nat /\ m \in Nat
    OBVIOUS
  <2>2. <<m, n>> \in Nat \X Nat
    BY <2>1
  <2>3. ~(m < n)
    BY <1>3, <2>2
  <2>. QED  BY <2>1, <2>3
<1>. QED  BY <1>4

\* Induction, over a set instead of a predicate.
LEMMA Induct ==
  ASSUME NEW T, 0 \in T, \A n \in Nat : n \in T => n+1 \in T
  PROVE  Nat \subseteq T
<1>. SUFFICES ASSUME Nat \ T # {} PROVE FALSE
  OBVIOUS
<1>1. PICK n \in Nat \ T : \A m \in Nat \ T : n <= m
  BY LeastNatural
<1>2. n # 0 /\ n - 1 \in Nat /\ n - 1 + 1 = n
  BY <1>1
<1>. QED  BY <1>1, <1>2

-----------------------------------------------------------------------------
(* Loading.                                                                *)

Function(f) == f = [k \in DOMAIN f |-> f[k]]

Fields == {"cpus", "memory", "disk", "mounts", "preset", "allow", "deny", "ports", "secrets", "user",
           "dotfiles"}

\* A secret is a value and the hosts its configuration names.
Sealed(p) ==
  /\ Function(p.secrets) /\ DOMAIN p.secrets \subseteq DOMAIN p.config.secrets
  /\ \A n \in DOMAIN p.secrets :
       p.secrets[n] = [value |-> p.secrets[n].value, hosts |-> p.config.secrets[n]]
  /\ DOMAIN p.secrets \cap DOMAIN p.env = {}

\* Whatever is loaded has an environment and secrets with known hosts, apart.
LEMMA Loaded ==
  ASSUME NEW s
  PROVE  /\ Function(Load(s).env) /\ Sealed(Load(s))
         /\ DOMAIN Load(s).config = Fields
<1>. DEFINE file == KitchenFile(s.files)
            dir == ProjectDir(file.path)
            config == Config(file.text, dir)
            values == IF s.output = Junk THEN <<>> ELSE Environment(s.output, Declared(s.files), s.host)
            secret == DOMAIN values \cap DOMAIN config.secrets
<1>1. /\ Load(s).env = [n \in DOMAIN values \ secret |-> values[n]]
      /\ Load(s).secrets = [n \in secret |-> [value |-> values[n], hosts |-> config.secrets[n]]]
      /\ Load(s).config = config
  BY DEF Load
<1>2. DOMAIN config = Fields
  BY DEF Config, Fields
<1>. HIDE DEF config, values
<1>. QED  BY <1>1, <1>2 DEF Function, Sealed

-----------------------------------------------------------------------------
(* Remodelling.                                                            *)

Resources == {"cpus", "memory", "disk"}

Box(b) == b = [res |-> b.res, env |-> b.env, secrets |-> b.secrets, fixed |-> b.fixed,
               copy |-> b.copy, files |-> b.files]

\* over(): the first of the two wins.
LEMMA OverAt ==
  ASSUME NEW f, NEW g
  PROVE  /\ DOMAIN Over(f, g) = DOMAIN f \cup DOMAIN g
         /\ \A k \in DOMAIN f : Over(f, g)[k] = f[k]
         /\ \A k \in DOMAIN g \ DOMAIN f : Over(f, g)[k] = g[k]
  BY DEF Over

\* What the changes make of a sandbox, variable by variable.
LEMMA ModifiedBox ==
  ASSUME NEW b, Box(b), NEW sdk, NEW p, NEW m, m = Modified(b, sdk, p)
  PROVE  /\ Box(m)
         /\ Function(m.env) /\ DOMAIN m.env = (DOMAIN b.env \cup sdk.env.set) \ sdk.env.remove
         /\ \A k \in DOMAIN m.env :
              m.env[k] = IF k \in sdk.env.set THEN Over(p.env, GuestEnv)[k] ELSE b.env[k]
         /\ Function(m.secrets) /\ DOMAIN m.secrets = (DOMAIN b.secrets \cup sdk.secrets) \ sdk.drop
         /\ \A n \in DOMAIN m.secrets :
              m.secrets[n] = IF n \in sdk.secrets THEN p.secrets[n] ELSE b.secrets[n]
         /\ m.fixed = b.fixed /\ m.copy = b.copy /\ m.files = b.files
<1>. DEFINE env == [k \in (DOMAIN b.env \cup sdk.env.set) \ sdk.env.remove |->
                      IF k \in sdk.env.set THEN Over(p.env, GuestEnv)[k] ELSE b.env[k]]
            secrets == [n \in (DOMAIN b.secrets \cup sdk.secrets) \ sdk.drop |->
                          IF n \in sdk.secrets THEN p.secrets[n] ELSE b.secrets[n]]
            res == [f \in DOMAIN b.res |-> IF f \in sdk.res THEN p.config[f] ELSE b.res[f]]
<1>1. m = [b EXCEPT !.env = env, !.secrets = secrets, !.res = res]
  BY DEF Modified, Box
<1>. HIDE DEF env, secrets, res
<1>2. m = [res |-> res, env |-> env, secrets |-> secrets, fixed |-> b.fixed,
                             copy |-> b.copy, files |-> b.files]
  BY <1>1 DEF Box
<1>3. Box(m) /\ m.env = env /\ m.secrets = secrets
      /\ m.fixed = b.fixed /\ m.copy = b.copy /\ m.files = b.files
  BY <1>2 DEF Box
<1>4. /\ Function(env) /\ DOMAIN env = (DOMAIN b.env \cup sdk.env.set) \ sdk.env.remove
      /\ \A k \in DOMAIN env : env[k] = IF k \in sdk.env.set THEN Over(p.env, GuestEnv)[k] ELSE b.env[k]
  BY DEF env, Function
<1>5. /\ Function(secrets) /\ DOMAIN secrets = (DOMAIN b.secrets \cup sdk.secrets) \ sdk.drop
      /\ \A n \in DOMAIN secrets :
           secrets[n] = IF n \in sdk.secrets THEN p.secrets[n] ELSE b.secrets[n]
  BY DEF secrets, Function
<1>. QED  BY <1>3, <1>4, <1>5

\* What the record knows of the sandbox, and the history of the names.
Known(b, r) ==
  /\ Box(b) /\ Function(b.env) /\ Function(b.secrets)
  /\ DOMAIN GuestEnv \subseteq DOMAIN b.env
  /\ \A k \in DOMAIN b.env \ r.envKeys :
       k \in DOMAIN Over(GuestEnv, ImageEnv) /\ b.env[k] = Over(GuestEnv, ImageEnv)[k]
  /\ \A n \in DOMAIN b.secrets :
       /\ n \in DOMAIN r.applied.secrets
       /\ b.secrets[n] = [value |-> b.secrets[n].value, hosts |-> r.applied.secrets[n]]

\* RemodelConverges, of any sandbox.
Converged(b, r, p) ==
  LET wanted == Over(p.env, GuestEnv)
  IN /\ Diff(r.applied, p.config) \subseteq Recreated
     /\ Groups(SdkChanges(b, r, p)) = {}
     /\ \A k \in DOMAIN b.env : b.env[k] = Over(wanted, ImageEnv)[k]
     /\ DOMAIN b.env \subseteq DOMAIN wanted \cup DOMAIN ImageEnv
     /\ DOMAIN wanted \subseteq DOMAIN b.env
     /\ b.secrets = p.secrets /\ DOMAIN b.secrets \cap DOMAIN p.env = {}

Plan(p) == Function(p.env) /\ Sealed(p) /\ DOMAIN p.config = Fields

\* No group of changes, no change.
LEMMA NoGroups ==
  ASSUME NEW b, NEW r, NEW p, Groups(SdkChanges(b, r, p)) = {}
  PROVE  LET sdk == SdkChanges(b, r, p)
         IN /\ sdk.res \cap Resources = {} /\ sdk.env.set = {} /\ sdk.env.remove = {}
            /\ sdk.secrets = {} /\ sdk.drop = {}
<1>. DEFINE sdk == SdkChanges(b, r, p)
<1>. HIDE DEF sdk
<1>1. Groups(sdk) = {}
  BY DEF sdk
<1>2. /\ sdk.res \cap {"cpus", "memory"} = {} /\ "disk" \notin sdk.res
      /\ sdk.env.set \cup sdk.env.remove = {} /\ sdk.secrets \cup sdk.drop = {}
  BY <1>1 DEF Groups
<1>3. sdk.res \cap Resources = {} /\ sdk.env.set = {} /\ sdk.env.remove = {} /\ sdk.secrets = {} /\ sdk.drop = {}
  BY <1>2 DEF Resources
<1>. QED  BY <1>3 DEF sdk

\* No change, no group of changes.
LEMMA GroupsOfNone ==
  ASSUME NEW sdk, sdk.res \cap Resources = {}, sdk.env.set = {}, sdk.env.remove = {},
         sdk.secrets = {}, sdk.drop = {}
  PROVE  Groups(sdk) = {}
  BY DEF Groups, Resources

\* Which resources, variables and secrets `remodel` finds to change.
LEMMA SdkParts ==
  ASSUME NEW b, NEW r, NEW p
  PROVE  LET sdk == SdkChanges(b, r, p)
             wanted == Over(p.env, GuestEnv)
         IN /\ sdk.res = {f \in Resources : p.config[f] # r.applied[f]}
            /\ sdk.env.set = {k \in DOMAIN wanted : ~(k \in DOMAIN b.env /\ b.env[k] = wanted[k])}
            /\ sdk.env.remove = (DOMAIN b.env \cap r.envKeys) \ DOMAIN wanted
            /\ sdk.secrets = {n \in DOMAIN p.secrets :
                                \/ n \notin DOMAIN b.secrets
                                \/ b.secrets[n].value # p.secrets[n].value
                                \/ n \notin DOMAIN r.applied.secrets
                                \/ r.applied.secrets[n] # p.secrets[n].hosts}
            /\ sdk.drop = DOMAIN b.secrets \ DOMAIN p.secrets
  BY DEF SdkChanges, EnvPatch, Resources

\* If nothing differs, the sandbox is as it would be after changes.
LEMMA UnchangedConverges ==
  ASSUME NEW b, NEW r, NEW p, Known(b, r), Plan(p),
         Diff(r.applied, p.config) = {}, Groups(SdkChanges(b, r, p)) = {}
  PROVE  Converged(b, r, p)
<1>. DEFINE wanted == Over(p.env, GuestEnv)
            sdk == SdkChanges(b, r, p)
<1>1. DOMAIN wanted = DOMAIN p.env \cup DOMAIN GuestEnv
  BY OverAt
<1>2. \A k \in DOMAIN wanted : k \in DOMAIN b.env /\ b.env[k] = wanted[k]
  BY NoGroups, SdkParts
<1>3. DOMAIN b.env \cap r.envKeys \subseteq DOMAIN wanted
  BY NoGroups, SdkParts
<1>4. \A k \in DOMAIN b.env \ DOMAIN wanted : k \in DOMAIN ImageEnv /\ b.env[k] = ImageEnv[k]
  <2>. SUFFICES ASSUME NEW k \in DOMAIN b.env, k \notin DOMAIN wanted
                PROVE  k \in DOMAIN ImageEnv /\ b.env[k] = ImageEnv[k]
    OBVIOUS
  <2>1. k \notin r.envKeys /\ k \notin DOMAIN GuestEnv
    BY <1>1, <1>3
  <2>2. k \in DOMAIN Over(GuestEnv, ImageEnv) /\ b.env[k] = Over(GuestEnv, ImageEnv)[k]
    BY <2>1 DEF Known
  <2>. QED  BY <2>1, <2>2 DEF Over
<1>. HIDE DEF wanted
<1>5. \A k \in DOMAIN b.env : b.env[k] = Over(wanted, ImageEnv)[k]
  BY <1>2, <1>4 DEF Over
<1>6. DOMAIN b.env \subseteq DOMAIN wanted \cup DOMAIN ImageEnv
  BY <1>4
<1>7. \A n \in DOMAIN p.secrets : /\ n \in DOMAIN b.secrets /\ b.secrets[n].value = p.secrets[n].value
                                  /\ r.applied.secrets[n] = p.secrets[n].hosts
  BY NoGroups, SdkParts
<1>8. DOMAIN b.secrets \subseteq DOMAIN p.secrets
  BY NoGroups, SdkParts
<1>9. \A n \in DOMAIN p.secrets : b.secrets[n] = p.secrets[n]
  BY <1>7 DEF Known, Plan, Sealed
<1>10. b.secrets = p.secrets
  BY <1>7, <1>8, <1>9 DEF Known, Plan, Sealed, Function
<1>. QED  BY <1>2, <1>5, <1>6, <1>10 DEF Converged, Plan, Sealed, wanted

\* The fields that need a new sandbox, and those that have a route at all.
LEMMA Routes ==
  /\ DOMAIN Route = Fields \ {"secrets", "dotfiles"}
  /\ Recreated = {"preset", "ports", "mounts", "user"}
  BY DEF Route, Recreated, Fields

\* The record keeps what needs a new sandbox and takes the rest.
LEMMA AppliedFields ==
  ASSUME NEW applied, NEW desired, DOMAIN desired = Fields,
         NEW new, new = WithoutRecreate(applied, desired)
  PROVE  /\ \A f \in Recreated : new[f] = applied[f]
         /\ \A f \in Fields \ Recreated : new[f] = desired[f]
         /\ new.secrets = desired.secrets
<1>1. /\ \A f \in Recreated : new[f] = applied[f]
      /\ \A f \in Fields \ Recreated : new[f] = desired[f]
  BY Routes DEF WithoutRecreate, Fields
<1>2. "secrets" \in Fields \ Recreated
  BY Routes DEF Fields
<1>. QED  BY <1>1, <1>2

\* What `remodel` does to the sandbox and its record leaves nothing to do.
LEMMA ModifiedConverges ==
  ASSUME NEW b, NEW r, NEW p, Known(b, r), Plan(p), NEW m, NEW new,
         Box(m),
         m.env = Modified(b, SdkChanges(b, r, p), p).env,
         m.secrets = Modified(b, SdkChanges(b, r, p), p).secrets,
         new.applied = WithoutRecreate(r.applied, p.config),
         new.envKeys = DOMAIN p.env
  PROVE  Known(m, new) /\ Converged(m, new, p)
<1>. DEFINE wanted == Over(p.env, GuestEnv)
            sdk == SdkChanges(b, r, p)
            Image == Over(GuestEnv, ImageEnv)
<1>1. DOMAIN wanted = DOMAIN p.env \cup DOMAIN GuestEnv
  BY OverAt
<1>2. /\ Function(m.env) /\ DOMAIN m.env = (DOMAIN b.env \cup sdk.env.set) \ sdk.env.remove
      /\ \A k \in DOMAIN m.env : m.env[k] = IF k \in sdk.env.set THEN wanted[k] ELSE b.env[k]
      /\ Function(m.secrets) /\ DOMAIN m.secrets = (DOMAIN b.secrets \cup sdk.secrets) \ sdk.drop
      /\ \A n \in DOMAIN m.secrets :
           m.secrets[n] = IF n \in sdk.secrets THEN p.secrets[n] ELSE b.secrets[n]
  <2>. HIDE DEF sdk
  <2>1. m.env = Modified(b, sdk, p).env /\ m.secrets = Modified(b, sdk, p).secrets
    BY DEF sdk
  <2>. QED  BY <2>1, ModifiedBox DEF Known
<1>3. /\ sdk.env.set = {k \in DOMAIN wanted : ~(k \in DOMAIN b.env /\ b.env[k] = wanted[k])}
      /\ sdk.env.remove = (DOMAIN b.env \cap r.envKeys) \ DOMAIN wanted
      /\ sdk.secrets = {n \in DOMAIN p.secrets :
                          \/ n \notin DOMAIN b.secrets
                          \/ b.secrets[n].value # p.secrets[n].value
                          \/ n \notin DOMAIN r.applied.secrets
                          \/ r.applied.secrets[n] # p.secrets[n].hosts}
      /\ sdk.drop = DOMAIN b.secrets \ DOMAIN p.secrets
  BY SdkParts
<1>. HIDE DEF wanted, sdk
<1>4. \A k \in DOMAIN wanted : k \in DOMAIN m.env /\ m.env[k] = wanted[k]
  BY <1>2, <1>3
<1>5. \A k \in DOMAIN m.env \ DOMAIN wanted :
        k \in DOMAIN ImageEnv /\ m.env[k] = ImageEnv[k] /\ k \notin DOMAIN GuestEnv
  <2>. SUFFICES ASSUME NEW k \in DOMAIN m.env, k \notin DOMAIN wanted
                PROVE  k \in DOMAIN ImageEnv /\ m.env[k] = ImageEnv[k] /\ k \notin DOMAIN GuestEnv
    OBVIOUS
  <2>1. k \in DOMAIN b.env /\ k \notin r.envKeys /\ m.env[k] = b.env[k] /\ k \notin DOMAIN GuestEnv
    BY <1>1, <1>2, <1>3
  <2>2. k \in DOMAIN Over(GuestEnv, ImageEnv) /\ b.env[k] = Over(GuestEnv, ImageEnv)[k]
    BY <2>1 DEF Known
  <2>. QED  BY <2>1, <2>2 DEF Over
<1>6. \A k \in DOMAIN m.env \ DOMAIN p.env : k \in DOMAIN Image /\ m.env[k] = Image[k]
  <2>1. \A k \in DOMAIN GuestEnv \ DOMAIN p.env : wanted[k] = GuestEnv[k]
    BY OverAt DEF wanted
  <2>. QED  BY <1>1, <1>4, <1>5, <2>1 DEF Over
<1>7. DOMAIN m.secrets = DOMAIN p.secrets
  BY <1>2, <1>3
<1>8. \A n \in DOMAIN p.secrets : m.secrets[n] = p.secrets[n]
  <2>. SUFFICES ASSUME NEW n \in DOMAIN p.secrets, n \notin sdk.secrets
                PROVE  b.secrets[n] = p.secrets[n]
    BY <1>2, <1>3
  <2>1. /\ n \in DOMAIN b.secrets /\ b.secrets[n].value = p.secrets[n].value
        /\ r.applied.secrets[n] = p.secrets[n].hosts
    BY <1>3
  <2>2. b.secrets[n] = [value |-> b.secrets[n].value, hosts |-> r.applied.secrets[n]]
    BY <2>1 DEF Known
  <2>3. p.secrets[n] = [value |-> p.secrets[n].value, hosts |-> p.config.secrets[n]]
    BY DEF Plan, Sealed
  <2>4. p.secrets[n].hosts = p.config.secrets[n]
    BY <2>3
  <2>. QED  BY <2>1, <2>2, <2>3, <2>4
<1>9. m.secrets = p.secrets
  BY <1>2, <1>7, <1>8 DEF Plan, Sealed, Function
<1>10. new.applied.secrets = p.config.secrets
  BY AppliedFields DEF Plan
<1>11. Known(m, new)
  <2>1. Function(m.env) /\ Function(m.secrets)
    BY <1>2 DEF Function
  <2>2. DOMAIN GuestEnv \subseteq DOMAIN m.env
    BY <1>1, <1>4
  <2>3. \A n \in DOMAIN m.secrets :
          /\ n \in DOMAIN new.applied.secrets
          /\ m.secrets[n] = [value |-> m.secrets[n].value, hosts |-> new.applied.secrets[n]]
    BY <1>9, <1>10 DEF Plan, Sealed
  <2>. QED  BY <1>6, <2>1, <2>2, <2>3 DEF Known
<1>12. Diff(new.applied, p.config) \subseteq Recreated
  <2>1. \A f \in (DOMAIN Route) \ Recreated : new.applied[f] = p.config[f]
    BY AppliedFields, Routes DEF Plan
  <2>. QED  BY <1>10, <2>1 DEF Diff
<1>13. Groups(SdkChanges(m, new, p)) = {}
  <2>. DEFINE again == SdkChanges(m, new, p)
  <2>1. again.res \cap Resources = {}
    <3>1. Resources \subseteq Fields \ Recreated
      BY Routes DEF Resources, Fields
    <3>. QED  BY <3>1, SdkParts, AppliedFields DEF Plan
  <2>2. again.env.set = {} /\ again.env.remove = {}
    BY <1>1, <1>4, SdkParts DEF wanted
  <2>3. again.secrets = {} /\ again.drop = {}
    <3>1. \A n \in DOMAIN p.secrets : p.secrets[n].hosts = p.config.secrets[n] /\ n \in DOMAIN p.config.secrets
      <4>. SUFFICES ASSUME NEW n \in DOMAIN p.secrets PROVE p.secrets[n].hosts = p.config.secrets[n]
        BY DEF Plan, Sealed
      <4>1. p.secrets[n] = [value |-> p.secrets[n].value, hosts |-> p.config.secrets[n]]
        BY DEF Plan, Sealed
      <4>. QED  BY <4>1
    <3>. QED  BY <1>9, <1>10, <3>1, SdkParts
  <2>. HIDE DEF again
  <2>4. Groups(again) = {}
    BY <2>1, <2>2, <2>3, GroupsOfNone
  <2>. QED  BY <2>4 DEF again
<1>14. \A k \in DOMAIN m.env : m.env[k] = Over(wanted, ImageEnv)[k]
  BY <1>4, <1>5 DEF Over
<1>. QED  BY <1>4, <1>5, <1>9, <1>11, <1>12, <1>13, <1>14 DEF Converged, Plan, Sealed, wanted

-----------------------------------------------------------------------------
(* Chef.                                                                   *)

\* What is not a table is not a function.
Opaque == Absent # Junk /\ ~Function(Absent) /\ ~Function(Junk)

\* A key that is set has its value, and no other key changes.
LEMMA GetWith ==
  ASSUME Opaque, NEW t, NEW key, NEW v
  PROVE  /\ IsTable(With(t, key, v))
         /\ Get(With(t, key, v), key) = v
         /\ \A k : k # key /\ IsTable(t) => Get(With(t, key, v), k) = Get(t, k)
<1>1. Function(With(t, key, v)) /\ DOMAIN With(t, key, v) = DOMAIN t \cup {key}
  BY DEF With, Function
<1>2. IsTable(With(t, key, v))
  BY <1>1 DEF Opaque, IsTable
<1>. QED  BY <1>1, <1>2 DEF Get, With

\* A key that gets a default keeps the value it has.
LEMMA GetDefault ==
  ASSUME Opaque, NEW t, IsTable(t), NEW key, NEW v
  PROVE  /\ IsTable(Default(t, key, v))
         /\ Get(Default(t, key, v), key) = IF key \in DOMAIN t THEN t[key] ELSE v
         /\ \A k : k # key => Get(Default(t, key, v), k) = Get(t, k)
  BY GetWith DEF Default, Get

\* A table made where there is none is empty.
LEMMA GetCreated ==
  ASSUME Opaque, NEW v
  PROVE  /\ \A k : Get(Created(v), k) = Get(v, k)
         /\ IsTable(Created(v)) <=> v # Junk
<1>1. Function(<<>>) /\ DOMAIN <<>> = {}
  BY DEF Function
<1>2. IsTable(<<>>)
  BY <1>1 DEF Opaque, IsTable
<1>. QED  BY <1>1, <1>2 DEF Opaque, Created, Get, IsTable

\* A chef that nobody declared has the default ids.
LEMMA NewChefIs ==
  ASSUME Opaque
  PROVE  /\ IsTable(NewChef) /\ Get(NewChef, "uid") = DefaultId /\ GroupOf(NewChef) = "chef"
<1>1. Function(NewChef) /\ DOMAIN NewChef = {"uid", "group", "groups"}
  BY DEF NewChef, Function
<1>2. IsTable(NewChef)
  BY <1>1 DEF Opaque, IsTable
<1>. QED  BY <1>1, <1>2 DEF Get, GroupOf, NewChef

\* Chef, as the copy declares him, has the uid and the group that the user of
\* a new sandbox gets.
LEMMA DeclaredChef ==
  ASSUME Opaque, NEW chef, NEW declared,
         IsTable(chef) => Get(chef, "uid") # Junk /\ \A k \in DOMAIN chef : chef[k] # Absent,
         declared = IF IsTable(chef) THEN Default(Default(chef, "uid", DefaultId), "group", "chef")
                    ELSE NewChef
  PROVE  /\ IsTable(declared)
         /\ Get(declared, "uid") = IF IsTable(chef) THEN IdOr(Get(chef, "uid"), DefaultId) ELSE DefaultId
         /\ GroupOf(declared) = GroupOf(chef)
<1>1. CASE ~IsTable(chef)
  BY <1>1, NewChefIs DEF GroupOf, Get
<1>2. CASE IsTable(chef)
  <2>. DEFINE one == Default(chef, "uid", DefaultId)
  <2>1. /\ IsTable(one) /\ Get(one, "uid") = IF "uid" \in DOMAIN chef THEN chef["uid"] ELSE DefaultId
        /\ \A k : k # "uid" => Get(one, k) = Get(chef, k)
    BY <1>2, GetDefault
  <2>2. "group" \in DOMAIN one => one["group"] = Get(one, "group")
    BY <2>1 DEF Get
  <2>. HIDE DEF one
  <2>3. declared = Default(one, "group", "chef")
    BY <1>2 DEF one
  <2>4. /\ IsTable(declared) /\ Get(declared, "group") = IF "group" \in DOMAIN one THEN one["group"] ELSE "chef"
        /\ Get(declared, "uid") = Get(one, "uid")
    BY <2>1, <2>3, GetDefault
  <2>5. Get(declared, "uid") = IdOr(Get(chef, "uid"), DefaultId)
    BY <1>2, <2>1, <2>4 DEF IdOr, Get
  <2>6. "group" \notin DOMAIN one => Get(chef, "group") = Absent
    BY <2>1 DEF Get
  <2>7. GroupOf(declared) = GroupOf(chef)
    BY <1>2, <2>1, <2>2, <2>4, <2>6 DEF GroupOf, Get, Opaque
  <2>. QED  BY <1>2, <2>4, <2>5, <2>7
<1>. QED  BY <1>1, <1>2

-----------------------------------------------------------------------------
(* The commands.                                                           *)

\* What a new sandbox is made of.
LEMMA NewBoxIs ==
  /\ Box(NewBox)
  /\ NewBox.env = Over(project.env, Over(GuestEnv, ImageEnv)) /\ NewBox.secrets = project.secrets
  /\ NewBox.fixed = [f \in Recreated |-> project.config[f]] /\ NewBox.copy = project.copy
  /\ NewBox.files = Applied(<<>>, project.archive, {})
  BY DEF NewBox, Box

\* A stage changes the copy and the files, and nothing else.
LEMMA StagedBox ==
  ASSUME NEW b, Box(b)
  PROVE  /\ Box(Staged(b)) /\ Staged(b).env = b.env /\ Staged(b).secrets = b.secrets
         /\ Staged(b).fixed = b.fixed /\ Staged(b).copy = project.copy
         /\ Staged(b).files = IF project.archive = <<>> /\ Stale = {} THEN b.files
                              ELSE Applied(b.files, project.archive, Stale)
<1>. DEFINE files == IF project.archive = <<>> /\ Stale = {} THEN b.files
                     ELSE Applied(b.files, project.archive, Stale)
<1>1. Staged(b) = [b EXCEPT !.copy = project.copy, !.files = files]
  BY DEF Staged, Box
<1>. HIDE DEF files
<1>2. Staged(b) = [res |-> b.res, env |-> b.env, secrets |-> b.secrets, fixed |-> b.fixed,
                   copy |-> project.copy, files |-> files]
  BY <1>1 DEF Box
<1>. QED  BY <1>2 DEF Box, files

\* The record of a new sandbox.
LEMMA RecordedIs ==
  /\ Recorded.applied = project.config /\ Recorded.text = project.text
  /\ Recorded.staged = project.archive /\ Recorded.roots = Roots(project.sources)
  /\ Recorded.envKeys = DOMAIN project.env
  BY DEF Recorded

\* The record after a remodel.
LEMMA UpdatedIs ==
  /\ Updated.applied = WithoutRecreate(record.applied, project.config)
  /\ Updated.text = IF UserPending THEN record.text ELSE project.text
  /\ Updated.staged = IF UserPending THEN record.staged ELSE project.archive
  /\ Updated.roots = IF UserPending THEN record.roots ELSE Roots(project.sources)
  /\ Updated.envKeys = DOMAIN project.env
<1>. DEFINE applied == WithoutRecreate(record.applied, project.config)
            text == IF UserPending THEN record.text ELSE project.text
            staged == IF UserPending THEN record.staged ELSE project.archive
            roots == IF UserPending THEN record.roots ELSE Roots(project.sources)
<1>1. Updated = [Recorded EXCEPT !.applied = applied, !.text = text, !.staged = staged, !.roots = roots]
  BY DEF Updated, Recorded
<1>. HIDE DEF applied, text, staged, roots
<1>2. Updated = [applied |-> applied, text |-> text, staged |-> staged, roots |-> roots,
                 envKeys |-> DOMAIN project.env]
  BY <1>1 DEF Recorded
<1>. QED  BY <1>2 DEF applied, text, staged, roots

\* There is a sandbox.  (Only `up` makes one.)
Made == box # NoBox \/ InStep

Changed == ~(/\ Diff(record.applied, project.config) = {}
             /\ Groups(SdkChanges(box, record, project)) = {}
             /\ ~(GuestChanged \/ StagedChanged))
Remodelled == Modified(box, SdkChanges(box, record, project), project)

\* What `remodel` makes of the sandbox.
LEMMA RemodelStep ==
  ASSUME RemodelBox, Box(box)
  PROVE  /\ project.ok /\ box # NoBox /\ last' = "remodel" /\ UNCHANGED <<setup, project>>
         /\ ~Changed => UNCHANGED <<box, record, named>>
         /\ Changed => /\ Box(box') /\ box'.fixed = box.fixed
                       /\ box'.env = Remodelled.env /\ box'.secrets = Remodelled.secrets
                       /\ box'.copy = IF GuestChanged \/ StagedChanged THEN project.copy ELSE box.copy
                       /\ box'.files = IF (GuestChanged \/ StagedChanged)
                                            /\ ~(project.archive = <<>> /\ Stale = {})
                                       THEN Applied(box.files, project.archive, Stale) ELSE box.files
                       /\ record' = Updated /\ named' = named \cup record'.envKeys
<1>1. /\ project.ok /\ box # NoBox /\ last' = "remodel" /\ UNCHANGED <<setup, project>>
      /\ ~Changed => UNCHANGED <<box, record, named>>
      /\ Changed => /\ box' = IF GuestChanged \/ StagedChanged THEN Staged(Remodelled) ELSE Remodelled
                    /\ record' = Updated /\ named' = named \cup record'.envKeys
  BY DEF RemodelBox, Changed, Remodelled
<1>2. /\ Box(Remodelled) /\ Remodelled.fixed = box.fixed /\ Remodelled.copy = box.copy
      /\ Remodelled.files = box.files
  <2>. DEFINE sdk == SdkChanges(box, record, project)
  <2>. HIDE DEF sdk
  <2>1. Remodelled = Modified(box, sdk, project)
    BY DEF sdk, Remodelled
  <2>. HIDE DEF Remodelled
  <2>. QED  BY <2>1, ModifiedBox
<1>. HIDE DEF Remodelled
<1>. QED  BY <1>1, <1>2, StagedBox

-----------------------------------------------------------------------------
(* The invariant of RemodelConverges.                                      *)

EnvKnown ==
  /\ Known(box, record) /\ record.envKeys \subseteq named
  /\ DOMAIN ImageEnv \ named \subseteq DOMAIN box.env

ConvergeInv ==
  /\ project = Load(setup)
  /\ Made => EnvKnown
  /\ InStep => Converged(box, record, project)

\* `up` leaves nothing to change.
LEMMA UpConverges ==
  ASSUME Plan(project), Up
  PROVE  EnvKnown' /\ Converged(box', record', project')
<1>. DEFINE wanted == Over(project.env, GuestEnv)
            image == Over(GuestEnv, ImageEnv)
            b == NewBox
            r == Recorded
<1>1. box' = b /\ record' = r /\ named' = DOMAIN project.env /\ project' = project
  BY RecordedIs DEF Up
<1>2. /\ Box(b) /\ b.env = Over(project.env, image) /\ b.secrets = project.secrets
      /\ r.applied = project.config /\ r.envKeys = DOMAIN project.env
  BY NewBoxIs, RecordedIs
<1>. HIDE DEF b, r
<1>3. /\ DOMAIN b.env = DOMAIN project.env \cup DOMAIN GuestEnv \cup DOMAIN ImageEnv
      /\ DOMAIN wanted = DOMAIN project.env \cup DOMAIN GuestEnv
      /\ Function(b.env)
  BY <1>2 DEF Over, Function
<1>4. \A k \in DOMAIN wanted : b.env[k] = wanted[k]
  BY <1>2 DEF Over
<1>5. \A k \in DOMAIN b.env \ DOMAIN wanted : k \in DOMAIN ImageEnv /\ b.env[k] = ImageEnv[k]
  BY <1>2 DEF Over
<1>6. \A k \in DOMAIN b.env \ r.envKeys : k \in DOMAIN image /\ b.env[k] = image[k]
  BY <1>2 DEF Over
<1>7. \A n \in DOMAIN project.secrets :
        /\ n \in DOMAIN project.config.secrets
        /\ project.secrets[n] = [value |-> project.secrets[n].value, hosts |-> project.config.secrets[n]]
  BY DEF Plan, Sealed
<1>8. Known(b, r)
  BY <1>2, <1>3, <1>6, <1>7 DEF Known, Plan, Sealed
<1>9. Groups(SdkChanges(b, r, project)) = {}
  <2>. DEFINE sdk == SdkChanges(b, r, project)
  <2>1. sdk.res = {} /\ sdk.env.set = {} /\ sdk.env.remove = {}
    BY <1>2, <1>3, <1>4, SdkParts
  <2>2. \A n \in DOMAIN project.secrets : project.secrets[n].hosts = project.config.secrets[n]
    <3>. SUFFICES ASSUME NEW n \in DOMAIN project.secrets
                  PROVE  project.secrets[n].hosts = project.config.secrets[n]
      OBVIOUS
    <3>1. project.secrets[n] = [value |-> project.secrets[n].value, hosts |-> project.config.secrets[n]]
      BY <1>7
    <3>. QED  BY <3>1
  <2>3. /\ sdk.secrets = {n \in DOMAIN project.secrets :
                            \/ n \notin DOMAIN b.secrets
                            \/ b.secrets[n].value # project.secrets[n].value
                            \/ n \notin DOMAIN r.applied.secrets
                            \/ r.applied.secrets[n] # project.secrets[n].hosts}
        /\ sdk.drop = DOMAIN b.secrets \ DOMAIN project.secrets
    BY SdkParts
  <2>. HIDE DEF sdk
  <2>4. Groups(sdk) = {}
    <3>1. sdk.secrets = {}
      <4>. SUFFICES ASSUME NEW n \in DOMAIN project.secrets
                    PROVE  /\ n \in DOMAIN b.secrets /\ b.secrets[n].value = project.secrets[n].value
                           /\ n \in DOMAIN r.applied.secrets
                           /\ r.applied.secrets[n] = project.secrets[n].hosts
        BY <2>3
      <4>. QED  BY <1>2, <1>7, <2>2
    <3>2. sdk.drop = {}
      BY <1>2, <2>3
    <3>. QED  BY <2>1, <3>1, <3>2, GroupsOfNone
  <2>. QED  BY <2>4 DEF sdk
<1>10. Diff(r.applied, project.config) = {}
  BY <1>2 DEF Diff
<1>. HIDE DEF wanted
<1>11. \A k \in DOMAIN b.env : b.env[k] = Over(wanted, ImageEnv)[k]
  BY <1>4, <1>5 DEF Over
<1>12. Converged(b, r, project)
  BY <1>2, <1>3, <1>4, <1>5, <1>9, <1>10, <1>11 DEF Converged, Plan, Sealed, wanted
<1>. QED  BY <1>1, <1>2, <1>3, <1>8, <1>12 DEF EnvKnown

\* `remodel` leaves nothing to change, whatever it found.
LEMMA RemodelKeepsConverging ==
  ASSUME Plan(project), EnvKnown, RemodelBox
  PROVE  EnvKnown' /\ Converged(box', record', project')
<1>1. Known(box, record) /\ Box(box) /\ project' = project
  BY DEF EnvKnown, Known, RemodelBox
<1>2. CASE ~Changed
  <2>1. UNCHANGED <<box, record, named>>
    BY <1>1, <1>2, RemodelStep
  <2>2. Converged(box, record, project)
    BY <1>1, <1>2, UnchangedConverges DEF Changed
  <2>. QED  BY <1>1, <2>1, <2>2 DEF EnvKnown
<1>3. CASE Changed
  <2>. DEFINE sdk == SdkChanges(box, record, project)
  <2>1. /\ Box(box') /\ box'.env = Remodelled.env /\ box'.secrets = Remodelled.secrets
        /\ record' = Updated /\ named' = named \cup record'.envKeys
    BY <1>1, <1>3, RemodelStep
  <2>2. Known(box', record') /\ Converged(box', record', project)
    BY <1>1, <2>1, UpdatedIs, ModifiedConverges DEF Remodelled
  <2>3. record'.envKeys \subseteq named'
    BY <2>1
  <2>4. sdk.env.remove \subseteq named
    BY SdkParts DEF EnvKnown
  <2>5. DOMAIN box'.env = (DOMAIN box.env \cup sdk.env.set) \ sdk.env.remove
    <3>1. box'.env = Modified(box, sdk, project).env
      BY <2>1 DEF Remodelled
    <3>. HIDE DEF sdk
    <3>. QED  BY <1>1, <3>1, ModifiedBox
  <2>6. DOMAIN ImageEnv \ named' \subseteq DOMAIN box'.env
    BY <2>1, <2>4, <2>5 DEF EnvKnown
  <2>. QED  BY <1>1, <2>2, <2>3, <2>6 DEF EnvKnown
<1>. QED  BY <1>2, <1>3

\* What is loaded of a setup is a plan.
LEMMA PlanOfSetup ==
  ASSUME project = Load(setup) PROVE Plan(project)
  BY Loaded DEF Plan

\* Every step keeps ConvergeInv: an edit may make the sandbox differ, but not
\* what is known of it.
LEMMA ConvergeInductive ==
  ASSUME ConvergeInv, [Next]_vars
  PROVE  ConvergeInv'
<1>1. Plan(project)
  BY PlanOfSetup DEF ConvergeInv
<1>2. CASE Up
  <2>1. project' = Load(setup')
    BY <1>2 DEF ConvergeInv, Up
  <2>. QED  BY <1>1, <1>2, <2>1, UpConverges DEF ConvergeInv
<1>3. CASE RemodelBox
  <2>1. project' = Load(setup') /\ Made
    BY <1>3 DEF ConvergeInv, RemodelBox, Made
  <2>. QED  BY <1>1, <1>3, <2>1, RemodelKeepsConverging DEF ConvergeInv
<1>4. CASE Edit
  <2>1. /\ project' = Load(setup') /\ last' = "edit" /\ UNCHANGED <<box, record, named>>
    BY <1>4 DEF Edit
  <2>2. ~InStep'
    BY <2>1 DEF InStep
  <2>3. Made' => Made /\ EnvKnown'
    BY <2>1, <2>2 DEF Made, EnvKnown, ConvergeInv
  <2>. QED  BY <2>1, <2>2, <2>3 DEF ConvergeInv
<1>5. CASE UNCHANGED vars
  BY <1>5 DEF vars, ConvergeInv, Made, InStep, EnvKnown
<1>. QED  BY <1>2, <1>3, <1>4, <1>5 DEF Next

\* ConvergeInv is enough for RemodelConverges.
LEMMA ConvergeImplies ==
  ASSUME ConvergeInv PROVE RemodelConverges
<1>. SUFFICES ASSUME InStep PROVE
         LET wanted == Over(project.env, GuestEnv)
         IN /\ Diff(record.applied, project.config) \subseteq Recreated
            /\ Groups(SdkChanges(box, record, project)) = {}
            /\ \A k \in DOMAIN box.env : box.env[k] = Over(wanted, ImageEnv)[k]
            /\ DOMAIN wanted \cup (DOMAIN ImageEnv \ named) \subseteq DOMAIN box.env
            /\ DOMAIN box.env \subseteq DOMAIN wanted \cup DOMAIN ImageEnv
            /\ box.secrets = project.secrets /\ DOMAIN box.secrets \cap DOMAIN project.env = {}
  BY DEF RemodelConverges
<1>1. Converged(box, record, project) /\ EnvKnown
  BY DEF ConvergeInv, Made
<1>. QED  BY <1>1 DEF Converged, EnvKnown

\* After `up` or `remodel` a further remodel finds nothing but what needs a new
\* sandbox, the environment is the kitchen's over the image's, and no secret is
\* left in it (sandbox/remodel.rs env_patch(), applied_without_recreate()), for
\* any setups and any edits.
THEOREM Converges == Spec => []RemodelConverges
<1>1. Init => ConvergeInv
  BY DEF Init, ConvergeInv, Made, InStep
<1>2. ConvergeInv /\ [Next]_vars => ConvergeInv'
  BY ConvergeInductive
<1>3. ConvergeInv => RemodelConverges
  BY ConvergeImplies
<1>. QED  BY <1>1, <1>2, <1>3, PTL DEF Spec

-----------------------------------------------------------------------------
(* Chef in the copy.                                                       *)

Whole(table) == IsTable(table) => \A k \in DOMAIN table : table[k] # Absent
GroupTable(text) == Get(Get(text.bootstrap, "groups"), "chef")

\* The group that is added to the copy has the gid of the one it names, or the
\* default.
LEMMA AddGroupGid ==
  ASSUME Opaque, NEW with, IsTable(with), NEW b, b = AddGroup(with), Get(b, "groups") # Junk,
         NEW group, group = Get(Get(with, "groups"), "chef"), Whole(group)
  PROVE  /\ Get(b, "users") = Get(with, "users")
         /\ Get(Get(Get(b, "groups"), "chef"), "gid") =
              IF Get(group, "gid") = Absent THEN DefaultId ELSE Get(group, "gid")
<1>. DEFINE groups == Created(Get(with, "groups"))
            gid == IF IsTable(group) THEN Default(group, "gid", DefaultId) ELSE [gid |-> DefaultId]
<1>1. /\ Get(groups, "chef") = group
      /\ IsTable(groups) <=> Get(with, "groups") # Junk
  BY GetCreated
<1>2. b = IF ~IsTable(groups) THEN with ELSE With(with, "groups", With(groups, "chef", gid))
  BY <1>1 DEF AddGroup
<1>3. Function([gid |-> DefaultId]) /\ DOMAIN [gid |-> DefaultId] = {"gid"} /\ [gid |-> DefaultId]["gid"] = DefaultId
  BY DEF Function
<1>4. IsTable([gid |-> DefaultId])
  BY <1>3 DEF Opaque, IsTable
<1>5. Get([gid |-> DefaultId], "gid") = DefaultId
  BY <1>3, <1>4 DEF Get
<1>6. Get(gid, "gid") = IF Get(group, "gid") = Absent THEN DefaultId ELSE Get(group, "gid")
  <2>1. CASE IsTable(group)
    <3>1. Get(Default(group, "gid", DefaultId), "gid") = IF "gid" \in DOMAIN group THEN group["gid"] ELSE DefaultId
      BY <2>1, GetDefault
    <3>. QED  BY <2>1, <3>1 DEF Get, Whole
  <2>2. CASE ~IsTable(group)
    BY <1>5, <2>2 DEF Get
  <2>. QED  BY <2>1, <2>2
<1>. HIDE DEF groups, gid
<1>7. IsTable(groups)
  BY <1>1, <1>2
<1>8. b = With(with, "groups", With(groups, "chef", gid))
  BY <1>2, <1>7
<1>9. Get(b, "groups") = With(groups, "chef", gid) /\ Get(b, "users") = Get(with, "users")
  BY <1>8, GetWith
<1>10. Get(With(groups, "chef", gid), "chef") = gid
  BY <1>7, GetWith
<1>. QED  BY <1>6, <1>9, <1>10

\* What IdentityAgrees says, of the text that the sandbox and the copy are of.
LEMMA ChefAgrees ==
  ASSUME Opaque, NEW text, UserErrors(text) = {}, Whole(Chef(text)), Whole(GroupTable(text)),
         NEW b, b = AddChef(text.bootstrap),
         IsTable(Chef(text)) \/ Gid(text) = Absent,
         IsTable(b), IsTable(Get(b, "users")), Get(b, "groups") # Junk
  PROVE  LET chef == Get(Get(b, "users"), "chef")
         IN /\ Get(chef, "uid") = GuestUser(text).uid
            /\ Get(Get(Get(b, "groups"), GroupOf(chef)), "gid") = GuestUser(text).gid
<1>. DEFINE top == Created(text.bootstrap)
            users == Created(Get(top, "users"))
            chef == Get(users, "chef")
            declared == IF IsTable(chef) THEN Default(Default(chef, "uid", DefaultId), "group", "chef")
                        ELSE NewChef
            with == With(top, "users", With(users, "chef", declared))
<1>1. b = IF ~IsTable(top) \/ ~IsTable(users) THEN top
          ELSE IF GroupOf(declared) # "chef" THEN with ELSE AddGroup(with)
  BY DEF AddChef
<1>2. \A k : Get(top, k) = Get(text.bootstrap, k)
  BY GetCreated
<1>3. chef = Chef(text)
  BY <1>2, GetCreated DEF Chef
<1>4. Gid(text) # Junk /\ (IsTable(chef) => Get(chef, "uid") # Junk)
      /\ (IsTable(chef) /\ Gid(text) = Absent => GroupOf(chef) = "chef")
  BY <1>3 DEF UserErrors, Opaque
<1>5. /\ IsTable(declared)
      /\ Get(declared, "uid") = IF IsTable(chef) THEN IdOr(Get(chef, "uid"), DefaultId) ELSE DefaultId
      /\ GroupOf(declared) = GroupOf(chef)
  <2>1. IsTable(chef) => Get(chef, "uid") # Junk /\ \A k \in DOMAIN chef : chef[k] # Absent
    BY <1>3, <1>4 DEF Whole
  <2>2. PICK d : d = declared
    OBVIOUS
  <2>. HIDE DEF chef
  <2>3. /\ IsTable(d)
        /\ Get(d, "uid") = IF IsTable(chef) THEN IdOr(Get(chef, "uid"), DefaultId) ELSE DefaultId
        /\ GroupOf(d) = GroupOf(chef)
    BY <2>1, <2>2, DeclaredChef
  <2>. QED  BY <2>2, <2>3
<1>6. GuestUser(text).uid = IF IsTable(chef) THEN IdOr(Get(chef, "uid"), DefaultId) ELSE DefaultId
  BY <1>3 DEF GuestUser
<1>7. GuestUser(text).gid = IF Gid(text) = Absent THEN DefaultId ELSE Gid(text)
  BY <1>3, <1>4 DEF GuestUser, IdOr
<1>8. IsTable(top) /\ IsTable(users)
  <2>1. CASE ~IsTable(top)
    BY <1>1, <2>1
  <2>2. CASE IsTable(top) /\ ~IsTable(users)
    <3>1. Get(top, "users") = Junk
      BY <2>2, GetCreated
    <3>. QED  BY <1>1, <2>2, <3>1 DEF IsTable
  <2>. QED  BY <2>1, <2>2
<1>9. Gid(text) = Get(Get(Get(top, "groups"), GroupOf(chef)), "gid")
  BY <1>2, <1>3 DEF Gid
<1>. HIDE DEF top, users, chef, declared
<1>10. /\ IsTable(with) /\ Get(with, "users") = With(users, "chef", declared)
       /\ Get(with, "groups") = Get(top, "groups")
  BY <1>8, GetWith
<1>11. Get(With(users, "chef", declared), "chef") = declared
  BY <1>8, GetWith
<1>. HIDE DEF with
<1>12. CASE GroupOf(declared) # "chef"
  <2>1. b = with
    BY <1>1, <1>8, <1>12
  <2>2. IsTable(chef)
    BY <1>5, <1>12 DEF GroupOf, Get
  <2>3. Gid(text) # Absent
    BY <1>4, <1>5, <1>12, <2>2
  <2>. QED  BY <1>5, <1>6, <1>7, <1>9, <1>10, <1>11, <2>1, <2>3
<1>13. CASE GroupOf(declared) = "chef"
  <2>1. b = AddGroup(with)
    BY <1>1, <1>8, <1>13
  <2>. DEFINE group == Get(Get(with, "groups"), "chef")
  <2>2. group = GroupTable(text) /\ Gid(text) = Get(group, "gid")
    BY <1>2, <1>5, <1>9, <1>10, <1>13 DEF GroupTable
  <2>. HIDE DEF group
  <2>3. /\ Get(b, "users") = Get(with, "users")
        /\ Get(Get(Get(b, "groups"), "chef"), "gid") =
             IF Get(group, "gid") = Absent THEN DefaultId ELSE Get(group, "gid")
    BY <1>10, <2>1, <2>2, AddGroupGid DEF group
  <2>. QED  BY <1>5, <1>6, <1>7, <1>10, <1>11, <1>13, <2>2, <2>3
<1>. QED  BY <1>12, <1>13

-----------------------------------------------------------------------------
(* The invariant of IdentityAgrees.                                        *)

\* What the record says of chef is what the sandbox and the copy were given.
Identified ==
  /\ Box(box)
  /\ record.applied.user = GuestUser(record.text) /\ box.fixed.user = record.applied.user
  /\ UserErrors(record.text) = {} /\ Whole(Chef(record.text)) /\ Whole(GroupTable(record.text))
  /\ box.copy.bootstrap = AddChef(record.text.bootstrap)

IdentityInv ==
  /\ setup \in UNION Families /\ project = Load(setup)
  /\ Made => Identified

\* The user that a project declares, and the copy that declares him.
LEMMA LoadedUser ==
  ASSUME NEW s \in UNION Families
  PROVE  /\ Load(s).ok => UserErrors(Load(s).text) = {}
         /\ Load(s).config.user = GuestUser(Load(s).text) /\ DOMAIN Load(s).config = Fields
         /\ Whole(Chef(Load(s).text)) /\ Whole(GroupTable(Load(s).text))
         /\ Load(s).copy.bootstrap = AddChef(Load(s).text.bootstrap)
<1>1. /\ Load(s).ok => ParseErrors(Load(s).text, Load(s).dir) = {}
      /\ Load(s).config = Config(Load(s).text, Load(s).dir)
      /\ Load(s).copy = Copy(Load(s).text, Load(s).rewrites)
      /\ Load(s).text = KitchenFile(s.files).text
  BY DEF Load
<1>2. UserErrors(Load(s).text) \subseteq ParseErrors(Load(s).text, Load(s).dir)
  BY DEF ParseErrors
<1>3. Load(s).config.user = GuestUser(Load(s).text)
  BY <1>1 DEF Config
<1>4. Load(s).copy.bootstrap = AddChef(Load(s).text.bootstrap)
  BY <1>1 DEF Copy
<1>5. Whole(Chef(Load(s).text)) /\ Whole(GroupTable(Load(s).text))
  BY <1>1, WholeTables DEF Whole, GroupTable
<1>. QED  BY <1>1, <1>2, <1>3, <1>4, <1>5, Loaded

\* `up` creates the sandbox with the ids that its copy declares.
LEMMA UpIdentifies ==
  ASSUME setup \in UNION Families, project = Load(setup), Up
  PROVE  Identified'
<1>1. /\ box' = NewBox /\ record' = Recorded /\ project.ok
  BY DEF Up
<1>2. /\ UserErrors(project.text) = {} /\ project.config.user = GuestUser(project.text)
      /\ Whole(Chef(project.text)) /\ Whole(GroupTable(project.text))
      /\ project.copy.bootstrap = AddChef(project.text.bootstrap)
  BY <1>1, LoadedUser
<1>3. NewBox.fixed.user = project.config.user
  BY NewBoxIs, Routes
<1>. QED  BY <1>1, <1>2, <1>3, NewBoxIs, RecordedIs DEF Identified

\* `remodel` leaves copy, record and sandbox to one declaration of chef: the
\* copy is written again only when no user is pending.
LEMMA RemodelIdentifies ==
  ASSUME setup \in UNION Families, project = Load(setup), Identified, RemodelBox
  PROVE  Identified'
<1>1. Box(box) /\ project.ok
  BY DEF Identified, RemodelBox
<1>2. CASE ~Changed
  BY <1>1, <1>2, RemodelStep DEF Identified
<1>3. CASE Changed
  <2>1. /\ Box(box') /\ box'.fixed = box.fixed /\ record' = Updated
        /\ box'.copy = IF GuestChanged \/ StagedChanged THEN project.copy ELSE box.copy
    BY <1>1, <1>3, RemodelStep
  <2>2. /\ UserErrors(project.text) = {} /\ project.config.user = GuestUser(project.text)
        /\ Whole(Chef(project.text)) /\ Whole(GroupTable(project.text))
        /\ project.copy.bootstrap = AddChef(project.text.bootstrap) /\ DOMAIN project.config = Fields
    BY <1>1, LoadedUser
  <2>3. record'.applied.user = record.applied.user
    <3>1. record'.applied = WithoutRecreate(record.applied, project.config)
      BY <2>1, UpdatedIs
    <3>2. "user" \in Recreated
      BY Routes
    <3>. QED  BY <2>2, <3>1, <3>2, AppliedFields
  <2>4. record'.text = IF UserPending THEN record.text ELSE project.text
    BY <2>1, UpdatedIs
  <2>5. CASE UserPending
    <3>1. record'.text = record.text /\ box'.copy = box.copy
      BY <2>1, <2>4, <2>5 DEF GuestChanged, StagedChanged
    <3>. QED  BY <2>1, <2>3, <3>1 DEF Identified
  <2>6. CASE ~UserPending
    <3>1. record'.text = project.text /\ record.applied.user = project.config.user
      BY <2>4, <2>6 DEF UserPending
    <3>2. box'.copy.bootstrap = AddChef(project.text.bootstrap)
      <4>1. CASE GuestChanged \/ StagedChanged
        BY <2>1, <2>2, <4>1
      <4>2. CASE ~(GuestChanged \/ StagedChanged)
        <5>1. AppliedCopy = project.copy
          BY <2>6, <4>2 DEF GuestChanged
        <5>2. AppliedCopy.bootstrap = AddChef(record.text.bootstrap)
          BY DEF AppliedCopy, Copy
        <5>. QED  BY <2>1, <2>2, <4>2, <5>1, <5>2 DEF Identified
      <4>. QED  BY <4>1, <4>2
    <3>. QED  BY <2>1, <2>2, <2>3, <3>1, <3>2 DEF Identified
  <2>. QED  BY <2>5, <2>6
<1>. QED  BY <1>2, <1>3

\* Every step keeps IdentityInv.
LEMMA IdentityInductive ==
  ASSUME IdentityInv, [Next]_vars
  PROVE  IdentityInv'
<1>1. CASE Up
  <2>1. setup' = setup /\ project' = project
    BY <1>1 DEF Up
  <2>. QED  BY <1>1, <2>1, UpIdentifies DEF IdentityInv
<1>2. CASE RemodelBox
  <2>1. Made /\ setup' = setup /\ project' = project
    BY <1>2 DEF RemodelBox, Made
  <2>. QED  BY <1>2, <2>1, RemodelIdentifies DEF IdentityInv
<1>3. CASE Edit
  <2>1. /\ setup' \in UNION Families /\ project' = Load(setup') /\ last' = "edit"
        /\ UNCHANGED <<box, record>>
    BY <1>3 DEF Edit
  <2>2. Made' => Made /\ Identified'
    BY <2>1 DEF Made, InStep, IdentityInv, Identified
  <2>. QED  BY <2>1, <2>2 DEF IdentityInv
<1>4. CASE UNCHANGED vars
  BY <1>4 DEF vars, IdentityInv, Made, InStep, Identified
<1>. QED  BY <1>1, <1>2, <1>3, <1>4 DEF Next

\* IdentityInv is enough for IdentityAgrees: what add_chef() declares has the
\* ids that guest_user() reads.
LEMMA IdentityImplies ==
  ASSUME Opaque, IdentityInv PROVE IdentityAgrees
<1>. DEFINE b == box.copy.bootstrap
            chef == Get(Get(b, "users"), "chef")
<1>. SUFFICES ASSUME box # NoBox, IsTable(Chef(record.text)) \/ Gid(record.text) = Absent,
                     IsTable(b), IsTable(Get(b, "users")), Get(b, "groups") # Junk
              PROVE  /\ Get(chef, "uid") = box.fixed.user.uid
                     /\ Get(Get(Get(b, "groups"), GroupOf(chef)), "gid") = box.fixed.user.gid
  BY DEF IdentityAgrees
<1>1. Identified
  BY DEF IdentityInv, Made
<1>2. b = AddChef(record.text.bootstrap) /\ box.fixed.user = GuestUser(record.text)
      /\ UserErrors(record.text) = {} /\ Whole(Chef(record.text)) /\ Whole(GroupTable(record.text))
  BY <1>1 DEF Identified
<1>. HIDE DEF b
<1>. QED  BY <1>2, ChefAgrees

\* The copy in the guest declares chef with the ids that the sandbox was
\* created to run as, also while a change of them waits for a new sandbox
\* (cli/remodel.rs:164-165), for any kitchen files and any edits.
THEOREM AgreesOnChef ==
  ASSUME Opaque PROVE Spec => []IdentityAgrees
<1>1. Init => IdentityInv
  BY DEF Init, IdentityInv, Made, InStep
<1>2. IdentityInv /\ [Next]_vars => IdentityInv'
  BY IdentityInductive
<1>3. IdentityInv => IdentityAgrees
  BY IdentityImplies
<1>. QED  BY <1>1, <1>2, <1>3, PTL DEF Spec

-----------------------------------------------------------------------------
(* What is kept of a list.                                                 *)

Rank(at, i) == Cardinality({j \in at : j <= i})

\* The number of positions up to a place grows by one at each of them.
LEMMA RankStep ==
  ASSUME NEW m \in Nat, NEW at \in SUBSET (1..m)
  PROVE  /\ IsFiniteSet(at) /\ Cardinality(at) \in Nat
         /\ \A i \in Nat : Rank(at, i) \in Nat
         /\ Rank(at, 0) = 0 /\ Rank(at, m) = Cardinality(at)
         /\ \A i \in Nat : Rank(at, i + 1) = IF (i + 1) \in at THEN Rank(at, i) + 1 ELSE Rank(at, i)
<1>0. \A j \in at : j \in Int /\ 1 <= j /\ j <= m
  OBVIOUS
<1>1. IsFiniteSet(1..m)
  BY FS_Interval
<1>2. IsFiniteSet(at) /\ Cardinality(at) \in Nat
  BY <1>1, FS_Subset, FS_CardinalityType
<1>3. \A i \in Nat : IsFiniteSet({j \in at : j <= i}) /\ Rank(at, i) \in Nat
  <2>. TAKE i \in Nat
  <2>1. {j \in at : j <= i} \in SUBSET at
    OBVIOUS
  <2>2. IsFiniteSet({j \in at : j <= i})
    BY <1>2, <2>1, FS_Subset
  <2>. QED  BY <2>2, FS_CardinalityType DEF Rank
<1>4. Rank(at, 0) = 0
  <2>1. \A j \in at : ~(j <= 0)
    BY <1>0
  <2>2. {j \in at : j <= 0} = {}
    BY <2>1
  <2>. QED  BY <2>2, FS_EmptySet DEF Rank
<1>5. Rank(at, m) = Cardinality(at)
  <2>1. {j \in at : j <= m} = at
    BY <1>0
  <2>. QED  BY <2>1 DEF Rank
<1>6. \A i \in Nat : Rank(at, i + 1) = IF (i + 1) \in at THEN Rank(at, i) + 1 ELSE Rank(at, i)
  <2>. TAKE i \in Nat
  <2>. DEFINE below == {j \in at : j <= i}
  <2>1. CASE (i + 1) \in at
    <3>0. \A j \in at : (j <= i + 1) <=> (j <= i \/ j = i + 1)
      BY <1>0
    <3>1. {j \in at : j <= i + 1} = below \cup {i + 1} /\ (i + 1) \notin below
      <4>1. ~((i + 1) <= i) /\ (i + 1) <= (i + 1)
        OBVIOUS
      <4>2. PICK next : next = i + 1
        OBVIOUS
      <4>3. {j \in at : j <= next} = below \cup {next}
        BY <2>1, <3>0, <4>1, <4>2
      <4>. QED  BY <4>1, <4>2, <4>3
    <3>2. IsFiniteSet(below)
      BY <1>3
    <3>. HIDE DEF below
    <3>3. Cardinality(below \cup {i + 1}) = Cardinality(below) + 1
      BY <3>1, <3>2, FS_AddElement
    <3>. QED  BY <2>1, <3>1, <3>3 DEF Rank, below
  <2>2. CASE (i + 1) \notin at
    <3>1. \A j \in at : j <= i + 1 <=> j <= i
      BY <1>0, <2>2
    <3>2. {j \in at : j <= i + 1} = below
      BY <3>1
    <3>. QED  BY <2>2, <3>2 DEF Rank
  <2>. QED  BY <2>1, <2>2
<1>. QED  BY <1>2, <1>3, <1>4, <1>5, <1>6

\* Every number up to that of all positions is the rank of one.
LEMMA RankReached ==
  ASSUME NEW m \in Nat, NEW at \in SUBSET (1..m), NEW n \in 1..Cardinality(at)
  PROVE  \E i \in at : Rank(at, i) = n
<1>1. /\ Cardinality(at) \in Nat /\ \A i \in Nat : Rank(at, i) \in Nat
      /\ Rank(at, 0) = 0 /\ Rank(at, m) = Cardinality(at)
      /\ \A i \in Nat : Rank(at, i + 1) = IF (i + 1) \in at THEN Rank(at, i) + 1 ELSE Rank(at, i)
  BY RankStep
<1>. DEFINE high == {i \in Nat : Rank(at, i) >= n}
<1>2. m \in high
  BY <1>1
<1>. HIDE DEF high
<1>3. PICK i \in high : \A j \in high : i <= j
  <2>1. high \in SUBSET Nat /\ high # {}
    BY <1>2 DEF high
  <2>. QED  BY <2>1, LeastNatural
<1>4. i \in Nat /\ i # 0 /\ Rank(at, i) >= n
  BY <1>1, <1>3 DEF high
<1>5. i - 1 \in Nat /\ (i - 1) + 1 = i /\ Rank(at, i - 1) < n
  <2>1. i - 1 \in Nat /\ (i - 1) + 1 = i /\ ~(i <= i - 1)
    BY <1>4
  <2>2. i - 1 \notin high
    BY <1>3, <2>1
  <2>. QED  BY <1>1, <2>1, <2>2 DEF high
<1>6. Rank(at, i) = IF i \in at THEN Rank(at, i - 1) + 1 ELSE Rank(at, i - 1)
  BY <1>1, <1>5
<1>7. i \in at /\ Rank(at, i) = n
  BY <1>1, <1>4, <1>5, <1>6
<1>. QED  BY <1>7

\* Positions in some list.
Positions(at) == \E m \in Nat : at \in SUBSET (1..m)

\* The same, of positions in a list of any length.
LEMMA SomeRanked ==
  ASSUME NEW at, Positions(at)
  PROVE  /\ IsFiniteSet(at) /\ Cardinality(at) \in Nat /\ at \subseteq Nat \ {0}
         /\ \A n \in 1..Cardinality(at) : \E i \in at : Rank(at, i) = n
<1>1. PICK m \in Nat : at \in SUBSET (1..m)
  BY DEF Positions
<1>2. \A n \in 1..Cardinality(at) : \E i \in at : Rank(at, i) = n
  BY <1>1, RankReached
<1>3. IsFiniteSet(at) /\ Cardinality(at) \in Nat
  BY <1>1, RankStep
<1>4. at \subseteq Nat \ {0}
  BY <1>1
<1>. QED  BY <1>2, <1>3, <1>4

\* Each element kept is one of the list's at a position of its own.
LEMMA KeptIs ==
  ASSUME NEW s, NEW at, Positions(at), NEW kept, kept = Kept(s, at)
  PROVE  /\ Cardinality(at) \in Nat /\ DOMAIN kept = 1..Cardinality(at) /\ Function(kept)
         /\ \A n \in DOMAIN kept : \E i \in at : kept[n] = s[i] /\ Rank(at, i) = n
<1>. DEFINE Nth(n) == CHOOSE i \in at : Rank(at, i) = n
<1>1. kept = [n \in 1..Cardinality(at) |-> s[Nth(n)]]
  BY DEF Kept, Rank
<1>2. \A n \in 1..Cardinality(at) : Nth(n) \in at /\ Rank(at, Nth(n)) = n
  BY SomeRanked
<1>3. Cardinality(at) \in Nat
  BY SomeRanked
<1>. HIDE DEF Nth
<1>4. Function(kept)
  BY <1>1 DEF Function
<1>. QED  BY <1>1, <1>2, <1>3, <1>4

-----------------------------------------------------------------------------
(* What is run without problems.                                           *)

\* What a list has is a sequence, of itself if there is anything in it.
LEMMA ListIs ==
  ASSUME NEW list, Listed(list)
  PROVE  LET e == Elements(list)
         IN /\ e \in Seq(Range(e)) /\ Len(e) \in Nat /\ DOMAIN e = 1..Len(e)
            /\ DOMAIN e # {} => e = list
<1>. DEFINE e == Elements(list)
<1>1. e \in Seq(Range(e))
  BY DEF Listed
<1>2. list \in {Absent, Junk} => DOMAIN e = {}
  BY DEF Elements
<1>3. list \notin {Absent, Junk} => e = list
  BY DEF Elements
<1>. HIDE DEF e
<1>4. Len(e) \in Nat /\ DOMAIN e = 1..Len(e)
  BY <1>1, LenProperties
<1>5. DOMAIN e # {} => e = list
  BY <1>2, <1>3
<1>. QED  BY <1>1, <1>4, <1>5 DEF e

\* Mounts without problems are off the reserved paths and off one another.
LEMMA MountsSound ==
  ASSUME NEW list, Listed(list), NEW dir, NEW mounts, mounts = Mounts(list, dir)
  PROVE  /\ \A i \in DOMAIN mounts : \A r \in Reserved : ~Overlaps(mounts[i].guest, r)
         /\ \A i, j \in DOMAIN mounts : mounts[i].guest = mounts[j].guest => i = j
<1>. DEFINE e == Elements(list)
            first(i) == ~\E j \in 1..(i - 1) :
                            Mountable(list[j]) /\ MountOf(list[j], dir).guest = MountOf(list[i], dir).guest
            at == {i \in DOMAIN e : Mountable(list[i]) /\ first(i)}
            kept == Kept(e, at)
<1>1. mounts = [n \in DOMAIN kept |-> MountOf(kept[n], dir)]
  BY DEF Mounts
<1>2. Len(e) \in Nat /\ DOMAIN e = 1..Len(e) /\ (DOMAIN e # {} => e = list)
  BY ListIs
<1>3. at \subseteq 1..Len(e)
  BY <1>2
<1>at. Positions(at)
  BY <1>2, <1>3 DEF Positions
<1>4. \A i \in at : /\ i \in Nat /\ i >= 1 /\ e[i] = list[i] /\ Mountable(list[i])
                    /\ \A j \in at : j < i => MountOf(list[j], dir).guest # MountOf(list[i], dir).guest
  <2>. SUFFICES ASSUME NEW i \in at
                PROVE  /\ i \in Nat /\ i >= 1 /\ e[i] = list[i] /\ Mountable(list[i])
                       /\ \A j \in at : j < i => MountOf(list[j], dir).guest # MountOf(list[i], dir).guest
    OBVIOUS
  <2>1. i \in Nat /\ i >= 1
    BY <1>3
  <2>2. e[i] = list[i] /\ Mountable(list[i]) /\ first(i)
    BY <1>2
  <2>3. \A j \in at : j < i => j \in 1..(i - 1) /\ Mountable(list[j])
    BY <1>3, <2>1
  <2>. QED  BY <2>1, <2>2, <2>3
<1>. HIDE DEF e, at, first
<1>kept. kept = Kept(e, at)
  OBVIOUS
<1>. HIDE DEF kept
<1>5. \A n \in DOMAIN kept : \E i \in at : kept[n] = e[i] /\ Rank(at, i) = n
  BY <1>kept, <1>at, KeptIs
<1>6. \A n \in DOMAIN mounts : \E i \in at : mounts[n] = MountOf(list[i], dir) /\ Rank(at, i) = n
  BY <1>1, <1>4, <1>5
<1>7. \A n \in DOMAIN mounts : \A r \in Reserved : ~Overlaps(mounts[n].guest, r)
  <2>. TAKE n \in DOMAIN mounts
  <2>. TAKE r \in Reserved
  <2>1. PICK i \in at : mounts[n] = MountOf(list[i], dir)
    BY <1>6
  <2>2. mounts[n].guest = Normalized(list[i].guest.parts)
    BY <2>1 DEF MountOf
  <2>3. ~Overlaps(Normalized(list[i].guest.parts), r)
    BY <1>4 DEF Mountable
  <2>. QED  BY <2>2, <2>3
<1>8. \A n, k \in DOMAIN mounts : mounts[n].guest = mounts[k].guest => n = k
  <2>. SUFFICES ASSUME NEW n \in DOMAIN mounts, NEW k \in DOMAIN mounts, n # k
                PROVE  mounts[n].guest # mounts[k].guest
    OBVIOUS
  <2>1. PICK i \in at : mounts[n] = MountOf(list[i], dir) /\ Rank(at, i) = n
    BY <1>6
  <2>2. PICK j \in at : mounts[k] = MountOf(list[j], dir) /\ Rank(at, j) = k
    BY <1>6
  <2>3. i \in Nat /\ j \in Nat /\ i # j
    BY <1>4, <2>1, <2>2
  <2>4. i < j \/ j < i
    BY <2>3
  <2>. QED  BY <1>4, <2>1, <2>2, <2>4
<1>. QED  BY <1>7, <1>8

\* Ports without problems are published once each.
LEMMA PortsSound ==
  ASSUME NEW list, Listed(list), NEW ports, ports = PortsOf(list)
  PROVE  \A i, j \in DOMAIN ports :
           (ports[i].host = ports[j].host /\ ports[i].protocol = ports[j].protocol) => i = j
<1>. DEFINE e == Elements(list)
            Same(p, q) == p.host = q.host /\ p.protocol = q.protocol
            first(i) == ~\E j \in 1..(i - 1) : PortParses(list[j]) /\ Same(list[j], list[i])
            at == {i \in DOMAIN e : PortParses(list[i]) /\ first(i)}
<1>1. ports = Kept(e, at)
  BY DEF PortsOf
<1>2. Len(e) \in Nat /\ DOMAIN e = 1..Len(e) /\ (DOMAIN e # {} => e = list)
  BY ListIs
<1>3. at \subseteq 1..Len(e)
  BY <1>2
<1>at. Positions(at)
  BY <1>2, <1>3 DEF Positions
<1>4. \A i \in at : /\ i \in Nat /\ e[i] = list[i]
                    /\ \A j \in at : j < i => ~Same(list[j], list[i])
  <2>. SUFFICES ASSUME NEW i \in at
                PROVE  /\ i \in Nat /\ e[i] = list[i]
                       /\ \A j \in at : j < i => ~Same(list[j], list[i])
    OBVIOUS
  <2>1. i \in Nat /\ i >= 1
    BY <1>3
  <2>2. e[i] = list[i] /\ first(i)
    BY <1>2
  <2>3. \A j \in at : j < i => j \in 1..(i - 1) /\ PortParses(list[j])
    BY <1>3, <2>1
  <2>. QED  BY <2>1, <2>2, <2>3
<1>. HIDE DEF e, at, first, Same
<1>kept. \A n \in DOMAIN ports : \E i \in at : ports[n] = e[i] /\ Rank(at, i) = n
  BY <1>1, <1>at, KeptIs
<1>5. \A n \in DOMAIN ports : \E i \in at : ports[n] = list[i] /\ Rank(at, i) = n
  BY <1>4, <1>kept
<1>. SUFFICES ASSUME NEW n \in DOMAIN ports, NEW k \in DOMAIN ports, n # k
              PROVE  ~Same(ports[n], ports[k])
  BY DEF Same
<1>6. PICK i \in at : ports[n] = list[i] /\ Rank(at, i) = n
  BY <1>5
<1>7. PICK j \in at : ports[k] = list[j] /\ Rank(at, j) = k
  BY <1>5
<1>8. i \in Nat /\ j \in Nat /\ (i < j \/ j < i)
  BY <1>4, <1>6, <1>7
<1>. QED  BY <1>4, <1>6, <1>7, <1>8 DEF Same

\* Without a list there is nothing in it.
LEMMA NothingKept ==
  ASSUME NEW s, NEW kept, kept = Kept(s, {})
  PROVE  kept = <<>> /\ Range(kept) = {}
<1>1. Cardinality({}) = 0 /\ Positions({})
  BY FS_EmptySet DEF Positions
<1>2. DOMAIN kept = 1..0 /\ Function(kept)
  BY <1>1, KeptIs
<1>3. DOMAIN kept = {}
  BY <1>2
<1>4. kept = <<>>
  BY <1>2, <1>3 DEF Function
<1>. QED  BY <1>3, <1>4 DEF Range

\* A list of patterns without problems that has any names some.
LEMMA PatternsIs ==
  ASSUME NEW list, Listed(list), NEW place
  PROVE  /\ list = Absent => Patterns(list) = <<>>
         /\ Elements(list) # <<>> /\ PatternErrors(list, place) = {} => DOMAIN Patterns(list) # {}
         /\ \E m \in Nat : DOMAIN Patterns(list) = 1..m
<1>. DEFINE e == Elements(list)
            at == {i \in DOMAIN e : list[i] # Junk /\ \A j \in 1..(i - 1) : list[j] # list[i]}
<1>1. Patterns(list) = Kept(e, at)
  BY DEF Patterns
<1>2. e \in Seq(Range(e)) /\ Len(e) \in Nat /\ DOMAIN e = 1..Len(e) /\ (DOMAIN e # {} => e = list)
  BY ListIs
<1>3. at \subseteq 1..Len(e)
  BY <1>2
<1>at. Positions(at)
  BY <1>2, <1>3 DEF Positions
<1>4. Cardinality(at) \in Nat /\ DOMAIN Patterns(list) = 1..Cardinality(at)
  <2>. HIDE DEF e, at
  <2>. QED  BY <1>1, <1>at, KeptIs
<1>5. ASSUME list = Absent PROVE Patterns(list) = <<>>
  <2>1. DOMAIN e = {}
    BY <1>5 DEF Elements
  <2>2. at = {}
    BY <2>1
  <2>. HIDE DEF e, at
  <2>. QED  BY <1>1, <2>2, NothingKept
<1>6. ASSUME e # <<>>, PatternErrors(list, place) = {} PROVE DOMAIN Patterns(list) # {}
  <2>1. 1 \in DOMAIN e
    <3>. HIDE DEF e
    <3>1. Len(e) # 0
      BY <1>2, <1>6, EmptySeq
    <3>. QED  BY <1>2, <3>1
  <2>2. {i \in DOMAIN e : list[i] = Junk} = {}
    BY <1>6 DEF PatternErrors
  <2>3. 1 \in at
    BY <2>1, <2>2
  <2>. HIDE DEF e, at
  <2>4. Cardinality(at) # 0
    BY <1>at, <2>3, SomeRanked, FS_EmptySet
  <2>. QED  BY <1>4, <2>4
<1>. QED  BY <1>4, <1>5, <1>6

\* Some names, when only names are kept.
LEMMA KeptNames ==
  ASSUME NEW allow, NEW at, Positions(at), at # {}, \A i \in at : IsName(allow[i]),
         NEW hosts, hosts = Kept(allow, at)
  PROVE  hosts # <<>> /\ \A p \in Range(hosts) : IsName(p)
<1>1. /\ Cardinality(at) \in Nat /\ DOMAIN hosts = 1..Cardinality(at)
      /\ \A n \in DOMAIN hosts : \E i \in at : hosts[n] = allow[i] /\ Rank(at, i) = n
  BY KeptIs
<1>2. Cardinality(at) # 0
  BY SomeRanked, FS_EmptySet
<1>3. hosts # <<>>
  BY <1>1, <1>2
<1>4. \A p \in Range(hosts) : IsName(p)
  BY <1>1 DEF Range
<1>. QED  BY <1>3, <1>4

\* A secret without problems has names to go to, and nothing else.
LEMMA HostsSound ==
  ASSUME NEW name, NEW secret, SecretErrors(name, secret) = {}, Listed(Get(secret, "allow")),
         NEW allow, allow = Patterns(Get(secret, "allow")),
         NEW hosts, hosts = Kept(allow, {i \in DOMAIN allow : IsName(allow[i])})
  PROVE  hosts # <<>> /\ \A p \in Range(hosts) : IsName(p)
<1>. DEFINE list == Get(secret, "allow")
            at == {i \in DOMAIN allow : IsName(allow[i])}
<1>1. /\ list \notin {Absent, Junk, <<>>} /\ PatternErrors(list, name) = {}
      /\ \A p \in Range(allow) : IsName(p)
  BY DEF SecretErrors
<1>2. Elements(list) # <<>>
  BY <1>1 DEF Elements
<1>3. DOMAIN allow # {} /\ \E m \in Nat : DOMAIN allow = 1..m
  BY <1>1, <1>2, PatternsIs
<1>4. \A i \in at : IsName(allow[i])
  OBVIOUS
<1>5. at = DOMAIN allow
  BY <1>1 DEF Range
<1>6. Positions(at)
  BY <1>3, <1>5 DEF Positions
<1>7. hosts = Kept(allow, at)
  OBVIOUS
<1>. HIDE DEF at
<1>. QED  BY <1>3, <1>4, <1>5, <1>6, <1>7, KeptNames

\* What the sandbox is created from, for good.
FixedSound(c) ==
  /\ \A i \in DOMAIN c.mounts : \A r \in Reserved : ~Overlaps(c.mounts[i].guest, r)
  /\ \A i, j \in DOMAIN c.mounts : c.mounts[i].guest = c.mounts[j].guest => i = j
  /\ \A i, j \in DOMAIN c.ports :
       (c.ports[i].host = c.ports[j].host /\ c.ports[i].protocol = c.ports[j].protocol) => i = j
  /\ c.preset = "none" => c.ports = <<>>
  /\ c.user.uid # 0

\* What may change.
RulesSound(c) ==
  /\ Range(c.allow) \cap Range(c.deny) = {}
  /\ \A n \in DOMAIN c.secrets : c.secrets[n] # <<>> /\ \A p \in Range(c.secrets[n]) : IsName(p)

ListsOf(text) ==
  LET section == Section(text)
      secrets == Get(section, "secrets")
  IN /\ Listed(Get(section, "mounts"))
     /\ \A key \in {"allow", "deny", "ports"} : Listed(Get(Get(section, "network"), key))
     /\ IsTable(secrets) => \A n \in DOMAIN secrets : Listed(Get(secrets[n], "allow"))

\* Rules without problems do not contradict each other, and nothing is
\* published without a network.
LEMMA NetworkSound ==
  ASSUME NEW network, NetworkErrors(network) = {},
         \A key \in {"allow", "deny", "ports"} : Listed(Get(network, key))
  PROVE  /\ Range(Patterns(Get(network, "allow"))) \cap Range(Patterns(Get(network, "deny"))) = {}
         /\ Preset(network) = "none" => PortsOf(Get(network, "ports")) = <<>>
<1>1. CASE IsTable(network)
  <2>1. /\ {"deny" : p \in Range(Patterns(Get(network, "allow"))) \cap Range(Patterns(Get(network, "deny")))} = {}
        /\ (IF Preset(network) = "none" /\ PortsOf(Get(network, "ports")) # <<>> THEN {"ports"} ELSE {}) = {}
    BY <1>1 DEF NetworkErrors, IsTable
  <2>. QED  BY <2>1
<1>2. CASE ~IsTable(network)
  <2>1. Get(network, "allow") = Absent /\ Get(network, "ports") = Absent
    BY <1>2 DEF Get
  <2>2. Listed(Absent)
    BY <2>1
  <2>3. Patterns(Absent) = <<>>
    BY <2>2, PatternsIs
  <2>4. Range(Patterns(Absent)) = {}
    BY <2>3 DEF Range
  <2>5. PortsOf(Absent) = <<>>
    <3>. DEFINE list == Absent
                first(i) == ~\E j \in 1..(i - 1) :
                      PortParses(list[j]) /\ list[j].host = list[i].host /\ list[j].protocol = list[i].protocol
                at == {i \in DOMAIN Elements(list) : PortParses(list[i]) /\ first(i)}
    <3>1. PortsOf(list) = Kept(Elements(list), at)
      BY DEF PortsOf
    <3>2. DOMAIN Elements(list) = {}
      BY DEF Elements
    <3>3. at = {}
      BY <3>2
    <3>. HIDE DEF at
    <3>. QED  BY <3>1, <3>3, NothingKept
  <2>. QED  BY <2>1, <2>4, <2>5
<1>. QED  BY <1>1, <1>2

\* A secret without problems has hosts, which are names.
LEMMA SecretsSound ==
  ASSUME NEW secrets, SecretsErrors(secrets) = {},
         IsTable(secrets) => \A n \in DOMAIN secrets : Listed(Get(secrets[n], "allow")),
         NEW n \in DOMAIN SecretsOf(secrets)
  PROVE  SecretsOf(secrets)[n] # <<>> /\ \A p \in Range(SecretsOf(secrets)[n]) : IsName(p)
<1>1. IsTable(secrets)
  BY DEF SecretsOf
<1>2. n \in DOMAIN secrets \cap EnvNames
  BY <1>1 DEF SecretsOf
<1>. DEFINE allow == Patterns(Get(secrets[n], "allow"))
            hosts == Kept(allow, {i \in DOMAIN allow : IsName(allow[i])})
<1>3. SecretsOf(secrets)[n] = hosts
  BY <1>1 DEF SecretsOf
<1>4. SecretErrors(n, secrets[n]) = {}
  <2>1. UNION {SecretErrors(m, secrets[m]) : m \in DOMAIN secrets \cap EnvNames} = {}
    BY <1>1 DEF SecretsErrors, IsTable
  <2>. QED  BY <1>2, <2>1
<1>5. Listed(Get(secrets[n], "allow"))
  BY <1>1, <1>2
<1>6. hosts # <<>> /\ \A p \in Range(hosts) : IsName(p)
  <2>1. PICK a : a = allow
    OBVIOUS
  <2>2. PICK h : h = Kept(a, {i \in DOMAIN a : IsName(a[i])})
    OBVIOUS
  <2>3. h # <<>> /\ \A p \in Range(h) : IsName(p)
    BY <1>4, <1>5, <2>1, <2>2, HostsSound
  <2>. QED  BY <2>1, <2>2, <2>3
<1>. QED  BY <1>3, <1>6

\* A user without problems is not root.
LEMMA UidSound ==
  ASSUME NEW text, UserErrors(text) = {} PROVE GuestUser(text).uid # 0
<1>1. CASE ~IsTable(Chef(text))
  BY <1>1, DefaultIdAssumption DEF GuestUser
<1>2. CASE IsTable(Chef(text))
  <2>1. Get(Chef(text), "uid") # 0
    BY <1>2 DEF UserErrors
  <2>. QED  BY <1>2, <2>1, DefaultIdAssumption DEF GuestUser, IdOr
<1>. QED  BY <1>1, <1>2

\* All of this of a configuration without problems.
LEMMA ConfigSound ==
  ASSUME NEW text, NEW dir, ParseErrors(text, dir) = {}, ListsOf(text),
         NEW config, config = Config(text, dir)
  PROVE  FixedSound(config) /\ RulesSound(config)
<1>. DEFINE section == Section(text)
            network == Get(section, "network")
            secrets == Get(section, "secrets")
<1>1. UserErrors(text) = {} /\ NetworkErrors(network) = {} /\ SecretsErrors(secrets) = {}
  BY DEF ParseErrors
<1>2. /\ config.mounts = Mounts(Get(section, "mounts"), dir) /\ config.preset = Preset(network)
      /\ config.allow = Patterns(Get(network, "allow")) /\ config.deny = Patterns(Get(network, "deny"))
      /\ config.ports = PortsOf(Get(network, "ports")) /\ config.secrets = SecretsOf(secrets)
      /\ config.user = GuestUser(text)
  BY DEF Config
<1>3. /\ Listed(Get(section, "mounts"))
      /\ \A key \in {"allow", "deny", "ports"} : Listed(Get(network, key))
      /\ IsTable(secrets) => \A n \in DOMAIN secrets : Listed(Get(secrets[n], "allow"))
  BY DEF ListsOf
<1>. HIDE DEF section, network, secrets
<1>4. /\ \A i \in DOMAIN config.mounts : \A r \in Reserved : ~Overlaps(config.mounts[i].guest, r)
      /\ \A i, j \in DOMAIN config.mounts : config.mounts[i].guest = config.mounts[j].guest => i = j
  BY <1>2, <1>3, MountsSound
<1>5. \A i, j \in DOMAIN config.ports :
        (config.ports[i].host = config.ports[j].host /\ config.ports[i].protocol = config.ports[j].protocol) => i = j
  <2>1. Listed(Get(network, "ports"))
    BY <1>3
  <2>. QED  BY <1>2, <2>1, PortsSound
<1>6. Range(config.allow) \cap Range(config.deny) = {} /\ (config.preset = "none" => config.ports = <<>>)
  BY <1>1, <1>2, <1>3, NetworkSound
<1>7. config.user.uid # 0
  BY <1>1, <1>2, UidSound
<1>8. \A n \in DOMAIN config.secrets :
        config.secrets[n] # <<>> /\ \A p \in Range(config.secrets[n]) : IsName(p)
  BY <1>1, <1>2, <1>3, SecretsSound
<1>. QED  BY <1>4, <1>5, <1>6, <1>7, <1>8 DEF FixedSound, RulesSound

-----------------------------------------------------------------------------
(* The invariant of CreatedIsSound.                                        *)

Sound == EnvKnown /\ FixedSound(box.fixed) /\ RulesSound(record.applied)

SoundInv ==
  /\ setup \in UNION Families /\ project = Load(setup)
  /\ Made => Sound

\* A project that commands accept has such a configuration.
LEMMA LoadedSound ==
  ASSUME NEW s \in UNION Families, Load(s).ok
  PROVE  FixedSound(Load(s).config) /\ RulesSound(Load(s).config)
<1>1. /\ ParseErrors(Load(s).text, Load(s).dir) = {}
      /\ Load(s).config = Config(Load(s).text, Load(s).dir)
      /\ Load(s).text = KitchenFile(s.files).text
  BY DEF Load
<1>2. ListsOf(Load(s).text)
  BY <1>1, ListsAssumption DEF ListsOf
<1>. QED  BY <1>1, <1>2, ConfigSound

\* `up` creates a sandbox of such a configuration.
LEMMA UpSound ==
  ASSUME setup \in UNION Families, project = Load(setup), Up
  PROVE  Sound'
<1>1. Plan(project) /\ project.ok /\ box' = NewBox /\ record' = Recorded
  BY PlanOfSetup DEF Up
<1>2. EnvKnown'
  BY <1>1, UpConverges
<1>3. FixedSound(project.config) /\ RulesSound(project.config)
  BY <1>1, LoadedSound
<1>4. box'.fixed = [f \in Recreated |-> project.config[f]] /\ record'.applied = project.config
  BY <1>1, NewBoxIs, RecordedIs
<1>5. /\ box'.fixed.mounts = project.config.mounts /\ box'.fixed.ports = project.config.ports
      /\ box'.fixed.preset = project.config.preset /\ box'.fixed.user = project.config.user
  BY <1>4, Routes
<1>6. FixedSound(box'.fixed)
  BY <1>3, <1>5 DEF FixedSound
<1>. QED  BY <1>2, <1>3, <1>4, <1>6 DEF Sound

\* `remodel` takes the rules of such a configuration, and keeps the rest of
\* what the sandbox was created from.
LEMMA RemodelSound ==
  ASSUME setup \in UNION Families, project = Load(setup), Sound, RemodelBox
  PROVE  Sound'
<1>1. Plan(project) /\ project.ok /\ Box(box)
  BY PlanOfSetup DEF RemodelBox, Sound, EnvKnown, Known
<1>2. EnvKnown'
  BY <1>1, RemodelKeepsConverging DEF Sound
<1>3. CASE ~Changed
  <2>1. UNCHANGED <<box, record>>
    BY <1>1, <1>3, RemodelStep
  <2>. QED  BY <1>2, <2>1 DEF Sound
<1>4. CASE Changed
  <2>1. box'.fixed = box.fixed /\ record'.applied = WithoutRecreate(record.applied, project.config)
    BY <1>1, <1>4, RemodelStep, UpdatedIs
  <2>2. RulesSound(project.config)
    BY <1>1, LoadedSound
  <2>3. {"allow", "deny", "secrets"} \subseteq Fields \ Recreated
    BY Routes DEF Fields
  <2>4. /\ record'.applied.allow = project.config.allow /\ record'.applied.deny = project.config.deny
        /\ record'.applied.secrets = project.config.secrets
    BY <1>1, <2>1, <2>3, AppliedFields DEF Plan
  <2>5. RulesSound(record'.applied)
    BY <2>2, <2>4 DEF RulesSound
  <2>. QED  BY <1>2, <2>1, <2>5 DEF Sound
<1>. QED  BY <1>3, <1>4

\* Every step keeps SoundInv.
LEMMA SoundInductive ==
  ASSUME SoundInv, [Next]_vars
  PROVE  SoundInv'
<1>1. CASE Up
  <2>1. setup' = setup /\ project' = project
    BY <1>1 DEF Up
  <2>. QED  BY <1>1, <2>1, UpSound DEF SoundInv
<1>2. CASE RemodelBox
  <2>1. Made /\ setup' = setup /\ project' = project
    BY <1>2 DEF RemodelBox, Made
  <2>. QED  BY <1>2, <2>1, RemodelSound DEF SoundInv
<1>3. CASE Edit
  <2>1. /\ setup' \in UNION Families /\ project' = Load(setup') /\ last' = "edit"
        /\ UNCHANGED <<box, record, named>>
    BY <1>3 DEF Edit
  <2>2. Made' => Made /\ Sound'
    BY <2>1 DEF Made, InStep, SoundInv, Sound, EnvKnown
  <2>. QED  BY <2>1, <2>2 DEF SoundInv
<1>4. CASE UNCHANGED vars
  BY <1>4 DEF vars, SoundInv, Made, InStep, Sound, EnvKnown
<1>. QED  BY <1>1, <1>2, <1>3, <1>4 DEF Next

\* SoundInv is enough for CreatedIsSound.
LEMMA SoundImplies ==
  ASSUME SoundInv PROVE CreatedIsSound
<1>. SUFFICES ASSUME box # NoBox PROVE
         /\ FixedSound(box.fixed)
         /\ Range(record.applied.allow) \cap Range(record.applied.deny) = {}
         /\ \A n \in DOMAIN box.secrets :
              box.secrets[n].hosts # <<>> /\ \A p \in Range(box.secrets[n].hosts) : IsName(p)
  BY DEF CreatedIsSound, FixedSound
<1>1. EnvKnown /\ FixedSound(box.fixed) /\ RulesSound(record.applied)
  BY DEF SoundInv, Made, Sound
<1>2. ASSUME NEW n \in DOMAIN box.secrets
      PROVE  n \in DOMAIN record.applied.secrets /\ box.secrets[n].hosts = record.applied.secrets[n]
  <2>1. /\ n \in DOMAIN record.applied.secrets
        /\ box.secrets[n] = [value |-> box.secrets[n].value, hosts |-> record.applied.secrets[n]]
    BY <1>1 DEF EnvKnown, Known
  <2>. QED  BY <2>1
<1>. QED  BY <1>1, <1>2 DEF RulesSound

\* A sandbox has only mounts, ports, rules, secrets and a user that it can be
\* run with, as validate.rs and schema.rs check them: for any kitchen files
\* and any edits, also of a sandbox that was remodelled.
THEOREM CreatedSound == Spec => []CreatedIsSound
<1>1. Init => SoundInv
  BY DEF Init, SoundInv, Made, InStep
<1>2. SoundInv /\ [Next]_vars => SoundInv'
  BY SoundInductive
<1>3. SoundInv => CreatedIsSound
  BY SoundImplies
<1>. QED  BY <1>1, <1>2, <1>3, PTL DEF Spec

-----------------------------------------------------------------------------
(* Paths.                                                                  *)

\* The strings; that these are some is what the provers do not know.
Words == STRING \cup {"opt", "kitchen", "files", "project", "root"}
Paths == Seq(Words)

\* Sequences of strings are paths.
LEMMA PathsAre ==
  ASSUME NEW p, p \in Seq(STRING) PROVE p \in Paths
<1>1. Len(p) \in Nat /\ p \in [1..Len(p) -> STRING]
  BY LenProperties
<1>2. p \in [1..Len(p) -> Words]
  BY <1>1 DEF Words
<1>. QED  BY <1>1, <1>2, SeqDef DEF Paths

\* Prefixes, component by component.
LEMMA PrefixIs ==
  ASSUME NEW p \in Paths, NEW q \in Paths
  PROVE  /\ IsPrefix(p, q) <=> (Len(p) <= Len(q) /\ \A i \in 1..Len(p) : p[i] = q[i])
         /\ IsStrictPrefix(p, q) <=> (Len(p) < Len(q) /\ \A i \in 1..Len(p) : p[i] = q[i])
<1>1. /\ Len(p) \in Nat /\ Len(q) \in Nat /\ p \in Seq(Words) /\ q \in Seq(Words)
  BY DEF Paths
<1>2. SubSeq(p, 1, Len(p)) = p
  BY <1>1, SubSeqFull
<1>3. ASSUME Len(p) <= Len(q)
      PROVE  /\ SubSeq(q, 1, Len(p)) \in Seq(Words) /\ Len(SubSeq(q, 1, Len(p))) = Len(p)
             /\ \A i \in 1..Len(p) : SubSeq(q, 1, Len(p))[i] = q[i]
  <2>1. \A i \in 1..Len(p) : q[i] \in Words
    BY <1>1, <1>3
  <2>. QED  BY <1>1, <2>1, SubSeqProperties
<1>4. IsPrefix(p, q) <=> (Len(p) <= Len(q) /\ \A i \in 1..Len(p) : p[i] = q[i])
  <2>1. CASE Len(p) <= Len(q)
    <3>. DEFINE front == SubSeq(q, 1, Len(p))
    <3>1. /\ front \in Seq(Words) /\ Len(front) = Len(p) /\ \A i \in 1..Len(p) : front[i] = q[i]
      BY <1>3, <2>1
    <3>2. IsPrefix(p, q) <=> p = front
      BY <1>2, <2>1 DEF IsPrefix
    <3>. HIDE DEF front
    <3>3. p = front <=> \A i \in 1..Len(p) : p[i] = front[i]
      BY <1>1, <3>1, SeqEqual
    <3>. QED  BY <2>1, <3>1, <3>2, <3>3
  <2>2. CASE ~(Len(p) <= Len(q))
    BY <2>2 DEF IsPrefix
  <2>. QED  BY <2>1, <2>2
<1>5. IsPrefix(p, q) /\ Len(p) = Len(q) => p = q
  BY <1>1, <1>4, SeqEqual
<1>. QED  BY <1>1, <1>4, <1>5 DEF IsStrictPrefix

\* A path below another one, component by component.
LEMMA JoinIs ==
  ASSUME NEW p \in Paths, NEW r \in Paths
  PROVE  /\ p \o r \in Paths /\ Len(p \o r) = Len(p) + Len(r)
         /\ \A i \in 1..Len(p) : (p \o r)[i] = p[i]
         /\ \A i \in 1..Len(r) : (p \o r)[Len(p) + i] = r[i]
         /\ IsPrefix(p, p \o r) /\ Len(p) \in Nat /\ Len(r) \in Nat
<1>1. Len(p) \in Nat /\ Len(r) \in Nat /\ p \in Seq(Words) /\ r \in Seq(Words)
  BY DEF Paths
<1>2. /\ p \o r \in Seq(Words) /\ Len(p \o r) = Len(p) + Len(r)
      /\ \A i \in 1..(Len(p) + Len(r)) : (p \o r)[i] = IF i <= Len(p) THEN p[i] ELSE r[i - Len(p)]
  BY <1>1, ConcatProperties
<1>3. \A i \in 1..Len(p) : (p \o r)[i] = p[i]
  BY <1>1, <1>2
<1>4. \A i \in 1..Len(r) : (p \o r)[Len(p) + i] = r[i]
  BY <1>1, <1>2
<1>5. p \o r \in Paths
  BY <1>2 DEF Paths
<1>6. IsPrefix(p, p \o r)
  <2>1. PICK q : q = p \o r
    OBVIOUS
  <2>3. q \in Paths
    BY <1>5, <2>1
  <2>2. Len(p) <= Len(q) /\ \A i \in 1..Len(p) : p[i] = q[i]
    BY <1>1, <1>2, <1>3, <2>1
  <2>4. IsPrefix(p, q)
    BY <2>2, <2>3, PrefixIs
  <2>. QED  BY <2>1, <2>4
<1>. QED  BY <1>1, <1>2, <1>3, <1>4, <1>5, <1>6

Cut(q, m, n) == SubSeq(q, m + 1, m + n)

\* A part of a path, component by component.
LEMMA CutIs ==
  ASSUME NEW q \in Paths, NEW m \in Nat, NEW n \in Nat, m + n <= Len(q)
  PROVE  /\ Cut(q, m, n) \in Paths /\ Len(Cut(q, m, n)) = n
         /\ \A i \in 1..n : Cut(q, m, n)[i] = q[m + i]
<1>. DEFINE a == m + 1
            b == m + n
            sub == SubSeq(q, a, b)
<1>1. Len(q) \in Nat /\ q \in Seq(Words)
  BY DEF Paths
<1>2. \A i \in a..b : q[i] \in Words
  BY <1>1
<1>3. a \in Int /\ b \in Int
  OBVIOUS
<1>4. /\ sub \in Seq(Words) /\ Len(sub) = IF a <= b THEN b - a + 1 ELSE 0
      /\ \A i \in 1..(b - a + 1) : sub[i] = q[a + i - 1]
  <2>. HIDE DEF a, b
  <2>. QED  BY <1>2, <1>3, SubSeqProperties
<1>5. sub = Cut(q, m, n)
  BY DEF Cut
<1>. HIDE DEF sub
<1>6. Len(sub) = n /\ \A i \in 1..n : sub[i] = q[m + i]
  BY <1>4
<1>. QED  BY <1>4, <1>5, <1>6 DEF Paths

\* What is below a directory.
Below(q, p) == SubSeq(q, Len(p) + 1, Len(q))

\* What is below a directory leads back to the path.
LEMMA SuffixIs ==
  ASSUME NEW p \in Paths, NEW q \in Paths, IsPrefix(p, q), NEW rel, rel = Below(q, p)
  PROVE  /\ rel \in Paths /\ q = p \o rel /\ Len(rel) = Len(q) - Len(p)
         /\ \A n \in 0..Len(rel) : Cut(q, Len(p), n) = Cut(rel, 0, n)
<1>1. /\ Len(p) \in Nat /\ Len(q) \in Nat /\ p \in Seq(Words) /\ q \in Seq(Words)
      /\ Len(p) <= Len(q) /\ \A i \in 1..Len(p) : p[i] = q[i]
  BY PrefixIs DEF Paths
<1>3. /\ rel \in Seq(Words) /\ Len(rel) = Len(q) - Len(p)
      /\ \A i \in 1..Len(rel) : rel[i] = q[Len(p) + i]
  <2>1. Len(q) - Len(p) \in Nat
    BY <1>1
  <2>2. PICK n \in Nat : n = Len(q) - Len(p)
    BY <2>1
  <2>3. Len(p) + n <= Len(q) /\ Len(q) = Len(p) + n
    BY <1>1, <2>2
  <2>4. rel = Cut(q, Len(p), n)
    BY <2>3 DEF Cut, Below
  <2>5. /\ Cut(q, Len(p), n) \in Paths /\ Len(Cut(q, Len(p), n)) = n
        /\ \A i \in 1..n : Cut(q, Len(p), n)[i] = q[Len(p) + i]
    BY <1>1, <2>3, CutIs
  <2>. QED  BY <2>2, <2>4, <2>5 DEF Paths
<1>4. q = p \o rel
  <2>1. rel \in Paths
    BY <1>3 DEF Paths
  <2>2. /\ p \o rel \in Seq(Words) /\ Len(p \o rel) = Len(q)
        /\ \A i \in 1..Len(p) : (p \o rel)[i] = p[i]
        /\ \A i \in 1..Len(rel) : (p \o rel)[Len(p) + i] = rel[i]
    BY <1>1, <1>3, <2>1, JoinIs DEF Paths
  <2>3. \A i \in 1..Len(q) : (p \o rel)[i] = q[i]
    <3>. TAKE i \in 1..Len(q)
    <3>1. CASE i <= Len(p)
      BY <1>1, <2>2, <3>1
    <3>2. CASE i > Len(p)
      <4>1. i - Len(p) \in 1..Len(rel) /\ Len(p) + (i - Len(p)) = i
        BY <1>1, <1>3, <3>2
      <4>. QED  BY <1>3, <2>2, <4>1
    <3>3. i <= Len(p) \/ i > Len(p)
      BY <1>1
    <3>. QED  BY <3>1, <3>2, <3>3
  <2>. QED  BY <1>1, <2>2, <2>3, SeqEqual
<1>5. ASSUME NEW n \in 0..Len(rel)
      PROVE  Cut(q, Len(p), n) = Cut(rel, 0, n)
  <2>. DEFINE one == Cut(q, Len(p), n)
              two == Cut(rel, 0, n)
  <2>1. n \in Nat /\ Len(p) + n <= Len(q)
    BY <1>1, <1>3
  <2>2. one \in Paths /\ Len(one) = n /\ \A i \in 1..n : one[i] = q[Len(p) + i]
    BY <1>1, <2>1, CutIs
  <2>3. rel \in Paths /\ 0 \in Nat /\ 0 + n <= Len(rel)
    BY <1>1, <1>3, <2>1 DEF Paths
  <2>4. two \in Paths /\ Len(two) = n /\ \A i \in 1..n : two[i] = rel[0 + i]
    BY <2>1, <2>3, CutIs
  <2>8. one = Cut(q, Len(p), n) /\ two = Cut(rel, 0, n)
    OBVIOUS
  <2>. HIDE DEF one, two
  <2>5. Len(one) = n /\ Len(two) = n
    BY <1>1, <1>3, <2>2, <2>4
  <2>6. \A i \in 1..n : one[i] = two[i]
    <3>. TAKE i \in 1..n
    <3>1. two[i] = rel[i] /\ i \in 1..Len(rel)
      BY <1>1, <1>3, <2>1, <2>4
    <3>2. one[i] = q[Len(p) + i] /\ rel[i] = q[Len(p) + i]
      BY <1>3, <2>2, <3>1
    <3>. QED  BY <3>1, <3>2
  <2>7. one = two
    BY <2>2, <2>4, <2>5, <2>6, SeqEqual DEF Paths
  <2>. QED  BY <2>7, <2>8
<1>. QED  BY <1>3, <1>4, <1>5 DEF Paths

\* The root is a path.
LEMMA EmptyPath == <<>> \in Paths /\ Len(<<>>) = 0
  BY EmptySeq DEF Paths

\* The directory of a path.
LEMMA FrontIs ==
  ASSUME NEW p \in Paths
  PROVE  /\ Front(p) \in Paths /\ \A i \in 1..Len(Front(p)) : i \in 1..Len(p) /\ Front(p)[i] = p[i]
         /\ p # <<>> => Len(Front(p)) = Len(p) - 1
<1>1. Len(p) \in Nat /\ p \in Seq(Words)
  BY DEF Paths
<1>2. CASE Len(p) = 0
  <2>1. p = <<>>
    BY <1>1, <1>2, EmptySeq
  <2>2. Front(p) = <<>>
    <3>1. 1 \in Int /\ Len(p) - 1 \in Int /\ Len(p) - 1 < 1
      BY <1>2
    <3>. QED  BY <3>1, SubSeqEmpty DEF Front
  <2>. QED  BY <2>1, <2>2, EmptyPath
<1>3. CASE Len(p) # 0
  <2>1. Len(p) - 1 \in Nat
    BY <1>1, <1>3
  <2>2. PICK n \in Nat : n = Len(p) - 1
    BY <2>1
  <2>3. 0 \in Nat /\ 0 + n <= Len(p) /\ Len(p) = n + 1
    BY <1>1, <2>2
  <2>4. Cut(p, 0, n) \in Paths /\ Len(Cut(p, 0, n)) = n /\ \A i \in 1..n : Cut(p, 0, n)[i] = p[0 + i]
    BY <2>3, CutIs
  <2>5. Front(p) = Cut(p, 0, n)
    BY <2>2 DEF Front, Cut
  <2>. QED  BY <2>2, <2>3, <2>4, <2>5
<1>. QED  BY <1>2, <1>3

\* Paths without `..`.
Plains == {p \in Paths : \A i \in 1..Len(p) : p[i] # ".."}

\* Entering a component leaves no `..`.
LEMMA EnteredIs ==
  ASSUME NEW path \in Plains, NEW c \in Words
  PROVE  Entered(path, c) \in Plains
<1>1. path \in Paths /\ Len(path) \in Nat /\ path \in Seq(Words) /\ \A i \in 1..Len(path) : path[i] # ".."
  BY DEF Plains, Paths
<1>2. CASE c = "."
  BY <1>2 DEF Entered
<1>3. CASE c = ".."
  <2>1. Front(path) \in Plains
    BY <1>1, FrontIs DEF Plains
  <2>. QED  BY <1>3, <2>1 DEF Entered
<1>4. CASE c # "." /\ c # ".."
  <2>1. Append(path, c) \in Seq(Words) /\ Len(Append(path, c)) = Len(path) + 1
    BY <1>1
  <2>2. \A i \in 1..(Len(path) + 1) : Append(path, c)[i] # ".."
    BY <1>1, <1>4
  <2>3. Append(path, c) \in Plains
    BY <2>1, <2>2 DEF Plains, Paths
  <2>. QED  BY <1>4, <2>3 DEF Entered
<1>. QED  BY <1>2, <1>3, <1>4


\* A normalized path has no `..` (normalize_lexically()).
LEMMA NormalizedIs ==
  ASSUME NEW parts \in Paths
  PROVE  Normalized(parts) \in Plains
<1>. DEFINE N == Len(parts)
            Step(f, n) == f = [k \in 0..n |-> IF k = 0 THEN <<>> ELSE Entered(f[k - 1], parts[k])]
            T == {n \in Nat : \E f : Step(f, n)}
<1>1. N \in Nat /\ parts \in Seq(Words)
  BY DEF Paths
<1>2. 0 \in T
  <2>. DEFINE f == [k \in 0..0 |-> <<>>]
  <2>1. f = [k \in 0..0 |-> IF k = 0 THEN <<>> ELSE Entered(f[k - 1], parts[k])]
    OBVIOUS
  <2>. QED  BY <2>1
<1>3. \A n \in Nat : n \in T => n + 1 \in T
  <2>. SUFFICES ASSUME NEW n \in Nat, n \in T PROVE n + 1 \in T
    OBVIOUS
  <2>0. PICK f : Step(f, n)
    <3>. HIDE DEF Step
    <3>. QED  OBVIOUS
  <2>. DEFINE g == [k \in 0..(n + 1) |-> IF k \in 0..n THEN f[k] ELSE Entered(f[n], parts[n + 1])]
  <2>1. \A k \in 0..(n + 1) : g[k] = IF k = 0 THEN <<>> ELSE Entered(g[k - 1], parts[k])
    <3>. SUFFICES ASSUME NEW k \in 0..(n + 1)
                  PROVE  g[k] = IF k = 0 THEN <<>> ELSE Entered(g[k - 1], parts[k])
      OBVIOUS
    <3>1. CASE k \in 0..n
      <4>1. g[k] = f[k] /\ f[k] = IF k = 0 THEN <<>> ELSE Entered(f[k - 1], parts[k])
        BY <2>0, <3>1
      <4>2. k # 0 => k - 1 \in 0..n /\ g[k - 1] = f[k - 1]
        BY <3>1
      <4>. QED  BY <4>1, <4>2
    <3>2. CASE k = n + 1
      <4>1. k \notin 0..n /\ k # 0 /\ k - 1 = n /\ n \in 0..n /\ n \in 0..(n + 1)
        BY <3>2
      <4>2. g[k] = Entered(f[n], parts[k]) /\ g[k - 1] = f[n]
        BY <3>2, <4>1
      <4>. QED  BY <4>1, <4>2
    <3>. QED  BY <3>1, <3>2
  <2>2. g = [k \in 0..(n + 1) |-> g[k]]
    OBVIOUS
  <2>. HIDE DEF g
  <2>3. Step(g, n + 1)
    BY <2>1, <2>2
  <2>4. n + 1 \in Nat
    OBVIOUS
  <2>. HIDE DEF Step
  <2>. QED  BY <2>3, <2>4
<1>4. \E f : Step(f, N)
  <2>. HIDE DEF T
  <2>1. Nat \subseteq T
    BY <1>2, <1>3, Induct
  <2>. QED  BY <1>1, <2>1 DEF T
<1>. DEFINE upto == CHOOSE f : Step(f, N)
<1>5. Normalized(parts) = upto[N]
  BY DEF Normalized
<1>6. Step(upto, N)
  BY <1>4
<1>. HIDE DEF upto
<1>7. \A k \in 0..N : upto[k] = IF k = 0 THEN <<>> ELSE Entered(upto[k - 1], parts[k])
  BY <1>6
<1>. DEFINE U == {n \in Nat : n <= N => upto[n] \in Plains}
<1>8. 0 \in U
  BY <1>1, <1>7, EmptyPath DEF Plains
<1>9. \A n \in Nat : n \in U => n + 1 \in U
  <2>. SUFFICES ASSUME NEW n \in Nat, n \in U, n + 1 <= N PROVE upto[n + 1] \in Plains
    OBVIOUS
  <2>1. n <= N /\ n + 1 \in 0..N /\ n + 1 # 0 /\ (n + 1) - 1 = n
    BY <1>1
  <2>2. upto[n] \in Plains
    BY <2>1
  <2>3. upto[n + 1] = Entered(upto[n], parts[n + 1])
    BY <1>7, <2>1
  <2>4. parts[n + 1] \in Words
    BY <1>1, <2>1
  <2>. QED  BY <2>2, <2>3, <2>4, EnteredIs
<1>10. Nat \subseteq U
  <2>. HIDE DEF U
  <2>. QED  BY <1>8, <1>9, Induct
<1>. QED  BY <1>1, <1>5, <1>10

-----------------------------------------------------------------------------
(* Collecting.                                                             *)

\* A bounded set of numbers has its maximum.
LEMMA MaxIs ==
  ASSUME NEW m \in Nat, NEW S \in SUBSET (0..m), S # {}
  PROVE  Max(S) \in S
<1>. DEFINE D == {d \in Nat : m - d \in S}
<1>1. D \in SUBSET Nat /\ D # {}
  <2>1. PICK x \in S : TRUE
    OBVIOUS
  <2>2. m - x \in Nat /\ m - (m - x) = x
    BY <2>1
  <2>. QED  BY <2>1, <2>2
<1>2. PICK d \in D : \A e \in D : d <= e
  <2>. HIDE DEF D
  <2>. QED  BY <1>1, LeastNatural
<1>3. m - d \in S /\ d \in Nat
  BY <1>2
<1>4. \A y \in S : m - d >= y
  <2>. TAKE y \in S
  <2>1. y \in Nat /\ m - y \in Nat /\ m - (m - y) = y
    OBVIOUS
  <2>2. m - y \in D
    BY <2>1
  <2>3. d <= m - y
    BY <1>2, <2>2
  <2>. QED  BY <1>3, <2>1, <2>3
<1>. QED  BY <1>3, <1>4 DEF Max

HostOf(text, base) == SplitGlob(Resolved(text, base)).host

\* A path that a kitchen file names is resolved to one without `..`.
LEMMA ResolvedIs ==
  ASSUME NEW text, text.parts \in Paths, Resolvable(text), NEW base \in Paths
  PROVE  Resolved(text, base) \in Plains
<1>. DEFINE start == CASE text.from = "abs" -> <<>> [] text.from = "home" -> Home [] OTHER -> base
<1>1. start \in Paths
  BY EmptyPath, HomeAssumption, PathsAre DEF Resolvable
<1>2. start \o text.parts \in Paths
  <2>. HIDE DEF start
  <2>. QED  BY <1>1, JoinIs
<1>. QED  BY <1>2, NormalizedIs DEF Resolved

\* So is the directory that a pattern searches.
LEMMA HostIs ==
  ASSUME NEW text, text.parts \in Paths, Resolvable(text), NEW base \in Paths
  PROVE  HostOf(text, base) \in Plains
<1>. DEFINE path == Resolved(text, base)
            plain == {n \in 0..Len(path) : \A i \in 1..n : path[i] \notin Globs}
<1>3. path \in Plains
  BY ResolvedIs
<1>4. HostOf(text, base) = SubSeq(path, 1, Max(plain))
  BY DEF HostOf, SplitGlob
<1>. HIDE DEF path
<1>5. path \in Paths /\ Len(path) \in Nat /\ \A i \in 1..Len(path) : path[i] # ".."
  BY <1>3 DEF Plains, Paths
<1>6. 0 \in plain /\ plain \in SUBSET (0..Len(path))
  BY <1>5
<1>. HIDE DEF plain
<1>7. Max(plain) \in 0..Len(path)
  BY <1>5, <1>6, MaxIs
<1>8. PICK n \in Nat : n = Max(plain) /\ n <= Len(path)
  BY <1>5, <1>7
<1>9. 0 \in Nat /\ 0 + n <= Len(path)
  BY <1>8
<1>10. Cut(path, 0, n) \in Paths /\ Len(Cut(path, 0, n)) = n /\ \A i \in 1..n : Cut(path, 0, n)[i] = path[0 + i]
  BY <1>5, <1>9, CutIs
<1>11. HostOf(text, base) = Cut(path, 0, n)
  BY <1>4, <1>8 DEF Cut
<1>12. \A i \in 1..n : i \in 1..Len(path) /\ path[0 + i] # ".."
  BY <1>5, <1>8
<1>. QED  BY <1>10, <1>11, <1>12 DEF Plains

\* A source is at the host path of a request.
Source(s, R, base, dir) ==
  /\ s = [host |-> s.host, guest |-> s.guest, exclude |-> s.exclude, git |-> s.git, root |-> s.root]
  /\ s.host \in Plains /\ s.guest = GuestPath(s.host, dir)
  /\ \E r \in R : HostOf(r.text, base) = s.host

\* Requests for one host path exclude the same.
Agreed(R, base) ==
  \A r, q \in R : HostOf(r.text, base) = HostOf(q.text, base) => r.exclude = q.exclude

\* Some request leaves in whatever the source does.
Asked(s, R, base) ==
  \E r \in R : HostOf(r.text, base) = s.host /\ r.exclude = s.exclude /\ (r.git => s.git)

Collection(c, R, base, dir) ==
  /\ c = [sources |-> c.sources, rewrites |-> c.rewrites, errors |-> c.errors]
  /\ \A s \in c.sources : Source(s, R, base, dir)
  /\ Agreed(R, base) => \A s \in c.sources : Asked(s, R, base)
  /\ \A w \in c.rewrites : w.action # "remove" => \E s \in c.sources : s.guest = w.to

\* A source for two requests keeps its host and guest path.
LEMMA FieldsReplaced ==
  ASSUME NEW e, NEW g, NEW t, NEW s,
         s = [host |-> s.host, guest |-> s.guest, exclude |-> s.exclude, git |-> s.git, root |-> s.root]
  PROVE  [s EXCEPT !.root = t, !.exclude = e, !.git = g]
           = [host |-> s.host, guest |-> s.guest, exclude |-> e, git |-> g, root |-> t]
<1>1. PICK r : r = [s EXCEPT !.root = t, !.exclude = e, !.git = g]
  OBVIOUS
<1>2. r = [host |-> s.host, guest |-> s.guest, exclude |-> e, git |-> g, root |-> t]
  BY <1>1
<1>. QED  BY <1>1, <1>2

\* Collector::add() keeps a Collection.
LEMMA AddKeeps ==
  ASSUME NEW R, NEW base \in Paths, NEW dir, NEW c, Collection(c, R, base, dir),
         NEW request \in R, request.text.parts \in Paths
  PROVE  Collection(Add(c, request, base, dir), R, base, dir)
<1>. DEFINE split == SplitGlob(Resolved(request.text, base))
            host == split.host
            guest == GuestPath(host, dir)
            known == {s \in c.sources : s.host = host}
            rewritten == c.rewrites
              \cup {[slot |-> request.slot, action |-> request.action, to |-> guest, rest |-> split.pattern]}
              \cup (IF Drops(request) THEN {[slot |-> [request.slot EXCEPT ![3] = "manifest"],
                                            action |-> "remove", to |-> <<>>, rest |-> <<>>]} ELSE {})
            Merged(s) == [s EXCEPT !.root = @ \/ request.root,
                                   !.exclude = IF @ = request.exclude THEN @ ELSE <<>>,
                                   !.git = @ /\ request.git]
            merged == (c.sources \ known) \cup {Merged(s) : s \in known}
            new == [host |-> host, guest |-> guest, exclude |-> request.exclude,
                    git |-> request.git, root |-> request.root]
            added == c.sources \cup {new}
            result == Add(c, request, base, dir)
<1>1. CASE ~Resolvable(request.text)
  <2>1. result = [c EXCEPT !.errors = @ \cup {"dotfiles"}]
    BY <1>1 DEF Add
  <2>2. /\ result = [sources |-> result.sources, rewrites |-> result.rewrites, errors |-> result.errors]
        /\ result.sources = c.sources /\ result.rewrites = c.rewrites
    <3>1. PICK e : e = c.errors \cup {"dotfiles"}
      OBVIOUS
    <3>2. result = [sources |-> c.sources, rewrites |-> c.rewrites, errors |-> e]
      BY <2>1, <3>1 DEF Collection
    <3>. HIDE DEF result
    <3>. QED  BY <3>2
  <2>. HIDE DEF result
  <2>3. Collection(result, R, base, dir)
    BY <2>2 DEF Collection
  <2>. QED  BY <2>3 DEF result
<1>2. CASE Resolvable(request.text)
  <2>1. host = HostOf(request.text, base) /\ host \in Plains
    BY <1>2, HostIs DEF HostOf
  <2>2. result = IF known # {} THEN [c EXCEPT !.rewrites = rewritten, !.sources = merged]
                 ELSE IF \E s \in c.sources : s.guest = guest
                 THEN [c EXCEPT !.errors = @ \cup {"dotfiles"}]
                 ELSE [c EXCEPT !.rewrites = rewritten, !.sources = added]
    BY <1>2 DEF Add
  <2>3. \A w \in rewritten : w.action # "remove" => w \in c.rewrites \/ w.to = guest
    OBVIOUS
  <2>4. \A s \in known : /\ Merged(s).host = s.host /\ Merged(s).guest = s.guest
                         /\ Merged(s).exclude = IF s.exclude = request.exclude THEN s.exclude ELSE <<>>
                         /\ Merged(s).git = (s.git /\ request.git)
                         /\ Merged(s) = [host |-> Merged(s).host, guest |-> Merged(s).guest,
                              exclude |-> Merged(s).exclude, git |-> Merged(s).git, root |-> Merged(s).root]
    <3>. TAKE s \in known
    <3>1. PICK e, g, t : /\ e = IF s.exclude = request.exclude THEN s.exclude ELSE <<>>
                         /\ g = (s.git /\ request.git) /\ t = (s.root \/ request.root)
      OBVIOUS
    <3>2. s = [host |-> s.host, guest |-> s.guest, exclude |-> s.exclude, git |-> s.git, root |-> s.root]
      BY DEF Collection, Source
    <3>3. Merged(s) = [s EXCEPT !.root = t, !.exclude = e, !.git = g]
      BY <3>1, <3>2
    <3>4. Merged(s) = [host |-> s.host, guest |-> s.guest, exclude |-> e, git |-> g, root |-> t]
      <4>. HIDE DEF Merged, known
      <4>. QED  BY <3>2, <3>3, FieldsReplaced
    <3>. QED  BY <3>1, <3>4
  <2>5. \A s \in known : Source(Merged(s), R, base, dir)
    <3>. HIDE DEF Merged
    <3>1. \A s \in known : Source(s, R, base, dir)
      BY DEF Collection
    <3>. QED  BY <2>4, <3>1 DEF Source
  <2>6. ASSUME Agreed(R, base) PROVE \A s \in known : Asked(Merged(s), R, base)
    <3>. SUFFICES ASSUME NEW s \in known PROVE Asked(Merged(s), R, base)
      OBVIOUS
    <3>1. PICK r \in R : HostOf(r.text, base) = s.host /\ r.exclude = s.exclude /\ (r.git => s.git)
      BY <2>6 DEF Collection, Asked
    <3>2. s.host = host
      OBVIOUS
    <3>3. r.exclude = request.exclude
      BY <2>1, <2>6, <3>1, <3>2 DEF Agreed
    <3>4. /\ Merged(s).host = s.host /\ Merged(s).exclude = s.exclude
          /\ Merged(s).git = (s.git /\ request.git)
      BY <2>4, <3>1, <3>3
    <3>. HIDE DEF Merged, known, host
    <3>5. CASE s.git
      BY <2>1, <3>1, <3>2, <3>3, <3>4, <3>5 DEF Asked
    <3>6. CASE ~s.git
      BY <3>1, <3>4, <3>6 DEF Asked
    <3>. QED  BY <3>5, <3>6
  <2>7. Source(new, R, base, dir) /\ Asked(new, R, base)
    <3>1. /\ new.host = host /\ new.guest = guest /\ new.exclude = request.exclude
          /\ new.git = request.git /\ new.root = request.root
      OBVIOUS
    <3>2. new = [host |-> new.host, guest |-> new.guest, exclude |-> new.exclude, git |-> new.git,
                 root |-> new.root]
      OBVIOUS
    <3>. HIDE DEF new
    <3>. QED  BY <2>1, <3>1, <3>2 DEF Source, Asked
  <2>8. \A s \in known : s.guest = guest
    BY DEF Collection, Source
  <2>9. CASE known # {}
    <3>1. /\ result = [sources |-> result.sources, rewrites |-> result.rewrites, errors |-> result.errors]
          /\ result.sources = merged /\ result.rewrites = rewritten
      <4>1. result = [c EXCEPT !.rewrites = rewritten, !.sources = merged]
        BY <2>2, <2>9
      <4>. HIDE DEF result, merged, rewritten
      <4>2. result = [sources |-> merged, rewrites |-> rewritten, errors |-> c.errors]
        BY <4>1 DEF Collection
      <4>. QED  BY <4>2
    <3>2. \A s \in merged : Source(s, R, base, dir)
      <4>. HIDE DEF Merged, known
      <4>. QED  BY <2>5 DEF Collection
    <3>3. Agreed(R, base) => \A s \in merged : Asked(s, R, base)
      <4>. HIDE DEF Merged, known
      <4>. QED  BY <2>6 DEF Collection
    <3>4. \A s \in c.sources : \E t \in merged : t.guest = s.guest
      <4>. SUFFICES ASSUME NEW s \in c.sources PROVE \E t \in merged : t.guest = s.guest
        OBVIOUS
      <4>1. CASE s \in known
        <5>1. Merged(s) \in merged /\ Merged(s).guest = s.guest
          BY <2>4, <4>1
        <5>. QED  BY <5>1
      <4>2. CASE s \notin known
        BY <4>2
      <4>. QED  BY <4>1, <4>2
    <3>5. \A w \in rewritten : w.action # "remove" => \E s \in merged : s.guest = w.to
      <4>. SUFFICES ASSUME NEW w \in rewritten, w.action # "remove" PROVE \E s \in merged : s.guest = w.to
        OBVIOUS
      <4>1. \E s \in c.sources : s.guest = w.to
        <5>. HIDE DEF rewritten, guest
        <5>1. CASE w \in c.rewrites
          BY <5>1 DEF Collection
        <5>2. CASE w.to = guest
          <6>1. PICK s \in known : TRUE
            BY <2>9
          <6>. QED  BY <2>8, <5>2, <6>1
        <5>. QED  BY <2>3, <5>1, <5>2
      <4>. HIDE DEF merged
      <4>. QED  BY <3>4, <4>1
    <3>. HIDE DEF result, merged, rewritten
    <3>6. Collection(result, R, base, dir)
      BY <3>1, <3>2, <3>3, <3>5 DEF Collection
    <3>. QED  BY <3>6 DEF result
  <2>10. CASE known = {} /\ \E s \in c.sources : s.guest = guest
    <3>1. PICK e : e = c.errors \cup {"dotfiles"}
      OBVIOUS
    <3>2. result = [sources |-> c.sources, rewrites |-> c.rewrites, errors |-> e]
      <4>1. result = [c EXCEPT !.errors = @ \cup {"dotfiles"}]
        BY <2>2, <2>10
      <4>. QED  BY <3>1, <4>1 DEF Collection
    <3>. HIDE DEF result
    <3>3. Collection(result, R, base, dir)
      BY <3>2 DEF Collection
    <3>. QED  BY <3>3 DEF result
  <2>11. CASE known = {} /\ ~\E s \in c.sources : s.guest = guest
    <3>1. /\ result = [sources |-> result.sources, rewrites |-> result.rewrites, errors |-> result.errors]
          /\ result.sources = added /\ result.rewrites = rewritten
      <4>1. result = [c EXCEPT !.rewrites = rewritten, !.sources = added]
        BY <2>2, <2>11
      <4>. HIDE DEF result, added, rewritten
      <4>2. result = [sources |-> added, rewrites |-> rewritten, errors |-> c.errors]
        BY <4>1 DEF Collection
      <4>. QED  BY <4>2
    <3>2. \A s \in added : Source(s, R, base, dir)
      <4>. HIDE DEF new
      <4>. QED  BY <2>7 DEF Collection
    <3>3. Agreed(R, base) => \A s \in added : Asked(s, R, base)
      <4>. HIDE DEF new
      <4>. QED  BY <2>7 DEF Collection
    <3>4. new \in added /\ new.guest = guest
      OBVIOUS
    <3>5. \A w \in rewritten : w.action # "remove" => \E s \in added : s.guest = w.to
      <4>. HIDE DEF rewritten, new, guest
      <4>. QED  BY <2>3, <3>4 DEF Collection
    <3>. HIDE DEF result, added, rewritten
    <3>6. Collection(result, R, base, dir)
      BY <3>1, <3>2, <3>3, <3>5 DEF Collection
    <3>. QED  BY <3>6 DEF result
  <2>. QED  BY <2>9, <2>10, <2>11
<1>. QED  BY <1>1, <1>2

\* A function on the first naturals is a sequence, of what it holds.
LEMMA SequenceOf ==
  ASSUME NEW S, NEW n \in Nat, NEW f, Function(f), DOMAIN f = 1..n, \A i \in 1..n : f[i] \in S
  PROVE  f \in Seq(S) /\ Len(f) = n
<1>1. f \in [1..n -> S]
  BY DEF Function
<1>2. f \in Seq(S)
  BY <1>1, SeqDef
<1>. QED  BY <1>2, LenProperties

\* A sequence holds what is in its range.
LEMMA SequenceIs ==
  ASSUME NEW S, NEW q \in Seq(S)
  PROVE  /\ Len(q) \in Nat /\ DOMAIN q = 1..Len(q) /\ Function(q)
         /\ q \in Seq(Range(q)) /\ Range(q) \subseteq S
<1>1. Len(q) \in Nat /\ DOMAIN q = 1..Len(q) /\ q \in [1..Len(q) -> S]
  BY LenProperties
<1>2. Function(q) /\ \A i \in 1..Len(q) : q[i] \in Range(q) /\ q[i] \in S
  BY <1>1 DEF Function, Range
<1>3. q \in Seq(Range(q))
  BY <1>1, <1>2, SequenceOf
<1>4. Range(q) \subseteq S
  BY <1>1 DEF Range
<1>. QED  BY <1>1, <1>2, <1>3, <1>4

\* Sequences end to end.
LEMMA JoinedIs ==
  ASSUME NEW S, NEW parts, Len(parts) \in Nat, \A i \in 1..Len(parts) : parts[i] \in Seq(S)
  PROVE  Joined(parts) \in Seq(S)
<1>. DEFINE N == Len(parts)
            Step(f, n) == f = [k \in 0..n |-> IF k = 0 THEN <<>> ELSE f[k - 1] \o parts[k]]
            T == {n \in Nat : \E f : Step(f, n)}
<1>2. 0 \in T
  <2>. DEFINE f == [k \in 0..0 |-> <<>>]
  <2>1. f = [k \in 0..0 |-> IF k = 0 THEN <<>> ELSE f[k - 1] \o parts[k]]
    OBVIOUS
  <2>. QED  BY <2>1
<1>3. \A n \in Nat : n \in T => n + 1 \in T
  <2>. SUFFICES ASSUME NEW n \in Nat, n \in T PROVE n + 1 \in T
    OBVIOUS
  <2>0. PICK f : Step(f, n)
    <3>. HIDE DEF Step
    <3>. QED  OBVIOUS
  <2>. DEFINE g == [k \in 0..(n + 1) |-> IF k \in 0..n THEN f[k] ELSE f[n] \o parts[n + 1]]
  <2>1. \A k \in 0..(n + 1) : g[k] = IF k = 0 THEN <<>> ELSE g[k - 1] \o parts[k]
    <3>. SUFFICES ASSUME NEW k \in 0..(n + 1)
                  PROVE  g[k] = IF k = 0 THEN <<>> ELSE g[k - 1] \o parts[k]
      OBVIOUS
    <3>1. CASE k \in 0..n
      <4>1. g[k] = f[k] /\ f[k] = IF k = 0 THEN <<>> ELSE f[k - 1] \o parts[k]
        BY <2>0, <3>1
      <4>2. k # 0 => k - 1 \in 0..n /\ g[k - 1] = f[k - 1]
        BY <3>1
      <4>. QED  BY <4>1, <4>2
    <3>2. CASE k = n + 1
      <4>1. k \notin 0..n /\ k # 0 /\ k - 1 = n /\ n \in 0..n /\ n \in 0..(n + 1)
        BY <3>2
      <4>2. g[k] = f[n] \o parts[k] /\ g[k - 1] = f[n]
        BY <3>2, <4>1
      <4>. QED  BY <4>1, <4>2
    <3>. QED  BY <3>1, <3>2
  <2>2. g = [k \in 0..(n + 1) |-> g[k]]
    OBVIOUS
  <2>. HIDE DEF g
  <2>3. Step(g, n + 1)
    BY <2>1, <2>2
  <2>4. n + 1 \in Nat
    OBVIOUS
  <2>. HIDE DEF Step
  <2>. QED  BY <2>3, <2>4
<1>4. \E f : Step(f, N)
  <2>. HIDE DEF T
  <2>1. Nat \subseteq T
    BY <1>2, <1>3, Induct
  <2>. QED  BY <2>1 DEF T
<1>. DEFINE upto == CHOOSE f : Step(f, N)
<1>5. Joined(parts) = upto[N]
  BY DEF Joined
<1>6. Step(upto, N)
  BY <1>4
<1>. HIDE DEF upto
<1>7. \A k \in 0..N : upto[k] = IF k = 0 THEN <<>> ELSE upto[k - 1] \o parts[k]
  BY <1>6
<1>. DEFINE U == {n \in Nat : n <= N => upto[n] \in Seq(S)}
<1>8. 0 \in U
  <2>1. upto[0] = <<>>
    BY <1>7
  <2>2. <<>> \in Seq(S)
    BY EmptySeq
  <2>. QED  BY <2>1, <2>2
<1>9. \A n \in Nat : n \in U => n + 1 \in U
  <2>. SUFFICES ASSUME NEW n \in Nat, n \in U, n + 1 <= N PROVE upto[n + 1] \in Seq(S)
    OBVIOUS
  <2>1. n <= N /\ n + 1 \in 0..N /\ n + 1 \in 1..N /\ n + 1 # 0 /\ (n + 1) - 1 = n
    OBVIOUS
  <2>2. upto[n] \in Seq(S)
    BY <2>1
  <2>3. upto[n + 1] = upto[n] \o parts[n + 1]
    BY <1>7, <2>1
  <2>4. parts[n + 1] \in Seq(S)
    BY <2>1
  <2>. QED  BY <2>2, <2>3, <2>4, ConcatProperties
<1>10. Nat \subseteq U
  <2>. HIDE DEF U
  <2>. QED  BY <1>8, <1>9, Induct
<1>. QED  BY <1>5, <1>10

\* A sequence of one.
LEMMA SingleIs ==
  ASSUME NEW x PROVE <<x>> \in Seq({x}) /\ Range(<<x>>) = {x}
<1>1. <<x>> \in Seq({x}) /\ DOMAIN <<x>> = {1} /\ <<x>>[1] = x
  OBVIOUS
<1>. QED  BY <1>1 DEF Range

\* What an entry asks for is a sequence.
LEMMA RequestsAre ==
  ASSUME NEW e, (~e.short /\ IsTable(e.value)) => Listed(Get(e.value, "variants"))
  PROVE  Requests(e) \in Seq(Range(Requests(e)))
<1>. DEFINE exclude == Elements(Get(e.value, "exclude"))
            git == Get(e.value, "manifest") = "git"
            variants == Elements(Get(e.value, "variants"))
            listed == [i \in DOMAIN variants |-> [at |-> i, source |-> Get(variants[i], "source")]]
            at == {i \in DOMAIN variants : IsTable(Get(variants[i], "source"))}
            chosen == Kept(listed, at)
            one == IF IsTable(Get(e.value, "source"))
                   THEN <<Ask(e.value.source, <<e.table, e.target, "source">>, exclude, git)>> ELSE <<>>
            rest == [n \in DOMAIN chosen |->
                       Ask(chosen[n].source, <<e.table, e.target, "variants", ToString(chosen[n].at)>>, exclude, git)]
<1>1. CASE e.short
  <2>1. PICK x : x = Ask(e.value, <<e.table, e.target>>, <<>>, FALSE)
    OBVIOUS
  <2>2. Requests(e) = <<x>>
    BY <1>1, <2>1 DEF Requests
  <2>. QED  BY <2>2, SingleIs
<1>2. CASE ~e.short /\ ~IsTable(e.value)
  <2>1. Requests(e) = <<>>
    BY <1>2 DEF Requests
  <2>2. <<>> \in Seq({})
    BY EmptySeq
  <2>. QED  BY <2>1, <2>2, SequenceIs
<1>3. CASE ~e.short /\ IsTable(e.value)
  <2>1. Requests(e) = one \o rest
    BY <1>3 DEF Requests
  <2>2. one \in Seq(Range(one))
    <3>1. PICK x : x = Ask(e.value.source, <<e.table, e.target, "source">>, exclude, git)
      OBVIOUS
    <3>2. one = <<x>> \/ one = <<>>
      BY <3>1
    <3>3. <<>> \in Seq({})
      BY EmptySeq
    <3>. HIDE DEF one
    <3>. QED  BY <3>2, <3>3, SingleIs, SequenceIs
  <2>3. rest \in Seq(Range(rest))
    <3>1. Positions(at)
      <4>1. Len(variants) \in Nat /\ DOMAIN variants = 1..Len(variants)
        BY <1>3, ListIs
      <4>. HIDE DEF variants
      <4>. QED  BY <4>1 DEF Positions
    <3>2. Cardinality(at) \in Nat /\ DOMAIN chosen = 1..Cardinality(at)
      <4>. HIDE DEF at, listed
      <4>. QED  BY <3>1, KeptIs
    <3>3. Function(rest) /\ DOMAIN rest = 1..Cardinality(at)
      <4>. HIDE DEF chosen, at
      <4>. QED  BY <3>2 DEF Function
    <3>. HIDE DEF rest, at
    <3>4. \A i \in 1..Cardinality(at) : rest[i] \in Range(rest)
      BY <3>3 DEF Range
    <3>. QED  BY <3>2, <3>3, <3>4, SequenceOf
  <2>. DEFINE S == Range(one) \cup Range(rest)
  <2>4. one \in Seq(S) /\ rest \in Seq(S)
    <3>. HIDE DEF one, rest
    <3>1. /\ Len(one) \in Nat /\ DOMAIN one = 1..Len(one) /\ Function(one)
          /\ Len(rest) \in Nat /\ DOMAIN rest = 1..Len(rest) /\ Function(rest)
      BY <2>2, <2>3, SequenceIs
    <3>2. /\ \A i \in 1..Len(one) : one[i] \in S
          /\ \A i \in 1..Len(rest) : rest[i] \in S
      BY <3>1 DEF Range
    <3>. HIDE DEF S
    <3>. QED  BY <3>1, <3>2, SequenceOf
  <2>. HIDE DEF S, one, rest
  <2>5. one \o rest \in Seq(S)
    BY <2>4, ConcatProperties
  <2>. QED  BY <2>1, <2>5, SequenceIs
<1>. QED  BY <1>1, <1>2, <1>3

\* The entries, and what each asks for.
Entries(text) == Range(text.entries)
RootOf(text, dotfiles) == IF IsTable(dotfiles) THEN dotfiles ELSE text.root
AsksRoot(r, root) == IsTable(root) /\ r.text = root /\ r.exclude = <<>> /\ r.git = FALSE

\* What plan() goes through: what the entries ask for, and the dotfiles' root.
LEMMA AllRequestsAre ==
  ASSUME NEW text, NEW dotfiles, text.entries \in Seq(Range(text.entries)),
         \A e \in Entries(text) : Requests(e) \in Seq(Range(Requests(e)))
  PROVE  /\ AllRequests(text, dotfiles) \in Seq(Range(AllRequests(text, dotfiles)))
         /\ \A r \in Range(AllRequests(text, dotfiles)) :
              (\E e \in Entries(text) : r \in Range(Requests(e))) \/ AsksRoot(r, RootOf(text, dotfiles))
<1>. DEFINE all == AllRequests(text, dotfiles)
            root == RootOf(text, dotfiles)
            entriesOf(table) ==
              Kept(text.entries, {i \in DOMAIN text.entries : text.entries[i].table = table})
            tables == [i \in DOMAIN FileTables |-> entriesOf(FileTables[i])]
            entries == Joined(tables)
            requests == [i \in DOMAIN entries |-> Requests(entries[i])]
            roots == IF ~IsTable(root) THEN <<>>
                     ELSE <<[Ask(root, RootSlot, <<>>, FALSE) EXCEPT
                               !.root = TRUE, !.action = IF IsTable(dotfiles) THEN "ensure" ELSE "set"]>>
            S == UNION {Range(Requests(e)) : e \in Entries(text)}
<1>1. all = Joined(requests) \o roots
  BY DEF AllRequests, RootOf
<1>. HIDE DEF root, all
<1>2. ASSUME NEW table PROVE entriesOf(table) \in Seq(Entries(text))
  <2>. DEFINE at == {i \in DOMAIN text.entries : text.entries[i].table = table}
              kept == entriesOf(table)
  <2>1. Len(text.entries) \in Nat /\ DOMAIN text.entries = 1..Len(text.entries)
    BY SequenceIs
  <2>2. Positions(at)
    BY <2>1 DEF Positions
  <2>3. at \subseteq DOMAIN text.entries
    OBVIOUS
  <2>. HIDE DEF at
  <2>4. kept = Kept(text.entries, at)
    BY DEF at
  <2>. HIDE DEF kept
  <2>8. /\ Cardinality(at) \in Nat /\ DOMAIN kept = 1..Cardinality(at) /\ Function(kept)
        /\ \A n \in DOMAIN kept : \E i \in at : kept[n] = text.entries[i]
    BY <2>2, <2>4, KeptIs
  <2>5. \A n \in 1..Cardinality(at) : kept[n] \in Entries(text)
    BY <2>3, <2>8 DEF Entries, Range
  <2>6. kept \in Seq(Entries(text))
    BY <2>5, <2>8, SequenceOf
  <2>. QED  BY <2>6 DEF kept
<1>3. entries \in Seq(Entries(text))
  <2>1. DOMAIN FileTables = 1..3
    BY DEF FileTables
  <2>2. Function(tables) /\ DOMAIN tables = 1..3 /\ \A i \in 1..3 : tables[i] \in Seq(Entries(text))
    BY <1>2, <2>1 DEF Function
  <2>. HIDE DEF tables
  <2>3. Len(tables) = 3 /\ Len(tables) \in Nat
    BY <2>2, SequenceOf
  <2>4. \A i \in 1..Len(tables) : tables[i] \in Seq(Entries(text))
    BY <2>2, <2>3
  <2>. QED  BY <2>3, <2>4, JoinedIs
<1>. HIDE DEF entries
<1>4. Joined(requests) \in Seq(S)
  <2>1. Len(entries) \in Nat /\ DOMAIN entries = 1..Len(entries) /\ Range(entries) \subseteq Entries(text)
    BY <1>3, SequenceIs
  <2>2. \A i \in 1..Len(entries) : entries[i] \in Entries(text)
    BY <2>1 DEF Range
  <2>3. \A e \in Entries(text) : Requests(e) \in Seq(S)
    <3>. SUFFICES ASSUME NEW e \in Entries(text) PROVE Requests(e) \in Seq(S)
      OBVIOUS
    <3>1. /\ Len(Requests(e)) \in Nat /\ DOMAIN Requests(e) = 1..Len(Requests(e)) /\ Function(Requests(e))
          /\ Range(Requests(e)) \subseteq S
      BY SequenceIs
    <3>2. \A i \in 1..Len(Requests(e)) : Requests(e)[i] \in S
      BY <3>1 DEF Range
    <3>. HIDE DEF S
    <3>. QED  BY <3>1, <3>2, SequenceOf
  <2>4. /\ Function(requests) /\ DOMAIN requests = 1..Len(entries)
        /\ \A i \in 1..Len(entries) : requests[i] \in Seq(S)
    BY <2>1, <2>2, <2>3 DEF Function
  <2>. HIDE DEF requests, S
  <2>5. Len(requests) = Len(entries)
    BY <2>1, <2>4, SequenceOf
  <2>. QED  BY <2>1, <2>4, <2>5, JoinedIs
<1>5. PICK x : x = [Ask(root, RootSlot, <<>>, FALSE) EXCEPT
                     !.root = TRUE, !.action = IF IsTable(dotfiles) THEN "ensure" ELSE "set"]
  OBVIOUS
<1>6. x.text = root /\ x.exclude = <<>> /\ x.git = FALSE
  BY <1>5 DEF Ask
<1>7. roots = IF IsTable(root) THEN <<x>> ELSE <<>>
  BY <1>5
<1>8. Joined(requests) \o roots \in Seq(S \cup (IF IsTable(root) THEN {x} ELSE {}))
  <2>. HIDE DEF requests, S, roots
  <2>. DEFINE both == S \cup (IF IsTable(root) THEN {x} ELSE {})
  <2>1. roots \in Seq(both)
    <3>1. <<>> \in Seq(both)
      BY EmptySeq
    <3>2. CASE IsTable(root)
      <4>1. x \in both
        BY <3>2
      <4>. QED  BY <1>7, <3>2, <4>1
    <3>. QED  BY <1>7, <3>1, <3>2
  <2>2. Joined(requests) \in Seq(both)
    <3>1. /\ Len(Joined(requests)) \in Nat /\ DOMAIN Joined(requests) = 1..Len(Joined(requests))
          /\ Function(Joined(requests)) /\ Range(Joined(requests)) \subseteq both
      BY <1>4, SequenceIs
    <3>2. \A i \in 1..Len(Joined(requests)) : Joined(requests)[i] \in both
      BY <3>1 DEF Range
    <3>. HIDE DEF both
    <3>. QED  BY <3>1, <3>2, SequenceOf
  <2>. QED  BY <2>1, <2>2, ConcatProperties
<1>9. all \in Seq(Range(all)) /\ Range(all) \subseteq S \cup (IF IsTable(root) THEN {x} ELSE {})
  <2>. HIDE DEF S, roots, requests
  <2>. QED  BY <1>1, <1>8, SequenceIs
<1>. QED  BY <1>6, <1>9 DEF AsksRoot, all, root

\* Whatever is collected is a Collection.
LEMMA CollectedIs ==
  ASSUME NEW all, all \in Seq(Range(all)), NEW base \in Paths, NEW dir,
         \A r \in Range(all) : r.text.parts \in Paths
  PROVE  Collection(Collected(all, base, dir), Range(all), base, dir)
<1>. DEFINE N == Len(all)
            none == [sources |-> {}, rewrites |-> {}, errors |-> {}]
            Step(f, n) == f = [k \in 0..n |-> IF k = 0 THEN none ELSE Add(f[k - 1], all[k], base, dir)]
            T == {n \in Nat : \E f : Step(f, n)}
<1>1. N \in Nat /\ DOMAIN all = 1..N
  BY LenProperties
<1>2. 0 \in T
  <2>. DEFINE f == [k \in 0..0 |-> none]
  <2>1. f = [k \in 0..0 |-> IF k = 0 THEN none ELSE Add(f[k - 1], all[k], base, dir)]
    OBVIOUS
  <2>. QED  BY <2>1
<1>3. \A n \in Nat : n \in T => n + 1 \in T
  <2>. SUFFICES ASSUME NEW n \in Nat, n \in T PROVE n + 1 \in T
    OBVIOUS
  <2>0. PICK f : Step(f, n)
    <3>. HIDE DEF Step
    <3>. QED  OBVIOUS
  <2>. HIDE DEF none
  <2>. DEFINE g == [k \in 0..(n + 1) |-> IF k \in 0..n THEN f[k] ELSE Add(f[n], all[n + 1], base, dir)]
  <2>1. \A k \in 0..(n + 1) : g[k] = IF k = 0 THEN none ELSE Add(g[k - 1], all[k], base, dir)
    <3>. SUFFICES ASSUME NEW k \in 0..(n + 1)
                  PROVE  g[k] = IF k = 0 THEN none ELSE Add(g[k - 1], all[k], base, dir)
      OBVIOUS
    <3>1. CASE k \in 0..n
      <4>1. g[k] = f[k] /\ f[k] = IF k = 0 THEN none ELSE Add(f[k - 1], all[k], base, dir)
        BY <2>0, <3>1
      <4>2. k # 0 => k - 1 \in 0..n /\ g[k - 1] = f[k - 1]
        BY <3>1
      <4>. QED  BY <4>1, <4>2
    <3>2. CASE k = n + 1
      <4>1. k \notin 0..n /\ k # 0 /\ k - 1 = n /\ n \in 0..n /\ n \in 0..(n + 1)
        BY <3>2
      <4>2. g[k] = Add(f[n], all[k], base, dir) /\ g[k - 1] = f[n]
        BY <3>2, <4>1
      <4>. QED  BY <4>1, <4>2
    <3>. QED  BY <3>1, <3>2
  <2>2. g = [k \in 0..(n + 1) |-> g[k]]
    OBVIOUS
  <2>. HIDE DEF g
  <2>3. Step(g, n + 1)
    BY <2>1, <2>2
  <2>4. n + 1 \in Nat
    OBVIOUS
  <2>. HIDE DEF Step
  <2>. QED  BY <2>3, <2>4
<1>4. \E f : Step(f, N)
  <2>. HIDE DEF T
  <2>1. Nat \subseteq T
    BY <1>2, <1>3, Induct
  <2>. QED  BY <1>1, <2>1 DEF T
<1>. DEFINE upto == CHOOSE f : Step(f, N)
<1>5. Collected(all, base, dir) = upto[N]
  BY DEF Collected
<1>6. Step(upto, N)
  BY <1>4
<1>. HIDE DEF upto
<1>7. \A k \in 0..N : upto[k] = IF k = 0 THEN none ELSE Add(upto[k - 1], all[k], base, dir)
  BY <1>6
<1>. DEFINE U == {n \in Nat : n <= N => Collection(upto[n], Range(all), base, dir)}
<1>8. 0 \in U
  <2>1. upto[0] = none
    BY <1>1, <1>7
  <2>2. Collection(none, Range(all), base, dir)
    BY DEF Collection
  <2>. QED  BY <2>1, <2>2
<1>9. \A n \in Nat : n \in U => n + 1 \in U
  <2>. SUFFICES ASSUME NEW n \in Nat, n \in U, n + 1 <= N PROVE Collection(upto[n + 1], Range(all), base, dir)
    OBVIOUS
  <2>1. n <= N /\ n + 1 \in 0..N /\ n + 1 \in 1..N /\ n + 1 # 0 /\ (n + 1) - 1 = n
    BY <1>1
  <2>2. Collection(upto[n], Range(all), base, dir)
    BY <2>1
  <2>3. upto[n + 1] = Add(upto[n], all[n + 1], base, dir)
    BY <1>7, <2>1
  <2>4. all[n + 1] \in Range(all) /\ all[n + 1].text.parts \in Paths
    BY <1>1, <2>1 DEF Range
  <2>. HIDE DEF none
  <2>. QED  BY <2>2, <2>3, <2>4, AddKeeps
<1>10. Nat \subseteq U
  <2>. HIDE DEF U
  <2>. QED  BY <1>8, <1>9, Induct
<1>. QED  BY <1>1, <1>5, <1>10

-----------------------------------------------------------------------------
(* What is staged.                                                         *)

\* A project's directory is a path.
LEMMA DirIs ==
  ASSUME NEW path \in Paths PROVE ProjectDir(path) \in Paths
<1>. DEFINE without(dir, names) == IF dir # <<>> /\ Last(dir) \in names THEN Front(dir) ELSE dir
            dir == Front(path)
            unconf == without(dir, {"conf.d"})
            inner == IF Last(path) \in ConfigNames \/ unconf # dir THEN without(unconf, {"mise", ".mise"})
                     ELSE unconf
<1>1. ASSUME NEW p \in Paths, NEW names PROVE without(p, names) \in Paths
  BY FrontIs
<1>2. dir \in Paths
  BY FrontIs
<1>. HIDE DEF without, dir
<1>3. unconf \in Paths
  BY <1>1, <1>2
<1>. HIDE DEF unconf
<1>4. inner \in Paths
  BY <1>1, <1>3
<1>. HIDE DEF inner
<1>5. without(inner, {".config"}) \in Paths
  BY <1>1, <1>4
<1>. QED  BY <1>5 DEF ProjectDir, inner, unconf, dir, without

All == AllRequests(project.text, project.config.dotfiles)
Found == Collected(All, project.base, project.dir)

\* What a setup says of its paths.
LEMMA SetupPaths ==
  ASSUME setup \in UNION Families, project = Load(setup)
  PROVE  /\ project.base \in Paths /\ project.dir \in Paths /\ DOMAIN HostTree(project) \subseteq Paths
         /\ All \in Seq(Range(All)) /\ \A r \in Range(All) : r.text.parts \in Paths
<1>. DEFINE file == KitchenFile(setup.files)
            text == file.text
            listed == Get(Section(text), "dotfiles")
            dotfiles == project.config.dotfiles
            root == RootOf(text, dotfiles)
<1>1. /\ project.text = text /\ project.base = Front(file.path) /\ project.dir = ProjectDir(file.path)
      /\ project.tree = setup.tree /\ project.config = Config(text, project.dir)
  BY DEF Load
<1>2. /\ file.path \in Paths /\ DOMAIN Trees[setup.tree] \subseteq Paths
      /\ text.entries \in Seq(Range(text.entries))
      /\ \A e \in Range(text.entries) :
           /\ (~e.short /\ IsTable(e.value)) => Listed(Get(e.value, "variants"))
           /\ \A r \in Range(Requests(e)) : r.text.parts \in Paths
      /\ IsTable(listed) => listed.parts \in Paths
      /\ IsTable(text.root) => text.root.parts \in Paths
  <2>1. /\ file.path \in Seq(STRING) /\ DOMAIN Trees[setup.tree] \subseteq Seq(STRING)
        /\ text.entries \in Seq(Range(text.entries))
        /\ \A e \in Range(text.entries) :
             /\ (~e.short /\ IsTable(e.value)) => Listed(Get(e.value, "variants"))
             /\ \A r \in Range(Requests(e)) : r.text.parts \in Seq(STRING)
        /\ IsTable(listed) => listed.parts \in Seq(STRING)
        /\ IsTable(text.root) => text.root.parts \in Seq(STRING)
    BY PathsAssumption
  <2>. HIDE DEF file, text, listed
  <2>. QED  BY <2>1, PathsAre
<1>. HIDE DEF file
<1>3. project.base \in Paths /\ project.dir \in Paths
  BY <1>1, <1>2, FrontIs, DirIs
<1>4. DOMAIN HostTree(project) \subseteq Paths
  BY <1>1, <1>2 DEF HostTree
<1>5. IsTable(dotfiles) => dotfiles.parts \in Paths
  <2>. SUFFICES ASSUME IsTable(dotfiles) PROVE dotfiles.parts \in Paths
    OBVIOUS
  <2>1. dotfiles = IF listed \notin {Absent, Junk} /\ Resolvable(Section(text).dotfiles)
                   THEN [from |-> "abs", parts |-> Resolved(Section(text).dotfiles, project.dir)] ELSE Absent
    BY <1>1 DEF Config
  <2>2. listed \notin {Absent, Junk} /\ Resolvable(Section(text).dotfiles)
    BY <2>1 DEF IsTable
  <2>3. listed = Section(text).dotfiles /\ listed.parts \in Paths /\ Resolvable(listed)
    BY <1>2, <2>2 DEF Get, IsTable
  <2>4. dotfiles.parts = Resolved(listed, project.dir)
    BY <2>1, <2>2, <2>3
  <2>. HIDE DEF listed, dotfiles
  <2>5. Resolved(listed, project.dir) \in Plains
    BY <1>3, <2>3, ResolvedIs
  <2>. QED  BY <2>4, <2>5 DEF Plains
<1>. HIDE DEF listed
<1>6. IsTable(root) => root.parts \in Paths
  BY <1>2, <1>5 DEF RootOf
<1>7. \A e \in Entries(text) : Requests(e) \in Seq(Range(Requests(e)))
  BY <1>2, RequestsAre DEF Entries
<1>8. All = AllRequests(text, dotfiles)
  BY <1>1 DEF All
<1>. HIDE DEF text, dotfiles
<1>9. /\ All \in Seq(Range(All))
      /\ \A r \in Range(All) :
           (\E e \in Entries(text) : r \in Range(Requests(e))) \/ AsksRoot(r, root)
  BY <1>2, <1>7, <1>8, AllRequestsAre
<1>. HIDE DEF root
<1>10. \A r \in Range(All) : r.text.parts \in Paths
  BY <1>2, <1>6, <1>9 DEF Entries, AsksRoot
<1>. QED  BY <1>3, <1>4, <1>9, <1>10

\* What a project stages: a Collection, of which nested sources are dropped.
LEMMA FoundIs ==
  ASSUME setup \in UNION Families, project = Load(setup)
  PROVE  /\ Collection(Found, Range(All), project.base, project.dir)
         /\ project.sources = Collapsed(Found.sources) /\ project.rewrites = Found.rewrites
         /\ project.archive = Archive(project.sources, HostTree(project))
<1>1. Collection(Found, Range(All), project.base, project.dir)
  BY SetupPaths, CollectedIs DEF Found
<1>. DEFINE plan == StagePlan(project.text, project.base, project.dir, project.config.dotfiles)
<1>2. /\ project.sources = plan.sources /\ project.rewrites = plan.rewrites
      /\ project.archive = Archive(plan.sources, HostTree(setup)) /\ project.tree = setup.tree
  BY DEF Load
<1>3. plan = [Found EXCEPT !.sources = Collapsed(Found.sources)]
  BY DEF StagePlan, Found, All
<1>. HIDE DEF plan
<1>4. plan.sources = Collapsed(Found.sources) /\ plan.rewrites = Found.rewrites
  BY <1>1, <1>3 DEF Collection
<1>. QED  BY <1>1, <1>2, <1>4 DEF HostTree

\* Each request is one of the asks, which have the paths of the requests.
LEMMA AsksAre ==
  ASSUME setup \in UNION Families, project = Load(setup)
  PROVE  \A r \in Range(All) :
           [host |-> HostOf(r.text, project.base), exclude |-> r.exclude, git |-> r.git] \in Asks
<1>. DEFINE dotfiles == project.config.dotfiles
            root == RootOf(project.text, dotfiles)
            asked == (UNION {Range(Requests(e)) : e \in Range(project.text.entries)})
                     \cup (IF IsTable(root) THEN {Ask(root, RootSlot, <<>>, FALSE)} ELSE {})
<1>1. Asks = {[host |-> HostOf(r.text, project.base), exclude |-> r.exclude, git |-> r.git] : r \in asked}
  BY DEF Asks, HostOf, RootOf
<1>2. \A r \in Range(All) :
        (\E e \in Entries(project.text) : r \in Range(Requests(e))) \/ AsksRoot(r, root)
  <2>1. project.text = KitchenFile(setup.files).text
    BY DEF Load
  <2>2. /\ project.text.entries \in Seq(Range(project.text.entries))
        /\ \A e \in Entries(project.text) :
             (~e.short /\ IsTable(e.value)) => Listed(Get(e.value, "variants"))
    BY <2>1, PathsAssumption DEF Entries
  <2>3. \A e \in Entries(project.text) : Requests(e) \in Seq(Range(Requests(e)))
    BY <2>2, RequestsAre
  <2>4. All = AllRequests(project.text, dotfiles)
    BY DEF All
  <2>. HIDE DEF dotfiles
  <2>. QED  BY <2>2, <2>3, <2>4, AllRequestsAre
<1>. SUFFICES ASSUME NEW r \in Range(All)
              PROVE  \E q \in asked : q.text = r.text /\ q.exclude = r.exclude /\ q.git = r.git
  BY <1>1
<1>3. CASE \E e \in Entries(project.text) : r \in Range(Requests(e))
  BY <1>3 DEF Entries
<1>4. CASE AsksRoot(r, root)
  <2>1. Ask(root, RootSlot, <<>>, FALSE) \in asked
    <3>. HIDE DEF root
    <3>. QED  BY <1>4 DEF AsksRoot
  <2>2. PICK q : q = Ask(root, RootSlot, <<>>, FALSE)
    OBVIOUS
  <2>3. q.text = root /\ q.exclude = <<>> /\ q.git = FALSE
    BY <2>2 DEF Ask
  <2>. HIDE DEF asked, root
  <2>. QED  BY <1>4, <2>1, <2>2, <2>3 DEF AsksRoot
<1>. QED  BY <1>2, <1>3, <1>4

\* What a source expands to is below it, and is nothing that it leaves out.
LEMMA ExpandedIs ==
  ASSUME NEW s, s.host \in Paths, NEW tree, DOMAIN tree \subseteq Paths, NEW rel \in Expanded(s, tree)
  PROVE  /\ rel \in Paths /\ s.host \o rel \in Paths /\ s.host \o rel \in DOMAIN tree
         /\ IsPrefix(s.host, s.host \o rel) /\ Len(s.host \o rel) = Len(s.host) + Len(rel)
         /\ s.host \o rel # s.host => rel \in Walked(s, tree)
         /\ \A n \in (Len(s.host) + 1)..Len(s.host \o rel) :
              ~Excluded(SubSeq(s.host \o rel, Len(s.host) + 1, n), s.exclude)
<1>1. s.host \in DOMAIN tree
  BY DEF Expanded
<1>2. CASE tree[s.host].kind # "dir"
  <2>1. rel = <<>>
    BY <1>1, <1>2 DEF Expanded
  <2>2. s.host \o rel = s.host
    BY <2>1 DEF Paths
  <2>3. /\ IsPrefix(s.host, s.host \o rel) /\ Len(s.host \o rel) = Len(s.host) + Len(rel) /\ Len(s.host) \in Nat
        /\ rel \in Paths /\ Len(rel) = 0
    BY <2>1, JoinIs, EmptyPath
  <2>. QED  BY <1>1, <2>2, <2>3
<1>3. CASE tree[s.host].kind = "dir"
  <2>1. rel \in Walked(s, tree)
    BY <1>1, <1>3 DEF Expanded
  <2>2. PICK path \in DOMAIN tree : IsPrefix(s.host, path) /\ rel = SubSeq(path, Len(s.host) + 1, Len(path))
    BY <2>1 DEF Walked
  <2>3. path \in Paths
    OBVIOUS
  <2>4. /\ rel \in Paths /\ path = s.host \o rel /\ Len(rel) = Len(path) - Len(s.host)
        /\ \A n \in 0..Len(rel) : SubSeq(path, Len(s.host) + 1, Len(s.host) + n) = SubSeq(rel, 1, n)
    <3>1. PICK h : h = s.host
      OBVIOUS
    <3>2. h \in Paths /\ IsPrefix(h, path) /\ rel = Below(path, h)
      BY <2>2, <3>1 DEF Below
    <3>3. /\ rel \in Paths /\ path = h \o rel /\ Len(rel) = Len(path) - Len(h)
          /\ \A n \in 0..Len(rel) : Cut(path, Len(h), n) = Cut(rel, 0, n)
      BY <2>3, <3>2, SuffixIs
    <3>4. ASSUME NEW n \in 0..Len(rel)
          PROVE  SubSeq(path, Len(h) + 1, Len(h) + n) = SubSeq(rel, 1, n)
      BY <3>3 DEF Cut
    <3>. QED  BY <3>1, <3>3, <3>4
  <2>5. /\ IsPrefix(s.host, s.host \o rel) /\ Len(s.host \o rel) = Len(s.host) + Len(rel)
        /\ Len(s.host) \in Nat /\ Len(rel) \in Nat
    BY <2>4, JoinIs
  <2>6. \A n \in 1..Len(rel) : ~Excluded(SubSeq(rel, 1, n), s.exclude)
    BY <2>1 DEF Walked
  <2>7. ASSUME NEW n \in (Len(s.host) + 1)..Len(s.host \o rel)
        PROVE  ~Excluded(SubSeq(s.host \o rel, Len(s.host) + 1, n), s.exclude)
    <3>1. PICK m \in Nat : m = n - Len(s.host)
      BY <2>5
    <3>2. m \in 1..Len(rel) /\ m \in 0..Len(rel) /\ n = Len(s.host) + m
      BY <2>5, <3>1
    <3>3. SubSeq(path, Len(s.host) + 1, Len(s.host) + m) = SubSeq(rel, 1, m)
      BY <2>4, <3>2
    <3>4. SubSeq(s.host \o rel, Len(s.host) + 1, n) = SubSeq(rel, 1, m)
      BY <2>4, <3>2, <3>3
    <3>. QED  BY <2>6, <3>2, <3>4
  <2>. QED  BY <2>1, <2>2, <2>3, <2>4, <2>5, <2>7
<1>. QED  BY <1>2, <1>3

\* Of such a Collection only what some entry leaves in is copied.
LEMMA AdmittedImplies ==
  ASSUME setup \in UNION Families, project = Load(setup)
  PROVE  OnlyAdmittedLeaves
<1>. DEFINE tree == HostTree(project)
<1>. SUFFICES ASSUME \A a, b \in Asks : a.host = b.host => a.exclude = b.exclude,
                     NEW s \in project.sources, NEW rel \in Expanded(s, tree)
              PROVE  \E ask \in Asks : LeavesIn(ask, s.host \o rel)
  BY DEF OnlyAdmittedLeaves
<1>1. /\ Collection(Found, Range(All), project.base, project.dir) /\ s \in Found.sources
      /\ DOMAIN tree \subseteq Paths
  BY FoundIs, SetupPaths DEF Collapsed
<1>2. Agreed(Range(All), project.base)
  <2>. SUFFICES ASSUME NEW r \in Range(All), NEW q \in Range(All),
                       HostOf(r.text, project.base) = HostOf(q.text, project.base)
                PROVE  r.exclude = q.exclude
    BY DEF Agreed
  <2>1. PICK a \in Asks : a.host = HostOf(r.text, project.base) /\ a.exclude = r.exclude
    BY AsksAre
  <2>2. PICK b \in Asks : b.host = HostOf(q.text, project.base) /\ b.exclude = q.exclude
    BY AsksAre
  <2>. QED  BY <2>1, <2>2
<1>3. PICK r \in Range(All) : /\ HostOf(r.text, project.base) = s.host /\ r.exclude = s.exclude
                              /\ (r.git => s.git)
  BY <1>1, <1>2 DEF Collection, Asked
<1>4. PICK ask \in Asks : ask.host = s.host /\ ask.exclude = s.exclude /\ ask.git = r.git
  BY <1>3, AsksAre
<1>5. s.host \in Paths
  BY <1>1 DEF Collection, Source, Plains
<1>. HIDE DEF tree
<1>6. /\ IsPrefix(s.host, s.host \o rel)
      /\ s.host \o rel # s.host => rel \in Walked(s, tree)
      /\ \A n \in (Len(s.host) + 1)..Len(s.host \o rel) :
           ~Excluded(SubSeq(s.host \o rel, Len(s.host) + 1, n), s.exclude)
  BY <1>1, <1>5, ExpandedIs
<1>7. (ask.git /\ s.host \o rel # ask.host /\ tree[s.host \o rel].kind = "file") => s.host \o rel \in Tracked
  <2>. SUFFICES ASSUME ask.git, s.host \o rel # ask.host, tree[s.host \o rel].kind = "file"
                PROVE  s.host \o rel \in Tracked
    OBVIOUS
  <2>1. rel \in Walked(s, tree) /\ s.git
    BY <1>3, <1>4, <1>6
  <2>2. tree[s.host \o rel].kind # "dir"
    OBVIOUS
  <2>. QED  BY <2>1, <2>2 DEF Walked
<1>8. LeavesIn(ask, s.host \o rel)
  BY <1>4, <1>6, <1>7 DEF LeavesIn, tree
<1>. QED  BY <1>8

LoadedInv == setup \in UNION Families /\ project = Load(setup)

\* Every step loads the project of its setup.
LEMMA LoadedInductive ==
  ASSUME LoadedInv, [Next]_vars PROVE LoadedInv'
  BY DEF LoadedInv, Next, Up, RemodelBox, Edit, vars

\* Only what some entry that names it leaves in - not excluded, and tracked
\* where git decides - is ever copied from the host (sandbox/staging.rs:
\* 140-141), for any entries, trees and edits.
THEOREM AdmittedOnly == Spec => []OnlyAdmittedLeaves
<1>1. Init => LoadedInv
  BY DEF Init, LoadedInv
<1>2. LoadedInv /\ [Next]_vars => LoadedInv'
  BY LoadedInductive
<1>3. LoadedInv => OnlyAdmittedLeaves
  BY AdmittedImplies DEF LoadedInv
<1>. QED  BY <1>1, <1>2, <1>3, PTL DEF Spec

-----------------------------------------------------------------------------
(* Where it is staged.                                                     *)

Names == Words \ {".."}

\* Every directory has a short hash, which is the name of one.
Hashed == \A d \in Paths : Digests[d] \in Names

\* Paths without `..`, one below the other.
LEMMA PlainJoin ==
  ASSUME NEW p \in Plains, NEW q \in Plains
  PROVE  p \o q \in Plains
<1>1. /\ p \in Seq(Words) /\ q \in Seq(Words) /\ Len(p) \in Nat /\ Len(q) \in Nat
      /\ \A i \in 1..Len(p) : p[i] # ".."
      /\ \A i \in 1..Len(q) : q[i] # ".."
  BY DEF Plains, Paths
<1>2. p \o q \in Seq(Words) /\ Len(p \o q) = Len(p) + Len(q)
  BY <1>1, ConcatProperties
<1>3. \A i \in 1..(Len(p) + Len(q)) : (p \o q)[i] = IF i <= Len(p) THEN p[i] ELSE q[i - Len(p)]
  BY <1>1, ConcatProperties
<1>4. ASSUME NEW i \in 1..(Len(p) + Len(q)) PROVE (p \o q)[i] # ".."
  <2>1. CASE i <= Len(p)
    BY <1>1, <1>3, <2>1
  <2>2. CASE ~(i <= Len(p))
    <3>1. i - Len(p) \in 1..Len(q)
      BY <1>1, <2>2
    <3>2. (p \o q)[i] = q[i - Len(p)]
      BY <1>3, <2>2
    <3>. QED  BY <1>1, <3>1, <3>2
  <2>. QED  BY <2>1, <2>2
<1>. QED  BY <1>2, <1>4 DEF Plains, Paths

\* What is below a directory has no `..` if the path has none.
LEMMA PlainBelow ==
  ASSUME NEW p \in Paths, NEW q \in Plains, IsPrefix(p, q)
  PROVE  Below(q, p) \in Plains
<1>. DEFINE rel == Below(q, p)
<1>1. q \in Paths /\ Len(q) \in Nat /\ Len(p) \in Nat /\ \A i \in 1..Len(q) : q[i] # ".."
  BY DEF Plains, Paths
<1>2. rel \in Paths /\ q = p \o rel /\ Len(rel) = Len(q) - Len(p)
  BY <1>1, SuffixIs
<1>. HIDE DEF rel
<1>3. \A i \in 1..Len(rel) : (p \o rel)[Len(p) + i] = rel[i]
  BY <1>2, JoinIs
<1>4. ASSUME NEW i \in 1..Len(rel) PROVE rel[i] # ".."
  <2>1. Len(p) + i \in 1..Len(q)
    BY <1>1, <1>2
  <2>2. PICK j \in 1..Len(q) : j = Len(p) + i
    BY <2>1
  <2>3. q[j] # ".." /\ q[j] = rel[i]
    BY <1>1, <1>2, <1>3, <2>2
  <2>. QED  BY <2>3
<1>5. rel \in Plains
  BY <1>2, <1>4 DEF Plains
<1>. QED  BY <1>5 DEF rel

\* A name is a path without `..`.
LEMMA OnePath ==
  ASSUME NEW a \in Names
  PROVE  <<a>> \in Plains /\ Len(<<a>>) = 1
<1>1. <<a>> \in Seq(Words) /\ Len(<<a>>) = 1 /\ \A i \in 1..1 : <<a>>[i] # ".."
  BY DEF Names
<1>. QED  BY <1>1 DEF Plains, Paths

\* So are two names,
LEMMA TwoPath ==
  ASSUME NEW a \in Names, NEW b \in Names
  PROVE  <<a, b>> \in Plains /\ Len(<<a, b>>) = 2
<1>1. <<a, b>> \in Seq(Words) /\ Len(<<a, b>>) = 2 /\ \A i \in 1..2 : <<a, b>>[i] # ".."
  BY DEF Names
<1>. QED  BY <1>1 DEF Plains, Paths

\* and three.
LEMMA ThreePath ==
  ASSUME NEW a \in Names, NEW b \in Names, NEW c \in Names
  PROVE  <<a, b, c>> \in Plains /\ Len(<<a, b, c>>) = 3
<1>1. <<a, b, c>> \in Seq(Words) /\ Len(<<a, b, c>>) = 3 /\ \A i \in 1..3 : <<a, b, c>>[i] # ".."
  BY DEF Names
<1>. QED  BY <1>1 DEF Plains, Paths

\* The names that guest paths begin with.
LEMMA FixedNames == {"opt", "kitchen", "files", "project", "root"} \subseteq Names
<1>1. {"opt", "kitchen", "files", "project", "root"} \subseteq Words
  BY DEF Words
<1>2. ".." \notin {"opt", "kitchen", "files", "project", "root"}
  OBVIOUS
<1>. QED  BY <1>1, <1>2 DEF Names

\* The directory of the files is a path without `..`.
LEMMA FilesDirIs == FilesDir \in Plains /\ Len(FilesDir) = 3
<1>1. "opt" \in Names /\ "kitchen" \in Names /\ "files" \in Names
  BY FixedNames
<1>. QED  BY <1>1, ThreePath DEF FilesDir

\* Every guest path may be removed: it is below the directory of the files.
LEMMA GuestIs ==
  ASSUME Hashed, NEW host \in Plains, NEW dir \in Paths
  PROVE  GuestPath(host, dir) \in Paths /\ Removable(GuestPath(host, dir))
<1>. DEFINE inside == <<"project">> \o Below(host, dir)
            root == <<Digests[<<>>], "root">>
            outside == <<Digests[Front(host)], Last(host)>>
            tail == IF IsStrictPrefix(dir, host) THEN inside ELSE IF host = <<>> THEN root ELSE outside
            guest == FilesDir \o tail
<1>1. GuestPath(host, dir) = guest
  BY DEF GuestPath, Below
<1>2. ASSUME IsStrictPrefix(dir, host) PROVE inside \in Plains /\ Len(inside) # 0
  <2>1. IsPrefix(dir, host)
    BY <1>2 DEF IsStrictPrefix
  <2>2. Below(host, dir) \in Plains
    BY <2>1, PlainBelow
  <2>3. <<"project">> \in Plains /\ Len(<<"project">>) = 1
    <3>1. "project" \in Names
      BY FixedNames
    <3>. QED  BY <3>1, OnePath
  <2>4. inside \in Plains
    BY <2>2, <2>3, PlainJoin
  <2>5. Len(inside) = Len(<<"project">>) + Len(Below(host, dir)) /\ Len(Below(host, dir)) \in Nat
    <3>1. <<"project">> \in Paths /\ Below(host, dir) \in Paths
      BY <2>2, <2>3 DEF Plains
    <3>. QED  BY <3>1, JoinIs
  <2>. QED  BY <2>3, <2>4, <2>5
<1>3. root \in Plains /\ Len(root) # 0
  <2>1. Digests[<<>>] \in Names /\ "root" \in Names
    BY EmptyPath, FixedNames DEF Hashed
  <2>2. Len(root) = 2 /\ root \in Plains
    BY <2>1, TwoPath
  <2>. QED  BY <2>2
<1>4. ASSUME host # <<>> PROVE outside \in Plains /\ Len(outside) # 0
  <2>1. host \in Paths
    BY DEF Plains
  <2>2. Front(host) \in Paths
    BY <2>1, FrontIs
  <2>3. Digests[Front(host)] \in Names
    BY <2>2 DEF Hashed
  <2>4. Last(host) \in Names
    <3>1. host \in Seq(Words) /\ Len(host) \in Nat /\ Len(host) # 0
      BY <1>4, <2>1, EmptySeq DEF Paths
    <3>2. Len(host) \in 1..Len(host)
      BY <3>1
    <3>3. host[Len(host)] \in Words /\ host[Len(host)] # ".."
      BY <3>1, <3>2 DEF Plains
    <3>. QED  BY <3>3 DEF Last, Names
  <2>5. Len(outside) = 2 /\ outside \in Plains
    BY <2>3, <2>4, TwoPath
  <2>. QED  BY <2>5
<1>. HIDE DEF inside, root, outside
<1>5. tail \in Plains /\ Len(tail) # 0
  BY <1>2, <1>3, <1>4
<1>. HIDE DEF tail
<1>6. FilesDir \in Paths /\ tail \in Paths /\ FilesDir \in Plains
  BY <1>5, FilesDirIs DEF Plains
<1>7. /\ guest \in Paths /\ Len(guest) = Len(FilesDir) + Len(tail) /\ IsPrefix(FilesDir, guest)
      /\ Len(FilesDir) \in Nat /\ Len(tail) \in Nat
  BY <1>6, JoinIs
<1>8. guest \in Plains
  BY <1>5, <1>6, PlainJoin
<1>. HIDE DEF guest
<1>9. IsStrictPrefix(FilesDir, guest)
  <2>1. FilesDir # guest
    BY <1>5, <1>7
  <2>. QED  BY <1>7, <2>1 DEF IsStrictPrefix
<1>10. ".." \notin Range(guest)
  <2>1. DOMAIN guest = 1..Len(guest) /\ \A i \in 1..Len(guest) : guest[i] # ".."
    BY <1>8, LenProperties DEF Plains, Paths
  <2>. QED  BY <2>1 DEF Range
<1>. QED  BY <1>1, <1>7, <1>9, <1>10 DEF Removable

\* The guest has an archive; all it has is below some roots; these may be removed.
Holds(files, archive) == \A p \in DOMAIN archive : p \in DOMAIN files /\ files[p] = archive[p]
Under(files, roots) == \A p \in DOMAIN files : \E root \in roots : IsPrefix(root, p)
AllRemovable(roots) == \A root \in roots : Removable(root)

\* apply(): after a stage the guest has the archive, and all it has is below
\* the new roots, if all it had was below the old ones.
LEMMA AppliedIs ==
  ASSUME NEW files, NEW archive, NEW old, NEW new, AllRemovable(old),
         Under(files, old), Under(archive, new), NEW after, after = Applied(files, archive, old \ new)
  PROVE  Holds(after, archive) /\ Under(after, new)
<1>. DEFINE stale == old \ new
            kept == {q \in DOMAIN files : ~\E s \in stale : Removable(s) /\ IsPrefix(s, q)}
<1>1. DOMAIN after = kept \cup DOMAIN archive /\ \A p \in DOMAIN archive : after[p] = archive[p]
  BY DEF Applied, Extracted, Without
<1>2. ASSUME NEW p \in kept PROVE \E root \in new : IsPrefix(root, p)
  <2>1. PICK root \in old : IsPrefix(root, p)
    BY DEF Under
  <2>2. Removable(root)
    BY DEF AllRemovable
  <2>3. root \notin stale
    BY <2>1, <2>2
  <2>. QED  BY <2>1, <2>3
<1>. HIDE DEF kept
<1>. QED  BY <1>1, <1>2 DEF Holds, Under

\* Every root that a project stages may be removed later, and the archive is
\* below the roots.
LEMMA RootsAre ==
  ASSUME Hashed, setup \in UNION Families, project = Load(setup)
  PROVE  AllRemovable(Roots(project.sources)) /\ Under(project.archive, Roots(project.sources))
<1>. DEFINE sources == project.sources
            tree == HostTree(project)
            copies == UNION {{[to |-> s.guest \o rel, from |-> s.host \o rel] : rel \in Expanded(s, tree)} :
                               s \in sources}
<1>1. /\ Collection(Found, Range(All), project.base, project.dir) /\ sources \subseteq Found.sources
      /\ project.archive = Archive(sources, tree)
      /\ DOMAIN tree \subseteq Paths /\ project.dir \in Paths
  BY FoundIs, SetupPaths DEF Collapsed
<1>2. \A s \in sources : s.host \in Plains /\ s.guest = GuestPath(s.host, project.dir)
  BY <1>1 DEF Collection, Source
<1>3. \A s \in sources : s.host \in Paths /\ s.guest \in Paths /\ Removable(s.guest)
  BY <1>1, <1>2, GuestIs DEF Plains
<1>4. AllRemovable(Roots(sources))
  BY <1>3 DEF AllRemovable, Roots
<1>5. DOMAIN project.archive = {c.to : c \in copies}
  BY <1>1 DEF Archive
<1>. HIDE DEF sources, tree
<1>6. ASSUME NEW p \in DOMAIN project.archive PROVE \E root \in Roots(sources) : IsPrefix(root, p)
  <2>1. PICK c \in copies : p = c.to
    BY <1>5
  <2>2. PICK s \in sources :
          c \in {[to |-> s.guest \o rel, from |-> s.host \o rel] : rel \in Expanded(s, tree)}
    OBVIOUS
  <2>6. PICK rel \in Expanded(s, tree) : c = [to |-> s.guest \o rel, from |-> s.host \o rel]
    BY <2>2
  <2>5. p = s.guest \o rel
    BY <2>1, <2>6
  <2>3. rel \in Paths
    BY <1>1, <1>3, ExpandedIs
  <2>4. IsPrefix(s.guest, s.guest \o rel)
    BY <1>3, <2>3, JoinIs
  <2>. QED  BY <2>4, <2>5 DEF Roots
<1>. QED  BY <1>4, <1>6 DEF Under, sources

-----------------------------------------------------------------------------
(* The invariant of StageIsExact.                                          *)

Stages ==
  /\ Box(box)
  /\ Holds(box.files, record.staged) /\ Under(box.files, record.roots) /\ AllRemovable(record.roots)

\* The record is of the file as it is, unless a user is pending.
Current == ~UserPending => record.staged = project.archive /\ Stale = {}

StageInv ==
  /\ setup \in UNION Families /\ project = Load(setup)
  /\ Made => Stages
  /\ InStep => Current

\* `up` stages the archive into an empty directory.
LEMMA UpStages ==
  ASSUME Hashed, setup \in UNION Families, project = Load(setup), Up
  PROVE  Stages' /\ Current'
<1>1. box' = NewBox /\ record' = Recorded /\ UNCHANGED <<setup, project>>
  BY DEF Up
<1>2. /\ record'.staged = project.archive /\ record'.roots = Roots(project.sources)
  BY <1>1, RecordedIs
<1>3. Box(box') /\ box'.files = Applied(<<>>, project.archive, {})
  BY <1>1, NewBoxIs
<1>4. AllRemovable(Roots(project.sources)) /\ Under(project.archive, Roots(project.sources))
  BY RootsAre
<1>5. Holds(box'.files, project.archive) /\ Under(box'.files, Roots(project.sources))
  <2>. DEFINE none == {}
              roots == Roots(project.sources)
  <2>1. Under(<<>>, none) /\ AllRemovable(none) /\ none \ roots = {}
    BY DEF Under, AllRemovable
  <2>2. box'.files = Applied(<<>>, project.archive, none \ roots)
    BY <1>3, <2>1
  <2>. HIDE DEF none, roots
  <2>3. Under(project.archive, roots)
    BY <1>4 DEF roots
  <2>4. Holds(box'.files, project.archive) /\ Under(box'.files, roots)
    BY <2>1, <2>2, <2>3, AppliedIs
  <2>. QED  BY <2>4 DEF roots
<1>6. Stale' = {}
  BY <1>1, <1>2 DEF Stale
<1>. QED  BY <1>1, <1>2, <1>3, <1>4, <1>5, <1>6 DEF Stages, Current

\* `remodel` stages the archive over the last one, or finds it there already.
LEMMA RemodelStages ==
  ASSUME Hashed, setup \in UNION Families, project = Load(setup), Stages, RemodelBox
  PROVE  Stages' /\ Current'
<1>. DEFINE roots == Roots(project.sources)
<1>1. Box(box) /\ UNCHANGED <<setup, project>>
  BY DEF Stages, RemodelBox
<1>2. AllRemovable(roots) /\ Under(project.archive, roots)
  BY RootsAre
<1>. HIDE DEF roots
<1>3. CASE ~Changed
  <2>1. UNCHANGED <<box, record>> /\ ~StagedChanged
    BY <1>1, <1>3, RemodelStep DEF Changed
  <2>2. Stages'
    BY <2>1 DEF Stages
  <2>3. Current'
    BY <1>1, <2>1 DEF StagedChanged, Current, UserPending, Stale
  <2>. QED  BY <2>2, <2>3
<1>4. CASE Changed
  <2>1. /\ Box(box') /\ record' = Updated
        /\ box'.files = IF (GuestChanged \/ StagedChanged) /\ ~(project.archive = <<>> /\ Stale = {})
                        THEN Applied(box.files, project.archive, Stale) ELSE box.files
    BY <1>1, <1>4, RemodelStep
  <2>2. /\ record'.staged = IF UserPending THEN record.staged ELSE project.archive
        /\ record'.roots = IF UserPending THEN record.roots ELSE roots
        /\ record'.applied = WithoutRecreate(record.applied, project.config)
    BY <2>1, UpdatedIs DEF roots
  <2>3. record'.applied.user = record.applied.user
    <3>1. "user" \in Recreated /\ DOMAIN project.config = Fields
      BY Routes, Loaded
    <3>. QED  BY <2>2, <3>1, AppliedFields
  <2>4. UserPending' <=> UserPending
    BY <1>1, <2>3 DEF UserPending
  <2>5. CASE UserPending
    <3>1. box'.files = box.files
      BY <2>1, <2>5 DEF GuestChanged, StagedChanged
    <3>2. Stages'
      BY <2>1, <2>2, <2>5, <3>1 DEF Stages
    <3>. QED  BY <2>4, <2>5, <3>2 DEF Current
  <2>6. CASE ~UserPending
    <3>1. record'.staged = project.archive /\ record'.roots = roots
      BY <2>2, <2>6
    <3>2. Current'
      BY <1>1, <3>1 DEF Current, Stale, roots
    <3>3. Stale = record.roots \ roots
      BY DEF Stale, roots
    <3>4. Holds(box'.files, project.archive) /\ Under(box'.files, roots)
      <4>1. CASE box'.files = Applied(box.files, project.archive, Stale)
        BY <1>2, <3>3, <4>1, AppliedIs DEF Stages
      <4>2. CASE box'.files = box.files /\ project.archive = <<>> /\ Stale = {}
        <5>1. Holds(box'.files, project.archive)
          BY <4>2 DEF Holds
        <5>2. record.roots \subseteq roots
          BY <3>3, <4>2
        <5>. QED  BY <4>2, <5>1, <5>2 DEF Stages, Under
      <4>3. CASE box'.files = box.files /\ ~(GuestChanged \/ StagedChanged)
        <5>1. project.archive = record.staged /\ Stale = {}
          BY <2>6, <4>3 DEF StagedChanged
        <5>2. record.roots \subseteq roots
          BY <3>3, <5>1
        <5>. QED  BY <4>3, <5>1, <5>2 DEF Stages, Under
      <4>. QED  BY <2>1, <4>1, <4>2, <4>3
    <3>5. Stages'
      BY <1>2, <2>1, <3>1, <3>4 DEF Stages
    <3>. QED  BY <3>2, <3>5
  <2>. QED  BY <2>5, <2>6
<1>. QED  BY <1>3, <1>4

\* Every step keeps StageInv.
LEMMA StageInductive ==
  ASSUME Hashed, StageInv, [Next]_vars
  PROVE  StageInv'
<1>1. CASE Up
  <2>1. setup' = setup /\ project' = project
    BY <1>1 DEF Up
  <2>. QED  BY <1>1, <2>1, UpStages DEF StageInv
<1>2. CASE RemodelBox
  <2>1. Made /\ setup' = setup /\ project' = project
    BY <1>2 DEF RemodelBox, Made
  <2>. QED  BY <1>2, <2>1, RemodelStages DEF StageInv
<1>3. CASE Edit
  <2>1. /\ setup' \in UNION Families /\ project' = Load(setup') /\ last' = "edit"
        /\ UNCHANGED <<box, record>>
    BY <1>3 DEF Edit
  <2>2. (Made' => Made /\ Stages') /\ ~InStep'
    BY <2>1 DEF Made, InStep, StageInv, Stages
  <2>. QED  BY <2>1, <2>2 DEF StageInv
<1>4. CASE UNCHANGED vars
  <2>1. UNCHANGED <<setup, project, box, record, last>>
    BY <1>4 DEF vars
  <2>. QED  BY <2>1 DEF StageInv, Made, InStep, Stages, Current, UserPending, Stale
<1>. QED  BY <1>1, <1>2, <1>3, <1>4 DEF Next

-----------------------------------------------------------------------------
(* What the copy of the kitchen file refers to.                            *)

\* Being strictly below.
LEMMA StrictIs ==
  ASSUME NEW p \in Paths, NEW q \in Paths, IsStrictPrefix(p, q)
  PROVE  IsPrefix(p, q) /\ Len(p) \in Nat /\ Len(q) \in Nat /\ Len(p) < Len(q) /\ SubSeq(q, 1, Len(p)) = p
<1>1. /\ Len(p) \in Nat /\ Len(q) \in Nat /\ p \in Seq(Words) /\ q \in Seq(Words)
  BY DEF Paths
<1>2. IsPrefix(p, q) /\ Len(p) < Len(q)
  BY PrefixIs DEF IsStrictPrefix
<1>3. SubSeq(p, 1, Len(p)) = p
  BY <1>1, SubSeqFull
<1>. QED  BY <1>1, <1>2, <1>3 DEF IsPrefix

\* Paths are joined in any order,
LEMMA Associative ==
  ASSUME NEW p \in Paths, NEW q \in Paths, NEW r \in Paths
  PROVE  (p \o q) \o r = p \o (q \o r)
  BY ConcatAssociative DEF Paths

Regrouped(p, q, r, s) == p \o (q \o (r \o s)) = (p \o (q \o r)) \o s

\* also four of them.
LEMMA AssociativeTwice ==
  ASSUME NEW p \in Paths, NEW q \in Paths, NEW r \in Paths, NEW s \in Paths
  PROVE  Regrouped(p, q, r, s)
<1>1. (q \o r) \o s = q \o (r \o s)
  BY Associative
<1>2. PICK qr \in Paths : qr = q \o r
  BY JoinIs
<1>3. (p \o qr) \o s = p \o (qr \o s)
  BY Associative
<1>. QED  BY <1>1, <1>2, <1>3 DEF Regrouped

\* What is below a directory is so at one place.
LEMMA Cancelled ==
  ASSUME NEW p \in Paths, NEW q \in Paths, NEW r \in Paths, p \o q = p \o r
  PROVE  q = r
<1>1. /\ Len(p) \in Nat /\ Len(q) \in Nat /\ Len(r) \in Nat /\ q \in Seq(Words) /\ r \in Seq(Words)
      /\ Len(p) + Len(q) = Len(p) + Len(r)
  BY JoinIs DEF Paths
<1>2. Len(q) = Len(r)
  BY <1>1
<1>3. /\ \A i \in 1..Len(q) : (p \o q)[Len(p) + i] = q[i]
      /\ \A i \in 1..Len(r) : (p \o r)[Len(p) + i] = r[i]
  BY JoinIs
<1>4. \A i \in 1..Len(q) : q[i] = r[i]
  BY <1>2, <1>3
<1>. QED  BY <1>1, <1>2, <1>4, SeqEqual

\* Being below is transitive, and what is below adds up.
LEMMA BelowTwice ==
  ASSUME NEW p \in Paths, NEW q \in Paths, NEW r \in Paths, IsPrefix(p, q), IsPrefix(q, r)
  PROVE  IsPrefix(p, r) /\ Below(r, p) = Below(q, p) \o Below(r, q)
<1>1. Below(q, p) \in Paths /\ q = p \o Below(q, p)
  BY SuffixIs
<1>2. Below(r, q) \in Paths /\ r = q \o Below(r, q)
  BY SuffixIs
<1>3. PICK a \in Paths, b \in Paths : a = Below(q, p) /\ b = Below(r, q)
  BY <1>1, <1>2
<1>4. (p \o a) \o b = p \o (a \o b)
  BY Associative
<1>5. r = p \o (a \o b) /\ a \o b \in Paths
  BY <1>1, <1>2, <1>3, <1>4, JoinIs
<1>6. IsPrefix(p, r)
  <2>1. IsPrefix(p, p \o (a \o b))
    BY <1>5, JoinIs
  <2>. QED  BY <1>5, <2>1
<1>7. Below(r, p) \in Paths /\ r = p \o Below(r, p)
  BY <1>6, SuffixIs
<1>8. Below(r, p) = a \o b
  BY <1>5, <1>7, Cancelled
<1>. QED  BY <1>3, <1>6, <1>8

\* A path is below itself, by nothing.
LEMMA BelowSelf ==
  ASSUME NEW p \in Paths
  PROVE  IsPrefix(p, p) /\ Below(p, p) = <<>> /\ p \o <<>> = p
<1>1. Len(p) \in Nat /\ p \in Seq(Words)
  BY DEF Paths
<1>2. p \o <<>> = p
  BY <1>1, ConcatEmptySeq
<1>3. IsPrefix(p, p)
  BY PrefixIs, <1>1
<1>4. Below(p, p) = <<>>
  <2>1. Below(p, p) \in Seq(Words) /\ p = p \o Below(p, p)
    BY <1>3, SuffixIs DEF Paths
  <2>. QED  BY <1>1, <2>1, ConcatEqualIffEmpty
<1>. QED  BY <1>2, <1>3, <1>4

\* What holds something on the host is a directory there.
LEMMA DirectoryIs ==
  ASSUME setup \in UNION Families, project = Load(setup),
         NEW p \in Paths, NEW q \in Paths, q \in DOMAIN HostTree(project), IsStrictPrefix(p, q)
  PROVE  p \in DOMAIN HostTree(project) /\ HostTree(project)[p].kind = "dir"
<1>1. HostTree(project) = Trees[setup.tree]
  BY DEF Load, HostTree
<1>2. PICK n : n = Len(p)
  OBVIOUS
<1>3. n \in 0..(Len(q) - 1) /\ SubSeq(q, 1, n) = p
  BY <1>2, StrictIs
<1>. QED  BY <1>1, <1>3, TreesAssumption

\* A source expands to what is below it, if it is copied whole.
LEMMA WholeExpands ==
  ASSUME NEW t, t.host \in Paths, NEW tree, NEW q \in Paths, q \in DOMAIN tree, tree[q].kind # "device",
         t.host \in DOMAIN tree, tree[t.host].kind = "dir", IsPrefix(t.host, q),
         t.host = q \/ (t.exclude = <<>> /\ ~t.git)
  PROVE  Below(q, t.host) \in Expanded(t, tree)
<1>. DEFINE rel == Below(q, t.host)
<1>1. rel \in Paths /\ q = t.host \o rel /\ Len(rel) \in Nat
  <2>1. PICK h : h = t.host
    OBVIOUS
  <2>2. Below(q, h) \in Paths /\ q = h \o Below(q, h)
    BY <2>1, SuffixIs
  <2>3. Len(Below(q, h)) \in Nat
    BY <2>2 DEF Paths
  <2>. QED  BY <2>1, <2>2, <2>3
<1>2. rel \in {SubSeq(path, Len(t.host) + 1, Len(path)) : path \in {p \in DOMAIN tree : IsPrefix(t.host, p)}}
  BY DEF Below
<1>3. tree[t.host \o rel].kind # "device"
  BY <1>1
<1>4. (t.git /\ tree[t.host \o rel].kind # "dir") => (t.host \o rel) \in Tracked
  <2>1. CASE t.host = q
    BY <1>1, <2>1
  <2>2. CASE t.exclude = <<>> /\ ~t.git
    BY <2>2
  <2>. QED  BY <2>1, <2>2
<1>5. \A n \in 1..Len(rel) : ~Excluded(SubSeq(rel, 1, n), t.exclude)
  <2>1. CASE t.host = q
    <3>1. rel = <<>>
      BY <2>1, BelowSelf
    <3>2. Len(rel) = 0
      BY <3>1
    <3>. HIDE DEF rel
    <3>. QED  BY <3>2
  <2>2. CASE t.exclude = <<>> /\ ~t.git
    <3>1. Range(<<>>) = {}
      BY DEF Range
    <3>. QED  BY <2>2, <3>1 DEF Excluded
  <2>. QED  BY <2>1, <2>2
<1>. HIDE DEF rel
<1>6. rel \in Walked(t, tree)
  BY <1>2, <1>3, <1>4, <1>5 DEF Walked
<1>7. rel \in Expanded(t, tree)
  BY <1>6 DEF Expanded
<1>. QED  BY <1>7 DEF rel

\* A source on the host is copied itself.
LEMMA ItselfExpands ==
  ASSUME NEW s, s.host \in Paths, NEW tree, s.host \in DOMAIN tree, tree[s.host].kind # "device"
  PROVE  <<>> \in Expanded(s, tree)
<1>1. CASE tree[s.host].kind = "dir"
  <2>1. PICK h : h = s.host
    OBVIOUS
  <2>2. h \in Paths /\ IsPrefix(h, h) /\ Below(h, h) = <<>>
    BY <2>1, BelowSelf
  <2>3. Below(h, s.host) \in Expanded(s, tree)
    BY <1>1, <2>1, <2>2, WholeExpands
  <2>. QED  BY <2>1, <2>2, <2>3
<1>2. CASE tree[s.host].kind # "dir"
  BY <1>2 DEF Expanded
<1>. QED  BY <1>1, <1>2

\* What a source expands to is in the archive, at its place.
LEMMA ArchiveHolds ==
  ASSUME NEW sources, NEW tree, NEW s \in sources, NEW rel \in Expanded(s, tree)
  PROVE  s.guest \o rel \in DOMAIN Archive(sources, tree)
<1>. DEFINE CopiesOf(t) == {[to |-> t.guest \o r, from |-> t.host \o r] : r \in Expanded(t, tree)}
            copies == UNION {CopiesOf(t) : t \in sources}
<1>1. [to |-> s.guest \o rel, from |-> s.host \o rel] \in copies
  <2>1. [to |-> s.guest \o rel, from |-> s.host \o rel] \in CopiesOf(s)
    OBVIOUS
  <2>. HIDE DEF CopiesOf
  <2>. QED  BY <2>1
<1>2. DOMAIN Archive(sources, tree) = {c.to : c \in copies}
  BY DEF Archive
<1>. HIDE DEF copies
<1>. QED  BY <1>1, <1>2

\* What covers a source that is left out is copied.
LEMMA CoverIs ==
  ASSUME NEW S, \A s \in S : s.host \in Paths, NEW s \in S, s \notin Collapsed(S)
  PROVE  \E t \in Collapsed(S) : Covers(t, s)
<1>. DEFINE covers == {t \in S : Covers(t, s)}
            lengths == {n \in Nat : \E t \in covers : Len(t.host) = n}
<1>1. \A t \in S : Len(t.host) \in Nat
  BY DEF Paths
<1>2. lengths \in SUBSET Nat /\ lengths # {}
  <2>1. PICK t \in covers : TRUE
    BY DEF Collapsed
  <2>2. Len(t.host) \in lengths
    BY <1>1, <2>1
  <2>. QED  BY <2>2
<1>3. PICK n \in lengths : \A m \in lengths : n <= m
  <2>. HIDE DEF lengths
  <2>. QED  BY <1>2, LeastNatural
<1>4. PICK t \in covers : Len(t.host) = n
  BY <1>3
<1>5. ASSUME NEW u \in S, Covers(u, t) PROVE FALSE
  <2>1. IsStrictPrefix(u.host, t.host) /\ IsStrictPrefix(t.host, s.host)
    BY <1>4, <1>5 DEF Covers
  <2>2. u.host \in Paths /\ t.host \in Paths /\ s.host \in Paths
    BY <1>4
  <2>3. PICK p \in Paths, q \in Paths, r \in Paths : p = u.host /\ q = t.host /\ r = s.host
    BY <2>2
  <2>4. IsPrefix(p, q) /\ Len(p) < Len(q) /\ IsPrefix(q, r) /\ Len(q) < Len(r) /\ Len(p) \in Nat /\ Len(q) \in Nat
    BY <2>1, <2>3, StrictIs
  <2>5. IsPrefix(p, r)
    BY <2>4, BelowTwice
  <2>6. IsStrictPrefix(p, r)
    <3>1. p # r
      BY <2>4, StrictIs
    <3>. QED  BY <2>5, <3>1 DEF IsStrictPrefix
  <2>7. Covers(u, s)
    BY <1>5, <2>3, <2>6 DEF Covers
  <2>8. Len(u.host) \in lengths /\ Len(u.host) < n
    BY <1>1, <1>4, <2>3, <2>4, <2>7
  <2>. QED  BY <1>1, <1>3, <2>8
<1>. QED  BY <1>4, <1>5 DEF Collapsed

\* In the project a source keeps its place below another.
LEMMA GuestBelow ==
  ASSUME NEW dir \in Paths, NEW p \in Paths, NEW q \in Paths, IsStrictPrefix(dir, p), IsStrictPrefix(p, q)
  PROVE  GuestPath(q, dir) = GuestPath(p, dir) \o Below(q, p)
<1>1. IsPrefix(dir, p) /\ IsPrefix(p, q) /\ Len(dir) < Len(p) /\ Len(p) < Len(q) /\ Len(p) \in Nat /\ Len(dir) \in Nat
  BY StrictIs
<1>2. IsPrefix(dir, q) /\ Below(q, dir) = Below(p, dir) \o Below(q, p)
  BY <1>1, BelowTwice
<1>3. IsStrictPrefix(dir, q)
  <2>1. dir # q
    BY <1>1, StrictIs
  <2>. QED  BY <1>2, <2>1 DEF IsStrictPrefix
<1>4. PICK files \in Paths, one \in Paths, a \in Paths, b \in Paths :
         files = FilesDir /\ one = <<"project">> /\ a = Below(p, dir) /\ b = Below(q, p)
  <2>1. FilesDir \in Paths
    BY FilesDirIs DEF Plains
  <2>2. <<"project">> \in Paths
    BY FixedNames, OnePath DEF Plains
  <2>3. Below(p, dir) \in Paths
    BY <1>1, SuffixIs
  <2>4. Below(q, p) \in Paths
    BY <1>1, SuffixIs
  <2>. QED  BY <2>1, <2>2, <2>3, <2>4
<1>5. GuestPath(p, dir) = files \o (one \o a) /\ GuestPath(q, dir) = files \o (one \o (a \o b))
  <2>1. GuestPath(p, dir) = FilesDir \o (<<"project">> \o Below(p, dir))
    BY DEF GuestPath, Below
  <2>2. GuestPath(q, dir) = FilesDir \o (<<"project">> \o Below(q, dir))
    BY <1>3 DEF GuestPath, Below
  <2>. QED  BY <1>2, <1>4, <2>1, <2>2
<1>6. Regrouped(files, one, a, b)
  BY AssociativeTwice
<1>. QED  BY <1>4, <1>5, <1>6 DEF Regrouped

\* No source is below another that is not inside the project.
Unnested == ~\E a, b \in Asks : IsStrictPrefix(a.host, b.host) /\ ~IsStrictPrefix(project.dir, a.host)

\* What the copy of the kitchen file refers to is in the archive if the host
\* has it, unless a source is below another outside of the project.
LEMMA ReferredIs ==
  ASSUME Hashed, setup \in UNION Families, project = Load(setup), Unnested,
         NEW x \in Refers, x \notin {GuestPath(a.host, project.dir) : a \in Lacking}
  PROVE  x \in DOMAIN project.archive
<1>. DEFINE tree == HostTree(project)
            dir == project.dir
<1>1. /\ Collection(Found, Range(All), project.base, dir) /\ project.sources = Collapsed(Found.sources)
      /\ project.rewrites = Found.rewrites /\ project.archive = Archive(project.sources, tree)
      /\ DOMAIN tree \subseteq Paths /\ dir \in Paths
  BY FoundIs, SetupPaths
<1>2. PICK s \in Found.sources : s.guest = x
  BY <1>1 DEF Refers, Collection
<1>3. ASSUME NEW t \in Found.sources
      PROVE  /\ t.host \in Paths
             /\ t.guest = GuestPath(t.host, dir) /\ \E a \in Asks : a.host = t.host
  <2>1. Source(t, Range(All), project.base, dir)
    BY <1>1 DEF Collection
  <2>2. PICK r \in Range(All) : HostOf(r.text, project.base) = t.host
    BY <2>1 DEF Source
  <2>3. \E a \in Asks : a.host = t.host
    BY <2>2, AsksAre
  <2>. QED  BY <2>1, <2>3 DEF Source, Plains
<1>4. PICK b \in Asks : b.host = s.host
  BY <1>3
<1>5. s.host \in Paths /\ x = GuestPath(s.host, dir) /\ b \notin Lacking
  BY <1>2, <1>3, <1>4 DEF Plains, Collection, Source, Lacking
<1>6. s.host \in DOMAIN tree /\ tree[s.host].kind # "device"
  BY <1>4, <1>5 DEF Lacking
<1>. HIDE DEF tree, dir
<1>7. CASE s \in project.sources
  <2>1. <<>> \in Expanded(s, tree)
    BY <1>5, <1>6, ItselfExpands
  <2>2. s.guest \o <<>> \in DOMAIN project.archive
    BY <1>1, <1>7, <2>1, ArchiveHolds
  <2>3. s.guest \in Paths
    BY <1>1, <1>2, GuestIs DEF Collection, Source
  <2>4. s.guest \o <<>> = s.guest
    BY <2>3, BelowSelf
  <2>. QED  BY <1>2, <2>2, <2>4
<1>8. CASE s \notin project.sources
  <2>1. \A t \in Found.sources : t.host \in Paths
    BY <1>1 DEF Collection, Source, Plains
  <2>2. PICK t \in project.sources : Covers(t, s)
    BY <1>1, <1>8, <2>1, CoverIs
  <2>3. t \in Found.sources /\ IsStrictPrefix(t.host, s.host) /\ t.exclude = <<>> /\ ~t.git
    BY <1>1, <2>2 DEF Covers, Collapsed
  <2>4. PICK a \in Asks : a.host = t.host
    BY <1>3, <2>3
  <2>5. IsStrictPrefix(dir, t.host)
    BY <1>4, <2>3, <2>4 DEF Unnested, dir
  <2>6. PICK p \in Paths, q \in Paths : p = t.host /\ q = s.host
    BY <1>5, <2>1, <2>3
  <2>7. p \in DOMAIN tree /\ tree[p].kind = "dir"
    BY <1>6, <2>3, <2>6, DirectoryIs DEF tree
  <2>8. IsPrefix(p, q)
    BY <2>3, <2>6, StrictIs
  <2>9. Below(q, t.host) \in Expanded(t, tree)
    BY <1>6, <2>3, <2>6, <2>7, <2>8, WholeExpands
  <2>10. t.guest \o Below(q, p) \in DOMAIN project.archive
    BY <1>1, <2>2, <2>6, <2>9, ArchiveHolds
  <2>11. GuestPath(q, dir) = GuestPath(p, dir) \o Below(q, p)
    BY <1>1, <2>3, <2>5, <2>6, GuestBelow
  <2>12. t.guest = GuestPath(p, dir) /\ x = GuestPath(q, dir)
    BY <1>3, <1>5, <2>3, <2>6
  <2>. QED  BY <2>10, <2>11, <2>12
<1>. QED  BY <1>7, <1>8

\* StageInv is enough for StageIsExact.
LEMMA StageImplies ==
  ASSUME Hashed, StageInv PROVE StageIsExact
<1>. DEFINE missing == {GuestPath(a.host, project.dir) : a \in Lacking}
<1>. SUFFICES ASSUME InStep, ~UserPending
              PROVE  /\ \A p \in DOMAIN project.archive : p \in DOMAIN box.files /\ box.files[p] = project.archive[p]
                     /\ \A p \in DOMAIN box.files : \E root \in Roots(project.sources) : IsPrefix(root, p)
                     /\ Unnested => Refers \ missing \subseteq DOMAIN box.files
  BY DEF StageIsExact, Unnested
<1>1. /\ setup \in UNION Families /\ project = Load(setup)
      /\ Holds(box.files, record.staged) /\ Under(box.files, record.roots)
      /\ record.staged = project.archive /\ Stale = {}
  BY DEF StageInv, Made, Stages, Current
<1>2. record.roots \subseteq Roots(project.sources)
  BY <1>1 DEF Stale
<1>3. Unnested => Refers \ missing \subseteq DOMAIN project.archive
  BY <1>1, ReferredIs
<1>. HIDE DEF missing
<1>. QED  BY <1>1, <1>2, <1>3 DEF Holds, Under

\* After `up` or `remodel` the guest has what is staged as it is on the host,
\* nothing of earlier stages besides, and what its copy of the kitchen file
\* refers to (sandbox/staging.rs apply(), config/staging.rs rewrites), for any
\* entries, trees and edits.
THEOREM StageExact ==
  ASSUME Hashed PROVE Spec => []StageIsExact
<1>1. Init => StageInv
  BY DEF Init, StageInv, Made, InStep
<1>2. StageInv /\ [Next]_vars => StageInv'
  BY StageInductive
<1>3. StageInv => StageIsExact
  BY StageImplies
<1>. QED  BY <1>1, <1>2, <1>3, PTL DEF Spec
=============================================================================
