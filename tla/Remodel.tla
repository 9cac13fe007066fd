------------------------------- MODULE Remodel -------------------------------
(***************************************************************************)
(* What `remodel` changes: the fields of the configuration that differ and *)
(* how each reaches the sandbox (sandbox/remodel.rs), the edits to the     *)
(* VM's environment and secrets (cli/remodel.rs).  The SDK's modify() is   *)
(* external: what it stores is modelled, whether live or at the next start.*)
(***************************************************************************)
EXTENDS GuestCopy

CONSTANT GuestEnv   \* the variables every sandbox is created with

\* How a changed field reaches the sandbox.
Route ==
  [cpus |-> "sdk", memory |-> "sdk", disk |-> "sdk", allow |-> "broker", deny |-> "broker",
   preset |-> "recreate", ports |-> "recreate", mounts |-> "recreate", user |-> "recreate"]

\* diff(): of the fields as they are shown, each text standing for one value.
Diff(applied, desired) ==
  {f \in DOMAIN Route : applied[f] # desired[f]}
  \cup (IF applied.secrets = desired.secrets THEN {} ELSE {"secrets"})

Recreated == {f \in DOMAIN Route : Route[f] = "recreate"}

WithoutRecreate(applied, desired) ==
  [f \in DOMAIN desired |-> IF f \in Recreated THEN applied[f] ELSE desired[f]]

\* Fault variant: Whatever the kitchen file does not set is removed.
EnvPatch_All(current, desired, managed) ==
  [set |-> {k \in DOMAIN desired : ~(k \in DOMAIN current /\ current[k] = desired[k])},
   remove |-> DOMAIN current \ DOMAIN desired]

\* env_patch(): only what the kitchen file had set is ever removed.
EnvPatch(current, desired, managed) ==
  [set |-> {k \in DOMAIN desired : ~(k \in DOMAIN current /\ current[k] = desired[k])},
   remove |-> (DOMAIN current \cap managed) \ DOMAIN desired]

\* The left function where both are defined.
Over(f, g) == [k \in DOMAIN f \cup DOMAIN g |-> IF k \in DOMAIN f THEN f[k] ELSE g[k]]

\* sdk_changes(): resources differ from the record; the environment and the
\* values of secrets from what the VM has stored.
SdkChanges(box, record, plan) ==
  LET changed(n) == \/ n \notin DOMAIN box.secrets
                    \/ box.secrets[n].value # plan.secrets[n].value
                    \/ n \notin DOMAIN record.applied.secrets
                    \/ record.applied.secrets[n] # plan.secrets[n].hosts
  IN [res |-> {f \in {"cpus", "memory", "disk"} : plan.config[f] # record.applied[f]},
      env |-> EnvPatch(box.env, Over(plan.env, GuestEnv), record.envKeys),
      secrets |-> {n \in DOMAIN plan.secrets : changed(n)},
      drop |-> DOMAIN box.secrets \ DOMAIN plan.secrets]

\* groups(): nothing to modify if there is none.
Groups(sdk) ==
  (IF sdk.res \cap {"cpus", "memory"} # {} THEN {"resources"} ELSE {})
  \cup (IF "disk" \in sdk.res THEN {"disk"} ELSE {})
  \cup (IF sdk.env.set \cup sdk.env.remove # {} THEN {"env"} ELSE {})
  \cup (IF sdk.secrets \cup sdk.drop # {} THEN {"secrets"} ELSE {})

\* What the sandbox has stored after builder(groups).apply().
Modified(box, sdk, plan) ==
  LET env == [k \in (DOMAIN box.env \cup sdk.env.set) \ sdk.env.remove |->
                IF k \in sdk.env.set THEN Over(plan.env, GuestEnv)[k] ELSE box.env[k]]
      secrets == [n \in (DOMAIN box.secrets \cup sdk.secrets) \ sdk.drop |->
                    IF n \in sdk.secrets THEN plan.secrets[n] ELSE box.secrets[n]]
  IN [box EXCEPT !.env = env, !.secrets = secrets,
                 !.res = [f \in DOMAIN @ |-> IF f \in sdk.res THEN plan.config[f] ELSE @[f]]]
=============================================================================
