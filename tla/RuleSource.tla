----------------------------- MODULE RuleSource -----------------------------
(***************************************************************************)
(* One rules file, its editors (config/edit.rs: the broker that writes an  *)
(* answer, `net allow|deny|revoke`) and the broker's cached view of it     *)
(* (broker/rules.rs).  Editors exclude each other by the writers' lock and *)
(* replace the file atomically; people edit it by hand as well.  The       *)
(* broker's flows reread it when its stamp changed: time and length.       *)
(*                                                                         *)
(* Time is a clock the file system's stamps are taken from; a text is as   *)
(* long as it has rules.                                                   *)
(***************************************************************************)
EXTENDS Naturals, FiniteSets

CONSTANTS
  Rules,        \* rules a file may hold
  Editors,      \* processes and tasks that edit the file
  Readers,      \* flows that ask for the rules
  MaxChanges,   \* bound: changes of the file
  Broken,       \* a text that does not parse
  Missing,      \* no file
  NoText,       \* an editor that has read nothing
  Nobody        \* not an editor

ASSUME SourceAssumption ==
  /\ MaxChanges \in Nat
  /\ Nobody \notin Editors

VARIABLES
  kind,         \* RuleSource::kind: a kitchen file or rules.toml; it never changes
  file,         \* the text on disk
  time,         \* its modification time
  version,      \* changes of the file so far
  lock,         \* the editor that holds the writers' lock
  copy,         \* the text each editor has read
  rules,        \* Cached::rules
  stamp,        \* Cached::stamp
  pc,           \* where each reader is in current()
  found,        \* what a reader's stat() found
  since,        \* history: the version at that stat()
  got,          \* what current() returned
  intended,     \* history: what the finished edits add up to
  raced         \* history: saved by hand under the lock-holder's eyes

disk    == <<kind, file, time, version, intended>>
editing == <<lock, copy, raced>>
cache   == <<rules, stamp>>
reading == <<pc, found, since, got>>
vars    == <<disk, editing, cache, reading>>

Lists == [allow : SUBSET Rules, deny : SUBSET Rules]
Empty == [allow |-> {}, deny |-> {}]
Texts == Lists \cup {Broken}
ASSUME TextAssumption == Missing \notin Texts /\ Broken \notin Lists
NoStamp == <<>>
Length(text) ==
  IF text = Broken THEN 1 ELSE Cardinality(text.allow) + Cardinality(text.deny)
Stamps == (0..MaxChanges) \X (0..(2 * Cardinality(Rules) + 1)) \cup {NoStamp}

\* The built-in rules are in every kitchen and left out.
Init ==
  /\ kind \in {"kitchen", "global"}
  /\ file \in {Empty, Missing}
  /\ time = 0 /\ version = 0
  /\ lock = Nobody
  /\ copy = [e \in Editors |-> NoText]
  /\ rules = Empty
  /\ stamp = NoStamp
  /\ pc = [r \in Readers |-> "idle"]
  /\ found = [r \in Readers |-> NoStamp]
  /\ since = [r \in Readers |-> 0]
  /\ got = [r \in Readers |-> Empty]
  /\ intended = file
  /\ raced = FALSE

-----------------------------------------------------------------------------
(* The file                                                                *)

\* A change gets the clock's time: later than the last, unless the clock is
\* too coarse to tell.
Change(text) ==
  /\ version < MaxChanges
  /\ version' = version + 1
  /\ file' = text
  /\ time' \in {time, time + 1}
  /\ UNCHANGED kind

\* Somebody saves the file from a text editor, broken or not, or deletes it.
EditByHand ==
  /\ \E text \in {Empty, Broken, Missing} : Change(text)
  /\ intended' = file'
  /\ raced' = (lock # Nobody)
  /\ UNCHANGED <<lock, copy, cache, reading>>

\* Fault variant: the lock is only taken to write.
LockLate(e) ==
  /\ copy[e] = NoText
  /\ file \in Lists
  /\ copy' = [copy EXCEPT ![e] = file]
  /\ UNCHANGED <<disk, lock, raced, cache, reading>>

\* edit_file(): lock and read; only rules.toml may be missing, and a broken
\* file is not edited.
Lock(e) ==
  /\ lock = Nobody
  /\ \/ file \in Lists /\ copy' = [copy EXCEPT ![e] = file]
     \/ file = Missing /\ kind = "global" /\ copy' = [copy EXCEPT ![e] = Empty]
  /\ lock' = e /\ raced' = FALSE
  /\ UNCHANGED <<disk, cache, reading>>

\* r is put into one list and leaves the other (Set), or leaves both (Remove).
Apply(text, lists, r) ==
  [l \in {"allow", "deny"} |-> IF l \in lists THEN text[l] \cup {r} ELSE text[l] \ {r}]

Base == IF intended \in Lists THEN intended ELSE Empty

\* The edit is written if it changes anything, and the lock released.  What
\* was saved by hand meanwhile is lost.
Write(e, lists, r) ==
  /\ copy[e] # NoText
  /\ IF Apply(copy[e], lists, r) # copy[e]
     THEN /\ Change(Apply(copy[e], lists, r))
          /\ intended' = IF raced THEN file' ELSE Apply(Base, lists, r)
     ELSE UNCHANGED disk
  /\ copy' = [copy EXCEPT ![e] = NoText]
  /\ lock' = Nobody /\ raced' = FALSE
  /\ UNCHANGED <<cache, reading>>

\* The editor fails or is killed; the system releases its lock.
GiveUp(e) ==
  /\ copy[e] # NoText
  /\ copy' = [copy EXCEPT ![e] = NoText]
  /\ lock' = Nobody /\ raced' = FALSE
  /\ UNCHANGED <<disk, cache, reading>>

-----------------------------------------------------------------------------
(* RuleSource::current()                                                   *)

\* Fault variant: a change that keeps the length goes unnoticed.
StampOfLength == IF file = Missing THEN NoStamp ELSE <<0, Length(file)>>

StampOf == IF file = Missing THEN NoStamp ELSE <<time, Length(file)>>

Stat(r) ==
  /\ pc[r] = "idle"
  /\ pc' = [pc EXCEPT ![r] = "statted"]
  /\ found' = [found EXCEPT ![r] = StampOf]
  /\ since' = [since EXCEPT ![r] = version]
  /\ UNCHANGED <<disk, editing, cache, got>>

Return(r) ==
  /\ pc[r] = "statted"
  /\ pc' = [pc EXCEPT ![r] = "idle"]
  /\ got' = [got EXCEPT ![r] = rules']
  /\ UNCHANGED <<disk, editing, found, since>>

\* No rules.toml, no global rules.
Clear(r) ==
  /\ kind = "global" /\ found[r] = NoStamp
  /\ rules' = Empty /\ stamp' = NoStamp
  /\ Return(r)

Unchanged(r) ==
  /\ found[r] # NoStamp /\ stamp = found[r]
  /\ UNCHANGED cache
  /\ Return(r)

Stale(r) ==
  /\ found[r] = NoStamp => kind = "kitchen"
  /\ found[r] = NoStamp \/ stamp # found[r]

\* The file as it is by now, under the stamp it had before.
Load(r) ==
  /\ Stale(r)
  /\ file \in Lists
  /\ rules' = file /\ stamp' = found[r]
  /\ Return(r)

\* Unreadable or not valid: the last good rules stay.
KeepRules(r) ==
  /\ Stale(r)
  /\ file \notin Lists
  /\ UNCHANGED cache
  /\ Return(r)

Edit(e) ==
  \/ Lock(e) \/ GiveUp(e)
  \/ \E x \in Rules, lists \in {{}, {"allow"}, {"deny"}} : Write(e, lists, x)

Read(r) == Stat(r) \/ Clear(r) \/ Unchanged(r) \/ Load(r) \/ KeepRules(r)

Next ==
  \/ EditByHand
  \/ \E e \in Editors : Edit(e)
  \/ \E r \in Readers : Read(r)

Spec == Init /\ [][Next]_vars

-----------------------------------------------------------------------------
(* Properties                                                              *)

\* What the file says, where it says anything.
Stated == IF file = Missing THEN Empty ELSE file

\* Every change applies to the next flow: whoever asks for the rules after a
\* change gets that change, whatever other flows are reading at the same time
\* and whatever they have left in the cache (rules.rs, "apply to the next
\* flow").  It needs a clock that gave every change a time of its own.
ReadsAreFresh ==
  [][\A r \in Readers :
       /\ pc[r] = "statted" /\ pc'[r] = "idle" /\ version = since[r]
       /\ file \in Lists \/ (file = Missing /\ kind = "global")
       /\ time = version
       => got'[r] = Stated]_vars

\* No edit undoes another: the file is what all finished edits add up to,
\* those of other processes and failed ones in between (edit_file()), but for
\* what people save by hand while an editor has the file.
EditsAddUp == intended = file
=============================================================================
