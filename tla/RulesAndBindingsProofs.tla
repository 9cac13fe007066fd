------------------------ MODULE RulesAndBindingsProofs ------------------------
(***************************************************************************)
(* What the decision engine is given.  The rules (module RuleSource), for  *)
(* any number of editors, readers and rules: finished edits add up, and a  *)
(* change with a time of its own is what the next flow gets, whatever the  *)
(* flows before it left in the cache.  The bindings (module Bindings), for *)
(* any number of queries and addresses, any answers, TTLs and capacity:    *)
(* what the guest was told stays bound while it is due, and what nobody    *)
(* uses ends.  The two share no state; their proofs are side by side here. *)
(***************************************************************************)
EXTENDS RuleSource, Bindings, FiniteSetTheorems, TLAPS

-----------------------------------------------------------------------------
(* The rules file and its editors.                                         *)

\* Only the editor that has the lock has a text, and unless somebody saved
\* the file by hand meanwhile it is still the one on disk.
Exclusive ==
  /\ \A e \in Editors : copy[e] # NoText => lock = e
  /\ \A e \in Editors : lock = e /\ ~raced => copy[e] = Base

EditTypeOK ==
  /\ file \in Texts \cup {Missing}
  /\ copy \in [Editors -> Lists \cup {NoText}]

EditInv == EditTypeOK /\ Exclusive /\ EditsAddUp

LEMMA EditInit == Init => EditInv
<1>. SUFFICES ASSUME Init PROVE EditInv
  OBVIOUS
<1>1. Empty \in Lists
  BY DEF Empty, Lists
<1>2. EditTypeOK
  BY <1>1 DEF Init, EditTypeOK, Texts
<1>. QED  BY <1>2, SourceAssumption DEF Init, EditInv, Exclusive, EditsAddUp

LEMMA AppliedIsList ==
  ASSUME NEW text \in Lists, NEW lists, NEW x \in Rules
  PROVE  Apply(text, lists, x) \in Lists
  BY DEF Apply, Lists

LEMMA EditStep ==
  ASSUME EditInv, [Next]_vars
  PROVE  EditInv'
<1>1. Empty \in Lists /\ Missing \notin Lists
  BY TextAssumption DEF Empty, Lists, Texts
<1>2. CASE EditByHand
  <2>1. file' \in Texts \cup {Missing} /\ copy' = copy /\ lock' = lock
    BY <1>1, <1>2 DEF EditByHand, Change, Texts
  <2>2. intended' = file' /\ (raced' <=> lock # Nobody)
    BY <1>2 DEF EditByHand
  <2>. QED  BY <2>1, <2>2, SourceAssumption DEF EditInv, EditTypeOK, Exclusive, EditsAddUp
<1>3. ASSUME NEW e \in Editors, Lock(e) PROVE EditInv'
  <2>1. UNCHANGED <<file, intended>> /\ lock = Nobody /\ lock' = e
    BY <1>3 DEF Lock, disk
  <2>2. \A d \in Editors : copy[d] = NoText
    BY <2>1, SourceAssumption DEF EditInv, Exclusive
  <2>3. copy' = [copy EXCEPT ![e] = Base] /\ Base' = Base /\ Base \in Lists
    BY <1>1, <1>3, <2>1 DEF Lock, Base, EditInv, EditsAddUp
  <2>. QED  BY <2>1, <2>2, <2>3 DEF EditInv, EditTypeOK, Exclusive, EditsAddUp
<1>4. ASSUME NEW e \in Editors, lock = e, lock' = Nobody, copy' = [copy EXCEPT ![e] = NoText],
             file' \in Texts \cup {Missing}, intended' = file'
      PROVE EditInv'
  <2>1. \A d \in Editors : copy'[d] = NoText
    BY <1>4 DEF EditInv, EditTypeOK, Exclusive
  <2>2. EditTypeOK'
    BY <1>4 DEF EditInv, EditTypeOK
  <2>. QED  BY <1>4, <2>1, <2>2, SourceAssumption DEF EditInv, Exclusive, EditsAddUp
<1>5. ASSUME NEW e \in Editors, NEW lists, NEW x \in Rules, Write(e, lists, x) PROVE EditInv'
  <2>1. copy[e] \in Lists /\ lock = e
    BY <1>5 DEF Write, EditInv, EditTypeOK, Exclusive
  <2>2. CASE UNCHANGED disk
    BY <1>4, <1>5, <2>1, <2>2 DEF Write, disk, EditInv, EditTypeOK, EditsAddUp
  <2>3. CASE file' = Apply(copy[e], lists, x) /\ intended' = IF raced THEN file' ELSE Apply(Base, lists, x)
    <3>1. intended' = file'
      BY <2>1, <2>3 DEF EditInv, Exclusive
    <3>2. file' \in Texts
      BY <2>1, <2>3, AppliedIsList DEF Texts
    <3>. QED  BY <1>4, <1>5, <2>1, <3>1, <3>2 DEF Write
  <2>. QED  BY <1>5, <2>2, <2>3 DEF Write, Change
<1>6. ASSUME NEW e \in Editors, GiveUp(e) PROVE EditInv'
  <2>1. lock = e
    BY <1>6 DEF GiveUp, EditInv, Exclusive
  <2>. QED  BY <1>4, <1>6, <2>1 DEF GiveUp, disk, EditInv, EditTypeOK, EditsAddUp
<1>7. ASSUME NEW r \in Readers, Read(r) PROVE EditInv'
  <2>1. UNCHANGED <<disk, editing>>
    BY <1>7 DEF Read, Stat, Clear, Unchanged, Load, KeepRules, Return
  <2>. QED  BY <2>1 DEF disk, editing, EditInv, EditTypeOK, Exclusive, Base, EditsAddUp
<1>8. CASE UNCHANGED vars
  BY <1>8 DEF vars, disk, editing, EditInv, EditTypeOK, Exclusive, Base, EditsAddUp
<1>. QED  BY <1>2, <1>3, <1>5, <1>6, <1>7, <1>8 DEF Next, Edit

\* No edit undoes another (config/edit.rs:140-160): what is on disk is what
\* the finished edits add up to, however many editors there are.
THEOREM EditsKept == Spec => []EditsAddUp
<1>1. EditInv => EditsAddUp
  BY DEF EditInv
<1>. QED  BY <1>1, EditInit, EditStep, PTL DEF Spec

-----------------------------------------------------------------------------
(* current().                                                              *)

Lengths == {Length(text) : text \in Texts}
SomeStamps == (Nat \X Lengths) \cup {NoStamp}

\* No stamp is of a time to come, and one of the newest change is either of
\* what is on disk or the cache's own reading of it.
Stamped ==
  /\ stamp # NoStamp => stamp[1] <= time
  /\ \A r \in Readers : found[r] # NoStamp => found[r][1] <= time
  /\ \A r \in Readers : pc[r] = "statted" /\ since[r] = version => found[r] = StampOf
  /\ stamp # NoStamp /\ stamp[1] = version => rules = file

ReadTypeOK ==
  /\ kind \in {"kitchen", "global"} /\ file \in Texts \cup {Missing}
  /\ time \in Nat /\ version \in Nat /\ time <= version
  /\ stamp \in SomeStamps
  /\ pc \in [Readers -> {"idle", "statted"}]
  /\ found \in [Readers -> SomeStamps]
  /\ since \in [Readers -> Nat] /\ \A r \in Readers : since[r] <= version
  /\ got \in [Readers -> Lists] /\ rules \in Lists

ReadInv == ReadTypeOK /\ Stamped

LEMMA ReadInit == Init => ReadInv
<1>. SUFFICES ASSUME Init PROVE ReadInv
  OBVIOUS
<1>1. Empty \in Lists
  BY DEF Empty, Lists
<1>2. ReadTypeOK
  BY <1>1 DEF Init, ReadTypeOK, Texts, SomeStamps
<1>. QED  BY <1>2 DEF Init, ReadInv, Stamped

\* A change makes every stamp there is an old one.
LEMMA ChangeStep ==
  ASSUME ReadInv, NEW text \in Texts \cup {Missing}, Change(text), UNCHANGED <<cache, reading>>
  PROVE  ReadInv'
<1>1. ReadTypeOK' /\ time <= time' /\ version' > version
  BY DEF ReadInv, ReadTypeOK, Change, cache, reading
<1>2. stamp' = stamp /\ rules' = rules /\ found' = found /\ since' = since /\ pc' = pc
  BY DEF cache, reading
<1>3. \A s \in SomeStamps : s # NoStamp => s[1] \in Nat
  BY DEF SomeStamps
<1>4. stamp # NoStamp => stamp[1] <= time' /\ stamp[1] # version'
  BY <1>1, <1>3 DEF ReadInv, ReadTypeOK, Stamped
<1>5. \A r \in Readers : found[r] # NoStamp => found[r][1] <= time'
  BY <1>1, <1>3 DEF ReadInv, ReadTypeOK, Stamped
<1>6. \A r \in Readers : since[r] # version'
  BY <1>1 DEF ReadInv, ReadTypeOK
<1>. QED  BY <1>1, <1>2, <1>4, <1>5, <1>6 DEF ReadInv, Stamped

LEMMA ReadStep ==
  ASSUME EditInv, ReadInv, [Next]_vars
  PROVE  ReadInv'
<1>0. Empty \in Lists
  BY DEF Empty, Lists
<1>1. CASE EditByHand
  <2>1. PICK text \in {Empty, Broken, Missing} : Change(text)
    BY <1>1 DEF EditByHand
  <2>. QED  BY <1>0, <1>1, <2>1, ChangeStep DEF EditByHand, Texts
<1>2. CASE UNCHANGED <<disk, cache, reading>>
  BY <1>2 DEF disk, cache, reading, ReadInv, ReadTypeOK, Stamped, StampOf
<1>3. ASSUME NEW e \in Editors, NEW lists, NEW x \in Rules, Write(e, lists, x) PROVE ReadInv'
  <2>1. Apply(copy[e], lists, x) \in Texts
    BY <1>3, AppliedIsList DEF Write, EditInv, EditTypeOK, Texts
  <2>. QED  BY <1>2, <1>3, <2>1, ChangeStep DEF Write
<1>4. ASSUME NEW r \in Readers, Stat(r) PROVE ReadInv'
  <2>1. StampOf \in SomeStamps /\ (StampOf # NoStamp => StampOf[1] = time)
    BY DEF StampOf, SomeStamps, Lengths, ReadInv, ReadTypeOK, NoStamp
  <2>2. UNCHANGED <<kind, file, time, version, rules, stamp, got>> /\ StampOf' = StampOf
    BY <1>4 DEF Stat, disk, cache, StampOf
  <2>3. /\ pc' = [pc EXCEPT ![r] = "statted"] /\ found' = [found EXCEPT ![r] = StampOf]
        /\ since' = [since EXCEPT ![r] = version]
    BY <1>4 DEF Stat
  <2>4. ReadTypeOK'
    BY <2>1, <2>2, <2>3 DEF ReadInv, ReadTypeOK
  <2>. QED  BY <2>1, <2>2, <2>3, <2>4 DEF ReadInv, ReadTypeOK, Stamped
<1>5. ASSUME NEW r \in Readers, Clear(r) \/ Unchanged(r) \/ Load(r) \/ KeepRules(r) PROVE ReadInv'
  <2>1. /\ UNCHANGED <<kind, file, time, version, found, since>> /\ StampOf' = StampOf
        /\ pc' = [pc EXCEPT ![r] = "idle"] /\ got' = [got EXCEPT ![r] = rules']
    BY <1>5 DEF Clear, Unchanged, Load, KeepRules, Return, disk, StampOf
  <2>2. \/ UNCHANGED <<rules, stamp>>
        \/ rules' = Empty /\ stamp' = NoStamp
        \/ file \in Lists /\ rules' = file /\ stamp' = found[r]
    BY <1>5 DEF Clear, Unchanged, Load, KeepRules, cache
  <2>3. ReadTypeOK'
    BY <1>0, <2>1, <2>2 DEF ReadInv, ReadTypeOK, SomeStamps
  <2>. QED  BY <2>1, <2>2, <2>3 DEF ReadInv, ReadTypeOK, Stamped
<1>6. CASE UNCHANGED vars
  BY <1>2, <1>6 DEF vars
<1>. QED
  BY <1>1, <1>2, <1>3, <1>4, <1>5, <1>6 DEF Next, Edit, Lock, GiveUp, Read

\* A flow that asks after a change gets the change (broker/rules.rs:93-131),
\* for any number of flows that read at the same time.
THEOREM NextFlowReads == Spec => ReadsAreFresh
<1>1. ReadInv /\ [Next]_vars =>
        [\A r \in Readers :
           /\ pc[r] = "statted" /\ pc'[r] = "idle" /\ version = since[r]
           /\ file \in Lists \/ (file = Missing /\ kind = "global")
           /\ time = version
           => got'[r] = Stated]_vars
  <2>1. SUFFICES ASSUME ReadInv, Next, NEW r \in Readers,
                        pc[r] = "statted", pc'[r] = "idle", version = since[r],
                        file \in Lists \/ (file = Missing /\ kind = "global"), time = version
                 PROVE  got'[r] = Stated
    OBVIOUS
  <2>2. Missing \notin Lists
    BY TextAssumption DEF Texts
  <2>3. Clear(r) \/ Unchanged(r) \/ Load(r) \/ KeepRules(r)
    <3>1. ~EditByHand /\ \A e \in Editors : ~Edit(e)
      BY <2>1 DEF EditByHand, Edit, Lock, GiveUp, Write, reading
    <3>2. \A s \in Readers \ {r} : ~Read(s)
      BY <2>1 DEF Read, Stat, Clear, Unchanged, Load, KeepRules, Return, ReadInv, ReadTypeOK
    <3>. QED  BY <2>1, <3>1, <3>2 DEF Next, Read, Stat
  <2>4. got'[r] = rules'
    BY <2>1, <2>3 DEF Clear, Unchanged, Load, KeepRules, Return, ReadInv, ReadTypeOK
  <2>5. found[r] = StampOf
    BY <2>1 DEF ReadInv, Stamped
  <2>6. CASE file \in Lists
    <3>1. found[r] # NoStamp /\ found[r][1] = version
      BY <2>1, <2>2, <2>5, <2>6 DEF StampOf, NoStamp
    <3>2. rules' = file
      BY <2>1, <2>3, <2>6, <3>1 DEF Clear, Unchanged, Load, KeepRules, cache, ReadInv, Stamped
    <3>. QED  BY <2>2, <2>4, <2>6, <3>2 DEF Stated
  <2>7. CASE file = Missing /\ kind = "global"
    <3>1. found[r] = NoStamp
      BY <2>5, <2>7 DEF StampOf
    <3>2. rules' = Empty
      BY <2>3, <2>7, <3>1 DEF Clear, Unchanged, Load, KeepRules, Stale
    <3>. QED  BY <2>4, <2>7, <3>2 DEF Stated
  <2>. QED  BY <2>1, <2>6, <2>7
<1>2. Spec => [](EditInv /\ ReadInv)
  BY EditInit, EditStep, ReadInit, ReadStep, PTL DEF Spec
<1>. QED  BY <1>1, <1>2, PTL DEF Spec, ReadsAreFresh

-----------------------------------------------------------------------------
(* The store of bindings.                                                  *)

Typed ==
  /\ now \in 0..MaxTime
  /\ entries \in [Addresses -> Entry \cup {Absent}]
  /\ step \in [Queries -> Points]
  /\ rest \in [Queries -> Nat]
  /\ used \in [Addresses -> 0..(now + 1)]
  /\ heard \in [Addresses -> 0..(now + 1)]
  /\ told \in [Addresses -> SUBSET Chains]

\* An entry knows its last use, and does not outlive it by more than Cap.
Dated ==
  \A a \in Addresses : entries[a] # Absent =>
    used[a] = entries[a].seen + 1 /\ entries[a].expires < used[a] + Cap

\* Nothing evicts an address used at t while fewer than Capacity others have
\* been used since.
Fewer(a, t) == Cardinality({b \in Addresses \ {a} : used[b] >= t}) < Capacity

Bound(a, t, chains) ==
  entries[a] # Absent /\ t + Floor <= entries[a].expires + 1 /\ chains \subseteq entries[a].chains

\* What a task has recorded is bound when it responds: no time passes before.
Learns(q, i) == step[q] = "recorded" \/ (step[q] = "recording" /\ i <= rest[q])
Learnt ==
  /\ \A q \in Queries : \A i \in DOMAIN AnswerOf[q] : Learns(q, i) =>
       /\ used[AnswerOf[q][i]] = now + 1
       /\ Fewer(AnswerOf[q][i], now + 1) => Bound(AnswerOf[q][i], now + 1, {ChainOf[q]})
  /\ \A q \in Queries : step[q] = "answered" => rest[q] = 0
  /\ \A q \in Queries : step[q] = "recording" => rest[q] < Len(AnswerOf[q])

Promised ==
  \A a \in Addresses : heard[a] <= used[a] /\ (Due(a) => Bound(a, heard[a], told[a]))

BInv == Typed /\ Dated /\ Learnt /\ Promised

-----------------------------------------------------------------------------
(* The store.                                                              *)

LEMMA Durations ==
  /\ Floor \in Nat /\ 0 < Floor /\ Cap \in Nat /\ Floor <= Cap
  /\ Capacity \in Nat /\ MaxTime \in Nat
  BY BindingAssumption

LEMMA ClampedTtl ==
  ASSUME NEW ttl \in Nat
  PROVE  Clamped(ttl) \in Nat /\ Floor <= Clamped(ttl) /\ Clamped(ttl) <= Cap
  BY BindingAssumption DEF Clamped

LEMMA AnswerTyped ==
  ASSUME NEW q \in Queries, NEW i \in 1..Len(AnswerOf[q])
  PROVE  AnswerOf[q][i] \in Addresses /\ DOMAIN AnswerOf[q] = 1..Len(AnswerOf[q]) /\ ChainOf[q] \in Chains
  BY BindingAssumption DEF Chains

\* Uses only add up.
LEMMA FewerBefore ==
  ASSUME NEW a \in Addresses, NEW t \in Nat, Typed,
         used' \in [Addresses -> Nat], \A b \in Addresses : used[b] <= used'[b],
         Fewer(a, t)'
  PROVE  Fewer(a, t)
<1> DEFINE S == {b \in Addresses \ {a} : used[b] >= t}
           T == {b \in Addresses \ {a} : used'[b] >= t}
<1>1. used \in [Addresses -> Nat]
  BY DEF Typed
<1>2. IsFiniteSet(T)
  BY FS_Subset, BindingAssumption
<1>3. S \in SUBSET T
  BY <1>1
<1>4. Cardinality(S) <= Cardinality(T)
  BY <1>2, <1>3, FS_Subset
<1>5. Cardinality(S) \in Nat /\ Cardinality(T) \in Nat
  BY <1>2, <1>3, FS_Subset, FS_CardinalityType
<1>6. Cardinality(T) < Capacity
  BY DEF Fewer
<1>. QED  BY <1>4, <1>5, <1>6, BindingAssumption DEF Fewer

\* An address survives the trimming of the store if fewer than Capacity
\* others have been used since its own use.
LEMMA Survives ==
  ASSUME NEW es \in [Addresses -> Entry \cup {Absent}], NEW new \in Trimmed(es),
         NEW u \in [Addresses -> Nat], \A c \in Known(es) : u[c] = es[c].seen + 1,
         NEW a \in Known(es), NEW t \in Nat, t <= u[a],
         Cardinality({b \in Addresses \ {a} : u[b] >= t}) < Capacity
  PROVE  new[a] = es[a]
<1>1. CASE Cardinality(Known(es)) <= Capacity
  BY <1>1 DEF Trimmed
<1>2. CASE ~(Cardinality(Known(es)) <= Capacity)
  <2>1. PICK b \in Known(es) : /\ new = [es EXCEPT ![b] = Absent]
                               /\ \A c \in Known(es) : es[b].seen <= es[c].seen
    BY <1>2 DEF Trimmed
  <2>2. CASE a # b
    BY <2>1, <2>2 DEF Known
  <2>3. CASE a = b
    <3> DEFINE S == {c \in Addresses \ {a} : u[c] >= t}
    <3>1. \A c \in Known(es) : c \in Addresses /\ es[c].seen \in Nat
      BY DEF Known, Entry
    <3>2. Known(es) \ {a} \in SUBSET S
      BY <2>1, <2>3, <3>1
    <3>3. IsFiniteSet(S) /\ IsFiniteSet(Known(es))
      BY FS_Subset, BindingAssumption DEF Known
    <3>4. Cardinality(Known(es) \ {a}) <= Cardinality(S)
      BY <3>2, <3>3, FS_Subset
    <3>5. Cardinality(Known(es) \ {a}) = Cardinality(Known(es)) - 1
      BY <3>3, FS_RemoveElement
    <3>6. Cardinality(S) \in Nat /\ Cardinality(Known(es)) \in Nat
      BY <3>3, FS_CardinalityType
    <3>. QED  BY <1>2, <3>4, <3>5, <3>6, BindingAssumption
  <2>. QED  BY <2>2, <2>3
<1>. QED  BY <1>1, <1>2

LEMMA TrimmedTyped ==
  ASSUME NEW es \in [Addresses -> Entry \cup {Absent}], NEW new \in Trimmed(es)
  PROVE  /\ new \in [Addresses -> Entry \cup {Absent}]
         /\ \A c \in Addresses : new[c] # Absent => new[c] = es[c]
<1>1. CASE new = es
  BY <1>1
<1>2. ASSUME NEW b \in Known(es), new = [es EXCEPT ![b] = Absent]
      PROVE  /\ new \in [Addresses -> Entry \cup {Absent}]
             /\ \A c \in Addresses : new[c] # Absent => new[c] = es[c]
  BY <1>2
<1>. QED  BY <1>1, <1>2 DEF Trimmed

\* What record() makes of the store before it is trimmed.
LEMMA RecordedAs ==
  ASSUME Typed, Dated, NEW x \in Addresses, NEW chain \in Chains, NEW ttl \in Nat
  PROVE  LET es == Recorded(x, chain, ttl)
         IN /\ es \in [Addresses -> Entry \cup {Absent}]
            /\ \A c \in Addresses \ {x} : es[c] = entries[c]
            /\ es[x] # Absent /\ es[x].seen = now /\ chain \in es[x].chains
            /\ now + Floor <= es[x].expires /\ es[x].expires <= now + Cap
            /\ entries[x] # Absent => /\ entries[x].expires <= es[x].expires
                                      /\ entries[x].chains \subseteq es[x].chains
<1> DEFINE e == now + Clamped(ttl)
           old == entries[x]
<1>1. e \in Nat /\ now \in 0..MaxTime /\ now + Floor <= e /\ e <= now + Cap
  BY ClampedTtl, Durations DEF Typed
<1>2. entries \in [Addresses -> Entry \cup {Absent}]
  BY DEF Typed
<1>3. CASE old = Absent
  <2>1. [chains |-> {chain}, expires |-> e, seen |-> now] \in Entry
    BY <1>1 DEF Entry
  <2>2. Recorded(x, chain, ttl) = [entries EXCEPT ![x] = [chains |-> {chain}, expires |-> e, seen |-> now]]
    BY <1>3 DEF Recorded
  <2>. QED  BY <1>1, <1>2, <1>3, <2>1, <2>2, EntryAssumption
<1>4. CASE old # Absent
  <2> DEFINE later == Larger(old.expires, e)
  <2>1. old \in Entry
    BY <1>2, <1>4
  <2>2. old.expires <= now + Cap
    BY <1>1, <1>4, <2>1, Durations DEF Dated, Typed, Entry
  <2>3. later \in Nat /\ old.expires <= later /\ e <= later /\ later <= now + Cap
    BY <1>1, <2>1, <2>2, Durations DEF Larger, Entry
  <2>4. [chains |-> old.chains \cup {chain}, expires |-> later, seen |-> now] \in Entry
    BY <1>1, <2>1, <2>3 DEF Entry
  <2>5. Recorded(x, chain, ttl) =
          [entries EXCEPT ![x] = [chains |-> old.chains \cup {chain}, expires |-> later, seen |-> now]]
    BY <1>4 DEF Recorded
  <2>6. now + Floor <= later
    BY <1>1, <2>3, Durations
  <2> HIDE DEF later, e
  <2>. QED  BY <1>2, <2>3, <2>4, <2>5, <2>6, EntryAssumption
<1>. QED  BY <1>3, <1>4

\* Where record() is at.
LEMMA RecordAt ==
  ASSUME Learnt, Typed, NEW q \in Queries, step[q] = "recording"
  PROVE  /\ rest[q] + 1 \in 1..Len(AnswerOf[q])
         /\ AnswerOf[q][rest[q] + 1] \in Addresses /\ ChainOf[q] \in Chains /\ TtlOf[q] \in Nat
         /\ DOMAIN AnswerOf[q] = 1..Len(AnswerOf[q])
<1>1. AnswerOf[q] \in Seq(Addresses) /\ TtlOf[q] \in Nat /\ ChainOf[q] \in Chains
  BY BindingAssumption DEF Chains
<1>2. rest[q] \in Nat /\ rest[q] < Len(AnswerOf[q])
  BY DEF Typed, Learnt
<1>. QED  BY <1>1, <1>2

\* A record keeps what is bound and young, and binds its own address.
LEMMA RecordKeeps ==
  ASSUME Typed, Dated, Learnt, NEW q \in Queries, Record(q),
         NEW x, x = AnswerOf[q][rest[q] + 1]
  PROVE  /\ entries' \in [Addresses -> Entry \cup {Absent}]
         /\ Dated'
         /\ \A a \in Addresses, t \in Nat : \A chains :
              Bound(a, t, chains) /\ t <= used'[a] /\ Fewer(a, t)' => Bound(a, t, chains)'
         /\ Fewer(x, now + 1)' => Bound(x, now + 1, {ChainOf[q]})'
<1> DEFINE es == Recorded(x, ChainOf[q], TtlOf[q])
<1>1. x \in Addresses /\ ChainOf[q] \in Chains /\ TtlOf[q] \in Nat
  BY RecordAt DEF Record
<1>2. /\ es \in [Addresses -> Entry \cup {Absent}]
      /\ \A c \in Addresses \ {x} : es[c] = entries[c]
      /\ es[x] # Absent /\ es[x].seen = now /\ ChainOf[q] \in es[x].chains
      /\ now + Floor <= es[x].expires /\ es[x].expires <= now + Cap
      /\ entries[x] # Absent => /\ entries[x].expires <= es[x].expires
                                /\ entries[x].chains \subseteq es[x].chains
  BY <1>1, RecordedAs, SMTT(30)
<1>3. entries' \in Trimmed(es) /\ used' = [used EXCEPT ![x] = now + 1] /\ now' = now
  BY DEF Record
<1> HIDE DEF es
<1>4. /\ entries' \in [Addresses -> Entry \cup {Absent}]
      /\ \A c \in Addresses : entries'[c] # Absent => entries'[c] = es[c]
  BY <1>2, <1>3, TrimmedTyped
<1>5. now \in Nat /\ used \in [Addresses -> Nat] /\ used' \in [Addresses -> Nat]
  BY <1>1, <1>3, Durations, SMTT(30) DEF Typed
<1>6. \A c \in Addresses : es[c] # Absent =>
        used'[c] = es[c].seen + 1 /\ es[c].expires < used'[c] + Cap
  <2>1. used'[x] = now + 1 /\ \A c \in Addresses \ {x} : used'[c] = used[c]
    BY <1>1, <1>3, <1>5, SMTT(30)
  <2>2. es[x].expires \in Nat
    BY <1>1, <1>2, SMTT(30) DEF Entry
  <2>3. es[x].expires < now + 1 + Cap
    BY <1>2, <1>5, <2>2, Durations
  <2>. QED  BY <1>1, <1>2, <2>1, <2>3 DEF Dated
<1>7. Dated'
  BY <1>4, <1>6 DEF Dated
<1>8. ASSUME NEW a \in Addresses, NEW t \in Nat, es[a] # Absent, t <= used'[a], Fewer(a, t)'
      PROVE  entries'[a] = es[a]
  <2>1. Cardinality({b \in Addresses \ {a} : used'[b] >= t}) < Capacity
    BY <1>8 DEF Fewer
  <2>2. \A c \in Known(es) : used'[c] = es[c].seen + 1
    BY <1>6 DEF Known
  <2>3. a \in Known(es)
    BY <1>8 DEF Known
  <2>4. \A new \in Trimmed(es) : \A u \in [Addresses -> Nat] :
          /\ \A c \in Known(es) : u[c] = es[c].seen + 1
          /\ t <= u[a] /\ Cardinality({b \in Addresses \ {a} : u[b] >= t}) < Capacity
          => new[a] = es[a]
    BY <1>2, <1>8, <2>3, Survives
  <2>. QED  BY <1>3, <1>5, <1>8, <2>1, <2>2, <2>4
<1>9. ASSUME NEW a \in Addresses, NEW t \in Nat, NEW chains,
             Bound(a, t, chains), t <= used'[a], Fewer(a, t)'
      PROVE  Bound(a, t, chains)'
  <2>1. entries[a] # Absent /\ entries[a] \in Entry /\ entries[a].expires \in Nat
    BY <1>9, SMTT(30) DEF Bound, Typed, Entry
  <2>2. es[a] # Absent /\ es[a].expires \in Nat
    BY <1>2, <2>1, SMTT(30) DEF Entry
  <2>3. entries[a].expires <= es[a].expires /\ entries[a].chains \subseteq es[a].chains
    BY <1>2, <2>1, <2>2
  <2>4. entries'[a] = es[a]
    BY <1>8, <1>9, <2>2
  <2>5. t + Floor <= es[a].expires + 1
    BY <1>9, <2>1, <2>2, <2>3, Durations, SMTT(30) DEF Bound
  <2>. QED  BY <1>9, <2>2, <2>3, <2>4, <2>5 DEF Bound
<1>10. ASSUME Fewer(x, now + 1)' PROVE Bound(x, now + 1, {ChainOf[q]})'
  <2>1. now + 1 \in Nat /\ used'[x] = now + 1 /\ now' = now
    BY <1>1, <1>3, <1>5, SMTT(30)
  <2>2. entries'[x] = es[x]
    BY <1>1, <1>2, <1>8, <1>10, <2>1, SMTT(30)
  <2>3. es[x].expires \in Nat
    BY <1>1, <1>2 DEF Entry
  <2>4. now + 1 + Floor <= es[x].expires + 1
    BY <1>2, <1>5, <2>3, Durations
  <2>. QED  BY <1>2, <2>1, <2>2, <2>4 DEF Bound
<1>. QED  BY <1>4, <1>7, <1>9, <1>10

-----------------------------------------------------------------------------
(* What tasks and the guest count on.                                      *)

\* A step of the store that keeps what is bound and young keeps both.
LEMMA ClaimsKept ==
  ASSUME Typed, Learnt, Promised, now' = now,
         used' \in [Addresses -> Nat],
         \A a \in Addresses : used[a] <= used'[a] /\ used'[a] <= now + 1,
         \A a \in Addresses, t \in Nat : \A chains :
           now + 1 < t + Floor /\ Bound(a, t, chains) /\ t <= used'[a] /\ Fewer(a, t)' => Bound(a, t, chains)'
  PROVE  /\ \A q \in Queries : \A i \in DOMAIN AnswerOf[q] : Learns(q, i) =>
              /\ used'[AnswerOf[q][i]] = now + 1
              /\ Fewer(AnswerOf[q][i], now + 1)' => Bound(AnswerOf[q][i], now + 1, {ChainOf[q]})'
         /\ \A a \in Addresses, t \in Nat : \A chains :
              t = heard[a] /\ chains = told[a] =>
                /\ t <= used'[a]
                /\ 0 < t /\ now + 1 < t + Floor /\ Fewer(a, t)' => Due(a) /\ Bound(a, t, chains)'
<1>1. now + 1 \in Nat /\ now + 1 < now + 1 + Floor
  BY Durations DEF Typed
<1>2. used \in [Addresses -> Nat]
  BY <1>1 DEF Typed
<1>3. ASSUME NEW a \in Addresses, NEW t \in Nat, NEW chains,
             now + 1 < t + Floor, t <= used'[a], Fewer(a, t)'
      PROVE  Fewer(a, t) /\ (Bound(a, t, chains) => Bound(a, t, chains)')
  BY <1>3, FewerBefore
<1>4. ASSUME NEW q \in Queries, NEW i \in DOMAIN AnswerOf[q], Learns(q, i)
      PROVE  /\ used'[AnswerOf[q][i]] = now + 1
             /\ Fewer(AnswerOf[q][i], now + 1)' => Bound(AnswerOf[q][i], now + 1, {ChainOf[q]})'
  <2> DEFINE a == AnswerOf[q][i]
  <2>1. a \in Addresses
    BY AnswerTyped, BindingAssumption
  <2>2. used[a] = now + 1 /\ (Fewer(a, now + 1) => Bound(a, now + 1, {ChainOf[q]}))
    BY <1>4 DEF Learnt
  <2>3. used'[a] = now + 1
    BY <1>1, <1>2, <2>1, <2>2
  <2>4. ASSUME NEW t \in Nat, t = now + 1, Fewer(a, t)' PROVE Bound(a, t, {ChainOf[q]})'
    BY <1>1, <1>3, <2>1, <2>2, <2>3, <2>4
  <2>5. Fewer(a, now + 1)' => Bound(a, now + 1, {ChainOf[q]})'
    BY <1>1, <2>4 DEF Fewer, Bound
  <2>. QED  BY <2>3, <2>5
<1>5. ASSUME NEW a \in Addresses, NEW t \in Nat, NEW chains, t = heard[a], chains = told[a]
      PROVE  /\ t <= used'[a]
             /\ 0 < t /\ now + 1 < t + Floor /\ Fewer(a, t)' => Due(a) /\ Bound(a, t, chains)'
  <2>1. t <= used'[a]
    BY <1>2, <1>5 DEF Promised
  <2>2. ASSUME 0 < t, now + 1 < t + Floor, Fewer(a, t)' PROVE Due(a) /\ Bound(a, t, chains)'
    <3>1. Due(a)
      BY <1>3, <1>5, <2>1, <2>2 DEF Due, Fewer
    <3>. QED  BY <1>3, <1>5, <2>1, <2>2, <3>1 DEF Promised
  <2>. QED  BY <2>1, <2>2
<1>. QED  BY <1>4, <1>5

LEMMA RecordStep ==
  ASSUME BInv, NEW q \in Queries, Record(q)
  PROVE  BInv'
<1>0. PICK x : x = AnswerOf[q][rest[q] + 1]
  OBVIOUS
<1>1. Typed /\ Dated /\ Learnt /\ Promised
  BY DEF BInv
<1>2. /\ rest[q] + 1 \in 1..Len(AnswerOf[q]) /\ x \in Addresses
      /\ DOMAIN AnswerOf[q] = 1..Len(AnswerOf[q]) /\ Len(AnswerOf[q]) \in Nat
  BY <1>0, <1>1, RecordAt DEF Record
<1>3. UNCHANGED <<now, heard, told>> /\ used' = [used EXCEPT ![x] = now + 1] /\ now \in 0..MaxTime
  BY <1>0, <1>1 DEF Record, Typed
<1>4. /\ entries' \in [Addresses -> Entry \cup {Absent}] /\ Dated'
      /\ \A a \in Addresses, t \in Nat : \A chains :
           Bound(a, t, chains) /\ t <= used'[a] /\ Fewer(a, t)' => Bound(a, t, chains)'
      /\ Fewer(x, now + 1)' => Bound(x, now + 1, {ChainOf[q]})'
  BY <1>0, <1>1, RecordKeeps
<1>5. /\ used' \in [Addresses -> 0..(now + 1)] /\ used'[x] = now + 1
      /\ \A a \in Addresses : used[a] <= used'[a] /\ used'[a] <= now + 1
  BY <1>1, <1>2, <1>3, Durations DEF Typed
<1>6. used' \in [Addresses -> Nat]
  BY <1>3, <1>5, Durations
<1>7. \/ rest' = [rest EXCEPT ![q] = rest[q] + 1] /\ step' = step /\ rest[q] + 1 < Len(AnswerOf[q])
      \/ rest' = [rest EXCEPT ![q] = 0] /\ step' = [step EXCEPT ![q] = "recorded"]
         /\ rest[q] + 1 = Len(AnswerOf[q])
  BY <1>2 DEF Record
<1>8. Typed'
  <2>1. rest[q] + 1 \in Nat /\ "recorded" \in Points
    BY <1>2 DEF Points
  <2>2. rest' \in [Queries -> Nat] /\ step' \in [Queries -> Points]
    <3>1. rest \in [Queries -> Nat] /\ step \in [Queries -> Points]
      BY <1>1 DEF Typed
    <3>2. \/ rest' = [rest EXCEPT ![q] = rest[q] + 1] /\ step' = step
          \/ rest' = [rest EXCEPT ![q] = 0] /\ step' = [step EXCEPT ![q] = "recorded"]
      BY <1>7
    <3>. QED  BY <2>1, <3>1, <3>2
  <2>. QED  BY <1>1, <1>3, <1>4, <1>5, <2>2 DEF Typed
<1>9. /\ \A d \in Queries : \A i \in DOMAIN AnswerOf[d] : Learns(d, i) =>
           /\ used'[AnswerOf[d][i]] = now + 1
           /\ Fewer(AnswerOf[d][i], now + 1)' => Bound(AnswerOf[d][i], now + 1, {ChainOf[d]})'
      /\ \A a \in Addresses, t \in Nat : \A chains :
           t = heard[a] /\ chains = told[a] =>
             /\ t <= used'[a]
             /\ 0 < t /\ now + 1 < t + Floor /\ Fewer(a, t)' => Due(a) /\ Bound(a, t, chains)'
  BY <1>1, <1>3, <1>4, <1>5, <1>6, ClaimsKept
<1>10. Learnt'
  <2>1. ASSUME NEW d \in Queries, NEW i \in DOMAIN AnswerOf[d], Learns(d, i)'
        PROVE  /\ used'[AnswerOf[d][i]] = now + 1
               /\ Fewer(AnswerOf[d][i], now + 1)' => Bound(AnswerOf[d][i], now + 1, {ChainOf[d]})'
    <3>1. CASE Learns(d, i)
      BY <1>9, <3>1
    <3>2. CASE d = q /\ i = rest[q] + 1
      BY <1>0, <1>4, <1>5, <3>2
    <3>. QED
      <4>1. d # q => step'[d] = step[d] /\ rest'[d] = rest[d]
        BY <1>1, <1>7 DEF Typed
      <4>2. step[q] = "recording" /\ rest[q] \in Nat
        BY <1>1 DEF Record, Typed
      <4>3. d = q => i \in 1..Len(AnswerOf[q]) /\ (i <= rest[q] + 1)
        BY <1>1, <1>2, <1>7, <2>1, <4>2 DEF Learns, Typed
      <4>. QED  BY <2>1, <3>1, <3>2, <4>1, <4>2, <4>3 DEF Learns
  <2>2. \A d \in Queries : step'[d] = "answered" => rest'[d] = 0
    BY <1>1, <1>7 DEF Learnt, Typed, Record
  <2>3. \A d \in Queries : step'[d] = "recording" => rest'[d] < Len(AnswerOf[d])
    BY <1>1, <1>7 DEF Learnt, Typed
  <2>. QED  BY <1>3, <2>1, <2>2, <2>3 DEF Learnt, Bound, Fewer
<1>11. Promised'
  <2>1. \A a \in Addresses : heard[a] \in Nat
    BY <1>1, Durations DEF Typed
  <2>. QED  BY <1>3, <1>9, <2>1 DEF Promised, Due, Fewer, Bound
<1>. QED  BY <1>4, <1>8, <1>10, <1>11 DEF BInv

\* Learnt after a step that leaves the tasks alone, from what ClaimsKept says.
LEMMA LearntKept ==
  ASSUME Learnt, UNCHANGED <<now, step, rest>>,
         \A q \in Queries : \A i \in DOMAIN AnswerOf[q] : Learns(q, i) =>
           /\ used'[AnswerOf[q][i]] = now + 1
           /\ Fewer(AnswerOf[q][i], now + 1)' => Bound(AnswerOf[q][i], now + 1, {ChainOf[q]})'
  PROVE  Learnt'
<1>1. ASSUME NEW q \in Queries, NEW i \in DOMAIN AnswerOf[q], Learns(q, i)'
      PROVE  /\ used'[AnswerOf[q][i]] = now' + 1
             /\ Fewer(AnswerOf[q][i], now + 1)' => Bound(AnswerOf[q][i], now + 1, {ChainOf[q]})'
  <2>1. Learns(q, i) /\ now' = now
    BY <1>1 DEF Learns
  <2>2. /\ used'[AnswerOf[q][i]] = now + 1
        /\ Fewer(AnswerOf[q][i], now + 1)' => Bound(AnswerOf[q][i], now + 1, {ChainOf[q]})'
    BY <2>1 DEF Fewer, Bound
  <2>. QED  BY <2>1, <2>2 DEF Fewer, Bound
<1>2. \A q \in Queries : /\ step'[q] = "answered" => rest'[q] = 0
                         /\ step'[q] = "recording" => rest'[q] < Len(AnswerOf[q])
  BY DEF Learnt
<1>. QED  BY <1>1, <1>2 DEF Learnt, Learns, Fewer, Bound

\* A flow's lookup refreshes the binding it finds.
LEMMA LookupHitStep ==
  ASSUME BInv, NEW x \in Addresses, LookupHit(x)
  PROVE  BInv'
<1>1. Typed /\ Dated /\ Learnt /\ Promised /\ now \in Nat /\ now \in 0..MaxTime
  BY Durations DEF BInv, Typed
<1>2. /\ UNCHANGED <<now, step, rest>> /\ used' = [used EXCEPT ![x] = now + 1]
      /\ heard' = [heard EXCEPT ![x] = now + 1]
      /\ told' = [told EXCEPT ![x] = IF Due(x) THEN told[x] ELSE {}]
  BY DEF LookupHit, tasks
<1>3. /\ used' \in [Addresses -> 0..(now + 1)] /\ used'[x] = now + 1
      /\ \A a \in Addresses : used[a] <= used'[a] /\ used'[a] <= now + 1
      /\ used' \in [Addresses -> Nat]
  BY <1>1, <1>2, Durations DEF Typed
<1> DEFINE later == Larger(entries[x].expires, now + Floor)
<1>4. /\ entries[x] \in Entry /\ entries[x].expires \in Nat
      /\ entries[x].expires < now + 1 + Cap
  <2>1. entries[x] \in Entry
    BY <1>1 DEF LookupHit, Typed
  <2>2. entries[x].expires \in Nat
    BY <2>1 DEF Entry
  <2>3. entries[x].expires < used[x] + Cap /\ used[x] \in 0..(now + 1)
    BY <1>1 DEF LookupHit, Dated, Typed
  <2>. QED  BY <1>1, <2>1, <2>2, <2>3, Durations
<1>5. later \in Nat /\ entries[x].expires <= later /\ now + Floor <= later /\ later < now + 1 + Cap
  BY <1>1, <1>4, Durations DEF Larger
<1> HIDE DEF later
<1>6. /\ entries' \in [Addresses -> Entry \cup {Absent}]
      /\ \A c \in Addresses \ {x} : entries'[c] = entries[c]
      /\ entries'[x] \in Entry /\ entries'[x].seen = now /\ entries'[x].expires = later
      /\ entries'[x].chains = entries[x].chains
  <2>1. entries' = [entries EXCEPT ![x] = [entries[x] EXCEPT !.seen = now, !.expires = later]]
    BY <1>1, <1>4 DEF LookupHit, later, Typed, Entry
  <2>2. /\ [entries[x] EXCEPT !.seen = now, !.expires = later] \in Entry
        /\ [entries[x] EXCEPT !.seen = now, !.expires = later].seen = now
        /\ [entries[x] EXCEPT !.seen = now, !.expires = later].expires = later
        /\ [entries[x] EXCEPT !.seen = now, !.expires = later].chains = entries[x].chains
    BY <1>1, <1>4, <1>5 DEF Entry
  <2>3. entries \in [Addresses -> Entry \cup {Absent}]
    BY <1>1 DEF Typed
  <2>. QED  BY <2>1, <2>2, <2>3
<1>7. entries'[x] # Absent
  BY <1>6, EntryAssumption
<1>8. Typed'
  <2>1. heard' \in [Addresses -> 0..(now + 1)]
    BY <1>1, <1>2, Durations DEF Typed
  <2>2. told' \in [Addresses -> SUBSET Chains]
    BY <1>1, <1>2 DEF Typed
  <2>. QED  BY <1>1, <1>2, <1>3, <1>6, <2>1, <2>2 DEF Typed
<1>9. Dated'
  <2>1. \A c \in Addresses \ {x} : used'[c] = used[c]
    BY <1>1, <1>2 DEF Typed
  <2>. QED  BY <1>1, <1>3, <1>5, <1>6, <2>1 DEF Dated
<1>10. \A a \in Addresses, t \in Nat : \A chains :
         now + 1 < t + Floor /\ Bound(a, t, chains) /\ t <= used'[a] /\ Fewer(a, t)' => Bound(a, t, chains)'
  <2>1. ASSUME NEW a \in Addresses, NEW t \in Nat, NEW chains, Bound(a, t, chains) PROVE Bound(a, t, chains)'
    <3>1. CASE a # x
      BY <1>6, <2>1, <3>1 DEF Bound
    <3>2. CASE a = x
      <4>1. t + Floor <= later + 1
        BY <1>4, <1>5, <2>1, <3>2, Durations DEF Bound
      <4>. QED  BY <1>6, <1>7, <2>1, <3>2, <4>1 DEF Bound
    <3>. QED  BY <3>1, <3>2
  <2>. QED  BY <2>1
<1>11. /\ \A d \in Queries : \A i \in DOMAIN AnswerOf[d] : Learns(d, i) =>
            /\ used'[AnswerOf[d][i]] = now + 1
            /\ Fewer(AnswerOf[d][i], now + 1)' => Bound(AnswerOf[d][i], now + 1, {ChainOf[d]})'
       /\ \A a \in Addresses, t \in Nat : \A chains :
            t = heard[a] /\ chains = told[a] =>
              /\ t <= used'[a]
              /\ 0 < t /\ now + 1 < t + Floor /\ Fewer(a, t)' => Due(a) /\ Bound(a, t, chains)'
  BY <1>1, <1>2, <1>3, <1>10, ClaimsKept
<1>12. Learnt'
  BY <1>1, <1>2, <1>11, LearntKept DEF Fewer, Bound
<1>13. Promised'
  <2>1. \A a \in Addresses : heard[a] \in Nat
    BY <1>1, Durations DEF Typed
  <2>2. \A a \in Addresses \ {x} : heard'[a] <= used'[a] /\ (Due(a)' => Bound(a, heard[a], told[a])')
    <3>1. \A a \in Addresses \ {x} : heard'[a] = heard[a] /\ told'[a] = told[a]
      BY <1>1, <1>2 DEF Typed
    <3>. QED  BY <1>2, <1>11, <2>1, <3>1 DEF Due, Fewer, Bound
  <2>3. heard'[x] = now + 1 /\ told'[x] = IF Due(x) THEN told[x] ELSE {}
    BY <1>1, <1>2 DEF Typed
  <2>4. told'[x] \subseteq entries'[x].chains
    BY <1>1, <1>6, <2>3 DEF Promised, Bound
  <2>5. now + 1 + Floor <= later + 1
    BY <1>1, <1>5, Durations
  <2>6. Bound(x, heard[x], told[x])'
    BY <1>6, <1>7, <2>3, <2>4, <2>5 DEF Bound
  <2>7. heard'[x] <= used'[x]
    BY <1>1, <1>3, <2>3
  <2>. QED  BY <2>2, <2>6, <2>7 DEF Promised
<1>. QED  BY <1>8, <1>9, <1>12, <1>13 DEF BInv

\* What has expired was not due.
LEMMA LookupExpiredStep ==
  ASSUME BInv, NEW x \in Addresses, LookupExpired(x)
  PROVE  BInv'
<1>1. Typed /\ Dated /\ Learnt /\ Promised /\ now \in Nat
  BY Durations DEF BInv, Typed
<1>2. /\ UNCHANGED <<now, step, rest, used, heard, told>>
      /\ entries' = [entries EXCEPT ![x] = Absent]
      /\ entries[x] \in Entry /\ entries[x].expires <= now
  BY <1>1 DEF LookupExpired, tasks, history, Typed
<1>3. Typed'
  BY <1>1, <1>2 DEF Typed
<1>4. \A c \in Addresses : entries'[c] # Absent => c # x /\ entries'[c] = entries[c]
  BY <1>1, <1>2 DEF Typed
<1>5. Dated'
  BY <1>1, <1>2, <1>4 DEF Dated
<1>6. used' \in [Addresses -> Nat] /\ \A a \in Addresses : used[a] <= used'[a] /\ used'[a] <= now + 1
  BY <1>1, <1>2, Durations DEF Typed
<1>7. \A a \in Addresses, t \in Nat : \A chains :
        now + 1 < t + Floor /\ Bound(a, t, chains) /\ t <= used'[a] /\ Fewer(a, t)' => Bound(a, t, chains)'
  <2>1. ASSUME NEW a \in Addresses, NEW t \in Nat, NEW chains, now + 1 < t + Floor, Bound(a, t, chains)
        PROVE  Bound(a, t, chains)'
    <3>1. entries[x].expires \in Nat
      BY <1>2 DEF Entry
    <3>2. a # x
      BY <1>1, <1>2, <2>1, <3>1, Durations DEF Bound
    <3>3. entries'[a] = entries[a]
      BY <1>1, <1>2, <3>2 DEF Typed
    <3>. QED  BY <2>1, <3>3 DEF Bound
  <2>. QED  BY <2>1
<1>8. /\ \A d \in Queries : \A i \in DOMAIN AnswerOf[d] : Learns(d, i) =>
           /\ used'[AnswerOf[d][i]] = now + 1
           /\ Fewer(AnswerOf[d][i], now + 1)' => Bound(AnswerOf[d][i], now + 1, {ChainOf[d]})'
      /\ \A a \in Addresses, t \in Nat : \A chains :
           t = heard[a] /\ chains = told[a] =>
             /\ t <= used'[a]
             /\ 0 < t /\ now + 1 < t + Floor /\ Fewer(a, t)' => Due(a) /\ Bound(a, t, chains)'
  BY <1>1, <1>2, <1>6, <1>7, ClaimsKept
<1>9. Learnt'
  BY <1>1, <1>2, <1>8, LearntKept DEF Fewer, Bound
<1>10. Promised'
  <2>1. \A a \in Addresses : heard[a] \in Nat
    BY <1>1, Durations DEF Typed
  <2>. QED  BY <1>2, <1>8, <2>1 DEF Promised, Due, Fewer, Bound
<1>. QED  BY <1>3, <1>5, <1>9, <1>10 DEF BInv

\* The guest hears what has been recorded for it.
LEMMA RespondStep ==
  ASSUME BInv, NEW q \in Queries, Respond(q)
  PROVE  BInv'
<1>1. Typed /\ Dated /\ Learnt /\ Promised /\ now \in Nat
  BY Durations DEF BInv, Typed
<1> DEFINE addresses == {AnswerOf[q][i] : i \in DOMAIN AnswerOf[q]}
<1>2. /\ step[q] = "recorded" /\ step' = [step EXCEPT ![q] = "idle"] /\ UNCHANGED <<now, entries, rest, used>>
      /\ heard' = [a \in Addresses |-> IF a \in addresses THEN now + 1 ELSE heard[a]]
      /\ told' = [a \in Addresses |->
           IF a \in addresses THEN {ChainOf[q]} \cup (IF Due(a) THEN told[a] ELSE {}) ELSE told[a]]
  BY DEF Respond
<1>3. ChainOf[q] \in Chains
  BY DEF Chains
<1>4. Typed'
  <2>1. step' \in [Queries -> Points]
    BY <1>1, <1>2 DEF Typed, Points
  <2>2. heard' \in [Addresses -> 0..(now + 1)]
    BY <1>1, <1>2 DEF Typed
  <2>3. told' \in [Addresses -> SUBSET Chains]
    BY <1>1, <1>2, <1>3 DEF Typed
  <2>. QED  BY <1>1, <1>2, <2>1, <2>2, <2>3 DEF Typed
<1>5. Dated'
  BY <1>1, <1>2 DEF Dated
<1>6. Learnt'
  <2>1. \A d \in Queries \ {q} : step'[d] = step[d]
    BY <1>1, <1>2 DEF Typed
  <2>2. step'[q] = "idle"
    BY <1>1, <1>2 DEF Typed
  <2>3. ASSUME NEW d \in Queries, NEW i \in DOMAIN AnswerOf[d], Learns(d, i)'
        PROVE  /\ used'[AnswerOf[d][i]] = now' + 1
               /\ Fewer(AnswerOf[d][i], now + 1)' => Bound(AnswerOf[d][i], now + 1, {ChainOf[d]})'
    <3>1. Learns(d, i)
      BY <1>2, <2>1, <2>2, <2>3 DEF Learns
    <3>. QED  BY <1>1, <1>2, <3>1 DEF Learnt, Bound, Fewer
  <2>4. \A d \in Queries : /\ step'[d] = "answered" => rest'[d] = 0
                           /\ step'[d] = "recording" => rest'[d] < Len(AnswerOf[d])
    BY <1>1, <1>2, <2>1, <2>2 DEF Learnt
  <2>. QED  BY <2>3, <2>4 DEF Learnt
<1>7. Promised'
  <2>1. ASSUME NEW a \in Addresses, a \in addresses
        PROVE  heard'[a] <= used'[a] /\ (Due(a)' => Bound(a, heard[a], told[a])')
    <3>1. heard'[a] = now + 1 /\ told'[a] = {ChainOf[q]} \cup (IF Due(a) THEN told[a] ELSE {})
      BY <1>2, <2>1
    <3>2. used[a] = now + 1 /\ (Fewer(a, now + 1) => Bound(a, now + 1, {ChainOf[q]}))
      BY <1>1, <1>2, <2>1 DEF Learnt, Learns
    <3>3. Due(a)' => Fewer(a, now + 1)
      BY <1>2, <3>1 DEF Due, Fewer
    <3>4. Due(a) => told[a] \subseteq entries[a].chains
      BY <1>1 DEF Promised, Bound
    <3>5. Due(a)' => Bound(a, heard[a], told[a])'
      BY <1>2, <3>1, <3>2, <3>3, <3>4 DEF Bound
    <3>6. heard'[a] <= used'[a]
      BY <1>1, <1>2, <3>1, <3>2
    <3>. QED  BY <3>5, <3>6
  <2>2. ASSUME NEW a \in Addresses, a \notin addresses
        PROVE  heard'[a] <= used'[a] /\ (Due(a)' => Bound(a, heard[a], told[a])')
    <3>1. heard'[a] = heard[a] /\ told'[a] = told[a]
      BY <1>2, <2>2
    <3>. QED  BY <1>1, <1>2, <3>1 DEF Promised, Due, Bound
  <2>. QED  BY <2>1, <2>2 DEF Promised
<1>. QED  BY <1>4, <1>5, <1>6, <1>7 DEF BInv

\* A task that is not at the store disturbs nothing in it.
LEMMA TaskStep ==
  ASSUME BInv, NEW q \in Queries, Ask(q) \/ TryNext(q) \/ Receive(q) \/ LockStore(q)
  PROVE  BInv'
<1>1. Typed /\ Dated /\ Learnt /\ Promised
  BY DEF BInv
<1>2. UNCHANGED <<now, entries, used, heard, told>>
  BY DEF Ask, TryNext, Receive, LockStore, history
<1>3. /\ step' \in [Queries -> Points] /\ rest' \in [Queries -> Nat]
      /\ \A d \in Queries \ {q} : step'[d] = step[d] /\ rest'[d] = rest[d]
  <2>1. step \in [Queries -> Points] /\ rest \in [Queries -> Nat] /\ Upstreams \in Nat
    BY <1>1, BindingAssumption DEF Typed
  <2>2. CASE Ask(q)
    BY <2>1, <2>2 DEF Ask, Points
  <2>3. CASE TryNext(q)
    <3>1. rest[q] > 1 => rest[q] - 1 \in Nat
      BY <2>1
    <3>. QED  BY <2>1, <2>3, <3>1 DEF TryNext, Points
  <2>4. CASE Receive(q)
    BY <2>1, <2>4 DEF Receive, Points
  <2>5. CASE LockStore(q)
    BY <2>1, <2>5 DEF LockStore, Points
  <2>. QED  BY <2>2, <2>3, <2>4, <2>5
<1>4. /\ step'[q] = "answered" => rest'[q] = 0
      /\ step'[q] = "recording" => rest'[q] = 0 /\ AnswerOf[q] # <<>>
      /\ step'[q] = "recorded" => AnswerOf[q] = <<>>
  <2>1. CASE Ask(q)
    BY <1>1, <2>1 DEF Ask, Typed
  <2>2. CASE TryNext(q)
    BY <1>1, <2>2 DEF TryNext, Typed
  <2>3. CASE Receive(q)
    BY <1>1, <2>3 DEF Receive, Typed
  <2>4. CASE LockStore(q)
    BY <1>1, <2>4 DEF LockStore, Typed, Learnt
  <2>. QED  BY <2>1, <2>2, <2>3, <2>4
<1>5. AnswerOf[q] # <<>> => 0 < Len(AnswerOf[q])
  BY BindingAssumption
<1>6. Learnt'
  <2>1. ASSUME NEW i \in DOMAIN AnswerOf[q], Learns(q, i)' PROVE FALSE
    <3>1. AnswerOf[q] \in Seq(Addresses)
      BY BindingAssumption
    <3>2. i \in 1..Len(AnswerOf[q])
      BY <2>1, <3>1
    <3>3. Len(AnswerOf[q]) \in Nat /\ (AnswerOf[q] = <<>> => Len(AnswerOf[q]) = 0)
      BY <3>1
    <3>4. 1 <= i /\ i <= Len(AnswerOf[q])
      BY <3>2, <3>3
    <3>5. step'[q] = "recorded" \/ (step'[q] = "recording" /\ i <= rest'[q])
      BY <2>1 DEF Learns
    <3>6. i \in Nat
      BY <3>2, <3>3
    <3>7. CASE step'[q] = "recorded"
      BY <1>4, <3>3, <3>4, <3>6, <3>7
    <3>8. CASE step'[q] = "recording" /\ i <= rest'[q]
      BY <1>4, <3>4, <3>6, <3>8
    <3>. QED  BY <3>5, <3>7, <3>8
  <2>2. ASSUME NEW d \in Queries, NEW i \in DOMAIN AnswerOf[d], Learns(d, i)'
        PROVE  /\ used'[AnswerOf[d][i]] = now' + 1
               /\ Fewer(AnswerOf[d][i], now + 1)' => Bound(AnswerOf[d][i], now + 1, {ChainOf[d]})'
    <3>1. d # q
      BY <2>1, <2>2
    <3>2. Learns(d, i)
      BY <1>3, <2>2, <3>1 DEF Learns
    <3>. QED  BY <1>1, <1>2, <3>2 DEF Learnt, Bound, Fewer
  <2>3. \A d \in Queries : step'[d] = "answered" => rest'[d] = 0
    BY <1>1, <1>3, <1>4 DEF Learnt
  <2>4. \A d \in Queries : step'[d] = "recording" => rest'[d] < Len(AnswerOf[d])
    BY <1>1, <1>3, <1>4, <1>5 DEF Learnt
  <2>. QED  BY <2>2, <2>3, <2>4 DEF Learnt
<1>7. Typed' /\ Dated' /\ Promised'
  BY <1>1, <1>2, <1>3 DEF Typed, Dated, Promised, Due, Bound
<1>. QED  BY <1>6, <1>7 DEF BInv

\* Time passes only when no task is at the store.
LEMMA TickStep ==
  ASSUME BInv, Tick
  PROVE  BInv'
<1>1. Typed /\ Dated /\ Learnt /\ Promised /\ now \in Nat
  BY Durations DEF BInv, Typed
<1>2. /\ UNCHANGED <<entries, step, rest, used, heard, told>> /\ now' = now + 1 /\ now < MaxTime
      /\ \A q \in Queries : step[q] \in {"idle", "trying"}
  BY DEF Tick, tasks, history
<1>3. Typed'
  BY <1>1, <1>2, Durations DEF Typed
<1>4. Dated'
  BY <1>1, <1>2 DEF Dated
<1>5. Learnt'
  BY <1>2 DEF Learnt, Learns
<1>6. \A a \in Addresses : Due(a)' => Due(a)
  <2>1. \A a \in Addresses : heard[a] \in Nat
    BY <1>1 DEF Typed
  <2>. QED  BY <1>1, <1>2, <2>1, Durations DEF Due
<1>7. Promised'
  BY <1>1, <1>2, <1>6 DEF Promised, Bound
<1>. QED  BY <1>3, <1>4, <1>5, <1>7 DEF BInv

LEMMA BindingInvariance == BindingsSpec => []BInv
<1>1. BindingsInit => BInv
  <2>. SUFFICES ASSUME BindingsInit PROVE BInv
    OBVIOUS
  <2>1. Typed
    BY Durations DEF BindingsInit, Typed, Points
  <2>2. Dated /\ Learnt /\ Promised
    BY DEF BindingsInit, Dated, Learnt, Learns, Promised, Due
  <2>. QED  BY <2>1, <2>2 DEF BInv
<1>2. BInv /\ [BindingsNext]_bindingVars => BInv'
  <2>. SUFFICES ASSUME BInv, [BindingsNext]_bindingVars PROVE BInv'
    OBVIOUS
  <2>1. CASE UNCHANGED bindingVars
    <3>1. /\ UNCHANGED <<now, entries, step, rest, used, heard, told>>
          /\ Typed /\ Dated /\ Learnt /\ Promised
      BY <2>1 DEF bindingVars, tasks, history, BInv
    <3>2. Typed' /\ Dated' /\ Promised'
      BY <3>1 DEF Typed, Dated, Promised, Due, Bound
    <3>3. ASSUME NEW q \in Queries, NEW i \in DOMAIN AnswerOf[q], Learns(q, i)'
          PROVE  /\ used'[AnswerOf[q][i]] = now' + 1
                 /\ Fewer(AnswerOf[q][i], now + 1)' => Bound(AnswerOf[q][i], now + 1, {ChainOf[q]})'
      <4>1. Learns(q, i)
        BY <3>1, <3>3 DEF Learns
      <4>. QED  BY <3>1, <4>1 DEF Learnt, Bound, Fewer
    <3>4. \A q \in Queries : /\ step'[q] = "answered" => rest'[q] = 0
                             /\ step'[q] = "recording" => rest'[q] < Len(AnswerOf[q])
      BY <3>1 DEF Learnt
    <3>5. Learnt'
      BY <3>3, <3>4 DEF Learnt
    <3>. QED  BY <3>2, <3>5 DEF BInv
  <2>. QED
    BY <2>1, RecordStep, LookupHitStep, LookupExpiredStep, RespondStep, TaskStep, TickStep DEF BindingsNext
<1>. QED  BY <1>1, <1>2, PTL DEF BindingsSpec

\* What the guest was told stays bound while it is due (bindings.rs:97-170,
\* observer.rs), whatever is recorded, looked up and evicted meanwhile.
THEOREM DueIsBound == BindingsSpec => []AnswersAreBound
<1>1. BInv => AnswersAreBound
  <2>. SUFFICES ASSUME BInv, NEW a \in Addresses, Due(a)
                PROVE  /\ entries[a] # Absent /\ now < entries[a].expires
                       /\ told[a] \subseteq entries[a].chains
    BY DEF AnswersAreBound
  <2>1. Bound(a, heard[a], told[a]) /\ now + 1 < heard[a] + Floor
    BY DEF BInv, Promised, Due
  <2>2. entries[a].expires \in Nat /\ heard[a] \in Nat /\ now \in Nat
    BY <2>1, Durations DEF BInv, Typed, Entry, Bound
  <2>3. now < entries[a].expires
    BY <2>1, <2>2, Durations DEF Bound
  <2>. QED  BY <2>1, <2>3 DEF Bound
<1>. QED  BY <1>1, BindingInvariance, PTL

\* What nobody uses ends (bindings.rs, TTL_CAP).
THEOREM UnusedEnds == BindingsSpec => []UnusedBindingsEnd
<1>1. BInv => UnusedBindingsEnd
  <2>. SUFFICES ASSUME BInv, NEW a \in Addresses, entries[a] # Absent, now < entries[a].expires
                PROVE  now + 1 < used[a] + Cap
    BY DEF UnusedBindingsEnd
  <2>1. entries[a].expires < used[a] + Cap
    BY DEF BInv, Dated
  <2>2. entries[a].expires \in Nat /\ used[a] \in Nat /\ now \in Nat
    BY Durations DEF BInv, Typed, Entry
  <2>. QED  BY <2>1, <2>2, Durations
<1>. QED  BY <1>1, BindingInvariance, PTL
=============================================================================
