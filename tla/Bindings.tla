------------------------------ MODULE Bindings ------------------------------
(***************************************************************************)
(* What a sandbox has looked up (broker/bindings.rs), and the resolver     *)
(* tasks that learn it (broker/observer.rs): a query is forwarded to the   *)
(* upstream resolvers in turn, its answer recorded, and only then passed   *)
(* on.  The mediator's lookups refresh a binding.                          *)
(*                                                                         *)
(* The store is locked for one response, recorded address by address, or   *)
(* for one lookup.  Time is coarse: no task sits on a response for a tick. *)
(***************************************************************************)
EXTENDS Naturals, Sequences, FiniteSets

CONSTANTS
  Queries,      \* what the guest may ask for
  Addresses,    \* canonical addresses
  AnswerOf,     \* query -> the addresses of its answer, in order
  ChainOf,      \* query -> the chain its answer gives
  TtlOf,        \* query -> the TTL of its answer, in ticks
  Upstreams,    \* number of upstream resolvers
  Capacity,     \* BindingStore::capacity
  Floor, Cap,   \* TTL_FLOOR and TTL_CAP, in ticks
  MaxTime,      \* bound: ticks
  Absent,       \* no entry
  NoQuery        \* no query

ASSUME BindingAssumption ==
  /\ AnswerOf \in [Queries -> Seq(Addresses)]
  /\ TtlOf \in [Queries -> Nat]
  /\ Upstreams \in Nat /\ Capacity \in Nat \ {0}
  /\ Floor \in Nat \ {0} /\ Cap \in Nat /\ Floor <= Cap
  /\ MaxTime \in Nat
  /\ NoQuery \notin Queries
  /\ IsFiniteSet(Addresses)

VARIABLES
  now,
  entries,      \* address -> its Entry, or Absent
  storeLock,    \* the query whose response is being recorded
  step,         \* where each query's task is
  rest,         \* upstreams left to try, or addresses left to record
  used,         \* history: when each address was last recorded or looked up
  heard,        \* history: when the guest last heard of or used each address
  told          \* history: chains the guest counts on

tasks       == <<storeLock, step, rest>>
history     == <<used, heard, told>>
bindingVars == <<now, entries, tasks, history>>

Chains == {ChainOf[q] : q \in Queries}
Known(es) == {a \in Addresses : es[a] # Absent}
Entry == [chains : SUBSET Chains, expires : Nat, seen : 0..MaxTime]
ASSUME EntryAssumption == Absent \notin Entry
Points == {"idle", "trying", "answered", "recording", "recorded"}

\* Times of the history are one later than those of the store: 0 is never.
BindingsInit ==
  /\ now = 0
  /\ entries = [a \in Addresses |-> Absent]
  /\ storeLock = NoQuery
  /\ step = [q \in Queries |-> "idle"]
  /\ rest = [q \in Queries |-> 0]
  /\ used = [a \in Addresses |-> 0]
  /\ heard = [a \in Addresses |-> 0]
  /\ told = [a \in Addresses |-> {}]

-----------------------------------------------------------------------------
(* The store                                                               *)

Larger(m, n) == IF m > n THEN m ELSE n

Clamped(ttl) == IF ttl < Floor THEN Floor ELSE IF ttl > Cap THEN Cap ELSE ttl

\* Fault variant: the time of a further record is added to what is left.
RecordedOnTop(a, chain, ttl) ==
  LET old == entries[a]
      expires == (IF old = Absent THEN now ELSE old.expires) + Clamped(ttl)
  IN  [entries EXCEPT ![a] =
        [chains |-> {chain} \cup IF old = Absent THEN {} ELSE old.chains,
         expires |-> expires, seen |-> now]]

\* record() of one address: a new entry, or one more chain and more time.
Recorded(a, chain, ttl) ==
  LET old == entries[a]
      expires == now + Clamped(ttl)
  IN  IF old = Absent
      THEN [entries EXCEPT ![a] =
             [chains |-> {chain}, expires |-> expires, seen |-> now]]
      ELSE [entries EXCEPT ![a] =
             [chains |-> old.chains \cup {chain},
              expires |-> Larger(old.expires, expires), seen |-> now]]

\* Fault variant: the entry that would expire first goes.
TrimmedByExpiry(es) ==
  IF Cardinality(Known(es)) <= Capacity THEN {es}
  ELSE {[es EXCEPT ![b] = Absent] : b \in
         {a \in Known(es) : \A c \in Known(es) : es[a].expires <= es[c].expires}}

\* An entry too many: one of those not seen for longest goes.
Trimmed(es) ==
  IF Cardinality(Known(es)) <= Capacity THEN {es}
  ELSE {[es EXCEPT ![b] = Absent] : b \in
         {a \in Known(es) : \A c \in Known(es) : es[a].seen <= es[c].seen}}

-----------------------------------------------------------------------------
(* Resolver tasks                                                          *)

\* The guest's view: what it heard of less than Floor ago, and fewer than
\* Capacity other addresses used since, must still be bound.
Due(a) ==
  /\ heard[a] > 0 /\ now + 1 < heard[a] + Floor
  /\ Cardinality({b \in Addresses \ {a} : used[b] >= heard[a]}) < Capacity

Ask(q) ==
  /\ step[q] = "idle"
  /\ step' = [step EXCEPT ![q] = "trying"]
  /\ rest' = [rest EXCEPT ![q] = Upstreams]
  /\ UNCHANGED <<now, entries, storeLock, history>>

\* Fault variant: every stray datagram restarts the upstream's deadline.
TryAgain(q) ==
  /\ step[q] = "trying" /\ rest[q] > 1
  /\ rest' = [rest EXCEPT ![q] = @ - 1]
  /\ UNCHANGED <<now, entries, storeLock, step, history>>

\* No answer from one upstream in time: the next, or none at all.
TryNext(q) ==
  /\ step[q] = "trying"
  /\ IF rest[q] > 1
     THEN rest' = [rest EXCEPT ![q] = @ - 1] /\ UNCHANGED step
     ELSE step' = [step EXCEPT ![q] = "idle"] /\ rest' = [rest EXCEPT ![q] = 0]
  /\ UNCHANGED <<now, entries, storeLock, history>>

\* An answer with the query's id from the upstream that was asked.
Receive(q) ==
  /\ step[q] = "trying" /\ rest[q] > 0
  /\ step' = [step EXCEPT ![q] = "answered"]
  /\ rest' = [rest EXCEPT ![q] = 0]
  /\ UNCHANGED <<now, entries, storeLock, history>>

\* record_dns(): nothing to learn, or the store's storeLock for all of it.
LockStore(q) ==
  /\ step[q] = "answered"
  /\ IF AnswerOf[q] = <<>>
     THEN step' = [step EXCEPT ![q] = "recorded"] /\ UNCHANGED storeLock
     ELSE storeLock = NoQuery /\ storeLock' = q /\ step' = [step EXCEPT ![q] = "recording"]
  /\ UNCHANGED <<now, entries, rest, history>>

Record(q) ==
  /\ step[q] = "recording"
  /\ LET a == AnswerOf[q][rest[q] + 1]
     IN  /\ entries' \in Trimmed(Recorded(a, ChainOf[q], TtlOf[q]))
         /\ used' = [used EXCEPT ![a] = now + 1]
  /\ IF rest[q] + 1 < Len(AnswerOf[q])
     THEN rest' = [rest EXCEPT ![q] = @ + 1] /\ UNCHANGED <<step, storeLock>>
     ELSE /\ rest' = [rest EXCEPT ![q] = 0]
          /\ step' = [step EXCEPT ![q] = "recorded"]
          /\ storeLock' = NoQuery
  /\ UNCHANGED <<now, heard, told>>

\* The guest hears the answer.
Respond(q) ==
  /\ step[q] = "recorded"
  /\ step' = [step EXCEPT ![q] = "idle"]
  /\ LET addresses == {AnswerOf[q][i] : i \in DOMAIN AnswerOf[q]}
     IN  /\ heard' = [a \in Addresses |-> IF a \in addresses THEN now + 1 ELSE heard[a]]
         /\ told' = [a \in Addresses |->
              IF a \in addresses THEN {ChainOf[q]} \cup (IF Due(a) THEN told[a] ELSE {})
              ELSE told[a]]
  /\ UNCHANGED <<now, entries, storeLock, rest, used>>

-----------------------------------------------------------------------------
(* The mediator                                                            *)

\* A flow to a bound address refreshes the binding.
LookupHit(a) ==
  /\ storeLock = NoQuery
  /\ entries[a] # Absent /\ now < entries[a].expires
  /\ entries' = [entries EXCEPT ![a].seen = now, ![a].expires = Larger(@, now + Floor)]
  /\ used' = [used EXCEPT ![a] = now + 1]
  /\ heard' = [heard EXCEPT ![a] = now + 1]
  /\ told' = [told EXCEPT ![a] = IF Due(a) THEN @ ELSE {}]
  /\ UNCHANGED <<now, tasks>>

\* An expired binding goes when it is looked for.
LookupExpired(a) ==
  /\ storeLock = NoQuery
  /\ entries[a] # Absent /\ entries[a].expires <= now
  /\ entries' = [entries EXCEPT ![a] = Absent]
  /\ UNCHANGED <<now, tasks, history>>

Tick ==
  /\ now < MaxTime
  /\ \A q \in Queries : step[q] \in {"idle", "trying"}
  /\ now' = now + 1
  /\ UNCHANGED <<entries, tasks, history>>

BindingsNext ==
  \/ \E q \in Queries :
       Ask(q) \/ TryNext(q) \/ Receive(q) \/ LockStore(q) \/ Record(q) \/ Respond(q)
  \/ \E a \in Addresses : LookupHit(a) \/ LookupExpired(a)
  \/ Tick

\* Every upstream's deadline passes, answered or not; a task that wants the
\* store gets it some time, as nobody holds it across an await.
Fairness == \A q \in Queries :
  /\ WF_bindingVars(TryNext(q))
  /\ SF_bindingVars(LockStore(q))
  /\ WF_bindingVars(Record(q))
  /\ WF_bindingVars(Respond(q))

BindingsSpec == BindingsInit /\ [][BindingsNext]_bindingVars /\ Fairness

-----------------------------------------------------------------------------
(* Properties                                                              *)

\* A guest that connects to an address it was told of finds its lookup bound:
\* recorded before the answer goes out, kept for Floor after every use
\* whatever the TTL was, and evicted only in favour of Capacity addresses
\* used since (design section 6, "Generously expiring", "Bounded").
AnswersAreBound ==
  \A a \in Addresses : Due(a) =>
    /\ entries[a] # Absent /\ now < entries[a].expires
    /\ told[a] \subseteq entries[a].chains

\* A binding nobody uses ends: it is never found longer than Cap after its
\* last record or lookup, however the two alternate.
UnusedBindingsEnd ==
  \A a \in Addresses : entries[a] # Absent /\ now < entries[a].expires
    => now + 1 < used[a] + Cap

\* Every query ends, answered or given up, whether upstreams answer or not
\* (UPSTREAM_TIMEOUT bounds each of them, strays do not extend it).
QueriesEnd == \A q \in Queries : step[q] # "idle" ~> step[q] = "idle"
=============================================================================
