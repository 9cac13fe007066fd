------------------------------- MODULE Mediator -------------------------------
(***************************************************************************)
(* One connection of a sandbox's proxy client (broker/mediator/): the      *)
(* SOCKS5 handshake (mod.rs, socks5.rs), CONNECT with its admission, its   *)
(* upstream connection and the splice (tcp.rs), and UDP ASSOCIATE, whose   *)
(* relay is module UdpRelay: the connection is what keeps it open.         *)
(*                                                                         *)
(* What the client sends is read where the handler reads it.  A message is *)
(* the kind of it the handler tells apart; replies are their codes.        *)
(***************************************************************************)
EXTENDS UdpRelay

VARIABLES
  stage,     \* where handle() is
  replied,   \* the last code sent
  gone,      \* the client has closed its side
  early,     \* it sent something before it had the reply
  retired    \* the registration's token is cancelled

conn == <<stage, replied, gone, early, retired>>
allVars == <<conn, vars>>

Reading == {"greeting", "credentials", "request"}
Flowing == {"deciding", "connecting", "splicing", "associated"}

\* What read_request() makes of an address; names have a grammar.
Addresses == {"ip", "name", "malformed"}

MediatorInit ==
  /\ Init
  /\ stage = "greeting" /\ replied = "none"
  /\ gone = FALSE /\ early = FALSE /\ retired = FALSE

Goes(from, to) == stage = from /\ stage' = to
Replies(from, code, to) == Goes(from, to) /\ replied' = code
Rest == UNCHANGED <<gone, early, retired, vars>>

-----------------------------------------------------------------------------
(* The handshake.                                                          *)

\* Each read fails on a version or a form that is not SOCKS5's, and at the
\* end of the stream; a reply may find nobody: the connection is dropped.
Broken ==
  /\ stage \in Reading \/ (gone /\ stage = "connecting")
  /\ stage' = "closed"
  /\ UNCHANGED replied /\ Rest

\* Only username and password will do.
Greeting(offersPassword) ==
  /\ Rest
  /\ IF offersPassword THEN Replies("greeting", "userpass", "credentials")
     ELSE Replies("greeting", "none acceptable", "closed")

\* authenticate(): this sandbox's name and its password.
Credentials(ownName, ownPassword) ==
  /\ Rest
  /\ IF ownName /\ ownPassword THEN Replies("credentials", "authenticated", "request")
     ELSE Replies("credentials", "refused", "closed")

\* A name outside of the grammar is refused and recorded; nothing is asked.
Request(command, address) ==
  \/ /\ address = "malformed"
     /\ Replies("request", "not allowed", "closed") /\ Rest
  \/ /\ address # "malformed" /\ command = "connect"
     /\ Goes("request", IF address = "name" THEN "resolving" ELSE "deciding")
     /\ UNCHANGED replied /\ Rest
  \/ /\ address # "malformed" /\ command = "associate"
     /\ Replies("request", "succeeded", "associated")
     /\ Open /\ UNCHANGED <<gone, early, retired>>
  \/ /\ address # "malformed" /\ command = "bind"
     /\ Replies("request", "not supported", "closed") /\ Rest

-----------------------------------------------------------------------------
(* CONNECT.                                                                *)

Resolve(found) ==
  /\ IF found THEN Goes("resolving", "deciding") /\ UNCHANGED replied
     ELSE Replies("resolving", "host unreachable", "closed")
  /\ Rest

\* What admit() returns; a registration that ends cancels what it waits for.
Decided(allowed) ==
  /\ IF allowed THEN Goes("deciding", "connecting") /\ UNCHANGED replied
     ELSE Replies("deciding", "not allowed", "closed")
  /\ Rest

\* Fault variant: Nobody watches the client while a human is asked.
Withdraw_Never == FALSE /\ UNCHANGED allVars

\* client_gone() is quicker: the approval is withdrawn.  What the client has
\* sent too early hides that it is gone.
Withdraw ==
  /\ gone /\ ~early
  /\ Goes("deciding", "closed")
  /\ UNCHANGED <<replied, gone, early, retired, vars>>

Connected == Replies("connecting", "succeeded", "splicing") /\ Rest
NotConnected ==
  /\ \E code \in {"refused", "network unreachable", "host unreachable", "failure"} :
       Replies("connecting", code, "closed")
  /\ Rest

\* Both directions have ended, each on its own, or one of them failed.
Spliced ==
  /\ Goes("splicing", "closed")
  /\ UNCHANGED replied /\ Rest

\* Fault variant: A splice goes on when the registration ends.
TornDown_Associations ==
  /\ retired
  /\ Goes("associated", "closed") /\ Close
  /\ UNCHANGED <<replied, gone, early, retired>>

\* entry.cancel, where it is listened to.
TornDown ==
  /\ retired
  /\ \/ Goes("splicing", "closed") /\ UNCHANGED vars
     \/ Goes("associated", "closed") /\ Close
  /\ UNCHANGED <<replied, gone, early, retired>>

-----------------------------------------------------------------------------
(* UDP ASSOCIATE.                                                          *)

\* The control connection is the association's lifetime.
ControlClosed ==
  /\ gone
  /\ Goes("associated", "closed") /\ Close
  /\ UNCHANGED <<replied, gone, early, retired>>

\* An admission may outlast the association.
Relaying == Relay /\ UNCHANGED conn

-----------------------------------------------------------------------------
(* The client and the registry.                                            *)

Leave ==
  /\ stage # "closed" /\ ~gone /\ gone' = TRUE
  /\ UNCHANGED <<stage, replied, early, retired, vars>>

SendEarly ==
  /\ stage \in {"resolving", "deciding", "connecting"} /\ ~gone /\ ~early /\ early' = TRUE
  /\ UNCHANGED <<stage, replied, gone, retired, vars>>

Retire ==
  /\ ~retired /\ retired' = TRUE
  /\ UNCHANGED <<stage, replied, gone, early, vars>>

MediatorNext ==
  \/ Broken \/ (\E b \in BOOLEAN : Greeting(b) \/ Resolve(b) \/ Decided(b))
  \/ \E name, password \in BOOLEAN : Credentials(name, password)
  \/ \E command \in {"connect", "associate", "bind"}, address \in Addresses :
       Request(command, address)
  \/ Withdraw \/ Connected \/ NotConnected \/ Spliced \/ TornDown
  \/ ControlClosed \/ Relaying
  \/ Leave \/ SendEarly \/ Retire

\* The handler's own steps are taken when their branch is ready: resolving
\* and connecting have time limits, an admission of a UDP target ends at the
\* latest with its prompt's deadline, one of a retired sandbox at once.  Not
\* counted on: that anyone answers a TCP prompt (its deadline may be hours),
\* that a client goes on with its handshake, or that a spliced flow ends.
MediatorFairness ==
  /\ WF_allVars(Settle /\ UNCHANGED conn)
  /\ \A t \in Targets : WF_allVars((\E a \in BOOLEAN : Admitted(t, a)) /\ UNCHANGED conn)
  /\ WF_allVars(\E b \in BOOLEAN : Resolve(b))
  /\ WF_allVars(retired /\ \E b \in BOOLEAN : Decided(b))
  /\ WF_allVars(Withdraw)
  /\ WF_allVars(Connected \/ NotConnected)
  /\ WF_allVars(TornDown)
  /\ WF_allVars(ControlClosed)

MediatorSpec == MediatorInit /\ [][MediatorNext]_allVars /\ MediatorFairness

-----------------------------------------------------------------------------
(* Properties.                                                             *)

\* Retiring a sandbox tears down its flows, wherever they are: one whose
\* admission is just through when its registration ends is not spliced for
\* ever (registry.rs, retire()).
RetiredFlowsEnd == (retired /\ stage \in Flowing) ~> stage = "closed"

\* A prompt whose client has gone does not stay until somebody answers it:
\* "EOF while the decision is pending means the flow is gone and its approval
\* must not be shown" (tcp.rs:44-45), unless the client sent something early.
GoneIsWithdrawn == (stage = "deciding" /\ gone /\ ~early) ~> stage # "deciding"
=============================================================================
