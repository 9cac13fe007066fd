----------------------------- MODULE MCApproval -----------------------------
(* Instances of Approval for TLC.                                          *)
EXTENDS ApprovalRefinement, TLC

CONSTANTS f1, f2, f3, e1, e2, e3

\* All flows through one registration.
OneEntryOf == [f \in Flows |-> e1]
OneNameOf  == [e \in Entries |-> "web"]

\* Two sandboxes, one of them registered twice.
TwoEntryOf == f1 :> e1 @@ f2 :> e2
TwoNameOf  == e1 :> "web" @@ e2 :> "ci" @@ e3 :> "web"

\* All about one destination.
OneSubjectOf == [f \in Flows |-> "crates"]

\* A dialog backend; none, and requests are queued or denied.
Desktop == [surface |-> TRUE, headless |-> "queue"]
Queued  == [surface |-> FALSE, headless |-> "queue"]
Denied  == [surface |-> FALSE, headless |-> "deny"]

OnlyQueued    == {Queued}
DesktopOrNone == {Desktop, Denied}
=============================================================================
