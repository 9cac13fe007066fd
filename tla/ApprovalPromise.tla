-------------------------- MODULE ApprovalPromise ---------------------------
(***************************************************************************)
(* What the approval queue promises the flows that ask it, whoever leads   *)
(* and whoever follows: a flow gets at most one verdict, and that verdict  *)
(* was given to a question about the flow's own sandbox and subject, or is *)
(* the flow's own cancellation.                                            *)
(***************************************************************************)
CONSTANTS
  Flows,       \* flows that ask
  Questions,   \* (sandbox, subject) pairs
  QuestionOf,  \* what each flow asks
  Verdicts     \* what a question can be told

VARIABLES
  told,        \* question -> the verdicts it was given so far
  verdict      \* flow -> what it was told, or "none"

Init ==
  /\ told = [q \in Questions |-> {}]
  /\ verdict = [f \in Flows |-> "none"]

\* An operator, a deadline or the rate limit settles a question.
Tell(q, v) ==
  /\ told' = [told EXCEPT ![q] = @ \cup {v}]
  /\ UNCHANGED verdict

\* A flow takes a verdict its question was given.
Give(f) ==
  /\ verdict[f] = "none"
  /\ \E v \in told[QuestionOf[f]] : verdict' = [verdict EXCEPT ![f] = v]
  /\ UNCHANGED told

\* A flow ends first.
Cancel(f) ==
  /\ verdict[f] = "none"
  /\ verdict' = [verdict EXCEPT ![f] = "cancelled"]
  /\ UNCHANGED told

Next ==
  \/ \E q \in Questions, v \in Verdicts : Tell(q, v)
  \/ \E f \in Flows : Give(f) \/ Cancel(f)

Spec == Init /\ [][Next]_<<told, verdict>>
=============================================================================
