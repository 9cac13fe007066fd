------------------------- MODULE ApprovalRefinement -------------------------
(***************************************************************************)
(* The approval queue implements ApprovalPromise.  A question was told     *)
(* what its leaders resolved to; a flow has its verdict when ask() returns.*)
(***************************************************************************)
EXTENDS Approval

QuestionOf == [f \in Flows |-> <<NameOf[EntryOf[f]], SubjectOf[f]>>]

Told == [q \in Names \X Subjects |->
           {outcome[l] : l \in {l \in Flows : /\ channel[l] = l
                                              /\ pc[l] \in {"closing", "done"}
                                              /\ QuestionOf[l] = q}} \ {"cancelled"}]

Verdict == [f \in Flows |-> IF pc[f] = "done" THEN outcome[f] ELSE "none"]

Promise == INSTANCE ApprovalPromise WITH
  Questions <- Names \X Subjects,
  Verdicts <- Outcomes \ {"cancelled"},
  told <- Told,
  verdict <- Verdict

\* Coalescing never hands a flow the answer to another sandbox's or another
\* destination's question, and no flow is told twice (approval.rs, ask()).
KeepsThePromise == Promise!Spec
=============================================================================
