---------------------------- MODULE MCRuleSource ----------------------------
(* An instance of RuleSource for TLC.                                      *)
EXTENDS RuleSource, TLC

\* Nothing tells rules, editors or readers apart, and no property is about
\* liveness.
Alike == Permutations(Rules) \cup Permutations(Editors) \cup Permutations(Readers)
=============================================================================
