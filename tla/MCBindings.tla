------------------------------ MODULE MCBindings ------------------------------
(***************************************************************************)
(* Values for model checking: `both` and `other` resolve to two addresses  *)
(* each, one of them the same.  One TTL is below the floor, the other      *)
(* above the cap.                                                          *)
(***************************************************************************)
EXTENDS Bindings

Answers == [q \in Queries |->
  CASE q = "both" -> <<"a", "b">> [] q = "other" -> <<"c", "a">>]
Itself == [q \in Queries |-> q]
Ttls == [q \in Queries |-> IF q = "both" THEN 0 ELSE 9]
=============================================================================
