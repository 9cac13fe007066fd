---------------------------- MODULE MCLifecycle ----------------------------
(* Instances of Lifecycle: kitchen files that differ where `remodel` looks. *)
EXTENDS Lifecycle

Plain   == [res |-> 1, env |-> "e", fixed |-> "lan", user |-> "chef", guest |-> "g", roots |-> {"a"}]
Larger  == [Plain EXCEPT !.res = 2, !.env = "f", !.guest = "h", !.roots = {"b"}]
Moved   == [Plain EXCEPT !.user = "1001", !.fixed = "none", !.guest = "h"]
OneKitchen == {Plain}
TwoKitchens == {Plain, Larger}
ThreeKitchens == {Plain, Larger, Moved}
=============================================================================
