----------------------------- MODULE MCAdmission -----------------------------
(***************************************************************************)
(* Values for model checking: `site`; `api`, a name below it and an alias  *)
(* of it; `cdn.1`, a name no rule can express; all served from one         *)
(* address.  f1 connects to the address, f2 to `site` by name.             *)
(***************************************************************************)
EXTENDS Admission

ZoneValue == [n \in Names |-> IF n = "site" THEN {"site", "api"} \cap Names ELSE {n}]
AllHere   == [f \in Flows |-> "192.0.2.1"]
OnePort   == [f \in Flows |-> 443]
OneClaim  == [f \in Flows |-> IF f = "f1" THEN NoName ELSE "site"]

Aliased   == {[query |-> "api", names |-> {"api", "site"}], Plain("site"),
              Plain("cdn.1")}
SiteRules == {Exact("site"), [kind |-> "suffix", name |-> "site"]}
=============================================================================
