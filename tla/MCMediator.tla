----------------------------- MODULE MCMediator -----------------------------
(* An instance of Mediator for TLC.                                        *)
EXTENDS Mediator
=============================================================================
