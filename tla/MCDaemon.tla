------------------------------ MODULE MCDaemon ------------------------------
(* An instance of Daemon for TLC: which process runs which command is      *)
(* symmetric, and so is which broker process is which.                     *)
EXTENDS Daemon, TLC

Symmetry == Permutations(Clients) \cup Permutations(Brokers)
=============================================================================
