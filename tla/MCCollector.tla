---------------------------- MODULE MCCollector ----------------------------
(* Small instances of Collector for TLC. *)
EXTENDS Collector, TLC

\* The goroutines of each kind do the same.
Perms == Permutations(LoopIds) \cup Permutations(Handlers)
=============================================================================
