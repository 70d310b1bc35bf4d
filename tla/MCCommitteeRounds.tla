-------------------------- MODULE MCCommitteeRounds --------------------------
(* Instances of CommitteeRounds for TLC. *)
EXTENDS CommitteeRounds, TLC

(* Neither nodes nor goroutines are ordered or told apart by name. *)
Symmetry == Permutations(Goroutine) \cup Permutations(Node \ (BadKey \cup BadCommit))

=============================================================================
