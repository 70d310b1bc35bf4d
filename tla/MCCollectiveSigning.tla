------------------------- MODULE MCCollectiveSigning -------------------------
EXTENDS CollectiveSigning, TLC

(* No mask behind the signature, and one that disables cosigner 1. *)
Suffixes == {<<>>, <<{1}>>}

Symmetry == Permutations(Message)

=============================================================================
