--------------------------- MODULE MCSubscribers ---------------------------
(* Small instances of Subscribers for TLC. *)
EXTENDS Subscribers, TLC

Symmetry == Permutations(Stream) \cup Permutations(Subscriber)

=============================================================================
