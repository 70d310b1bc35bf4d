----------------------------- MODULE MeshServer -----------------------------
(* What the two halves of the mesh server share. *)

CONSTANT Nil   \* the nil pointer: no handler, stream, message, ...

=============================================================================
