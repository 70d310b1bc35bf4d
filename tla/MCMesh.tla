------------------------------- MODULE MCMesh -------------------------------
(***************************************************************************)
(* The two halves of the mesh server side by side: a behaviour picks the   *)
(* committee rounds or the subscribers, and the other half stays as it is  *)
(* when the server starts.                                                 *)
(***************************************************************************)
EXTENDS CommitteeRounds, Subscribers, TLC

VARIABLE half

MeshInit == half \in {"rounds", "subscribers"} /\ Init /\ SubsInit

MeshNext ==
  /\ UNCHANGED half
  /\ \/ half = "rounds"      /\ Next     /\ UNCHANGED subsVars
     \/ half = "subscribers" /\ SubsNext /\ UNCHANGED vars

MeshSpec == MeshInit /\ [][MeshNext]_<<half, vars, subsVars>>

(* Nodes, goroutines, streams and calls are neither ordered nor told apart *)
(* by name.                                                                *)
Symmetry == Permutations(Goroutine) \cup Permutations(Node \ (BadKey \cup BadCommit))
              \cup Permutations(Stream) \cup Permutations(Subscriber)
              \cup Permutations(Locked)

=============================================================================
