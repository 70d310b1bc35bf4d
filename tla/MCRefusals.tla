----------------------------- MODULE MCRefusals -----------------------------
(* CommitteeRounds with a record of the rounds whose requests were refused. *)
EXTENDS MCCommitteeRounds

VARIABLE refused   \* history: the rounds some request got Ack{Ok: false} for

RefusalsInit == Init /\ refused = {}

RefusalsNext ==
  /\ Next
  /\ refused' = IF CheckProcessed /\ handler' = NoHandler
                THEN refused \cup {handler.round} ELSE refused

RefusalsSpec == RefusalsInit /\ [][RefusalsNext]_<<vars, refused>>

(* network.go, on appendCandidate: "false means that the round has already *)
(* ended".  A client that was told so sees no committee of that round      *)
(* announced afterwards, neither by a goroutine that was still making it   *)
(* nor because the round was opened again.                                 *)
RefusedMeansEnded ==
  \A g \in Goroutine : fin[g].pc = "broadcast" => fin[g].round \notin refused

=============================================================================
