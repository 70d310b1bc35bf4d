----------------------------- MODULE MCMeshLive -----------------------------
(***************************************************************************)
(* The two halves of the mesh server side by side, as in MCMesh, under the *)
(* fairness conditions of both.                                            *)
(***************************************************************************)
EXTENDS MCMesh

(* The goroutines of the half that moves, as Fairness and SubsFairness     *)
(* name them, numbered so that both halves share the conditions; streams   *)
(* and finalizing goroutines are the numbers 1 and 2.                      *)
RoundsThread(k, i) ==
  Running(
    CASE k = 1 -> TryFinalize(i)
      [] k = 2 -> IF i = 1 THEN HandlerStep
                  ELSE \E r \in Round : TimerFires(r)
      [] k = 3 -> i = 1 /\ \E r \in Round : OrphanFires(r))

CallerNo(i) == CHOOSE c \in Caller : c \in Locked <=> i = 1

SubscribersThread(k, i) ==
  Alive(
    CASE k = 1 -> StreamStep(i)
      [] k = 2 -> BroadcastStep(CallerNo(i))
      [] k = 3 -> i = 1 /\ LeaveClose)

Thread(k, i) ==
  /\ UNCHANGED half
  /\ \/ half = "rounds"      /\ RoundsThread(k, i)
     \/ half = "subscribers" /\ SubscribersThread(k, i)

Moving == IF half = "rounds" THEN vars ELSE subsVars

MeshFairness ==
  \A i \in 1 .. 2 :
    /\ \A k \in 1 .. 3 : WF_Moving(Thread(k, i))
    /\ SF_Moving(half = "subscribers" /\ Alive(Unsubscribe(i)) /\ UNCHANGED half)

MeshLiveSpec == MeshSpec /\ MeshFairness

=============================================================================
