-------------------------- MODULE SubscribersProofs --------------------------
(***************************************************************************)
(* Proofs about Subscribers, for every set of nodes, streams and callers   *)
(* of broadcast and every channel capacity.                                *)
(***************************************************************************)
EXTENDS Subscribers, TLAPS

(* The fields of the initial records. *)
LEMMA IdleRecords ==
  /\ IdleStream \in StreamState /\ IdleStream.pc = "idle"
  /\ IdleCaller \in CallerState /\ IdleCaller.pc = "idle"
BY DEF IdleStream, IdleCaller, StreamState, CallerState, StreamPC, CallerPC

(* The state a crash leaves is well typed. *)
LEMMA CrashedType ==
  ASSUME SubsTypeOK, Dies("closeClosed") \/ Dies("sendClosed") \/ Dies("concurrentMap")
  PROVE  SubsTypeOK'
<1>1. /\ mu' = Nil /\ leaving' = Nil /\ closed' = {}
      /\ subs' = [n \in Subscriber |-> Nil]
      /\ stream' = [s \in Stream |-> IdleStream]
      /\ caller' = [c \in Caller |-> IdleCaller]
      /\ chan' = [s \in Stream |-> <<>>]
      /\ UNCHANGED <<sent, delivered>>
      /\ died' \in {"closeClosed", "sendClosed", "concurrentMap"}
  BY DEF Dies
<1>2. chan' \in [Stream -> Seq(Payload)]
  BY <1>1
<1> QED
  BY <1>1, <1>2, IdleRecords, SubscribersConstants DEF SubsTypeOK, SubscribersConstants

(* What the map operations do to the iterations under way. *)
LEMMA KeysType ==
  ASSUME SubsTypeOK, NEW n \in Subscriber, KeyInserted(n) \/ KeyDeleted(n)
  PROVE  /\ caller' \in [Caller -> CallerState]
         /\ \A c \in Caller : /\ caller'[c].pc = caller[c].pc
                              /\ caller'[c].msg = caller[c].msg
                              /\ caller'[c].target = caller[c].target
<1>1. ASSUME NEW f \in CallerState
      PROVE  /\ [f EXCEPT !.may = @ \cup {n}] \in CallerState
             /\ [f EXCEPT !.may = @ \cup {n}].pc = f.pc
             /\ [f EXCEPT !.may = @ \cup {n}].msg = f.msg
             /\ [f EXCEPT !.may = @ \cup {n}].target = f.target
             /\ [f EXCEPT !.todo = @ \ {n}, !.may = @ \ {n}] \in CallerState
             /\ [f EXCEPT !.todo = @ \ {n}, !.may = @ \ {n}].pc = f.pc
             /\ [f EXCEPT !.todo = @ \ {n}, !.may = @ \ {n}].msg = f.msg
             /\ [f EXCEPT !.todo = @ \ {n}, !.may = @ \ {n}].target = f.target
  BY DEF CallerState
<1>2. CASE KeyInserted(n)
  BY <1>1, <1>2 DEF KeyInserted, SubsTypeOK
<1>3. CASE KeyDeleted(n)
  BY <1>1, <1>3 DEF KeyDeleted, SubsTypeOK
<1> QED
  BY <1>2, <1>3

(* A caller that moves on keeps its message. *)
LEMMA CallerMoves ==
  ASSUME SubsTypeOK, NEW c \in Caller, caller[c].pc # "idle",
         NEW f \in CallerState, f.msg = caller[c].msg,
         caller' = [caller EXCEPT ![c] = f]
  PROVE  /\ caller' \in [Caller -> CallerState]
         /\ \A d \in Caller : caller'[d].pc # "idle" => caller'[d].msg \in Payload
BY DEF SubsTypeOK

(* A stream's record keeps its type and its node when its phase and its     *)
(* message change.                                                         *)
LEMMA StreamFields ==
  ASSUME NEW f \in StreamState, NEW p \in StreamPC, NEW m \in Payload \cup {Nil}
  PROVE  /\ [f EXCEPT !.pc = p] \in StreamState
         /\ [f EXCEPT !.pc = p].node = f.node
         /\ [f EXCEPT !.pc = p, !.msg = m] \in StreamState
         /\ [f EXCEPT !.pc = p, !.msg = m].node = f.node
BY DEF StreamState

(* A stream that has joined stays well typed when it moves on. *)
LEMMA StreamMoves ==
  ASSUME SubsTypeOK, NEW s \in Stream, stream[s].pc # "idle",
         NEW f \in StreamState, f.node = stream[s].node,
         stream' = [stream EXCEPT ![s] = f]
  PROVE  /\ stream' \in [Stream -> StreamState]
         /\ \A t \in Stream : stream'[t].pc # "idle" => stream'[t].node \in Subscriber
BY DEF SubsTypeOK

LEMMA StreamAdvances ==
  ASSUME SubsTypeOK, NEW s \in Stream, stream[s].pc # "idle",
         NEW p \in StreamPC, NEW m \in Payload \cup {Nil},
         \/ stream' = [stream EXCEPT ![s].pc = p]
         \/ stream' = [stream EXCEPT ![s].pc = p, ![s].msg = m]
  PROVE  /\ stream' \in [Stream -> StreamState]
         /\ \A t \in Stream : stream'[t].pc # "idle" => stream'[t].node \in Subscriber
<1>1. stream[s] \in StreamState
  BY DEF SubsTypeOK
<1>2. CASE stream' = [stream EXCEPT ![s].pc = p]
  <2>1. PICK f : f = [stream[s] EXCEPT !.pc = p]
    OBVIOUS
  <2>2. f \in StreamState /\ f.node = stream[s].node
    BY <1>1, <2>1, StreamFields
  <2>3. stream' = [stream EXCEPT ![s] = f]
    BY <1>2, <2>1
  <2> QED
    BY <2>2, <2>3, StreamMoves
<1>3. CASE stream' = [stream EXCEPT ![s].pc = p, ![s].msg = m]
  <2>1. PICK f : f = [stream[s] EXCEPT !.pc = p, !.msg = m]
    OBVIOUS
  <2>2. f \in StreamState /\ f.node = stream[s].node
    BY <1>1, <2>1, StreamFields, ZenonT(30)
  <2>3. stream' = [stream EXCEPT ![s] = f]
    BY <1>3, <2>1
  <2> QED
    BY <2>2, <2>3, StreamMoves
<1> QED
  BY <1>2, <1>3

(* Each action preserves the types. *)
LEMMA TypeStep ==
  ASSUME SubsTypeOK, [SubsNext]_subsVars
  PROVE  SubsTypeOK'
<1>1. ASSUME NEW s \in Stream, NEW n \in Subscriber, JoinNetwork(s, n)
      PROVE  SubsTypeOK'
  <2>1. [pc |-> "loop", node |-> n, msg |-> Nil] \in StreamState
    BY DEF StreamState, StreamPC
  <2>2. /\ stream' \in [Stream -> StreamState]
        /\ \A t \in Stream : stream'[t].pc # "idle" => stream'[t].node \in Subscriber
    BY <1>1, <2>1 DEF JoinNetwork, SubsTypeOK
  <2>3. KeyInserted(n)
    BY <1>1 DEF JoinNetwork
  <2> QED
    BY <1>1, <2>2, <2>3, KeysType DEF JoinNetwork, SubsTypeOK
<1>2. ASSUME NEW s \in Stream, Receive(s)
      PROVE  SubsTypeOK'
  <2>1. chan[s] \in Seq(Payload) /\ chan[s] # <<>>
    BY <1>2 DEF Receive, SubsTypeOK
  <2>2. Head(chan[s]) \in Payload /\ Tail(chan[s]) \in Seq(Payload)
    BY <2>1
  <2>3. chan' \in [Stream -> Seq(Payload)]
    BY <1>2, <2>2 DEF Receive, SubsTypeOK
  <2>4. /\ stream' \in [Stream -> StreamState]
        /\ \A t \in Stream : stream'[t].pc # "idle" => stream'[t].node \in Subscriber
    <3>1. /\ stream[s].pc # "idle" /\ "send" \in StreamPC
          /\ stream' = [stream EXCEPT ![s].pc = "send", ![s].msg = Head(chan[s])]
      BY <1>2 DEF Receive, StreamPC
    <3> QED
      BY <2>2, <3>1, StreamAdvances
  <2> QED
    BY <1>2, <2>3, <2>4 DEF Receive, SubsTypeOK
<1>3. ASSUME NEW s \in Stream, ReceiveNil(s)
      PROVE  SubsTypeOK'
  <2>1. /\ stream' \in [Stream -> StreamState]
        /\ \A t \in Stream : stream'[t].pc # "idle" => stream'[t].node \in Subscriber
    <3>1. /\ stream[s].pc # "idle" /\ "send" \in StreamPC
          /\ stream' = [stream EXCEPT ![s].pc = "send", ![s].msg = Nil]
      BY <1>3 DEF ReceiveNil, StreamPC
    <3> QED
      BY <3>1, StreamAdvances
  <2> QED
    BY <1>3, <2>1 DEF ReceiveNil, SubsTypeOK
<1>4. ASSUME NEW s \in Stream, SendOk(s)
      PROVE  SubsTypeOK'
  <2>1. stream[s].msg \in Payload \cup {Nil}
    BY DEF SubsTypeOK, StreamState
  <2>2. delivered' \in [Stream -> Seq(Payload)]
    BY <1>4, <2>1 DEF SendOk, SubsTypeOK
  <2>3. /\ stream' \in [Stream -> StreamState]
        /\ \A t \in Stream : stream'[t].pc # "idle" => stream'[t].node \in Subscriber
    <3>1. /\ stream[s].pc # "idle" /\ "loop" \in StreamPC
          /\ stream' = [stream EXCEPT ![s].pc = "loop", ![s].msg = Nil]
      BY <1>4 DEF SendOk, StreamPC
    <3> QED
      BY <3>1, StreamAdvances
  <2> QED
    BY <1>4, <2>2, <2>3 DEF SendOk, SubsTypeOK
<1>5. ASSUME NEW s \in Stream, ClientGone(s)
      PROVE  SubsTypeOK'
  <2>1. /\ stream' \in [Stream -> StreamState]
        /\ \A t \in Stream : stream'[t].pc # "idle" => stream'[t].node \in Subscriber
    <3>1. /\ stream[s].pc # "idle" /\ "exit" \in StreamPC
          /\ stream' = [stream EXCEPT ![s].pc = "exit", ![s].msg = Nil]
      BY <1>5 DEF ClientGone, StreamPC
    <3> QED
      BY <3>1, StreamAdvances
  <2> QED
    BY <1>5, <2>1 DEF ClientGone, SubsTypeOK
<1>6. ASSUME NEW s \in Stream, Unsubscribe(s)
      PROVE  SubsTypeOK'
  <2>1. /\ stream' \in [Stream -> StreamState]
        /\ \A t \in Stream : stream'[t].pc # "idle" => stream'[t].node \in Subscriber
    <3>1. /\ stream[s].pc # "idle" /\ "close" \in StreamPC
          /\ stream' = [stream EXCEPT ![s].pc = "close"]
      BY <1>6 DEF Unsubscribe, StreamPC
    <3> QED
      BY <3>1, StreamAdvances
  <2>2. stream[s].node \in Subscriber /\ KeyDeleted(stream[s].node)
    BY <1>6 DEF Unsubscribe, SubsTypeOK
  <2> QED
    BY <1>6, <2>1, <2>2, KeysType DEF Unsubscribe, SubsTypeOK
<1>7. ASSUME NEW s \in Stream, CloseChannel(s)
      PROVE  SubsTypeOK'
  <2>1. /\ stream' \in [Stream -> StreamState]
        /\ \A t \in Stream : stream'[t].pc # "idle" => stream'[t].node \in Subscriber
    <3>1. /\ stream[s].pc # "idle" /\ "done" \in StreamPC
          /\ stream' = [stream EXCEPT ![s].pc = "done"]
      BY <1>7 DEF CloseChannel, StreamPC
    <3> QED
      BY <3>1, StreamAdvances
  <2> QED
    BY <1>7, <2>1 DEF CloseChannel, SubsTypeOK
<1>8. ASSUME NEW s \in Stream, CloseClosed(s)
      PROVE  SubsTypeOK'
  BY <1>8, CrashedType DEF CloseClosed
<1>9. ASSUME NEW n \in Subscriber, LeaveNetwork(n)
      PROVE  SubsTypeOK'
  <2>1. KeyDeleted(n)
    BY <1>9 DEF LeaveNetwork
  <2> QED
    BY <1>9, <2>1, KeysType DEF LeaveNetwork, SubsTypeOK
<1>10. CASE LeaveClose
  BY <1>10, SubscribersConstants DEF LeaveClose, SubsTypeOK, SubscribersConstants
<1>11. ASSUME NEW c \in Caller, StartBroadcast(c)
       PROVE  SubsTypeOK'
  <2>1. [id |-> sent + 1, from |-> c] \in Payload /\ sent + 1 \in 0 .. MaxMessages
    BY <1>11, SubscribersConstants
    DEF StartBroadcast, SubsTypeOK, Payload, SubscribersConstants
  <2>2. [pc |-> "next", msg |-> [id |-> sent + 1, from |-> c],
         todo |-> {n \in Subscriber : subs[n] # Nil}, may |-> {}, target |-> Nil]
          \in CallerState
    BY <2>1 DEF CallerState, CallerPC
  <2>3. /\ caller' \in [Caller -> CallerState]
        /\ \A d \in Caller : caller'[d].pc # "idle" => caller'[d].msg \in Payload
    BY <1>11, <2>1, <2>2 DEF StartBroadcast, SubsTypeOK
  <2> QED
    BY <1>11, <2>1, <2>3, SubscribersConstants
    DEF StartBroadcast, SubsTypeOK, SubscribersConstants
<1>12. ASSUME NEW c \in Caller, NextEntry(c)
       PROVE  SubsTypeOK'
  <2>1. PICK n \in caller[c].todo \cup caller[c].may :
          caller' = [caller EXCEPT ![c].pc     = "send",
                                   ![c].todo   = @ \ {n},
                                   ![c].may    = @ \ {n},
                                   ![c].target = subs[n]]
    BY <1>12 DEF NextEntry
  <2> DEFINE f == [caller[c] EXCEPT !.pc = "send", !.todo = @ \ {n},
                                    !.may = @ \ {n}, !.target = subs[n]]
  <2>2. caller[c] \in CallerState
    BY DEF SubsTypeOK
  <2>3. n \in Subscriber /\ subs[n] \in Stream \cup {Nil}
    BY <2>2 DEF SubsTypeOK, CallerState
  <2>4. f \in CallerState /\ f.msg = caller[c].msg
    BY <2>2, <2>3 DEF CallerState, CallerPC
  <2>5. caller' = [caller EXCEPT ![c] = f]
    BY <2>1
  <2> HIDE DEF f
  <2>6. /\ caller' \in [Caller -> CallerState]
        /\ \A d \in Caller : caller'[d].pc # "idle" => caller'[d].msg \in Payload
    BY <1>12, <2>4, <2>5, CallerMoves DEF NextEntry
  <2> QED
    BY <1>12, <2>6 DEF NextEntry, SubsTypeOK
<1>13. ASSUME NEW c \in Caller, SendEntry(c)
       PROVE  SubsTypeOK'
  <2>1. CASE Dies("sendClosed")
    BY <2>1, CrashedType
  <2>2. CASE ~Dies("sendClosed")
    <3> DEFINE f == [caller[c] EXCEPT !.pc = "next", !.target = Nil]
    <3>1. caller[c] \in CallerState
      BY DEF SubsTypeOK
    <3>2. f \in CallerState /\ f.msg = caller[c].msg
      BY <3>1 DEF CallerState, CallerPC
    <3>3. caller' = [caller EXCEPT ![c] = f]
      BY <1>13, <2>2 DEF SendEntry
    <3> HIDE DEF f
    <3>4. /\ caller' \in [Caller -> CallerState]
          /\ \A d \in Caller : caller'[d].pc # "idle" => caller'[d].msg \in Payload
      BY <1>13, <3>2, <3>3, CallerMoves DEF SendEntry
    <3>5. caller[c].msg \in Payload
      BY <1>13 DEF SendEntry, SubsTypeOK
    <3>6. \/ chan' = chan
          \/ chan' = [chan EXCEPT ![caller[c].target] =
                        Append(chan[caller[c].target], caller[c].msg)]
      BY <1>13, <2>2 DEF SendEntry
    <3>7. chan' \in [Stream -> Seq(Payload)]
      <4>1. CASE caller[c].target \in Stream
        <5>1. Append(chan[caller[c].target], caller[c].msg) \in Seq(Payload)
          BY <4>1, <3>5 DEF SubsTypeOK
        <5> QED
          BY <5>1, <3>6 DEF SubsTypeOK
      <4>2. CASE caller[c].target \notin Stream
        BY <4>2, <3>6 DEF SubsTypeOK
      <4> QED
        BY <4>1, <4>2
    <3> QED
      BY <1>13, <2>2, <3>4, <3>7 DEF SendEntry, SubsTypeOK
  <2> QED
    BY <2>1, <2>2
<1>14. ASSUME NEW c \in Caller, EndBroadcast(c)
       PROVE  SubsTypeOK'
  BY <1>14, IdleRecords, SubscribersConstants
  DEF EndBroadcast, SubsTypeOK, SubscribersConstants
<1>15. CASE SubsMapFault
  BY <1>15, CrashedType DEF SubsMapFault
<1>16. CASE UNCHANGED subsVars
  BY <1>16 DEF subsVars, SubsTypeOK
<1> QED
  BY <1>1, <1>2, <1>3, <1>4, <1>5, <1>6, <1>7, <1>8, <1>9, <1>10, <1>11, <1>12,
     <1>13, <1>14, <1>15, <1>16
  DEF SubsNext, StreamStep, BroadcastStep

(* Every reachable state has the types of SubsTypeOK. *)
THEOREM SubscribersTypeCorrect == SubsSpec => []SubsTypeOK
<1>1. SubsInit => SubsTypeOK
  <2> SUFFICES ASSUME SubsInit PROVE SubsTypeOK
    OBVIOUS
  <2>1. chan \in [Stream -> Seq(Payload)] /\ delivered \in [Stream -> Seq(Payload)]
    BY DEF SubsInit
  <2> QED
    BY <2>1, IdleRecords, SubscribersConstants DEF SubsInit, SubsTypeOK, SubscribersConstants
<1>2. SubsTypeOK /\ [SubsNext]_subsVars => SubsTypeOK'
  BY TypeStep
<1> QED
  BY <1>1, <1>2, PTL DEF SubsSpec

-----------------------------------------------------------------------------
(* The inductive invariant: the entry of a node is a live stream of that   *)
(* node with an open channel; the channel LeaveNetwork holds is open, no   *)
(* longer registered, and its stream cannot get past the lock; what a      *)
(* locked broadcast is about to send to is registered.                     *)
EntryLive ==
  \A n \in Subscriber : subs[n] # Nil =>
    /\ subs[n] \notin closed
    /\ stream[subs[n]].node = n
    /\ stream[subs[n]].pc \in {"loop", "send", "exit"}

LeavingHeld ==
  leaving # Nil =>
    /\ mu = "leave"
    /\ leaving \notin closed
    /\ stream[leaving].pc \in {"loop", "send", "exit"}
    /\ \A n \in Subscriber : subs[n] # leaving

ClosedStarted == \A s \in closed : stream[s].pc # "idle"

LockedTarget ==
  \A c \in Locked :
    /\ caller[c].pc # "idle" => mu = c
    /\ caller[c].pc = "send" =>
         caller[c].target = Nil \/ \E n \in Subscriber : subs[n] = caller[c].target

IInv == EntryLive /\ LeavingHeld /\ ClosedStarted /\ LockedTarget

(* Each action keeps the inductive invariant. *)
LEMMA InvStep ==
  ASSUME SubsTypeOK, IInv, [SubsNext]_subsVars
  PROVE  IInv'
<1> USE SubscribersConstants DEF SubscribersConstants, IInv
<1>1. ASSUME Dies("closeClosed") \/ Dies("sendClosed") \/ Dies("concurrentMap")
      PROVE  IInv'
  BY <1>1, IdleRecords DEF Dies, EntryLive, LeavingHeld, ClosedStarted,
       LockedTarget
<1>2. ASSUME NEW s \in Stream, NEW n \in Subscriber, JoinNetwork(s, n)
      PROVE  IInv'
  <2>1. KeyInserted(n)
    BY <1>2 DEF JoinNetwork
  <2>2. \A c \in Locked : caller[c].pc = "idle" /\ caller'[c].pc = "idle"
    BY <1>2, <2>1, KeysType DEF JoinNetwork, EntryLive, LeavingHeld, ClosedStarted,
       LockedTarget
  <2>3. leaving = Nil /\ leaving' = Nil /\ s \notin closed
    BY <1>2 DEF JoinNetwork, EntryLive, LeavingHeld, ClosedStarted,
       LockedTarget, SubsTypeOK
  <2>4. \A q \in Subscriber : subs[q] # s
    BY <1>2 DEF JoinNetwork, EntryLive, LeavingHeld, ClosedStarted,
       LockedTarget
  <2>5. /\ stream'[s].pc = "loop" /\ stream'[s].node = n
        /\ \A t \in Stream \ {s} : stream'[t] = stream[t]
        /\ subs'[n] = s /\ \A q \in Subscriber \ {n} : subs'[q] = subs[q]
        /\ closed' = closed
    BY <1>2 DEF JoinNetwork, SubsTypeOK
  <2>6. EntryLive'
    BY <2>3, <2>4, <2>5 DEF EntryLive, SubsTypeOK
  <2>7. ClosedStarted'
    BY <2>3, <2>5 DEF ClosedStarted, SubsTypeOK
  <2> QED
    BY <2>2, <2>3, <2>6, <2>7 DEF LeavingHeld, LockedTarget
<1>3. ASSUME NEW s \in Stream, UNCHANGED <<mu, subs, closed, leaving, caller>>,
             stream[s].pc \in {"loop", "send"}, stream'[s].node = stream[s].node,
             stream'[s].pc \in {"loop", "send", "exit"},
             \A t \in Stream \ {s} : stream'[t] = stream[t]
      PROVE  IInv'
  <2>1. EntryLive'
    <3> SUFFICES ASSUME NEW n \in Subscriber, subs'[n] # Nil
                 PROVE  /\ subs'[n] \notin closed'
                        /\ stream'[subs'[n]].node = n
                        /\ stream'[subs'[n]].pc \in {"loop", "send", "exit"}
      BY DEF EntryLive
    <3>1. subs'[n] = subs[n] /\ subs[n] \in Stream
      BY <1>3 DEF SubsTypeOK
    <3>2. CASE subs[n] = s
      BY <1>3, <3>1, <3>2 DEF EntryLive
    <3>3. CASE subs[n] # s
      BY <1>3, <3>1, <3>3 DEF EntryLive
    <3> QED
      BY <3>2, <3>3
  <2>2. LeavingHeld'
    BY <1>3 DEF LeavingHeld, SubsTypeOK
  <2>3. ClosedStarted'
    BY <1>3 DEF ClosedStarted, SubsTypeOK
  <2>4. LockedTarget'
    BY <1>3 DEF LockedTarget
  <2> QED
    BY <2>1, <2>2, <2>3, <2>4
<1>4. ASSUME NEW s \in Stream, Receive(s) \/ ReceiveNil(s) \/ SendOk(s) \/ ClientGone(s)
      PROVE  IInv'
  <2>1. /\ stream'[s].node = stream[s].node
        /\ stream[s].pc \in {"loop", "send"}
        /\ stream'[s].pc \in {"loop", "send", "exit"}
        /\ \A t \in Stream \ {s} : stream'[t] = stream[t]
    BY <1>4 DEF Receive, ReceiveNil, SendOk, ClientGone, SubsTypeOK, StreamState
  <2> QED
    BY <1>4, <2>1, <1>3 DEF Receive, ReceiveNil, SendOk, ClientGone
<1>5. ASSUME NEW s \in Stream, Unsubscribe(s)
      PROVE  IInv'
  <2>1. stream[s].node \in Subscriber /\ KeyDeleted(stream[s].node)
    BY <1>5 DEF Unsubscribe, SubsTypeOK
  <2>2. \A c \in Locked : caller[c].pc = "idle" /\ caller'[c].pc = "idle"
    BY <1>5, <2>1, KeysType DEF Unsubscribe, EntryLive, LeavingHeld, ClosedStarted,
       LockedTarget
  <2>3. leaving = Nil /\ leaving' = Nil
    BY <1>5 DEF Unsubscribe, EntryLive, LeavingHeld, ClosedStarted,
       LockedTarget
  <2>4. /\ stream'[s].pc = "close"
        /\ \A t \in Stream \ {s} : stream'[t] = stream[t]
        /\ subs'[stream[s].node] = Nil
        /\ \A q \in Subscriber \ {stream[s].node} : subs'[q] = subs[q] /\ subs[q] # s
        /\ closed' = closed
    BY <1>5, <2>1 DEF Unsubscribe, SubsTypeOK, StreamState, EntryLive, LeavingHeld, ClosedStarted,
       LockedTarget
  <2>5. EntryLive'
    <3> SUFFICES ASSUME NEW n \in Subscriber, subs'[n] # Nil
                 PROVE  /\ subs'[n] \notin closed'
                        /\ stream'[subs'[n]].node = n
                        /\ stream'[subs'[n]].pc \in {"loop", "send", "exit"}
      BY DEF EntryLive
    <3>1. n # stream[s].node /\ subs'[n] = subs[n] /\ subs[n] \in Stream \ {s}
      BY <2>4 DEF SubsTypeOK
    <3> QED
      BY <2>4, <3>1 DEF EntryLive
  <2>6. ClosedStarted'
    BY <2>4 DEF ClosedStarted, SubsTypeOK
  <2> QED
    BY <2>2, <2>3, <2>5, <2>6 DEF LeavingHeld, LockedTarget
<1>6. ASSUME NEW s \in Stream, CloseChannel(s)
      PROVE  IInv'
  <2>1. (\A n \in Subscriber : subs[n] # s) /\ leaving # s
    BY <1>6 DEF CloseChannel, EntryLive, LeavingHeld, ClosedStarted,
       LockedTarget
  <2>2. /\ stream'[s].pc = "done"
        /\ \A t \in Stream \ {s} : stream'[t] = stream[t]
    BY <1>6 DEF CloseChannel, SubsTypeOK, StreamState
  <2> QED
    BY <1>6, <2>1, <2>2 DEF CloseChannel, EntryLive, LeavingHeld, ClosedStarted,
       LockedTarget, SubsTypeOK
<1>7. ASSUME NEW n \in Subscriber, LeaveNetwork(n)
      PROVE  IInv'
  <2>1. \A c \in Locked : caller[c].pc = "idle" /\ caller'[c].pc = "idle"
    BY <1>7, KeysType DEF LeaveNetwork, EntryLive, LeavingHeld, ClosedStarted,
       LockedTarget
  <2>2. /\ subs[n] \in Stream /\ leaving' = subs[n] /\ mu' = "leave"
        /\ subs'[n] = Nil /\ \A q \in Subscriber \ {n} : subs'[q] = subs[q]
    BY <1>7 DEF LeaveNetwork, SubsTypeOK
  <2>3. \A q \in Subscriber \ {n} : subs[q] # subs[n]
    BY <2>2, SubscribersConstants DEF EntryLive
  <2>4. EntryLive'
    BY <1>7, <2>2 DEF LeaveNetwork, EntryLive
  <2>5. LeavingHeld'
    BY <1>7, <2>2, <2>3 DEF LeaveNetwork, EntryLive, LeavingHeld
  <2> QED
    BY <1>7, <2>1, <2>4, <2>5 DEF LeaveNetwork, ClosedStarted, LockedTarget
<1>8. CASE LeaveClose
  <2>1. \A c \in Locked : caller[c].pc = "idle" /\ caller' = caller
    BY <1>8 DEF LeaveClose, EntryLive, LeavingHeld, ClosedStarted,
       LockedTarget
  <2> QED
    BY <1>8, <2>1 DEF LeaveClose, EntryLive, LeavingHeld, ClosedStarted,
       LockedTarget, SubsTypeOK
<1>9. ASSUME NEW c \in Caller, StartBroadcast(c)
      PROVE  IInv'
  <2>1. caller'[c].pc = "next" /\ \A d \in Caller \ {c} : caller'[d] = caller[d]
    BY <1>9 DEF StartBroadcast, SubsTypeOK
  <2>2. c \in Locked => mu = Nil /\ mu' = c /\ leaving = Nil
                        /\ \A d \in Locked : caller[d].pc = "idle"
    BY <1>9, SMTT(30) DEF StartBroadcast, EntryLive, LeavingHeld, ClosedStarted,
       LockedTarget
  <2> QED
    BY <1>9, <2>1, <2>2 DEF StartBroadcast, EntryLive, LeavingHeld, ClosedStarted,
       LockedTarget, SubsTypeOK
<1>10. ASSUME NEW c \in Caller, NextEntry(c)
       PROVE  IInv'
  <2>1. PICK n \in caller[c].todo \cup caller[c].may :
          caller' = [caller EXCEPT ![c].pc     = "send",
                                   ![c].todo   = @ \ {n},
                                   ![c].may    = @ \ {n},
                                   ![c].target = subs[n]]
    BY <1>10 DEF NextEntry
  <2>2. n \in Subscriber /\ caller'[c].pc = "send" /\ caller'[c].target = subs[n]
        /\ \A d \in Caller \ {c} : caller'[d] = caller[d]
    BY <2>1 DEF SubsTypeOK, CallerState
  <2>3. LockedTarget'
    <3>1. caller[c].pc = "next" /\ mu' = mu /\ subs' = subs
      BY <1>10 DEF NextEntry
    <3> QED
      BY <2>2, <3>1 DEF LockedTarget
  <2> QED
    BY <1>10, <2>2, <2>3 DEF NextEntry, EntryLive, LeavingHeld, ClosedStarted
<1>11. ASSUME NEW c \in Caller, SendEntry(c)
       PROVE  IInv'
  <2>1. CASE Dies("sendClosed")
    BY <2>1, <1>1
  <2>2. CASE ~Dies("sendClosed")
    <3>1. caller'[c].pc = "next" /\ \A d \in Caller \ {c} : caller'[d] = caller[d]
      BY <1>11, <2>2 DEF SendEntry, SubsTypeOK, CallerState
    <3> QED
      BY <1>11, <2>2, <3>1 DEF SendEntry, EntryLive, LeavingHeld, ClosedStarted,
       LockedTarget
  <2> QED
    BY <2>1, <2>2
<1>12. ASSUME NEW c \in Caller, EndBroadcast(c)
       PROVE  IInv'
  <2>1. caller'[c].pc = "idle" /\ \A d \in Caller \ {c} : caller'[d] = caller[d]
    BY <1>12, IdleRecords DEF EndBroadcast, SubsTypeOK
  <2>2. c \in Locked => mu = c /\ leaving = Nil
                        /\ \A d \in Locked \ {c} : caller[d].pc = "idle"
    BY <1>12 DEF EndBroadcast, EntryLive, LeavingHeld, ClosedStarted,
       LockedTarget
  <2> QED
    BY <1>12, <2>1, <2>2 DEF EndBroadcast, EntryLive, LeavingHeld, ClosedStarted,
       LockedTarget, SubsTypeOK
<1>13. CASE UNCHANGED subsVars
  BY <1>13 DEF subsVars, EntryLive, LeavingHeld, ClosedStarted,
       LockedTarget
<1> QED
  BY <1>1, <1>2, <1>4, <1>5, <1>6, <1>7, <1>8, <1>9, <1>10, <1>11, <1>12, <1>13
  DEF SubsNext, StreamStep, BroadcastStep, CloseClosed, SubsMapFault

(* The inductive invariant holds in every reachable state. *)
LEMMA InvHolds == SubsSpec => []IInv
<1>1. SubsInit => IInv
  BY IdleRecords, SubscribersConstants
  DEF SubscribersConstants, SubsInit, IInv, EntryLive, LeavingHeld, ClosedStarted, LockedTarget
<1>2. SubsTypeOK /\ IInv /\ [SubsNext]_subsVars => IInv'
  BY InvStep
<1> QED
  BY <1>1, <1>2, SubscribersTypeCorrect, PTL DEF SubsSpec

(* The channel that m.subs holds for a node is never closed, nor is the    *)
(* one LeaveNetwork is about to close, however the streams of a node join, *)
(* are replaced, leave and end.                                            *)
THEOREM RegisteredStaysOpen == SubsSpec => []RegisteredOpen
<1>1. SubsTypeOK /\ IInv => RegisteredOpen
  <2> SUFFICES ASSUME SubsTypeOK, IInv PROVE RegisteredOpen
    OBVIOUS
  <2>1. Nil \notin closed
    BY SubscribersConstants DEF SubscribersConstants, SubsTypeOK
  <2> QED
    BY <2>1 DEF IInv, EntryLive, LeavingHeld, RegisteredOpen
<1> QED
  BY <1>1, SubscribersTypeCorrect, InvHolds, PTL

(* RequestAggregatedCommit, which broadcasts with m.mu held, never sends   *)
(* on a closed channel.                                                    *)
THEOREM LockedBroadcastSafe == SubsSpec => []LockedSendSafe
<1>1. SubsTypeOK /\ IInv => LockedSendSafe
  <2> SUFFICES ASSUME SubsTypeOK, IInv, NEW c \in Locked, caller[c].pc = "send"
               PROVE  caller[c].target \notin closed
    BY DEF LockedSendSafe
  <2>1. Nil \notin closed
    BY SubscribersConstants DEF SubscribersConstants, SubsTypeOK
  <2>2. caller[c].target = Nil \/ \E n \in Subscriber : subs[n] = caller[c].target
    BY DEF IInv, LockedTarget
  <2> QED
    BY <2>1, <2>2 DEF IInv, EntryLive
<1> QED
  BY <1>1, SubscribersTypeCorrect, InvHolds, PTL

=============================================================================
