----------------------------- MODULE Subscribers -----------------------------
(***************************************************************************)
(* The subscribers of the mesh server: the streaming RPC JoinNetwork, the  *)
(* unary RPC LeaveNetwork, the map m.subs from node to send channel, and   *)
(* the fan-out in broadcast.                                               *)
(*                                                                         *)
(* Each call of JoinNetwork is a member of Stream, with a channel of its   *)
(* own.  broadcast runs in two kinds of callers: RequestAggregatedCommit   *)
(* calls it while it holds m.mu (Locked), tryFinalize calls it with no     *)
(* lock at all.  Both iterate over m.subs one entry at a time.             *)
(*                                                                         *)
(* A write to m.subs while an unlocked caller iterates over it may take    *)
(* effect or stop the process ("concurrent map iteration and map write").  *)
(***************************************************************************)
EXTENDS MeshServer, Integers, Sequences, FiniteSets

CONSTANTS
  Subscriber,   \* node ids
  Stream,       \* the calls of JoinNetwork
  Caller,       \* the callers of broadcast
  Locked,       \* those that hold m.mu
  Cap,          \* capacity of a send channel (100 in the code)
  MaxMessages   \* bound: messages broadcast

ASSUME SubscribersConstants ==
  /\ Locked \subseteq Caller
  /\ Cap \in Nat \ {0}
  /\ MaxMessages \in Nat
  /\ Nil \notin Stream \cup Subscriber \cup Caller
  /\ "leave" \notin Caller /\ "leave" # Nil

VARIABLES
  mu,         \* holder of m.mu across steps: Nil, "leave" or a locked caller
  subs,       \* m.subs: the stream registered for each node, or Nil
  stream,     \* the JoinNetwork goroutines
  chan,       \* the messages buffered in each stream's channel
  closed,     \* the channels that have been closed
  leaving,    \* the channel LeaveNetwork is about to close
  caller,     \* the goroutines inside broadcast
  sent,       \* number of messages broadcast so far
  delivered,  \* history: the messages passed to stream.Send without error
  died        \* why the process ended, or "no"

subsVars == <<mu, subs, stream, chan, closed, leaving, caller, sent,
              delivered, died>>

Payload == [id : 1 .. MaxMessages, from : Caller]

ASSUME NilIsNoPayload == Nil \notin Payload

StreamPC == {"idle", "loop", "send", "exit", "close", "done"}
CallerPC == {"idle", "next", "send"}

StreamState == [pc : StreamPC, node : Subscriber \cup {Nil},
                msg : Payload \cup {Nil}]
CallerState == [pc : CallerPC, msg : Payload \cup {Nil},
                todo : SUBSET Subscriber, may : SUBSET Subscriber,
                target : Stream \cup {Nil}]

IdleStream == [pc |-> "idle", node |-> Nil, msg |-> Nil]
IdleCaller == [pc |-> "idle", msg |-> Nil, todo |-> {}, may |-> {},
               target |-> Nil]

SubsInit ==
  /\ mu        = Nil
  /\ subs      = [n \in Subscriber |-> Nil]
  /\ stream    = [s \in Stream |-> IdleStream]
  /\ chan      = [s \in Stream |-> <<>>]
  /\ closed    = {}
  /\ leaving   = Nil
  /\ caller    = [c \in Caller |-> IdleCaller]
  /\ sent      = 0
  /\ delivered = [s \in Stream |-> <<>>]
  /\ died   = "no"

(* The process ends: the streams break and what was in memory is gone. *)
Dies(why) ==
  /\ died' = why
  /\ mu'      = Nil
  /\ subs'    = [n \in Subscriber |-> Nil]
  /\ stream'  = [s \in Stream |-> IdleStream]
  /\ chan'    = [s \in Stream |-> <<>>]
  /\ closed'  = {}
  /\ leaving' = Nil
  /\ caller'  = [c \in Caller |-> IdleCaller]
  /\ UNCHANGED <<sent, delivered>>

-----------------------------------------------------------------------------
(* Iteration over m.subs by the callers of broadcast: todo holds the keys  *)
(* the range statement will produce, may those inserted since it began,    *)
(* which it may produce or skip.  A deleted key is not produced.           *)

KeyInserted(n) ==
  caller' = [c \in Caller |->
               IF caller[c].pc # "idle" /\ subs[n] = Nil
               THEN [caller[c] EXCEPT !.may = @ \cup {n}] ELSE caller[c]]

KeyDeleted(n) ==
  caller' = [c \in Caller |-> [caller[c] EXCEPT !.todo = @ \ {n},
                                                !.may  = @ \ {n}]]

-----------------------------------------------------------------------------
(* JoinNetwork *)

(* Make the channel and register it under m.mu, in place of any channel    *)
(* the node registered before.                                             *)
JoinNetwork(s, n) ==
  /\ stream[s].pc = "idle"
  /\ mu = Nil
  /\ subs'   = [subs EXCEPT ![n] = s]
  /\ stream' = [stream EXCEPT ![s] = [pc |-> "loop", node |-> n, msg |-> Nil]]
  /\ KeyInserted(n)
  /\ UNCHANGED <<mu, chan, closed, leaving, sent, delivered, died>>

(* Mutant: the received message is not sent. *)
ReceiveDiscards(s) ==
  /\ stream[s].pc = "loop"
  /\ chan[s] # <<>>
  /\ chan' = [chan EXCEPT ![s] = Tail(@)]
  /\ UNCHANGED <<mu, subs, stream, closed, leaving, caller, sent, delivered,
                 died>>

(* msg := <-ch *)
Receive(s) ==
  /\ stream[s].pc = "loop"
  /\ chan[s] # <<>>
  /\ chan'   = [chan EXCEPT ![s] = Tail(@)]
  /\ stream' = [stream EXCEPT ![s].pc = "send", ![s].msg = Head(chan[s])]
  /\ UNCHANGED <<mu, subs, closed, leaving, caller, sent, delivered, died>>

(* A closed and empty channel yields the nil message at once. *)
ReceiveNil(s) ==
  /\ stream[s].pc = "loop"
  /\ chan[s] = <<>>
  /\ s \in closed
  /\ stream' = [stream EXCEPT ![s].pc = "send", ![s].msg = Nil]
  /\ UNCHANGED <<mu, subs, chan, closed, leaving, caller, sent, delivered,
                 died>>

(* stream.Send succeeds; a nil message goes out as an empty one. *)
SendOk(s) ==
  /\ stream[s].pc = "send"
  /\ stream'    = [stream EXCEPT ![s].pc = "loop", ![s].msg = Nil]
  /\ delivered' = IF stream[s].msg = Nil THEN delivered
                  ELSE [delivered EXCEPT ![s] = Append(@, stream[s].msg)]
  /\ UNCHANGED <<mu, subs, chan, closed, leaving, caller, sent, died>>

(* The client is gone: the context is done, or Send fails. *)
ClientGone(s) ==
  /\ stream[s].pc \in {"loop", "send"}
  /\ stream' = [stream EXCEPT ![s].pc = "exit", ![s].msg = Nil]
  /\ UNCHANGED <<mu, subs, chan, closed, leaving, caller, sent, delivered,
                 died>>

(* The deferred function: delete(m.subs, nodeID) under m.mu ... *)
Unsubscribe(s) ==
  /\ stream[s].pc = "exit"
  /\ mu = Nil
  /\ subs'   = [subs EXCEPT ![stream[s].node] = Nil]
  /\ stream' = [stream EXCEPT ![s].pc = "close"]
  /\ KeyDeleted(stream[s].node)
  /\ UNCHANGED <<mu, chan, closed, leaving, sent, delivered, died>>

(* ... and close(ch) after the unlock. *)
CloseChannel(s) ==
  /\ stream[s].pc = "close"
  /\ s \notin closed
  /\ closed' = closed \cup {s}
  /\ stream' = [stream EXCEPT ![s].pc = "done"]
  /\ UNCHANGED <<mu, subs, chan, leaving, caller, sent, delivered, died>>

-----------------------------------------------------------------------------
(* LeaveNetwork: nothing if the node is not registered; otherwise delete   *)
(* the entry, then close the channel, then unlock.                         *)

(* Mutant: the channel is closed and stays registered. *)
LeaveKeepsEntry(n) ==
  /\ mu = Nil
  /\ subs[n] # Nil
  /\ mu'      = "leave"
  /\ leaving' = subs[n]
  /\ UNCHANGED <<subs, stream, chan, closed, caller, sent, delivered, died>>

LeaveNetwork(n) ==
  /\ mu = Nil
  /\ subs[n] # Nil
  /\ mu'      = "leave"
  /\ leaving' = subs[n]
  /\ subs'    = [subs EXCEPT ![n] = Nil]
  /\ KeyDeleted(n)
  /\ UNCHANGED <<stream, chan, closed, sent, delivered, died>>

LeaveClose ==
  /\ mu = "leave"
  /\ leaving \notin closed
  /\ closed'  = closed \cup {leaving}
  /\ leaving' = Nil
  /\ mu'      = Nil
  /\ UNCHANGED <<subs, stream, chan, caller, sent, delivered, died>>

(* panic: close of closed channel, at either of the two calls *)
CloseClosed(s) ==
  /\ s \in closed
  /\ stream[s].pc = "close" \/ leaving = s
  /\ Dies("closeClosed")

-----------------------------------------------------------------------------
(* broadcast *)

(* Mutant: RequestAggregatedCommit unlocks before it broadcasts. *)
StartBroadcastUnlocked(c) ==
  /\ caller[c].pc = "idle"
  /\ sent < MaxMessages
  /\ sent'   = sent + 1
  /\ caller' = [caller EXCEPT ![c] =
                  [pc |-> "next", msg |-> [id |-> sent + 1, from |-> c],
                   todo |-> {n \in Subscriber : subs[n] # Nil}, may |-> {},
                   target |-> Nil]]
  /\ UNCHANGED <<mu, subs, stream, chan, closed, leaving, delivered, died>>

(* The callers that stand for calls of RequestAggregatedCommit hold m.mu. *)
StartBroadcast(c) ==
  /\ caller[c].pc = "idle"
  /\ sent < MaxMessages
  /\ c \in Locked => mu = Nil
  /\ mu'     = IF c \in Locked THEN c ELSE mu
  /\ sent'   = sent + 1
  /\ caller' = [caller EXCEPT ![c] =
                  [pc |-> "next", msg |-> [id |-> sent + 1, from |-> c],
                   todo |-> {n \in Subscriber : subs[n] # Nil}, may |-> {},
                   target |-> Nil]]
  /\ UNCHANGED <<subs, stream, chan, closed, leaving, delivered, died>>

NextEntry(c) ==
  /\ caller[c].pc = "next"
  /\ \E n \in caller[c].todo \cup caller[c].may :
       caller' = [caller EXCEPT ![c].pc     = "send",
                                ![c].todo   = @ \ {n},
                                ![c].may    = @ \ {n},
                                ![c].target = subs[n]]
  /\ UNCHANGED <<mu, subs, stream, chan, closed, leaving, sent, delivered,
                 died>>

(* Mutant: without the default, a full channel blocks the sender. *)
SendEntryBlocks(c) ==
  LET s == caller[c].target IN
  /\ caller[c].pc = "send"
  /\ \/ /\ s \in closed
        /\ Dies("sendClosed")
     \/ /\ s \notin closed
        /\ Len(chan[s]) < Cap
        /\ chan'   = [chan EXCEPT ![s] = Append(@, caller[c].msg)]
        /\ caller' = [caller EXCEPT ![c].pc = "next", ![c].target = Nil]
        /\ UNCHANGED <<mu, subs, stream, closed, leaving, sent, delivered,
                       died>>

(* select with a default: a full channel drops the message, a closed one   *)
(* panics.                                                                 *)
SendEntry(c) ==
  LET s == caller[c].target IN
  /\ caller[c].pc = "send"
  /\ \/ /\ s \in closed
        /\ Dies("sendClosed")
     \/ /\ s \notin closed
        /\ chan' = IF Len(chan[s]) < Cap
                   THEN [chan EXCEPT ![s] = Append(@, caller[c].msg)]
                   ELSE chan
        /\ caller' = [caller EXCEPT ![c].pc = "next", ![c].target = Nil]
        /\ UNCHANGED <<mu, subs, stream, closed, leaving, sent, delivered,
                       died>>

(* Mutant: the lock is not released. *)
EndBroadcastKeepsLock(c) ==
  /\ caller[c].pc = "next"
  /\ caller[c].todo = {}
  /\ caller' = [caller EXCEPT ![c] = IdleCaller]
  /\ UNCHANGED <<mu, subs, stream, chan, closed, leaving, sent, delivered,
                 died>>

EndBroadcast(c) ==
  /\ caller[c].pc = "next"
  /\ caller[c].todo = {}
  /\ caller' = [caller EXCEPT ![c] = IdleCaller]
  /\ mu'     = IF c \in Locked THEN Nil ELSE mu
  /\ UNCHANGED <<subs, stream, chan, closed, leaving, sent, delivered, died>>

(* fatal error: concurrent map iteration and map write *)
SubsMapFault ==
  /\ \E c \in Caller \ Locked : caller[c].pc = "next"
  /\ mu = Nil
  /\ \/ \E s \in Stream : stream[s].pc \in {"idle", "exit"}
     \/ \E n \in Subscriber : subs[n] # Nil
  /\ Dies("concurrentMap")

-----------------------------------------------------------------------------
StreamStep(s) ==
  \/ Receive(s)
  \/ ReceiveNil(s)
  \/ SendOk(s)
  \/ Unsubscribe(s)
  \/ CloseChannel(s)
  \/ CloseClosed(s)

BroadcastStep(c) == NextEntry(c) \/ SendEntry(c) \/ EndBroadcast(c)

SubsNext ==
  /\ died = "no"
  /\ \/ \E s \in Stream, n \in Subscriber : JoinNetwork(s, n)
     \/ \E s \in Stream : StreamStep(s) \/ ClientGone(s)
     \/ \E n \in Subscriber : LeaveNetwork(n)
     \/ LeaveClose
     \/ \E c \in Caller : StartBroadcast(c) \/ BroadcastStep(c)
     \/ SubsMapFault

SubsSpec == SubsInit /\ [][SubsNext]_subsVars

(* The Go scheduler runs every runnable goroutine; a mutex in its          *)
(* starvation mode serves every waiter, hence strong fairness for the step *)
(* that waits for m.mu; stream.Send returns.  Nothing makes a client call  *)
(* or disconnect.                                                          *)
Alive(A) == died = "no" /\ A

SubsFairness ==
  /\ WF_subsVars(Alive(LeaveClose))
  /\ \A s \in Stream : /\ WF_subsVars(Alive(StreamStep(s)))
                       /\ SF_subsVars(Alive(Unsubscribe(s)))
  /\ \A c \in Caller : WF_subsVars(Alive(BroadcastStep(c)))

SubsFairSpec == SubsSpec /\ SubsFairness

-----------------------------------------------------------------------------
(* Properties *)

SubsTypeOK ==
  /\ mu \in {Nil, "leave"} \cup Locked
  /\ subs \in [Subscriber -> Stream \cup {Nil}]
  /\ stream \in [Stream -> StreamState]
  /\ \A s \in Stream : stream[s].pc # "idle" => stream[s].node \in Subscriber
  /\ chan \in [Stream -> Seq(Payload)]
  /\ closed \subseteq Stream
  /\ leaving \in Stream \cup {Nil}
  /\ mu = "leave" => leaving \in Stream
  /\ caller \in [Caller -> CallerState]
  /\ \A c \in Caller : caller[c].pc # "idle" => caller[c].msg \in Payload
  /\ sent \in 0 .. MaxMessages
  /\ delivered \in [Stream -> Seq(Payload)]
  /\ died \in {"no", "closeClosed", "sendClosed", "concurrentMap"}

(* The channel registered in m.subs for a node is open, whatever streams   *)
(* of that node join, leave and end meanwhile: each of the two places that *)
(* close a channel deletes the entry first, under m.mu.  The same holds of *)
(* the channel LeaveNetwork is about to close.                             *)
RegisteredOpen ==
  /\ \A n \in Subscriber : subs[n] \notin closed
  /\ leaving \notin closed

(* A broadcast made with m.mu held (RequestAggregatedCommit) never sends   *)
(* on a closed channel: the entry it read cannot be unregistered, and so   *)
(* its channel cannot be closed, before the lock is released.              *)
LockedSendSafe ==
  \A c \in Locked : caller[c].pc = "send" => caller[c].target \notin closed

(* What a stream has had or still has on its way to its client. *)
Received(s) ==
  delivered[s] \o (IF stream[s].msg = Nil THEN <<>> ELSE <<stream[s].msg>>)
               \o chan[s]

(* A subscriber gets each message at most once, and those broadcast under  *)
(* m.mu in the order in which RequestAggregatedCommit got the lock, by     *)
(* however many concurrent calls, although channels fill up and unlocked   *)
(* broadcasts run in between.                                              *)
DeliveryOrder ==
  \A s \in Stream :
    LET r == Received(s) IN
    \A i, j \in DOMAIN r :
      i < j => /\ r[i].id # r[j].id
               /\ {r[i].from, r[j].from} \subseteq Locked => r[i].id < r[j].id

(* A message in the channel of a stream reaches the client, unless the     *)
(* client goes away or the process ends.                                   *)
BufferedIsDelivered ==
  \A s \in Stream, i \in 1 .. MaxMessages :
    (\E k \in DOMAIN chan[s] : chan[s][k].id = i)
      ~> \/ \E k \in DOMAIN delivered[s] : delivered[s][k].id = i
         \/ stream[s].pc \notin {"loop", "send"}
         \/ died # "no"

(* m.mu is released by LeaveNetwork and by every locked broadcast: the     *)
(* fan-out never blocks on a full channel.                                 *)
LockReleased == mu # Nil ~> mu = Nil

(* A stream has seen its client go and is not done. *)
Exiting ==
  died = "no" /\ \E s \in Stream : stream[s].pc \in {"exit", "close"}

(* Streams whose clients have gone clean up after themselves. *)
ExitCompletes == Exiting ~> ~Exiting

-----------------------------------------------------------------------------
(* What comments say of the code and the code does not do. *)


(* interface.proto, on JoinNetwork: joining subscribes the node to the     *)
(* committee messages.  The only live stream of a node that has not left   *)
(* is the one registered for it.                                           *)
JoinedIsSubscribed ==
  \A s \in Stream :
    (/\ stream[s].pc \in {"loop", "send"}
     /\ s \notin closed \cup {leaving}
     /\ \A t \in Stream \ {s} :
          stream[t].node = stream[s].node => stream[t].pc = "done")
      => subs[stream[s].node] = s

=============================================================================
