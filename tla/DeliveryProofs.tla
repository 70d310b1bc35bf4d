--------------------------- MODULE DeliveryProofs ---------------------------
(***************************************************************************)
(* The order in which the messages of broadcasts arrive, for every set of  *)
(* nodes, streams and callers of broadcast and every channel capacity.     *)
(***************************************************************************)
EXTENDS SubscribersProofs

(* The order of delivery.  What a stream has on its way to its client only *)
(* grows by what SendEntry appends; every other step keeps it or drops     *)
(* parts of it.                                                            *)

Before(a, b) ==
  a.id # b.id /\ ({a.from, b.from} \subseteq Locked => a.id < b.id)

Ordered(r) == \A i, j \in DOMAIN r : i < j => Before(r[i], r[j])

(* q is r without some of its elements. *)
PartOf(q, r) ==
  \E f \in [DOMAIN q -> DOMAIN r] :
    /\ \A i, j \in DOMAIN q : i < j => f[i] < f[j]
    /\ \A i \in DOMAIN q : q[i] = r[f[i]]

LEMMA PartOrdered ==
  ASSUME NEW q \in Seq(Payload), NEW r \in Seq(Payload), PartOf(q, r), Ordered(r)
  PROVE  Ordered(q)
<1>1. PICK f \in [DOMAIN q -> DOMAIN r] :
        /\ \A i, j \in DOMAIN q : i < j => f[i] < f[j]
        /\ \A i \in DOMAIN q : q[i] = r[f[i]]
  BY DEF PartOf
<1> QED
  BY <1>1 DEF Ordered

(* The elements of a sequence made of three parts. *)
LEMMA ThreeParts ==
  ASSUME NEW S, NEW d \in Seq(S), NEW m \in Seq(S), NEW c \in Seq(S)
  PROVE  /\ d \o m \o c \in Seq(S)
         /\ Len(d \o m \o c) = Len(d) + Len(m) + Len(c)
         /\ \A i \in 1 .. Len(d) + Len(m) + Len(c) :
              (d \o m \o c)[i] = IF i <= Len(d) THEN d[i]
                                 ELSE IF i <= Len(d) + Len(m) THEN m[i - Len(d)]
                                 ELSE c[i - Len(d) - Len(m)]
<1>1. d \o m \in Seq(S) /\ Len(d \o m) = Len(d) + Len(m)
  OBVIOUS
<1>2. \A i \in 1 .. Len(d) + Len(m) :
        (d \o m)[i] = IF i <= Len(d) THEN d[i] ELSE m[i - Len(d)]
  OBVIOUS
<1> DEFINE dm == d \o m
<1>3. dm \o c \in Seq(S) /\ Len(dm \o c) = Len(dm) + Len(c)
  BY <1>1
<1>4. \A i \in 1 .. Len(dm) + Len(c) :
        (dm \o c)[i] = IF i <= Len(dm) THEN dm[i] ELSE c[i - Len(dm)]
  BY <1>1
<1> QED
  BY <1>1, <1>2, <1>3, <1>4

LEMMA MiddleType ==
  ASSUME NEW d \in Seq(Payload), NEW x \in Payload \cup {Nil}, NEW c \in Seq(Payload)
  PROVE  d \o (IF x = Nil THEN <<>> ELSE <<x>>) \o c \in Seq(Payload)
<1>1. (IF x = Nil THEN <<>> ELSE <<x>>) \in Seq(Payload)
  OBVIOUS
<1> QED
  BY <1>1, ThreeParts

LEMMA ReceivedType ==
  ASSUME SubsTypeOK, NEW s \in Stream
  PROVE  Received(s) \in Seq(Payload)
<1>1. /\ delivered[s] \in Seq(Payload) /\ chan[s] \in Seq(Payload)
      /\ stream[s].msg \in Payload \cup {Nil}
  BY DEF SubsTypeOK, StreamState
<1> QED
  BY <1>1, MiddleType DEF Received

(* What the steps do to a sequence of three parts. *)
LEMMA PartSame ==
  ASSUME NEW r \in Seq(Payload)
  PROVE  PartOf(r, r)
<1> DEFINE f == [i \in DOMAIN r |-> i]
<1>1. f \in [DOMAIN r -> DOMAIN r]
  OBVIOUS
<1>2. (\A i, j \in DOMAIN r : i < j => f[i] < f[j]) /\ \A i \in DOMAIN r : r[i] = r[f[i]]
  OBVIOUS
<1> QED
  BY <1>1, <1>2 DEF PartOf

LEMMA PartMoved ==
  ASSUME NEW d \in Seq(Payload), NEW c \in Seq(Payload), c # <<>>
  PROVE  PartOf(d \o <<Head(c)>> \o Tail(c), d \o <<>> \o c)
<1> DEFINE q == d \o <<Head(c)>> \o Tail(c)
           r == d \o <<>> \o c
<1>1. /\ <<Head(c)>> \in Seq(Payload) /\ Len(<<Head(c)>>) = 1
      /\ Tail(c) \in Seq(Payload) /\ Len(Tail(c)) = Len(c) - 1
      /\ <<>> \in Seq(Payload) /\ Len(<<>>) = 0
      /\ Len(c) > 0
  OBVIOUS
<1>2. /\ q \in Seq(Payload) /\ Len(q) = Len(d) + 1 + Len(c) - 1
      /\ r \in Seq(Payload) /\ Len(r) = Len(d) + Len(c)
  BY <1>1, ThreeParts
<1>3. \A i \in 1 .. Len(d) + Len(c) :
        /\ q[i] = IF i <= Len(d) THEN d[i]
                  ELSE IF i <= Len(d) + 1 THEN Head(c) ELSE Tail(c)[i - Len(d) - 1]
        /\ r[i] = IF i <= Len(d) THEN d[i] ELSE c[i - Len(d)]
  BY <1>1, ThreeParts
<1>4. \A i \in 1 .. Len(d) + Len(c) : q[i] = r[i]
  BY <1>1, <1>3
<1> HIDE DEF q, r
<1>5. q = r
  BY <1>2, <1>4
<1> QED
  BY <1>2, <1>5, PartSame DEF q, r

LEMMA PartSent ==
  ASSUME NEW d \in Seq(Payload), NEW c \in Seq(Payload), NEW m \in Payload
  PROVE  PartOf(Append(d, m) \o <<>> \o c, d \o <<m>> \o c)
<1> DEFINE q == Append(d, m) \o <<>> \o c
           r == d \o <<m>> \o c
<1>1. /\ Append(d, m) \in Seq(Payload) /\ Len(Append(d, m)) = Len(d) + 1
      /\ <<m>> \in Seq(Payload) /\ Len(<<m>>) = 1
      /\ <<>> \in Seq(Payload) /\ Len(<<>>) = 0
  OBVIOUS
<1>2. /\ q \in Seq(Payload) /\ Len(q) = Len(d) + 1 + Len(c)
      /\ r \in Seq(Payload) /\ Len(r) = Len(d) + 1 + Len(c)
  BY <1>1, ThreeParts
<1>3. \A i \in 1 .. Len(d) + 1 + Len(c) :
        /\ q[i] = IF i <= Len(d) + 1 THEN Append(d, m)[i] ELSE c[i - Len(d) - 1]
        /\ r[i] = IF i <= Len(d) THEN d[i]
                  ELSE IF i <= Len(d) + 1 THEN <<m>>[i - Len(d)] ELSE c[i - Len(d) - 1]
  BY <1>1, ThreeParts
<1>4. \A i \in 1 .. Len(d) + 1 + Len(c) : q[i] = r[i]
  BY <1>1, <1>3
<1> HIDE DEF q, r
<1>5. q = r
  BY <1>2, <1>4
<1> QED
  BY <1>2, <1>5, PartSame DEF q, r

LEMMA PartLost ==
  ASSUME NEW d \in Seq(Payload), NEW c \in Seq(Payload), NEW m \in Seq(Payload)
  PROVE  PartOf(d \o <<>> \o c, d \o m \o c)
<1> DEFINE q == d \o <<>> \o c
           r == d \o m \o c
           f == [i \in 1 .. Len(d) + Len(c) |->
                   IF i <= Len(d) THEN i ELSE i + Len(m)]
<1>1. <<>> \in Seq(Payload) /\ Len(<<>>) = 0 /\ Len(m) \in Nat
  OBVIOUS
<1>2. /\ q \in Seq(Payload) /\ Len(q) = Len(d) + Len(c)
      /\ r \in Seq(Payload) /\ Len(r) = Len(d) + Len(m) + Len(c)
  BY <1>1, ThreeParts
<1>3. /\ \A i \in 1 .. Len(d) + Len(c) :
           q[i] = IF i <= Len(d) THEN d[i] ELSE c[i - Len(d)]
      /\ \A i \in 1 .. Len(d) + Len(m) + Len(c) :
           r[i] = IF i <= Len(d) THEN d[i]
                  ELSE IF i <= Len(d) + Len(m) THEN m[i - Len(d)]
                  ELSE c[i - Len(d) - Len(m)]
  BY <1>1, ThreeParts
<1> HIDE DEF q, r
<1>4. DOMAIN q = 1 .. Len(d) + Len(c) /\ DOMAIN r = 1 .. Len(d) + Len(m) + Len(c)
  BY <1>2
<1>5. f \in [DOMAIN q -> DOMAIN r]
  BY <1>1, <1>4
<1>6. \A i, j \in DOMAIN q : i < j => f[i] < f[j]
  BY <1>1, <1>4
<1>7. \A i \in DOMAIN q : q[i] = r[f[i]]
  BY <1>1, <1>3, <1>4, SMTT(30)
<1>8. PartOf(q, r)
  BY <1>5, <1>6, <1>7 DEF PartOf
<1> QED
  BY <1>8 DEF q, r

LEMMA PartDelivered ==
  ASSUME NEW d \in Seq(Payload), NEW c \in Seq(Payload), NEW m \in Seq(Payload)
  PROVE  PartOf(d \o <<>> \o <<>>, d \o m \o c)
<1> DEFINE q == d \o <<>> \o <<>>
           r == d \o m \o c
           f == [i \in 1 .. Len(d) |-> i]
<1>1. <<>> \in Seq(Payload) /\ Len(<<>>) = 0
  OBVIOUS
<1>2. /\ q \in Seq(Payload) /\ Len(q) = Len(d)
      /\ r \in Seq(Payload) /\ Len(r) = Len(d) + Len(m) + Len(c)
  BY <1>1, ThreeParts
<1>3. \A i \in 1 .. Len(d) : q[i] = d[i] /\ r[i] = d[i]
  BY <1>1, ThreeParts
<1> HIDE DEF q, r
<1>4. PartOf(q, r)
  <2>1. DOMAIN q = 1 .. Len(d) /\ DOMAIN r = 1 .. Len(d) + Len(m) + Len(c)
    BY <1>2
  <2>2. f \in [DOMAIN q -> DOMAIN r]
    BY <2>1
  <2>3. (\A i, j \in DOMAIN q : i < j => f[i] < f[j])
        /\ \A i \in DOMAIN q : q[i] = r[f[i]]
    BY <2>1, <1>3
  <2> QED
    BY <2>2, <2>3 DEF PartOf
<1> QED
  BY <1>4 DEF q, r

(* q is r with x at its end. *)
Longer(q, r, x) ==
  Len(q) = Len(r) + 1 /\ q[Len(q)] = x /\ \A i \in DOMAIN r : q[i] = r[i]

LEMMA Grown ==
  ASSUME NEW d \in Seq(Payload), NEW c \in Seq(Payload), NEW m \in Seq(Payload),
         NEW x \in Payload
  PROVE  Longer(d \o m \o Append(c, x), d \o m \o c, x)
<1> DEFINE q == d \o m \o Append(c, x)
           r == d \o m \o c
<1>1. Append(c, x) \in Seq(Payload) /\ Len(Append(c, x)) = Len(c) + 1
  OBVIOUS
<1>2. /\ Len(q) = Len(d) + Len(m) + Len(c) + 1
      /\ r \in Seq(Payload) /\ Len(r) = Len(d) + Len(m) + Len(c)
  BY <1>1, ThreeParts
<1>3. \A i \in 1 .. Len(d) + Len(m) + (Len(c) + 1) :
        q[i] = IF i <= Len(d) THEN d[i]
               ELSE IF i <= Len(d) + Len(m) THEN m[i - Len(d)]
               ELSE Append(c, x)[i - Len(d) - Len(m)]
  BY <1>1, ThreeParts
<1>4. \A i \in 1 .. Len(d) + Len(m) + Len(c) :
        r[i] = IF i <= Len(d) THEN d[i]
               ELSE IF i <= Len(d) + Len(m) THEN m[i - Len(d)]
               ELSE c[i - Len(d) - Len(m)]
  BY ThreeParts
<1>5. Append(c, x)[Len(c) + 1] = x /\ \A i \in 1 .. Len(c) : Append(c, x)[i] = c[i]
  OBVIOUS
<1> HIDE DEF q, r
<1>6. ASSUME NEW i \in 1 .. Len(d) + Len(m) + Len(c)
      PROVE  q[i] = r[i]
  <2>1. CASE i <= Len(d) + Len(m)
    <3>1. i \in 1 .. Len(d) + Len(m) + (Len(c) + 1)
      OBVIOUS
    <3>2. q[i] = (IF i <= Len(d) THEN d[i] ELSE m[i - Len(d)])
      BY <2>1, <3>1, <1>3
    <3>3. r[i] = (IF i <= Len(d) THEN d[i] ELSE m[i - Len(d)])
      BY <2>1, <1>4
    <3> QED
      BY <3>2, <3>3
  <2>2. CASE i > Len(d) + Len(m)
    <3>1. i - Len(d) - Len(m) \in 1 .. Len(c)
      BY <2>2
    <3>2. q[i] = Append(c, x)[i - Len(d) - Len(m)]
      BY <2>2, <1>3
    <3>3. r[i] = c[i - Len(d) - Len(m)]
      BY <2>2, <1>4
    <3> QED
      BY <3>1, <3>2, <3>3, <1>5
  <2> QED
    BY <2>1, <2>2
<1>7. q[Len(q)] = x
  <2>1. Len(q) - Len(d) - Len(m) = Len(c) + 1
    BY <1>2
  <2>2. q[Len(q)] = Append(c, x)[Len(q) - Len(d) - Len(m)]
    BY <1>2, <1>3
  <2> QED
    BY <2>1, <2>2, <1>5
<1>8. Longer(q, r, x)
  <2>1. DOMAIN r = 1 .. Len(d) + Len(m) + Len(c)
    BY <1>2
  <2> QED
    BY <1>2, <1>6, <1>7, <2>1 DEF Longer
<1> QED
  BY <1>8 DEF q, r

(* A goroutine holds a message only while it sends it. *)
MsgHeld == \A s \in Stream : stream[s].pc # "send" => stream[s].msg = Nil

(* SendEntry, where the channel had room. *)
Appends(c) ==
  /\ caller[c].target \in Stream
  /\ caller[c].pc = "send"
  /\ chan' = [chan EXCEPT ![caller[c].target] = Append(@, caller[c].msg)]
  /\ caller' = [caller EXCEPT ![c].pc = "next", ![c].target = Nil]
  /\ UNCHANGED <<mu, subs, stream, closed, leaving, sent, delivered, died>>

LEMMA PartUnchanged ==
  ASSUME SubsTypeOK, NEW s \in Stream, delivered'[s] = delivered[s],
         stream'[s].msg = stream[s].msg, chan'[s] = chan[s]
  PROVE  PartOf(Received(s)', Received(s))
BY PartSame, ReceivedType DEF Received

(* No step but Appends adds to what a stream has. *)
LEMMA ReceivedSteps ==
  ASSUME SubsTypeOK, MsgHeld, [SubsNext]_subsVars,
         ~\E c \in Caller : Appends(c), NEW s \in Stream
  PROVE  PartOf(Received(s)', Received(s))
<1> DEFINE m == IF stream[s].msg = Nil THEN <<>> ELSE <<stream[s].msg>>
<1>1. /\ delivered[s] \in Seq(Payload) /\ chan[s] \in Seq(Payload)
      /\ stream[s].msg \in Payload \cup {Nil}
      /\ stream[s] \in StreamState
  BY DEF SubsTypeOK, StreamState
<1>2. m \in Seq(Payload) /\ Received(s) = delivered[s] \o m \o chan[s]
  BY <1>1 DEF Received
<1>3. CASE UNCHANGED <<delivered, stream, chan>>
  BY <1>3, PartUnchanged
<1>4. ASSUME Dies("closeClosed") \/ Dies("sendClosed") \/ Dies("concurrentMap")
      PROVE  PartOf(Received(s)', Received(s))
  <2>1. stream'[s].msg = Nil /\ chan'[s] = <<>> /\ delivered' = delivered
    BY <1>4 DEF Dies, IdleStream
  <2>2. Received(s)' = delivered[s] \o <<>> \o <<>>
    BY <2>1 DEF Received
  <2> QED
    BY <1>1, <1>2, <2>2, PartDelivered
<1>5. ASSUME NEW t \in Stream, NEW n \in Subscriber, JoinNetwork(t, n)
      PROVE  PartOf(Received(s)', Received(s))
  <2>1. stream'[s].msg = stream[s].msg
    BY <1>5 DEF JoinNetwork, SubsTypeOK, MsgHeld
  <2> QED
    BY <1>5, <2>1, PartUnchanged DEF JoinNetwork
<1>6. ASSUME NEW t \in Stream, Receive(t)
      PROVE  PartOf(Received(s)', Received(s))
  <2>1. CASE s # t
    BY <1>6, <2>1, PartUnchanged DEF Receive, SubsTypeOK
  <2>2. CASE s = t
    <3>1. /\ stream[s].msg = Nil /\ chan[s] # <<>>
          /\ stream'[s].msg = Head(chan[s]) /\ chan'[s] = Tail(chan[s])
          /\ delivered' = delivered
      BY <1>1, <1>6, <2>2 DEF Receive, MsgHeld, SubsTypeOK, StreamState
    <3>2. Head(chan[s]) \in Payload /\ Head(chan[s]) # Nil
      <4>1. Head(chan[s]) \in Payload
        BY <1>1, <3>1
      <4> QED
        BY <4>1, NilIsNoPayload
    <3>3. Received(s)' = delivered[s] \o <<Head(chan[s])>> \o Tail(chan[s])
      BY <3>1, <3>2 DEF Received
    <3>4. Received(s) = delivered[s] \o <<>> \o chan[s]
      BY <3>1 DEF Received
    <3> QED
      BY <1>1, <3>1, <3>3, <3>4, PartMoved
  <2> QED
    BY <2>1, <2>2
<1>7. ASSUME NEW t \in Stream, ReceiveNil(t)
      PROVE  PartOf(Received(s)', Received(s))
  <2>1. stream'[s].msg = stream[s].msg
    BY <1>1, <1>7 DEF ReceiveNil, SubsTypeOK, MsgHeld, StreamState
  <2> QED
    BY <1>7, <2>1, PartUnchanged DEF ReceiveNil
<1>8. ASSUME NEW t \in Stream, SendOk(t)
      PROVE  PartOf(Received(s)', Received(s))
  <2>1. CASE s # t
    BY <1>8, <2>1, PartUnchanged DEF SendOk, SubsTypeOK
  <2>2. CASE s = t /\ stream[s].msg = Nil
    <3>1. stream'[s].msg = stream[s].msg /\ delivered' = delivered /\ chan' = chan
      BY <1>1, <1>8, <2>2 DEF SendOk, SubsTypeOK, StreamState
    <3> QED
      BY <3>1, PartUnchanged
  <2>3. CASE s = t /\ stream[s].msg # Nil
    <3>1. /\ stream'[s].msg = Nil /\ chan' = chan
          /\ delivered'[s] = Append(delivered[s], stream[s].msg)
      BY <1>1, <1>8, <2>3 DEF SendOk, SubsTypeOK, StreamState
    <3>2. Received(s)' = Append(delivered[s], stream[s].msg) \o <<>> \o chan[s]
      BY <3>1 DEF Received
    <3>3. Received(s) = delivered[s] \o <<stream[s].msg>> \o chan[s]
      BY <2>3 DEF Received
    <3> QED
      BY <1>1, <2>3, <3>2, <3>3, PartSent
  <2> QED
    BY <2>1, <2>2, <2>3
<1>9. ASSUME NEW t \in Stream, ClientGone(t)
      PROVE  PartOf(Received(s)', Received(s))
  <2>1. CASE s # t
    BY <1>9, <2>1, PartUnchanged DEF ClientGone, SubsTypeOK
  <2>2. CASE s = t
    <3>1. stream'[s].msg = Nil /\ delivered' = delivered /\ chan' = chan
      BY <1>1, <1>9, <2>2 DEF ClientGone, SubsTypeOK, StreamState
    <3>2. Received(s)' = delivered[s] \o <<>> \o chan[s]
      BY <3>1 DEF Received
    <3> QED
      BY <1>1, <1>2, <3>2, PartLost
  <2> QED
    BY <2>1, <2>2
<1>10. ASSUME NEW t \in Stream, Unsubscribe(t) \/ CloseChannel(t)
       PROVE  PartOf(Received(s)', Received(s))
  <2>1. \/ stream' = [stream EXCEPT ![t].pc = "close"]
        \/ stream' = [stream EXCEPT ![t].pc = "done"]
    BY <1>10 DEF Unsubscribe, CloseChannel
  <2>2. stream'[s].msg = stream[s].msg
    <3>1. CASE s # t
      BY <2>1, <3>1 DEF SubsTypeOK
    <3>2. CASE s = t
      <4>1. \/ stream'[s] = [stream[s] EXCEPT !.pc = "close"]
            \/ stream'[s] = [stream[s] EXCEPT !.pc = "done"]
        BY <2>1, <3>2 DEF SubsTypeOK
      <4> QED
        BY <1>1, <4>1 DEF StreamState
    <3> QED
      BY <3>1, <3>2
  <2> QED
    BY <1>10, <2>2, PartUnchanged DEF Unsubscribe, CloseChannel
<1>11. ASSUME NEW c \in Caller, SendEntry(c), ~Dies("sendClosed")
       PROVE  PartOf(Received(s)', Received(s))
  <2>1. chan' = chan
    <3>1. CASE caller[c].target \in Stream
      BY <1>11, <3>1 DEF SendEntry, Appends
    <3>2. CASE caller[c].target \notin Stream
      BY <1>11, <3>2 DEF SendEntry, SubsTypeOK
    <3> QED
      BY <3>1, <3>2
  <2> QED
    BY <1>3, <1>11, <2>1 DEF SendEntry
<1>12. CASE \/ UNCHANGED subsVars
            \/ \E n \in Subscriber : LeaveNetwork(n)
            \/ LeaveClose
            \/ \E c \in Caller : StartBroadcast(c) \/ NextEntry(c) \/ EndBroadcast(c)
  BY <1>3, <1>12
  DEF subsVars, LeaveNetwork, LeaveClose, StartBroadcast, NextEntry, EndBroadcast
<1> QED
  BY <1>4, <1>5, <1>6, <1>7, <1>8, <1>9, <1>10, <1>11, <1>12
  DEF SubsNext, StreamStep, BroadcastStep, CloseClosed, SubsMapFault

(* The inductive invariant.  What is on its way to a stream is ordered.    *)
(* Every broadcast has a number of its own, and does not come back to a    *)
(* stream it has sent to: neither the entry it has read (target) nor one   *)
(* it may still visit (todo, may) belongs to a stream that has its         *)
(* message.  While a locked broadcast runs, no locked one is later.        *)
Holds(s) == {Received(s)[i] : i \in DOMAIN Received(s)}

Lacks(s, k) == \A x \in Holds(s) : x.id # k

Active(c) == caller[c].pc # "idle"

Streams ==
  /\ MsgHeld
  /\ \A s \in Stream :
       Ordered(Received(s)) /\ (stream[s].pc = "idle" => Holds(s) = {})

Numbers ==
  /\ \A s \in Stream : \A x \in Holds(s) : x.id <= sent
  /\ \A c \in Caller : Active(c) =>
       /\ caller[c].msg.from = c /\ caller[c].msg.id <= sent
       /\ \A d \in Caller \ {c} : Active(d) => caller[c].msg.id # caller[d].msg.id

Visits ==
  \A c \in Caller : Active(c) =>
    /\ \A n \in caller[c].todo \cup caller[c].may :
         subs[n] # Nil => /\ Lacks(subs[n], caller[c].msg.id)
                          /\ caller[c].pc = "send" => caller[c].target # subs[n]
    /\ caller[c].pc = "send" /\ caller[c].target # Nil =>
         /\ stream[caller[c].target].pc # "idle"
         /\ Lacks(caller[c].target, caller[c].msg.id)

Latest ==
  \A c \in Locked : Active(c) =>
    \A s \in Stream : \A x \in Holds(s) :
      x.from \in Locked => x.id <= caller[c].msg.id

OrderInv ==
  /\ \A s \in Stream : Ordered(Received(s))
  /\ died = "no" => Streams /\ Numbers /\ Visits /\ Latest

LEMMA HoldsPart ==
  ASSUME SubsTypeOK, SubsTypeOK', NEW s \in Stream, PartOf(Received(s)', Received(s))
  PROVE  /\ Holds(s)' \subseteq Holds(s)
         /\ Ordered(Received(s)) => Ordered(Received(s)')
<1>1. Received(s) \in Seq(Payload)
  BY ReceivedType
<1>2. Received(s)' \in Seq(Payload)
  <2>1. /\ delivered'[s] \in Seq(Payload) /\ chan'[s] \in Seq(Payload)
        /\ stream'[s].msg \in Payload \cup {Nil}
    BY DEF SubsTypeOK, StreamState
  <2> QED
    BY <2>1, MiddleType DEF Received
<1>3. Holds(s)' \subseteq Holds(s)
  <2>1. PICK f \in [DOMAIN Received(s)' -> DOMAIN Received(s)] :
          \A i \in DOMAIN Received(s)' : Received(s)'[i] = Received(s)[f[i]]
    BY DEF PartOf
  <2> QED
    BY <2>1 DEF Holds
<1> QED
  BY <1>1, <1>2, <1>3, PartOrdered

LEMMA HoldsType ==
  ASSUME SubsTypeOK, NEW s \in Stream
  PROVE  Holds(s) \subseteq Payload
BY ReceivedType DEF Holds

(* A step that starts no broadcast and appends nothing keeps the           *)
(* invariant, if a broadcast it lets go on keeps its message, and visits   *)
(* what it would have visited before, or a stream that was idle.           *)
LEMMA Carried ==
  ASSUME SubsTypeOK, SubsTypeOK', Streams, Numbers, Visits, Latest,
         \A s \in Stream : Holds(s)' \subseteq Holds(s) /\ Ordered(Received(s)'),
         MsgHeld', sent' = sent,
         \A s \in Stream : stream[s].pc = "idle" \/ stream'[s].pc # "idle",
         \A c \in Caller : Active(c)' =>
           /\ Active(c) /\ caller'[c].msg = caller[c].msg
           /\ \A n \in caller'[c].todo \cup caller'[c].may : subs'[n] # Nil =>
                \/ n \in caller[c].todo \cup caller[c].may /\ subs'[n] = subs[n]
                \/ stream[subs'[n]].pc = "idle"
           /\ caller'[c].pc = "send" =>
                caller[c].pc = "send" /\ caller'[c].target = caller[c].target
  PROVE  Streams' /\ Numbers' /\ Visits' /\ Latest'
<1>1. Streams'
  BY DEF Streams
<1>2. Numbers'
  BY SMTT(30) DEF Numbers
<1>3. Latest'
  BY SubscribersConstants DEF Latest, SubscribersConstants
<1>4. Visits'
  <2> SUFFICES ASSUME NEW c \in Caller, Active(c)'
      PROVE  /\ \A n \in caller'[c].todo \cup caller'[c].may : subs'[n] # Nil =>
                  /\ Lacks(subs[n], caller[c].msg.id)'
                  /\ caller'[c].pc = "send" => caller'[c].target # subs'[n]
             /\ caller'[c].pc = "send" /\ caller'[c].target # Nil =>
                  /\ stream'[caller'[c].target].pc # "idle"
                  /\ Lacks(caller[c].target, caller[c].msg.id)'
    BY DEF Visits
  <2>1. Active(c) /\ caller'[c].msg = caller[c].msg
    OBVIOUS
  <2>2. ASSUME NEW s \in Stream, Lacks(s, caller[c].msg.id)
        PROVE  Lacks(s, caller[c].msg.id)'
    BY <2>1, <2>2 DEF Lacks
  <2>3. ASSUME caller'[c].pc = "send", caller'[c].target # Nil
        PROVE  /\ stream'[caller'[c].target].pc # "idle"
               /\ Lacks(caller[c].target, caller[c].msg.id)'
    <3>1. /\ caller[c].pc = "send" /\ caller'[c].target = caller[c].target
          /\ caller[c].target \in Stream
      BY <2>3 DEF SubsTypeOK, CallerState
    <3>2. stream[caller[c].target].pc # "idle" /\ Lacks(caller[c].target, caller[c].msg.id)
      BY <2>1, <2>3, <3>1 DEF Visits
    <3> QED
      BY <2>2, <3>1, <3>2
  <2>4. ASSUME NEW n \in caller'[c].todo \cup caller'[c].may, subs'[n] # Nil
        PROVE  /\ Lacks(subs[n], caller[c].msg.id)'
               /\ caller'[c].pc = "send" => caller'[c].target # subs'[n]
    <3>1. n \in Subscriber /\ subs'[n] \in Stream
      BY <2>4 DEF SubsTypeOK, CallerState
    <3>2. CASE n \in caller[c].todo \cup caller[c].may /\ subs'[n] = subs[n]
      <4>1. /\ Lacks(subs[n], caller[c].msg.id)
            /\ caller[c].pc = "send" => caller[c].target # subs[n]
        BY <2>1, <2>4, <3>2 DEF Visits
      <4> QED
        BY <4>1, <2>2, <3>1, <3>2
    <3>3. CASE stream[subs'[n]].pc = "idle"
      <4>1. Holds(subs'[n]) = {}
        BY <3>1, <3>3 DEF Streams
      <4>2. Lacks(subs'[n], caller[c].msg.id)
        BY <4>1 DEF Lacks
      <4>3. caller'[c].pc = "send" => caller'[c].target # subs'[n]
        <5> SUFFICES ASSUME caller'[c].pc = "send", caller'[c].target = subs'[n]
                     PROVE  FALSE
          OBVIOUS
        <5>1. caller[c].pc = "send" /\ caller[c].target = subs'[n]
          OBVIOUS
        <5> QED
          BY <2>1, <2>4, <3>3, <5>1, SMTT(30) DEF Visits
      <4> QED
        BY <4>2, <4>3, <2>2, <3>1
    <3> QED
      BY <2>4, <3>2, <3>3
  <2> QED
    BY <2>3, <2>4
<1> QED
  BY <1>1, <1>2, <1>3, <1>4

(* What the map operations do to the keys an iteration may produce. *)
LEMMA KeysKept ==
  ASSUME SubsTypeOK, NEW n \in Subscriber, NEW c \in Caller
  PROVE  /\ KeyInserted(n) =>
              /\ caller'[c].todo = caller[c].todo
              /\ caller'[c].may \subseteq caller[c].may \cup {n}
         /\ KeyDeleted(n) =>
              /\ caller'[c].todo = caller[c].todo \ {n}
              /\ caller'[c].may = caller[c].may \ {n}
<1>1. caller[c] \in CallerState
  BY DEF SubsTypeOK
<1>2. ASSUME KeyInserted(n)
      PROVE  /\ caller'[c].todo = caller[c].todo
             /\ caller'[c].may \subseteq caller[c].may \cup {n}
  <2>1. \/ caller'[c] = caller[c]
        \/ caller'[c] = [caller[c] EXCEPT !.may = @ \cup {n}]
    BY <1>2 DEF KeyInserted
  <2> QED
    BY <1>1, <2>1 DEF CallerState
<1>3. ASSUME KeyDeleted(n)
      PROVE  /\ caller'[c].todo = caller[c].todo \ {n}
             /\ caller'[c].may = caller[c].may \ {n}
  <2>1. caller'[c] = [caller[c] EXCEPT !.todo = @ \ {n}, !.may = @ \ {n}]
    BY <1>3 DEF KeyDeleted
  <2> QED
    BY <1>1, <2>1 DEF CallerState
<1> QED
  BY <1>2, <1>3

(* The goroutines of the streams. *)
LEMMA MsgHeldStep ==
  ASSUME SubsTypeOK, MsgHeld, [SubsNext]_subsVars, died' = "no"
  PROVE  MsgHeld' /\ \A s \in Stream : stream[s].pc = "idle" \/ stream'[s].pc # "idle"
<1> SUFFICES ASSUME NEW s \in Stream
             PROVE  /\ stream'[s].pc # "send" => stream'[s].msg = Nil
                    /\ stream[s].pc = "idle" \/ stream'[s].pc # "idle"
  BY DEF MsgHeld
<1>1. stream[s] \in StreamState /\ (stream[s].pc # "send" => stream[s].msg = Nil)
  BY DEF SubsTypeOK, MsgHeld
<1>2. CASE stream'[s] = stream[s]
  BY <1>1, <1>2
<1>3. ~Dies("closeClosed") /\ ~Dies("sendClosed") /\ ~Dies("concurrentMap")
  BY DEF Dies
<1>4. ASSUME NEW t \in Stream, NEW n \in Subscriber, JoinNetwork(t, n)
      PROVE  stream'[s] \in {stream[s], [pc |-> "loop", node |-> n, msg |-> Nil]}
  BY <1>4 DEF JoinNetwork, SubsTypeOK
<1>5. ASSUME NEW t \in Stream, StreamStep(t) \/ ClientGone(t)
      PROVE  \/ stream'[s] = stream[s]
             \/ \E x \in Payload : stream'[s] = [stream[s] EXCEPT !.pc = "send", !.msg = x]
             \/ \E pc \in {"send", "loop", "exit"} :
                  stream'[s] = [stream[s] EXCEPT !.pc = pc, !.msg = Nil]
             \/ /\ stream[s].pc \in {"exit", "close"}
                /\ \E pc \in {"close", "done"} : stream'[s] = [stream[s] EXCEPT !.pc = pc]
  <2>1. CASE s # t
    BY <1>3, <1>5, <2>1
    DEF StreamStep, Receive, ReceiveNil, SendOk, Unsubscribe, CloseChannel,
        CloseClosed, ClientGone, SubsTypeOK
  <2>2. ASSUME s = t, Receive(t) PROVE \E x \in Payload :
          stream'[s] = [stream[s] EXCEPT !.pc = "send", !.msg = x]
    <3>1. Head(chan[s]) \in Payload
      BY <2>2 DEF Receive, SubsTypeOK
    <3> QED
      BY <2>2, <3>1 DEF Receive, SubsTypeOK
  <2>3. ASSUME s = t, ReceiveNil(t) \/ SendOk(t) \/ ClientGone(t)
        PROVE  \E pc \in {"send", "loop", "exit"} :
                  stream'[s] = [stream[s] EXCEPT !.pc = pc, !.msg = Nil]
    BY <2>3 DEF ReceiveNil, SendOk, ClientGone, SubsTypeOK
  <2>4. ASSUME s = t, Unsubscribe(t) \/ CloseChannel(t)
        PROVE  /\ stream[s].pc \in {"exit", "close"}
               /\ \E pc \in {"close", "done"} : stream'[s] = [stream[s] EXCEPT !.pc = pc]
    <3>1. CASE Unsubscribe(t)
      <4>1. stream[s].pc = "exit" /\ stream'[s] = [stream[s] EXCEPT !.pc = "close"]
        BY <2>4, <3>1 DEF Unsubscribe, SubsTypeOK
      <4> QED
        BY <4>1
    <3>2. CASE CloseChannel(t)
      <4>1. stream[s].pc = "close" /\ stream'[s] = [stream[s] EXCEPT !.pc = "done"]
        BY <2>4, <3>2 DEF CloseChannel, SubsTypeOK
      <4> QED
        BY <4>1
    <3> QED
      BY <2>4, <3>1, <3>2
  <2> QED
    BY <1>3, <1>5, <2>1, <2>2, <2>3, <2>4 DEF StreamStep, CloseClosed
<1>6. CASE \/ UNCHANGED subsVars
           \/ \E n \in Subscriber : LeaveNetwork(n)
           \/ LeaveClose
           \/ \E c \in Caller : StartBroadcast(c) \/ BroadcastStep(c)
           \/ SubsMapFault
  BY <1>2, <1>3, <1>6
  DEF subsVars, LeaveNetwork, LeaveClose, StartBroadcast, BroadcastStep, NextEntry,
      SendEntry, EndBroadcast, SubsMapFault
<1>7. CASE \E t \in Stream, n \in Subscriber : JoinNetwork(t, n)
  BY <1>1, <1>4, <1>7
<1>8. CASE \E t \in Stream : StreamStep(t) \/ ClientGone(t)
  BY <1>1, <1>5, <1>8 DEF StreamState
<1> QED
  BY <1>6, <1>7, <1>8 DEF SubsNext

(* Each action keeps the invariant.  Three of them are not carried: a      *)
(* broadcast that begins has a new number, one that reads an entry takes   *)
(* it off the entries it may visit, and one that appends its message does  *)
(* so where it is not yet held.                                            *)
LEMMA StartOrdered ==
  ASSUME SubsTypeOK, SubsTypeOK', Streams, Numbers, Visits, Latest, IInv,
         \A s \in Stream : Holds(s)' \subseteq Holds(s) /\ Ordered(Received(s)'),
         MsgHeld', NEW c \in Caller, StartBroadcast(c)
  PROVE  Streams' /\ Numbers' /\ Visits' /\ Latest'
<1>1. /\ caller'[c].pc = "next" /\ caller'[c].msg = [id |-> sent + 1, from |-> c]
      /\ caller[c].pc = "idle"
      /\ sent' = sent + 1 /\ sent \in Nat
      /\ UNCHANGED <<subs, stream>>
      /\ \A d \in Caller \ {c} : caller'[d] = caller[d]
  BY SubscribersConstants, SMTT(30) DEF StartBroadcast, SubsTypeOK, SubscribersConstants
<1>2. Streams'
  BY <1>1 DEF Streams
<1>3. \A s \in Stream : \A x \in Holds(s) : x.id \in Nat /\ x.id <= sent
  BY HoldsType DEF Numbers, Payload
<1>4. \A d \in Caller : Active(d) => caller[d].msg.id \in Nat /\ caller[d].msg.id <= sent
  BY SMTT(30) DEF Active, Numbers, SubsTypeOK, Payload
<1>5. Numbers'
  <2>1. ASSUME NEW s \in Stream, NEW x \in Holds(s)' PROVE x.id <= sent'
    <3>1. x \in Holds(s)
      BY Zenon
    <3>2. x.id \in Nat /\ x.id <= sent
      BY <1>3, <3>1, Zenon
    <3>3. sent \in Nat /\ sent' = sent + 1
      BY <1>1, Zenon
    <3> QED
      BY <3>2, <3>3
  <2>2. ASSUME NEW d \in Caller, Active(d)'
        PROVE  /\ caller'[d].msg.from = d /\ caller'[d].msg.id <= sent'
               /\ \A e \in Caller \ {d} :
                    Active(e)' => caller'[d].msg.id # caller'[e].msg.id
    <3>1. CASE d = c
      <4>1. \A e \in Caller \ {d} : Active(e)' => caller'[e].msg.id # sent + 1
        <5>1. ASSUME NEW e \in Caller \ {d}, Active(e)'
              PROVE  caller'[e].msg.id # sent + 1
          <6>1. caller'[e] = caller[e]
            BY <1>1, <3>1
          <6>2. caller[e].msg.id \in Nat /\ caller[e].msg.id <= sent
            BY <1>4, <5>1, <6>1 DEF Active
          <6> QED
            BY <1>1, <6>1, <6>2
        <5> QED
          BY <5>1
      <4>2. caller'[d].msg.from = d /\ caller'[d].msg.id = sent + 1
        BY <1>1, <3>1
      <4> QED
        BY <1>1, <4>1, <4>2
    <3>2. CASE d # c
      BY <1>1, <1>4, <2>2, <3>2, SMTT(30) DEF Active, Numbers
    <3> QED
      BY <3>1, <3>2
  <2> QED
    BY <2>1, <2>2 DEF Numbers
<1>6. Visits'
  <2>1. ASSUME NEW s \in Stream, NEW k, Lacks(s, k) PROVE Lacks(s, k)'
    BY <2>1 DEF Lacks
  <2>2. \A s \in Stream : Lacks(s, sent + 1)
    BY <1>1, <1>3 DEF Lacks
  <2>3. ASSUME NEW d \in Caller, Active(d)'
        PROVE  /\ \A n \in caller'[d].todo \cup caller'[d].may : subs'[n] # Nil =>
                    /\ Lacks(subs[n], caller[d].msg.id)'
                    /\ caller'[d].pc = "send" => caller'[d].target # subs'[n]
               /\ caller'[d].pc = "send" /\ caller'[d].target # Nil =>
                    /\ stream'[caller'[d].target].pc # "idle"
                    /\ Lacks(caller[d].target, caller[d].msg.id)'
    <3>1. CASE d = c
      <4>1. \A n \in caller'[c].todo \cup caller'[c].may :
              subs'[n] # Nil => subs'[n] \in Stream
        <5>1. subs' \in [Subscriber -> Stream \cup {Nil}]
          BY Zenon DEF SubsTypeOK
        <5>2. caller'[c].todo \subseteq Subscriber /\ caller'[c].may \subseteq Subscriber
          <6>1. caller'[c] \in CallerState
            BY DEF SubsTypeOK
          <6> QED
            BY <6>1 DEF CallerState
        <5> QED
          BY <5>1, <5>2
      <4>2. caller'[c].msg.id = sent + 1
        BY <1>1
      <4>3. \A s \in Stream : Lacks(s, caller[c].msg.id)'
        BY <2>1, <2>2, <4>2 DEF Lacks
      <4> QED
        BY <1>1, <3>1, <4>1, <4>3
    <3>2. CASE d # c
      <4>1. Active(d) /\ caller'[d] = caller[d] /\ subs' = subs /\ stream' = stream
        BY <1>1, <2>3, <3>2 DEF Active
      <4>2. \A s \in Stream : Lacks(s, caller[d].msg.id) => Lacks(s, caller[d].msg.id)'
        BY <4>1 DEF Lacks
      <4>3. /\ caller[d].target # Nil => caller[d].target \in Stream
            /\ \A n \in caller[d].todo \cup caller[d].may :
                 subs[n] # Nil => subs[n] \in Stream
        BY DEF SubsTypeOK, CallerState
      <4> QED
        BY <4>1, <4>2, <4>3 DEF Visits
    <3> QED
      BY <3>1, <3>2
  <2> QED
    BY <2>3 DEF Visits
<1>7. Latest'
  <2> SUFFICES ASSUME NEW d \in Locked, Active(d)', NEW s \in Stream,
                      NEW x \in Holds(s)', x.from \in Locked
               PROVE  x.id <= caller'[d].msg.id
    BY DEF Latest
  <2>1. x \in Holds(s) /\ d \in Caller
    BY SubscribersConstants DEF SubscribersConstants
  <2>2. CASE d = c
    BY <1>1, <1>3, <2>1, <2>2, SMTT(30)
  <2>3. CASE d # c
    BY <1>1, <2>1, <2>3 DEF Latest, Active
  <2> QED
    BY <2>2, <2>3
<1> QED
  BY <1>2, <1>5, <1>6, <1>7

LEMMA NextOrdered ==
  ASSUME SubsTypeOK, SubsTypeOK', Streams, Numbers, Visits, Latest, IInv,
         \A s \in Stream : Holds(s)' \subseteq Holds(s) /\ Ordered(Received(s)'),
         MsgHeld', NEW c \in Caller, NextEntry(c)
  PROVE  Streams' /\ Numbers' /\ Visits' /\ Latest'
<1>1. PICK n \in caller[c].todo \cup caller[c].may :
        caller' = [caller EXCEPT ![c].pc     = "send",
                                 ![c].todo   = @ \ {n},
                                 ![c].may    = @ \ {n},
                                 ![c].target = subs[n]]
  BY DEF NextEntry
<1>2. caller[c] \in CallerState /\ caller[c].pc = "next"
  BY DEF SubsTypeOK, NextEntry
<1>3. /\ caller'[c].pc = "send" /\ caller'[c].msg = caller[c].msg
      /\ caller'[c].target = subs[n]
      /\ caller'[c].todo = caller[c].todo \ {n} /\ caller'[c].may = caller[c].may \ {n}
      /\ \A d \in Caller \ {c} : caller'[d] = caller[d]
  <2>1. caller'[c] = [caller[c] EXCEPT !.pc = "send", !.todo = @ \ {n},
                                       !.may = @ \ {n}, !.target = subs[n]]
    BY <1>1 DEF SubsTypeOK
  <2> QED
    BY <1>1, <1>2, <2>1, SMTT(30) DEF SubsTypeOK, CallerState
<1>4. UNCHANGED <<subs, stream, sent>>
  BY DEF NextEntry
<1>5. \A d \in Caller : Active(d)' => Active(d) /\ caller'[d].msg = caller[d].msg
  BY <1>2, <1>3 DEF Active
<1>6. Streams'
  BY <1>4 DEF Streams
<1>7. Numbers'
  BY <1>4, <1>5, SMTT(30) DEF Numbers
<1>8. Latest'
  BY <1>5, SubscribersConstants DEF Latest, SubscribersConstants
<1>9. Visits'
  <2>1. ASSUME NEW d \in Caller, Active(d)'
        PROVE  /\ \A q \in caller'[d].todo \cup caller'[d].may : subs'[q] # Nil =>
                    /\ Lacks(subs[q], caller[d].msg.id)'
                    /\ caller'[d].pc = "send" => caller'[d].target # subs'[q]
               /\ caller'[d].pc = "send" /\ caller'[d].target # Nil =>
                    /\ stream'[caller'[d].target].pc # "idle"
                    /\ Lacks(caller[d].target, caller[d].msg.id)'
    <3>1. \A s \in Stream : Lacks(s, caller[d].msg.id) => Lacks(s, caller[d].msg.id)'
      BY <1>5, <2>1 DEF Lacks
    <3>2. CASE d # c
      <4>1. Active(d) /\ caller'[d] = caller[d] /\ subs' = subs /\ stream' = stream
        BY <1>3, <1>4, <2>1, <3>2 DEF Active
      <4>2. /\ caller[d].target # Nil => caller[d].target \in Stream
            /\ \A q \in caller[d].todo \cup caller[d].may :
                 subs[q] # Nil => subs[q] \in Stream
        BY DEF SubsTypeOK, CallerState
      <4> QED
        BY <4>1, <4>2, <3>1 DEF Visits
    <3>3. CASE d = c
      <4>1. /\ n \in Subscriber
            /\ \A q \in caller[c].todo \cup caller[c].may :
                 q \in Subscriber /\ (subs[q] # Nil => subs[q] \in Stream)
        BY DEF SubsTypeOK, CallerState
      <4>2. \A q \in caller[c].todo \cup caller[c].may :
              subs[q] # Nil => Lacks(subs[q], caller[c].msg.id)
        BY <1>2 DEF Visits, Active
      <4>3. subs[n] # Nil => /\ stream[subs[n]].pc # "idle"
                             /\ stream[subs[n]].node = n
        BY <4>1 DEF IInv, EntryLive
      <4>4. \A q \in Subscriber \ {n} : subs[q] # Nil => subs[q] # subs[n]
        BY <4>3 DEF IInv, EntryLive
      <4>5. ASSUME NEW q \in caller'[c].todo \cup caller'[c].may, subs'[q] # Nil
            PROVE  /\ Lacks(subs[q], caller[c].msg.id)'
                   /\ caller'[c].target # subs'[q]
        <5>1. /\ q \in caller[c].todo \cup caller[c].may /\ q # n /\ subs'[q] = subs[q]
          BY <1>3, <1>4, <4>5
        <5>2. subs[q] \in Stream /\ Lacks(subs[q], caller[c].msg.id)
          BY <4>1, <4>2, <4>5, <5>1
        <5>3. Lacks(subs[q], caller[c].msg.id)'
          BY <5>1, <5>2, <3>1, <3>3
        <5> QED
          BY <1>3, <4>1, <4>4, <4>5, <5>1, <5>3
      <4>6. ASSUME caller'[c].target # Nil
            PROVE  /\ stream'[caller'[c].target].pc # "idle"
                   /\ Lacks(caller[c].target, caller[c].msg.id)'
        <5>1. subs[n] # Nil /\ subs[n] \in Stream /\ caller'[c].target = subs[n]
          BY <1>3, <4>1, <4>6
        <5>2. Lacks(subs[n], caller[c].msg.id)
          BY <4>2, <5>1
        <5>3. Lacks(subs[n], caller[c].msg.id)'
          BY <1>4, <3>1, <3>3, <5>1, <5>2
        <5> QED
          BY <1>4, <4>3, <5>1, <5>3 DEF Lacks
      <4> QED
        BY <3>3, <4>5, <4>6
    <3> QED
      BY <3>2, <3>3
  <2> QED
    BY <2>1 DEF Visits
<1> QED
  BY <1>6, <1>7, <1>8, <1>9

(* Two sequences of messages make one. *)
LEMMA Joined ==
  ASSUME NEW a \in Seq(Payload), NEW b \in Seq(Payload)
  PROVE  a \o b \in Seq(Payload)
OBVIOUS

LEMMA AppendOrdered ==
  ASSUME SubsTypeOK, SubsTypeOK', Streams, Numbers, Visits, Latest, IInv,
         NEW c \in Caller, Appends(c)
  PROVE  Streams' /\ Numbers' /\ Visits' /\ Latest'
<1>0. PICK t \in Stream : t = caller[c].target
  BY DEF Appends
<1> DEFINE x == caller[c].msg
           m == IF stream[t].msg = Nil THEN <<>> ELSE <<stream[t].msg>>
<1>1. /\ caller[c] \in CallerState /\ caller[c].pc = "send"
      /\ t \in Stream /\ x \in Payload /\ x.from = c /\ Active(c)
      /\ Lacks(t, x.id) /\ stream[t].pc # "idle"
  <2>1. caller[c] \in CallerState /\ caller[c].pc = "send" /\ t \in Stream /\ Active(c)
    BY <1>0 DEF SubsTypeOK, Appends, Active
  <2>2. x \in Payload /\ x.from = c
    BY <2>1 DEF SubsTypeOK, Numbers
  <2>3. t # Nil
    BY <2>1, SubscribersConstants DEF SubscribersConstants
  <2> QED
    BY <1>0, <2>1, <2>2, <2>3 DEF Visits
<1>2. /\ caller'[c].pc = "next" /\ caller'[c].msg = x
      /\ caller'[c].todo = caller[c].todo /\ caller'[c].may = caller[c].may
      /\ \A d \in Caller \ {c} : caller'[d] = caller[d]
  <2>1. caller'[c] = [caller[c] EXCEPT !.pc = "next", !.target = Nil]
    BY DEF Appends, SubsTypeOK
  <2> QED
    BY <1>1, <2>1 DEF Appends, SubsTypeOK, CallerState
<1>3. UNCHANGED <<subs, stream, sent, delivered, mu>>
  BY DEF Appends
<1>4. \A d \in Caller : Active(d)' => Active(d) /\ caller'[d].msg = caller[d].msg
  BY <1>1, <1>2 DEF Active
<1>5. \A s \in Stream \ {t} : Received(s)' = Received(s)
  BY <1>0, <1>3 DEF Appends, Received, SubsTypeOK
<1>6. /\ Received(t)' = delivered[t] \o m \o Append(chan[t], x)
      /\ Received(t) = delivered[t] \o m \o chan[t]
  BY <1>0, <1>1, <1>3 DEF Appends, Received, SubsTypeOK
<1>7. /\ Received(t) \in Seq(Payload) /\ Received(t)' \in Seq(Payload)
      /\ Len(Received(t)') = Len(Received(t)) + 1
      /\ Received(t)'[Len(Received(t)')] = x
      /\ \A i \in DOMAIN Received(t) : Received(t)'[i] = Received(t)[i]
  <2>1. /\ delivered[t] \in Seq(Payload) /\ chan[t] \in Seq(Payload)
        /\ stream[t].msg \in Payload \cup {Nil}
    BY <1>1 DEF SubsTypeOK, StreamState
  <2>2. m \in Seq(Payload) /\ Append(chan[t], x) \in Seq(Payload)
    <3>1. m \in Seq(Payload)
      <4>1. PICK y \in Payload \cup {Nil} : y = stream[t].msg
        BY <2>1, Zenon
      <4>2. (IF y = Nil THEN <<>> ELSE <<y>>) \in Seq(Payload)
        OBVIOUS
      <4> QED
        BY <4>1, <4>2, Zenon
    <3>2. PICK z \in Payload, q \in Seq(Payload) : z = x /\ q = chan[t]
      BY <1>1, <2>1, Zenon
    <3>3. Append(q, z) \in Seq(Payload)
      OBVIOUS
    <3> QED
      BY <3>1, <3>2, <3>3, Zenon
  <2>3. Received(t) \in Seq(Payload) /\ Received(t)' \in Seq(Payload)
    <3> HIDE DEF m
    <3>1. delivered[t] \o m \in Seq(Payload)
      BY <2>1, <2>2, Joined, Zenon
    <3>2. PICK d : d = delivered[t] \o m
      BY Zenon
    <3> HIDE DEF x
    <3>3. d \o Append(chan[t], x) \in Seq(Payload) /\ d \o chan[t] \in Seq(Payload)
      BY <2>1, <2>2, <3>1, <3>2, Joined, Zenon
    <3> QED
      BY <1>6, <3>2, <3>3, Zenon
  <2> HIDE DEF m, x
  <2>4. Longer(delivered[t] \o m \o Append(chan[t], x), delivered[t] \o m \o chan[t], x)
    <3>1. x \in Payload
      BY <1>1
    <3> QED
      BY <2>1, <2>2, <3>1, Grown
  <2> QED
    BY <1>6, <2>3, <2>4 DEF Longer
<1>8. Holds(t)' = Holds(t) \cup {x}
  BY <1>7 DEF Holds
<1>9. \A s \in Stream \ {t} : Holds(s)' = Holds(s)
  BY <1>5 DEF Holds
<1> HIDE DEF x, m
<1>10. Ordered(Received(t)')
  <2>1. ASSUME NEW i \in DOMAIN Received(t) PROVE Before(Received(t)[i], x)
    <3>1. Received(t)[i] \in Holds(t) /\ Received(t)[i] \in Payload
      BY <1>7, <2>1, SMTT(30) DEF Holds
    <3>2. Received(t)[i].id # x.id
      BY <1>1, <3>1 DEF Lacks
    <3>3. ASSUME {Received(t)[i].from, x.from} \subseteq Locked
          PROVE  Received(t)[i].id < x.id
      <4>1. Received(t)[i].id <= x.id
        BY <1>1, <3>1, <3>3 DEF Latest, x
      <4> QED
        BY <1>1, <3>1, <3>2, <4>1 DEF Payload
    <3> QED
      BY <3>2, <3>3 DEF Before
  <2>2. Ordered(Received(t))
    BY <1>1 DEF Streams
  <2>3. ASSUME NEW i \in DOMAIN Received(t)', NEW j \in DOMAIN Received(t)', i < j
        PROVE  Before(Received(t)'[i], Received(t)'[j])
    <3>1. i \in DOMAIN Received(t) /\ Received(t)'[i] = Received(t)[i]
      BY <1>7, <2>3
    <3>2. CASE j = Len(Received(t)')
      BY <1>7, <2>1, <3>1, <3>2
    <3>3. CASE j # Len(Received(t)')
      <4>1. j \in DOMAIN Received(t) /\ Received(t)'[j] = Received(t)[j]
        BY <1>7, <2>3, <3>3
      <4> QED
        BY <2>2, <2>3, <3>1, <4>1 DEF Ordered
    <3> QED
      BY <3>2, <3>3
  <2> QED
    BY <2>3 DEF Ordered
<1>11. Streams'
  <2>1. MsgHeld'
    BY <1>3 DEF Streams, MsgHeld
  <2>2. ASSUME NEW s \in Stream
        PROVE  Ordered(Received(s)') /\ (stream'[s].pc = "idle" => Holds(s)' = {})
    <3>1. CASE s = t
      BY <1>1, <1>3, <1>10, <3>1
    <3>2. CASE s # t
      BY <1>3, <1>5, <1>9, <3>2 DEF Streams
    <3> QED
      BY <3>1, <3>2
  <2> QED
    BY <2>1, <2>2 DEF Streams
<1>12. Numbers'
  <2>1. x.id <= sent
    BY <1>1 DEF Numbers, x
  <2>2. \A s \in Stream : \A y \in Holds(s)' : y.id <= sent
    BY <1>8, <1>9, <2>1, SMTT(30) DEF Numbers
  <2> QED
    BY <1>3, <1>4, <2>2, SMTT(30) DEF Numbers
<1>13. Latest'
  <2> SUFFICES ASSUME NEW d \in Locked, Active(d)', NEW s \in Stream,
                      NEW y \in Holds(s)', y.from \in Locked
               PROVE  y.id <= caller'[d].msg.id
    BY DEF Latest
  <2>1. d \in Caller /\ Active(d) /\ caller'[d].msg = caller[d].msg
    BY <1>4, SubscribersConstants DEF SubscribersConstants
  <2>2. CASE y \in Holds(s)
    BY <2>1, <2>2 DEF Latest
  <2>3. CASE y \notin Holds(s)
    <3>1. y = x
      BY <1>8, <1>9, <2>3
    <3>2. c \in Locked /\ d = c
      BY <1>1, <2>1, <3>1 DEF IInv, LockedTarget, Active
    <3> QED
      BY <1>1, <2>1, <3>1, <3>2, SMTT(30) DEF Payload, x
  <2> QED
    BY <2>2, <2>3
<1>14. Visits'
  <2>1. ASSUME NEW d \in Caller, Active(d)'
        PROVE  /\ \A n \in caller'[d].todo \cup caller'[d].may : subs'[n] # Nil =>
                    /\ Lacks(subs[n], caller[d].msg.id)'
                    /\ caller'[d].pc = "send" => caller'[d].target # subs'[n]
               /\ caller'[d].pc = "send" /\ caller'[d].target # Nil =>
                    /\ stream'[caller'[d].target].pc # "idle"
                    /\ Lacks(caller[d].target, caller[d].msg.id)'
    <3>1. Active(d) /\ caller'[d].msg = caller[d].msg
      BY <1>4, <2>1
    <3>2. /\ caller[d].target # Nil => caller[d].target \in Stream
          /\ \A n \in caller[d].todo \cup caller[d].may :
               subs[n] # Nil => subs[n] \in Stream
      BY DEF SubsTypeOK, CallerState
    <3>3. CASE d # c
      <4>1. caller'[d] = caller[d] /\ subs' = subs /\ stream' = stream
        BY <1>2, <1>3, <3>3
      <4>2. caller[d].msg.id # x.id
        BY <1>1, <3>1, <3>3 DEF Numbers, x
      <4>3. \A s \in Stream : Lacks(s, caller[d].msg.id) => Lacks(s, caller[d].msg.id)'
        BY <1>8, <1>9, <4>1, <4>2 DEF Lacks
      <4> QED
        BY <3>1, <3>2, <4>1, <4>3 DEF Visits
    <3>4. CASE d = c
      <4>1. \A n \in caller[c].todo \cup caller[c].may :
              subs[n] # Nil => subs[n] # t /\ Lacks(subs[n], caller[c].msg.id)
        BY <1>0, <1>1 DEF Visits
      <4>2. \A s \in Stream \ {t} :
              Lacks(s, caller[c].msg.id) => Lacks(s, caller[c].msg.id)'
        BY <1>9, <3>1, <3>4 DEF Lacks
      <4>3. \A n \in caller[c].todo \cup caller[c].may :
              subs[n] # Nil => Lacks(subs[n], caller[c].msg.id)'
        BY <1>3, <3>2, <3>4, <4>1, <4>2
      <4> QED
        BY <1>2, <1>3, <3>4, <4>3
    <3> QED
      BY <3>3, <3>4
  <2> QED
    BY <2>1 DEF Visits
<1> QED
  BY <1>11, <1>12, <1>13, <1>14

LEMMA OrderStep ==
  ASSUME SubsTypeOK, SubsTypeOK', IInv, OrderInv, [SubsNext]_subsVars
  PROVE  OrderInv'
<1>1. CASE UNCHANGED subsVars
  <2>1. \A s \in Stream : Received(s)' = Received(s) /\ Holds(s)' = Holds(s)
    BY <1>1 DEF subsVars, Received, Holds
  <2>2. MsgHeld => MsgHeld'
    BY <1>1 DEF subsVars, MsgHeld
  <2>3. ASSUME died = "no" PROVE Streams' /\ Numbers' /\ Visits' /\ Latest'
    BY <1>1, <2>1, <2>2, <2>3, Carried DEF OrderInv, Streams, subsVars, Active
  <2> QED
    BY <1>1, <2>1, <2>3 DEF OrderInv, subsVars
<1>2. CASE \E c \in Caller : Appends(c) /\ died = "no"
  <2>1. PICK c \in Caller : Appends(c) /\ died = "no"
    BY <1>2
  <2>2. Streams' /\ Numbers' /\ Visits' /\ Latest'
    BY <2>1, AppendOrdered DEF OrderInv
  <2> QED
    BY <2>2 DEF OrderInv, Streams
<1>3. CASE SubsNext /\ ~\E c \in Caller : Appends(c)
  <2> USE <1>3
  <2>1. died = "no" /\ Streams /\ Numbers /\ Visits /\ Latest /\ MsgHeld
    BY DEF SubsNext, OrderInv, Streams
  <2>2. \A s \in Stream : Holds(s)' \subseteq Holds(s) /\ Ordered(Received(s)')
    BY <2>1, ReceivedSteps, HoldsPart DEF OrderInv
  <2>3. SUFFICES ASSUME died' = "no" PROVE Streams' /\ Numbers' /\ Visits' /\ Latest'
    BY <2>2 DEF OrderInv
  <2>4. MsgHeld' /\ \A s \in Stream : stream[s].pc = "idle" \/ stream'[s].pc # "idle"
    BY <2>1, <2>3, MsgHeldStep
  <2>5. ~Dies("closeClosed") /\ ~Dies("sendClosed") /\ ~Dies("concurrentMap")
    BY <2>3 DEF Dies
  <2>6. CASE UNCHANGED <<subs, caller, sent>>
    BY <2>1, <2>2, <2>4, <2>6, Carried DEF Active
  <2>7. ASSUME NEW n \in Subscriber, NEW s \in Stream, stream[s].pc = "idle",
               subs' = [subs EXCEPT ![n] = s], KeyInserted(n), sent' = sent
        PROVE  Streams' /\ Numbers' /\ Visits' /\ Latest'
    <3>1. \A c \in Caller :
            /\ caller'[c].pc = caller[c].pc /\ caller'[c].msg = caller[c].msg
            /\ caller'[c].target = caller[c].target
      BY <2>7, KeysType
    <3>2. \A c \in Caller : \A q \in caller'[c].todo \cup caller'[c].may :
            q \in caller[c].todo \cup caller[c].may \cup {n}
      BY <2>7, KeysKept
    <3>3. \A q \in Subscriber : subs'[q] = subs[q] \/ subs'[q] = s
      BY <2>7 DEF SubsTypeOK
    <3>4. \A c \in Caller : caller'[c].todo \cup caller'[c].may \subseteq Subscriber
      BY DEF SubsTypeOK, CallerState
    <3>5. subs'[n] = s
      BY <2>7 DEF SubsTypeOK
    <3>6. \A c \in Caller : \A q \in caller'[c].todo \cup caller'[c].may :
            \/ q \in caller[c].todo \cup caller[c].may /\ subs'[q] = subs[q]
            \/ stream[subs'[q]].pc = "idle"
      BY <2>7, <3>2, <3>3, <3>4, <3>5
    <3> QED
      BY <2>1, <2>2, <2>4, <2>7, <3>1, <3>6, Carried DEF Active
  <2>8. ASSUME NEW n \in Subscriber, subs' = [subs EXCEPT ![n] = Nil], KeyDeleted(n),
               sent' = sent
        PROVE  Streams' /\ Numbers' /\ Visits' /\ Latest'
    <3>1. \A c \in Caller :
            /\ caller'[c].pc = caller[c].pc /\ caller'[c].msg = caller[c].msg
            /\ caller'[c].target = caller[c].target
      BY <2>8, KeysType
    <3>2. \A c \in Caller : \A q \in caller'[c].todo \cup caller'[c].may :
            q \in caller[c].todo \cup caller[c].may /\ q # n
      BY <2>8, KeysKept, SMTT(30)
    <3>3. \A q \in Subscriber : q # n => subs'[q] = subs[q]
      BY <2>8 DEF SubsTypeOK
    <3>4. \A c \in Caller : caller'[c].todo \cup caller'[c].may \subseteq Subscriber
      BY DEF SubsTypeOK, CallerState
    <3> QED
      BY <2>1, <2>2, <2>4, <2>8, <3>1, <3>2, <3>3, <3>4, Carried DEF Active
  <2>9. ASSUME NEW c \in Caller, EndBroadcast(c)
        PROVE  Streams' /\ Numbers' /\ Visits' /\ Latest'
    <3>1. /\ caller'[c].pc = "idle" /\ UNCHANGED <<subs, sent>>
          /\ \A d \in Caller \ {c} : caller'[d] = caller[d]
      BY <2>9 DEF EndBroadcast, IdleCaller, SubsTypeOK
    <3> QED
      BY <2>1, <2>2, <2>4, <3>1, Carried DEF Active
  <2>10. ASSUME NEW c \in Caller, SendEntry(c)
         PROVE  Streams' /\ Numbers' /\ Visits' /\ Latest'
    <3>1. /\ UNCHANGED <<subs, sent>> /\ caller[c].pc = "send"
          /\ caller' = [caller EXCEPT ![c].pc = "next", ![c].target = Nil]
      BY <2>5, <2>10 DEF SendEntry
    <3>2. caller[c] \in CallerState
          /\ caller'[c] = [caller[c] EXCEPT !.pc = "next", !.target = Nil]
          /\ \A d \in Caller \ {c} : caller'[d] = caller[d]
      BY <3>1 DEF SubsTypeOK
    <3>3. /\ caller'[c].pc = "next" /\ caller'[c].msg = caller[c].msg
          /\ caller'[c].todo = caller[c].todo /\ caller'[c].may = caller[c].may
      BY <3>2 DEF CallerState
    <3>4. \A d \in Caller : Active(d)' =>
            /\ Active(d) /\ caller'[d].msg = caller[d].msg
            /\ caller'[d].todo \cup caller'[d].may = caller[d].todo \cup caller[d].may
            /\ caller'[d].pc = "send" =>
                 caller[d].pc = "send" /\ caller'[d].target = caller[d].target
      BY <3>1, <3>2, <3>3 DEF Active
    <3> QED
      BY <2>1, <2>2, <2>4, <3>1, <3>4, Carried
  <2>11. ASSUME NEW c \in Caller, StartBroadcast(c)
         PROVE  Streams' /\ Numbers' /\ Visits' /\ Latest'
    BY <2>1, <2>2, <2>4, <2>11, StartOrdered
  <2>12. ASSUME NEW c \in Caller, NextEntry(c)
         PROVE  Streams' /\ Numbers' /\ Visits' /\ Latest'
    BY <2>1, <2>2, <2>4, <2>12, NextOrdered
  <2>13. CASE \E s \in Stream, n \in Subscriber : JoinNetwork(s, n)
    BY <2>7, <2>13 DEF JoinNetwork
  <2>14. ASSUME NEW s \in Stream, StreamStep(s) \/ ClientGone(s)
         PROVE  Streams' /\ Numbers' /\ Visits' /\ Latest'
    <3>1. CASE Unsubscribe(s)
      <4>1. stream[s].node \in Subscriber
        BY <3>1 DEF SubsTypeOK, Unsubscribe
      <4> QED
        BY <3>1, <4>1, <2>8 DEF Unsubscribe
    <3>2. CASE ~Unsubscribe(s)
      BY <2>5, <2>6, <2>14, <3>2
      DEF StreamStep, Receive, ReceiveNil, SendOk, CloseChannel, CloseClosed, ClientGone
    <3> QED
      BY <3>1, <3>2
  <2>15. CASE \E n \in Subscriber : LeaveNetwork(n)
    BY <2>8, <2>15 DEF LeaveNetwork
  <2>16. CASE LeaveClose
    BY <2>6, <2>16 DEF LeaveClose
  <2>17. CASE \E c \in Caller : BroadcastStep(c)
    BY <2>9, <2>10, <2>12, <2>17 DEF BroadcastStep
  <2> QED
    BY <2>5, <2>11, <2>13, <2>14, <2>15, <2>16, <2>17 DEF SubsNext, SubsMapFault
<1> QED
  BY <1>1, <1>2, <1>3 DEF SubsNext

(* A subscriber gets each message at most once, and the messages broadcast *)
(* under m.mu in the order of their broadcasts, for any number of streams, *)
(* nodes and broadcasts, locked or not, and any capacity of the channels.  *)
THEOREM DeliveredInOrder == SubsSpec => []DeliveryOrder
<1>1. SubsInit => OrderInv
  <2> SUFFICES ASSUME SubsInit PROVE OrderInv
    OBVIOUS
  <2>1. ASSUME NEW s \in Stream PROVE Received(s) = <<>> /\ Holds(s) = {}
    <3>1. chan[s] = <<>> /\ delivered[s] = <<>> /\ stream[s].msg = Nil
      BY DEF SubsInit, IdleStream
    <3>2. <<>> \o <<>> = <<>>
      OBVIOUS
    <3>3. Received(s) = <<>>
      BY <3>1, <3>2 DEF Received
    <3> QED
      BY <3>1, <3>3 DEF Holds
  <2>2. \A s \in Stream : Ordered(Received(s))
    BY <2>1 DEF Ordered
  <2>3. \A c \in Caller : ~Active(c)
    BY DEF SubsInit, Active, IdleCaller
  <2>4. MsgHeld
    BY DEF SubsInit, MsgHeld, IdleStream
  <2> QED
    BY <2>1, <2>2, <2>3, <2>4, SubscribersConstants
    DEF OrderInv, Streams, Numbers, Visits, Latest, SubscribersConstants
<1>2. SubsTypeOK /\ SubsTypeOK' /\ IInv /\ OrderInv /\ [SubsNext]_subsVars => OrderInv'
  BY OrderStep
<1>3. OrderInv => DeliveryOrder
  BY DEF OrderInv, DeliveryOrder, Ordered, Before
<1> QED
  BY <1>1, <1>2, <1>3, SubscribersTypeCorrect, InvHolds, PTL DEF SubsSpec

=============================================================================
