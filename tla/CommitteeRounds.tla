--------------------------- MODULE CommitteeRounds ---------------------------
(***************************************************************************)
(* The committee rounds of the mesh server: the two unary RPCs             *)
(* RequestCommittee and RequestAggregatedCommit, the per-round timers, and *)
(* the goroutines that run tryFinalize.                                    *)
(*                                                                         *)
(* Every RPC runs in a goroutine of its own and holds m.mu from its first  *)
(* statement to its return, so at most one of them is under way: it is the *)
(* variable handler, and m.mu is held exactly while handler # NoHandler.   *)
(* A request still waiting for m.mu has touched nothing shared and is not  *)
(* represented.  tryFinalize takes no lock: its goroutines (fin) advance   *)
(* one access to shared state at a time, between any two accesses of the   *)
(* handler and of each other.                                              *)
(*                                                                         *)
(* Where two goroutines are about to touch one Go map and at least one of  *)
(* them writes, the accesses may take effect in either order or the Go     *)
(* runtime may stop the process ("concurrent map writes"): both outcomes   *)
(* are actions.                                                            *)
(***************************************************************************)
EXTENDS MeshServer, Integers, Sequences, FiniteSets

CONSTANTS
  Node,         \* the nodes that ask for a committee
  BadKey,       \* those whose public key is not the encoding of a point
  BadCommit,    \* those whose commitment is not the encoding of a point
  Round,        \* the round numbers in use
  RoundMod,     \* the number of values of a round number (2^64 in the code)
  Threshold,    \* threshold: candidates that close a round
  GcWindow,     \* gcRoundWindow
  Goroutine,    \* identities for the goroutines that run tryFinalize
  MaxRequests,  \* bound: calls of RequestCommittee
  MaxCommits    \* bound: calls of RequestAggregatedCommit

ASSUME ConstantsOK ==
  /\ BadKey \subseteq Node /\ BadCommit \subseteq Node
  /\ RoundMod \in Nat \ {0}
  /\ Round \subseteq 0 .. RoundMod - 1
  /\ Threshold \in Nat \ {0}
  /\ GcWindow \in Nat
  /\ MaxRequests \in Nat
  /\ MaxCommits \in Nat
  /\ Nil \notin Round \cup Node

VARIABLES
  handler,     \* the RPC that holds m.mu
  fin,         \* the goroutines running tryFinalize
  processed,   \* m.processed: the rounds mapped to true
  timers,      \* m.timers: the state of the timer stored for each round
  orphans,     \* armed timers of a round that m.timers no longer refers to
  candidates,  \* m.committeeCandidates: the requests of each round, in order
  commitData,  \* m.commitData: for each partial commit held for a round,
               \* whether it is the encoding of a point
  cosigners,   \* m.cosigners: the key list of the object, or Nil
  nodeNumber,  \* the global nodeNumber
  crashed,     \* why the process ended, or "no"
  requests,    \* calls of RequestCommittee so far
  commits,     \* calls of RequestAggregatedCommit so far
  announced    \* history: the rounds a committee was broadcast for

serverVars  == <<processed, timers, orphans, candidates, commitData,
                 cosigners, nodeNumber>>
historyVars == <<requests, commits, announced>>
vars        == <<handler, fin, serverVars, crashed, historyVars>>

(* What is kept of a CommitteeCandidateInfo; its public key and commitment *)
(* are those of the request.                                               *)
Candidate == [round : Round, nodeId : Node]

HandlerPC == {"unlocked", "check", "load", "append", "timer", "size", "stop",
              "gc", "aggregate"}

FinPC == {"none", "mark", "drop", "take", "count", "cosigners", "pubkey",
          "commit", "broadcast", "free", "unmark"}

HandlerState == [pc : HandlerPC, round : Round \cup {Nil},
                 node : Node \cup {Nil}, cands : Seq(Candidate)]

FinState == [pc : FinPC, round : Round \cup {Nil}, cands : Seq(Candidate),
             pubKey : Seq(Candidate), commit : Nat \cup {Nil}]

NoHandler   == [pc |-> "unlocked", round |-> Nil, node |-> Nil,
                cands |-> <<>>]
NoGoroutine == [pc |-> "none", round |-> Nil, cands |-> <<>>,
                pubKey |-> <<>>, commit |-> Nil]

Reasons == {"no", "nilTimer", "nilCosigners", "indexRange", "concurrentMap"}

Init ==
  /\ handler    = NoHandler
  /\ fin        = [g \in Goroutine |-> NoGoroutine]
  /\ processed  = {}
  /\ timers     = [r \in Round |-> "none"]
  /\ orphans    = [r \in Round |-> 0]
  /\ candidates = [r \in Round |-> <<>>]
  /\ commitData = [r \in Round |-> <<>>]
  /\ cosigners  = Nil
  /\ nodeNumber = 0
  /\ crashed    = "no"
  /\ requests   = 0
  /\ commits    = 0
  /\ announced  = {}

-----------------------------------------------------------------------------
(* A goroutine running tryFinalize(r) starts. *)
Spawn(r) ==
  \E g \in Goroutine :
    /\ fin[g].pc = "none"
    /\ fin' = [fin EXCEPT ![g] = [NoGoroutine EXCEPT !.pc    = "mark",
                                                     !.round = r]]

(* The process ends; what it held in memory is gone. *)
Crash(why) ==
  /\ crashed'    = why
  /\ handler'    = NoHandler
  /\ fin'        = [g \in Goroutine |-> NoGoroutine]
  /\ processed'  = {}
  /\ timers'     = [r \in Round |-> "none"]
  /\ orphans'    = [r \in Round |-> 0]
  /\ candidates' = [r \in Round |-> <<>>]
  /\ commitData' = [r \in Round |-> <<>>]
  /\ cosigners'  = Nil
  /\ nodeNumber' = 0
  /\ UNCHANGED historyVars

-----------------------------------------------------------------------------
(* RequestCommittee, in the order of its accesses to shared state.         *)

(* m.mu.Lock(); m.cosigners = nil *)
RequestCommittee(r, n) ==
  /\ handler = NoHandler
  /\ requests < MaxRequests
  /\ handler'   = [NoHandler EXCEPT !.pc = "check", !.round = r, !.node = n]
  /\ cosigners' = Nil
  /\ requests'  = requests + 1
  /\ UNCHANGED <<fin, processed, timers, orphans, candidates,
                 commitData, nodeNumber, crashed, commits, announced>>

(* initMaps, then the early return of appendCandidate: Ack{Ok: false}.     *)
(* The maps initMaps makes are written only after it, by this handler and  *)
(* by the goroutines and timers it starts; a nil map reads as empty.       *)
CheckProcessed ==
  /\ handler.pc = "check"
  /\ \/ /\ handler.round \in processed
        /\ handler' = NoHandler
     \/ /\ handler.round \notin processed
        /\ handler' = [handler EXCEPT !.pc = "load"]
  /\ UNCHANGED <<fin, processed, timers, orphans, candidates, commitData,
                 cosigners, nodeNumber, crashed, historyVars>>

(* Mutant: the list is looked up under another round. *)
LoadCandidatesWrongKey ==
  /\ handler.pc = "load"
  /\ \E r \in Round :
       handler' = [handler EXCEPT !.pc = "append", !.cands = candidates[r]]
  /\ UNCHANGED <<fin, serverVars, crashed, historyVars>>

(* m.committeeCandidates[r] = append(m.committeeCandidates[r], cci): a map *)
(* read and a map write, which a goroutine of the round can come between.  *)
LoadCandidates ==
  /\ handler.pc = "load"
  /\ handler' = [handler EXCEPT !.pc    = "append",
                                !.cands = candidates[handler.round]]
  /\ UNCHANGED <<fin, serverVars, crashed, historyVars>>

AppendCandidate ==
  /\ handler.pc = "append"
  /\ candidates' = [candidates EXCEPT ![handler.round] =
                       Append(handler.cands, [round  |-> handler.round,
                                              nodeId |-> handler.node])]
  /\ handler'    = [handler EXCEPT !.pc = "timer", !.node = Nil,
                                   !.cands = <<>>]
  /\ UNCHANGED <<fin, processed, timers, orphans, commitData,
                 cosigners, nodeNumber, crashed, historyVars>>

(* Mutant: no timer is armed. *)
ArmTimerNever ==
  /\ handler.pc = "timer"
  /\ handler' = [handler EXCEPT !.pc = "size"]
  /\ UNCHANGED <<fin, serverVars, crashed, historyVars>>

(* time.AfterFunc(maxWait, ...) unless m.timers has an entry for the round *)
ArmTimer ==
  /\ handler.pc = "timer"
  /\ timers'  = [timers EXCEPT ![handler.round] = IF @ = "none" THEN "armed"
                                                                ELSE @]
  /\ handler' = [handler EXCEPT !.pc = "size"]
  /\ UNCHANGED <<fin, processed, orphans, candidates, commitData,
                 cosigners, nodeNumber, crashed, historyVars>>

CheckSize ==
  /\ handler.pc = "size"
  /\ handler' = [handler EXCEPT !.pc =
                   IF Len(candidates[handler.round]) >= Threshold
                   THEN "stop" ELSE "gc"]
  /\ UNCHANGED <<fin, serverVars, crashed, historyVars>>

(* Mutant: the timer is stopped and no goroutine started. *)
StopTimerNoGoroutine ==
  /\ handler.pc = "stop"
  /\ timers'  = [timers EXCEPT ![handler.round] = "spent"]
  /\ handler' = [handler EXCEPT !.pc = "gc"]
  /\ UNCHANGED <<fin, processed, orphans, candidates, commitData,
                 cosigners, nodeNumber, crashed, historyVars>>

(* m.timers[r].Stop() panics when the entry has been deleted meanwhile;    *)
(* Stop on a timer that has already fired leaves its goroutine running.    *)
StopTimer ==
  /\ handler.pc = "stop"
  /\ \/ /\ timers[handler.round] = "none"
        /\ Crash("nilTimer")
     \/ /\ timers[handler.round] # "none"
        /\ timers'  = [timers EXCEPT ![handler.round] = "spent"]
        /\ Spawn(handler.round)
        /\ handler' = [handler EXCEPT !.pc = "gc"]
        /\ UNCHANGED <<processed, orphans, candidates, commitData,
                       cosigners, nodeNumber, crashed, historyVars>>

(* r + gcRoundWindow < cur, in the arithmetic of uint64 *)
Stale(r, cur) == (r + GcWindow) % RoundMod < cur

(* One iteration of gcOldRounds: delete the list of an old round. *)
GcOldRounds ==
  /\ handler.pc = "gc"
  /\ \E r \in Round :
       /\ Stale(r, handler.round)
       /\ candidates[r] # <<>>
       /\ candidates' = [candidates EXCEPT ![r] = <<>>]
  /\ UNCHANGED <<handler, fin, processed, timers, orphans,
                 commitData, cosigners, nodeNumber, crashed, historyVars>>

(* No old round is left: Ack{Ok: true} and the deferred unlock. *)
ReturnOk ==
  /\ handler.pc = "gc"
  /\ \A r \in Round : Stale(r, handler.round) => candidates[r] = <<>>
  /\ handler' = NoHandler
  /\ UNCHANGED <<fin, serverVars, crashed, historyVars>>

-----------------------------------------------------------------------------
(* RequestAggregatedCommit *)

(* cos.AggregateCommit(commits) goes through the keys of the object; ok    *)
(* says which commits decode.  At the first that does not it returns nil;  *)
(* when it runs out of commits before that, it panics.                     *)
OutOfCommits(keys, ok) == Len(keys) > Len(ok) /\ \A i \in DOMAIN ok : ok[i]

(* Otherwise the result is the sum over the keys, of which the number of   *)
(* the commits added is kept.                                              *)
SumOfCommits(keys, ok) ==
  IF \A i \in DOMAIN keys \cap DOMAIN ok : ok[i] THEN Len(keys) ELSE Nil

(* Store the partial commit; return unless the stored committee size is    *)
(* reached.                                                                *)
RequestAggregatedCommit(r, ok) ==
  /\ handler = NoHandler
  /\ commits < MaxCommits
  /\ commits'    = commits + 1
  /\ commitData' = [commitData EXCEPT ![r] = Append(@, ok)]
  /\ handler'    = IF Len(commitData[r]) + 1 < nodeNumber
                   THEN NoHandler
                   ELSE [NoHandler EXCEPT !.pc = "aggregate", !.round = r]
  /\ UNCHANGED <<fin, processed, timers, orphans, candidates, cosigners,
                 nodeNumber, crashed, requests, announced>>

(* AggregateCommit is called on the object m.cosigners refers to now; its  *)
(* result, nil or not, is broadcast, and the data is deleted.              *)
AggregateCommits ==
  LET ok == commitData[handler.round] IN
  /\ handler.pc = "aggregate"
  /\ \/ /\ cosigners = Nil
        /\ Crash("nilCosigners")
     \/ /\ cosigners # Nil
        /\ OutOfCommits(cosigners, ok)
        /\ Crash("indexRange")
     \/ /\ cosigners # Nil
        /\ ~ OutOfCommits(cosigners, ok)
        /\ commitData' = [commitData EXCEPT ![handler.round] = <<>>]
        /\ handler'    = NoHandler
        /\ UNCHANGED <<fin, processed, timers, orphans, candidates,
                       cosigners, nodeNumber, crashed, historyVars>>

-----------------------------------------------------------------------------
(* Timers: the runtime runs the function of an armed timer in a goroutine  *)
(* of its own.                                                             *)

TimerFires(r) ==
  /\ timers[r] = "armed"
  /\ timers' = [timers EXCEPT ![r] = "spent"]
  /\ Spawn(r)
  /\ UNCHANGED <<handler, processed, orphans, candidates, commitData,
                 cosigners, nodeNumber, crashed, historyVars>>

OrphanFires(r) ==
  /\ orphans[r] > 0
  /\ orphans' = [orphans EXCEPT ![r] = @ - 1]
  /\ Spawn(r)
  /\ UNCHANGED <<handler, processed, timers, candidates, commitData,
                 cosigners, nodeNumber, crashed, historyVars>>

-----------------------------------------------------------------------------
(* tryFinalize, in the order of its accesses to shared state.              *)

At(g, pc)   == fin[g].pc = pc
Goto(g, pc) == fin' = [fin EXCEPT ![g].pc = pc]

MarkProcessed(g) ==
  /\ At(g, "mark")
  /\ processed' = processed \cup {fin[g].round}
  /\ Goto(g, "drop")
  /\ UNCHANGED <<handler, timers, orphans, candidates, commitData,
                 cosigners, nodeNumber, crashed, historyVars>>

(* delete(m.timers, round): an armed timer stays armed *)
DropTimer(g) ==
  LET r == fin[g].round IN
  /\ At(g, "drop")
  /\ timers'  = [timers EXCEPT ![r] = "none"]
  /\ orphans' = [orphans EXCEPT ![r] = IF timers[r] = "armed" THEN @ + 1
                                                              ELSE @]
  /\ Goto(g, "take")
  /\ UNCHANGED <<handler, processed, candidates, commitData,
                 cosigners, nodeNumber, crashed, historyVars>>

TakeCandidates(g) ==
  /\ At(g, "take")
  /\ fin' = [fin EXCEPT ![g].pc    = "count",
                        ![g].cands = candidates[fin[g].round]]
  /\ UNCHANGED <<handler, serverVars, crashed, historyVars>>

StoreNodeNumber(g) ==
  /\ At(g, "count")
  /\ nodeNumber' = Len(fin[g].cands)
  /\ Goto(g, "cosigners")
  /\ UNCHANGED <<handler, processed, timers, orphans, candidates,
                 commitData, cosigners, crashed, historyVars>>

(* cosi.NewCosigners returns nil when a public key does not decode *)
CosignersFor(keys) ==
  IF \E i \in DOMAIN keys : keys[i].nodeId \in BadKey THEN Nil ELSE keys

StoreCosigners(g) ==
  /\ At(g, "cosigners")
  /\ cosigners' = CosignersFor(fin[g].cands)
  /\ Goto(g, "pubkey")
  /\ UNCHANGED <<handler, processed, timers, orphans, candidates,
                 commitData, nodeNumber, crashed, historyVars>>

(* Both aggregates are computed by the object m.cosigners refers to now. *)
AggregatePublicKey(g) ==
  /\ At(g, "pubkey")
  /\ \/ /\ cosigners = Nil
        /\ Crash("nilCosigners")
     \/ /\ cosigners # Nil
        /\ fin' = [fin EXCEPT ![g].pc = "commit", ![g].pubKey = cosigners]
        /\ UNCHANGED <<handler, serverVars, crashed, historyVars>>

CallAggregateCommit(g) ==
  LET ok == [i \in DOMAIN fin[g].cands |->
               fin[g].cands[i].nodeId \notin BadCommit] IN
  /\ At(g, "commit")
  /\ \/ /\ cosigners = Nil
        /\ Crash("nilCosigners")
     \/ /\ cosigners # Nil
        /\ OutOfCommits(cosigners, ok)
        /\ Crash("indexRange")
     \/ /\ cosigners # Nil
        /\ ~ OutOfCommits(cosigners, ok)
        /\ fin' = [fin EXCEPT ![g].pc     = "broadcast",
                              ![g].commit = SumOfCommits(cosigners, ok)]
        /\ UNCHANGED <<handler, serverVars, crashed, historyVars>>

(* broadcast(&pb.FinalizedCommittee{...}); the locals are not used after *)
Broadcast(g) ==
  /\ At(g, "broadcast")
  /\ announced' = announced \cup {fin[g].round}
  /\ fin' = [fin EXCEPT ![g] = [NoGoroutine EXCEPT !.pc    = "free",
                                                   !.round = fin[g].round]]
  /\ UNCHANGED <<handler, serverVars, crashed, requests, commits>>

FreeCandidates(g) ==
  /\ At(g, "free")
  /\ candidates' = [candidates EXCEPT ![fin[g].round] = <<>>]
  /\ Goto(g, "unmark")
  /\ UNCHANGED <<handler, processed, timers, orphans, commitData,
                 cosigners, nodeNumber, crashed, historyVars>>

UnmarkProcessed(g) ==
  /\ At(g, "unmark")
  /\ processed' = processed \ {fin[g].round}
  /\ fin' = [fin EXCEPT ![g] = NoGoroutine]
  /\ UNCHANGED <<handler, timers, orphans, candidates, commitData,
                 cosigners, nodeNumber, crashed, historyVars>>

-----------------------------------------------------------------------------
(* The deferred function of JoinNetwork replaces m.processed by an empty   *)
(* map, without the lock, whenever a stream ends.                          *)
StreamEnds ==
  /\ processed # {}
  /\ processed' = {}
  /\ UNCHANGED <<handler, fin, timers, orphans, candidates,
                 commitData, cosigners, nodeNumber, crashed, historyVars>>

(* The map each program point is about to touch, and how.  gcOldRounds     *)
(* ranges over the candidates and writes only when it finds an old round.  *)
Access(pc) ==
  CASE pc = "check"                       -> <<"processed", "read">>
    [] pc \in {"mark", "unmark"}          -> <<"processed", "write">>
    [] pc \in {"append", "free"}          -> <<"candidates", "write">>
    [] pc \in {"load", "size", "take"}    -> <<"candidates", "read">>
    [] pc = "gc" -> <<"candidates",
                      IF \E r \in Round : /\ Stale(r, handler.round)
                                          /\ candidates[r] # <<>>
                      THEN "write" ELSE "read">>
    [] pc \in {"timer", "drop"}           -> <<"timers", "write">>
    [] pc = "stop"                        -> <<"timers", "read">>
    [] OTHER                              -> <<"none", "read">>

Conflict(pc1, pc2) ==
  /\ Access(pc1)[1] = Access(pc2)[1]
  /\ "write" \in {Access(pc1)[2], Access(pc2)[2]}

(* fatal error: concurrent map writes, or concurrent map read and write *)
ConcurrentMapFault ==
  /\ \/ \E g \in Goroutine : Conflict(handler.pc, fin[g].pc)
     \/ \E g, h \in Goroutine : g # h /\ Conflict(fin[g].pc, fin[h].pc)
  /\ Crash("concurrentMap")

-----------------------------------------------------------------------------
HandlerStep ==
  \/ CheckProcessed
  \/ LoadCandidates
  \/ AppendCandidate
  \/ ArmTimer
  \/ CheckSize
  \/ StopTimer
  \/ GcOldRounds
  \/ ReturnOk
  \/ AggregateCommits

TryFinalize(g) ==
  \/ MarkProcessed(g)
  \/ DropTimer(g)
  \/ TakeCandidates(g)
  \/ StoreNodeNumber(g)
  \/ StoreCosigners(g)
  \/ AggregatePublicKey(g)
  \/ CallAggregateCommit(g)
  \/ Broadcast(g)
  \/ FreeCandidates(g)
  \/ UnmarkProcessed(g)

Next ==
  /\ crashed = "no"
  /\ \/ \E r \in Round, n \in Node : RequestCommittee(r, n)
     \/ \E r \in Round, ok \in BOOLEAN : RequestAggregatedCommit(r, ok)
     \/ HandlerStep
     \/ \E r \in Round : TimerFires(r) \/ OrphanFires(r)
     \/ \E g \in Goroutine : TryFinalize(g)
     \/ StreamEnds
     \/ ConcurrentMapFault

Spec == Init /\ [][Next]_vars

(* The Go scheduler runs every runnable goroutine, and armed timers fire.  *)
(* Nothing makes clients call or streams end.                              *)
Running(A) == crashed = "no" /\ A

Fairness ==
  /\ WF_vars(Running(HandlerStep))
  /\ \A g \in Goroutine : WF_vars(Running(TryFinalize(g)))
  /\ \A r \in Round : WF_vars(Running(TimerFires(r)))
                   /\ WF_vars(Running(OrphanFires(r)))

FairSpec == Spec /\ Fairness

-----------------------------------------------------------------------------
(* Properties *)

TypeOK ==
  /\ handler \in HandlerState
  /\ handler.pc \in HandlerPC \ {"unlocked"} => handler.round \in Round
  /\ handler.pc \in {"check", "load", "append"} => handler.node \in Node
  /\ fin \in [Goroutine -> FinState]
  /\ \A g \in Goroutine : fin[g].pc # "none" => fin[g].round \in Round
  /\ processed \subseteq Round
  /\ timers \in [Round -> {"none", "armed", "spent"}]
  /\ orphans \in [Round -> Nat]
  /\ candidates \in [Round -> Seq(Candidate)]
  /\ commitData \in [Round -> Seq(BOOLEAN)]
  /\ cosigners \in Seq(Candidate) \cup {Nil}
  /\ nodeNumber \in Nat
  /\ crashed \in Reasons
  /\ requests \in Nat
  /\ commits \in Nat
  /\ announced \subseteq Round

(* A goroutine of round r has started tryFinalize and has not yet deleted  *)
(* the candidates of the round.                                            *)
WillFree(r) ==
  \E g \in Goroutine : fin[g].round = r /\ fin[g].pc \notin {"none", "unmark"}

(* However requests, timers and finalizing goroutines interleave, a round  *)
(* that holds candidates is never forgotten: a timer of it is armed, or a  *)
(* goroutine of it has yet to delete the list, or the request that stored  *)
(* the candidate is about to look at m.timers (appendCandidate,            *)
(* tryFinalize).                                                           *)
NoStrandedRound ==
  \A r \in Round :
    candidates[r] # <<>> =>
      \/ timers[r] = "armed"
      \/ orphans[r] > 0
      \/ WillFree(r)
      \/ handler.pc = "timer" /\ handler.round = r

(* Every request in the list s was made for round r. *)
OfRound(s, r) == \A i \in DOMAIN s : s[i].round = r

(* The node ids and public keys a goroutine is about to broadcast for a    *)
(* round are those of requests made for that same round, whatever other    *)
(* rounds are collected, finalized or garbage-collected at the same time.  *)
(* Of the two aggregates in the same message this is not so: see           *)
(* KeyOfItsCommittee.                                                      *)
CommitteeOfItsRound ==
  \A g \in Goroutine :
    fin[g].pc = "broadcast" => OfRound(fin[g].cands, fin[g].round)

(* Every stored candidate list is eventually deleted, by tryFinalize after *)
(* the threshold or the timeout, or by the garbage collection.             *)
RoundCleared ==
  \A r \in Round :
    candidates[r] # <<>> ~> (candidates[r] = <<>> \/ crashed # "no")

-----------------------------------------------------------------------------
(* What comments of the code say of it and the code does not do. *)

(* network_helper.go, on tryFinalize: "a function entered with             *)
(* m.mu.Lock()", so that no handler runs while it does.                    *)
FinalizeExcludesHandlers ==
  \A g \in Goroutine :
    fin[g].pc \notin {"none", "mark"} => handler = NoHandler

(* network.go, on RequestCommittee: the requests are stored and, once the  *)
(* nodes have gathered, a leader and a committee are chosen among them; a  *)
(* committee without members is not one.                                   *)
CommitteeHasMembers ==
  \A g \in Goroutine : fin[g].pc = "broadcast" => fin[g].cands # <<>>

(* network.go, on RequestAggregatedCommit: it "is called for signing when  *)
(* the committee has been selected", and works from the stored committee   *)
(* size: the commits it aggregates are those of that committee.            *)
CommitsOfSelectedCommittee ==
  handler.pc = "aggregate" /\ handler.round \in announced =>
    cosigners # Nil /\ Len(cosigners) = nodeNumber

(* interface.proto, on FinalizedCommittee: publicKeys are the data for     *)
(* cosi.NewCosigners(pubKeys, nil), which yields the aggregate key of the  *)
(* same message.  Line 94 reads m.cosigners again, which another goroutine *)
(* may have replaced since line 93 stored the object of this committee.    *)
KeyOfItsCommittee ==
  \A g \in Goroutine : fin[g].pc = "broadcast" => fin[g].pubKey = fin[g].cands

(* network.go, on the call of gcOldRounds: garbage collection with window  *)
(* size gcRoundWindow.  The collection run by a request for round cur      *)
(* deletes only lists of rounds more than gcRoundWindow below cur; the sum *)
(* of its test wraps around for the last rounds of uint64.                 *)
GcKeepsWindow ==
  [][\A r \in Round :
       (/\ handler.pc = "gc"
        /\ UNCHANGED <<fin, crashed>>
        /\ candidates'[r] # candidates[r])
         => r + GcWindow < handler.round]_vars

=============================================================================
