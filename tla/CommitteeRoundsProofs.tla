----------------------- MODULE CommitteeRoundsProofs ------------------------
(***************************************************************************)
(* Proofs about CommitteeRounds, for every set of nodes, rounds and        *)
(* goroutines, every threshold and window, and any number of calls.        *)
(***************************************************************************)
EXTENDS CommitteeRounds, TLAPS

(* The records of an idle handler and an idle goroutine, and what the      *)
(* actions make of them, have the right types.                             *)
LEMMA IdleType ==
  /\ NoHandler \in HandlerState
  /\ NoHandler.pc = "unlocked"
  /\ NoGoroutine \in FinState
  /\ NoGoroutine.pc = "none"
BY DEF NoHandler, NoGoroutine, HandlerState, FinState, HandlerPC, FinPC

(* A goroutine that knows only its program point and round. *)
LEMMA StartedType ==
  ASSUME NEW pc \in FinPC, NEW r \in Round
  PROVE  LET f == [NoGoroutine EXCEPT !.pc = pc, !.round = r]
         IN  f \in FinState /\ f.pc = pc /\ f.round = r
<1>1. ASSUME NEW f \in FinState
      PROVE  LET e == [f EXCEPT !.pc = pc, !.round = r]
             IN  e \in FinState /\ e.pc = pc /\ e.round = r
  BY DEF FinState
<1> QED
  BY <1>1, IdleType

(* A crash leaves a well-typed state. *)
LEMMA CrashType ==
  ASSUME TypeOK, NEW why \in Reasons, Crash(why)
  PROVE  TypeOK'
<1>1. handler' \in HandlerState /\ handler'.pc = "unlocked"
  BY IdleType DEF Crash
<1>2. fin' \in [Goroutine -> FinState] /\ \A g \in Goroutine : fin'[g].pc = "none"
  BY IdleType DEF Crash
<1>3. candidates' \in [Round -> Seq(Candidate)]
  BY DEF Crash
<1>4. commitData' \in [Round -> Seq(BOOLEAN)]
  BY DEF Crash
<1> QED
  BY <1>1, <1>2, <1>3, <1>4 DEF TypeOK, Crash, historyVars

(* So does starting a goroutine, as far as fin is concerned. *)
LEMMA SpawnType ==
  ASSUME TypeOK, NEW r \in Round, Spawn(r)
  PROVE  /\ fin' \in [Goroutine -> FinState]
         /\ \A g \in Goroutine : fin'[g].pc # "none" => fin'[g].round \in Round
<1>1. PICK h \in Goroutine :
        fin' = [fin EXCEPT ![h] = [NoGoroutine EXCEPT !.pc = "mark", !.round = r]]
  BY DEF Spawn
<1>2. "mark" \in FinPC
  BY DEF FinPC
<1> DEFINE f == [NoGoroutine EXCEPT !.pc = "mark", !.round = r]
<1>3. f \in FinState /\ f.pc = "mark" /\ f.round = r
  BY <1>2, StartedType
<1> HIDE DEF f
<1>4. fin' = [fin EXCEPT ![h] = f]
  BY <1>1 DEF f
<1> QED
  BY <1>3, <1>4 DEF TypeOK

(* The handler steps preserve the types. *)
LEMMA HandlerType ==
  ASSUME TypeOK, HandlerStep
  PROVE  TypeOK'
<1>1. CASE CheckProcessed
  BY <1>1, IdleType DEF TypeOK, CheckProcessed, HandlerState, HandlerPC, historyVars
<1>2. CASE LoadCandidates
  BY <1>2 DEF TypeOK, LoadCandidates, HandlerState, HandlerPC, serverVars,
              historyVars
<1>3. CASE AppendCandidate
  <2>1. [round |-> handler.round, nodeId |-> handler.node] \in Candidate
    BY <1>3 DEF TypeOK, AppendCandidate, Candidate, HandlerPC
  <2>2. candidates' \in [Round -> Seq(Candidate)]
    BY <1>3, <2>1 DEF TypeOK, AppendCandidate, HandlerState
  <2>3. <<>> \in Seq(Candidate)
    OBVIOUS
  <2>4. handler' \in HandlerState /\ handler'.pc = "timer" /\ handler'.round \in Round
    BY <1>3, <2>3 DEF TypeOK, AppendCandidate, HandlerState, HandlerPC
  <2> QED
    BY <1>3, <2>2, <2>4 DEF TypeOK, AppendCandidate, historyVars
<1>4. CASE ArmTimer
  BY <1>4 DEF TypeOK, ArmTimer, HandlerState, HandlerPC, historyVars
<1>5. CASE CheckSize
  BY <1>5 DEF TypeOK, CheckSize, HandlerState, HandlerPC, serverVars, historyVars
<1>6. CASE StopTimer
  <2>1. CASE Crash("nilTimer")
    BY <2>1, CrashType DEF Reasons
  <2>2. CASE ~Crash("nilTimer")
    <3>1. handler.round \in Round /\ Spawn(handler.round)
      BY <1>6, <2>2 DEF TypeOK, StopTimer, HandlerPC
    <3>2. handler' \in HandlerState /\ handler'.pc = "gc" /\ handler'.round \in Round
      BY <1>6, <2>2, <3>1 DEF TypeOK, StopTimer, HandlerState, HandlerPC
    <3> QED
      BY <1>6, <2>2, <3>1, <3>2, SpawnType DEF TypeOK, StopTimer, historyVars
  <2> QED
    BY <2>1, <2>2
<1>7. CASE GcOldRounds
  <2>1. candidates' \in [Round -> Seq(Candidate)]
    BY <1>7 DEF TypeOK, GcOldRounds
  <2> QED
    BY <1>7, <2>1 DEF TypeOK, GcOldRounds, historyVars
<1>8. CASE ReturnOk
  BY <1>8, IdleType DEF TypeOK, ReturnOk, serverVars, historyVars
<1>9. CASE AggregateCommits
  <2>1. CASE Crash("nilCosigners") \/ Crash("indexRange")
    BY <2>1, CrashType DEF Reasons
  <2>2. CASE ~(Crash("nilCosigners") \/ Crash("indexRange"))
    <3>1. commitData' \in [Round -> Seq(BOOLEAN)]
      <4>1. commitData' = [commitData EXCEPT ![handler.round] = <<>>]
        BY <1>9, <2>2, Zenon DEF AggregateCommits
      <4>2. commitData \in [Round -> Seq(BOOLEAN)]
        BY DEF TypeOK
      <4>3. <<>> \in Seq(BOOLEAN)
        OBVIOUS
      <4> QED
        BY <4>1, <4>2, <4>3, Zenon
    <3>2. /\ handler' = NoHandler
          /\ UNCHANGED <<fin, processed, timers, orphans, candidates, cosigners,
                         nodeNumber, crashed, requests, commits, announced>>
      BY <1>9, <2>2, Zenon DEF AggregateCommits, historyVars
    <3> QED
      BY <3>1, <3>2, IdleType DEF TypeOK
  <2> QED
    BY <2>1, <2>2
<1> QED
  BY <1>1, <1>2, <1>3, <1>4, <1>5, <1>6, <1>7, <1>8, <1>9 DEF HandlerStep

(* Replacing the record of one goroutine by a well-typed one. *)
LEMMA UpdateType ==
  ASSUME TypeOK, NEW g \in Goroutine, NEW f \in FinState,
         f.pc # "none" => f.round \in Round,
         fin' = [fin EXCEPT ![g] = f]
  PROVE  /\ fin' \in [Goroutine -> FinState]
         /\ \A h \in Goroutine : fin'[h].pc # "none" => fin'[h].round \in Round
BY DEF TypeOK

(* A goroutine that moves on with new locals keeps its type. *)
LEMMA MoveType ==
  ASSUME NEW f \in FinState, NEW pc \in FinPC, NEW cs \in Seq(Candidate),
         NEW n \in Nat \cup {Nil}
  PROVE  /\ [f EXCEPT !.pc = pc, !.cands = cs] \in FinState
         /\ [f EXCEPT !.pc = pc, !.pubKey = cs] \in FinState
         /\ [f EXCEPT !.pc = pc, !.commit = n] \in FinState
BY DEF FinState

(* The aggregate of the commits is nil or a sum. *)
LEMMA SumType ==
  ASSUME NEW keys \in Seq(Candidate), NEW ok
  PROVE  SumOfCommits(keys, ok) \in Nat \cup {Nil}
<1>1. Len(keys) \in Nat
  OBVIOUS
<1> QED
  BY <1>1 DEF SumOfCommits

LEMMA PhaseType ==
  ASSUME NEW f \in FinState, NEW pc \in FinPC
  PROVE  [f EXCEPT !.pc = pc] \in FinState /\ [f EXCEPT !.pc = pc].round = f.round
BY DEF FinState

(* A goroutine that moves on to the next line of tryFinalize. *)
LEMMA GotoType ==
  ASSUME TypeOK, NEW g \in Goroutine, NEW pc \in FinPC, fin[g].pc # "none", Goto(g, pc)
  PROVE  /\ fin' \in [Goroutine -> FinState]
         /\ \A h \in Goroutine : fin'[h].pc # "none" => fin'[h].round \in Round
<1>1. fin[g] \in FinState /\ fin[g].round \in Round
  BY DEF TypeOK
<1>2. PICK f : f = [fin[g] EXCEPT !.pc = pc]
  OBVIOUS
<1>3. f \in FinState /\ f.round \in Round
  BY <1>1, <1>2, PhaseType
<1>4. fin' = [fin EXCEPT ![g] = f]
  BY <1>2 DEF Goto
<1> QED
  BY <1>3, <1>4, UpdateType

(* So do the steps of tryFinalize. *)
LEMMA TryFinalizeType ==
  ASSUME TypeOK, NEW g \in Goroutine, TryFinalize(g)
  PROVE  TypeOK'
<1> USE DEF At
<1>0. \A pc \in {"drop", "take", "cosigners", "pubkey", "unmark"} :
        pc \in FinPC
  BY DEF FinPC
<1>1. CASE MarkProcessed(g)
  <2>1. /\ fin' \in [Goroutine -> FinState]
        /\ \A h \in Goroutine : fin'[h].pc # "none" => fin'[h].round \in Round
    BY <1>0, <1>1, GotoType DEF MarkProcessed
  <2>2. processed' \subseteq Round
    BY <1>1 DEF TypeOK, MarkProcessed
  <2> QED
    BY <1>1, <2>1, <2>2 DEF TypeOK, MarkProcessed, historyVars
<1>2. CASE DropTimer(g)
  <2>1. /\ fin' \in [Goroutine -> FinState]
        /\ \A h \in Goroutine : fin'[h].pc # "none" => fin'[h].round \in Round
    BY <1>0, <1>2, GotoType DEF DropTimer
  <2>2. fin[g].round \in Round
    BY <1>2 DEF TypeOK, DropTimer
  <2>3. orphans' \in [Round -> Nat] /\ timers' \in [Round -> {"none", "armed", "spent"}]
    BY <1>2, <2>2 DEF TypeOK, DropTimer
  <2> QED
    BY <1>2, <2>1, <2>3 DEF TypeOK, DropTimer, historyVars
<1>3. CASE TakeCandidates(g)
  <2>1. fin[g].round \in Round /\ candidates[fin[g].round] \in Seq(Candidate)
    BY <1>3 DEF TypeOK, TakeCandidates
  <2>2. fin[g] \in FinState /\ fin[g].round \in Round /\ "count" \in FinPC
    BY <1>3 DEF TypeOK, TakeCandidates, FinPC
  <2>3. [fin[g] EXCEPT !.pc = "count", !.cands = candidates[fin[g].round]] \in FinState
    BY <2>1, <2>2, MoveType
  <2>4. [fin[g] EXCEPT !.pc = "count", !.cands = candidates[fin[g].round]].round \in Round
    BY <2>2 DEF FinState
  <2>5. fin' = [fin EXCEPT ![g] = [fin[g] EXCEPT !.pc = "count", !.cands = candidates[fin[g].round]]]
    BY <1>3 DEF TakeCandidates
  <2>6. /\ fin' \in [Goroutine -> FinState]
        /\ \A h \in Goroutine : fin'[h].pc # "none" => fin'[h].round \in Round
    BY <2>3, <2>4, <2>5, UpdateType
  <2> QED
    BY <1>3, <2>6 DEF TypeOK, TakeCandidates, serverVars, historyVars
<1>4. CASE StoreNodeNumber(g)
  <2>1. fin[g].cands \in Seq(Candidate)
    BY DEF TypeOK, FinState
  <2>2. nodeNumber' \in Nat
    BY <1>4, <2>1 DEF StoreNodeNumber
  <2>3. /\ fin' \in [Goroutine -> FinState]
        /\ \A h \in Goroutine : fin'[h].pc # "none" => fin'[h].round \in Round
    BY <1>0, <1>4, GotoType DEF StoreNodeNumber
  <2> QED
    BY <1>4, <2>2, <2>3 DEF TypeOK, StoreNodeNumber, historyVars
<1>5. CASE StoreCosigners(g)
  <2>1. fin[g].cands \in Seq(Candidate)
    BY DEF TypeOK, FinState
  <2>2. cosigners' \in Seq(Candidate) \cup {Nil}
    BY <1>5, <2>1 DEF StoreCosigners, CosignersFor
  <2>3. /\ fin' \in [Goroutine -> FinState]
        /\ \A h \in Goroutine : fin'[h].pc # "none" => fin'[h].round \in Round
    BY <1>0, <1>5, GotoType DEF StoreCosigners
  <2> QED
    BY <1>5, <2>2, <2>3 DEF TypeOK, StoreCosigners, historyVars
<1>6. CASE AggregatePublicKey(g)
  <2>1. CASE Crash("nilCosigners")
    BY <2>1, CrashType DEF Reasons
  <2>2. CASE ~Crash("nilCosigners")
    <3>1. cosigners \in Seq(Candidate)
      BY <1>6, <2>2 DEF TypeOK, AggregatePublicKey
    <3>2. fin[g] \in FinState /\ fin[g].round \in Round /\ "commit" \in FinPC
      BY <1>6, <2>2 DEF TypeOK, AggregatePublicKey, FinPC
    <3>3. [fin[g] EXCEPT !.pc = "commit", !.pubKey = cosigners] \in FinState
      BY <3>1, <3>2, MoveType
    <3>4. [fin[g] EXCEPT !.pc = "commit", !.pubKey = cosigners].round \in Round
      BY <3>2 DEF FinState
    <3>5. fin' = [fin EXCEPT ![g] = [fin[g] EXCEPT !.pc = "commit", !.pubKey = cosigners]]
      BY <1>6, <2>2 DEF AggregatePublicKey
    <3>6. /\ fin' \in [Goroutine -> FinState]
          /\ \A h \in Goroutine : fin'[h].pc # "none" => fin'[h].round \in Round
      BY <3>3, <3>4, <3>5, UpdateType
    <3> QED
      BY <1>6, <2>2, <3>6 DEF TypeOK, AggregatePublicKey, serverVars, historyVars
  <2> QED
    BY <2>1, <2>2
<1>7. CASE CallAggregateCommit(g)
  <2>1. CASE Crash("nilCosigners") \/ Crash("indexRange")
    BY <2>1, CrashType DEF Reasons
  <2>2. CASE ~(Crash("nilCosigners") \/ Crash("indexRange"))
    <3>1. cosigners \in Seq(Candidate)
      BY <1>7, <2>2 DEF TypeOK, CallAggregateCommit
    <3>2. fin[g] \in FinState /\ fin[g].round \in Round /\ "broadcast" \in FinPC
      BY <1>7, <2>2 DEF TypeOK, CallAggregateCommit, FinPC
    <3>3. PICK n \in Nat \cup {Nil} :
            fin' = [fin EXCEPT ![g] = [fin[g] EXCEPT !.pc = "broadcast", !.commit = n]]
      BY <1>7, <2>2, <3>1, SumType DEF CallAggregateCommit
    <3>4. [fin[g] EXCEPT !.pc = "broadcast", !.commit = n] \in FinState
      BY <3>1, <3>2, MoveType
    <3>5. [fin[g] EXCEPT !.pc = "broadcast", !.commit = n].round \in Round
      BY <3>2 DEF FinState
    <3>6. /\ fin' \in [Goroutine -> FinState]
          /\ \A h \in Goroutine : fin'[h].pc # "none" => fin'[h].round \in Round
      BY <3>3, <3>4, <3>5, UpdateType
    <3> QED
      BY <1>7, <2>2, <3>6 DEF TypeOK, CallAggregateCommit, serverVars, historyVars
  <2> QED
    BY <2>1, <2>2
<1>8. CASE Broadcast(g)
  <2> DEFINE f == [NoGoroutine EXCEPT !.pc = "free", !.round = fin[g].round]
  <2>1. fin[g].round \in Round /\ "free" \in FinPC
    BY <1>8 DEF TypeOK, Broadcast, FinPC
  <2>2. f \in FinState /\ f.pc = "free" /\ f.round \in Round
    BY <2>1, StartedType
  <2>3. fin' = [fin EXCEPT ![g] = f]
    BY <1>8 DEF Broadcast
  <2> HIDE DEF f
  <2>4. /\ fin' \in [Goroutine -> FinState]
        /\ \A h \in Goroutine : fin'[h].pc # "none" => fin'[h].round \in Round
    BY <2>2, <2>3 DEF TypeOK
  <2> QED
    BY <1>8, <2>1, <2>4 DEF TypeOK, Broadcast, serverVars
<1>9. CASE FreeCandidates(g)
  <2>1. candidates' \in [Round -> Seq(Candidate)]
    BY <1>9 DEF TypeOK, FreeCandidates
  <2>2. /\ fin' \in [Goroutine -> FinState]
        /\ \A h \in Goroutine : fin'[h].pc # "none" => fin'[h].round \in Round
    BY <1>0, <1>9, GotoType DEF FreeCandidates
  <2> QED
    BY <1>9, <2>1, <2>2 DEF TypeOK, FreeCandidates, historyVars
<1>10. CASE UnmarkProcessed(g)
  BY <1>10, IdleType DEF TypeOK, UnmarkProcessed, historyVars
<1> QED
  BY <1>1, <1>2, <1>3, <1>4, <1>5, <1>6, <1>7, <1>8, <1>9, <1>10 DEF TryFinalize

(* Every step of the server preserves the types. *)
LEMMA TypeStep ==
  ASSUME TypeOK, [Next]_vars
  PROVE  TypeOK'
<1>1. ASSUME NEW r \in Round, NEW n \in Node, RequestCommittee(r, n)
      PROVE  TypeOK'
  <2>1. ASSUME NEW h \in HandlerState
        PROVE  LET e == [h EXCEPT !.pc = "check", !.round = r, !.node = n]
               IN  e \in HandlerState /\ e.round \in Round /\ e.node \in Node
    BY DEF HandlerState, HandlerPC
  <2>2. handler' \in HandlerState /\ handler'.round \in Round /\ handler'.node \in Node
    BY <1>1, <2>1, IdleType DEF RequestCommittee
  <2> QED
    BY <1>1, <2>2 DEF TypeOK, RequestCommittee
<1>2. ASSUME NEW r \in Round, NEW ok \in BOOLEAN,
             RequestAggregatedCommit(r, ok)
      PROVE  TypeOK'
  <2>1. ASSUME NEW h \in HandlerState
        PROVE  LET e == [h EXCEPT !.pc = "aggregate", !.round = r]
               IN  e \in HandlerState /\ e.pc = "aggregate" /\ e.round \in Round
    BY DEF HandlerState, HandlerPC
  <2>2. /\ handler' \in HandlerState
        /\ handler'.pc # "unlocked" => handler'.round \in Round
        /\ handler'.pc \notin {"check", "load", "append"}
    BY <1>2, <2>1, IdleType DEF RequestAggregatedCommit
  <2>3. commitData' \in [Round -> Seq(BOOLEAN)]
    BY <1>2 DEF TypeOK, RequestAggregatedCommit
  <2> QED
    BY <1>2, <2>2, <2>3 DEF TypeOK, RequestAggregatedCommit
<1>3. ASSUME NEW r \in Round, TimerFires(r) \/ OrphanFires(r)
      PROVE  TypeOK'
  <2>1. Spawn(r)
    BY <1>3 DEF TimerFires, OrphanFires
  <2>2. orphans' \in [Round -> Nat] /\ timers' \in [Round -> {"none", "armed", "spent"}]
    <3>1. CASE TimerFires(r)
      BY <3>1 DEF TypeOK, TimerFires
    <3>2. CASE OrphanFires(r)
      <4>1. orphans[r] - 1 \in Nat
        BY <3>2 DEF TypeOK, OrphanFires
      <4> QED
        BY <3>2, <4>1 DEF TypeOK, OrphanFires
    <3> QED
      BY <1>3, <3>1, <3>2
  <2> QED
    BY <1>3, <2>1, <2>2, SpawnType, SMTT(30) DEF TypeOK, TimerFires, OrphanFires, historyVars
<1>4. CASE StreamEnds
  BY <1>4 DEF TypeOK, StreamEnds, historyVars
<1>5. CASE ConcurrentMapFault
  BY <1>5, CrashType DEF ConcurrentMapFault, Reasons
<1>6. CASE UNCHANGED vars
  BY <1>6 DEF TypeOK, vars, serverVars, historyVars
<1> QED
  BY <1>1, <1>2, <1>3, <1>4, <1>5, <1>6, HandlerType, TryFinalizeType DEF Next

(* Every reachable state of the server has the types of TypeOK. *)
THEOREM TypeCorrect == Spec => []TypeOK
<1>1. Init => TypeOK
  <2> SUFFICES ASSUME Init PROVE TypeOK
    OBVIOUS
  <2>1. /\ candidates \in [Round -> Seq(Candidate)]
        /\ commitData \in [Round -> Seq(BOOLEAN)]
    BY DEF Init
  <2> QED
    BY <2>1, IdleType DEF Init, TypeOK, Reasons
<1>2. TypeOK /\ [Next]_vars => TypeOK'
  BY TypeStep
<1> QED
  BY <1>1, <1>2, PTL DEF Spec

-----------------------------------------------------------------------------
(* What the steps do to the goroutines, for the invariants below. *)

(* Starting a goroutine leaves the others alone. *)
LEMMA SpawnFacts ==
  ASSUME TypeOK, NEW r \in Round, Spawn(r)
  PROVE  \E h \in Goroutine :
           /\ fin[h].pc = "none"
           /\ fin'[h].pc = "mark" /\ fin'[h].round = r /\ fin'[h].cands = <<>>
           /\ \A g \in Goroutine \ {h} : fin'[g] = fin[g]
<1>1. PICK h \in Goroutine :
        /\ fin[h].pc = "none"
        /\ fin' = [fin EXCEPT ![h] = [NoGoroutine EXCEPT !.pc = "mark", !.round = r]]
  BY DEF Spawn
<1>2. "mark" \in FinPC
  BY DEF FinPC
<1> DEFINE f == [NoGoroutine EXCEPT !.pc = "mark", !.round = r]
<1>3. f \in FinState /\ f.pc = "mark" /\ f.round = r /\ f.cands = <<>>
  BY <1>2, StartedType DEF NoGoroutine
<1> HIDE DEF f
<1>4. fin' = [fin EXCEPT ![h] = f]
  BY <1>1 DEF f
<1>5. fin'[h] = f /\ \A g \in Goroutine \ {h} : fin'[g] = fin[g]
  BY <1>4 DEF TypeOK
<1> QED
  BY <1>1, <1>3, <1>5

(* A step of tryFinalize that does not end the process: the goroutine      *)
(* moves to the next program point, keeps its round until it ends, and     *)
(* touches only what that program point names.                             *)
Moved(g) ==
  /\ \A h \in Goroutine \ {g} : fin'[h] = fin[h]
  /\ fin[g].pc # "none" /\ fin[g].round \in Round
  /\ fin[g].pc # "unmark" => fin'[g].round = fin[g].round
  /\ fin[g].pc = "mark" => fin'[g].pc = "drop"
  /\ fin[g].pc = "drop" => fin'[g].pc = "take"
  /\ fin[g].pc \notin {"mark", "drop", "free", "unmark"} =>
       fin'[g].pc \notin {"none", "mark", "drop", "unmark"}
  /\ fin[g].pc = "free" => fin'[g].pc = "unmark"
  /\ fin[g].pc = "unmark" => fin'[g] = NoGoroutine
  /\ handler' = handler
  /\ processed' = CASE fin[g].pc = "mark"   -> processed \cup {fin[g].round}
                    [] fin[g].pc = "unmark" -> processed \ {fin[g].round}
                    [] OTHER                -> processed
  /\ timers' = IF fin[g].pc = "drop"
               THEN [timers EXCEPT ![fin[g].round] = "none"] ELSE timers
  /\ orphans' = IF fin[g].pc = "drop"
                THEN [orphans EXCEPT ![fin[g].round] =
                        IF timers[fin[g].round] = "armed" THEN @ + 1 ELSE @]
                ELSE orphans
  /\ candidates' = IF fin[g].pc = "free"
                   THEN [candidates EXCEPT ![fin[g].round] = <<>>]
                   ELSE candidates
  /\ fin'[g].cands = IF fin[g].pc = "take" THEN candidates[fin[g].round]
                     ELSE IF fin[g].pc \in {"broadcast", "unmark"} THEN <<>>
                     ELSE fin[g].cands

(* Every step of a tryFinalize goroutine is one of the moves above. *)
LEMMA TryFinalizeMoves ==
  ASSUME TypeOK, NEW g \in Goroutine, TryFinalize(g)
  PROVE  Moved(g) \/ \E why \in Reasons : Crash(why)
<1> USE DEF At, Goto
<1>1. fin \in [Goroutine -> FinState] /\ fin[g] \in FinState
      /\ (fin[g].pc # "none" => fin[g].round \in Round)
  BY DEF TypeOK
<1>2. CASE MarkProcessed(g)
  BY <1>1, <1>2 DEF MarkProcessed, Moved, FinState
<1>3. CASE DropTimer(g)
  BY <1>1, <1>3 DEF DropTimer, Moved, FinState
<1>4. CASE TakeCandidates(g)
  BY <1>1, <1>4 DEF TakeCandidates, Moved, FinState, serverVars
<1>5. CASE StoreNodeNumber(g)
  BY <1>1, <1>5 DEF StoreNodeNumber, Moved, FinState
<1>6. CASE StoreCosigners(g)
  BY <1>1, <1>6 DEF StoreCosigners, Moved, FinState
<1>7. CASE AggregatePublicKey(g)
  <2>1. CASE Crash("nilCosigners")
    BY <2>1 DEF Reasons
  <2>2. CASE ~Crash("nilCosigners")
    BY <1>1, <1>7, <2>2 DEF AggregatePublicKey, Moved, FinState, serverVars
  <2> QED
    BY <2>1, <2>2
<1>8. CASE CallAggregateCommit(g)
  <2>1. CASE Crash("nilCosigners") \/ Crash("indexRange")
    BY <2>1 DEF Reasons
  <2>2. CASE ~(Crash("nilCosigners") \/ Crash("indexRange"))
    BY <1>1, <1>8, <2>2 DEF CallAggregateCommit, Moved, FinState, serverVars
  <2> QED
    BY <2>1, <2>2
<1>9. CASE Broadcast(g)
  BY <1>1, <1>9 DEF Broadcast, Moved, NoGoroutine, serverVars
<1>10. CASE FreeCandidates(g)
  BY <1>1, <1>10 DEF FreeCandidates, Moved, FinState
<1>11. CASE UnmarkProcessed(g)
  BY <1>1, <1>11 DEF UnmarkProcessed, Moved, NoGoroutine
<1> QED
  BY <1>2, <1>3, <1>4, <1>5, <1>6, <1>7, <1>8, <1>9, <1>10, <1>11 DEF TryFinalize

-----------------------------------------------------------------------------
(* A stopped or fired timer is still in m.timers only while a goroutine of *)
(* its round has yet to delete the entry: the strengthening that makes     *)
(* NoStrandedRound inductive, because a request that finds an entry arms   *)
(* no timer of its own.                                                    *)
SpentHasFinalizer ==
  \A r \in Round :
    timers[r] = "spent" =>
      \E g \in Goroutine : fin[g].round = r /\ fin[g].pc \in {"mark", "drop"}

(* A crash empties what the invariants speak about. *)
LEMMA CrashEmpties ==
  ASSUME NEW why \in Reasons, Crash(why)
  PROVE  /\ SpentHasFinalizer' /\ NoStrandedRound'
         /\ processed' = {} /\ handler' = NoHandler
         /\ \A r \in Round : candidates'[r] = <<>> /\ timers'[r] = "none"
                             /\ orphans'[r] = 0
         /\ \A g \in Goroutine : fin'[g] = NoGoroutine
BY DEF Crash, SpentHasFinalizer, NoStrandedRound

(* Starting a goroutine keeps every goroutine an invariant relies on. *)
LEMMA SpawnKeeps ==
  ASSUME TypeOK, NEW r \in Round, Spawn(r)
  PROVE  /\ \A g \in Goroutine : fin[g].pc # "none" => fin'[g] = fin[g]
         /\ \E h \in Goroutine : fin'[h].pc = "mark" /\ fin'[h].round = r
<1>1. PICK h \in Goroutine :
        /\ fin[h].pc = "none"
        /\ fin'[h].pc = "mark" /\ fin'[h].round = r /\ fin'[h].cands = <<>>
        /\ \A g \in Goroutine \ {h} : fin'[g] = fin[g]
  BY SpawnFacts
<1> QED
  BY <1>1

(* SpentHasFinalizer is inductive: a timer is spent by the step that       *)
(* starts a goroutine.                                                     *)
LEMMA SpentStep ==
  ASSUME TypeOK, SpentHasFinalizer, [Next]_vars
  PROVE  SpentHasFinalizer'
<1>1. ASSUME NEW why \in Reasons, Crash(why)
      PROVE  SpentHasFinalizer'
  BY <1>1, CrashEmpties
<1>2. ASSUME UNCHANGED fin, UNCHANGED timers
      PROVE  SpentHasFinalizer'
  BY <1>2 DEF SpentHasFinalizer
<1>s. ASSUME NEW r \in Round, Spawn(r), timers' = [timers EXCEPT ![r] = "spent"]
       PROVE  SpentHasFinalizer'
  <2> SUFFICES ASSUME NEW q \in Round, timers'[q] = "spent"
               PROVE  \E h \in Goroutine :
                        fin'[h].round = q /\ fin'[h].pc \in {"mark", "drop"}
    BY DEF SpentHasFinalizer
  <2>1. CASE q = r
    BY <1>s, <2>1, SpawnKeeps
  <2>2. CASE q # r
    <3>1. timers[q] = "spent"
      BY <1>s, <2>2 DEF TypeOK
    <3>2. PICK h \in Goroutine : fin[h].round = q /\ fin[h].pc \in {"mark", "drop"}
      BY <3>1 DEF SpentHasFinalizer
    <3> QED
      BY <1>s, <3>2, SpawnKeeps
  <2> QED
    BY <2>1, <2>2
<1>3. CASE ArmTimer
  BY <1>3 DEF ArmTimer, SpentHasFinalizer, TypeOK
<1>4. CASE StopTimer /\ ~Crash("nilTimer")
  <2>1. handler.round \in Round /\ Spawn(handler.round)
        /\ timers' = [timers EXCEPT ![handler.round] = "spent"]
    BY <1>4 DEF StopTimer, TypeOK, HandlerPC
  <2> QED
    BY <2>1, <1>s
<1>5. ASSUME NEW r \in Round, TimerFires(r)
      PROVE  SpentHasFinalizer'
  BY <1>5, <1>s DEF TimerFires
<1>6. ASSUME NEW r \in Round, OrphanFires(r)
      PROVE  SpentHasFinalizer'
  BY <1>6, SpawnKeeps DEF OrphanFires, SpentHasFinalizer
<1>7. ASSUME NEW g \in Goroutine, Moved(g)
      PROVE  SpentHasFinalizer'
  <2> SUFFICES ASSUME NEW r \in Round, timers'[r] = "spent"
               PROVE  \E h \in Goroutine :
                        fin'[h].round = r /\ fin'[h].pc \in {"mark", "drop"}
    BY DEF SpentHasFinalizer
  <2>1. timers[r] = "spent" /\ (fin[g].pc = "drop" => fin[g].round # r)
    BY <1>7 DEF Moved, TypeOK
  <2>2. PICK h \in Goroutine : fin[h].round = r /\ fin[h].pc \in {"mark", "drop"}
    BY <2>1 DEF SpentHasFinalizer
  <2> QED
    BY <1>7, <2>1, <2>2 DEF Moved
<1>8. CASE HandlerStep
  <2>1. CASE StopTimer
    BY <2>1, <1>1, <1>4 DEF Reasons
  <2>2. CASE AggregateCommits
    BY <2>2, <1>1, <1>2 DEF AggregateCommits, Reasons
  <2> QED
    BY <1>8, <2>1, <2>2, <1>2, <1>3
    DEF HandlerStep, CheckProcessed, LoadCandidates, AppendCandidate, CheckSize,
        GcOldRounds, ReturnOk, serverVars
<1>9. CASE ConcurrentMapFault
  BY <1>9, <1>1 DEF ConcurrentMapFault, Reasons
<1>10. ASSUME NEW r \in Round, NEW n \in Node, RequestCommittee(r, n)
       PROVE  SpentHasFinalizer'
  BY <1>10, <1>2 DEF RequestCommittee
<1>11. ASSUME NEW r \in Round, NEW ok \in BOOLEAN,
             RequestAggregatedCommit(r, ok)
       PROVE  SpentHasFinalizer'
  BY <1>11, <1>2 DEF RequestAggregatedCommit
<1>12. CASE StreamEnds \/ UNCHANGED vars
  BY <1>12, <1>2 DEF StreamEnds, vars, serverVars
<1>13. ASSUME NEW g \in Goroutine, TryFinalize(g)
       PROVE  SpentHasFinalizer'
  BY <1>13, <1>1, <1>7, TryFinalizeMoves
<1> QED
  BY <1>5, <1>6, <1>8, <1>9, <1>10, <1>11, <1>12, <1>13 DEF Next

(* Each action keeps NoStrandedRound. *)
LEMMA StrandedStep ==
  ASSUME TypeOK, SpentHasFinalizer, NoStrandedRound, [Next]_vars
  PROVE  NoStrandedRound'
<1> DEFINE Kept(r) == \/ timers[r] = "armed"
                      \/ orphans[r] > 0
                      \/ WillFree(r)
                      \/ handler.pc = "timer" /\ handler.round = r
<1>a. \A r \in Round : candidates[r] # <<>> => Kept(r)
  BY DEF NoStrandedRound
<1>b. SUFFICES ASSUME NEW r \in Round, candidates'[r] # <<>>
               PROVE  Kept(r)'
  BY DEF NoStrandedRound
<1>1. ASSUME NEW why \in Reasons, Crash(why)
      PROVE  Kept(r)'
  BY <1>1, <1>b, CrashEmpties
<1>2. ASSUME UNCHANGED <<timers, orphans, fin>>, handler.pc # "timer",
             candidates[r] # <<>>
      PROVE  Kept(r)'
  BY <1>2, <1>a DEF WillFree
<1>3. ASSUME NEW q \in Round, Spawn(q),
             \/ timers' = [timers EXCEPT ![q] = "spent"] /\ orphans' = orphans
             \/ timers' = timers /\ orphans' = [orphans EXCEPT ![q] = @ - 1],
             candidates' = candidates,
             handler' = handler \/ handler.pc # "timer"
      PROVE  Kept(r)'
  <2>1. CASE q = r
    BY <1>3, <2>1, SpawnKeeps DEF WillFree
  <2>2. CASE q # r
    <3>1. timers'[r] = timers[r] /\ orphans'[r] = orphans[r]
      BY <1>3, <2>2 DEF TypeOK
    <3>2. Kept(r)
      BY <1>3, <1>a, <1>b
    <3> QED
      BY <1>3, <3>1, <3>2, SpawnKeeps DEF WillFree
  <2> QED
    BY <2>1, <2>2
<1>4. ASSUME NEW g \in Goroutine, Moved(g)
      PROVE  Kept(r)'
  <2>1. candidates[r] # <<>> /\ (fin[g].pc = "free" => fin[g].round # r)
    BY <1>4, <1>b DEF Moved, TypeOK
  <2>2. Kept(r)
    BY <2>1, <1>a
  <2>3. CASE WillFree(r)
    <3>1. PICK h \in Goroutine : fin[h].round = r /\ fin[h].pc \notin {"none", "unmark"}
      BY <2>3 DEF WillFree
    <3>2. fin'[h].round = r /\ fin'[h].pc \notin {"none", "unmark"}
      BY <1>4, <2>1, <3>1 DEF Moved
    <3> QED
      BY <3>2 DEF WillFree
  <2>4. CASE fin[g].pc = "drop" /\ fin[g].round = r
    BY <1>4, <2>4 DEF Moved, WillFree
  <2>5. CASE ~(fin[g].pc = "drop" /\ fin[g].round = r)
    <3>1. timers'[r] = timers[r] /\ orphans'[r] = orphans[r] /\ handler' = handler
      BY <1>4, <2>5 DEF Moved, TypeOK
    <3> QED
      BY <2>2, <2>3, <3>1
  <2> QED
    BY <2>4, <2>5
<1>5. CASE HandlerStep
  <2>1. CASE CheckProcessed \/ LoadCandidates \/ CheckSize \/ ReturnOk
    BY <2>1, <1>2, <1>b
    DEF CheckProcessed, LoadCandidates, CheckSize, ReturnOk, serverVars
  <2>2. CASE AppendCandidate
    <3>1. CASE handler.round = r
      BY <2>2, <3>1 DEF AppendCandidate, TypeOK, HandlerState
    <3>2. CASE handler.round # r
      <4>1. candidates[r] # <<>> /\ handler.pc # "timer"
        BY <2>2, <3>2, <1>b DEF AppendCandidate, TypeOK
      <4> QED
        BY <2>2, <4>1, <1>2 DEF AppendCandidate
    <3> QED
      BY <3>1, <3>2
  <2>3. CASE ArmTimer
    <3>1. candidates[r] # <<>> /\ handler.round \in Round
      BY <2>3, <1>b DEF ArmTimer, TypeOK, HandlerPC
    <3>2. CASE handler.round = r
      <4>1. timers[r] = "spent" => WillFree(r)
        BY DEF SpentHasFinalizer, WillFree
      <4>2. timers'[r] = "armed" \/ timers[r] = "spent"
        BY <2>3, <3>2 DEF ArmTimer, TypeOK
      <4> QED
        BY <2>3, <4>1, <4>2 DEF ArmTimer, WillFree
    <3>3. CASE handler.round # r
      <4>1. timers'[r] = timers[r]
        BY <2>3, <3>1, <3>3 DEF ArmTimer, TypeOK
      <4> QED
        BY <2>3, <3>1, <3>3, <4>1, <1>a DEF ArmTimer, WillFree
    <3> QED
      BY <3>2, <3>3
  <2>4. CASE StopTimer
    <3>1. CASE Crash("nilTimer")
      BY <3>1, <1>1 DEF Reasons
    <3>2. CASE ~Crash("nilTimer")
      <4>1. handler.round \in Round
        BY <2>4 DEF StopTimer, TypeOK, HandlerPC
      <4> QED
        BY <2>4, <3>2, <4>1, <1>3 DEF StopTimer
    <3> QED
      BY <3>1, <3>2
  <2>5. CASE GcOldRounds
    <3>1. candidates[r] # <<>>
      BY <2>5, <1>b DEF GcOldRounds, TypeOK
    <3> QED
      BY <2>5, <3>1, <1>2 DEF GcOldRounds
  <2>6. CASE AggregateCommits
    <3>1. CASE Crash("nilCosigners") \/ Crash("indexRange")
      BY <3>1, <1>1 DEF Reasons
    <3>2. CASE ~(Crash("nilCosigners") \/ Crash("indexRange"))
      BY <2>6, <3>2, <1>2, <1>b DEF AggregateCommits
    <3> QED
      BY <3>1, <3>2
  <2> QED
    BY <1>5, <2>1, <2>2, <2>3, <2>4, <2>5, <2>6 DEF HandlerStep
<1>6. ASSUME NEW q \in Round, TimerFires(q) \/ OrphanFires(q)
      PROVE  Kept(r)'
  BY <1>6, <1>3 DEF TimerFires, OrphanFires
<1>7. ASSUME NEW q \in Round, NEW n \in Node, RequestCommittee(q, n)
      PROVE  Kept(r)'
  BY <1>7, <1>2, <1>b, IdleType DEF RequestCommittee
<1>8. ASSUME NEW q \in Round, NEW ok \in BOOLEAN, RequestAggregatedCommit(q, ok)
      PROVE  Kept(r)'
  BY <1>8, <1>2, <1>b, IdleType DEF RequestAggregatedCommit
<1>9. CASE StreamEnds \/ UNCHANGED vars
  BY <1>9, <1>a, <1>b DEF StreamEnds, vars, serverVars, WillFree
<1>10. CASE ConcurrentMapFault
  BY <1>10, <1>1 DEF ConcurrentMapFault, Reasons
<1>11. ASSUME NEW g \in Goroutine, TryFinalize(g)
       PROVE  Kept(r)'
  BY <1>11, <1>1, <1>4, TryFinalizeMoves
<1> QED
  BY <1>5, <1>6, <1>7, <1>8, <1>9, <1>10, <1>11 DEF Next

(* Every list of requests the server holds, stored, being extended or      *)
(* being finalized, belongs to one round: the strengthening of             *)
(* CommitteeOfItsRound.                                                    *)
ListsOfTheirRound ==
  /\ \A r \in Round : OfRound(candidates[r], r)
  /\ OfRound(handler.cands, handler.round)
  /\ \A g \in Goroutine : OfRound(fin[g].cands, fin[g].round)

(* The empty list is of every round. *)
LEMMA EmptyOfRound ==
  /\ \A r : OfRound(<<>>, r)
  /\ NoHandler.cands = <<>>
  /\ NoGoroutine.cands = <<>>
BY DEF OfRound, NoHandler, NoGoroutine

(* appendCandidate adds a request to the list of the round it names. *)
LEMMA AppendOfRound ==
  ASSUME NEW s \in Seq(Candidate), NEW c \in Candidate, NEW r,
         OfRound(s, r), c.round = r
  PROVE  OfRound(Append(s, c), r)
BY DEF OfRound

(* Each action keeps the lists of the map and of the goroutines of their   *)
(* rounds.                                                                 *)
LEMMA ListsStep ==
  ASSUME TypeOK, ListsOfTheirRound, [Next]_vars
  PROVE  ListsOfTheirRound'
<1>1. ASSUME NEW why \in Reasons, Crash(why)
      PROVE  ListsOfTheirRound'
  BY <1>1, CrashEmpties, EmptyOfRound DEF ListsOfTheirRound
<1>2. ASSUME UNCHANGED <<fin, candidates>>,
             \/ handler'.cands = <<>>
             \/ handler'.cands = handler.cands /\ handler'.round = handler.round
      PROVE  ListsOfTheirRound'
  BY <1>2, EmptyOfRound DEF ListsOfTheirRound
<1>3. ASSUME NEW r \in Round, Spawn(r), UNCHANGED candidates,
             handler'.cands = handler.cands, handler'.round = handler.round
      PROVE  ListsOfTheirRound'
  <2>1. PICK h \in Goroutine :
          /\ fin[h].pc = "none"
          /\ fin'[h].pc = "mark" /\ fin'[h].round = r /\ fin'[h].cands = <<>>
          /\ \A g \in Goroutine \ {h} : fin'[g] = fin[g]
    BY <1>3, SpawnFacts
  <2> QED
    BY <1>3, <2>1, EmptyOfRound DEF ListsOfTheirRound
<1>4. ASSUME NEW g \in Goroutine, Moved(g)
      PROVE  ListsOfTheirRound'
  <2>1. \A r \in Round : candidates'[r] = candidates[r] \/ candidates'[r] = <<>>
    BY <1>4 DEF Moved, TypeOK
  <2>2. OfRound(fin'[g].cands, fin'[g].round)
    BY <1>4, EmptyOfRound DEF Moved, ListsOfTheirRound
  <2> QED
    BY <1>4, <2>1, <2>2, EmptyOfRound DEF Moved, ListsOfTheirRound
<1>5. CASE HandlerStep
  <2>1. CASE LoadCandidates
    <3>1. handler.round \in Round /\ handler'.round = handler.round
          /\ handler'.cands = candidates[handler.round]
      BY <2>1 DEF LoadCandidates, TypeOK, HandlerPC, HandlerState
    <3> QED
      BY <2>1, <3>1 DEF LoadCandidates, ListsOfTheirRound, serverVars
  <2>2. CASE AppendCandidate
    <3> DEFINE c == [round |-> handler.round, nodeId |-> handler.node]
    <3>1. c \in Candidate /\ c.round = handler.round /\ handler.round \in Round
          /\ handler.cands \in Seq(Candidate)
      BY <2>2 DEF AppendCandidate, TypeOK, HandlerPC, HandlerState, Candidate
    <3>2. candidates' = [candidates EXCEPT ![handler.round] = Append(handler.cands, c)]
      BY <2>2 DEF AppendCandidate
    <3> HIDE DEF c
    <3>3. OfRound(Append(handler.cands, c), handler.round)
      BY <3>1, AppendOfRound DEF ListsOfTheirRound
    <3>4. \A r \in Round : OfRound(candidates'[r], r)
      BY <3>1, <3>2, <3>3 DEF ListsOfTheirRound, TypeOK
    <3>5. handler'.cands = <<>> /\ fin' = fin
      BY <2>2 DEF AppendCandidate, TypeOK, HandlerState
    <3> QED
      BY <3>4, <3>5, EmptyOfRound DEF ListsOfTheirRound
  <2>3. CASE GcOldRounds
    <3>1. \A r \in Round : candidates'[r] = candidates[r] \/ candidates'[r] = <<>>
      BY <2>3 DEF GcOldRounds, TypeOK
    <3> QED
      BY <2>3, <3>1, EmptyOfRound DEF GcOldRounds, ListsOfTheirRound
  <2>4. CASE StopTimer
    <3>1. CASE Crash("nilTimer")
      BY <3>1, <1>1 DEF Reasons
    <3>2. CASE ~Crash("nilTimer")
      <4>1. handler.round \in Round /\ handler'.round = handler.round
            /\ handler'.cands = handler.cands
        BY <2>4, <3>2 DEF StopTimer, TypeOK, HandlerPC, HandlerState
      <4> QED
        BY <2>4, <3>2, <4>1, <1>3 DEF StopTimer
    <3> QED
      BY <3>1, <3>2
  <2>5. CASE AggregateCommits
    BY <2>5, <1>1, <1>2, EmptyOfRound DEF AggregateCommits, Reasons
  <2>6. CASE CheckProcessed \/ ArmTimer \/ CheckSize \/ ReturnOk
    <3>1. \/ handler'.cands = <<>>
          \/ handler'.cands = handler.cands /\ handler'.round = handler.round
      BY <2>6, EmptyOfRound
      DEF CheckProcessed, ArmTimer, CheckSize, ReturnOk, TypeOK, HandlerState
    <3> QED
      BY <2>6, <3>1, <1>2
      DEF CheckProcessed, ArmTimer, CheckSize, ReturnOk, serverVars
  <2> QED
    BY <1>5, <2>1, <2>2, <2>3, <2>4, <2>5, <2>6 DEF HandlerStep
<1>6. ASSUME NEW r \in Round, TimerFires(r) \/ OrphanFires(r)
      PROVE  ListsOfTheirRound'
  BY <1>6, <1>3 DEF TimerFires, OrphanFires
<1>7. ASSUME NEW r \in Round, NEW n \in Node, RequestCommittee(r, n)
      PROVE  ListsOfTheirRound'
  <2>1. handler'.cands = <<>>
    BY <1>7 DEF RequestCommittee, NoHandler
  <2> QED
    BY <1>7, <2>1, <1>2 DEF RequestCommittee
<1>8. ASSUME NEW r \in Round, NEW ok \in BOOLEAN,
             RequestAggregatedCommit(r, ok)
      PROVE  ListsOfTheirRound'
  <2>1. handler'.cands = <<>>
    BY <1>8 DEF RequestAggregatedCommit, NoHandler
  <2> QED
    BY <1>8, <2>1, <1>2 DEF RequestAggregatedCommit
<1>9. CASE StreamEnds \/ UNCHANGED vars
  BY <1>9, <1>2 DEF StreamEnds, vars, serverVars
<1>10. CASE ConcurrentMapFault
  BY <1>10, <1>1 DEF ConcurrentMapFault, Reasons
<1>11. ASSUME NEW g \in Goroutine, TryFinalize(g)
       PROVE  ListsOfTheirRound'
  BY <1>11, <1>1, <1>4, TryFinalizeMoves
<1> QED
  BY <1>5, <1>6, <1>7, <1>8, <1>9, <1>10, <1>11 DEF Next

-----------------------------------------------------------------------------
(* The initial state satisfies all of these. *)
LEMMA InitSafe ==
  ASSUME Init
  PROVE  SpentHasFinalizer /\ NoStrandedRound /\ ListsOfTheirRound
BY IdleType, EmptyOfRound
   DEF Init, SpentHasFinalizer, NoStrandedRound, ListsOfTheirRound

(* A round that holds candidates always has an armed timer, a goroutine    *)
(* that will delete its list, or a request about to look at m.timers:      *)
(* appendCandidate and tryFinalize never strand a round, for any number of *)
(* nodes, rounds and goroutines.                                           *)
THEOREM NeverStranded == Spec => []NoStrandedRound
<1>1. Init => SpentHasFinalizer /\ NoStrandedRound
  BY InitSafe
<1>2. TypeOK /\ SpentHasFinalizer /\ NoStrandedRound /\ [Next]_vars
        => (SpentHasFinalizer /\ NoStrandedRound)'
  BY SpentStep, StrandedStep
<1> QED
  BY <1>1, <1>2, TypeCorrect, PTL DEF Spec

(* The committee tryFinalize broadcasts for a round contains only requests *)
(* of that round.                                                          *)
THEOREM CommitteeRoundCorrect == Spec => []CommitteeOfItsRound
<1>1. Init => ListsOfTheirRound
  BY InitSafe
<1>2. TypeOK /\ ListsOfTheirRound /\ [Next]_vars => ListsOfTheirRound'
  BY ListsStep
<1>3. ListsOfTheirRound => CommitteeOfItsRound
  BY DEF ListsOfTheirRound, CommitteeOfItsRound
<1> QED
  BY <1>1, <1>2, <1>3, TypeCorrect, PTL DEF Spec

=============================================================================
