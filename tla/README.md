# TLA+ models of the committee mesh server

The repository is a gRPC server at which the nodes of a network register, ask
for a signing committee round by round, and have their partial commitments
aggregated with the CoSi package of its modified copy of `golang.org/x/crypto`
(`src/golang-x-crypto/ed25519/cosi`). This directory models the server and that
package. `PROJECT.json` links every definition to the lines it models and lists
components, runs, mutants, findings, hazards and theorems.

## The system

| Part | Code | What happens there | Module |
|---|---|---|---|
| Committee rounds | `network.go`, `network_helper.go` | candidates are collected per round; at a threshold or after ten seconds a goroutine runs `tryFinalize` without the lock | `CommitteeRounds` (`MeshServer` declares the nil it shares with `Subscribers`) |
| Subscribers | `network.go` | streams join, are replaced, leave, break; messages fan out through bounded channels | `Subscribers` |
| Cosigners object | `cosi/cosi.go`, `cosi/verify.go` | a byte mask and a cached aggregate key | `Cosigners` |
| Collective signing | `cosi/sign.go`, `cosi/verify.go` | commits, parts, aggregate signatures, both forms of `Verify` | `CollectiveSigning` |

How the parts interact: `RequestCommittee` stores a candidate, and
`tryFinalize` builds a Cosigners object, computes both aggregates and
broadcasts the committee to all subscribers. `RequestAggregatedCommit` collects
commitments until their number reaches `nodeNumber`, aggregates them with the
object it finds and broadcasts the result. A stream that ends resets
`m.processed`. `CommitteeRounds` and `Subscribers` are kept apart, each taking
the other at its weakest: in the first a stream may end at any moment
(`StreamEnds`), in the second callers of `broadcast`, with and without the
lock, may come at any moment. What holds of each therefore holds of the two
together, since neither relies on what the other does beyond that it lets go of
`m.mu`.

What makes the server hard: RPC handlers hold `m.mu`, but `tryFinalize` and the
reset of `m.processed` do not, so they run between any two steps of a handler;
timers race with the threshold; Go maps fault under concurrent access; panics
end the process (no handler recovers, nothing is persisted); rounds,
`nodeNumber` and `cosigners` are not tied together; channels are closed in two
places; masks have any length; signing attempts restart. The list with line
numbers is under "hazards".

## Modules

**CommitteeRounds.** `m.mu` is held exactly while `handler # NoHandler`; the
handler and each goroutine `fin[g]` have a program counter and advance by one
access to shared state. A timer is `none`, `armed` or `spent` (fired or
stopped); one that was dropped from the map while armed is counted in
`orphans`. A candidate is its round and node id: keys and commitments matter
only in whether they decode (`BadKey`, `BadCommit`, and the truth values in
`commitData`): `NewCosigners` and `AggregateCommit` return nil at the first
that does not. `cosigners` is the key list of the object.
`ConcurrentMapFault` is enabled when two goroutines are about to touch one map
and one of them writes. Timers carry no clock: an armed timer may fire at any
time. The maps `initMaps` makes are not told apart from empty ones: they are
written only by the handler that has just called it, and by the goroutines and
timers that handler starts. `broadcast` is one step here. `MCRefusals` adds the
rounds for which a request was refused.

**Subscribers.** Each call of `JoinNetwork` is a stream with its channel. A
caller of `broadcast` iterates over `m.subs` entry by entry: keys deleted
meanwhile are skipped, keys inserted meanwhile may or may not appear, as the Go
language says. `delivered` is a history variable.

**Cosigners.** A byte is the set of its bits, a mask a sequence of bytes; a sum
of keys is the number of times each key was added. The whole loop of `SetMask`
is one step, since an object is used by one goroutine. `SetMaskBit` is called
with the index of a key; with any other it panics, for a spare bit of the last
byte after having flipped that bit.

**CollectiveSigning.** Secrets, private keys and hashes are independent symbols,
so an equation between sums holds when it holds term by term. A commit may be
lost; a part that a cosigner has made may reach the leader at any later time,
in another attempt, repeatedly or never (`made`, `ReceivePart`), and stays in
the leader's slice until it is replaced; the mask may change at any moment.
`checked` remembers for which messages every part passed `VerifyPart`. The
roles are those of `testCosign` in `cosi_test.go`; the server itself plays only
the aggregating part.

A definition marked "Mutant" is a faulty variant of the one below it. It is
not used by any specification; substituted for the original it must break the
property it is paired with.

## Runs

Components that share no state are explored in one run: the MC module extends
or instantiates them, a variable (`half`, `side`) picks the one that moves, and
the other stays in one initial state. States add up instead of multiplying, and
each component behaves as it does alone.

| Run | Checks | Instance and why it is enough |
|---|---|---|
| `mesh` | `NoStrandedRound`, `CommitteeOfItsRound`, `RegisteredOpen`, `LockedSendSafe`, `DeliveryOrder` | two rounds, threshold 2, window 0, three requests, one commit, two goroutines: threshold and timeout meet in one round while another is collected; one subscriber, two streams, so that the second replaces the first, two callers of `broadcast` that compete for the lock and one without it, three messages through channels of capacity 1, so that they overflow |
| `mesh_live` | `RoundCleared`, `BufferedIsDelivered`, `LockReleased`, `ExitCompletes` | one round, two requests, two commits, one node with a key that does not decode and one with such a commitment; two streams, two messages |
| `cosigning` | `LongMasksAreRight`, `AggrIsEnabledSum`, `OneMessagePerCommit`, `CheckedIsAccepted`, `VerifyIsStateless` | an object with ten keys (two bytes, six spare bits) and masks of 0 to 3 bytes; two cosigners with three commits, so that one of them holds two secrets, two messages, signatures with and without a mask behind them, a cosigner that is switched off and on, thresholds that are met and that are not |

Bounds: `MaxRequests`, `MaxCommits`, `MaxMessages` and `MaxNonce` cap calls;
`Goroutine` caps the goroutines inside `tryFinalize` at one time; `Cap` stands
for 100, `Threshold` for 10, `GcWindow` for 4, `RoundMod` for 2^64. Deadlock is
checked only in `cosigning`: elsewhere the calls run out or a panic ends the
process. Symmetry is used over goroutines, nodes, streams and messages, in runs
without liveness.

The remaining runs each end in a counterexample: a comment, test or document
says something the code does not do. They are explained under "findings":

* `v_FinalizeExcludesHandlers`: `tryFinalize` runs without the lock;
* `v_CommitteeHasMembers`: a committee without members is announced;
* `v_CommitsOfSelectedCommittee`: the commits of an announced committee meet a
  missing or foreign Cosigners object;
* `v_KeyOfItsCommittee`: the aggregate key of an announced committee is that of
  another one, since `m.cosigners` is read again after it was stored;
* `v_RefusedMeansEnded`: a committee is announced for a round after a request
  for it was told that the round had ended;
* `v_GcKeepsWindow`: the sum in `gcOldRounds` wraps around for the last rounds;
* `v_LeaveIsGraceful`: leaving and disconnecting closes a channel twice, and an
  unlocked broadcast may meet a closed channel;
* `v_JoinedIsSubscribed`: the cleanup of an old stream unregisters the new one;
* `v_ThresholdAccepted`: a partial signature never verifies, since the mask
  handling of the signing side was commented out.

## Fairness

Weak fairness of every goroutine that is able to move: the Go scheduler runs
every runnable goroutine and the runtime fires timers. In `mesh_live` that is
the handler that holds the lock, each `tryFinalize` goroutine, armed timers,
streams and callers of `broadcast`, with strong fairness for the step that
waits for `m.mu`, since a Go mutex in starvation mode serves every waiter;
`stream.Send` is taken to return. Nothing makes anybody call, leave or
disconnect. The conditions of the two halves are numbered and shared:
`Thread(k, i)` is the goroutine of that number in the half that moves, so each
half has exactly its own.

## Proofs

The theorems hold for all constants that satisfy the named assumptions
(`ConstantsOK`, `SubscribersConstants`, `NilIsNoPayload`, `CosignersConstants`,
`SigningConstants`): any number of nodes, rounds, goroutines, streams and
cosigners, any capacities and any bounds on the calls. The assumptions give the
constants their types, keep the values that stand for "nobody" apart from the
others, and ask for one cosigner at least.

* `CommitteeRoundsProofs`: type correctness; `NoStrandedRound`, which is not
  inductive alone: `SpentHasFinalizer` adds that a timer still in the map that
  has fired or was stopped has a goroutine which has not yet dropped it, so the
  step that finds an entry in `m.timers` and arms none is safe;
  `CommitteeOfItsRound`, from `ListsOfTheirRound` (every list in the map, in
  the handler and in a goroutine holds requests of its own round).
* `SubscribersProofs`: type correctness; `RegisteredOpen` and `LockedSendSafe`
  from `IInv`: a registered stream is one of its node that has not
  begun to close, the channel `LeaveNetwork` holds is open while it has the
  lock, only streams that started are closed, and the target of a locked
  broadcast is still registered.
* `DeliveryProofs`: `DeliveryOrder` from `OrderInv`, which speaks of what a
  stream has delivered, holds and has buffered as one sequence: a broadcast
  that still has a stream to visit has not been there, and one that holds the
  lock is newer than every locked one before it. Steps other than a send only
  drop elements of the sequence (`PartOf`), which keeps its order.
* `CosigningProofs`, object: type correctness, `AggrIsEnabledSum`,
  `SpareBitsClear` and `TruncationEnables`, from what `SetMask` does to a bit
  (`NewMaskBit`, `NewMaskSpare`) and the fact that bit positions are unique.
* `CosigningProofs`, signing: type correctness; `OneMessagePerCommit`,
  `VerifyIsStateless` and `CheckedIsAccepted` from `SignInv`: the aggregate of
  the object is that of its mask, the secret of every part ever made is one
  `Cosign` has invalidated and no two parts of a cosigner share one, and the
  parts that were checked agree on the challenge. That the leader's object is
  one of `Cosigners` (`SigningCalls`) carries the theorems about the mask over.

Only model-checked: all liveness, which is out of reach of the prover, and
`LongMasksAreRight`, which is the three theorems about the Cosigners object for
a second object.

## Not modelled

`main.go` beyond the fact that calls run concurrently; the unused helpers of
`tool.go`; generated code in `proto_interface`; logging; the arithmetic of the
curve under the CoSi package; and the other packages of `golang-x-crypto`,
which the server does not use.
