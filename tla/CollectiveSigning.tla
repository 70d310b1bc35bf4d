--------------------------- MODULE CollectiveSigning ---------------------------
(***************************************************************************)
(* Collective signing with package cosi: the cosigners call Commit and     *)
(* Cosign, the leader calls AggregatePublicKey, AggregateCommit,           *)
(* VerifyPart, AggregateSignature and Verify on its Cosigners object, in   *)
(* the roles testCosign gives them.  A commit reaches the leader at once   *)
(* or is lost; a signature part may be lost, or arrive late, in another    *)
(* attempt, or twice.                                                      *)
(*                                                                         *)
(* The group is symbolic.  The one-time secrets, the private keys and the  *)
(* hash values of different arguments are independent, so an equation      *)
(* between sums holds exactly when it holds term by term:                  *)
(*   a commit         nonce k of cosigner i, 0 for a missing one;          *)
(*   an aggregate R   the function from cosigner to the nonce it holds;    *)
(*   a part           h * key(i) + nonce(i), kept as [nonce, h];           *)
(*   an aggregate S   the function from cosigner to its part;              *)
(*   a hash           the record of what was hashed.                       *)
(***************************************************************************)
EXTENDS Cosigners

(* The leader's object is that of module Cosigners; MaskArgs holds the     *)
(* masks carried behind a signature.                                       *)
CONSTANTS
  Switched,   \* cosigners the leader passes to SetMaskBit
  Message,    \* messages to sign
  None,       \* a nil slice
  MaxNonce    \* bound: calls of Commit, by all cosigners together

ASSUME SigningConstants ==
  N > 0 /\ Switched \subseteq Signer /\ MaxNonce \in Nat

VARIABLES
  nonces,   \* number of calls of Commit so far
  secrets,  \* the secrets of each cosigner that are valid
  commit,   \* the leader's commits slice
  session,  \* the aggregate key and commit the leader passes to the cosigners
  made,     \* the parts each cosigner has returned from Cosign
  part,     \* the leader's sigParts slice
  sig       \* the collective signature of the last attempt, or None

signVars == <<nonces, secrets, commit, session, made, part, sig>>
signingVars == <<cosVars, signVars>>

Nonce   == 0 .. MaxNonce
AggrR   == [Signer -> 1 .. MaxNonce]
Hash    == [r : AggrR, k : [Signer -> Int], msg : Message]
Session == [r : AggrR, k : [Signer -> Int]]
SigPart == [nonce : 1 .. MaxNonce, h : Hash]

SignInit ==
  /\ NewCosigners(<<>>)
  /\ nonces  = 0
  /\ secrets = [i \in Signer |-> {}]
  /\ commit  = [i \in Signer |-> 0]
  /\ session = None
  /\ made    = [i \in Signer |-> {}]
  /\ part    = [i \in Signer |-> None]
  /\ sig     = None

-----------------------------------------------------------------------------
(* The cosigners *)

(* A fresh secret; the commit reaches the leader, or is lost. *)
Commit(i) ==
  /\ nonces < MaxNonce
  /\ nonces'  = nonces + 1
  /\ secrets' = [secrets EXCEPT ![i] = @ \cup {nonces + 1}]
  /\ commit' \in {commit, [commit EXCEPT ![i] = nonces + 1]}
  /\ UNCHANGED <<mask, aggr, policy, session, made, part, sig>>

(* The part that rests on nonce k, for the challenge of the session. *)
PartFor(k, msg) ==
  [nonce |-> k, h |-> [r |-> session.r, k |-> session.k, msg |-> msg]]

(* Mutant: the secret stays valid. *)
CosignKeepsSecret(i, k, msg) ==
  /\ session # None
  /\ k \in secrets[i]
  /\ made' = [made EXCEPT ![i] = @ \cup {PartFor(k, msg)}]
  /\ UNCHANGED <<mask, aggr, policy, nonces, secrets, commit, session, part,
                 sig>>

(* Cosign panics on a secret that is no longer valid, and invalidates the  *)
(* one it uses.                                                            *)
Cosign(i, k, msg) ==
  /\ session # None
  /\ k \in secrets[i]
  /\ secrets' = [secrets EXCEPT ![i] = @ \ {k}]
  /\ made'    = [made EXCEPT ![i] = @ \cup {PartFor(k, msg)}]
  /\ UNCHANGED <<mask, aggr, policy, nonces, commit, session, part, sig>>

-----------------------------------------------------------------------------
(* The leader *)

(* A part that was made at any time arrives while the leader waits. *)
ReceivePart(i, p) ==
  /\ session # None
  /\ part' = [part EXCEPT ![i] = p]
  /\ UNCHANGED <<mask, aggr, policy, nonces, secrets, commit, session, made,
                 sig>>

(* AggregatePublicKey is the cached sum.  AggregateCommit adds the commits *)
(* of all keys, whatever the mask, and returns nil if one is missing.  The *)
(* leader has no further use for the signature of the last attempt.        *)
AggregateCommit ==
  /\ session' = IF \A i \in Signer : commit[i] # 0
                THEN [r |-> commit, k |-> aggr] ELSE None
  /\ sig' = None
  /\ UNCHANGED <<mask, aggr, policy, nonces, secrets, commit, made, part>>

(* Mutant: the commit of the signer is not compared. *)
VerifyPartAnyNonce(i, p, ses, msg) ==
  p # None /\ p.h = [r |-> ses.r, k |-> aggr, msg |-> msg]

(* S * B = R(i) + h * key(i), with h over the aggregate of the object now *)
VerifyPart(i, p, ses, msg) ==
  /\ p # None
  /\ p.nonce = ses.r[i]
  /\ p.h = [r |-> ses.r, k |-> aggr, msg |-> msg]

(* The leader may first check each part; checked holds the messages for    *)
(* which all of them passed.  A missing part makes the result nil.  The    *)
(* slices stay as they are: the next attempt may find old commits and      *)
(* parts in them.                                                          *)
AggregateSignature ==
  /\ session # None
  /\ sig' = IF \A i \in Signer : part[i] # None
            THEN [r |-> session.r, s |-> part,
                  checked |-> {msg \in Message :
                                 \A i \in Signer :
                                   VerifyPart(i, part[i], session, msg)}]
            ELSE None
  /\ UNCHANGED <<mask, aggr, policy, nonces, secrets, commit, session, made,
                 part>>

(* verify: S * B = R + h * K, term by term.  S has the term h(i) * key(i)  *)
(* for every i, and K has key(i) only if i is enabled.                     *)
Equation(g, k, msg) ==
  \A i \in Signer :
    /\ g.s[i].nonce = g.r[i]
    /\ k[i] = 1
    /\ g.s[i].h = [r |-> g.r, k |-> k, msg |-> msg]

(* Mutant: a signature without mask leaves the mask of the object alone. *)
CarriedMaskOld(old, m) == IF m = <<>> THEN old ELSE m

(* The mask bytes m behind the 64 bytes of a signature; if there are none, *)
(* the mask that enables everyone.                                         *)
CarriedMask(old, m) == IF m = <<>> THEN NoneDisabled ELSE m

(* What Verify returns on an object with mask old, cached sum a, policy p. *)
Accepts(old, a, p, g, msg, m) ==
  LET c == CarriedMask(old, m) IN
  /\ PolicyCheck(p, NewMask(old, c))
  /\ Equation(g, NewAggr(old, a, c), msg)

(* What Verify does to the object. *)
Verify(m) ==
  /\ sig # None
  /\ SetMask(CarriedMask(mask, m))
  /\ UNCHANGED signVars

(* The package's function Verify works on an object of its own. *)
StandaloneVerify(p, g, msg, m) ==
  LET old == NewMask(NoneDisabled, m)
      a   == NewAggr(NoneDisabled, [i \in Signer |-> 1], m)
  IN  Accepts(old, a, p, g, msg, m)

-----------------------------------------------------------------------------
SignNext ==
  \/ \E i \in Signer : Commit(i)
  \/ \E i \in Signer, k \in 1 .. MaxNonce, msg \in Message : Cosign(i, k, msg)
  \/ \E i \in Signer : \E p \in made[i] : ReceivePart(i, p)
  \/ AggregateCommit
  \/ AggregateSignature
  \/ \E m \in MaskArgs : Verify(m)
  \/ \E i \in Switched, d \in BOOLEAN :
       SetMaskBit(i, d) /\ UNCHANGED signVars
  \/ \E t \in Limits :
       SetPolicy(ThresholdPolicy(t)) /\ UNCHANGED signVars

SignSpec == SignInit /\ [][SignNext]_signingVars

-----------------------------------------------------------------------------
(* Properties *)

Signature == [r : AggrR, s : [Signer -> SigPart], checked : SUBSET Message]

SignTypeOK ==
  /\ CosTypeOK
  /\ nonces \in Nonce
  /\ secrets \in [Signer -> SUBSET (1 .. nonces)]
  /\ commit \in [Signer -> 0 .. nonces]
  /\ session \in Session \cup {None}
  /\ made \in [Signer -> SUBSET SigPart]
  /\ part \in [Signer -> SigPart \cup {None}]
  /\ sig \in Signature \cup {None}

(* Parts that Cosign has returned, of any attempt, make up a signature     *)
(* with the aggregate commit r that verify accepts for msg.                *)
Signable(r, msg) ==
  \E s \in [Signer -> UNION {made[i] : i \in Signer}] :
    /\ \A i \in Signer : s[i] \in made[i]
    /\ Equation([r |-> r, s |-> s], [i \in Signer |-> 1], msg)

(* One aggregate commit never leads to accepted signatures of two          *)
(* messages, whatever parts are put together, although attempts are        *)
(* restarted, the aggregates are passed on again and cosigners may be      *)
(* given different messages: Cosign invalidates the secret it uses, and    *)
(* binds its part to message, aggregate commit and aggregate key.          *)
OneMessagePerCommit ==
  \A r \in AggrR, m1, m2 \in Message :
    Signable(r, m1) /\ Signable(r, m2) => m1 = m2

(* If VerifyPart accepted every part while no cosigner was disabled, the   *)
(* signature without mask is accepted, although the mask of the object     *)
(* may have changed since: Verify enables everyone first.  A threshold     *)
(* above the number of keys accepts nothing.                               *)
CheckedIsAccepted ==
  sig # None =>
    \A msg \in sig.checked :
      policy.t <= N /\ (\A i, j \in Signer : sig.s[i].h.k[j] = 1)
        => Accepts(mask, aggr, policy, sig, msg, <<>>)

(* Verify called on an object and the standalone Verify give the same      *)
(* answer: earlier SetMask, SetMaskBit and Verify calls leave no trace.    *)
VerifyIsStateless ==
  sig # None =>
    \A msg \in Message, m \in MaskArgs :
      Accepts(mask, aggr, policy, sig, msg, m)
        <=> StandaloneVerify(policy, sig, msg, m)

-----------------------------------------------------------------------------
(* What a test says of the code and the code does not do. *)

(* cosi_test.go, "valid threshold not accepted": after SetPolicy with      *)
(* ThresholdPolicy(t), a signature made in one attempt while t cosigners   *)
(* were enabled is accepted.                                               *)
ThresholdAccepted ==
  sig # None =>
    \A msg \in sig.checked :
      (/\ policy.kind = "threshold"
       /\ Cardinality({j \in Signer : sig.s[0].h.k[j] = 1}) >= policy.t)
        => Accepts(mask, aggr, policy, sig, msg, <<>>)

=============================================================================
