-------------------------- MODULE CosigningProofs ---------------------------
(***************************************************************************)
(* Proofs about Cosigners and CollectiveSigning, for every number of       *)
(* cosigners, messages, masks and attempts: the cached aggregate of the    *)
(* leader agrees with its mask, one aggregate commit serves one message,   *)
(* and what the leader checks and what Verify answers agree whatever was   *)
(* done to the object before.                                              *)
(***************************************************************************)
EXTENDS CollectiveSigning, FiniteSetTheorems, TLAPS

(* The byte and the bit of a cosigner exist in a mask of full length. *)
LEMMA BitPlace ==
  ASSUME NEW i \in Signer
  PROVE  /\ i \div 8 + 1 \in 1 .. MaskLen
         /\ i % 8 \in 0 .. 7
         /\ 8 * (i \div 8) + (i % 8) = i
<1>1. i \in Nat /\ N \in Nat /\ i <= N - 1
  BY CosignersConstants DEF CosignersConstants, Signer
<1>2. i % 8 \in 0 .. 7
  BY <1>1
<1>3. 8 * (i \div 8) + (i % 8) = i
  BY <1>1
<1>4. i \div 8 + 1 \in 1 .. (N + 7) \div 8
  BY <1>1
<1>5. QED
  BY <1>2, <1>3, <1>4 DEF MaskLen

(* The place of a bit determines the cosigner it stands for. *)
LEMMA PlaceUnique ==
  ASSUME NEW i \in Signer, NEW b \in 1 .. MaskLen, NEW k \in 0 .. 7,
         i = 8 * (b - 1) + k
  PROVE  i \div 8 + 1 = b /\ i % 8 = k
BY CosignersConstants DEF CosignersConstants, Signer, MaskLen

(* SetMask leaves a mask of full length, *)
LEMMA NewMaskType ==
  ASSUME NEW old, NEW m
  PROVE  NewMask(old, m) \in [1 .. MaskLen -> Byte]
BY DEF NewMask, Byte

(* in which the bit of every cosigner is the one asked for, *)
LEMMA NewMaskBit ==
  ASSUME NEW old, NEW m, NEW i \in Signer
  PROVE  MaskBit(NewMask(old, m), i) <=> Disables(m, i)
<1>1. /\ i \div 8 + 1 \in 1 .. MaskLen
      /\ i % 8 \in 0 .. 7
      /\ 8 * ((i \div 8 + 1) - 1) + (i % 8) = i
      /\ i < N
  BY BitPlace, CosignersConstants DEF CosignersConstants, Signer
<1> DEFINE b == i \div 8 + 1
           k == i % 8
<1>2. NewMask(old, m)[b] =
        {j \in 0 .. 7 : IF 8 * (b - 1) + j < N THEN Disables(m, 8 * (b - 1) + j)
                        ELSE j \in old[b]}
  BY <1>1 DEF NewMask
<1>3. b \in 1 .. MaskLen /\ k \in 0 .. 7 /\ 8 * (b - 1) + k = i
  BY <1>1 DEF b, k
<1>4. MaskBit(NewMask(old, m), i) <=> k \in NewMask(old, m)[b]
  BY DEF MaskBit
<1> HIDE DEF b, k
<1>5. QED
  BY <1>1, <1>2, <1>3, <1>4

(* and the other bits are as before. *)
LEMMA NewMaskSpare ==
  ASSUME NEW old, NEW m, NEW b \in 1 .. MaskLen, NEW k \in 0 .. 7,
         8 * (b - 1) + k >= N
  PROVE  k \in NewMask(old, m)[b] <=> k \in old[b]
<1>1. ~ (8 * (b - 1) + k < N)
  BY CosignersConstants DEF CosignersConstants, MaskLen
<1>2. NewMask(old, m)[b] =
        {j \in 0 .. 7 : IF 8 * (b - 1) + j < N THEN Disables(m, 8 * (b - 1) + j)
                        ELSE j \in old[b]}
  BY DEF NewMask
<1>3. QED
  BY <1>1, <1>2

(* The sum of the enabled keys under mask m. *)
EnabledSum(m) == [i \in Signer |-> IF MaskBit(m, i) THEN 0 ELSE 1]

(* SetMask takes the sum for the old mask to the sum for the new one. *)
LEMMA NewAggrSum ==
  ASSUME NEW old, NEW m
  PROVE  NewAggr(old, EnabledSum(old), m) = EnabledSum(NewMask(old, m))
BY NewMaskBit DEF NewAggr, EnabledSum

(* A call of any method of the object, with any arguments. *)
AnyCall ==
  \/ \E m : SetMask(m)
  \/ \E i \in Signer, d \in BOOLEAN : SetMaskBit(i, d)
  \/ \E p \in Policies : SetPolicy(p)
  \/ UNCHANGED cosVars

LEMMA NextIsCall == [CosNext]_cosVars => AnyCall
<1>1. {FullPolicy} \cup {ThresholdPolicy(t) : t \in Limits} \subseteq Policies
  BY CosignersConstants DEF FullPolicy, ThresholdPolicy, Policies, CosignersConstants
<1>2. QED
  BY <1>1 DEF CosNext, AnyCall

(* Each call keeps the type invariant. *)
LEMMA CosTypeStep ==
  ASSUME CosTypeOK, AnyCall
  PROVE  CosTypeOK'
<1> USE DEF CosTypeOK
<1>1. ASSUME NEW m, SetMask(m)
      PROVE  CosTypeOK'
  <2>1. NewAggr(mask, aggr, m) \in [Signer -> Int]
    BY DEF NewAggr
  <2>2. QED
    BY <1>1, <2>1, NewMaskType DEF SetMask
<1>2. ASSUME NEW i \in Signer, NEW d \in BOOLEAN, SetMaskBit(i, d)
      PROVE  CosTypeOK'
  <2>1. CASE UNCHANGED <<mask, aggr>>
    BY <1>2, <2>1 DEF SetMaskBit
  <2>2. CASE Flip(i)
    BY <1>2, <2>2, BitPlace DEF SetMaskBit, Flip, Byte
  <2>3. QED
    BY <1>2, <2>1, <2>2 DEF SetMaskBit
<1>3. ASSUME NEW p \in Policies, SetPolicy(p)
      PROVE  CosTypeOK'
  BY <1>3 DEF SetPolicy
<1>4. CASE UNCHANGED cosVars
  BY <1>4 DEF cosVars
<1>5. QED
  BY <1>1, <1>2, <1>3, <1>4 DEF AnyCall

(* The bit of every cosigner other than i survives SetMaskBit(i), and the  *)
(* bit of i is turned.                                                     *)
LEMMA FlipBits ==
  ASSUME CosTypeOK, NEW i \in Signer, Flip(i), NEW j \in Signer
  PROVE  MaskBit(mask', j) <=> IF j = i THEN ~ MaskBit(mask, j)
                                       ELSE MaskBit(mask, j)
<1>1. /\ i \div 8 + 1 \in 1 .. MaskLen
      /\ j \div 8 + 1 \in 1 .. MaskLen
  BY BitPlace
<1>2. i # j => i \div 8 + 1 # j \div 8 + 1 \/ i % 8 # j % 8
  BY BitPlace DEF Signer
<1> DEFINE bi == i \div 8 + 1
           bj == j \div 8 + 1
           ki == i % 8
           kj == j % 8
<1>3. mask' = [mask EXCEPT ![bi] = IF ki \in mask[bi] THEN mask[bi] \ {ki}
                                   ELSE mask[bi] \cup {ki}]
  BY DEF Flip, MaskBit
<1>4. /\ MaskBit(mask', j) <=> kj \in mask'[bj]
      /\ MaskBit(mask, j) <=> kj \in mask[bj]
      /\ i = j => bi = bj /\ ki = kj
  BY DEF MaskBit
<1>5. mask \in [1 .. MaskLen -> Byte]
  BY DEF CosTypeOK
<1> HIDE DEF bi, bj, ki, kj
<1>6. QED
  BY <1>1, <1>2, <1>3, <1>4, <1>5 DEF bi, bj, ki, kj

(* SetMask and SetMaskBit keep the cached sum right. *)
LEMMA AggrStep ==
  ASSUME CosTypeOK, AggrIsEnabledSum, AnyCall
  PROVE  AggrIsEnabledSum'
<1>0. aggr = EnabledSum(mask)
  BY DEF AggrIsEnabledSum, EnabledSum
<1>1. ASSUME NEW m, SetMask(m)
      PROVE  AggrIsEnabledSum'
  BY <1>0, <1>1, NewAggrSum DEF SetMask, AggrIsEnabledSum, EnabledSum
<1>2. ASSUME NEW i \in Signer, NEW d \in BOOLEAN, SetMaskBit(i, d)
      PROVE  AggrIsEnabledSum'
  <2>1. CASE UNCHANGED <<mask, aggr>>
    BY <2>1 DEF AggrIsEnabledSum, MaskBit
  <2>2. CASE Flip(i)
    <3>1. aggr' = [j \in Signer |-> IF j = i
                                   THEN IF MaskBit(mask, i) THEN aggr[i] + 1
                                                            ELSE aggr[i] - 1
                                   ELSE aggr[j]]
      BY <2>2 DEF Flip, CosTypeOK
    <3>2. \A j \in Signer : aggr[j] = IF MaskBit(mask, j) THEN 0 ELSE 1
      BY DEF AggrIsEnabledSum
    <3>3. \A j \in Signer : aggr'[j] = IF MaskBit(mask', j) THEN 0 ELSE 1
      BY <2>2, <3>1, <3>2, FlipBits
    <3>4. aggr' = [j \in Signer |-> aggr'[j]]
      BY <3>1
    <3>5. QED
      BY <3>3, <3>4 DEF AggrIsEnabledSum
  <2>3. QED
    BY <1>2, <2>1, <2>2 DEF SetMaskBit
<1>3. ASSUME NEW p \in Policies, SetPolicy(p)
      PROVE  AggrIsEnabledSum'
  BY <1>3 DEF SetPolicy, AggrIsEnabledSum, MaskBit
<1>4. CASE UNCHANGED cosVars
  BY <1>4 DEF cosVars, AggrIsEnabledSum, MaskBit
<1>5. QED
  BY <1>1, <1>2, <1>3, <1>4 DEF AnyCall

(* The spare bits of the last byte are never written. *)
LEMMA SpareStep ==
  ASSUME CosTypeOK, SpareBitsClear, [CosNext]_cosVars
  PROVE  SpareBitsClear'
<1> SUFFICES ASSUME NEW b \in 1 .. MaskLen, NEW k \in 0 .. 7,
                    8 * (b - 1) + k >= N
             PROVE  k \notin mask'[b]
  BY DEF SpareBitsClear
<1>0. k \notin mask[b]
  BY DEF SpareBitsClear
<1>1. ASSUME NEW m \in MaskArgs, SetMask(m)
      PROVE  k \notin mask'[b]
  BY <1>0, <1>1, NewMaskSpare DEF SetMask
<1>2. ASSUME NEW i \in Signer, NEW d \in BOOLEAN, SetMaskBit(i, d)
      PROVE  k \notin mask'[b]
  <2>1. i \div 8 + 1 # b \/ i % 8 # k
    BY BitPlace, CosignersConstants DEF CosignersConstants, Signer
  <2>2. CASE UNCHANGED <<mask, aggr>>
    BY <1>0, <2>2
  <2>3. CASE Flip(i)
    BY <1>0, <2>1, <2>3, BitPlace DEF Flip, CosTypeOK
  <2>4. QED
    BY <1>2, <2>2, <2>3 DEF SetMaskBit
<1>3. CASE UNCHANGED mask
  BY <1>0, <1>3
<1>4. QED
  BY <1>1, <1>2, <1>3 DEF CosNext, SetPolicy, cosVars

(* A new object satisfies all three. *)
LEMMA NewHolds ==
  ASSUME NEW m, NewCosigners(m)
  PROVE  CosTypeOK /\ AggrIsEnabledSum /\ SpareBitsClear
<1>1. [i \in Signer |-> 1] = EnabledSum(NoneDisabled)
  BY BitPlace DEF EnabledSum, NoneDisabled, MaskBit
<1>2. aggr = EnabledSum(mask)
  BY <1>1, NewAggrSum DEF NewCosigners
<1>3. CosTypeOK
  BY <1>2, NewMaskType
  DEF CosTypeOK, NewCosigners, EnabledSum, FullPolicy, Policies
<1>4. SpareBitsClear
  <2> SUFFICES ASSUME NEW b \in 1 .. MaskLen, NEW k \in 0 .. 7,
                      8 * (b - 1) + k >= N
               PROVE  k \notin mask[b]
    BY DEF SpareBitsClear
  <2>1. k \in NewMask(NoneDisabled, m)[b] <=> k \in NoneDisabled[b]
    BY NewMaskSpare
  <2>2. NoneDisabled[b] = {}
    BY DEF NoneDisabled
  <2>3. QED
    BY <2>1, <2>2 DEF NewCosigners
<1>5. QED
  BY <1>2, <1>3, <1>4 DEF AggrIsEnabledSum, EnabledSum

LEMMA InitHolds ==
  ASSUME CosInit
  PROVE  CosTypeOK /\ AggrIsEnabledSum /\ SpareBitsClear
BY NewHolds DEF CosInit

(* The mask keeps its length, the sum its domain, the policy its form. *)
THEOREM CosignersTypeCorrect == CosSpec => []CosTypeOK
<1>1. CosInit => CosTypeOK
  BY InitHolds
<1>2. CosTypeOK /\ [CosNext]_cosVars => CosTypeOK'
  BY CosTypeStep, NextIsCall
<1>3. QED
  BY <1>1, <1>2, PTL DEF CosSpec

(* AggregatePublicKey, which returns the cached sum, is the aggregate of   *)
(* the enabled keys after any sequence of SetMask, SetMaskBit and          *)
(* SetPolicy calls, for any number of keys and masks of any length.        *)
THEOREM AggregateCorrect == CosSpec => []AggrIsEnabledSum
<1>1. CosInit => AggrIsEnabledSum
  BY InitHolds
<1>2. CosTypeOK /\ AggrIsEnabledSum /\ [CosNext]_cosVars => AggrIsEnabledSum'
  BY AggrStep, NextIsCall
<1>3. QED
  BY <1>1, <1>2, CosignersTypeCorrect, PTL DEF CosSpec

(* The bits of Mask() that stand for no cosigner are 0 whatever masks were *)
(* passed to NewCosigners and SetMask.                                     *)
THEOREM SpareBitsStayClear == CosSpec => []SpareBitsClear
<1>1. CosInit => SpareBitsClear
  BY InitHolds
<1>2. CosTypeOK /\ SpareBitsClear /\ [CosNext]_cosVars => SpareBitsClear'
  BY SpareStep
<1>3. QED
  BY <1>1, <1>2, CosignersTypeCorrect, PTL DEF CosSpec

(* A truncated Mask() enables exactly the cosigners it does not reach and  *)
(* leaves the others as they are.                                          *)
THEOREM TruncationOnlyEnables == CosSpec => []TruncationEnables
<1>1. ASSUME CosTypeOK PROVE TruncationEnables
  <2> SUFFICES ASSUME NEW len \in 0 .. MaskLen, NEW i \in Signer
               PROVE  MaskBit(NewMask(mask, SubSeq(mask, 1, len)), i)
                        <=> MaskBit(mask, i) /\ i < 8 * len
    BY DEF TruncationEnables
  <2> DEFINE m == SubSeq(mask, 1, len)
  <2>1. MaskBit(NewMask(mask, m), i) <=> Disables(m, i)
    BY NewMaskBit
  <2>2. MaskLen \in Nat /\ len \in Nat /\ len <= MaskLen
    BY CosignersConstants DEF CosignersConstants, MaskLen
  <2>3. mask \in [1 .. MaskLen -> Byte]
    BY <1>1 DEF CosTypeOK
  <2>4. mask \in Seq(Byte) /\ Len(mask) = MaskLen
    BY <2>2, <2>3
  <2>5. Len(m) = len /\ \A b \in 1 .. len : m[b] = mask[b]
    BY <2>2, <2>4
  <2>6. i \in Nat /\ (i \div 8 < len <=> i < 8 * len)
    BY <2>2 DEF Signer
  <2>7. i \div 8 < len => i \div 8 + 1 \in 1 .. len
    BY <2>2, <2>6
  <2> HIDE DEF m
  <2>8. Disables(m, i) <=> MaskBit(mask, i) /\ i < 8 * len
    BY <2>5, <2>6, <2>7 DEF Disables, MaskBit
  <2>9. QED
    BY <2>1, <2>8 DEF m
<1>2. QED
  BY <1>1, CosignersTypeCorrect, PTL

-----------------------------------------------------------------------------
(* The leader's calls on its object are calls of Cosigners methods. *)
LEMMA SigningCalls == [SignNext]_signingVars => AnyCall
<1>1. \A t \in Limits : ThresholdPolicy(t) \in Policies
  BY CosignersConstants DEF CosignersConstants, ThresholdPolicy, Policies
<1> QED
  BY <1>1, SigningConstants
  DEF SignNext, signingVars, cosVars, AnyCall, Commit, Cosign, AggregateCommit,
      ReceivePart, AggregateSignature, Verify, SigningConstants

(* The challenge that Cosign hashes has its type. *)
LEMMA ChallengeType ==
  ASSUME session \in Session, NEW k \in 1 .. MaxNonce, NEW msg \in Message
  PROVE  PartFor(k, msg) \in SigPart
BY DEF Session, PartFor, SigPart, Hash

(* Each action keeps the type invariant. *)
LEMMA SignTypeStep ==
  ASSUME SignTypeOK, [SignNext]_signingVars
  PROVE  SignTypeOK'
<1> USE SigningConstants DEF SigningConstants
<1>1. CosTypeOK'
  BY SigningCalls, CosTypeStep DEF SignTypeOK
<1>2. ASSUME NEW i \in Signer, Commit(i) PROVE SignTypeOK'
  <2>1. nonces \in Nat /\ nonces' = nonces + 1 /\ nonces' \in Nonce
    BY <1>2 DEF Commit, SignTypeOK, Nonce
  <2>2. /\ nonces' \in 1 .. nonces' /\ nonces' \in 0 .. nonces'
        /\ 1 .. nonces \subseteq 1 .. nonces' /\ 0 .. nonces \subseteq 0 .. nonces'
    BY <2>1
  <2>3. secrets' \in [Signer -> SUBSET (1 .. nonces')]
    BY <1>2, <2>1, <2>2 DEF Commit, SignTypeOK
  <2>4. commit' \in [Signer -> 0 .. nonces']
    BY <1>2, <2>1, <2>2 DEF Commit, SignTypeOK
  <2> QED
    BY <1>1, <1>2, <2>1, <2>3, <2>4 DEF Commit, SignTypeOK
<1>3. ASSUME NEW i \in Signer, NEW k \in 1 .. MaxNonce, NEW msg \in Message,
             Cosign(i, k, msg)
      PROVE  SignTypeOK'
  <2>1. session \in Session
    BY <1>3 DEF Cosign, SignTypeOK
  <2>2. PartFor(k, msg) \in SigPart
    BY <2>1, ChallengeType
  <2>3. made' \in [Signer -> SUBSET SigPart]
    BY <1>3, <2>2 DEF Cosign, SignTypeOK
  <2>4. secrets' \in [Signer -> SUBSET (1 .. nonces')]
    BY <1>3 DEF Cosign, SignTypeOK
  <2> QED
    BY <1>1, <1>3, <2>3, <2>4 DEF Cosign, SignTypeOK
<1>4. CASE AggregateCommit
  <2>1. ASSUME \A i \in Signer : commit[i] # 0
        PROVE  [r |-> commit, k |-> aggr] \in Session
    <3>1. commit \in AggrR
      BY <2>1 DEF SignTypeOK, AggrR, Nonce
    <3> QED
      BY <3>1 DEF SignTypeOK, CosTypeOK, Session
  <2> QED
    BY <1>1, <1>4, <2>1 DEF AggregateCommit, SignTypeOK
<1>7. ASSUME NEW i \in Signer, NEW p \in made[i], ReceivePart(i, p)
      PROVE  SignTypeOK'
  <2>1. p \in SigPart
    BY <1>7 DEF SignTypeOK
  <2>2. part' \in [Signer -> SigPart \cup {None}]
    BY <1>7, <2>1 DEF ReceivePart, SignTypeOK
  <2> QED
    BY <1>1, <1>7, <2>2 DEF ReceivePart, SignTypeOK
<1>5. CASE AggregateSignature
  <2>1. session \in Session
    BY <1>5 DEF AggregateSignature, SignTypeOK
  <2>2. ASSUME \A i \in Signer : part[i] # None
        PROVE  part \in [Signer -> SigPart]
    BY <2>2 DEF SignTypeOK
  <2>3. sig' \in Signature \cup {None}
    <3>1. CASE \A i \in Signer : part[i] # None
      <4> DEFINE C == {msg \in Message :
                         \A i \in Signer : VerifyPart(i, part[i], session, msg)}
      <4>1. sig' = [r |-> session.r, s |-> part, checked |-> C]
        BY <1>5, <3>1 DEF AggregateSignature
      <4>2. C \in SUBSET Message
        OBVIOUS
      <4> HIDE DEF C
      <4> QED
        BY <2>1, <2>2, <3>1, <4>1, <4>2 DEF Signature, Session
    <3>2. CASE ~\A i \in Signer : part[i] # None
      BY <1>5, <3>2 DEF AggregateSignature
    <3> QED
      BY <3>1, <3>2
  <2> QED
    BY <1>1, <1>5, <2>3 DEF AggregateSignature, SignTypeOK
<1>6. CASE UNCHANGED signVars
  BY <1>1, <1>6 DEF signVars, SignTypeOK
<1> QED
  BY <1>2, <1>3, <1>4, <1>5, <1>6, <1>7 DEF SignNext, Verify, signingVars

(* The leader's slices, the secrets and the signature keep their types. *)
THEOREM SigningTypeCorrect == SignSpec => []SignTypeOK
<1>1. SignInit => SignTypeOK
  BY NewHolds, SigningConstants DEF SignInit, SignTypeOK, Nonce, SigningConstants
<1>2. SignTypeOK /\ [SignNext]_signingVars => SignTypeOK'
  BY SignTypeStep
<1> QED
  BY <1>1, <1>2, PTL DEF SignSpec

-----------------------------------------------------------------------------
(* The inductive invariant: the secret of every part that was ever made is *)
(* one that Cosign has invalidated, and no two parts of a cosigner share   *)
(* one; and the parts that were checked agree on the challenge.            *)
SecretsSpent ==
  \A i \in Signer :
    /\ \A p \in made[i] : p.nonce \in 1 .. nonces /\ p.nonce \notin secrets[i]
    /\ \A p, q \in made[i] : p.nonce = q.nonce => p = q

PartsAgree ==
  sig # None =>
    \E K \in [Signer -> Int] :
      \A msg \in sig.checked, i \in Signer :
        /\ sig.s[i].nonce = sig.r[i]
        /\ sig.s[i].h = [r |-> sig.r, k |-> K, msg |-> msg]

SignInv == AggrIsEnabledSum /\ SecretsSpent /\ PartsAgree

LEMMA SignInvStep ==
  ASSUME SignTypeOK, SignInv, [SignNext]_signingVars
  PROVE  SignInv'
<1>1. AggrIsEnabledSum'
  BY SigningCalls, AggrStep DEF SignTypeOK, SignInv
<1> SUFFICES SecretsSpent' /\ PartsAgree'
  BY <1>1 DEF SignInv
<1>2. ASSUME NEW i \in Signer, Commit(i) PROVE SecretsSpent' /\ PartsAgree'
  <2>1. PartsAgree'
    BY <1>2 DEF Commit, SignInv, PartsAgree
  <2>2. nonces \in Nat /\ nonces' = nonces + 1 /\ made' = made
    BY <1>2 DEF Commit, SignTypeOK, Nonce
  <2>3. \A j \in Signer : secrets'[j] \subseteq secrets[j] \cup {nonces + 1}
    BY <1>2 DEF Commit, SignTypeOK
  <2>4. nonces + 1 \notin 1 .. nonces /\ 1 .. nonces \subseteq 1 .. nonces'
    BY <2>2
  <2>5. SecretsSpent'
    <3> SUFFICES ASSUME NEW j \in Signer
                 PROVE  /\ \A p \in made[j] : /\ p.nonce \in 1 .. nonces'
                                              /\ p.nonce \notin secrets'[j]
                        /\ \A p, q \in made[j] : p.nonce = q.nonce => p = q
      BY <2>2, Zenon DEF SecretsSpent
    <3>1. /\ \A p \in made[j] : p.nonce \in 1 .. nonces /\ p.nonce \notin secrets[j]
          /\ \A p, q \in made[j] : p.nonce = q.nonce => p = q
      BY Zenon DEF SignInv, SecretsSpent
    <3>2. ASSUME NEW n \in 1 .. nonces, n \notin secrets[j]
          PROVE  n \in 1 .. nonces' /\ n \notin secrets'[j]
      BY <3>2, <2>3, <2>4, Zenon
    <3> QED
      BY <3>1, <3>2, Zenon
  <2> QED
    BY <2>1, <2>5
<1>3. ASSUME NEW i \in Signer, NEW k \in 1 .. MaxNonce, NEW msg \in Message,
             Cosign(i, k, msg)
      PROVE  SecretsSpent' /\ PartsAgree'
  <2>1. PartsAgree'
    BY <1>3 DEF Cosign, SignInv, PartsAgree
  <2>2. PICK p : p = PartFor(k, msg)
    BY Zenon
  <2>3. p.nonce = k
    BY <2>2 DEF PartFor
  <2>4. /\ k \in secrets[i] /\ k \in 1 .. nonces /\ nonces' = nonces
        /\ made'[i] = made[i] \cup {p} /\ secrets'[i] = secrets[i] \ {k}
        /\ \A j \in Signer \ {i} : made'[j] = made[j] /\ secrets'[j] = secrets[j]
    BY <1>3, <2>2 DEF Cosign, SignTypeOK
  <2>5. SecretsSpent'
    <3> SUFFICES ASSUME NEW j \in Signer
                 PROVE  /\ \A t \in made'[j] : /\ t.nonce \in 1 .. nonces
                                               /\ t.nonce \notin secrets'[j]
                        /\ \A t, q \in made'[j] : t.nonce = q.nonce => t = q
      BY <2>4, Zenon DEF SecretsSpent
    <3>1. /\ \A t \in made[j] : t.nonce \in 1 .. nonces /\ t.nonce \notin secrets[j]
          /\ \A t, q \in made[j] : t.nonce = q.nonce => t = q
      BY Zenon DEF SignInv, SecretsSpent
    <3>2. CASE j # i
      BY <2>4, <3>1, <3>2, Zenon
    <3>3. CASE j = i
      <4>1. \A t \in made'[i] : t \in made[i] \/ t = p
        BY <2>4, Zenon
      <4>2. \A n : n \in secrets'[i] => n \in secrets[i] /\ n # k
        BY <2>4, Zenon
      <4>3. ASSUME NEW t \in made[i]
            PROVE  t.nonce \in 1 .. nonces /\ t.nonce \notin secrets[i] /\ t.nonce # k
        <5>1. t.nonce \in 1 .. nonces /\ t.nonce \notin secrets[i]
          BY <3>1, <3>3
        <5>2. k \in secrets[i]
          BY <2>4, Zenon
        <5> QED
          BY <5>1, <5>2
      <4>4. \A t \in made'[i] : t.nonce \in 1 .. nonces /\ t.nonce \notin secrets'[i]
        <5>1. p.nonce \in 1 .. nonces /\ p.nonce \notin secrets'[i]
          BY <2>3, <2>4, <4>2, Zenon
        <5>2. \A t \in made[i] : t.nonce \in 1 .. nonces /\ t.nonce \notin secrets'[i]
          BY <4>2, <4>3, Zenon
        <5> QED
          BY <4>1, <5>1, <5>2, Zenon
      <4>5. \A t, q \in made'[i] : t.nonce = q.nonce => t = q
        BY <2>3, <3>1, <3>3, <4>1, <4>3, Zenon
      <4> QED
        BY <3>3, <4>4, <4>5, Zenon
    <3> QED
      BY <3>2, <3>3
  <2> QED
    BY <2>1, <2>5
<1>4. CASE AggregateCommit
  BY <1>4 DEF AggregateCommit, SignInv, SecretsSpent, PartsAgree
<1>5. CASE AggregateSignature
  <2>1. SecretsSpent'
    BY <1>5 DEF AggregateSignature, SignInv, SecretsSpent
  <2>2. CASE sig' = None
    BY <2>1, <2>2 DEF PartsAgree
  <2>3. CASE sig' # None
    <3> DEFINE C == {msg \in Message :
                       \A i \in Signer : VerifyPart(i, part[i], session, msg)}
    <3>1. sig' = [r |-> session.r, s |-> part, checked |-> C]
      BY <1>5, <2>3 DEF AggregateSignature
    <3>2. sig'.s = part /\ sig'.r = session.r /\ sig'.checked = C
      BY <3>1
    <3>3. aggr \in [Signer -> Int]
      BY DEF SignTypeOK, CosTypeOK
    <3>4. \A msg \in C, i \in Signer :
            /\ part[i].nonce = session.r[i]
            /\ part[i].h = [r |-> session.r, k |-> aggr, msg |-> msg]
      BY DEF VerifyPart
    <3> HIDE DEF C
    <3>5. PartsAgree'
      <4>1. PICK r, z, K : r = session.r /\ z = part /\ K = aggr
        BY Zenon
      <4>2. \A msg \in C, i \in Signer :
              z[i].nonce = r[i] /\ z[i].h = [r |-> r, k |-> K, msg |-> msg]
        BY <3>4, <4>1
      <4>3. K \in [Signer -> Int] /\ sig'.s = z /\ sig'.r = r /\ sig'.checked = C
        BY <3>2, <3>3, <4>1
      <4> QED
        BY <4>2, <4>3 DEF PartsAgree
    <3> QED
      BY <2>1, <3>5
  <2> QED
    BY <2>2, <2>3
<1>6. CASE UNCHANGED signVars
  BY <1>6 DEF signVars, SignInv, SecretsSpent, PartsAgree
<1>7. ASSUME NEW i \in Signer, NEW p \in made[i], ReceivePart(i, p)
      PROVE  SecretsSpent' /\ PartsAgree'
  BY <1>7 DEF ReceivePart, SignInv, SecretsSpent, PartsAgree
<1> QED
  BY <1>2, <1>3, <1>4, <1>5, <1>6, <1>7 DEF SignNext, Verify, signingVars

LEMMA SignInvHolds == SignSpec => []SignInv
<1>1. SignInit => SignInv
  BY NewHolds DEF SignInit, SignInv, SecretsSpent, PartsAgree
<1>2. SignTypeOK /\ SignInv /\ [SignNext]_signingVars => SignInv'
  BY SignInvStep
<1> QED
  BY <1>1, <1>2, SigningTypeCorrect, PTL DEF SignSpec

(* Parts for one aggregate commit that verify accepts for two messages     *)
(* cannot both have been made, for any number of cosigners, attempts and   *)
(* messages, however the parts are put together.                           *)
THEOREM OneCommitOneMessage == SignSpec => []OneMessagePerCommit
<1>1. SignInv => OneMessagePerCommit
  <2> SUFFICES ASSUME SignInv, NEW r \in AggrR, NEW m1 \in Message, NEW m2 \in Message,
                      Signable(r, m1), Signable(r, m2)
               PROVE  m1 = m2
    BY DEF OneMessagePerCommit
  <2> DEFINE K == [i \in Signer |-> 1]
  <2>1. 0 \in Signer
    BY CosignersConstants, SigningConstants
    DEF CosignersConstants, SigningConstants, Signer
  <2>2. ASSUME NEW msg, Signable(r, msg)
        PROVE  \E p \in made[0] : p.nonce = r[0] /\ p.h = [r |-> r, k |-> K, msg |-> msg]
    <3>1. PICK s : /\ s[0] \in made[0]
                   /\ Equation([r |-> r, s |-> s], K, msg)
      BY <2>1, <2>2 DEF Signable
    <3>2. s[0].nonce = r[0] /\ s[0].h = [r |-> r, k |-> K, msg |-> msg]
      BY <2>1, <3>1 DEF Equation
    <3> QED
      BY <3>1, <3>2
  <2> HIDE DEF K
  <2>3. PICK p \in made[0] : p.nonce = r[0] /\ p.h = [r |-> r, k |-> K, msg |-> m1]
    BY <2>2
  <2>4. PICK q \in made[0] : q.nonce = r[0] /\ q.h = [r |-> r, k |-> K, msg |-> m2]
    BY <2>2
  <2>5. p = q
    BY <2>1, <2>3, <2>4, Zenon DEF SignInv, SecretsSpent
  <2>6. [r |-> r, k |-> K, msg |-> m1] = [r |-> r, k |-> K, msg |-> m2]
    BY <2>3, <2>4, <2>5, Zenon
  <2> QED
    BY <2>6
<1> QED
  BY <1>1, SignInvHolds, PTL

-----------------------------------------------------------------------------
(* What Verify computes.  The mask that counts, and the sum of the keys    *)
(* under it, depend on the bytes carried, not on the object.               *)
SumFor(c) == [i \in Signer |-> IF Disables(c, i) THEN 0 ELSE 1]

LEMMA SumIsCarried ==
  ASSUME NEW old, NEW c
  PROVE  /\ NewAggr(old, EnabledSum(old), c) = SumFor(c)
         /\ CountEnabled(NewMask(old, c)) = Cardinality({i \in Signer : ~Disables(c, i)})
<1>1. \A i \in Signer : MaskBit(NewMask(old, c), i) <=> Disables(c, i)
  BY NewMaskBit
<1>2. NewAggr(old, EnabledSum(old), c) = SumFor(c)
  BY <1>1, NewAggrSum DEF EnabledSum, SumFor
<1>3. {i \in Signer : ~MaskBit(NewMask(old, c), i)} = {i \in Signer : ~Disables(c, i)}
  BY <1>1
<1> QED
  BY <1>2, <1>3 DEF CountEnabled

LEMMA NoneIsDisabled ==
  /\ \A i \in Signer : ~Disables(NoneDisabled, i)
  /\ [i \in Signer |-> 1] = EnabledSum(NoneDisabled)
<1>1. \A i \in Signer : ~MaskBit(NoneDisabled, i)
  BY BitPlace DEF NoneDisabled, MaskBit
<1> QED
  BY <1>1 DEF Disables, EnabledSum

(* What an object whose sum is right answers. *)
AcceptedUnder(c, p, g, msg) ==
  /\ Cardinality({i \in Signer : ~Disables(c, i)})
       >= (IF p.kind = "full" THEN N ELSE p.t)
  /\ Equation(g, SumFor(c), msg)

LEMMA AnswerIs ==
  ASSUME NEW old, NEW p, NEW g, NEW msg, NEW m,
         NEW c, c = IF m = <<>> THEN NoneDisabled ELSE m
  PROVE  Accepts(old, EnabledSum(old), p, g, msg, m) <=> AcceptedUnder(c, p, g, msg)
<1>1. Accepts(old, EnabledSum(old), p, g, msg, m) <=>
        /\ PolicyCheck(p, NewMask(old, c))
        /\ Equation(g, NewAggr(old, EnabledSum(old), c), msg)
  BY DEF Accepts, CarriedMask
<1> QED
  BY <1>1, SumIsCarried DEF PolicyCheck, AcceptedUnder

(* Verify on an object that was used before answers what the standalone    *)
(* function answers, for every mask, policy, message and signature.        *)
THEOREM VerifyForgetsHistory == SignSpec => []VerifyIsStateless
<1>1. SignTypeOK /\ SignInv => VerifyIsStateless
  <2> SUFFICES ASSUME SignTypeOK, SignInv, NEW msg \in Message, NEW m \in MaskArgs
               PROVE  Accepts(mask, aggr, policy, sig, msg, m)
                        <=> StandaloneVerify(policy, sig, msg, m)
    BY DEF VerifyIsStateless
  <2>1. aggr = EnabledSum(mask)
    BY DEF SignInv, AggrIsEnabledSum, EnabledSum
  <2>2. NewAggr(NoneDisabled, [i \in Signer |-> 1], m)
          = EnabledSum(NewMask(NoneDisabled, m))
    BY NoneIsDisabled, NewAggrSum
  <2>3. StandaloneVerify(policy, sig, msg, m) <=>
          Accepts(NewMask(NoneDisabled, m), EnabledSum(NewMask(NoneDisabled, m)),
                  policy, sig, msg, m)
    BY <2>2 DEF StandaloneVerify
  <2>4. PICK c, p, g : /\ c = IF m = <<>> THEN NoneDisabled ELSE m
                       /\ p = policy /\ g = sig
    BY Zenon
  <2>5. \A old : Accepts(old, EnabledSum(old), p, g, msg, m)
                   <=> AcceptedUnder(c, p, g, msg)
    BY <2>4, AnswerIs
  <2>6. \A old, other : Accepts(old, EnabledSum(old), policy, sig, msg, m)
                          <=> Accepts(other, EnabledSum(other), policy, sig, msg, m)
    BY <2>4, <2>5
  <2> QED
    BY <2>1, <2>3, <2>6
<1> QED
  BY <1>1, SigningTypeCorrect, SignInvHolds, PTL

(* If VerifyPart accepted every part while no cosigner was disabled, the   *)
(* signature without mask is accepted, whatever mask the object has by     *)
(* then, unless the threshold exceeds the number of keys.                  *)
THEOREM CheckedPartsSuffice == SignSpec => []CheckedIsAccepted
<1>1. SignTypeOK /\ SignInv => CheckedIsAccepted
  <2> SUFFICES ASSUME SignTypeOK, SignInv, sig # None, NEW msg \in sig.checked,
                      policy.t <= N, \A i, j \in Signer : sig.s[i].h.k[j] = 1
               PROVE  Accepts(mask, aggr, policy, sig, msg, <<>>)
    BY DEF CheckedIsAccepted
  <2>1. aggr = EnabledSum(mask)
    BY DEF SignInv, AggrIsEnabledSum, EnabledSum
  <2>2. N \in Nat /\ policy.t \in Int /\ policy.kind \in {"full", "threshold"}
    BY CosignersConstants DEF CosignersConstants, SignTypeOK, CosTypeOK, Policies
  <2>3. {i \in Signer : ~Disables(NoneDisabled, i)} = 0 .. N - 1
    BY NoneIsDisabled DEF Signer
  <2>4. Cardinality(0 .. N - 1) = N
    BY <2>2, FS_Interval, SMTT(30)
  <2>5. SumFor(NoneDisabled) = [i \in Signer |-> 1]
    BY NoneIsDisabled DEF SumFor
  <2>6. PICK K \in [Signer -> Int] : \A i \in Signer :
          /\ sig.s[i].nonce = sig.r[i]
          /\ sig.s[i].h = [r |-> sig.r, k |-> K, msg |-> msg]
    BY DEF SignInv, PartsAgree
  <2>7. ASSUME NEW i \in Signer
        PROVE  /\ sig.s[i].nonce = sig.r[i]
               /\ sig.s[i].h = [r |-> sig.r, k |-> [j \in Signer |-> 1], msg |-> msg]
    <3>1. \A j \in Signer : K[j] = 1
      BY <2>6, SMTT(30)
    <3>2. K = [j \in Signer |-> 1]
      BY <3>1
    <3> QED
      BY <2>6, <3>2
  <2>8. Equation(sig, SumFor(NoneDisabled), msg)
    BY <2>5, <2>7 DEF Equation
  <2>9. N >= (IF policy.kind = "full" THEN N ELSE policy.t)
    BY <2>2, SMTT(30)
  <2>10. Accepts(mask, EnabledSum(mask), policy, sig, msg, <<>>)
           <=> AcceptedUnder(NoneDisabled, policy, sig, msg)
    <3>1. PICK u, p, g, e, c :
            u = mask /\ p = policy /\ g = sig /\ e = <<>> /\ c = NoneDisabled
      BY Zenon
    <3>2. c = IF e = <<>> THEN NoneDisabled ELSE e
      BY <3>1, Zenon
    <3>3. Accepts(u, EnabledSum(u), p, g, msg, e) <=> AcceptedUnder(c, p, g, msg)
      BY <3>2, AnswerIs
    <3> QED
      BY <3>1, <3>3, Zenon
  <2>11. AcceptedUnder(NoneDisabled, policy, sig, msg)
    <3>1. Cardinality({i \in Signer : ~Disables(NoneDisabled, i)}) = N
      BY <2>3, <2>4, Zenon
    <3>2. AcceptedUnder(NoneDisabled, policy, sig, msg) <=>
            /\ Cardinality({i \in Signer : ~Disables(NoneDisabled, i)})
                 >= (IF policy.kind = "full" THEN N ELSE policy.t)
            /\ Equation(sig, SumFor(NoneDisabled), msg)
      BY Zenon DEF AcceptedUnder
    <3> QED
      BY <2>8, <2>9, <3>1, <3>2, Zenon
  <2> QED
    BY <2>1, <2>10, <2>11
<1> QED
  BY <1>1, SigningTypeCorrect, SignInvHolds, PTL

=============================================================================
