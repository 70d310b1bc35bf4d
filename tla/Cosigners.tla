------------------------------- MODULE Cosigners -------------------------------
(***************************************************************************)
(* The Cosigners object of package cosi: an immutable list of public keys, *)
(* the participation mask, the cached aggregate of the enabled keys, and   *)
(* the acceptance policy.                                                  *)
(*                                                                         *)
(* A byte is the set of its bits that are 1; a mask is a sequence of bytes *)
(* in which bit i % 8 of byte i \div 8 is 1 when cosigner i is disabled.   *)
(* A sum of keys is the function from cosigner to the number of times its  *)
(* key was added: keys are independent group elements, so two sums are     *)
(* equal exactly when these numbers are.                                   *)
(***************************************************************************)
EXTENDS Integers, Sequences, FiniteSets

CONSTANTS
  N,         \* number of public keys
  MaskArgs,  \* the byte slices passed to NewCosigners and SetMask
  Limits     \* the thresholds passed to ThresholdPolicy

Byte == SUBSET (0 .. 7)

ASSUME CosignersConstants ==
  /\ N \in Nat
  /\ MaskArgs \subseteq Seq(Byte)
  /\ Limits \subseteq Int

VARIABLES
  mask,    \* cos.mask
  aggr,    \* cos.aggr
  policy   \* cos.policy

cosVars == <<mask, aggr, policy>>

Signer  == 0 .. N - 1            \* the indices of cos.keys
MaskLen == (N + 7) \div 8

Policies   == [kind : {"full", "threshold"}, t : Int]
FullPolicy == [kind |-> "full", t |-> 0]

ThresholdPolicy(t) == [kind |-> "threshold", t |-> t]

(* The bit of cosigner i in a slice that is long enough to hold it. *)
MaskBit(m, i) == i % 8 \in m[i \div 8 + 1]

NoneDisabled == [b \in 1 .. MaskLen |-> {}]

CountEnabled(m) == Cardinality({i \in Signer : ~ MaskBit(m, i)})

(* policy.Check(cos): fullPolicy compares with CountTotal *)
PolicyCheck(p, m) ==
  CountEnabled(m) >= IF p.kind = "full" THEN N ELSE p.t

-----------------------------------------------------------------------------
(* SetMask: a loop over the keys that compares the new bit with the old    *)
(* one.  A slice that is too short enables the cosigners it does not reach.*)

Disables(m, i) == i \div 8 < Len(m) /\ MaskBit(m, i)

(* Mutant: a slice that is too short leaves the rest of the mask. *)
NewMaskKeepsRest(old, m) ==
  [b \in 1 .. MaskLen |->
     {k \in 0 .. 7 : LET i == 8 * (b - 1) + k IN
                     IF i < N /\ i \div 8 < Len(m) THEN MaskBit(m, i)
                     ELSE k \in old[b]}]

NewMask(old, m) ==
  [b \in 1 .. MaskLen |->
     {k \in 0 .. 7 : LET i == 8 * (b - 1) + k IN
                     IF i < N THEN Disables(m, i) ELSE k \in old[b]}]

NewAggr(old, sum, m) ==
  [i \in Signer |->
     IF Disables(m, i)
     THEN IF MaskBit(old, i) THEN sum[i] ELSE sum[i] - 1
     ELSE IF MaskBit(old, i) THEN sum[i] + 1 ELSE sum[i]]

SetMask(m) ==
  /\ mask' = NewMask(mask, m)
  /\ aggr' = NewAggr(mask, aggr, m)
  /\ UNCHANGED policy

(* Mutant: a key that is enabled again is not added back. *)
FlipForgetsKey(i) ==
  LET on == MaskBit(mask, i) IN
  /\ mask' = [mask EXCEPT ![i \div 8 + 1] =
                IF on THEN @ \ {i % 8} ELSE @ \cup {i % 8}]
  /\ aggr' = [aggr EXCEPT ![i] = IF on THEN @ ELSE @ - 1]

(* Flip the bit of cosigner i; Add or Sub its key. *)
Flip(i) ==
  LET on == MaskBit(mask, i) IN
  /\ mask' = [mask EXCEPT ![i \div 8 + 1] =
                IF on THEN @ \ {i % 8} ELSE @ \cup {i % 8}]
  /\ aggr' = [aggr EXCEPT ![i] = IF on THEN @ + 1 ELSE @ - 1]

(* SetMaskBit does nothing when the bit already has the value.  i is the   *)
(* index of a key: for any other the call panics, outside the mask or,     *)
(* after a spare bit was flipped, outside the keys.                        *)
SetMaskBit(i, disable) ==
  /\ IF MaskBit(mask, i) = disable THEN UNCHANGED <<mask, aggr>> ELSE Flip(i)
  /\ UNCHANGED policy

(* SetPolicy(nil) is SetPolicy(fullPolicy{}). *)
SetPolicy(p) ==
  /\ policy' = p
  /\ UNCHANGED <<mask, aggr>>

-----------------------------------------------------------------------------
(* NewCosigners adds every key, then applies the mask it is given; a nil   *)
(* mask disables no one, like the empty slice.                             *)
NewCosigners(m) ==
  /\ mask   = NewMask(NoneDisabled, m)
  /\ aggr   = NewAggr(NoneDisabled, [i \in Signer |-> 1], m)
  /\ policy = FullPolicy

CosInit == \E m \in MaskArgs : NewCosigners(m)

CosNext ==
  \/ \E m \in MaskArgs : SetMask(m)
  \/ \E i \in Signer, d \in BOOLEAN : SetMaskBit(i, d)
  \/ \E p \in {FullPolicy} \cup {ThresholdPolicy(t) : t \in Limits} :
       SetPolicy(p)

CosSpec == CosInit /\ [][CosNext]_cosVars

-----------------------------------------------------------------------------
(* Properties *)

CosTypeOK ==
  /\ mask \in [1 .. MaskLen -> Byte]
  /\ aggr \in [Signer -> Int]
  /\ policy \in Policies

(* The cached aggregate is the sum of the enabled keys, each once, after   *)
(* any sequence of SetMask and SetMaskBit calls, with masks of any length: *)
(* the updates never add or subtract a key twice.                          *)
AggrIsEnabledSum ==
  aggr = [i \in Signer |-> IF MaskBit(mask, i) THEN 0 ELSE 1]

(* The bits of the last byte that stand for no cosigner stay 0, so that    *)
(* Mask() is the same slice for the same set of enabled cosigners.         *)
SpareBitsClear ==
  \A b \in 1 .. MaskLen, k \in 0 .. 7 : 8 * (b - 1) + k >= N => k \notin mask[b]

(* Passing the first bytes of Mask() back to SetMask never disables anyone *)
(* who was enabled: what a truncated mask leaves out is taken as Enabled.  *)
TruncationEnables ==
  \A len \in 0 .. MaskLen :
    LET m == NewMask(mask, SubSeq(mask, 1, len)) IN
    \A i \in Signer :
      MaskBit(m, i) <=> MaskBit(mask, i) /\ i < 8 * len

=============================================================================
