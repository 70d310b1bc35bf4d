----------------------------- MODULE MCCosigning -----------------------------
(***************************************************************************)
(* The collective signing of two cosigners, and a Cosigners object alone   *)
(* with ten, whose mask has two bytes, side by side: a behaviour picks one *)
(* of them and moves only that.                                            *)
(***************************************************************************)
EXTENDS CollectiveSigning, TLC

CONSTANTS ObjN, ObjMasks, ObjLimits

VARIABLES side, objMask, objAggr, objPolicy

Obj == INSTANCE Cosigners WITH
  N <- ObjN, MaskArgs <- ObjMasks, Limits <- ObjLimits,
  mask <- objMask, aggr <- objAggr, policy <- objPolicy

objVars == <<objMask, objAggr, objPolicy>>

(* Bytes at the edges, in masks too short, long enough and too long. *)
EdgeBytes == {{}, {0}, {7}, 0 .. 7}
EdgeMasks == UNION {[1 .. len -> EdgeBytes] : len \in 0 .. (ObjN + 7) \div 8 + 1}

(* No mask behind the signature, and one that disables cosigner 1. *)
Suffixes == {<<>>, <<{1}>>}

Symmetry == Permutations(Message)

CosigningInit ==
  /\ side \in {"object", "signing"}
  /\ SignInit
  /\ IF side = "object" THEN Obj!CosInit ELSE Obj!NewCosigners(<<>>)

CosigningNext ==
  /\ UNCHANGED side
  /\ \/ side = "object"  /\ Obj!CosNext /\ UNCHANGED signingVars
     \/ side = "signing" /\ SignNext /\ UNCHANGED objVars

CosigningSpec == CosigningInit /\ [][CosigningNext]_<<side, signingVars, objVars>>

(* Cosigners with more than one byte of mask: the aggregate is the sum of  *)
(* the enabled keys, the spare bits stay 0, and a truncated mask enables   *)
(* exactly the cosigners it does not reach.                                *)
LongMasksAreRight ==
  Obj!AggrIsEnabledSum /\ Obj!SpareBitsClear /\ Obj!TruncationEnables

=============================================================================
