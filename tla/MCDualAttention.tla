-------------------------- MODULE MCDualAttention --------------------------
(***************************************************************************)
(* Small instances of DualAttention for TLC.                               *)
(***************************************************************************)
EXTENDS DualAttention, TLC

CONSTANTS t1, t2, modelA, modelB, gpu1, gpu2

\* Both threads sample one patched model, or each samples a model of its own.
MCSharedOwner == [t \in Threads |-> modelA]
MCSplitOwner == t1 :> modelA @@ t2 :> modelB

\* "exact" and "sol" are one attention call on either route: their failure
\* keys differ by the route, their lease key is the same.  "audio" is an exact
\* call of as many tokens, some of them audio: it has a lease of its own.
MCSignature == [s \in Shapes |-> IF s = "audio" THEN "exact" ELSE s]
MCLeaseKey == [s \in Shapes |-> IF s = "sol" THEN "exact" ELSE s]
MCPoolNeed == [s \in Shapes |-> IF s = "sol" THEN 2 ELSE 1]

\* The second devices are alike but for the free choice of live capacity.
MCSwap == Permutations({gpu1, gpu2})
=============================================================================
