----------------------------- MODULE ModelPhases -----------------------------
(***************************************************************************)
(* One thread runs prompts: nodes that load models and compute with them,  *)
(* among them the sampler, whose forwards of H3 project with weights that  *)
(* DynamicVRAM pages in.  PhaseRelease decides what stays loaded and       *)
(* Projection what is cast; here the pages of H3 follow both.  What a      *)
(* failed cast leaves behind is met by the guards of a later node, and     *)
(* what the guards release is gone when the next forward casts.            *)
(***************************************************************************)
EXTENDS Projection, PhaseRelease

CONSTANTS
  H3,      \* the inner model whose projections are modelled
  Loads    \* sets of patchers that nodes load together

ASSUME PhasesAssumption ==
  /\ H3 \in {InnerOf[p] : p \in Patcher} /\ Loads \subseteq SUBSET Patcher

vars == <<memory, pages, projection, release>>

Init == WeightInit /\ ProjectionInit /\ ReleaseInit

\* Off the GPU means that no page of the model is left, save a pinned one.
PagesFollow ==
  IF H3 \in onGpu \ onGpu'
    THEN /\ Evict(Evictable)
         /\ free' = free + PageSize * Cardinality(Evictable) /\ UNCHANGED <<cache, cooldown>>
    ELSE UNCHANGED <<memory, pages>>

\* The guards and the nodes around the forwards; H3 is used by these alone.
Boundary ==
  /\ \/ GuardStep \/ BeginNode \/ EndNode
     \/ \E S \in Loads : BeginLoad(S)
     \/ \E p, q \in Patcher : ParentStandsIn(p, q)
     \/ \E p \in Patcher : InnerOf[p] # H3 /\ UseModel(p)
  /\ PagesFollow
  /\ UNCHANGED projection

\* A cast marks the pins of H3 as active for the rest of the node.
H3Follows ==
  /\ active' = IF pinned' # {} THEN active \cup {H3} ELSE active
  /\ owned' = IF pinned' # {} THEN owned \cup {H3} ELSE owned \ {H3}
  /\ onGpu' = IF Loaded' # {} THEN onGpu \cup {H3} ELSE onGpu
  /\ UNCHANGED <<phase, models, marks, queued, request, todo, history>>

Forward ==
  /\ phase = "forward"
  /\ \/ \E w \in Weights, n \in 1..MaxChunks, wants, recovers \in BOOLEAN :
          BeginCall(w, n, wants, recovers)
     \/ ProjectionStep \/ MlpFloor
     \/ stage = "returned" /\ EndCall
  /\ H3Follows

\* Outside a forward the tensors of H3 are gone.
ForwardEnds ==
  /\ LeaveForward
  /\ \/ stage = "idle" /\ phase' = "node"
     \/ stage = "raised" /\ phase' = "failed"
  /\ To("idle") /\ held' = 0 /\ Forget
  /\ free' = Memory - PageSize * Cardinality(Loaded) /\ cache' = 0
  /\ UNCHANGED <<cooldown, pages, weight>>

Next == Boundary \/ Forward \/ ForwardEnds

Spec == Init /\ [][Next]_vars
=============================================================================
