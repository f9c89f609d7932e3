---------------------------- MODULE PhaseRelease ----------------------------
(***************************************************************************)
(* Which models stay loaded at a phase boundary (phase_model_release.py):  *)
(* the guard around ComfyUI's load_models_gpu and the release before every *)
(* forward of H3.  Both detach dynamic models that nobody needs; the guard *)
(* first tries to empty the GPU of a managed H3 and keep its host copy.    *)
(*                                                                         *)
(* Modelled from their use, not from their source: ComfyUI's list of       *)
(* loaded models, clones that replace each other in it, and the state of   *)
(* a model's pins.  A full detach may leave a model loaded; a release step *)
(* may fail or do less than it was asked.                                  *)
(*                                                                         *)
(* Abstracted: sizes are "some" or "none"; a list is taken in any order.   *)
(***************************************************************************)
EXTENDS FiniteSets, Naturals

CONSTANTS
  Patcher,    \* ModelPatchers a workflow may load
  UuidOf,     \* clone_base_uuid of a patcher
  InnerOf,    \* the model inside it, shared by its clones
  NestedOf,   \* model_patches_models: patchers it needs beside it
  Dynamic,    \* patchers of CUDA DynamicVRAM models
  Sampled,    \* patchers an Optimize node may return
  Opaque      \* inner models whose pins or pages cannot be read

ASSUME PatcherAssumption ==
  /\ NestedOf \in [Patcher -> SUBSET Patcher]
  /\ Dynamic \subseteq Patcher /\ Sampled \subseteq Dynamic
  /\ \A p, q \in Patcher :
       UuidOf[p] = UuidOf[q] => InnerOf[p] = InnerOf[q] /\ (p \in Dynamic <=> q \in Dynamic)

VARIABLES
  phase,       \* what the thread of the prompt is at
  loaded,      \* loaded_models()
  used,        \* those that are currently_used
  marked,      \* patchers with the marker of mark_phase_managed
  managedKeys, \* _managed_model_keys
  active,      \* inner models whose pins are in use by the running node
  owned,       \* inner models with a page pinned by a cast
  queued,      \* inner models with a page pinned by a finished prefetch
  onGpu,       \* inner models with bytes on the GPU or registered with CUDA
  request,     \* patchers the load or the forward was called with
  todo,        \* patchers still to be released
  spared,      \* history: inner models that were busy when the guard looked
  refused      \* history: patchers a full detach of this load did not remove

marks == <<marked, managedKeys>>
usage == <<active, owned, queued>>
models == <<loaded, used>>
history == <<spared, refused>>
release == <<phase, models, marks, usage, onGpu, request, todo, history>>

Inner == {InnerOf[p] : p \in Patcher}
Clones(p) == {q \in loaded : UuidOf[q] = UuidOf[p]}

\* Nothing is loaded when ComfyUI starts.
ReleaseInit ==
  /\ phase = "rest" /\ loaded = {} /\ used = {} /\ marked = {} /\ managedKeys = {}
  /\ active = {} /\ owned = {} /\ queued = {} /\ onGpu = {}
  /\ request = {} /\ todo = {} /\ spared = {} /\ refused = {}

-----------------------------------------------------------------------------
(* Who is who.                                                             *)

ProtectionKeys(p) == {<<"clone", UuidOf[p]>>, <<"inner", InnerOf[p]>>}
KeysOf(S) == UNION {ProtectionKeys(p) : p \in S}

\* Everything the given patchers need, and what that needs.
Needed(S) ==
  {p \in Patcher : \A T \in SUBSET Patcher :
     (S \subseteq T /\ \A q \in T : NestedOf[q] \subseteq T) => p \in T}

\* Mutant: models that a requested one brings along are not looked at.
RequestedModelKeysFlat(S) == KeysOf(S)

RequestedModelKeys(S) == KeysOf(Needed(S))

Protected(p, keys) == ProtectionKeys(p) \cap keys # {}

\* Mutant: the marker is looked for on the patcher only.
IsPhaseManagedByMarker(p) == p \in marked

IsPhaseManaged(p) == p \in marked \/ UuidOf[p] \in managedKeys

\* A model of unknown ownership counts as busy.
Busy == active \cup owned \cup queued \cup Opaque
PriorStageIdle(p) == InnerOf[p] \notin Busy

NeedsDynamicRelease(p) == InnerOf[p] \in onGpu

-----------------------------------------------------------------------------
(* ComfyUI and the workflow.                                               *)

\* A node begins; when it ends reset_cast_buffers clears the active flags.
BeginNode ==
  /\ phase = "rest" /\ phase' = "node"
  /\ UNCHANGED <<models, marks, usage, onGpu, request, todo, history>>

EndNode ==
  /\ phase \in {"node", "failed"} /\ phase' = "rest"
  /\ active' = {} /\ request' = {} /\ spared' = {} /\ refused' = {}
  /\ UNCHANGED <<models, marks, owned, queued, onGpu, todo>>

\* mark_phase_managed, at the end of the Optimize node.
MarkPhaseManaged(p) ==
  /\ phase = "node" /\ p \in Sampled \ marked
  /\ marked' = marked \cup {p} /\ managedKeys' = managedKeys \cup {UuidOf[p]}
  /\ UNCHANGED <<phase, models, usage, onGpu, request, todo, history>>

\* A node computes with a model: its pages are on the GPU, and a prefetch of
\* them may outlive the computation.
UseModel(p) ==
  /\ phase = "node" /\ p \in loaded \cap Dynamic
  /\ active' = active \cup {InnerOf[p]}
  /\ onGpu' = onGpu \cup {InnerOf[p]}
  /\ queued' \in {queued, queued \cup {InnerOf[p]}}
  /\ UNCHANGED <<phase, models, marks, owned, request, todo, history>>

\* The child a LoadedModel referred to is collected and its parent stands in.
ParentStandsIn(p, q) ==
  /\ phase = "rest" /\ p \in loaded /\ q \notin loaded /\ UuidOf[q] = UuidOf[p]
  /\ loaded' = (loaded \ {p}) \cup {q}
  /\ used' = IF p \in used THEN (used \ {p}) \cup {q} ELSE used
  /\ UNCHANGED <<phase, marks, usage, onGpu, request, todo, history>>

\* The load itself: clones give way, and models of an earlier phase may keep
\* the flag that says they are in use.
UpstreamLoad ==
  /\ phase = "upstream"
  /\ LET wanted == Needed(request)
         inners == {InnerOf[p] : p \in wanted}
     IN  /\ loaded' = {p \in loaded : InnerOf[p] \notin inners} \cup wanted
         /\ used' \in {wanted, {p \in used : InnerOf[p] \notin inners} \cup wanted}
  /\ phase' = "node" /\ request' = {} /\ spared' = {} /\ refused' = {}
  /\ UNCHANGED <<marks, usage, onGpu, todo>>

\* unload_model_and_clones: all clones go, or none.  A page that is pinned
\* stays where it is.
FullDetach(p) ==
  \/ /\ Clones(p) # {}
     /\ loaded' = loaded \ Clones(p) /\ used' = used \ Clones(p)
     /\ onGpu' = onGpu \ ({InnerOf[p]} \ (owned \cup queued))
  \/ UNCHANGED <<models, onGpu>>

-----------------------------------------------------------------------------
(* guarded_load_models_gpu.                                                *)

\* The models H3 shares the GPU with, for a load that asks for a managed one.
PriorStage(S) ==
  IF \A p \in S : ~IsPhaseManaged(p) THEN {}
  ELSE LET keys == RequestedModelKeys(S) \cup
                     KeysOf({p \in loaded \cap Dynamic : ~PriorStageIdle(p)})
       IN  {p \in loaded \cap Dynamic : ~IsPhaseManaged(p) /\ ~Protected(p, keys)}

BeginLoad(S) ==
  /\ phase = "node" /\ S # {}
  /\ request' = S /\ todo' = PriorStage(S) /\ spared' = Busy
  /\ phase' = "prior"
  /\ UNCHANGED <<models, marks, usage, onGpu, refused>>

\* A model that went with a clone of it is passed over; one that a detach
\* leaves loaded fails the load.
ReleasePriorStage(p) ==
  /\ phase = "prior" /\ p \in todo
  /\ IF p \in loaded THEN FullDetach(p) ELSE UNCHANGED <<models, onGpu>>
  /\ IF p \in loaded' THEN phase' = "failed" /\ todo' = {}
     ELSE phase' = phase /\ todo' = todo \ {p}
  /\ UNCHANGED <<marks, usage, request, history>>

Stale == {p \in loaded : /\ IsPhaseManaged(p) /\ NeedsDynamicRelease(p)
                         /\ ~Protected(p, RequestedModelKeys(request))}

\* Completed prefetches let go of their pages before anything is released.
BeginStale ==
  /\ phase = "prior" /\ todo = {}
  /\ todo' = Stale /\ queued' = IF Stale = {} THEN queued ELSE {}
  /\ phase' = "stale"
  /\ UNCHANGED <<models, marks, active, owned, onGpu, request, history>>

\* Only an inactive model without a pinned page can be emptied this way.
KeepHostCopy(p) ==
  /\ InnerOf[p] \notin active \cup owned \cup queued
  /\ onGpu' = onGpu \ {InnerOf[p]}
  /\ UNCHANGED models

\* A release that is refused, raises or leaves something falls back to the
\* full detach, whose outcome is not looked at.
ReleaseStale(p) ==
  /\ phase = "stale" /\ p \in todo /\ todo' = todo \ {p}
  /\ \/ KeepHostCopy(p) /\ refused' = refused
     \/ FullDetach(p) /\ refused' = refused \cup (Clones(p) \cap loaded')
  /\ UNCHANGED <<phase, marks, usage, request, spared>>

EndStale ==
  /\ phase = "stale" /\ todo = {} /\ phase' = "upstream"
  /\ UNCHANGED <<models, marks, usage, onGpu, request, todo, history>>

-----------------------------------------------------------------------------
(* begin_h3_forward.                                                       *)

Candidates(S) ==
  {p \in loaded \cap Dynamic : PriorStageIdle(p) /\ ~Protected(p, RequestedModelKeys(S))}

\* The guard around a forward of the managed model h.
BeginForward(h) ==
  /\ phase = "node" /\ h \in loaded \cap used /\ IsPhaseManaged(h)
  /\ request' = used /\ todo' = Candidates(used) /\ spared' = Busy
  /\ queued' = IF Candidates(used) = {} THEN queued ELSE {}
  /\ phase' = "clearing"
  /\ UNCHANGED <<models, marks, active, owned, onGpu, refused>>

\* Mutant: that the model is gone is not verified.
ReleaseCandidateUnverified(p) ==
  /\ phase = "clearing" /\ p \in todo /\ todo' = todo \ {p}
  /\ FullDetach(p)
  /\ UNCHANGED <<phase, marks, usage, request, history>>

\* A candidate that already went with a clone is detached once more.
ReleaseCandidate(p) ==
  /\ phase = "clearing" /\ p \in todo
  /\ FullDetach(p)
  /\ IF p \in loaded' THEN phase' = "failed" /\ todo' = {}
     ELSE phase' = phase /\ todo' = todo \ {p}
  /\ UNCHANGED <<marks, usage, request, history>>

EnterForward ==
  /\ phase = "clearing" /\ todo = {} /\ phase' = "forward"
  /\ UNCHANGED <<models, marks, usage, onGpu, request, todo, history>>

\* The forward uses the pages of H3 and returns, or fails with its node.
LeaveForward ==
  /\ phase = "forward" /\ phase' \in {"node", "failed"}
  /\ request' = {} /\ spared' = {}
  /\ UNCHANGED <<models, marks, usage, onGpu, todo, refused>>

GuardStep ==
  \/ UpstreamLoad \/ BeginStale \/ EndStale \/ EnterForward
  \/ \E p \in Patcher : \/ MarkPhaseManaged(p) \/ BeginForward(p)
                       \/ ReleasePriorStage(p) \/ ReleaseStale(p) \/ ReleaseCandidate(p)

-----------------------------------------------------------------------------
(* Properties.                                                             *)

\* A release never takes what is still needed: neither a model that the load
\* or the running forward asked for, directly or through models it brings
\* along, nor, where an earlier phase is cleared, one whose pages are in use:
\* _requested_model_keys and _prior_stage_idle.
NeededKept ==
  [][\A p \in loaded \ loaded' : phase \in {"prior", "stale", "clearing"} =>
       /\ ~Protected(p, KeysOf(Needed(request)))
       /\ phase # "stale" => InnerOf[p] \notin Busy]_release

\* When ComfyUI begins to load, an H3 model of an earlier prompt that the load
\* does not ask for is off the GPU, under whichever patcher the list knows it,
\* unless its full detach was tried in vain: the reason for the load guard.
StaleReleased ==
  phase = "upstream" =>
    \A p \in loaded :
      (\E h \in marked : UuidOf[h] = UuidOf[p]) /\ InnerOf[p] \in onGpu =>
        Protected(p, KeysOf(Needed(request))) \/ p \in refused

\* While H3 computes, and when a load of H3 begins, no other dynamic model is
\* loaded that neither is needed nor was busy when the guard looked:
\* begin_h3_forward and _release_before_h3_load.
RoomForSampling ==
  \/ phase = "forward"
  \/ phase = "stale" /\ \E h \in request : IsPhaseManaged(h)
  => LET keys == KeysOf(Needed(request))
     IN  \A p \in loaded \cap Dynamic :
           \/ InnerOf[p] \in spared \/ Protected(p, keys)
           \/ phase = "stale" /\ IsPhaseManaged(p)
=============================================================================
