----------------------------- MODULE Projection -----------------------------
(***************************************************************************)
(* The chunked Q/K/V and output projections of h3_mixed_precision.py       *)
(* (_qkv_projection, _out_projection): make room, try to cast the weight   *)
(* once for all chunks, and when that runs out of memory start again with  *)
(* a cast per chunk and fresh outputs.                                     *)
(*                                                                         *)
(* Abstracted: a chunk of the output is what its weight was when it was    *)
(* computed.  Calls that record gradients are left out.                    *)
(***************************************************************************)
EXTENDS WeightCast

CONSTANTS
  MaxChunks,      \* bound: chunks of a call
  Output,         \* units the outputs of a call take
  Reserve,        \* qkv_native_reserve_bytes
  ReuseFloor,     \* _PROJECTION_WEIGHT_REUSE_DRIVER_FLOOR_MIB
  TrimTarget,     \* the trim before an output projection
  SmallTrim,      \* minimum_reclaimable_mib of the projections' own requests
  LargeTrim       \* and of the trim before an output projection

ASSUME ProjectionAssumption ==
  /\ MaxChunks \in Nat \ {0} /\ Output \in Nat \ {0}
  /\ Reserve \in Nat /\ ReuseFloor \in Nat /\ TrimTarget \in Nat
  /\ SmallTrim \in Nat /\ LargeTrim \in Nat

VARIABLES
  stage,      \* where the call stands
  weight,     \* the weight it projects with
  chunks,     \* its number of chunks
  reuse,      \* the options ask for one cast for all chunks
  native,     \* the outputs are allocated with recovery
  prepared,   \* one cast serves all chunks
  chunk,      \* the chunk at work
  held,       \* units of outputs allocated so far
  rows,       \* what each chunk of the current outputs was computed with
  failure     \* what was raised

options == <<weight, chunks, reuse, native>>
attempt == <<prepared, chunk, rows, failure>>
projection == <<stage, options, attempt, held>>

Faults == {"memory", "other"}
Unwritten == [c \in 1..MaxChunks |-> "unwritten"]
Running == stage \notin {"idle", "returned", "raised"}

ProjectionInit ==
  /\ stage = "idle" /\ weight \in Weights /\ chunks = 1
  /\ reuse = FALSE /\ native = FALSE /\ prepared = FALSE
  /\ chunk = 1 /\ held = 0 /\ rows = Unwritten /\ failure = "none"

To(next) == stage' = next

Forget ==
  /\ chunks' = 1 /\ reuse' = FALSE /\ native' = FALSE /\ prepared' = FALSE
  /\ chunk' = 1 /\ rows' = Unwritten /\ failure' = "none"

-----------------------------------------------------------------------------
(* The way into a call.                                                    *)

\* Between calls other tensors take and leave memory.  A short call is one
\* chunk: it neither reserves memory nor prepares its weight.
BeginCall(w, n, wants, recovers) ==
  /\ stage = "idle" /\ (n = 1 => ~wants /\ ~recovers)
  /\ weight' = w /\ chunks' = n /\ reuse' = wants /\ native' = recovers
  /\ prepared' = FALSE /\ chunk' = 1 /\ rows' = Unwritten /\ failure' = "none"
  /\ free' \in 0..(Memory - PageSize * Cardinality(Loaded))
  /\ cache' \in 0..(Memory - PageSize * Cardinality(Loaded) - free')
  /\ stage' \in IF n = 1 THEN {"fault"} ELSE IF recovers THEN {"native"} ELSE {"trim", "reuse"}
  /\ UNCHANGED <<cooldown, pages, held>>

MakeRoom ==
  /\ \/ stage = "native" /\ RequestCudaHeadroom(Reserve, SmallTrim, TRUE)
     \/ stage = "trim" /\ RequestCudaHeadroom(TrimTarget, LargeTrim, FALSE)
  /\ To("reuse")
  /\ UNCHANGED <<options, attempt, held>>

\* _projection_reuse_allowed, on the reading of the request before.
DecideReuse ==
  /\ stage = "reuse"
  /\ IF reuse /\ free < ReuseFloor THEN RequestCudaHeadroom(ReuseFloor, SmallTrim, FALSE)
     ELSE UNCHANGED <<memory, pages>>
  /\ prepared' = (reuse /\ free' >= ReuseFloor)
  /\ To("fault")
  /\ UNCHANGED <<options, chunk, rows, failure, held>>

-----------------------------------------------------------------------------
(* Casts and chunks.                                                       *)

\* _projection_weight_context refuses some modules before it casts.
ReuseUnsupported ==
  /\ stage = "fault" /\ prepared
  /\ prepared' = FALSE
  /\ UNCHANGED <<memory, pages, stage, options, chunk, rows, failure, held>>

BeginCast ==
  /\ stage = "fault" /\ Fault(weight)
  /\ To("fill")
  /\ UNCHANGED <<options, attempt, held>>

EndCast ==
  /\ stage = "fill" /\ Fill(weight)
  /\ To(IF prepared /\ native THEN "allocate" ELSE "linear")
  /\ UNCHANGED <<memory, options, attempt, held>>

\* A cast of its own ends with the chunk it was for.
Linear ==
  /\ stage = "linear"
  /\ rows' = [rows EXCEPT ![chunk] = IF prefetch[weight].paged THEN data[weight] ELSE "complete"]
  /\ IF prepared THEN UNCHANGED pages ELSE Uncast(weight)
  /\ To(IF held = 0 /\ chunks > 1 THEN "allocate" ELSE "write")
  /\ UNCHANGED <<memory, options, prepared, chunk, failure, held>>

\* Outputs are allocated before the chunks of a prepared native call, and
\* otherwise when the first chunk is there.
Allocated ==
  /\ stage \in {"allocate", "retry"} /\ Allocate(Output)
  /\ held' = Output
  /\ To(IF rows[1] = "unwritten" THEN "linear" ELSE "write")
  /\ UNCHANGED <<pages, options, attempt>>

\* allocate_with_recovery asks for room once.
AllocationFails ==
  /\ stage = "allocate" /\ native /\ OutOfMemory(Output)
  /\ To("recover")
  /\ UNCHANGED <<memory, pages, options, attempt, held>>

\* Mutant: the pages of weights are not asked to leave.
RecoverCacheOnly ==
  /\ stage = "recover" /\ RequestCudaHeadroom(Output, 0, FALSE)
  /\ To("retry")
  /\ UNCHANGED <<options, attempt, held>>

RecoverAllocation ==
  /\ stage = "recover" /\ RequestCudaHeadroom(Output, 0, TRUE)
  /\ To("retry")
  /\ UNCHANGED <<options, attempt, held>>

NextChunk ==
  /\ stage = "write"
  /\ IF chunk < chunks
       THEN chunk' = chunk + 1 /\ To(IF prepared THEN "linear" ELSE "fault")
       ELSE chunk' = chunk /\ To("close")
  /\ UNCHANGED <<memory, pages, options, prepared, rows, failure, held>>

\* The context of a prepared weight ends before the result is returned.
Return ==
  /\ stage = "close"
  /\ IF prepared THEN Uncast(weight) ELSE UNCHANGED pages
  /\ To("returned")
  /\ UNCHANGED <<memory, options, attempt, held>>

-----------------------------------------------------------------------------
(* Failures.                                                               *)

\* Where an Exception comes from: the fault, the copy or the merge, the allocator
\* or the product.  owned_casts sees no other kind, and none is modelled.
Raise ==
  /\ \/ stage = "fault" /\ failure' = "memory"
     \/ stage \in {"fill", "linear"} /\ failure' \in Faults
     \/ stage = "allocate" /\ ~native /\ OutOfMemory(Output) /\ failure' = "memory"
     \/ stage = "retry" /\ OutOfMemory(Output) /\ failure' = "memory"
  /\ To(IF stage = "fill" \/ (stage = "linear" /\ ~prepared) THEN "abandon"
        ELSE IF stage # "fault" /\ prepared THEN "exit" ELSE "unwind")
  /\ UNCHANGED <<memory, pages, options, prepared, chunk, rows, held>>

\* A prepared weight's context is left; where the cast itself or the module's
\* own call died there is none to leave, and owned_casts cleans up.
CleanUp ==
  /\ \/ stage = "exit" /\ Uncast(weight)
     \/ stage = "abandon" /\ Abandon(weight)
  /\ To("unwind")
  /\ UNCHANGED <<memory, options, attempt, held>>

\* Memory ran out under a prepared weight: outputs are dropped, the cache
\* emptied, and the chunks start over with a cast each.
StartOver ==
  /\ stage = "unwind" /\ prepared /\ failure = "memory"
  /\ free' = free + cache + held /\ cache' = 0 /\ held' = 0
  /\ prepared' = FALSE /\ chunk' = 1 /\ rows' = Unwritten /\ failure' = "none"
  /\ To("fault")
  /\ UNCHANGED <<cooldown, pages, options>>

Propagate ==
  /\ stage = "unwind" /\ ~(prepared /\ failure = "memory")
  /\ To("raised")
  /\ UNCHANGED <<memory, pages, options, attempt, held>>

\* The caller is done with the outputs, and nothing of the call remains.
EndCall ==
  /\ stage \in {"returned", "raised"}
  /\ held' = 0 /\ cache' = cache + held
  /\ To("idle") /\ Forget
  /\ UNCHANGED <<free, cooldown, pages, weight>>

\* The only check that the cooldown can silence belongs to the MLP.
MlpFloor ==
  /\ stage = "idle" /\ CheckFloor
  /\ UNCHANGED projection

ProjectionStep ==
  \/ MakeRoom \/ DecideReuse \/ ReuseUnsupported \/ BeginCast \/ EndCast
  \/ Linear \/ Allocated \/ AllocationFails \/ RecoverAllocation \/ NextChunk \/ Return
  \/ Raise \/ CleanUp \/ StartOver \/ Propagate

ProjectionNext ==
  \/ \E w \in Weights, n \in 1..MaxChunks, wants, recovers \in BOOLEAN :
       BeginCall(w, n, wants, recovers)
  \/ ProjectionStep \/ EndCall \/ MlpFloor

ProjectionSpec ==
  /\ WeightInit /\ ProjectionInit
  /\ [][ProjectionNext]_<<memory, pages, projection>>

-----------------------------------------------------------------------------
(* Properties.                                                             *)

\* Every chunk of a returned projection was computed with a weight that was
\* copied and merged to its end, whatever casts of that weight failed before,
\* in this call or an earlier one: _v_signature of cast_failure_cleanup.py and
\* the fallback of _qkv_projection.
CompleteWeightsUsed ==
  stage = "returned" => \A c \in 1..chunks : rows[c] = "complete"

\* Between calls no weight of the model keeps a page pinned or a cast open, so
\* that the page may be evicted and the model released: owned_casts.
CastsReleased ==
  ~Running => pinned = {} /\ \A w \in Weights : ~Open(w)

\* The second allocation of allocate_with_recovery fails only when nothing is
\* left to reclaim: no inactive block and no page that is not pinned.
RetryExhaustsMemory ==
  [][stage = "retry" /\ stage' \in {"unwind", "exit"} => cache = 0 /\ Evictable = {}]_stage
=============================================================================
