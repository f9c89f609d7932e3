--------------------------- MODULE DualAttention ---------------------------
(***************************************************************************)
(* The dual-GPU attention route of dual_attention.py: sampler threads that *)
(* try a process-wide run lock, admit a device pair, stage through one     *)
(* pinned host pool per state object, hand work to the state's executor    *)
(* threads, overwrite the attention target range by range, and recover     *)
(* from a failed dual run by rebuilding the block input on one GPU.        *)
(*                                                                         *)
(* Abstracted: tensors (a target row range is untouched, or holds the sum  *)
(* of a primary and a secondary half), byte counts (a pool is the staging  *)
(* size it was built for; live capacity is a free choice) and the ranking  *)
(* of feasible device pairs (any unblocked pair may win).  The             *)
(* cudaMallocAsync graph route has the same lock and transaction frame and *)
(* is left out.                                                            *)
(***************************************************************************)
EXTENDS Naturals, FiniteSets

CONSTANTS
  Threads,      \* threads that run the sampler
  NoThread,     \* the run lock is free
  States,       \* DualExactAttentionState objects: one per patched model
  Owner,        \* Owner[t]: the state object the model of thread t carries
  Secondaries,  \* V100s eligible to be the second device
  NoDevice,     \* no secondary chosen, no lease
  Shapes,       \* attention calls: token count, width, route and audio rows
  Signature,    \* Signature[s]: the part of s a failure key keeps
  Sol,          \* shapes on the sparse Sol route; the others run exact
  Long,         \* exact shapes long enough for a balanced lease
  LeaseKey,     \* LeaseKey[s]: the part of s a lease key keeps, not the route
  PoolNeed,     \* PoolNeed[s]: staging size the admission of s asks for
  Ranges,       \* query ranges of one attention call
  RESOURCE_REPROBES_PER_SAMPLE,
  MaxSamples,   \* bound: samples one thread runs
  MaxBlocks     \* bound: attention blocks of one sample

ASSUME DualAssumption ==
  /\ NoThread \notin Threads
  /\ NoDevice \notin Secondaries
  /\ Owner \in [Threads -> States]
  /\ DOMAIN Signature = Shapes
  /\ DOMAIN LeaseKey = Shapes
  /\ Sol \subseteq Shapes
  /\ Long \subseteq Shapes \ Sol /\ IsFiniteSet(Long)
  /\ PoolNeed \in [Shapes -> Nat \ {0}]
  /\ Ranges \in Nat \ {0}
  /\ RESOURCE_REPROBES_PER_SAMPLE \in Nat
  /\ MaxSamples \in Nat
  /\ MaxBlocks \in Nat

\* _failure_key keeps the token count and the route, which decide whether a
\* call is long and exact; _balanced_lease_key keeps all a failure key keeps
\* but the route, and more.
ASSUME KeyAssumption ==
  /\ \A r \in Long, s \in Shapes : Signature[r] = Signature[s] => s \in Long
  /\ \A r, s \in Long : LeaseKey[r] = LeaseKey[s] => Signature[r] = Signature[s]

VARIABLES
  pc,        \* where each thread stands
  samples,   \* samples each thread has begun
  blocks,    \* blocks begun in the current sample
  lock,      \* _DUAL_RUN_LOCK
  pool,      \* _pool of each state: the size it was built for, 0 is None
  partial,   \* who last wrote pool.partial, and for which range
  disabled,  \* _disabled_signatures of each state
  failures,  \* thread-local failures of each thread
  reprobes,  \* thread-local resource_reprobes: count and live ticket
  leases,    \* thread-local wddm_balanced_leases: secondary per lease key
  shape,     \* the attention call a thread is in
  secondary, \* the secondary its admission selected
  phase,     \* which futures a dual run is waiting for
  future,    \* its futures on the executor, by device half
  cuda,      \* cuda_started
  fault,     \* what left the try block of run
  written,   \* target ranges already overwritten
  torn,      \* some range added two halves of different ranges
  recovery,  \* on_recovery: the ticket its closure captured, 0 is None
  result     \* how the block's attention output was computed

memory == <<pool, partial>>
quarantine == <<disabled, failures, reprobes>>
operation == <<phase, future, cuda, fault, written, torn>>
call == <<shape, secondary, recovery, result>>
budget == <<samples, blocks>>
vars == <<pc, budget, lock, memory, quarantine, leases, call, operation>>

Halves == {"primary", "secondary"}
Kinds == {"resource", "probe", "other", "fatal", "interrupt"}
Keys == Secondaries \X {Signature[s] : s \in Shapes}
LeaseKeys == {LeaseKey[s] : s \in Shapes}
LargerOf(a, b) == IF a > b THEN a ELSE b
NoReprobe == [count |-> 0, ticket |-> 0]
Idle == [h \in Halves |-> "idle"]

\* _failure_key of the pair and call thread t runs, had it chosen device d.
KeyOn(t, d) == <<d, Signature[shape[t]]>>
FailureKey(t) == KeyOn(t, secondary[t])
Quarantined(t, k) == k \in disabled[Owner[t]] \cup failures[t]

\* Stages in which the thread is inside the locked part of run.
Executing == {"staging", "joining"}
Locked == {"admitting", "preparing", "cleanup", "dropping"} \cup Executing
InBlock == (Locked \ {"dropping"}) \cup {"forward", "retry", "single", "mlp"}

Init ==
  /\ pc = [t \in Threads |-> "idle"]
  /\ samples = [t \in Threads |-> 0]
  /\ blocks = [t \in Threads |-> 0]
  /\ lock = NoThread
  /\ pool = [o \in States |-> 0]
  /\ partial = [o \in States |-> <<NoThread, 0>>]
  /\ disabled = [o \in States |-> {}]
  /\ failures = [t \in Threads |-> {}]
  /\ reprobes = [t \in Threads |-> [k \in Keys |-> NoReprobe]]
  /\ leases = [t \in Threads |-> [l \in LeaseKeys |-> NoDevice]]
  /\ shape \in [Threads -> Shapes]
  /\ secondary = [t \in Threads |-> NoDevice]
  /\ phase = [t \in Threads |-> "none"]
  /\ future = [t \in Threads |-> Idle]
  /\ cuda = [t \in Threads |-> FALSE]
  /\ fault = [t \in Threads |-> "none"]
  /\ written = [t \in Threads |-> 0]
  /\ torn = [t \in Threads |-> FALSE]
  /\ recovery = [t \in Threads |-> 0]
  /\ result = [t \in Threads |-> "none"]

Goto(t, to) == pc' = [pc EXCEPT ![t] = to]

-----------------------------------------------------------------------------
(* The sample wrapper and the block around the attention call.             *)

\* dual_exact_attention_outer_sample_wrapper: begin_sample clears what this
\* thread learned in its previous sample; _disabled_signatures survive.
BeginSample(t) ==
  /\ pc[t] = "idle" /\ samples[t] < MaxSamples
  /\ Goto(t, "sampling")
  /\ samples' = [samples EXCEPT ![t] = @ + 1]
  /\ blocks' = [blocks EXCEPT ![t] = 0]
  /\ failures' = [failures EXCEPT ![t] = {}]
  /\ reprobes' = [reprobes EXCEPT ![t] = [k \in Keys |-> NoReprobe]]
  /\ leases' = [leases EXCEPT ![t] = [l \in LeaseKeys |-> NoDevice]]
  /\ UNCHANGED <<lock, memory, disabled, call, operation>>

\* A block builds a fresh h and calls its attention with it.
EnterBlock(t) ==
  /\ pc[t] = "sampling" /\ blocks[t] < MaxBlocks
  /\ Goto(t, "forward")
  /\ blocks' = [blocks EXCEPT ![t] = @ + 1]
  /\ \E s \in Shapes : shape' = [shape EXCEPT ![t] = s]
  /\ UNCHANGED <<samples, lock, memory, quarantine, leases, secondary, recovery,
                 result, operation>>

\* make_dual_attention_forward: a bypass reason, or a Sol owner that is not a
\* dual route, goes to single_attention without touching the state object.
BypassDual(t) ==
  /\ pc[t] = "forward"
  /\ Goto(t, "single")
  /\ UNCHANGED <<budget, lock, memory, quarantine, leases, call, operation>>

\* The frame's locals die when the block returns or raises.
ForgetCall(t) ==
  /\ secondary' = [secondary EXCEPT ![t] = NoDevice]
  /\ recovery' = [recovery EXCEPT ![t] = 0]
  /\ result' = [result EXCEPT ![t] = "none"]
  /\ written' = [written EXCEPT ![t] = 0]
  /\ torn' = [torn EXCEPT ![t] = FALSE]
  /\ UNCHANGED shape

\* _allow_resource_reprobe: the current ticket is consumed and the key leaves
\* failures, unless the ticket was superseded or the key was disabled since.
AllowResourceReprobe(t, k) ==
  IF /\ reprobes[t][k].ticket = recovery[t]
     /\ k \notin disabled[Owner[t]]
     /\ k \in failures[t]
  THEN /\ reprobes' = [reprobes EXCEPT ![t][k].ticket = 0]
       /\ failures' = [failures EXCEPT ![t] = @ \ {k}]
       /\ UNCHANGED disabled
  ELSE UNCHANGED quarantine

\* Mutant: on_recovery runs whatever computed the block and before the MLP.
RebuildInputRecovers(t) ==
  /\ pc[t] = "retry"
  /\ Goto(t, "single")
  /\ IF recovery[t] = 0 THEN UNCHANGED quarantine
     ELSE AllowResourceReprobe(t, FailureKey(t))
  /\ written' = [written EXCEPT ![t] = 0]
  /\ torn' = [torn EXCEPT ![t] = FALSE]
  /\ UNCHANGED <<budget, lock, memory, leases, call, phase, future, cuda, fault>>

\* Mutant: the fallback gets the h the failed dual run has written to.
RebuildInputReusesTarget(t) ==
  /\ pc[t] = "retry"
  /\ Goto(t, "single")
  /\ UNCHANGED <<budget, lock, memory, quarantine, leases, call, operation>>

\* The block drops the half-written h, rebuilds it and calls fallback itself.
RebuildInput(t) ==
  /\ pc[t] = "retry"
  /\ Goto(t, "single")
  /\ written' = [written EXCEPT ![t] = 0]
  /\ torn' = [torn EXCEPT ![t] = FALSE]
  /\ UNCHANGED <<budget, lock, memory, quarantine, leases, call, phase, future,
                 cuda, fault>>

\* single_attention reads the whole target: its result is the block's only
\* if nothing overwrote a row before.
SingleCompletes(t) ==
  /\ pc[t] = "single"
  /\ Goto(t, "mlp")
  /\ result' = [result EXCEPT ![t] = IF written[t] = 0 THEN "single" ELSE "corrupt"]
  /\ UNCHANGED <<budget, lock, memory, quarantine, leases, shape, secondary,
                 recovery, operation>>

\* The MLP half is done: on_recovery runs only now, after a completed block.
FinishBlock(t) ==
  /\ pc[t] = "mlp"
  /\ Goto(t, "sampling")
  /\ IF recovery[t] = 0 THEN UNCHANGED quarantine
     ELSE AllowResourceReprobe(t, FailureKey(t))
  /\ ForgetCall(t)
  /\ UNCHANGED <<budget, lock, memory, leases, phase, future, cuda, fault>>

\* Mutant: an exception skips the sample wrapper's finally.
BlockRaisesPastWrapper(t) ==
  /\ pc[t] \in {"retry", "single", "mlp"}
  /\ Goto(t, "idle")
  /\ ForgetCall(t)
  /\ UNCHANGED <<budget, lock, memory, quarantine, leases, phase, future, cuda, fault>>

\* Rebuilding, the single-device path or the MLP raises: the sample is over.
BlockRaises(t) ==
  /\ pc[t] \in {"retry", "single", "mlp"}
  /\ Goto(t, "ending")
  /\ ForgetCall(t)
  /\ UNCHANGED <<budget, lock, memory, quarantine, leases, phase, future, cuda, fault>>

EndSample(t) ==
  /\ pc[t] = "sampling"
  /\ Goto(t, "ending")
  /\ UNCHANGED <<budget, lock, memory, quarantine, leases, call, operation>>

\* Mutant: the pool is dropped without trying the lock.
TryReleasePoolUnlocked(t) ==
  /\ pc[t] = "ending"
  /\ Goto(t, "idle")
  /\ pool' = [pool EXCEPT ![Owner[t]] = 0]
  /\ UNCHANGED <<budget, lock, partial, quarantine, leases, call, operation>>

\* release_host_pool, first half: the lock is tried once and given up on.
TryReleasePool(t) ==
  /\ pc[t] = "ending"
  /\ IF lock = NoThread THEN lock' = t /\ Goto(t, "dropping")
     ELSE Goto(t, "idle") /\ UNCHANGED lock
  /\ UNCHANGED <<budget, memory, quarantine, leases, call, operation>>

\* release_host_pool, second half.
DropPool(t) ==
  /\ pc[t] = "dropping"
  /\ Goto(t, "idle")
  /\ pool' = [pool EXCEPT ![Owner[t]] = 0]
  /\ lock' = NoThread
  /\ UNCHANGED <<budget, partial, quarantine, leases, call, operation>>

-----------------------------------------------------------------------------
(* run: the lock, admission and the host pool.                             *)

\* A held lock sends the call to the single-device path at once.
TryLock(t) ==
  /\ pc[t] = "forward"
  /\ IF lock = NoThread THEN lock' = t /\ Goto(t, "admitting")
     ELSE Goto(t, "single") /\ UNCHANGED lock
  /\ UNCHANGED <<budget, memory, quarantine, leases, call, operation>>

Lease(t) == leases[t][LeaseKey[shape[t]]]

DropLease(t) == leases' = [leases EXCEPT ![t][LeaseKey[shape[t]]] = NoDevice]

\* A lease that does not validate is popped; only long exact shapes ask.
DropStaleLease(t) == IF shape[t] \in Long THEN DropLease(t) ELSE UNCHANGED leases

\* _validated_balanced_lease succeeds: the pool matches and live capacity is
\* still enough.  The leased plan is enabled and fits, so CUDA work starts.
UseLease(t) ==
  /\ pc[t] = "admitting"
  /\ shape[t] \in Long /\ Lease(t) # NoDevice
  /\ pool[Owner[t]] >= PoolNeed[shape[t]]
  /\ secondary' = [secondary EXCEPT ![t] = Lease(t)]
  /\ cuda' = [cuda EXCEPT ![t] = TRUE]
  /\ Goto(t, "staging")
  /\ UNCHANGED <<budget, lock, memory, quarantine, leases, shape, recovery, result,
                 phase, future, fault, written, torn>>

\* Mutant: only the permanently disabled signatures block a secondary.
SelectSecondaryAfterFailure(t) ==
  /\ pc[t] = "admitting"
  /\ \E d \in Secondaries :
       /\ KeyOn(t, d) \notin disabled[Owner[t]]
       /\ secondary' = [secondary EXCEPT ![t] = d]
  /\ DropStaleLease(t)
  /\ Goto(t, "preparing")
  /\ UNCHANGED <<budget, lock, memory, quarantine, shape, recovery, result, operation>>

\* _select_admission: any secondary whose key is not quarantined may rank
\* first.
SelectSecondary(t) ==
  /\ pc[t] = "admitting"
  /\ \E d \in Secondaries :
       /\ ~Quarantined(t, KeyOn(t, d))
       /\ secondary' = [secondary EXCEPT ![t] = d]
  /\ DropStaleLease(t)
  /\ Goto(t, "preparing")
  /\ UNCHANGED <<budget, lock, memory, quarantine, shape, recovery, result, operation>>

\* Every secondary is quarantined, ineligible or could not be probed: runtime
\* stays None, the lock is released and the call falls back.
NotAdmitted(t) ==
  /\ pc[t] = "admitting"
  /\ lock' = NoThread
  /\ DropStaleLease(t)
  /\ Goto(t, "single")
  /\ UNCHANGED <<budget, memory, quarantine, call, operation>>

\* Any other error of a probe leaves run and the block; the lock is released.
AdmissionRaises(t) ==
  /\ pc[t] = "admitting"
  /\ lock' = NoThread
  /\ UNCHANGED leases \/ DropStaleLease(t)
  /\ Goto(t, "ending")
  /\ UNCHANGED <<budget, memory, quarantine, call, operation>>

\* _ensure_pool and the renewed prepare: the pool is kept or built anew for
\* this shape, and the plan that goes with it is enabled and fits the pool,
\* or the transaction is left by _DualAdmissionFallback.
PreparePool(t) ==
  /\ pc[t] = "preparing"
  /\ \E size \in {pool[Owner[t]], PoolNeed[shape[t]]} :
       /\ pool' = [pool EXCEPT ![Owner[t]] = size]
       /\ \/ /\ size >= PoolNeed[shape[t]]
             /\ cuda' = [cuda EXCEPT ![t] = TRUE]
             /\ Goto(t, "staging")
             /\ UNCHANGED <<fault, leases>>
          \/ /\ fault' = [fault EXCEPT ![t] = "rejected"]
             /\ DropLease(t)
             /\ Goto(t, "cleanup")
             /\ UNCHANGED cuda
  /\ UNCHANGED <<budget, lock, partial, quarantine, call, phase, future, written, torn>>

-----------------------------------------------------------------------------
(* run: the dual computation.                                              *)

\* Device halves whose future a phase waits for.  The Sol projection keeps
\* its primary half on the calling thread.
Awaited(s, p) ==
  IF p = "range" \/ (p = "qkv" /\ s \in Sol) THEN {"secondary"} ELSE Halves

Launched(s, p) ==
  [h \in Halves |-> IF h \in Awaited(s, p) THEN "running" ELSE "idle"]

NextPhase(s, p) ==
  CASE p = "none" -> "qkv"
    [] p = "qkv" -> "audio"
    [] p = "audio" -> IF s \in Sol THEN "stream" ELSE "range"
    [] OTHER -> "range"

Submit(t) ==
  LET p == NextPhase(shape[t], phase[t]) IN
  /\ phase' = [phase EXCEPT ![t] = p]
  /\ future' = [future EXCEPT ![t] = Launched(shape[t], p)]

\* Weights, input and RoPE are staged through the pool, then the projection
\* futures are submitted.
StageInputs(t) ==
  /\ pc[t] = "staging"
  /\ Goto(t, "joining")
  /\ Submit(t)
  /\ UNCHANGED <<budget, lock, memory, quarantine, leases, call, cuda, fault,
                 written, torn>>

\* An executor thread ends one future; a range future leaves its half of the
\* range in pool.partial before it returns.
WorkerEnds(t, h) ==
  /\ future[t][h] = "running"
  /\ \/ /\ future' = [future EXCEPT ![t][h] = "error"]
        /\ UNCHANGED partial
     \/ /\ future' = [future EXCEPT ![t][h] = "ok"]
        /\ IF phase[t] = "range"
           THEN partial' = [partial EXCEPT ![Owner[t]] = <<t, written[t] + 1>>]
           ELSE UNCHANGED partial
  /\ UNCHANGED <<pc, budget, lock, pool, quarantine, leases, call, phase, cuda,
                 fault, written, torn>>

Delivered(t) == \A h \in Awaited(shape[t], phase[t]) : future[t][h] = "ok"

\* Both halves of a preparatory phase arrived: the next phase is submitted.
JoinPhase(t) ==
  /\ pc[t] = "joining" /\ phase[t] # "range" /\ Delivered(t)
  /\ Submit(t)
  /\ UNCHANGED <<pc, budget, lock, memory, quarantine, leases, call, cuda, fault,
                 written, torn>>

\* The primary half is added to what pool.partial holds, and the sum replaces
\* the target's rows: the next range is submitted, or the transaction commits
\* and the balanced plan is leased.
JoinRange(t) ==
  /\ pc[t] = "joining" /\ phase[t] = "range" /\ Delivered(t)
  /\ written' = [written EXCEPT ![t] = @ + 1]
  /\ torn' = [torn EXCEPT ![t] = @ \/ partial[Owner[t]] # <<t, written[t] + 1>>]
  /\ IF written[t] + 1 < Ranges
     THEN Submit(t) /\ UNCHANGED <<pc, leases>>
     ELSE /\ Goto(t, "cleanup")
          /\ future' = [future EXCEPT ![t] = Idle]
          /\ \/ UNCHANGED leases
             \/ /\ shape[t] \in Long
                /\ leases' = [leases EXCEPT ![t][LeaseKey[shape[t]]] = secondary[t]]
          /\ UNCHANGED phase
  /\ UNCHANGED <<budget, lock, memory, quarantine, call, cuda, fault>>

-----------------------------------------------------------------------------
(* run: exceptions, cleanup and the hand-over to the block.                *)

\* Mutant: the budget is compared with the failures before this one.
QuarantineLateCount(t, k, kind, preflight) ==
  LET resource == kind = "resource"
      transient == resource \/ (preflight /\ kind = "probe")
      count == reprobes[t][k].count + 1
  IN
  /\ failures' = IF transient THEN [failures EXCEPT ![t] = @ \cup {k}] ELSE failures
  /\ disabled' = IF transient THEN disabled
                 ELSE [disabled EXCEPT ![Owner[t]] = @ \cup {k}]
  /\ IF resource /\ ~preflight
     THEN /\ reprobes' = [reprobes EXCEPT ![t][k] = [count |-> count, ticket |-> count]]
          /\ recovery' = [recovery EXCEPT ![t] =
                            IF count <= RESOURCE_REPROBES_PER_SAMPLE + 1 THEN count ELSE 0]
     ELSE /\ reprobes' = [reprobes EXCEPT ![t][k].ticket = 0]
          /\ UNCHANGED recovery

\* _quarantine: allocation pressure, or a probe problem before CUDA started,
\* blocks the key for this sample; anything else disables it for good.  A
\* resource failure of a started run also opens a recovery ticket, and hands
\* it to the block while the sample's budget lasts.
Quarantine(t, k, kind, preflight) ==
  LET resource == kind = "resource"
      transient == resource \/ (preflight /\ kind = "probe")
      count == reprobes[t][k].count + 1
  IN
  /\ failures' = IF transient THEN [failures EXCEPT ![t] = @ \cup {k}] ELSE failures
  /\ disabled' = IF transient THEN disabled
                 ELSE [disabled EXCEPT ![Owner[t]] = @ \cup {k}]
  /\ IF resource /\ ~preflight
     THEN /\ reprobes' = [reprobes EXCEPT ![t][k] = [count |-> count, ticket |-> count]]
          /\ recovery' = [recovery EXCEPT ![t] =
                            IF count <= RESOURCE_REPROBES_PER_SAMPLE THEN count ELSE 0]
     ELSE /\ reprobes' = [reprobes EXCEPT ![t][k].ticket = 0]
          /\ UNCHANGED recovery

\* An exception inside the try block, from this thread or from a future it
\* waits for.  A cancellation skips every handler; a fatal device error skips
\* the quarantine; the pool may be gone when its allocation failed.
RunRaises(t, kind) ==
  /\ pc[t] \in {"preparing"} \cup Executing
  /\ Goto(t, "cleanup")
  /\ fault' = [fault EXCEPT ![t] = kind]
  /\ \E size \in IF cuda[t] THEN {pool[Owner[t]]}
                 ELSE {pool[Owner[t]], 0, PoolNeed[shape[t]]} :
       pool' = [pool EXCEPT ![Owner[t]] = size]
  /\ IF kind = "interrupt" THEN UNCHANGED leases ELSE DropLease(t)
  /\ IF kind \in {"fatal", "interrupt"} THEN UNCHANGED <<quarantine, recovery>>
     ELSE Quarantine(t, FailureKey(t), kind, ~cuda[t])
  /\ UNCHANGED <<budget, lock, partial, shape, secondary, result, phase, future,
                 cuda, written, torn>>

\* Mutant: the lock is released with futures still on the executor.
ReleaseRunEarly(t) ==
  /\ pc[t] = "cleanup"
  /\ lock' = NoThread
  /\ cuda' = [cuda EXCEPT ![t] = FALSE]
  /\ fault' = [fault EXCEPT ![t] = "none"]
  /\ UNCHANGED <<budget, memory, quarantine, leases, shape, future, phase>>

\* Mutant: cleanup waits for a result a failed future never delivers.
ReleaseRunDelivered(t) ==
  /\ pc[t] = "cleanup"
  /\ \A h \in Halves : future[t][h] \in {"idle", "ok"}
  /\ lock' = NoThread
  /\ future' = [future EXCEPT ![t] = Idle]
  /\ phase' = [phase EXCEPT ![t] = "none"]
  /\ cuda' = [cuda EXCEPT ![t] = FALSE]
  /\ fault' = [fault EXCEPT ![t] = "none"]
  /\ UNCHANGED <<budget, memory, quarantine, leases, shape>>

\* The finally block has awaited every pending future, cleared the locals and
\* synchronised both devices: it releases the lock.
ReleaseRun(t) ==
  /\ pc[t] = "cleanup"
  /\ \A h \in Halves : future[t][h] # "running"
  /\ lock' = NoThread
  /\ future' = [future EXCEPT ![t] = Idle]
  /\ phase' = [phase EXCEPT ![t] = "none"]
  /\ cuda' = [cuda EXCEPT ![t] = FALSE]
  /\ fault' = [fault EXCEPT ![t] = "none"]
  /\ UNCHANGED <<budget, memory, quarantine, leases, shape>>

\* The committed target is the block's attention output.
ReturnDual(t) ==
  /\ fault[t] = "none"
  /\ ReleaseRun(t)
  /\ Goto(t, "mlp")
  /\ result' = [result EXCEPT ![t] =
                  IF written[t] = Ranges /\ ~torn[t] THEN "dual" ELSE "corrupt"]
  /\ UNCHANGED <<secondary, recovery, written, torn>>

\* Mutant: fallback is called inside the except clause, under the lock.
FallBackUnderLock(t) ==
  /\ fault[t] = "rejected" /\ pc[t] = "cleanup"
  /\ Goto(t, "single")
  /\ fault' = [fault EXCEPT ![t] = "none"]
  /\ UNCHANGED <<budget, lock, memory, quarantine, leases, call, phase, future, cuda,
                 written, torn>>

\* _DualAdmissionFallback: nothing was written, run calls fallback on the
\* target it was given.
FallBack(t) ==
  /\ fault[t] = "rejected"
  /\ ReleaseRun(t)
  /\ Goto(t, "single")
  /\ UNCHANGED <<secondary, recovery, result, written, torn>>

\* DualAttentionRetry carries the fallback and the recovery to the block.
RaiseRetry(t) ==
  /\ fault[t] \in {"resource", "probe", "other"}
  /\ ReleaseRun(t)
  /\ Goto(t, "retry")
  /\ UNCHANGED <<secondary, recovery, result, written, torn>>

\* A fatal error or a cancellation leaves run, or cleanup after CUDA started
\* found a fatal error of its own, whatever the transaction had come to.
RaiseFatal(t) ==
  /\ cuda[t] \/ fault[t] \in {"fatal", "interrupt"}
  /\ ReleaseRun(t)
  /\ Goto(t, "ending")
  /\ ForgetCall(t)

-----------------------------------------------------------------------------
\* What the code does on its own once a block has started or a sample ended.
Step(t) ==
  \/ BypassDual(t) \/ TryLock(t)
  \/ UseLease(t) \/ SelectSecondary(t) \/ NotAdmitted(t) \/ AdmissionRaises(t)
  \/ PreparePool(t)
  \/ StageInputs(t) \/ JoinPhase(t) \/ JoinRange(t)
  \/ \E kind \in Kinds : RunRaises(t, kind)
  \/ ReturnDual(t) \/ FallBack(t) \/ RaiseRetry(t) \/ RaiseFatal(t)
  \/ RebuildInput(t) \/ SingleCompletes(t) \/ FinishBlock(t) \/ BlockRaises(t)
  \/ TryReleasePool(t) \/ DropPool(t)

Next ==
  \E t \in Threads :
    \/ BeginSample(t) \/ EnterBlock(t) \/ EndSample(t)
    \/ Step(t)
    \/ \E h \in Halves : WorkerEnds(t, h)

\* A thread inside a block keeps executing and a kernel on an executor thread
\* ends; nothing obliges the sampler to begin a sample or another block.
Fairness ==
  \A t \in Threads :
    /\ WF_vars(Step(t))
    /\ \A h \in Halves : WF_vars(WorkerEnds(t, h))

Spec == Init /\ [][Next]_vars
FairSpec == Spec /\ Fairness

-----------------------------------------------------------------------------
(* Properties.                                                             *)

PCs == InBlock \cup {"idle", "sampling", "ending", "dropping"}

\* Every variable has its type; the partial buffer names the range it holds.
TypeOK ==
  /\ pc \in [Threads -> PCs]
  /\ samples \in [Threads -> 0..MaxSamples]
  /\ blocks \in [Threads -> 0..MaxBlocks]
  /\ lock \in Threads \cup {NoThread}
  /\ pool \in [States -> Nat]
  /\ partial \in [States -> (Threads \cup {NoThread}) \X Nat]
  /\ disabled \in [States -> SUBSET Keys]
  /\ failures \in [Threads -> SUBSET Keys]
  /\ reprobes \in [Threads -> [Keys -> [count : Nat, ticket : Nat]]]
  /\ leases \in [Threads -> [LeaseKeys -> Secondaries \cup {NoDevice}]]
  /\ shape \in [Threads -> Shapes]
  /\ secondary \in [Threads -> Secondaries \cup {NoDevice}]
  /\ phase \in [Threads -> {"none", "qkv", "audio", "stream", "range"}]
  /\ future \in [Threads -> [Halves -> {"idle", "running", "ok", "error"}]]
  /\ cuda \in [Threads -> BOOLEAN]
  /\ fault \in [Threads -> Kinds \cup {"none", "rejected"}]
  /\ written \in [Threads -> 0..Ranges]
  /\ torn \in [Threads -> BOOLEAN]
  /\ recovery \in [Threads -> Nat]
  /\ result \in [Threads -> {"none", "dual", "single", "corrupt"}]

\* The run lock covers the whole of a dual run and the executor work it
\* started: exactly the thread in the locked part of run (or clearing the
\* pool) holds it, and no future of any other thread is still running.
LockCoversWork ==
  /\ \A t \in Threads : pc[t] \in Locked <=> lock = t
  /\ \A t \in Threads, h \in Halves : future[t][h] = "running" => lock = t

\* A block's attention output is one whole computation: every range of a dual
\* result adds the two halves of that range, and the single-device path never
\* reads a target a failed dual run has begun to overwrite.
OutputIsWhole == \A t \in Threads : result[t] # "corrupt"

\* The leases a pair may have for one failure key: a lease key also keeps the
\* rows of audio, the chunks and the extra memory of the call.
LeasesFor(k) == {LeaseKey[s] : s \in {r \in Long : Signature[r] = k[2]}}

\* A dual run is never on a key that its state has disabled or its thread has
\* quarantined in this sample: a prior failure keeps the pair, shape and
\* route out until it is re-admitted.  The one way past it is a lease of this
\* very call, kept because the failure was of a call with another lease key.
QuarantineRespected ==
  \A t \in Threads :
    pc[t] \in {"preparing"} \cup Executing /\ Quarantined(t, FailureKey(t)) =>
      /\ Lease(t) = secondary[t]
      /\ \E l \in LeasesFor(FailureKey(t)) : l # LeaseKey[shape[t]]

\* "Only allocation pressure may be retried": a key that any other failure put
\* into _disabled_signatures never has a dual run again.
OnlyAllocationPressureRetried ==
  \A t \in Threads :
    pc[t] \in {"preparing"} \cup Executing =>
      FailureKey(t) \notin disabled[Owner[t]]

\* Within one sample a thread sees a started dual run on one key die of
\* allocation pressure at most once more than it may recover from, and where
\* calls with several lease keys share it, once more for each but one.
ResourceFailuresBounded ==
  \A t \in Threads, k \in Keys :
    reprobes[t][k].count <=
      RESOURCE_REPROBES_PER_SAMPLE + LargerOf(1, Cardinality(LeasesFor(k)))

\* A key leaves a thread's quarantine only when a new sample begins or when a
\* block recovered by the single-device path has completed, and a disabled
\* key never comes back that way.
ReadmissionNeedsCompletedBlock ==
  [][\A t \in Threads : \A k \in failures[t] \ failures'[t] :
       \/ samples'[t] = samples[t] + 1
       \/ /\ pc[t] = "mlp" /\ result[t] = "single"
          /\ k \notin disabled[Owner[t]]
          /\ reprobes[t][k].count <= RESOURCE_REPROBES_PER_SAMPLE]_vars

\* While a dual run computes, nobody replaces or drops the pool it stages
\* through, neither another run nor the end of another thread's sample.
PoolHeldWhileComputing ==
  [][\A t \in Threads : pc[t] \in Executing =>
       pool'[Owner[t]] = pool[Owner[t]]]_vars

\* release_host_pool: once every thread that uses a state has left its
\* sample, the state keeps no idle pinned memory.
IdlePoolReleased ==
  \A o \in States :
    (\A t \in Threads : Owner[t] = o => pc[t] = "idle") => pool[o] = 0

\* Every block that starts ends: no failure, refusal or contention leaves a
\* thread waiting inside it.
BlockEnds == \A t \in Threads : pc[t] \in InBlock ~> pc[t] \notin InBlock

-----------------------------------------------------------------------------
(* The route implements the abstract block service.                        *)

StageOf(p) ==
  CASE p \in InBlock -> "block"
    [] p \in {"ending", "dropping"} -> "closing"
    [] OTHER -> p

Service == INSTANCE AttentionBlock WITH
  stage <- [t \in Threads |-> StageOf(pc[t])],
  outcome <- result,
  engaged <- lock

\* Every behaviour is one of the abstract service: pair results are delivered
\* by the step that gives the pair up, the single-device path runs without
\* it, and every started block ends.
ImplementsBlockService == Service!AbstractSpec
=============================================================================
