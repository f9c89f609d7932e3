# A verification project for H3 V100 Optimize

H3 V100 Optimize is a ComfyUI node that patches a MiniMax H3 diffusion model for one or two NVIDIA V100 GPUs.
Everything it installs runs inside one diffusion sample: ComfyUI's sampler visits the steps of a noise schedule, at each
step it makes one or more model forwards (calls with a batch of conditions), a forward runs the transformer blocks in
order, and a block runs an attention call and an MLP call. The node replaces pieces of that: it may answer a whole
forward from a cache, route an attention call to a sparse kernel or to two GPUs, stream it range by range, and run the
MLP in chunks. Each replacement may fail half way, usually because memory runs out, and must then fall back without
losing or mixing results, and must not be tried again too early or too often. That control is what is modelled here.
Tensor arithmetic, kernels and byte formulas are not.

Contents: 1 inventory, 2 modules and how they correspond to the code, 3 runs, 4 proofs, 5 findings, 6 what is not
modelled, 7 plan. Paths are relative to the root of the repository.

## 1. Inventory

| component | state it keeps | operations | who it talks to |
|---|---|---|---|
| Dual-GPU attention route (`dual_attention.py`, `dual_runtime.py`) | a module-wide run lock; per patched model a pinned pool, executor threads, disabled keys; per thread quarantined keys, recovery tickets, leases | run (lock, admission, staging, phases of futures, ranges, cleanup), the retrying block, the sample wrapper | blocks of any sampler thread, executor threads, the allocation-graph route |
| Graph-owned dual attention (`graph_attention.py`, `graph_capacity.py`, `graph_workspace.py`) | storage on the second GPU, an actor on one worker thread, three pinned buffers under asynchronous copies | acquire, put, allocate, slice, project, stream, range, reset, release | the lock and frame of the dual route |
| Output cache (`h3_easycache.py`, `sampling_schedule.py`) | stored differences by condition, drift, rates, the decision of the step, hit counters | one wrapper around a forward: gate, apply, run, store; sample wrapper | the sampler; memory limits |
| Sparse attention admission (`fused_sol_speed.py`, `sol_calibration.py`) | the window of the schedule, admissions by shape, calibration measurements, an admission cache across samples | observe step, route, override, measure, admit, invalidate | the dual route (owns or bypasses the call), range streams |
| Range streams and their consumer (`sol_range.py`, `exact_flash_range.py`, part of `h3_mixed_precision.py`) | generator, active chunk, timing, the projection's disposable target | yield a range, reduce the chunk, close, project, retry, fall back | calibration (timing), Sol admission (withdrawn) |
| Tokenwise MLP chunking (`tokenwise_chunking.py`, `phase_allocation.py`) | chunk by length, freeze of the forward, upgrade streak, pressure caps | select, chunk loop, recovery, prepared-weight attempt and fallback | runtime memory policy |
| Dual-GPU planners (`dual_gpu_plan.py`, `dual_runtime.py`, admission in `dual_attention.py`) | leases, back-off of cache recovery, keys already rebalanced, the pool | search head splits, stage, rank devices, give cache back, reuse a lease, fit the pool | dual routes, runtime memory policy |
| Adaptive Sol budget (`sol_adaptive_policy.py`, `sol_adaptive_budget.py`) | stability history | budget per row | sparse kernels |
| Runtime memory policy (`runtime_memory.py`, `native_dynamic_vbar.py`) | cooldown; the allocator's inactive blocks and VBAR pages belong to others | request headroom: trim, evict | every component that allocates |
| Phase model release (`phase_model_release.py`) | the marker and the set of managed keys; ComfyUI's loaded models and pins | guard a load, clear before a forward | ComfyUI's loader, casts that pin pages |
| Mixed precision and weights (`h3_mixed_precision.py`, `weight_profile.py`, `bounded_norm.py`, `qk_native.py`) | a weight prepared for all chunks of a call, outputs | project Q/K/V and output in chunks, fall back to a cast per chunk | memory policy, casts, all attention routes |
| Scoped guards and lifetimes (`h3_prefetch_guard.py`, `cast_failure_cleanup.py`, `lora_failure_guard.py`, `*_lifetime.py`) | casts of a call, process-wide values saved and restored | undo casts of a failed call, enter and leave a forward | VBAR pages, ComfyUI globals |
| Node, installer, user interface (`h3_optimize.py`, `backend.py`, `device_support.py`, `__init__.py`, `web/`) | options | patch in order | everything |
| Native extensions (`*.pyd`) | none visible | kernels | |

What is hard in it, and what would make it correct:

- **Interleaving.** Two sampler threads may share one patched model, and two patched models share one run lock. The lock
  must cover a run with all the futures it started, and the pinned pool must not move under them.
- **Partial failure.** Attention and the MLP overwrite their own input to save memory. A failure after the first range
  must lead to a recomputation from an input that is whole, and a result is one whole computation, never two spliced.
- **Stale state.** Leases, quarantines, admissions, cached differences and chunk sizes outlive the call, the step or the
  sample they were taken in. Each has rules for when it lapses, spread over several functions.
- **Retry and recovery.** Every retry must be bounded, must start from the first row, and re-admission of a failed
  route must follow a proven recovery.
- **Asynchronous copies.** A pinned buffer must not be refilled before a copy out of it has ended.
- **Liveness.** Every early return, refusal, error and cancellation must return the lock and end the block.
- **Ownership of pages.** A cast pins a page and vouches for it before the data is there. Whoever fails must take both back,
  or a later projection computes with half a weight and a later guard cannot empty the GPU.
- **Who is still needed.** Clones, parents and models that bring others along: a release must know a model under all its
  patchers, and may take neither what the load asks for nor what is in use.
- **Boundaries.** Percent windows over short schedules, short last blocks and chunks, audio intervals at block edges,
  limits on entries, reuses and reprobes.

`PROJECT.json` lists each such hazard at its line with the properties that would catch it.

## 2. Modules

A module is one component; the tables give the correspondence of its state and actions. `PROJECT.json` ("map") names the
lines each definition stands for. Operators preceded by a comment `Mutant:` are deliberately wrong variants of the
definition that follows; they are used only to show that a property notices the mistake.

### AttentionBlock, DualAttention: the dual-GPU route

`AttentionBlock` is the abstract promise: a started block ends with one complete result, computed wholly by the pair or
wholly by one device, or fails and closes its sample; one thread engages the pair at a time; a pair result is delivered by
the step that gives the pair up. `DualAttention` is the code, for any set of threads, patched models (`States`, `Owner`),
secondary devices and call shapes.

| code | model |
|---|---|
| `_DUAL_RUN_LOCK`, tried without blocking | `lock`, `TryLock`, `ReleaseRun`; a thread that finds it busy takes `BypassDual` |
| `_pool` (pinned host pool) and its `partial` buffer | `pool`, `partial`; `PreparePool`, `TryReleasePool`, `DropPool` |
| `_disabled_signatures`, thread-local `failures` and `resource_reprobes` | `disabled`, `failures`, `reprobes`; `Quarantine`, `AllowResourceReprobe` |
| thread-local `wddm_balanced_leases` | `leases`; `UseLease`, `DropStaleLease`, `SelectSecondary` |
| the futures on the two executor threads | `future[t][half]`; `Submit`, `WorkerEnds`, `JoinPhase`, `JoinRange` |
| `cuda_started`, exception handlers and `finally` of `run` | `cuda`, `fault`; `RunRaises`, `ReleaseRun`, then one of `ReturnDual`, `FallBack`, `RaiseRetry`, `RaiseFatal` |
| `make_retrying_block_core`, `on_recovery` | `RebuildInput`, `SingleCompletes`, `FinishBlock`, `recovery` |
| the outer sample wrapper | `BeginSample`, `EndSample` |

Abstractions: a target range is untouched or holds the sum of two halves, `torn` says that two halves of different ranges
were added; live capacity and the ranking of feasible pairs are free choices (they are the subject of `Admission`); the
graph route has the same frame and is modelled on its own.

Two keys of a call have to be kept apart. A failure key is the pair, the token count, the width and the route; a lease key
is all that but the pair and the route, and the weight profile, the query chunk, the audio rows and what else decides how
much a call needs (`KeyAssumption`). So several lease keys may share one failure key, and a lease of one of them outlives
the quarantine that a failure of another has opened. `QuarantineRespected` and `ResourceFailuresBounded` say exactly how
far that goes; run DualSample has two lease keys of one failure key.

### HeadPartition, Admission: how a dual call comes to its split

`HeadPartition` holds the pure part as operators on numbers: `Need0`, `Need1` (linear in the heads, the larger of two
phases on the primary), `Partition` (`_best_partition` with Python's order of tuples, shares of memory brought to a common
denominator), `StagedChunk` (`plan_host_staging`), `Prepare` and `Select`. `Admission` is the stateful part around it.

| code | model |
|---|---|
| `_validated_balanced_lease`, `_remember_`/`_drop_balanced_lease` | `leases`, `LeaseKey`, `LeaseValid`, `UseLease`, `SelectAdmission`, `EndRun` |
| `_coordinated_admission` | `SelectAdmission`, then `Rebalance` (`_rebalance_admitted_exact_cache`) or `Recover` (`_recover_primary_admission_cache`), then `SelectAgain` |
| `cache_recovery_backoff`, `wddm_rebalance_attempted` | `backoff`, `attempted`; `Forget` |
| `_pool_matches_admission`, `_ensure_pool` | `PoolFits`, `BuildPool`, twice at most, else `FallBack` |
| `begin_sample`, the drop of the pool at a sample's end | `BeginSample` |

The readings (`free`, `inactive`, `host`) are chosen afresh for every call, and `Disturb` lets others change one of them
once while the call is being admitted; any reading may fail (`ProbeFails`, `PoolFails`). `before` and `disturbed` are
history variables. What a trim gives back is a free choice between nothing and all inactive blocks (`GiveBack`):
`empty_cache` returns whole segments, and the code takes the number of inactive bytes for a hint. So the plan that a trim
was done for need not come true, and `TrimRescues` says what holds nevertheless: the admitted stay admitted and lose
nothing, everything promised comes if everything was freed, and whoever is still rejected backs off. A failed run drops
the lease of its key, also where the run was a sparse one that has none of its own (the key does not name the route); an
interrupted run does not get there. A lease asks of the pool that it
was within the limit of the plan that built it, not within today's (`_pool_matches_admission`), so `AdmittedFits` holds a
leased call only to what it stages itself. `SplitIsBest` covers all devices a call could use: the plan has no larger bottleneck
than any split of any device that admits the call. A plan that was kept through a trim is compared only with what other
devices admit, since in the freed memory a better split of its own device may exist that the host cannot stage. The floor of tokens, a split that
a graph fixes, the planner for MLP channels and `capacity_still_valid` (neither is ever reached) are left out.

### GraphAttention: the allocation-graph route

One call at a time (its lock is the one above). The main thread follows a script of requests to the actor on the worker
thread; `task` and `reply` are the request and its future; `flight` is the set of asynchronous copies that have not
completed, each completing at any later moment unless a synchronize waits for it. `acquire` tries the head splits in
order, trims, refuses and releases (`candidate`, `trimmed`, `workspace`). A request may fail before it issues its copy or
after (`compute_sol_qkv_chunk` projects between its copy and its synchronize), and then nobody waits for the copy until
`reset` does (`WorkerResets`); `SecondaryReleased` says that no such copy outlives the actor. The clean-up may itself fail:
closing the stream, the release of the storage, a synchronize. A synchronize that fails there is a dead device,
which runs no more copies. A buffer holds the name of what was last copied
into it, so a premature refill shows up as wrong content on the other side.

### EasyCache: the output cache

The environment is the sampler: it visits scheduled and unscheduled sigmas, evaluates at one sigma up to `MaxPasses`
times, and calls with batches of conditions. A tensor is the ordinal of the sigma it was computed at, so a property can
say how old an answer is and whether drift and entry come from the same step. `active` is the set of conditions whose
timestep range holds the sigma: it is chosen with the sigma and the same for every evaluation of it, and an evaluation asks
each of them once, alone or in a batch with others. Optional conditions may be absent from some sigmas. `entered`, `gate`, `apply`, `uncached`,
`exact`, `store` are the places of the wrapper; any step that touches memory may raise for
lack of it (`CacheFails`), and at any place something else may (`CallRaises`, also a cancellation). A cache is disabled
either for lack of resources, and then empty, or because something unsupported was met (a foreign patch, an output of
another shape), and then it keeps its tensors until the sample ends or fails: `NothingRetained` states this difference,
and that a cache which still answered at the first call of the last step is empty through all calls of that step. The
visits themselves are the sampler's, outside the repository. Abstractions: the three drift
gates are one, every entry has size one, percents are exact, latents are always a video/audio pair.

### SolAdmission: when the sparse route may answer

`sigma`, `onGrid` and `current` are what the forward has and what the code observed at block 0; `admissions`, `modes`
and `cache` are the code's tables. Each attention call is routed twice from the same admission: before the projection
(`owner`, the dual adapter may take it) and in the override. `grounds` and `broken` are history variables (which
measurement an admission stands on, which shapes failed in this sample): no guard reads them. Abstractions: a shape is
its signature and token count, since one packed sequence and one grid per sample leave only the prefix to differ; percents are
exact integers; the adaptive budget is absent.

### RangeStream: streams and their consumer

The generator of either stream, the whole audio blocks it skips and leaves zero, the shrinking chunk, the timing callback,
the projection that writes each range over its own input, the ordinary retry after a prepared weight ran out of memory,
and the chain of exact fallbacks with halved chunks. A row is the input, zero, the audio result or `<<kind, chunk>>` of
the stream that computed it; no two streams of a call have the same tag. A `fatal` fault stands for a dead device and for
a cancellation. The context of the prepared weight may fail on the way out, when the stream has been read to its end and
its time has been reported (`ContextRaises`): the call falls back although the time counts, which is why
`TimingMeansWhole` speaks of the step that reports it.

### MlpChunking: rows of a chunk

| code | model |
|---|---|
| `_select_chunk_tokens`, `_balanced_chunk_tokens` | `SelectChunkTokens`, `BalancedChunkTokens`, `CandidateTokens`, computed on numbers; the memory readings enter as the `budget` they amount to |
| `_pressure_limit`, `_record_chunk_pressure` | `caps`, `PressureLimit`, `RecordChunkPressure` |
| `v100_mlp_auto_selections`, step freezes, upgrade states | `selections`, `freezes`, `upgrades`; `Frozen`, `Applied`, `UpgradeState` in `SelectAdaptive` |
| `_mlp_step_key` | `StepKey`: a count of forwards, since the sigma is not in the options it reads |
| `execute_chunks`, `allocate_with_recovery` | `NextChunk`, `FinishChunk`, `RecoverChunk` |
| prepared weight pair and its fallback | `PairPrepared`, `BeginChunks`, `PairFails`, `Fallback`: from row 0 into a new output |
| a call whose failure leaves the block | `Raises`: the forward ends, what was learned stays |

`asked` is a history variable: the opening requests of the latest three forwards of a length. The device is CUDA and
gradients are off.

Which options the MLP reads decides what a step is. The patched call closes over the dictionary it was built with
(`tokenwise_chunking.py:456`, `:483`). The sampler puts `sigmas` into a copy of it, and
`runtime_memory_outer_sample_wrapper` resets a copy as well (`runtime_memory.py:106-112`; the patcher copies the
dictionary, too). So the MLP never sees a noise level, every forward is a step of its own, and caps, freezes and the count
of forwards end with the patched model, not with the sample. The model is of that. It departs from the docstring of
`_mlp_step_key` (`tokenwise_chunking.py:281`, "one stable key for every block in a denoising step"): when a denoising step
makes several forwards, one per batch of conditions, the chunk may grow between them, and three forwards are enough to
earn it. No run states that docstring as a property, since what the properties say of forwards is what the code
guarantees; results do not depend on it.

### WeightCast, Projection, PhaseRelease, ModelPhases: memory, casts and loaded models

`WeightCast` has the device's memory (`free`, inactive blocks in `cache`, `cooldown`), the one policy that reclaims it, and
the VBAR pages of weights. A page is absent, partial or complete; a cast notes the signature of its page and pins it
before the data is there, so a cast that dies leaves both, and `owned_casts` must take them back.

| code | model |
|---|---|
| `request_cuda_headroom` | `RequestCudaHeadroom` = `Enough`, `TooLittleCached`, `Reclaim`; with the cooldown `CheckFloor` |
| `release_unpinned` | `Evictions`, `Evict`: as many unpinned whole pages as the request takes |
| `owned_casts`, `strict_lora_merges` | `Abandon`, `Fill`; only an `Exception` is cleaned up, and none other is modelled |
| `_qkv_projection`, `_out_projection` | `Projection`: `MakeRoom`, `DecideReuse`, `BeginCast`, `EndCast`, `Linear`, `Allocated`, `NextChunk`, `Return` |
| their `except` clauses | `Raise`, `CleanUp`, then `StartOver` (a cast per chunk, fresh outputs) or `Propagate` |
| `allocate_with_recovery` | `AllocationFails`, `RecoverAllocation`, then `Allocated` or `Raise` |
| `guarded_load_models_gpu` | `BeginLoad`, `ReleasePriorStage`*, `BeginStale`, `ReleaseStale`*, `EndStale`, `UpstreamLoad` |
| `begin_h3_forward` | `BeginForward`, `ReleaseCandidate`*, `EnterForward` |
| `mark_phase_managed`, `_is_phase_managed` | `marked`, `managedKeys`, `IsPhaseManaged` |

`PhaseRelease` is the release of models, with ComfyUI around it modelled from its use: nodes, clones that give way to
each other in the list of loaded models (`ParentStandsIn`), a full detach that may leave the model loaded, pages pinned by
a cast (`owned`) or a finished prefetch (`queued`). `ModelPhases` composes all three for one prompt thread: the pages of H3
exist while it is on the GPU (`PagesFollow`), and its projections' casts are its pins (`H3Follows`), so that a pin left by a
failed call of one forward meets the guards of a later node. `spared` and `refused` are history variables. A model whose
pins or pages cannot be read (`Opaque`) counts as busy. `cooldown` is that of the options the MLP was patched with, which
only its own check of the soft floor obeys and no sample resets; requests with a demand ignore theirs. What `cache` holds
`empty_cache` returns; inactive blocks of split segments are part of what is in use, but count as reclaimable
(`Reclaim`), so that a trim may return less than it was done for.
Abstractions: memory in units, one page per weight, sizes of models "some" or "none", a list taken in any order.

What the model showed about the code without contradicting a promise of it: the full detach that the stale path falls
back to is neither verified nor asked whether the model is idle (the other two paths do both); a model pinned by a
finished prefetch only is spared by `begin_h3_forward`, which looks at pins before it empties the queues; the load guard
also detaches unmarked idle models when a managed H3 is loaded (lines 201-222), although its docstring
(`phase_model_release.py:231`) speaks of marked models only. In `Admission`: the split is chosen before staging, so a
split with fewer secondary heads is not tried when the host cannot stage the best one; recovery looks only at the nearest
rejected split; a rebalanced call keeps its old plan when the second reading says that nothing fits.

### MC modules and proof modules

`MCDualAttention`, `MCEasyCache`, `MCRangeStream`, `MCSolAdmission`, `MCMlpChunking`, `MCModelPhases` and `MCAdmission` give constants that a `.cfg`
cannot write (functions, sets of records). `DualAttentionProofs`, `GraphAttentionProofs`, `EasyCacheProofs`,
`RangeStreamProofs`, `SolAdmissionProofs`, `MlpChunkingProofs`, `ModelPhasesProofs` and `AdmissionProofs` extend the
component's module.

## 3. Runs

Runs without a fairness assumption check safety under every schedule. Deadlock checking is off where the sampler may
stop (bounded samples); EasySample, ModelPhases and Admission keep it.

| run | instance | asks |
|---|---|---|
| DualThreads | 2 threads, 1 shared model, 1 secondary, 2 ranges, 1 block, `FairSpec` | lock covers all work, outputs whole, pool held while computing and released when idle; every block ends; `DualAttention` implements `AttentionBlock` |
| DualSample | 1 thread, 2 interchangeable secondaries, two exact shapes of one failure key and a sparse one, leases, 5 blocks, 1 reprobe | what gets past a quarantine, resource failures bounded, re-admission only after a completed block |
| DualLease | 2 threads sharing a model, long shape | **violation**: finding 1 |
| DualPools | 2 threads, each with its own model | **violation**: finding 2 |
| GraphCalls | 2 input chunks, 2 RoPE chunks, 2 ranges, 2 splits, 2 calls, fair | what the second GPU computes from is exact and complete, its storage is freed last and always, output whole, calls end |
| EasySample | 2 conditions, batched or not, over schedules of 0, 2, 5, 13 steps, limits 1 and 4; a third condition, absent from some steps, alone or batched, over 5 steps, limits 2 and 5 | window, freshness, one model run, what is retained when, drift and entry from one step, memory limit |
| RangeCalls | 11 rows in blocks of 3, chunks of 1, 3, 4 blocks, nine audio layouts, fair | skipped zeros overwritten, timing means whole, a live consumer returns whole, the consumer ends |
| RangeRetry | the same | **violation**: finding 3 |
| SolSamples | 4 blocks (1 protected, 2 calibration), 4 steps, 3 settings, 3 shapes, cache of 1, 1 reuse, 3 samples of up to 2 forwards | lossy answers only inside the window and well measured, the measuring step exact, reuse once, a failed shape stays exact, calibration settles |
| MlpCalls | sequences of 7 and of 13 rows, 2 blocks, chunk alignment 2 and minimum 5, 4 option sets, 3 budgets, up to 5 forwards | results whole after pressure and fallback, growth only when earned |
| ModelPhases | 4 patchers (H3 as loaded, the optimized clone, its control model, a text encoder of unknown ownership), 1 weight, 3 units of memory, calls of 1 or 2 chunks | stale H3 released, room while H3 computes, nothing needed taken, complete weights used, casts released, a second out-of-memory only when nothing is left |
| Admission | 4 heads, a primary and two secondaries of different size, 3 kinds of call (exact, exact with audio, sparse), 2 levels of the primary, of a secondary, of the host and of cache | the best split of all devices, what giving cache back achieves when it frees anything between nothing and all, what runs fits |

Why the bounds are enough for the case to happen. In the dual route the interesting schedules need two threads and one
failure each; two ranges let a run die between them. In DualSample one block leases the one exact shape, three more spend the budget
of 1 (the code's is 2) with the other, and a fifth would exceed what the lease still lets past.
GraphCalls needs the second chunk, range and call so that a refill can race a copy and one call can see what another
left. EasySample's 13-step schedule is longer than the longest run of hits of either profile with room for refresh and reuse; 0 and 2 steps are
the degenerate schedules (30 steps and more allow the speed profile a third hit, which no instance covers); limit 1 makes an update not fit. The 11 rows of RangeCalls have a short last block and chunks
that are one block, the whole call, and neither; the layouts put audio at an edge, across a boundary, touching, at the
end, malformed and everywhere. SolSamples needs three samples: one that admits, one that reuses, one in which the copy has
been spent; four steps have an inside, both ends and a step before the window. Growth of a chunk takes four forwards (one
that settles the chunk, three steady), and the fifth one lets a forward of the other length or a failed one lie between them; the sizes
of MlpCalls keep the code's ratios between alignment, minimum and cap. ModelPhases needs an H3 under two patchers (one marked, one not), a model it
brings along and one it does not; two chunks so that a failure can come after the first, and as much memory as a page and an
output, so that every request can be met, half met or refused. One weight is enough: a cast never
looks at the page of another. Admission's 4 heads have three splits with two different bottlenecks; the secondary with twice
the memory makes ranking by share differ from ranking by amount; the levels
of the primary admit the balanced split, only its smallest share, or nothing until cache is given back, and an audio call needs
more for every head, so that a lease of the wrong key would not fit.

Fairness. `DualAttention!Fairness` is weak fairness of each thread's own step inside a block and of each executor future:
a Python thread that can run does run, and a kernel ends. The sampler is not obliged to begin a sample or a block.
`GraphAttention` asks the same of the main thread, the worker and the copies. `RangeStream` is one thread that runs on.
No run assumes strong fairness, or fairness of a failure or of a success.

## 4. Proofs

Each theorem holds for every value of the constants that the named `ASSUME` of the module admits; TLC evaluates those
assumptions in every run of the module.

| theorem | says | argument |
|---|---|---|
| `DualAttentionProofs!ReadmissionCorrect`, `BudgetCorrect` | a key leaves the quarantine only as `ReadmissionNeedsCompletedBlock` says; the memory failures of a key in a sample are bounded by the budget and the lease keys it has | `RecoveryInv`: whose ticket is open, and that a carried one is within the budget. `QuarantineInv`: of the leases for a quarantined key one at least is not on its pair, a run of such a key has the lease of its own call, and failures plus leases that are still on the pair never exceed the bound; each failure behind a lease costs that lease, so the sum does not grow |
| `DualAttentionProofs!QuarantineCorrect`, `RetryCorrect`, `IdleCorrect` | what runs past a quarantine; only allocation pressure is retried; no idle pool is kept | the same `Barred` for the disabled keys of a state (`EnabledInv`), and `PoolUsed`. Each needs a hypothesis, see below |
| `DualAttentionProofs!ServiceCorrect` | every step of the route is a step of `AttentionBlock` or hidden from it | action by action under the refinement mapping, from `DualInv` and where a block may have a result |
| `DualAttentionProofs!TypeCorrect`, `LockCorrect`, `OutputCorrect`, `PoolCorrect` | types; the lock covers the run and its futures; no output is spliced; the pool stays while a run computes; for any number of threads, models and devices | `DualInv`: types, a thread's locals match its place (`LocalsOf`: no future runs outside the joining stage, ...), the range in `partial` is the one being added (`RangeStaged`), and the lock. `OutputIsWhole` alone is not inductive: it needs to know whose half is in the shared buffer, which needs the lock |
| `GraphAttentionProofs!TypeCorrect`, `TransfersCorrect`, `ReleaseCorrect`, `OutputCorrect` | types; each tensor of the second GPU is the one staged for it and Q/K/V is complete when used; storage freed last and always; outputs whole; for any numbers of chunks, ranges and splits | `GraphInv`: for each place of the main thread the state of the request, its reply, the buffers and the copies in flight (`Handshake`), the one copy that a failed request or a failed synchronize may have left under way (`Leftover`), what the requests before this step have left and may still be used (`Staging`), who holds the storage (`HeldInside`), the target (`Written`). The three properties alone say nothing about a copy in flight. The script of a call is a sequence; lemmas say what it holds at each position (`ScriptShape`) |
| `ModelPhasesProofs!WeightsCorrect`, `CastsCorrect` | no projection returns a chunk of an unfinished weight; between calls no page is pinned and no cast open; for any weights, chunks and memory | `CastInv`: a signature vouches for a complete page or for the page that is being filled; a page is pinned exactly while its cast is open, which only the call's own weight has and only at certain places; rows written so far are complete. `CompleteWeightsUsed` alone says nothing about weights that are not in use now |
| `ModelPhasesProofs!RetryCorrect` | an allocation fails the second time only when nothing is left to reclaim | `MemoryInv`: after the recovery there is room for the outputs, or no inactive block and no unpinned page; pages round up (`PagesCover`) and are counted by finite-set cardinality |
| `ModelPhasesProofs!StaleCorrect`, `RoomCorrect`, `NeededCorrect` | the three properties of the guards, for any patchers, clones and nesting | `PhaseInv`: what is still to be released is not needed and not busy, and what is loaded and not on the list is needed, was busy, or (where allowed) managed. It is needed because a guard releases one model at a time and a detach takes clones along (`ClonesAlike`) |
| `EasyCacheProofs!OneRunCorrect`, `GateCorrect`, `RetentionCorrect`, `DisabledCorrect`, `LimitCorrect` | one model run per call; drift and entry from one step; what is retained when; disabled stays; memory limit | `EasyInv`: types of what the call carries, what the runs and the answer are at each stage (`RunsOf`), what is cleared where (`ClearedOf`), and the gate; the limit adds finite-set cardinalities. What is retained at the last step needs to know how the step was entered (`LastInv`): the cache answers there by clearing, and no call of the step predicts or stores |
| `EasyCacheProofs!WindowCorrect`, `FreshCorrect` | predictions only at scheduled steps inside the window; no condition of every step is answered from an entry older than the profile may reuse | `WindowInv`: a predicted sigma was inside the window when it was chosen, and what is applied was chosen now. `FreshInv`: which conditions of the sigma have an entry (`Covered`), that the lead decides first and is applied at once (`LeadFirst`), and how old an entry may be before and after the decision (`Aged`, `Refreshed`): an age is bounded only together with the hits since the lead was exact |
| `RangeStreamProofs!TimingCorrect`, `LiveReturnCorrect` | calibration times whole streams only; a live consumer returns this stream's rows only | every row below `start` is of the current stream while its generator is open |
| `RangeStreamProofs!ZeroesCorrect`, `ShrinkCorrect` | rows left zero are rows the audio overwrite covers; each stream after the first exact one has strictly smaller chunks, of a block at least | a block is skipped only if each of its rows is in a merged interval (`BlockInside`, from the bounds of a division); halving in whole blocks shrinks |
| `SolAdmissionProofs!RouterTyped`, `WindowCorrect`, `MeasurementCorrect`, `MeasuredStepCorrect`, `ReuseCorrect`, `FailureCorrect`, `CalibrationCorrect` | types; the six safety properties of SolSamples (`MeasuredStepCorrect` among them) | `SolInv` (what an admission, a mode, a cached copy and the history stand for at each stage) and, for `CalibrationSettles`, `SettleInv` (which layers of the measuring forward are still to come) |
| `MlpChunkingProofs!ResultCorrect`, `GrowthCorrect` | a returned result is whole; a chunk grows only after three steady forwards and never within one | `WrittenOf`: the rows below `chunkStart` stand once; `StreakOf`: a streak of n stands for the openings of the last n forwards of that length; `FreezeOf`: a freeze is of the forward of the latest record. Positivity of the chosen rows needs a least and a greatest element of a set of numbers, from the well-foundedness of `<` on the naturals |
| `AdmissionProofs!TypeCorrect`, `SplitCorrect`, `TrimCorrect`, `FitCorrect` | types; a plan made from the memory there is has the smallest bottleneck of the splits of all devices that admit the call; what a trim keeps, what it achieves if everything is freed, and who waits if it was in vain; what runs fits; for any devices, sizes and needs | `BestInv`: what a plan and a lease say is needed is what the call needs (`PlanOf`, `LeasesHold`), and at each stage what the plan was made from and what a trim was promised (`FreshPlan`, `TrimmedPlan`, `PoolPlan`); a kept plan still fits because giving back takes nothing from any device. That a least plan exists in the order of tuples is `MinimalExists`: a non-empty finite set has an element with none before it, from the irreflexive and transitive order, by the cardinality of the elements before it |

Assumptions. Besides types, a module assumes of its constants what the code does: `KeyAssumption` (above),
`InactiveAssumption` (inactive blocks are part of what the process has taken from the device), `LeaseKeyAssumption` (a lease
key names all that the planner is told of a long exact call), finite sets of second devices and of long calls. Three theorems have a
hypothesis of their own, because without it the property is false of the code, and a run shows that for two of them:

- `LeasesUnshared` (`QuarantineCorrect`, `RetryCorrect`): no two threads sample with one patched model, unless nothing is
  leased. Otherwise one thread's lease keeps running what another has disabled (run DualLease, finding 1).
- `LeasesFollowKeys` (`RetryCorrect`): calls of one failure key share their lease key. It holds when all calls of one token
  count are of one packed sequence, the ordinary case, but not by construction: two sequences of equal length may
  differ in their audio rows. Without it a thread's own lease has the effect of finding 1; `QuarantineCorrect` does not assume it and
  says what is left.
- `OneState` (`IdleCorrect`): one patched model in the process (run DualPools, finding 2).

Only model-checked, and why:

- Liveness under fairness (`BlockEnds`, `CallEnds`, `ConsumeEnds`), and with it the fair half of `ImplementsBlockService`:
  the prover has no rule for `ENABLED`, hence none for weak fairness. Its safety half is `ServiceCorrect`; `ShrinkCorrect`
  gives the decreasing chunk that ends the fallbacks of `ConsumeEnds`.
- Theorems that take an operator as a parameter (the library's induction theorems) cannot be instantiated, and recursive
  operators are not supported; the models are written with functions, sets and folds instead, and induction over numbers is
  done as a least counterexample or a cardinality.

Every safety invariant and action property of the passing runs is the statement of a theorem.

## 5. Findings

1. `DualLease`: `dual_attention.py:36` says only allocation pressure may be retried. A balanced lease
   (`_validated_balanced_lease`, line 614) is used without a look at the disabled signatures: one thread's lease keeps
   running the pair on a key that another thread's non-resource failure has just disabled.
2. `DualPools`: `dual_attention.py:770` promises that idle pinned staging memory is released. The lock it tries, once, is
   module-wide: a sample that ends while a thread of another model is in a run keeps its idle pool.
3. `RangeRetry`: `h3_mixed_precision.py:606` runs the projection again over a generator that has raised and is therefore
   exhausted; the loop ends at once and the input is returned as the attention result. The docstring at line 609 says the
   stream is consumed transactionally.

## 6. Not modelled

- Tensor arithmetic, kernels and numerics of every route, the native extensions, formatting, logging, statistics.
- The adaptive Sol budget: arithmetic on scores. Its one state, the route of the step before, is keyed by shape and
  cleared by the sample, a failure and the end of the window; a property of it would restate the guard that compares steps.
- The process-wide `NUM_STREAMS` and the options a forward saves and restores. Two threads could restore them in the wrong
  order; what they change is asynchronous weight streaming inside ComfyUI, which is not in this repository.
- The lifetime transforms: they rewrite reviewed upstream functions and have no state. The installer: it validates options
  and patches functions; no state machine beyond what the components install.
- Dead code: `plan_mlp_channels`, `capacity_still_valid`.
- Within modelled components: the choice whether a call streams at all (`RangeStream`); patching of the blocks and the
  trim before a call (`MlpChunking`; the trim is `CheckFloor` of `WeightCast`); a second packed sequence or grid in one sample (`SolAdmission`); calls that record
  gradients, the audio attention's own chunk plan and the choice of chunk sizes (`Projection`); a split fixed by a graph
  (`HeadPartition`); a failure of a range stream that the retry of finding 3 swallows, which therefore never reaches
`mark_stream_failure` (`RangeStream` and `SolAdmission` are not composed; in `SolAdmission` every failure is reported); the
`KeyboardInterrupt` kind of exception inside a cast (`Projection`); two prompt threads (`ModelPhases`: ComfyUI runs one).

## 7. Plan

Done: DualAttention with its refinement, GraphAttention, EasyCache, RangeStream, SolAdmission, MlpChunking, then the memory,
casts and loaded models of ModelPhases, and Admission, in the order of how much of a sample's correctness rests on each.

Next theorems: type correctness of the modules whose invariant has it only in part (RangeStream, MlpChunking); that a phase of the
graph route cannot be skipped or repeated, as a refinement of the list of requests; decreasing measures for the other liveness properties, in
the way of `ShrinkCorrect` (the requests of a graph call, the futures of a dual run), since their fair half stays with TLC.

Next models: the audio attention's chunk plan with its retries, as part of Projection; a second packed sequence in
SolAdmission.
