----------------------------- MODULE MlpChunking -----------------------------
(***************************************************************************)
(* tokenwise_chunking.py: the MLP of each block runs over the token rows   *)
(* in chunks.  How many rows a chunk has is chosen from the memory found   *)
(* at each call: it falls at once, is frozen within a step, rises only     *)
(* after three steady steps and is capped after a chunk ran out of memory. *)
(* A call first tries with both weights prepared, and from the first row   *)
(* again without them when memory does not suffice.                        *)
(*                                                                         *)
(* The calls read the dictionary of options the patch closed over.  The    *)
(* sampler's noise levels and the reset at the start of a sample go to     *)
(* copies of it, so a step is a forward and nothing here ends with a       *)
(* sample.                                                                 *)
(*                                                                         *)
(* Abstracted: the memory readings are the budget they amount to; weights, *)
(* kernels and their dtypes are what a chunk may fail with.  The device is *)
(* a CUDA device and no gradient is asked for: this is sampling.           *)
(***************************************************************************)
EXTENDS Integers

CONSTANTS
  Lengths,         \* token counts of the sequences; the key of a selection
  Blocks,          \* blocks of the model
  Options,         \* [adaptive, experimental, controller, rows] of the patch
  Budgets,         \* budget_tokens the memory readings may amount to
  HardFullLimit,   \* rows the card may take in one call
  CorrectnessCap,  \* rows under Dynamic VBAR, 8448 in the code
  Alignment,       \* rows a balanced chunk is a multiple of, 256
  Minimum,         \* rows no chunk is balanced below, 640
  Margin,          \* _UPGRADE_BUDGET_MARGIN_TOKENS, 1024
  Candidates,      \* chunk sizes of the ordinary path
  MaxForwards      \* bound: forwards of all samples

ASSUME ChunkAssumption ==
  /\ Lengths \subseteq Nat \ {0} /\ Blocks \in Nat \ {0}
  /\ Budgets \subseteq Nat \ {0}
  /\ Candidates \subseteq Nat \ {0} /\ Candidates # {}
  /\ {HardFullLimit, CorrectnessCap, Alignment, Minimum} \subseteq Nat \ {0}
  /\ Margin \in Nat /\ MaxForwards \in Nat
  /\ Options \subseteq [adaptive : BOOLEAN, experimental : BOOLEAN,
                        controller : BOOLEAN, rows : Nat]

VARIABLES
  options,     \* what the patch put into transformer_options
  selections,  \* v100_mlp_auto_selections: rows by length, 0 before the first
  freezes,     \* v100_h3_mlp_step_freezes: the step of the last selection
  upgrades,    \* v100_mlp_upgrade_states
  caps,        \* mlp_pressure_caps by length, 0 where there is none
  epoch,       \* v100_h3_mlp_step_epoch
  forwards,    \* forwards so far
  tokens,      \* rows of this forward
  block,       \* the block it is in
  stage,       \* where the call of the block stands
  chunkTokens, \* the rows it selected
  prepared,    \* both weights are prepared for all chunks
  chunkStart,  \* rows its loop has passed
  rows,        \* rows of the current chunk
  recovered,   \* the chunk has been retried after memory was reclaimed
  output,      \* how often each row of the current output was written
  asked        \* history: what the calls of the latest three steps asked for

policy == <<selections, freezes, upgrades, epoch, asked>>
forward == <<forwards, tokens, block>>
loop == <<prepared, chunkStart, rows, recovered, output>>
vars == <<options, policy, caps, forward, stage, chunkTokens, loop>>

SmallerOf(a, b) == IF a < b THEN a ELSE b
LargerOf(a, b) == IF a > b THEN a ELSE b
Ceil(n, d) == (n + d - 1) \div d
Unwritten(n) == [row \in 0..(n - 1) |-> 0]

UpgradeStableCalls == 3
NoUpgrade == [candidate |-> 0, stable |-> 0]
NoFreeze == [step |-> -1, rows |-> 0]
Unasked == [step |-> -1, opening |-> 0, margin |-> FALSE, least |-> 0]

-----------------------------------------------------------------------------
(* The rows the memory allows.                                             *)

\* _balanced_chunk_tokens: the fewest equal chunks that stay within target.
AlignedRows(n, chunks) == Alignment * Ceil(Ceil(n, chunks), Alignment)
BalancedChunkTokens(n, target) ==
  LET fitting == {chunks \in LargerOf(2, Ceil(n, target))..n :
                    AlignedRows(n, chunks) <= target}
      fewest == CHOOSE chunks \in fitting : \A other \in fitting : chunks <= other
  IN IF n <= target THEN n
     ELSE IF fitting = {} THEN Minimum
     ELSE LargerOf(Minimum, AlignedRows(n, fewest))

\* The ordinary path takes a fixed size, or the smallest if none fits.
CandidateTokens(target) ==
  LET fits == {c \in Candidates : c <= target}
  IN IF fits # {} THEN CHOOSE c \in fits : \A d \in fits : c >= d
     ELSE CHOOSE c \in Candidates : \A d \in Candidates : c <= d

SelectChunkTokens(n, budget) ==
  LET target == SmallerOf(SmallerOf(n, HardFullLimit), budget)
  IN IF target >= n THEN n
     ELSE IF options.experimental THEN BalancedChunkTokens(n, target)
     ELSE CandidateTokens(target)

PressureLimit(n, proposed) ==
  IF caps[n] = 0 THEN proposed ELSE SmallerOf(proposed, caps[n])

\* What a call asks for before its history is looked at.
Proposed(n, budget) ==
  LET limited == PressureLimit(n, SelectChunkTokens(n, budget))
  IN IF options.controller /\ limited > CorrectnessCap
     THEN BalancedChunkTokens(n, CorrectnessCap) ELSE limited

\* _mlp_step_key finds no sigma in these options and counts the forwards.
StepKey == IF block = 0 THEN epoch + 1 ELSE epoch

-----------------------------------------------------------------------------
(* How a proposal becomes the rows of the call.                            *)

\* Mutant: the freeze of a step is not looked at.
NeverFrozen(new) == FALSE

\* A later call of the step that asks for no less than the step began with.
Frozen(new) ==
  /\ freezes[tokens].step = StepKey
  /\ new >= freezes[tokens].rows

Streak(new) ==
  IF upgrades[tokens].candidate = new THEN upgrades[tokens].stable + 1 ELSE 1
Steady(new, margin) ==
  ~Frozen(new) /\ selections[tokens] # 0 /\ new > selections[tokens] /\ margin
Upgraded(new, margin) == Steady(new, margin) /\ Streak(new) >= UpgradeStableCalls

\* It falls at once and rises when the budget has been steady.
Applied(new, margin) ==
  IF Frozen(new) THEN freezes[tokens].rows
  ELSE IF selections[tokens] = 0 \/ new < selections[tokens] \/ Upgraded(new, margin)
    THEN new ELSE selections[tokens]

UpgradeState(new, margin) ==
  IF Frozen(new) THEN upgrades[tokens]
  ELSE IF Steady(new, margin) /\ ~Upgraded(new, margin)
    THEN [candidate |-> new, stable |-> Streak(new)] ELSE NoUpgrade

\* History: the opening call of a step begins a record, the others add to it.
Noted(new, margin) ==
  LET was == asked[tokens]
  IN IF was.now.step = StepKey
     THEN [now |-> [step |-> StepKey, opening |-> was.now.opening, margin |-> was.now.margin,
                    least |-> SmallerOf(was.now.least, new)],
           before |-> was.before, earlier |-> was.earlier]
     ELSE [now |-> [step |-> StepKey, opening |-> new, margin |-> margin, least |-> new],
           before |-> was.now, earlier |-> was.before]

\* _call_mlp: count rows from first on are computed and stand in the output.
Computed(done, first, count) ==
  [row \in 0..(tokens - 1) |->
     done[row] + (IF row - first \in 0..(count - 1) THEN 1 ELSE 0)]

\* Both weights are prepared once if the path has them and the driver has
\* memory for both, after one request for it on the FP8 profile.
PairPrepared ==
  IF options.experimental /\ options.controller THEN BOOLEAN ELSE {FALSE}

\* The weights cannot be prepared, or memory runs out or a page faults.
PairFails == stage \in {"loop", "compute"} /\ prepared

\* The locals of a call end with it.
CallEnds ==
  /\ chunkTokens' = 0 /\ prepared' = FALSE /\ chunkStart' = 0 /\ rows' = 0
  /\ recovered' = FALSE /\ output' = Unwritten(tokens)

-----------------------------------------------------------------------------
Init ==
  /\ options \in Options
  /\ selections = [n \in Lengths |-> 0] /\ freezes = [n \in Lengths |-> NoFreeze]
  /\ upgrades = [n \in Lengths |-> NoUpgrade] /\ caps = [n \in Lengths |-> 0]
  /\ asked = [n \in Lengths |-> [now |-> Unasked, before |-> Unasked, earlier |-> Unasked]]
  /\ epoch = 0 /\ forwards = 0
  /\ tokens \in Lengths /\ block = Blocks
  /\ stage = "between" /\ chunkTokens = 0 /\ prepared = FALSE
  /\ chunkStart = 0 /\ rows = 0 /\ recovered = FALSE /\ output = Unwritten(tokens)

\* The sampler runs the model again, on a sequence of n rows: for another
\* batch of conditions, another step or another sample.
NewForward(n) ==
  /\ stage = "between" /\ block = Blocks /\ forwards < MaxForwards
  /\ forwards' = forwards + 1
  /\ tokens' = n /\ block' = 0
  /\ output' = Unwritten(n)
  /\ UNCHANGED <<options, policy, caps, stage, chunkTokens, prepared, chunkStart, rows,
                 recovered>>

\* chunked_forward chooses its rows from this call's memory readings.
SelectAdaptive(budget) ==
  /\ stage = "between" /\ block < Blocks /\ options.adaptive
  /\ LET new == Proposed(tokens, budget)
         margin == budget >= new + Margin
         applied == Applied(new, margin)
     IN /\ selections' = [selections EXCEPT ![tokens] = applied]
        /\ upgrades' = [upgrades EXCEPT ![tokens] = UpgradeState(new, margin)]
        /\ freezes' = [freezes EXCEPT ![tokens] = [step |-> StepKey, rows |-> applied]]
        /\ asked' = [asked EXCEPT ![tokens] = Noted(new, margin)]
        /\ chunkTokens' = applied
  /\ epoch' = StepKey
  /\ stage' = "selected"
  /\ UNCHANGED <<options, caps, forward, loop>>

\* Without adaption the rows are those of the node.
SelectFixed ==
  /\ stage = "between" /\ block < Blocks /\ ~options.adaptive
  /\ chunkTokens' = options.rows
  /\ stage' = "selected"
  /\ UNCHANGED <<options, policy, caps, forward, loop>>

\* The sequence fits in one chunk, or the rows are zero.
RunWhole ==
  /\ stage = "selected"
  /\ chunkTokens = 0 \/ tokens <= chunkTokens
  /\ output' = Computed(Unwritten(tokens), 0, tokens)
  /\ stage' = "returned"
  /\ UNCHANGED <<options, policy, caps, forward, chunkTokens, prepared, chunkStart,
                 rows, recovered>>

\* execute_chunks begins, perhaps with prepared weights.
BeginChunks ==
  /\ stage = "selected" /\ chunkTokens # 0 /\ tokens > chunkTokens
  /\ prepared' \in PairPrepared
  /\ chunkStart' = 0 /\ output' = Unwritten(tokens)
  /\ stage' = "loop"
  /\ UNCHANGED <<options, policy, caps, forward, chunkTokens, rows, recovered>>

\* The next chunk, within what earlier failures of this length left.
NextChunk ==
  /\ stage = "loop" /\ chunkStart < tokens
  /\ rows' = SmallerOf(PressureLimit(tokens, chunkTokens), tokens - chunkStart)
  /\ recovered' = FALSE
  /\ stage' = "compute"
  /\ UNCHANGED <<options, policy, caps, forward, chunkTokens, prepared, chunkStart, output>>

\* Its rows are computed and stand in the output.
FinishChunk ==
  /\ stage = "compute"
  /\ output' = Computed(output, chunkStart, rows)
  /\ chunkStart' = chunkStart + rows
  /\ stage' = "loop"
  /\ UNCHANGED <<options, policy, caps, forward, chunkTokens, prepared, rows, recovered>>

\* _record_chunk_pressure: half the rows that failed, for this length.
RecordChunkPressure ==
  IF options.adaptive /\ rows >= Minimum
  THEN LET cap == LargerOf(Minimum, Alignment * (rows \div (2 * Alignment)))
           was == IF caps[tokens] = 0 THEN rows ELSE caps[tokens]
       IN [caps EXCEPT ![tokens] = SmallerOf(was, cap)]
  ELSE caps

\* allocate_with_recovery: a chunk with its own casts ran out of memory; once
\* memory is reclaimed the same rows are computed again.
RecoverChunk ==
  /\ stage = "compute" /\ ~prepared /\ ~recovered
  /\ caps' = RecordChunkPressure
  /\ recovered' = TRUE
  /\ UNCHANGED <<options, policy, forward, stage, chunkTokens, prepared, chunkStart,
                 rows, output>>

\* Mutant: the chunks done with prepared weights are not done again.
FallbackResumes ==
  /\ PairFails
  /\ prepared' = FALSE /\ output' = Unwritten(tokens)
  /\ stage' = "loop"
  /\ UNCHANGED <<options, policy, caps, forward, chunkTokens, chunkStart, rows, recovered>>

\* All chunks once more with their own casts, into an output of their own.
Fallback ==
  /\ PairFails
  /\ prepared' = FALSE /\ chunkStart' = 0 /\ output' = Unwritten(tokens)
  /\ stage' = "loop"
  /\ UNCHANGED <<options, policy, caps, forward, chunkTokens, rows, recovered>>

\* Any other error, and one after the recovery, ends the call and the forward;
\* what it has learned of the memory stays.
Raises ==
  /\ stage # "between"
  /\ stage' = "between" /\ block' = Blocks /\ CallEnds
  /\ UNCHANGED <<options, policy, caps, forwards, tokens>>

\* The loop has passed the last row.
ReturnChunks ==
  /\ stage = "loop" /\ chunkStart >= tokens
  /\ stage' = "returned"
  /\ UNCHANGED <<options, policy, caps, forward, chunkTokens, loop>>

NextBlock ==
  /\ stage = "returned"
  /\ stage' = "between" /\ block' = block + 1 /\ CallEnds
  /\ UNCHANGED <<options, policy, caps, forwards, tokens>>

Next ==
  \/ \E n \in Lengths : NewForward(n)
  \/ \E budget \in Budgets : SelectAdaptive(budget)
  \/ SelectFixed \/ RunWhole \/ BeginChunks \/ NextChunk \/ FinishChunk
  \/ RecoverChunk \/ Fallback \/ Raises \/ ReturnChunks \/ NextBlock

Spec == Init /\ [][Next]_vars

-----------------------------------------------------------------------------
(* Properties.                                                             *)

\* A call that returns has written every row once, in the attempt it returns,
\* at whichever chunk the limit fell and whichever attempt was given up.
ResultWhole ==
  stage = "returned" => \A row \in 0..(tokens - 1) : output[row] = 1

\* "Stable runtime budget upgrade": the rows of a length grow only if the
\* opening calls of the latest three forwards of that length all asked for just
\* these rows with room to spare, and no call of those forwards asked for fewer
\* than are in use, whatever forwards of other lengths or that failed lie
\* between.  They never grow within a forward.
GrowthEarned ==
  [][\A n \in Lengths :
       selections[n] # 0 /\ selections'[n] > selections[n] =>
         /\ asked'[n].now.step # asked[n].now.step
         /\ \A call \in {asked'[n].now, asked'[n].before, asked'[n].earlier} :
              /\ call.opening = selections'[n] /\ call.margin
              /\ call.least >= selections[n]]_vars
=============================================================================
