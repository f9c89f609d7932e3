----------------------------- MODULE RangeStream -----------------------------
(***************************************************************************)
(* Attention that is never materialised whole: a stream of query ranges    *)
(* (sol_range.py for the sparse route, exact_flash_range.py for the exact  *)
(* one) is pulled by the output projection of h3_mixed_precision.py, which *)
(* writes the projected ranges over its own disposable input.  A stream    *)
(* that fails is replaced by an exact one with smaller ranges.  The        *)
(* streams are generators: one that has raised or ended yields no more.    *)
(*                                                                         *)
(* Abstracted: a row of the target is the input, zero, the audio result or *)
(* what a stream computed; a stream is its route and the size it began     *)
(* with, which no later one of the call shares.                            *)
(***************************************************************************)
EXTENDS Integers

CONSTANTS
  Tokens,     \* query rows of the call
  BlockSize,  \* rows of an attention block, 64 in the code
  Chunks,     \* chunk sizes of the first stream
  Layouts     \* audio_ranges of a call: sets of half-open intervals

ASSUME RangeAssumption ==
  /\ Tokens \in Nat \ {0} /\ BlockSize \in Nat \ {0}
  /\ Chunks \subseteq Nat \ {0}
  /\ \A layout \in Layouts : layout \subseteq Int \X Int

VARIABLES
  audio,       \* audio_ranges, empty when no overwrite is promised
  reuse,       \* the options ask for a prepared projection weight
  stage,       \* where the consumer stands
  prepared,    \* it projects with a prepared weight
  started,     \* a range has reached it in this call
  kind,        \* the current stream: "sparse" or "exact"
  chunk,       \* its chunk_tokens
  active,      \* active_chunk
  generator,   \* its generator: "open", or "finished" and exhausted
  start,       \* rows its loop has passed
  stop,        \* end of the range last yielded
  fault,       \* what left the projection
  timing,      \* calibration waits for the kernel time of the first stream
  withdrawn,   \* runtime_failure: the Sol admission is taken back
  target       \* row by row, what it holds

consumer == <<stage, prepared, started, fault>>
stream == <<kind, chunk, active, generator, start, stop>>
vars == <<audio, reuse, consumer, stream, timing, withdrawn, target>>

Rows == 0..(Tokens - 1)
Input == <<"input", 0>>
Zeroed == <<"zero", 0>>
AudioResult == <<"audio", 0>>
Source == <<kind, chunk>>
Faults == {"memory", "other", "fatal"}
SmallerOf(a, b) == IF a < b THEN a ELSE b
LargerOf(a, b) == IF a > b THEN a ELSE b
\* Half the chunk in whole blocks, at least one.
Halved(n) == LargerOf(BlockSize, BlockSize * (n \div (2 * BlockSize)))

-----------------------------------------------------------------------------
(* sol_calibration.py: audio intervals and the blocks they cover whole.    *)

Valid(layout) == {r \in layout : 0 <= r[1] /\ r[1] < r[2] /\ r[2] <= Tokens}
AudioRows == [layout \in Layouts |-> UNION {r[1]..(r[2] - 1) : r \in Valid(layout)}]

\* Touching intervals are one: the rows from a to b and no more.
MergedAudioRanges(layout) ==
  {r \in Rows \X (1..Tokens) :
     /\ r[1] < r[2] /\ r[1]..(r[2] - 1) \subseteq AudioRows[layout]
     /\ {r[1] - 1, r[2]} \cap AudioRows[layout] = {}}

Ceil(n) == (n + BlockSize - 1) \div BlockSize

\* Mutant: a block counts as audio as soon as the interval reaches into it.
TouchedBlocks(r) == (r[1] \div BlockSize)..(Ceil(r[2]) - 1)

\* The blocks of one interval; the last block of the call may be short.
FullAudioQueryBlocks(r) ==
  Ceil(r[1])..((IF r[2] = Tokens THEN Ceil(Tokens) ELSE r[2] \div BlockSize) - 1)

\* Both streams skip whole audio blocks and leave zeros in their place.
SkippedBlocks ==
  [layout \in Layouts |->
     UNION {FullAudioQueryBlocks(r) : r \in MergedAudioRanges(layout)}]
IsAudio(row) == row \div BlockSize \in SkippedBlocks[audio]

\* Audio rows are overwritten, the rest is what the kernel or the skip left.
Projected(row) ==
  IF row \in AudioRows[audio] THEN AudioResult ELSE IF IsAudio(row) THEN Zeroed ELSE Source

\* A range stays within its chunk, and within or outside the audio blocks.
RangeEnds(from) ==
  {to \in (from + 1)..SmallerOf(from + active, Tokens) :
     /\ \A row \in from..(to - 1) : IsAudio(row) = IsAudio(from)
     /\ to = SmallerOf(from + active, Tokens) \/ IsAudio(to) # IsAudio(from)}

-----------------------------------------------------------------------------
Init ==
  /\ audio \in Layouts /\ reuse \in BOOLEAN
  /\ stage = "project" /\ prepared = FALSE /\ started = FALSE /\ fault = "none"
  /\ kind \in {"sparse", "exact"}
  /\ chunk \in {BlockSize * c : c \in Chunks} /\ active = chunk
  /\ generator = "open" /\ start = 0 /\ stop = 0
  /\ timing \in (IF kind = "exact" THEN {"none", "pending"} ELSE {"none"})
  /\ withdrawn = FALSE
  /\ target = [row \in Rows |-> Input]

\* close: the timing callback hears of it once, with a time only if all was
\* read and the events of the kernels can be read too.
Close(completed) ==
  /\ generator' = "finished"
  /\ timing' \in (IF timing = "pending"
                 THEN IF completed THEN {"measured", "failed"} ELSE {"failed"}
                 ELSE {timing})

\* _project_attention_chunks_into_input: with a prepared weight if that is
\* asked for, supported and fits, otherwise with the ordinary projection.
BeginProjection ==
  /\ stage = "project"
  /\ stage' = "pull" /\ started' = FALSE
  /\ prepared' \in (IF reuse THEN BOOLEAN ELSE {FALSE})
  /\ UNCHANGED <<audio, reuse, fault, stream, timing, withdrawn, target>>

\* The loop over the chunks takes the next one.
Pull ==
  /\ stage = "pull" /\ generator = "open" /\ start < Tokens
  /\ stage' = "chunk" /\ started' = TRUE
  /\ stop' \in RangeEnds(start)
  /\ UNCHANGED <<audio, reuse, prepared, fault, kind, chunk, active, generator,
                 start, timing, withdrawn, target>>

\* The exact kernel runs out of memory: a smaller chunk of the same rows.
ReduceChunk ==
  /\ stage = "pull" /\ generator = "open" /\ start < Tokens /\ ~IsAudio(start)
  /\ kind = "exact" /\ active > BlockSize
  /\ active' = Halved(active)
  /\ UNCHANGED <<audio, reuse, consumer, kind, chunk, generator, start, stop,
                 timing, withdrawn, target>>

\* A range cannot be computed; the weight context or the library may fail too.
KernelRaises(f) ==
  /\ stage = "pull" /\ generator = "open" /\ start < Tokens
  /\ f = "memory" /\ kind = "exact" /\ ~IsAudio(start) => active <= BlockSize
  /\ Close(FALSE)
  /\ stage' = "raised" /\ fault' = f
  /\ UNCHANGED <<audio, reuse, prepared, started, kind, chunk, active, start,
                 stop, withdrawn, target>>

\* The range is projected over the rows it came from.
WriteChunk ==
  /\ stage = "chunk"
  /\ stage' = "pull" /\ start' = stop
  /\ target' = [row \in Rows |->
                  IF start <= row /\ row < stop THEN Projected(row) ELSE target[row]]
  /\ UNCHANGED <<audio, reuse, prepared, started, fault, kind, chunk, active,
                 generator, stop, timing, withdrawn>>

\* Mutant: the range that was being projected counts as read.
ProjectionRaisesCompleted(f) ==
  /\ stage = "chunk"
  /\ Close(stop = Tokens)
  /\ stage' = "raised" /\ fault' = f
  /\ UNCHANGED <<audio, reuse, prepared, started, kind, chunk, active, start,
                 stop, withdrawn, target>>

\* The projection of a range fails; its generator dies with the frame.
ProjectionRaises(f) ==
  /\ stage = "chunk"
  /\ Close(FALSE)
  /\ stage' = "raised" /\ fault' = f
  /\ UNCHANGED <<audio, reuse, prepared, started, kind, chunk, active, start,
                 stop, withdrawn, target>>

\* The generator's loop ends.
Exhausted ==
  /\ stage = "pull" /\ generator = "open" /\ start = Tokens
  /\ Close(TRUE)
  /\ stage' = "returned"
  /\ UNCHANGED <<audio, reuse, prepared, started, fault, kind, chunk, active,
                 start, stop, withdrawn, target>>

\* The stream is read to its end, but the prepared weight cannot be let go.
ContextRaises(f) ==
  /\ stage = "pull" /\ generator = "open" /\ start = Tokens /\ prepared
  /\ Close(TRUE)
  /\ stage' = "raised" /\ fault' = f
  /\ UNCHANGED <<audio, reuse, prepared, started, kind, chunk, active, start,
                 stop, withdrawn, target>>

\* A loop over a finished generator ends at once.
NothingToPull ==
  /\ stage = "pull" /\ generator = "finished"
  /\ stage' = "returned"
  /\ UNCHANGED <<audio, reuse, prepared, started, fault, stream, timing, withdrawn, target>>

\* Out of memory before a range arrived: again with the ordinary projection.
RetryOrdinary ==
  /\ stage = "raised" /\ prepared /\ fault = "memory" /\ ~started
  /\ stage' = "pull" /\ prepared' = FALSE /\ fault' = "none"
  /\ UNCHANGED <<audio, reuse, started, stream, timing, withdrawn, target>>

\* Mutant: the exact stream goes on where the other failed.
FallbackResumes ==
  /\ stage = "raised" /\ fault # "fatal"
  /\ ~(prepared /\ fault = "memory" /\ ~started)
  /\ kind = "sparse" \/ chunk > BlockSize
  /\ withdrawn' = (withdrawn \/ kind = "sparse")
  /\ kind' = "exact"
  /\ chunk' = IF kind = "sparse" THEN chunk
              ELSE Halved(chunk)
  /\ active' = chunk' /\ generator' = "open" /\ stop' = 0
  /\ stage' = "project" /\ fault' = "none"
  /\ UNCHANGED <<audio, reuse, prepared, started, start, timing, target>>

\* Mutant: the fallback of an exact stream has its chunk.
FallbackSameChunk ==
  /\ stage = "raised" /\ fault # "fatal"
  /\ ~(prepared /\ fault = "memory" /\ ~started)
  /\ withdrawn' = (withdrawn \/ kind = "sparse")
  /\ kind' = "exact"
  /\ active' = chunk /\ generator' = "open" /\ start' = 0 /\ stop' = 0
  /\ stage' = "project" /\ fault' = "none"
  /\ UNCHANGED <<audio, reuse, chunk, prepared, started, timing, target>>

\* exact_fallback: the Sol admission is taken back and an exact stream starts
\* from the first row, an exact one by one with half its chunk.
Fallback ==
  /\ stage = "raised" /\ fault # "fatal"
  /\ ~(prepared /\ fault = "memory" /\ ~started)
  /\ kind = "sparse" \/ chunk > BlockSize
  /\ withdrawn' = (withdrawn \/ kind = "sparse")
  /\ kind' = "exact"
  /\ chunk' = IF kind = "sparse" THEN chunk
              ELSE Halved(chunk)
  /\ active' = chunk' /\ generator' = "open" /\ start' = 0 /\ stop' = 0
  /\ stage' = "project" /\ fault' = "none"
  /\ UNCHANGED <<audio, reuse, prepared, started, timing, target>>

\* A fatal device error, a cancellation, or no smaller stream is left.
Propagates ==
  /\ stage = "raised"
  /\ \/ fault = "fatal"
     \/ /\ ~(prepared /\ fault = "memory" /\ ~started)
        /\ kind = "exact" /\ chunk <= BlockSize
  /\ stage' = "failed"
  /\ UNCHANGED <<audio, reuse, prepared, started, fault, stream, timing, withdrawn, target>>

Next ==
  \/ BeginProjection \/ Pull \/ ReduceChunk \/ WriteChunk
  \/ \E f \in Faults : KernelRaises(f) \/ ProjectionRaises(f) \/ ContextRaises(f)
  \/ Exhausted \/ NothingToPull \/ RetryOrdinary \/ Fallback \/ Propagates

Spec == Init /\ [][Next]_vars
\* The consumer is one thread that runs on.
FairSpec == Spec /\ WF_vars(Next)

-----------------------------------------------------------------------------
(* Properties.                                                             *)

Whole == \A row \in Rows : target[row] \in {Source, AudioResult, Zeroed}

\* A consumer that was still reading its stream when it returned hands out
\* rows of this one stream only: nothing of the input, and nothing of a stream
\* that failed half way, is left between them.
LiveReturnsWhole == [][generator = "open" /\ stage' = "returned" => Whole']_vars

\* "Consume a bounded Sol stream transactionally": whatever the consumer
\* returns has all its rows from one stream.
ConsumedWhole == stage = "returned" => Whole

\* The rows a stream leaves zero for audio are all overwritten by the audio
\* result, at whichever rows the audio begins and ends within a block.
ZeroesOverwritten == \A row \in Rows : target[row] # Zeroed

\* Calibration gets a time only for a stream of which every range has been
\* computed and projected, though the call may yet fail or have failed before.
TimingMeansWhole == [][timing # "measured" /\ timing' = "measured" => Whole']_vars

\* However kernels and projections fail, the consumer returns or fails.
ConsumeEnds == <>(stage \in {"returned", "failed"})
=============================================================================
