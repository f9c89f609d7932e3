-------------------------- MODULE RangeStreamProofs --------------------------
(***************************************************************************)
(* What RangeStream promises for every number of rows, block size, chunk   *)
(* size and audio layout.  The first invariant relates the position of an  *)
(* open generator to the rows its consumer has written, across failures    *)
(* and fallbacks; the second says what block arithmetic leaves in a row.   *)
(***************************************************************************)
EXTENDS RangeStream, TLAPS

OfStream == {Source, AudioResult, Zeroed}

\* The loop stays within the call, and a range that is being projected belongs
\* to an open generator; a failure leaves none that is open, and a consumer
\* begins with the first row of a new stream.
PositionOf ==
  /\ start \in Int /\ start <= Tokens /\ stop \in Int
  /\ chunk \in Int /\ active \in Int
  /\ stage = "chunk" => generator = "open" /\ start < stop /\ stop <= Tokens
  /\ stage = "raised" => generator = "finished"
  /\ stage = "project" => generator = "open" /\ start = 0

\* The rows an open generator has passed are its own.
PassedRows ==
  stage \in {"pull", "chunk"} /\ generator = "open" =>
    \A row \in Rows : row < start => target[row] \in OfStream

RangeInv == PositionOf /\ PassedRows

LEMMA ProjectedRow == \A row : Projected(row) \in OfStream
  BY DEF Projected, OfStream

LEMMA RangeInside ==
  ASSUME start \in Int, active \in Int, start < Tokens, NEW to \in RangeEnds(start)
  PROVE  to \in Int /\ start < to /\ to <= Tokens
  <1>1. to \in (start + 1)..SmallerOf(start + active, Tokens)
    BY DEF RangeEnds
  <1>2. CASE start + active < Tokens
    BY <1>1, <1>2, RangeAssumption DEF SmallerOf
  <1>3. CASE ~(start + active < Tokens)
    BY <1>1, <1>3, RangeAssumption DEF SmallerOf
  <1> QED BY <1>2, <1>3

LEMMA HalvedType == ASSUME NEW n \in Int PROVE Halved(n) \in Int
  <1>1. 2 * BlockSize \in Nat \ {0} /\ BlockSize \in Int
    BY RangeAssumption
  <1>2. n \div (2 * BlockSize) \in Int
    BY <1>1
  <1>3. BlockSize * (n \div (2 * BlockSize)) \in Int
    BY <1>1, <1>2
  <1> QED BY <1>1, <1>3 DEF Halved, LargerOf

\* A generator that has passed all rows leaves them whole.
LEMMA EndIsWhole ==
  ASSUME RangeInv, stage = "pull", generator = "open", start = Tokens
  PROVE  Whole
  <1>1. \A row \in Rows : row < Tokens
    BY RangeAssumption DEF Rows
  <1> QED BY <1>1 DEF RangeInv, PassedRows, Whole, OfStream

LEMMA InitRangeInv == Init => RangeInv
  <1>1. \A c \in Nat \ {0} : BlockSize * c \in Int
    BY RangeAssumption
  <1> QED BY <1>1, RangeAssumption DEF Init, RangeInv, PositionOf, PassedRows

LEMMA RangeInvStep == RangeInv /\ [Next]_vars => RangeInv'
  <1> SUFFICES ASSUME RangeInv, [Next]_vars PROVE RangeInv'
    OBVIOUS
  <1> USE DEF RangeInv, PositionOf
  <1>1. CASE BeginProjection
    <2>1. Tokens \in Int /\ \A row \in Rows : ~(row < 0)
      BY RangeAssumption DEF Rows
    <2> QED BY <1>1, <2>1 DEF BeginProjection, PassedRows, stream, Whole, Source
  <1>2. CASE Pull
    <2>1. start' = start /\ stop' \in Int /\ start < stop' /\ stop' <= Tokens
      BY <1>2, RangeInside DEF Pull
    <2>2. PassedRows'
      BY <1>2 DEF Pull, PassedRows, OfStream, Source
    <2> QED BY <1>2, <2>1, <2>2 DEF Pull
  <1>3. CASE ReduceChunk
    BY <1>3, HalvedType DEF ReduceChunk, PassedRows, OfStream, Source, consumer
  <1>4. CASE WriteChunk
    <2>1. \A row \in Rows : row < start' => target'[row] \in OfStream'
      <3> SUFFICES ASSUME NEW row \in Rows, row < stop PROVE target'[row] \in OfStream
        BY <1>4 DEF WriteChunk, OfStream, Source
      <3>1. row \in Int /\ target'[row] = IF start <= row /\ row < stop THEN Projected(row)
                                         ELSE target[row]
        BY <1>4, RangeAssumption DEF WriteChunk, Rows
      <3>2. CASE start <= row
        BY <3>1, <3>2, ProjectedRow
      <3>3. CASE row < start
        BY <1>4, <3>1, <3>3 DEF WriteChunk, PassedRows
      <3> QED BY <3>1, <3>2, <3>3
    <2> QED BY <1>4, <2>1 DEF WriteChunk, PassedRows
  <1>5. ASSUME NEW f \in Faults, KernelRaises(f) \/ ProjectionRaises(f) PROVE RangeInv'
    BY <1>5 DEF KernelRaises, ProjectionRaises, Close, PassedRows
  <1>6. CASE Exhausted \/ \E f \in Faults : ContextRaises(f)
    BY <1>6 DEF Exhausted, ContextRaises, Close, PassedRows
  <1>7. CASE NothingToPull \/ Propagates
    BY <1>7 DEF NothingToPull, Propagates, PassedRows, stream
  <1>8. CASE RetryOrdinary
    BY <1>8 DEF RetryOrdinary, PassedRows, stream
  <1>9. CASE Fallback
    BY <1>9, RangeAssumption, HalvedType DEF Fallback, PassedRows
  <1>10. CASE UNCHANGED vars
    BY <1>10 DEF vars, consumer, stream, PassedRows, OfStream, Source, Whole
  <1> QED BY <1>1, <1>2, <1>3, <1>4, <1>5, <1>6, <1>7, <1>8, <1>9, <1>10 DEF Next

THEOREM RangeInvariant == Spec => []RangeInv
  BY InitRangeInv, RangeInvStep, PTL DEF Spec

\* Calibration gets a time only for a stream that was computed and projected
\* whole, for any chunk sizes, audio layout and failures.
THEOREM TimingCorrect == Spec => TimingMeansWhole
  <1>1. RangeInv /\ [Next]_vars =>
          [timing # "measured" /\ timing' = "measured" => Whole']_vars
    <2> SUFFICES ASSUME RangeInv, Next, timing # "measured", timing' = "measured"
                 PROVE  Whole'
      BY DEF vars
    <2>1. Exhausted \/ \E f \in Faults : ContextRaises(f)
      BY DEF Next, BeginProjection, Pull, ReduceChunk, WriteChunk, KernelRaises,
         ProjectionRaises, Close, NothingToPull, RetryOrdinary, Fallback, Propagates
    <2>2. Whole
      BY <2>1, EndIsWhole DEF Exhausted, ContextRaises
    <2> QED BY <2>1, <2>2 DEF Exhausted, ContextRaises, Whole, Source
  <1> QED BY <1>1, RangeInvariant, PTL DEF Spec, TimingMeansWhole

\* A consumer that reads its stream to the end returns rows of that stream.
THEOREM LiveReturnCorrect == Spec => LiveReturnsWhole
  <1>1. RangeInv /\ [Next]_vars => [generator = "open" /\ stage' = "returned" => Whole']_vars
    <2> SUFFICES ASSUME RangeInv, Next, generator = "open", stage' = "returned" PROVE Whole'
      BY DEF vars
    <2>1. stage = "pull" /\ start = Tokens /\ Exhausted
      BY DEF Next, BeginProjection, Pull, ReduceChunk, WriteChunk, KernelRaises,
         ProjectionRaises, ContextRaises, Exhausted, NothingToPull, RetryOrdinary, Fallback,
         Propagates, consumer
    <2>2. Whole
      BY <2>1, EndIsWhole
    <2> QED BY <2>1, <2>2 DEF Exhausted, Whole, Source
  <1> QED BY <1>1, RangeInvariant, PTL DEF Spec, LiveReturnsWhole

-----------------------------------------------------------------------------
(* The rows a stream leaves zero.                                          *)

LEMMA DivisionBounds ==
  ASSUME NEW n \in Nat, NEW d \in Nat \ {0}
  PROVE  n \div d \in Nat /\ d * (n \div d) <= n /\ n < d * (n \div d) + d
  BY Z3

LEMMA BlockMonotone ==
  ASSUME NEW m \in Int, NEW n \in Int, m <= n
  PROVE  BlockSize * m <= BlockSize * n
  BY RangeAssumption, Z3

\* A block is skipped only where all its rows are audio.
LEMMA BlockInside ==
  ASSUME NEW r \in Rows \X (1..Tokens), NEW row \in Rows,
         row \div BlockSize \in FullAudioQueryBlocks(r)
  PROVE  row \in r[1]..(r[2] - 1)
  <1> DEFINE b == row \div BlockSize
  <1>1. /\ Tokens \in Nat \ {0} /\ BlockSize \in Nat \ {0}
        /\ row \in Nat /\ row < Tokens
        /\ r[1] \in Nat /\ r[2] \in Nat /\ r[2] <= Tokens
    BY RangeAssumption DEF Rows
  <1>2. b \in Nat /\ BlockSize * b <= row /\ row < BlockSize * b + BlockSize
    BY <1>1, DivisionBounds
  <1>3. r[1] <= row
    <2> DEFINE c == Ceil(r[1])
    <2>1. r[1] + BlockSize - 1 \in Nat
      BY <1>1
    <2>2. c \in Nat /\ r[1] + BlockSize - 1 < BlockSize * c + BlockSize
      BY <2>1, <1>1, DivisionBounds DEF Ceil
    <2>3. c <= b
      <3>1. b \in c..((IF r[2] = Tokens THEN Ceil(Tokens) ELSE r[2] \div BlockSize) - 1)
        BY DEF FullAudioQueryBlocks
      <3>2. Ceil(Tokens) \in Int /\ r[2] \div BlockSize \in Int
        BY <1>1 DEF Ceil
      <3> QED BY <3>1, <3>2, <2>2
    <2>4. BlockSize * c <= BlockSize * b
      BY <1>2, <2>2, <2>3, BlockMonotone
    <2>5. BlockSize * c \in Int /\ BlockSize * b \in Int
      BY <1>1, <1>2, <2>2
    <2> HIDE DEF b, c
    <2> QED BY <1>1, <1>2, <2>2, <2>4, <2>5
  <1>4. row < r[2]
    <2>1. CASE r[2] = Tokens
      BY <2>1, <1>1
    <2>2. CASE r[2] # Tokens
      <3> DEFINE d == r[2] \div BlockSize
      <3>1. d \in Nat /\ BlockSize * d <= r[2]
        BY <1>1, DivisionBounds
      <3>2. b + 1 <= d
        <4>1. b \in Ceil(r[1])..(d - 1)
          BY <2>2 DEF FullAudioQueryBlocks
        <4>2. Ceil(r[1]) \in Int
          BY <1>1 DEF Ceil
        <4> QED BY <4>1, <4>2, <3>1, <1>2
      <3>3. BlockSize * (b + 1) <= BlockSize * d
        BY <1>2, <3>1, <3>2, BlockMonotone
      <3>4. BlockSize * (b + 1) = BlockSize * b + BlockSize
        BY <1>1, <1>2
      <3>5. BlockSize * b \in Int /\ BlockSize * d \in Int
        BY <1>1, <1>2, <3>1
      <3> HIDE DEF b, d
      <3> QED BY <1>1, <1>2, <3>1, <3>3, <3>4, <3>5
    <2> QED BY <2>1, <2>2
  <1> QED BY <1>1, <1>3, <1>4

\* Touching intervals are merged first, so no boundary is lost or invented.
LEMMA SkippedIsAudio ==
  ASSUME audio \in Layouts, NEW row \in Rows, IsAudio(row)
  PROVE  row \in AudioRows[audio]
  <1>1. PICK r \in MergedAudioRanges(audio) : row \div BlockSize \in FullAudioQueryBlocks(r)
    BY DEF IsAudio, SkippedBlocks
  <1>2. r \in Rows \X (1..Tokens) /\ r[1]..(r[2] - 1) \subseteq AudioRows[audio]
    BY DEF MergedAudioRanges
  <1> QED BY <1>1, <1>2, BlockInside

\* The layout and the route are what Init and the fallback make them.
ZeroInv == audio \in Layouts /\ kind \in {"sparse", "exact"} /\ ZeroesOverwritten

LEMMA ProjectedNotZeroed ==
  ASSUME audio \in Layouts, kind \in {"sparse", "exact"}, NEW row \in Rows
  PROVE  Projected(row) # Zeroed
  <1>1. Source # Zeroed /\ AudioResult # Zeroed
    BY DEF Source, Zeroed, AudioResult
  <1> QED BY <1>1, SkippedIsAudio DEF Projected

LEMMA InitZeroInv == Init => ZeroInv
  <1>1. Input # Zeroed
    BY DEF Input, Zeroed
  <1> QED BY <1>1 DEF Init, ZeroInv, ZeroesOverwritten

LEMMA ZeroInvStep == ZeroInv /\ [Next]_vars => ZeroInv'
  <1> SUFFICES ASSUME ZeroInv, [Next]_vars PROVE ZeroInv'
    OBVIOUS
  <1> USE DEF ZeroInv
  <1>1. Zeroed' = Zeroed
    BY DEF Zeroed
  <1>2. CASE WriteChunk
    <2>1. audio' = audio /\ kind' = kind
      BY <1>2 DEF WriteChunk
    <2>2. ASSUME NEW row \in Rows PROVE target'[row] # Zeroed
      <3>1. target'[row] = IF start <= row /\ row < stop THEN Projected(row) ELSE target[row]
        BY <1>2 DEF WriteChunk
      <3> QED BY <3>1, ProjectedNotZeroed DEF ZeroesOverwritten
    <2> QED BY <1>1, <2>1, <2>2 DEF ZeroesOverwritten
  <1>3. CASE Fallback
    BY <1>1, <1>3 DEF Fallback, ZeroesOverwritten
  <1>4. CASE UNCHANGED <<audio, kind, target>>
    BY <1>1, <1>4 DEF ZeroesOverwritten
  <1>5. CASE Next /\ ~WriteChunk /\ ~Fallback
    <2> QED BY <1>4, <1>5 DEF Next, BeginProjection, Pull, ReduceChunk, KernelRaises,
          ProjectionRaises, ContextRaises, Exhausted, NothingToPull, RetryOrdinary, Propagates,
          consumer, stream
  <1>6. CASE UNCHANGED vars
    BY <1>4, <1>6 DEF vars, stream
  <1> QED BY <1>2, <1>3, <1>5, <1>6

\* The rows a stream leaves zero are all overwritten, for every number of rows
\* and block size and for every layout of the audio: however its intervals
\* overlap, touch or end within a block, a block is skipped only if each of its
\* rows is one the overwrite covers.
THEOREM ZeroesCorrect == Spec => []ZeroesOverwritten
  <1>1. ZeroInv => ZeroesOverwritten
    BY DEF ZeroInv
  <1> QED BY InitZeroInv, ZeroInvStep, <1>1, PTL DEF Spec

-----------------------------------------------------------------------------
(* Why the streams of a call come to an end.                               *)

LEMMA HalvedShrinks ==
  ASSUME NEW n \in Int, n > BlockSize
  PROVE  Halved(n) \in Int /\ BlockSize <= Halved(n) /\ Halved(n) < n
  <1> DEFINE half == n \div (2 * BlockSize)
  <1>1. BlockSize \in Nat \ {0} /\ n \in Nat /\ 2 * BlockSize \in Nat \ {0}
    BY RangeAssumption
  <1>2. half \in Nat /\ (2 * BlockSize) * half <= n
    BY <1>1, DivisionBounds
  <1>3. (2 * BlockSize) * half = 2 * (BlockSize * half) /\ BlockSize * half \in Nat
    BY <1>1, <1>2
  <1>4. BlockSize * half < n
    <2> DEFINE whole == BlockSize * half
    <2>1. whole \in Nat /\ 2 * whole <= n
      BY <1>2, <1>3
    <2> HIDE DEF whole
    <2>2. whole < n
      BY <1>1, <2>1
    <2> QED BY <2>2 DEF whole
  <1> HIDE DEF half
  <1>5. Halved(n) = LargerOf(BlockSize, BlockSize * half)
    BY DEF Halved, half
  <1> QED BY <1>1, <1>3, <1>4, <1>5 DEF LargerOf

\* After a failure an exact stream is begun; if the one that failed was exact
\* it has smaller chunks, and chunks only shrink within a stream: but never
\* below a block.
StreamsShrink ==
  [][/\ stage = "raised" /\ stage' = "project" =>
          /\ kind' = "exact"
          /\ kind = "sparse" \/ (BlockSize <= chunk' /\ chunk' < chunk)
     /\ stage # "raised" /\ active' # active =>
          kind = "exact" /\ BlockSize <= active' /\ active' < active]_vars

\* A call that keeps failing runs out of streams: each one after the first
\* exact one is strictly smaller, for every block and chunk size.
THEOREM ShrinkCorrect == Spec => StreamsShrink
  <1> DEFINE Smaller ==
        /\ stage = "raised" /\ stage' = "project" =>
             /\ kind' = "exact"
             /\ kind = "sparse" \/ (BlockSize <= chunk' /\ chunk' < chunk)
        /\ stage # "raised" /\ active' # active =>
             kind = "exact" /\ BlockSize <= active' /\ active' < active
  <1>1. ASSUME RangeInv, [Next]_vars PROVE [Smaller]_vars
    <2>1. chunk \in Int /\ active \in Int
      BY <1>1 DEF RangeInv, PositionOf
    <2>2. CASE Fallback
      BY <2>1, <2>2, HalvedShrinks DEF Fallback
    <2>3. CASE ReduceChunk
      BY <2>1, <2>3, HalvedShrinks DEF ReduceChunk
    <2>4. CASE Next /\ ~Fallback /\ ~ReduceChunk
      BY <2>4 DEF Next, BeginProjection, Pull, WriteChunk, KernelRaises, ProjectionRaises,
           ContextRaises, Exhausted, NothingToPull, RetryOrdinary, Propagates, stream
    <2>5. CASE UNCHANGED vars
      BY <2>5
    <2> QED BY <1>1, <2>2, <2>3, <2>4, <2>5
  <1> QED BY RangeInvariant, <1>1, PTL DEF Spec, StreamsShrink
=============================================================================
