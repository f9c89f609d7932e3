---------------------------- MODULE SolAdmission ----------------------------
(***************************************************************************)
(* When the lossy Sol route may answer for exact attention                 *)
(* (fused_sol_speed.py, sol_calibration.py).  The first eligible forward   *)
(* of a sample measures the route against exact attention at the layers    *)
(* Calibration; the admission so reached holds for the shape until the     *)
(* sample ends, and a copy of it serves one later sample.  Every attention *)
(* call is routed before its projection, so that the dual-GPU adapter may  *)
(* take it, and reaches the override when the adapter does not.            *)
(*                                                                         *)
(* Abstracted: a shape stands for the signature of its calls, and for its  *)
(* token count, by which the route finds the admission: one packed         *)
(* sequence and one video grid per sample leave only the prefix to differ. *)
(* Percents are integers; a sigma is the ordinal of the schedule step it   *)
(* belongs to; the adaptive budget, a route builder of its own, is absent. *)
(***************************************************************************)
EXTENDS Integers, FiniteSets, FiniteSetsExt, Sequences, SequencesExt

CONSTANTS
  BlockCount,    \* transformer blocks of a forward
  Protected,     \* PROTECTED_LAYERS
  Calibration,   \* CALIBRATION_LAYERS
  Steps,         \* steps of the sample's schedule
  Settings,      \* the node's options: see SettingAssumption
  GuardEnd,      \* AUDIO_GUARD_END_PERCENT
  Shapes,        \* shapes of calls
  Qualified,     \* those with enough tokens and a complete video layout
  AudioHeavy,    \* those with AUDIO_GUARD_MIN_ROWS rows of audio
  Measurements,  \* what timing a layer may give: [ratio, finite]
  MeanLimit,     \* 1 - minimum_gain
  WorstLimit,    \* worst ratio a single layer may have
  CacheEntries,  \* ADMISSION_CACHE_MAX_ENTRIES
  Reuses,        \* ADMISSION_CACHE_REUSES
  MaxSamples,    \* bound: samples of a behaviour
  MaxForwards,   \* bound: forwards of a sample
  None           \* Python's None

ASSUME SolAssumption ==
  /\ BlockCount \in Nat /\ Steps \in Nat \ {0}
  /\ Calibration \subseteq (0..(BlockCount - 1)) \ Protected
  /\ Calibration # {} /\ IsFiniteSet(Calibration)
  /\ Shapes # {} /\ Qualified \subseteq Shapes
  /\ GuardEnd \in Nat /\ CacheEntries \in Nat /\ Reuses \in Nat \ {0}
  /\ Measurements \subseteq [ratio : Nat, finite : BOOLEAN]
  /\ MeanLimit \in Nat /\ WorstLimit \in Nat
  /\ MaxSamples \in Nat /\ MaxForwards \in Nat
  /\ None \notin Nat /\ None \notin BOOLEAN /\ None \notin {"lossy", "sparse"}

ASSUME SettingAssumption ==
  Settings \subseteq [profile : {"quality", "speed", "ultra", "manual"},
                      start : Nat, end : Nat,
                      readable : BOOLEAN,    \* the schedule is unambiguous
                      fingerprint : BOOLEAN] \* the source model is known

VARIABLES
  setting,     \* options of the running sample
  sample,      \* samples begun
  forwards,    \* forwards of this sample
  stage,       \* where the sampling thread stands
  sigma,       \* step of the running forward
  onGrid,      \* its sigma is one of the schedule's
  shape, block, \* the attention call
  owner,       \* the route it was given before projection
  current,     \* current_step
  modes,       \* stream_modes
  admissions,  \* admissions of the sample
  cache,       \* _admission_cache, oldest entry first
  answer,      \* last answer of the forward: [block, kind]
  \* What happened, for the properties: no code reads these.
  grounds,     \* key -> the measurement its admission stands on
  broken       \* shapes whose lossy route failed in this sample

call == <<stage, shape, block, owner, answer>>
clock == <<sigma, onGrid, current>>
history == <<grounds, broken>>
vars == <<setting, sample, forwards, call, clock, modes, admissions, cache,
          history>>

Layers == 0..(BlockCount - 1)
Keys == Settings \X Shapes \X BOOLEAN
Key == <<setting, shape, modes[shape]>>
Admission == admissions[shape]

-----------------------------------------------------------------------------
(* The window of the schedule in which the lossy route may act.            *)

Denominator == IF Steps > 1 THEN Steps - 1 ELSE 1
AtLeast(step, percent) == 100 * step >= percent * Denominator
AtMost(step, percent) == 100 * step <= percent * Denominator

\* Long audio ends the window early, unless the window was set by hand.
EffectiveEnd(s) ==
  IF setting.profile # "manual" /\ s \in AudioHeavy /\ GuardEnd < setting.end
  THEN GuardEnd ELSE setting.end

Active(step, s) ==
  setting.readable /\ AtLeast(step, setting.start) /\ AtMost(step, EffectiveEnd(s))

\* The inner step before the window: measured, but answered exactly.
Precalibration(step, s) ==
  /\ setting.readable /\ setting.profile \in {"speed", "ultra"}
  /\ 0 < step /\ step < Steps - 1
  /\ ~AtLeast(step, setting.start)
  /\ AtLeast(step + 1, setting.start) /\ AtMost(step + 1, EffectiveEnd(s))

SolWindowPhase(step, s) ==
  IF step = None THEN "outside"
  ELSE IF Active(step, s) THEN "active"
  ELSE IF Precalibration(step, s) THEN "precalibration"
  ELSE "outside"

\* schedule_ordinals: a sigma between the steps, or an unreadable schedule,
\* has no ordinal the window could be entered by.
Ordinal == IF setting.readable /\ onGrid THEN sigma ELSE None

\* Mutant: a sigma that is not of the schedule leaves the last step in force.
ObserveStepUnlessUnknown ==
  IF (block = 0 \/ current = None) /\ Ordinal # None THEN Ordinal ELSE current

\* Block 0 observes the step; the others only while there is none.
ObserveStep == IF block = 0 \/ current = None THEN Ordinal ELSE current

-----------------------------------------------------------------------------
(* Admissions and the copies of them that outlive the sample.              *)

Samples == UNION {[layers -> Measurements] : layers \in SUBSET Calibration}
NoSamples == [layer \in {} |-> None]

Statuses == {"calibrating", "ready", "failed"}
Admissions ==
  [status : Statuses, admitted : BOOLEAN, step : 0..(Steps - 1), samples : Samples]
AdmissionCopy == [key : Keys, admission : Admissions, remaining : 1..Reuses]

\* For the properties: how the key of an admission was measured, and for how
\* many samples it served.
Grounds == [sound : BOOLEAN, steps : SUBSET (0..(Steps - 1)), uses : Nat]

ASSUME NoneAssumption == None \notin Admissions /\ None \notin Grounds

\* Samples are read while calibrating only, and not kept here after.
NewAdmission ==
  [status |-> "calibrating", admitted |-> FALSE, step |-> current,
   samples |-> NoSamples]
Settled(admission, status, admitted) ==
  [status |-> status, admitted |-> admitted, step |-> admission.step, samples |-> NoSamples]

Cached(key) == \E i \in DOMAIN cache : cache[i].key = key
Position(key) == CHOOSE i \in DOMAIN cache : cache[i].key = key
Entry(key) == cache[Position(key)]
Without(key) == IF Cached(key) THEN RemoveAt(cache, Position(key)) ELSE cache

\* Mutant: a reuse is not counted.
AfterTakeNotCounted(key) == Append(Without(key), Entry(key))

\* A copy is dropped with its last reuse.
AfterTake(key) ==
  LET entry == Entry(key) IN
  IF entry.remaining <= 1 THEN Without(key)
  ELSE Append(Without(key), [entry EXCEPT !.remaining = @ - 1])

\* popitem: the oldest entry leaves a full cache.
AfterStore(key, admission) ==
  LET entries == Append(Without(key),
                        [key |-> key, admission |-> admission, remaining |-> Reuses])
  IN  IF Len(entries) > CacheEntries THEN Tail(entries) ELSE entries

\* sum(ratios) / len(ratios) is within the limit.
QuickOnAverage(samples) ==
  LET ratio(layer) == samples[layer].ratio
  IN  MapThenSumSet(ratio, Calibration) <= MeanLimit * Cardinality(Calibration)

\* Mutant: neither a slow layer nor one that is not finite counts.
AdmittedByTimeOnly(samples) == QuickOnAverage(samples)

\* finish_sample: all layers are finite, quick enough together, and none slow.
Admitted(samples) ==
  /\ \A layer \in Calibration : samples[layer].finite
  /\ QuickOnAverage(samples)
  /\ \A layer \in Calibration : samples[layer].ratio <= WorstLimit

Complete(samples) == Cardinality(DOMAIN samples) = Cardinality(Calibration)

-----------------------------------------------------------------------------
(* Who owns a call (dual_high_level_route), before its projection.         *)

\* Mutant: the route does not know the step of the measurement.
RouteAdmittedAtOnce(step) ==
  IF shape \notin Qualified \/ block \in Protected THEN "exact"
  ELSE CASE SolWindowPhase(step, shape) = "outside" -> "exact"
         [] SolWindowPhase(step, shape) = "precalibration" -> "sol"
         [] SolWindowPhase(step, shape) = "active" ->
              IF Admission = None \/ Admission.status = "calibrating" THEN "sol"
              ELSE IF Admission.admitted THEN "sparse" ELSE "exact"

Route(step) ==
  IF shape \notin Qualified \/ block \in Protected THEN "exact"
  ELSE CASE SolWindowPhase(step, shape) = "outside" -> "exact"
         [] SolWindowPhase(step, shape) = "precalibration" -> "sol"
         [] SolWindowPhase(step, shape) = "active" ->
              IF Admission = None THEN "sol"
              ELSE IF Admission.status = "calibrating" \/ Admission.step = step THEN "sol"
              ELSE IF Admission.admitted THEN "sparse"
              ELSE "exact"

\* _eligible: only such a call asks for an admission.
Eligible ==
  /\ shape \in Qualified /\ block \notin Protected
  /\ SolWindowPhase(current, shape) # "outside"

Init ==
  /\ setting \in Settings
  /\ sample = 0 /\ forwards = 0 /\ stage = "idle"
  /\ sigma = 0 /\ onGrid = TRUE /\ current = None
  /\ shape = CHOOSE s \in Shapes : TRUE
  /\ block = 0 /\ owner = None
  /\ answer = [block |-> 0, kind |-> None]
  /\ modes = [s \in Shapes |-> None]
  /\ admissions = [s \in Shapes |-> None]
  /\ cache = <<>>
  /\ grounds = [key \in Keys |-> None]
  /\ broken = {}

\* reset_run and the fresh stream_modes.  The sample before has ended, or was
\* left by a fatal failure or a cancellation wherever it stood.  Grounds that
\* no copy stands on are forgotten.
BeginSample(options) ==
  /\ sample < MaxSamples
  /\ setting' = options
  /\ sample' = sample + 1 /\ forwards' = 0 /\ stage' = "sampling"
  /\ sigma' = 0 /\ onGrid' = TRUE /\ current' = None
  /\ answer' = [block |-> 0, kind |-> None] /\ owner' = None
  /\ shape' = (CHOOSE s \in Shapes : TRUE) /\ block' = 0
  /\ modes' = [s \in Shapes |-> None]
  /\ admissions' = [s \in Shapes |-> None]
  /\ grounds' = [key \in Keys |-> IF Cached(key) THEN grounds[key] ELSE None]
  /\ broken' = {}
  /\ UNCHANGED cache

\* The sampler calls the model at its step, at a later one, or in between.
BeginForward(s, step, between) ==
  /\ stage = "sampling" /\ forwards < MaxForwards
  /\ step >= sigma
  /\ stage' = "enter" /\ forwards' = forwards + 1
  /\ sigma' = step /\ onGrid' = ~between
  /\ shape' = s /\ block' = 0 /\ owner' = None
  /\ answer' = [block |-> 0, kind |-> None]
  /\ UNCHANGED <<setting, sample, current, modes, admissions, cache, history>>

\* The attention forward: a call that is exact by its route, or already
\* admitted, is offered to the second device.
RouteCall ==
  /\ stage = "enter"
  /\ current' = ObserveStep
  /\ owner' = Route(ObserveStep)
  /\ stage' = IF owner' = "sol" THEN "override" ELSE "dual"
  /\ UNCHANGED <<setting, sample, forwards, sigma, onGrid, shape, block, answer,
                 modes, admissions, cache, history>>

\* The call returns, and the next block or the sampler goes on.
Answers(kind) ==
  /\ answer' = [block |-> block, kind |-> kind]
  /\ block' = IF block = BlockCount - 1 THEN block ELSE block + 1
  /\ stage' = IF block = BlockCount - 1 THEN "sampling" ELSE "enter"
  /\ owner' = None
  /\ UNCHANGED <<setting, sample, forwards, shape, clock>>

DualAnswers ==
  /\ stage = "dual"
  /\ Answers(IF owner = "sparse" THEN "lossy" ELSE "exact")
  /\ UNCHANGED <<modes, admissions, cache, history>>

\* There is no adapter, it refuses the call, or it falls back.
DualDeclines ==
  /\ stage = "dual"
  /\ stage' = "override"
  /\ UNCHANGED <<setting, sample, forwards, shape, block, owner, answer, clock,
                 modes, admissions, cache, history>>

-----------------------------------------------------------------------------
(* The override: one call of exact attention, its lossy route, or both.    *)

Ineligible ==
  /\ stage = "override" /\ ~Eligible
  /\ Answers("exact")
  /\ UNCHANGED <<modes, admissions, cache, history>>

\* _stream_decision: by the driver's free memory, once for shape and sample.
DecideStream(streamed) ==
  /\ stage = "override" /\ Eligible /\ modes[shape] = None
  /\ modes' = [modes EXCEPT ![shape] = streamed]
  /\ UNCHANGED <<setting, sample, forwards, call, clock, admissions, cache, history>>

Undecided == stage = "override" /\ Eligible /\ modes[shape] # None /\ Admission = None

\* _take_cached_admission.
TakeCached ==
  /\ Undecided /\ setting.fingerprint /\ Cached(Key)
  /\ admissions' = [admissions EXCEPT ![shape] = Entry(Key).admission]
  /\ cache' = AfterTake(Key)
  /\ grounds' = [grounds EXCEPT ![Key].uses = @ + 1]
  /\ UNCHANGED <<setting, sample, forwards, call, clock, modes, broken>>

BeginCalibration ==
  /\ Undecided /\ ~(setting.fingerprint /\ Cached(Key))
  /\ admissions' = [admissions EXCEPT ![shape] = NewAdmission]
  /\ grounds' = [grounds EXCEPT ![Key] = [sound |-> FALSE, steps |-> {}, uses |-> 1]]
  /\ UNCHANGED <<setting, sample, forwards, call, clock, modes, cache, broken>>

Deciding == stage = "override" /\ Eligible /\ modes[shape] # None /\ Admission # None
Calibrating == Deciding /\ Admission.status = "calibrating"

\* A layer is measured once, at the step the calibration began.
Measures ==
  /\ Calibrating /\ current = Admission.step
  /\ block \in Calibration \ DOMAIN Admission.samples

AwaitsCalibration ==
  /\ Calibrating /\ ~Measures
  /\ Answers("exact")
  /\ UNCHANGED <<modes, admissions, cache, history>>

\* Every calibration layer within the limits, as the node promises.
Sound(samples) ==
  /\ DOMAIN samples = Calibration
  /\ ~\E layer \in Calibration :
        samples[layer].ratio > WorstLimit \/ ~samples[layer].finite
  /\ QuickOnAverage(samples)

WithSample(measurement) ==
  [layer \in DOMAIN Admission.samples \union {block} |->
     IF layer = block THEN measurement ELSE Admission.samples[layer]]

\* finish_sample: the last layer settles the admission and stores a copy.
FinishSample(measurement) ==
  LET samples == WithSample(measurement)
      ready == Settled(Admission, "ready", Admitted(samples))
  IN  /\ admissions' = [admissions EXCEPT ![shape] =
                          IF Complete(samples) THEN ready
                          ELSE [Admission EXCEPT !.samples = samples]]
      /\ cache' = IF Complete(samples) /\ setting.fingerprint
                  THEN AfterStore(Key, ready) ELSE cache
      /\ grounds' = [grounds EXCEPT ![Key].sound = Sound(samples),
                                    ![Key].steps = @ \union {sigma}]

\* _calibrate: both routes run whole, one after the other.
MeasureWhole(measurement) ==
  /\ Measures /\ ~modes[shape]
  /\ FinishSample(measurement)
  /\ Answers("exact")
  /\ UNCHANGED <<modes, broken>>

\* The bounded measurement: the lossy stream was consumed and timed; the
\* exact one is returned, and timed while the projection consumes it.
MeasureStream ==
  /\ Measures /\ modes[shape]
  /\ stage' = "timing"
  /\ UNCHANGED <<setting, sample, forwards, shape, block, owner, answer, clock,
                 modes, admissions, cache, history>>

\* exact_timing_complete.
TimingComplete(measurement) ==
  /\ stage = "timing"
  /\ FinishSample(measurement)
  /\ Answers("exact")
  /\ UNCHANGED <<modes, broken>>

\* Mutant: a failure leaves the admission calibrating.
CalibrationFailsUnmarked ==
  /\ Measures \/ stage = "timing"
  /\ broken' = broken \union {shape}
  /\ Answers("exact")
  /\ UNCHANGED <<modes, admissions, cache, grounds>>

\* The candidate, the exact call or its timing fails: exact from here on.
CalibrationFails ==
  /\ Measures \/ stage = "timing"
  /\ admissions' = [admissions EXCEPT ![shape] = Settled(@, "failed", FALSE)]
  /\ broken' = broken \union {shape}
  /\ Answers("exact")
  /\ UNCHANGED <<modes, cache, grounds>>

\* Lossy answers start after the step that measured, inside the window.
Sparse ==
  /\ Deciding /\ Admission.status # "calibrating"
  /\ current # Admission.step
  /\ SolWindowPhase(current, shape) # "precalibration"
  /\ Admission.admitted

StaysExact ==
  /\ Deciding /\ Admission.status # "calibrating" /\ ~Sparse
  /\ Answers("exact")
  /\ UNCHANGED <<modes, admissions, cache, history>>

AnswerWhole ==
  /\ Sparse /\ ~modes[shape]
  /\ Answers("lossy")
  /\ UNCHANGED <<modes, admissions, cache, history>>

\* A CorrectedSolRangeStream with an exact fallback attached.
AnswerStream ==
  /\ Sparse /\ modes[shape]
  /\ stage' = "streaming"
  /\ UNCHANGED <<setting, sample, forwards, shape, block, owner, answer, clock,
                 modes, admissions, cache, history>>

StreamConsumed ==
  /\ stage = "streaming"
  /\ Answers("lossy")
  /\ UNCHANGED <<modes, admissions, cache, history>>

\* Mutant: the admission is dropped, so that a copy may be taken again.
SparseFailsForgets ==
  /\ Sparse \/ stage = "streaming"
  /\ admissions' = [admissions EXCEPT ![shape] = None]
  /\ broken' = broken \union {shape}
  /\ Answers("exact")
  /\ UNCHANGED <<modes, cache, grounds>>

\* The route fails at once, or mark_stream_failure runs when its stream does.
SparseFails ==
  /\ Sparse \/ stage = "streaming"
  /\ admissions' = [admissions EXCEPT ![shape].admitted = FALSE]
  /\ broken' = broken \union {shape}
  /\ Answers("exact")
  /\ UNCHANGED <<modes, cache, grounds>>

Next ==
  \/ \E options \in Settings : BeginSample(options)
  \/ \E s \in Shapes, step \in 0..(Steps - 1), between \in BOOLEAN :
       BeginForward(s, step, between)
  \/ RouteCall \/ DualAnswers \/ DualDeclines
  \/ Ineligible \/ (\E streamed \in BOOLEAN : DecideStream(streamed))
  \/ TakeCached \/ BeginCalibration \/ AwaitsCalibration
  \/ (\E measurement \in Measurements :
        MeasureWhole(measurement) \/ TimingComplete(measurement))
  \/ MeasureStream \/ CalibrationFails
  \/ StaysExact \/ AnswerWhole \/ AnswerStream \/ StreamConsumed
  \/ SparseFails

Spec == Init /\ [][Next]_vars

-----------------------------------------------------------------------------
(* What the lossy route promises.                                          *)

\* The state is well formed; the cache holds settled admissions, as many as it
\* may, and one for each key (_store_cached_admission).
SolTypeOK ==
  /\ setting \in Settings /\ sample \in 0..MaxSamples /\ forwards \in 0..MaxForwards
  /\ stage \in {"idle", "sampling", "enter", "dual", "override", "timing", "streaming"}
  /\ sigma \in 0..(Steps - 1) /\ onGrid \in BOOLEAN
  /\ current \in 0..(Steps - 1) \union {None}
  /\ shape \in Shapes /\ block \in Layers
  /\ owner \in {None, "exact", "sol", "sparse"}
  /\ answer \in [block : Layers, kind : {None, "exact", "lossy"}]
  /\ modes \in [Shapes -> BOOLEAN \union {None}]
  /\ admissions \in [Shapes -> Admissions \union {None}]
  /\ cache \in Seq(AdmissionCopy) /\ Len(cache) <= CacheEntries
  /\ \A i, j \in 1..Len(cache) :
       /\ cache[i].admission.status = "ready"
       /\ cache[i].key = cache[j].key => i = j
  /\ broken \subseteq Shapes

Lossy == answer.kind = "lossy"

\* A lossy answer is given only at a step of the schedule inside the window,
\* cut short for long audio, and never in a protected layer: whatever step the
\* state remembers, it is the sigma of the running forward that counts.
LossyInsideWindow ==
  Lossy => /\ onGrid /\ setting.readable
           /\ AtLeast(sigma, setting.start) /\ AtMost(sigma, EffectiveEnd(shape))
           /\ answer.block \notin Protected

\* A lossy answer stands on a measurement of its shape in which every
\* calibration layer was finite and fast enough, for the dual adapter's sparse
\* route as for the override's.
LossyWellMeasured ==
  Lossy => grounds[Key] # None /\ grounds[Key].sound

\* At the step at which the measurement was made every answer is exact, in the
\* sample that made it and in the one that reuses it.
MeasuredStepExact ==
  Lossy => grounds[Key] # None /\ sigma \notin grounds[Key].steps

\* A measurement serves the sample that made it and one reuse, then the route
\* is measured again ("reuse-once-then-recalibrate").
ReuseOnce ==
  \A key \in Keys : grounds[key] # None => grounds[key].uses <= 1 + Reuses

\* Once the route has failed for a shape, or its measurement has, every later
\* call of the shape is exact until the sample ends, although a copy in the
\* cache may still admit it.
BrokenStaysExact == Lossy => shape \notin broken

\* A forward that runs to its end leaves no calibration unsettled, or the
\* shape would be refused the route for the whole sample.
CalibrationSettles ==
  stage = "sampling" =>
    \A s \in Shapes : admissions[s] # None => admissions[s].status # "calibrating"
=============================================================================
