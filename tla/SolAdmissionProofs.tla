------------------------- MODULE SolAdmissionProofs -------------------------
(***************************************************************************)
(* Proofs about SolAdmission for any blocks, layers, schedules, shapes,    *)
(* settings, measurements and cache sizes.                                 *)
(***************************************************************************)
EXTENDS SolAdmission, FiniteSetTheorems, SequenceTheorems, TLAPS

-----------------------------------------------------------------------------
(* The cache: entries of distinct keys, whichever are removed or appended. *)

CacheOK(c) ==
  /\ c \in Seq(AdmissionCopy)
  /\ \A i, j \in 1..Len(c) :
       /\ c[i].admission.status = "ready"
       /\ c[i].key = c[j].key => i = j

\* Without(key) is the cache less its entry for key.
LEMMA WithoutCache ==
  ASSUME CacheOK(cache), NEW key
  PROVE  /\ CacheOK(Without(key)) /\ Len(Without(key)) <= Len(cache)
         /\ Cached(key) => Len(Without(key)) < Len(cache)
         /\ \A i \in 1..Len(Without(key)) :
              /\ Without(key)[i].key # key
              /\ \E j \in 1..Len(cache) : Without(key)[i] = cache[j]
  <1>0. DOMAIN cache = 1..Len(cache) /\ Len(cache) \in Nat /\ cache \in Seq(AdmissionCopy)
    BY DEF CacheOK
  <1>1. CASE ~Cached(key)
    BY <1>0, <1>1 DEF Without, Cached, CacheOK
  <1>2. CASE Cached(key)
    <2> DEFINE p == Position(key)
               r == RemoveAt(cache, p)
    <2>1. p \in 1..Len(cache) /\ cache[p].key = key
      BY <1>2 DEF Cached, Position, CacheOK
    <2> HIDE DEF p
    <2>2. /\ r \in Seq(AdmissionCopy) /\ Len(r) = Len(cache) - 1
          /\ \A i \in 1..Len(r) : r[i] = IF i < p THEN cache[i] ELSE cache[i + 1]
      <3> DEFINE before == SubSeq(cache, 1, p - 1)
                 after == SubSeq(cache, p + 1, Len(cache))
      <3>1. /\ before \in Seq(AdmissionCopy) /\ Len(before) = p - 1
            /\ \A i \in 1..(p - 1) : before[i] = cache[i]
        <4>1. 1 \in Int /\ p - 1 \in Int /\ \A i \in 1..(p - 1) : cache[i] \in AdmissionCopy
          BY <1>0, <2>1
        <4> HIDE DEF p
        <4>2. /\ before \in Seq(AdmissionCopy)
              /\ Len(before) = IF 1 <= p - 1 THEN p - 1 - 1 + 1 ELSE 0
              /\ \A i \in 1..(p - 1 - 1 + 1) : before[i] = cache[1 + i - 1]
          BY <4>1, SubSeqProperties
        <4> QED
          BY <1>0, <2>1, <4>2
      <3>2. /\ after \in Seq(AdmissionCopy) /\ Len(after) = Len(cache) - p
            /\ \A i \in 1..(Len(cache) - p) : after[i] = cache[i + p]
        <4>1. /\ p + 1 \in Int /\ Len(cache) \in Int
              /\ \A i \in (p + 1)..Len(cache) : cache[i] \in AdmissionCopy
          BY <1>0, <2>1
        <4>2. /\ after \in Seq(AdmissionCopy)
              /\ Len(after) = IF p + 1 <= Len(cache) THEN Len(cache) - (p + 1) + 1 ELSE 0
              /\ \A i \in 1..(Len(cache) - (p + 1) + 1) : after[i] = cache[p + 1 + i - 1]
          BY <4>1, SubSeqProperties
        <4> QED
          BY <1>0, <2>1, <4>2
      <3>5. r = before \o after
        BY DEF RemoveAt
      <3> HIDE DEF before, after, r
      <3>6. r \in Seq(AdmissionCopy) /\ Len(r) = Len(cache) - 1
        <4>1. r \in Seq(AdmissionCopy) /\ Len(r) = Len(before) + Len(after)
          BY <3>1, <3>2, <3>5, ConcatProperties
        <4> QED
          BY <1>0, <2>1, <3>1, <3>2, <4>1
      <3>7. \A i \in 1..Len(r) : r[i] = IF i < p THEN before[i] ELSE after[i - (p - 1)]
        BY <1>0, <2>1, <3>1, <3>2, <3>5, <3>6
      <3> QED
        BY <1>0, <2>1, <3>1, <3>2, <3>6, <3>7
    <2> HIDE DEF r
    <2>3. \A i \in 1..Len(r) : \E j \in 1..Len(cache) \ {p} : r[i] = cache[j]
      <3> TAKE i \in 1..Len(r)
      <3>1. CASE i < p
        BY <2>1, <2>2, <3>1 DEF CacheOK
      <3>2. CASE ~(i < p)
        BY <2>1, <2>2, <3>2 DEF CacheOK
      <3> QED
        BY <3>1, <3>2
    <2>4. \A i, j \in 1..Len(r) : r[i].key = r[j].key => i = j
      <3> DEFINE from(i) == IF i < p THEN i ELSE i + 1
      <3>1. \A i \in 1..Len(r) : from(i) \in 1..Len(cache) /\ r[i] = cache[from(i)]
        BY <1>0, <2>1, <2>2
      <3>2. \A i, j \in 1..Len(r) : from(i) = from(j) => i = j
        BY <1>0, <2>1, <2>2
      <3> HIDE DEF from
      <3> QED
        BY <3>1, <3>2 DEF CacheOK
    <2>5. CacheOK(r)
      <3>1. \A i \in 1..Len(r) : r[i].admission.status = "ready"
        BY <2>3 DEF CacheOK
      <3>2. r \in Seq(AdmissionCopy)
        BY <2>2
      <3> QED
        BY <2>4, <3>1, <3>2 DEF CacheOK
    <2>6. Without(key) = r
      BY <1>2 DEF Without, r, p
    <2>7. \A i \in 1..Len(r) : r[i].key # key
      BY <1>0, <2>1, <2>3 DEF CacheOK
    <2> QED
      BY <1>0, <2>2, <2>3, <2>5, <2>6, <2>7
  <1> QED
    BY <1>1, <1>2

\* Appending a settled entry of a new key keeps the cache well formed.
LEMMA AppendCache ==
  ASSUME NEW c, CacheOK(c), NEW e \in AdmissionCopy, e.admission.status = "ready",
         \A i \in 1..Len(c) : c[i].key # e.key
  PROVE  CacheOK(Append(c, e)) /\ Len(Append(c, e)) = Len(c) + 1
  BY DEF CacheOK

LEMMA TailCache ==
  ASSUME NEW c, CacheOK(c), c # << >>
  PROVE  /\ CacheOK(Tail(c)) /\ Len(Tail(c)) = Len(c) - 1
         /\ \A i \in 1..Len(Tail(c)) : Tail(c)[i] = c[i + 1]
  BY DEF CacheOK

\* What a take leaves: the other entries, and perhaps one reuse less.
LEMMA TakeCache ==
  ASSUME CacheOK(cache), NEW key, Cached(key)
  PROVE  /\ CacheOK(AfterTake(key)) /\ Len(AfterTake(key)) <= Len(cache)
         /\ Entry(key) \in AdmissionCopy /\ Entry(key).key = key
         /\ \E j \in 1..Len(cache) : Entry(key) = cache[j]
         /\ \A i \in 1..Len(AfterTake(key)) : LET e == AfterTake(key)[i] IN
              \/ e.key # key /\ \E j \in 1..Len(cache) : e = cache[j]
              \/ e = [Entry(key) EXCEPT !.remaining = @ - 1]
  <1> DEFINE old == Entry(key)
             new == [old EXCEPT !.remaining = @ - 1]
             rest == Without(key)
  <1>1. /\ old \in AdmissionCopy /\ old.key = key /\ old.admission.status = "ready"
        /\ \E j \in 1..Len(cache) : old = cache[j]
    <2>1. DOMAIN cache = 1..Len(cache)
      BY DEF CacheOK
    <2>2. Position(key) \in 1..Len(cache) /\ cache[Position(key)].key = key
      BY <2>1 DEF Cached, Position
    <2> HIDE DEF old
    <2>3. old = cache[Position(key)]
      BY DEF old, Entry
    <2> QED
      BY <2>2, <2>3 DEF CacheOK
  <1>2. /\ CacheOK(rest) /\ Len(rest) < Len(cache)
        /\ \A i \in 1..Len(rest) :
             rest[i].key # key /\ \E j \in 1..Len(cache) : rest[i] = cache[j]
    BY WithoutCache
  <1> HIDE DEF old, rest
  <1>3. CASE old.remaining <= 1
    BY <1>1, <1>2, <1>3 DEF AfterTake, old, rest, CacheOK
  <1>4. CASE ~(old.remaining <= 1)
    <2>1. new \in AdmissionCopy /\ new.key = key /\ new.admission.status = "ready"
      <3>1. old.remaining \in 1..Reuses /\ Reuses \in Nat
        BY <1>1, SolAssumption DEF AdmissionCopy
      <3>2. old.remaining - 1 \in 1..Reuses
        BY <1>4, <3>1
      <3> QED
        BY <1>1, <3>2 DEF AdmissionCopy
    <2> HIDE DEF new
    <2>2. CacheOK(Append(rest, new)) /\ Len(Append(rest, new)) = Len(rest) + 1
      BY <1>2, <2>1, AppendCache
    <2>3. AfterTake(key) = Append(rest, new)
      BY <1>4 DEF AfterTake, old, rest, new
    <2>4. \A i \in 1..Len(Append(rest, new)) :
            Append(rest, new)[i] = IF i <= Len(rest) THEN rest[i] ELSE new
      BY <1>2 DEF CacheOK
    <2>5. \A i \in 1..Len(Append(rest, new)) :
            \/ i \in 1..Len(rest) /\ Append(rest, new)[i] = rest[i]
            \/ Append(rest, new)[i] = new
      BY <1>2, <2>2, <2>4 DEF CacheOK
    <2>6. Len(AfterTake(key)) <= Len(cache)
      BY <1>2, <2>2, <2>3 DEF CacheOK
    <2> QED
      BY <1>1, <1>2, <2>2, <2>3, <2>5, <2>6 DEF old, new
  <1> QED
    BY <1>3, <1>4

\* What a store leaves: the new entry, and others that were there.
LEMMA StoreCache ==
  ASSUME CacheOK(cache), Len(cache) <= CacheEntries,
         NEW key \in Keys, NEW a \in Admissions, a.status = "ready"
  PROVE  /\ CacheOK(AfterStore(key, a)) /\ Len(AfterStore(key, a)) <= CacheEntries
         /\ \A i \in 1..Len(AfterStore(key, a)) : LET e == AfterStore(key, a)[i] IN
              \/ e.key # key /\ \E j \in 1..Len(cache) : e = cache[j]
              \/ e = [key |-> key, admission |-> a, remaining |-> Reuses]
  <1> DEFINE new == [key |-> key, admission |-> a, remaining |-> Reuses]
             rest == Without(key)
             all == Append(rest, new)
  <1>1. new \in AdmissionCopy /\ new.key = key /\ new.admission.status = "ready"
    BY SolAssumption DEF AdmissionCopy
  <1>2. /\ CacheOK(rest) /\ Len(rest) <= Len(cache)
        /\ \A i \in 1..Len(rest) :
             rest[i].key # key /\ \E j \in 1..Len(cache) : rest[i] = cache[j]
    BY WithoutCache
  <1> HIDE DEF new, rest
  <1>3. CacheOK(all) /\ Len(all) = Len(rest) + 1
    BY <1>1, <1>2, AppendCache
  <1>4. \A i \in 1..Len(all) : all[i] = IF i <= Len(rest) THEN rest[i] ELSE new
    BY <1>2 DEF CacheOK
  <1>5. \A i \in 1..Len(all) :
          \/ all[i].key # key /\ \E j \in 1..Len(cache) : all[i] = cache[j]
          \/ all[i] = new
    BY <1>2, <1>3, <1>4 DEF CacheOK
  <1> HIDE DEF all
  <1>6. AfterStore(key, a) = IF Len(all) > CacheEntries THEN Tail(all) ELSE all
    BY DEF AfterStore, all, new, rest
  <1>7. CASE Len(all) > CacheEntries
    <2>1. all # << >>
      BY <1>2, <1>3 DEF CacheOK
    <2>2. /\ CacheOK(Tail(all)) /\ Len(Tail(all)) = Len(all) - 1
          /\ \A i \in 1..Len(Tail(all)) : Tail(all)[i] = all[i + 1]
      BY <1>3, <2>1, TailCache
    <2>3. Len(Tail(all)) <= CacheEntries
      BY <1>2, <1>3, <2>2, SolAssumption DEF CacheOK
    <2>4. \A i \in 1..Len(Tail(all)) : i + 1 \in 1..Len(all)
      BY <1>3, <2>2 DEF CacheOK
    <2> QED
      BY <1>5, <1>6, <1>7, <2>2, <2>3, <2>4 DEF new
  <1>8. CASE ~(Len(all) > CacheEntries)
    <2>1. Len(all) <= CacheEntries
      BY <1>3, <1>8, SolAssumption DEF CacheOK
    <2> QED
      BY <1>3, <1>5, <1>6, <1>8, <2>1 DEF new
  <1> QED
    BY <1>7, <1>8

-----------------------------------------------------------------------------
(* The inductive invariant.                                                *)

GroundsTyped == grounds \in [Keys -> Grounds \union {None}]

KeyOf(s) == <<setting, s, modes[s]>>
InCall == stage \in {"dual", "override", "timing", "streaming"}
IsCalibrating(s) == admissions[s] # None /\ admissions[s].status = "calibrating"

\* Past block 0 the step the state remembers is that of the running forward.
ObservedOf ==
  /\ InCall => current = Ordinal
  /\ stage = "enter" /\ block # 0 => current = Ordinal

\* A call about to be answered lossily may be: it was admitted before this step.
MayBeLossy ==
  /\ current # None /\ Active(current, shape) /\ block \notin Protected
  /\ Admission # None /\ Admission.admitted
  /\ Admission.status # "calibrating" /\ Admission.step # current
SparseOf ==
  stage = "streaming" \/ (stage = "dual" /\ owner = "sparse") => MayBeLossy

\* While the exact stream is consumed its layer is still to be measured.
TimingOf ==
  stage = "timing" =>
    /\ IsCalibrating(shape) /\ Admission.step = current /\ current # None
    /\ block \in Calibration \ DOMAIN Admission.samples

\* What is known of the admission of a shape.
Standing(s) ==
  /\ modes[s] \in BOOLEAN
  /\ grounds[KeyOf(s)] \in Grounds
  /\ admissions[s].admitted => grounds[KeyOf(s)].sound
  /\ grounds[KeyOf(s)].steps \subseteq {admissions[s].step}
  /\ IsCalibrating(s) =>
       /\ ~admissions[s].admitted /\ grounds[KeyOf(s)].uses = 1
       /\ ~Cached(KeyOf(s))
AdmittedOf == \A s \in Shapes : admissions[s] # None => Standing(s)

\* What is known of a copy, and of the grounds of the key it is kept under.
Backed(entry, g) ==
  /\ entry.key[1].fingerprint /\ g \in Grounds
  /\ entry.admission.admitted => g.sound
  /\ g.steps \subseteq {entry.admission.step}
  /\ g.uses + entry.remaining <= 1 + Reuses
CachedOf == \A i \in 1..Len(cache) : Backed(cache[i], grounds[cache[i].key])

BrokenOf ==
  \A s \in broken : admissions[s] # None /\ ~admissions[s].admitted /\ ~IsCalibrating(s)

\* After a lossy answer the admission it stood on is still there, settled.
LossyOf == Lossy => Admission # None /\ ~IsCalibrating(shape)

SolInv ==
  /\ SolTypeOK /\ GroundsTyped
  /\ ObservedOf /\ SparseOf /\ TimingOf
  /\ AdmittedOf /\ CachedOf /\ BrokenOf /\ LossyOf
  /\ LossyInsideWindow /\ LossyWellMeasured /\ MeasuredStepExact
  /\ ReuseOnce /\ BrokenStaysExact

\* A calibration belongs to the running forward, and has measured exactly the
\* calibration layers the forward has passed.
CalibratingOf ==
  \A s \in Shapes : IsCalibrating(s) =>
    /\ s = shape /\ stage \in {"enter", "dual", "override", "timing"}
    /\ current = admissions[s].step
    /\ Ordinal = admissions[s].step
    /\ shape \in Qualified /\ SolWindowPhase(Ordinal, shape) # "outside"
    /\ DOMAIN admissions[s].samples = {layer \in Calibration : layer < block}
    /\ DOMAIN admissions[s].samples # Calibration

\* An eligible forward without admission has passed protected layers only.
UnbegunOf ==
  /\ stage \in {"enter", "dual", "override"} /\ shape \in Qualified
  /\ SolWindowPhase(Ordinal, shape) # "outside" /\ Admission = None
  => \A layer \in 0..(block - 1) : layer \in Protected

\* Only a call that will not ask for an admission is offered as exact while
\* there is none.
ExactOf ==
  stage = "dual" /\ (Admission = None \/ IsCalibrating(shape)) =>
    \/ shape \notin Qualified \/ block \in Protected
    \/ SolWindowPhase(Ordinal, shape) = "outside"

SettleInv == CalibratingOf /\ UnbegunOf /\ ExactOf

-----------------------------------------------------------------------------
(* The steps, by what they do to admissions, cache and grounds.            *)

Moves ==
  /\ stage' \in {"override", "timing", "streaming"}
  /\ stage' = "timing" => Measures
  /\ stage' = "streaming" => Sparse
  /\ stage' = "override" => stage = "dual"
  /\ InCall
  /\ UNCHANGED <<setting, sample, forwards, shape, block, owner, answer, clock,
                 modes, admissions, cache, history>>

Keeps(kind) ==
  /\ InCall /\ kind \in {"lossy", "exact"} /\ (kind = "lossy" => MayBeLossy)
  /\ Answers(kind)
  /\ UNCHANGED <<modes, admissions, cache, history>>

Unmeasured ==
  DualAnswers \/ Ineligible \/ AwaitsCalibration \/ StaysExact \/ AnswerWhole
  \/ StreamConsumed

Measuring ==
  /\ InCall /\ IsCalibrating(shape) /\ Admission.step = current /\ current # None
  /\ block \in Calibration \ DOMAIN Admission.samples

Finishes(measurement) ==
  /\ Measuring /\ FinishSample(measurement) /\ Answers("exact")
  /\ UNCHANGED <<modes, broken>>

Fails ==
  /\ InCall /\ Admission # None
  /\ \E new \in Admissions :
       /\ new.status \in {"ready", "failed"} /\ ~new.admitted /\ new.step = Admission.step
       /\ admissions' = [admissions EXCEPT ![shape] = new]
  /\ broken' = broken \union {shape}
  /\ Answers("exact")
  /\ UNCHANGED <<modes, cache, grounds>>

LEMMA NoSamplesTyped == NoSamples \in Samples
  <1>1. NoSamples \in [{} -> Measurements]
    BY DEF NoSamples
  <1> QED
    BY <1>1 DEF Samples

\* Where the override decides for a lossy answer, it may be given.
LEMMA SparseMay == SolInv /\ Sparse => MayBeLossy
  <1> SUFFICES ASSUME SolInv, Sparse PROVE MayBeLossy
    OBVIOUS
  <1>1. /\ block \notin Protected /\ SolWindowPhase(current, shape) # "outside"
        /\ SolWindowPhase(current, shape) # "precalibration"
    BY DEF Sparse, Deciding, Eligible
  <1>2. current # None /\ Active(current, shape)
    BY <1>1 DEF SolWindowPhase
  <1> QED
    BY <1>1, <1>2 DEF Sparse, Deciding, MayBeLossy

LEMMA MeasuresMeasuring == SolInv /\ (Measures \/ stage = "timing") => Measuring
  <1> SUFFICES ASSUME SolInv, Measures \/ stage = "timing" PROVE Measuring
    OBVIOUS
  <1>1. CASE Measures
    <2>1. SolWindowPhase(current, shape) # "outside"
      BY <1>1 DEF Measures, Calibrating, Deciding, Eligible
    <2>2. current # None
      BY <2>1 DEF SolWindowPhase
    <2> QED
      BY <1>1, <2>2 DEF Measures, Calibrating, Deciding, Measuring, InCall, IsCalibrating, Admission
  <1>2. CASE stage = "timing"
    BY <1>2 DEF SolInv, TimingOf, Measuring, InCall
  <1> QED
    BY <1>1, <1>2

\* Replaced fields of an admission.
LEMMA AdmissionFields ==
  ASSUME NEW a \in Admissions
  PROVE  /\ LET new == [a EXCEPT !.admitted = FALSE] IN
            /\ new \in Admissions /\ new.status = a.status
            /\ new.admitted = FALSE /\ new.step = a.step
         /\ \A samples \in Samples : LET new == [a EXCEPT !.samples = samples] IN
            /\ new \in Admissions /\ new.status = a.status /\ new.samples = samples
            /\ new.admitted = a.admitted /\ new.step = a.step
         /\ \A status \in Statuses, admitted \in BOOLEAN : Settled(a, status, admitted) \in Admissions
  BY NoSamplesTyped DEF Admissions, Settled

LEMMA FailsOf == SolInv /\ (CalibrationFails \/ SparseFails) => Fails
  <1> SUFFICES ASSUME SolInv, CalibrationFails \/ SparseFails PROVE Fails
    OBVIOUS
  <1>0. shape \in Shapes /\ admissions \in [Shapes -> Admissions \union {None}]
    BY DEF SolInv, SolTypeOK
  <1>1. CASE CalibrationFails
    <2>1. Measuring
      BY <1>1, MeasuresMeasuring DEF CalibrationFails
    <2>2. Admission \in Admissions /\ Admission # None /\ InCall
      BY <1>0, <2>1 DEF Measuring, IsCalibrating, Admission
    <2>3. "failed" \in Statuses
      BY DEF Statuses
    <2> DEFINE new == Settled(Admission, "failed", FALSE)
    <2>4. new \in Admissions
      BY <2>2, <2>3, AdmissionFields
    <2>5. new.status = "failed" /\ ~new.admitted /\ new.step = Admission.step
      BY DEF Settled
    <2>6. admissions' = [admissions EXCEPT ![shape] = new]
      BY <1>1 DEF CalibrationFails, Admission
    <2> HIDE DEF new
    <2> QED
      BY <1>1, <2>2, <2>4, <2>5, <2>6 DEF CalibrationFails, Fails
  <1>2. CASE SparseFails
    <2>1. MayBeLossy
      BY <1>2, SparseMay DEF SparseFails, SolInv, SparseOf
    <2>2. Admission \in Admissions /\ Admission # None /\ Admission.status \in {"ready", "failed"}
      BY <1>0, <2>1 DEF MayBeLossy, Admissions, Statuses, Admission
    <2>3. InCall
      BY <1>2 DEF SparseFails, Sparse, Deciding, InCall
    <2> DEFINE new == [Admission EXCEPT !.admitted = FALSE]
    <2>4. new \in Admissions /\ new.status = Admission.status /\ ~new.admitted
          /\ new.step = Admission.step
      BY <2>2, AdmissionFields
    <2>5. admissions' = [admissions EXCEPT ![shape] = new]
      BY <1>2 DEF SparseFails, Admission
    <2> HIDE DEF new
    <2> QED
      BY <1>2, <2>2, <2>3, <2>4, <2>5 DEF SparseFails, Fails
  <1> QED
    BY <1>1, <1>2

\* Every step is one of these; a call that keeps its admission is no measurement.
LEMMA StepKinds ==
  SolInv /\ Next =>
    \/ \E options \in Settings : BeginSample(options)
    \/ \E s \in Shapes, step \in 0..(Steps - 1), between \in BOOLEAN :
         BeginForward(s, step, between)
    \/ RouteCall \/ Moves \/ (\E streamed \in BOOLEAN : DecideStream(streamed))
    \/ TakeCached \/ BeginCalibration \/ (Unmeasured /\ \E kind : Keeps(kind))
    \/ (\E measurement \in Measurements : Finishes(measurement)) \/ Fails
  <1> SUFFICES ASSUME SolInv, Next
               PROVE  \/ \E options \in Settings : BeginSample(options)
                      \/ \E s \in Shapes, step \in 0..(Steps - 1), between \in BOOLEAN :
                           BeginForward(s, step, between)
                      \/ RouteCall \/ Moves
                      \/ (\E streamed \in BOOLEAN : DecideStream(streamed))
                      \/ TakeCached \/ BeginCalibration
                      \/ (Unmeasured /\ \E kind : Keeps(kind))
                      \/ (\E measurement \in Measurements : Finishes(measurement)) \/ Fails
    OBVIOUS
  <1>1. CASE DualAnswers
    <2>1. Keeps(IF owner = "sparse" THEN "lossy" ELSE "exact")
      BY <1>1 DEF DualAnswers, Keeps, SolInv, SparseOf, InCall
    <2> QED
      BY <1>1, <2>1 DEF Unmeasured
  <1>2. CASE DualDeclines
    BY <1>2 DEF DualDeclines, Moves, InCall
  <1>3. CASE Ineligible \/ AwaitsCalibration \/ StaysExact
    <2>1. Keeps("exact")
      BY <1>3 DEF Ineligible, AwaitsCalibration, StaysExact, Calibrating, Deciding, Keeps, InCall
    <2> QED
      BY <1>3, <2>1 DEF Unmeasured
  <1>4. CASE AnswerWhole \/ StreamConsumed
    <2>1. MayBeLossy
      BY <1>4, SparseMay DEF AnswerWhole, StreamConsumed, SolInv, SparseOf
    <2>2. Keeps("lossy")
      BY <1>4, <2>1 DEF AnswerWhole, StreamConsumed, Sparse, Deciding, Keeps, InCall
    <2> QED
      BY <1>4, <2>2 DEF Unmeasured
  <1>5. CASE MeasureStream
    BY <1>5 DEF MeasureStream, Moves, InCall, Measures, Calibrating, Deciding
  <1>6. CASE AnswerStream
    BY <1>6 DEF AnswerStream, Moves, InCall, Sparse, Deciding
  <1>7. ASSUME NEW measurement \in Measurements,
               MeasureWhole(measurement) \/ TimingComplete(measurement)
        PROVE  Finishes(measurement)
    BY <1>7, MeasuresMeasuring DEF MeasureWhole, TimingComplete, Finishes
  <1>8. CASE CalibrationFails \/ SparseFails
    BY <1>8, FailsOf
  <1> QED
    BY <1>1, <1>2, <1>3, <1>4, <1>5, <1>6, <1>7, <1>8 DEF Next

-----------------------------------------------------------------------------
(* Types.                                                                  *)

\* All of SolTypeOK but admissions, modes, cache and broken.
CallTyped ==
  /\ setting \in Settings /\ sample \in 0..MaxSamples /\ forwards \in 0..MaxForwards
  /\ stage \in {"idle", "sampling", "enter", "dual", "override", "timing", "streaming"}
  /\ sigma \in 0..(Steps - 1) /\ onGrid \in BOOLEAN
  /\ current \in 0..(Steps - 1) \union {None}
  /\ shape \in Shapes /\ block \in Layers
  /\ owner \in {None, "exact", "sol", "sparse"}
  /\ answer \in [block : Layers, kind : {None, "exact", "lossy"}]

DataTyped ==
  /\ modes \in [Shapes -> BOOLEAN \union {None}]
  /\ admissions \in [Shapes -> Admissions \union {None}]
  /\ CacheOK(cache) /\ Len(cache) <= CacheEntries
  /\ broken \subseteq Shapes

LEMMA TypeParts == SolTypeOK <=> CallTyped /\ DataTyped
  BY DEF SolTypeOK, CallTyped, DataTyped, CacheOK

LEMMA AnswersTyped ==
  ASSUME CallTyped, NEW kind \in {"lossy", "exact"}, Answers(kind)
  PROVE  CallTyped'
  <1> USE SolAssumption DEF CallTyped, Answers, clock, Layers
  <1>1. answer' \in [block : Layers, kind : {None, "exact", "lossy"}]
    OBVIOUS
  <1>2. block' \in Layers
    OBVIOUS
  <1>3. /\ stage' \in {"idle", "sampling", "enter", "dual", "override", "timing", "streaming"}
        /\ owner' \in {None, "exact", "sol", "sparse"}
    OBVIOUS
  <1>4. UNCHANGED <<setting, sample, forwards, shape, sigma, onGrid, current>>
    OBVIOUS
  <1> QED
    BY <1>1, <1>2, <1>3, <1>4

LEMMA OrdinalTyped == CallTyped => Ordinal \in 0..(Steps - 1) \union {None}
  BY DEF CallTyped, Ordinal

LEMMA RouteTyped == \A step : Route(step) \in {"exact", "sol", "sparse"}
  BY DEF Route, SolWindowPhase

LEMMA FirstLayer == 0 \in Layers /\ BlockCount \in Nat \ {0}
  <1>1. PICK layer \in Calibration : layer \in 0..(BlockCount - 1)
    BY SolAssumption
  <1> QED
    BY <1>1, SolAssumption DEF Layers

LEMMA CallTypedStep == SolInv /\ Next => CallTyped'
  <1> SUFFICES ASSUME SolInv, Next PROVE CallTyped'
    OBVIOUS
  <1>0. CallTyped /\ DataTyped
    BY TypeParts DEF SolInv
  <1>1. ASSUME NEW options \in Settings, BeginSample(options) PROVE CallTyped'
    <2>1. (CHOOSE s \in Shapes : TRUE) \in Shapes
      BY SolAssumption
    <2>2. 0 \in Layers
      BY FirstLayer
    <2>3. answer' \in [block : Layers, kind : {None, "exact", "lossy"}]
      BY <1>1, <2>2 DEF BeginSample
    <2>4. sample' \in 0..MaxSamples /\ forwards' \in 0..MaxForwards /\ sigma' \in 0..(Steps - 1)
      BY <1>0, <1>1, SolAssumption DEF CallTyped, BeginSample
    <2> QED
      BY <1>0, <1>1, <2>1, <2>2, <2>3, <2>4 DEF CallTyped, BeginSample
  <1>2. ASSUME NEW s \in Shapes, NEW step \in 0..(Steps - 1), NEW between \in BOOLEAN,
               BeginForward(s, step, between)
        PROVE  CallTyped'
    <2>1. 0 \in Layers
      BY FirstLayer
    <2>2. answer' \in [block : Layers, kind : {None, "exact", "lossy"}]
      BY <1>2, <2>1 DEF BeginForward
    <2>3. forwards' \in 0..MaxForwards
      BY <1>0, <1>2, SolAssumption DEF CallTyped, BeginForward
    <2> QED
      BY <1>0, <1>2, <2>1, <2>2, <2>3 DEF CallTyped, BeginForward
  <1>3. CASE RouteCall
    <2>1. ObserveStep \in 0..(Steps - 1) \union {None}
      BY <1>0, OrdinalTyped DEF ObserveStep, CallTyped
    <2>2. Route(ObserveStep) \in {"exact", "sol", "sparse"}
      BY RouteTyped
    <2> QED
      BY <1>0, <1>3, <2>1, <2>2 DEF CallTyped, RouteCall
  <1>4. CASE Moves
    BY <1>0, <1>4 DEF CallTyped, Moves, clock
  <1>5. CASE (\E streamed \in BOOLEAN : DecideStream(streamed)) \/ TakeCached \/ BeginCalibration
    BY <1>0, <1>5 DEF CallTyped, DecideStream, TakeCached, BeginCalibration, call, clock
  <1>6. ASSUME NEW kind, Keeps(kind) PROVE CallTyped'
    BY <1>0, <1>6, AnswersTyped DEF Keeps
  <1>7. ASSUME NEW measurement \in Measurements, Finishes(measurement) PROVE CallTyped'
    BY <1>0, <1>7, AnswersTyped DEF Finishes
  <1>8. CASE Fails
    BY <1>0, <1>8, AnswersTyped DEF Fails
  <1> QED
    BY <1>1, <1>2, <1>3, <1>4, <1>5, <1>6, <1>7, <1>8, StepKinds

LEMMA KeyTyped ==
  ASSUME CallTyped, DataTyped, NEW s \in Shapes, modes[s] # None
  PROVE  modes[s] \in BOOLEAN /\ KeyOf(s) \in Keys
  BY DEF CallTyped, DataTyped, KeyOf, Keys

\* What a measurement leaves of the admission it belongs to.
LEMMA FinishAdmission ==
  ASSUME SolInv, NEW measurement \in Measurements, Measuring
  PROVE  LET samples == WithSample(measurement)
             ready == Settled(Admission, "ready", Admitted(samples))
             more == [Admission EXCEPT !.samples = samples]
         IN  /\ samples \in Samples
             /\ DOMAIN samples = DOMAIN Admission.samples \union {block}
             /\ Admission \in Admissions /\ Admission.status = "calibrating"
             /\ ready \in Admissions /\ ready.status = "ready"
             /\ ready.admitted = Admitted(samples) /\ ready.step = Admission.step
             /\ more \in Admissions /\ more.status = "calibrating"
             /\ more.admitted = Admission.admitted /\ more.step = Admission.step
             /\ more.samples = samples
  <1> DEFINE samples == WithSample(measurement)
  <1>1. Admission \in Admissions /\ Admission.status = "calibrating"
    BY DEF Measuring, IsCalibrating, SolInv, SolTypeOK, Admission
  <1>2. PICK layers \in SUBSET Calibration : Admission.samples \in [layers -> Measurements]
    BY <1>1 DEF Admissions, Samples
  <1>3. samples \in [layers \union {block} -> Measurements]
    BY <1>2 DEF WithSample
  <1>4. layers \union {block} \in SUBSET Calibration
    BY DEF Measuring
  <1>5. samples \in Samples /\ DOMAIN samples = DOMAIN Admission.samples \union {block}
    BY <1>2, <1>3, <1>4 DEF Samples
  <1>6. Admitted(samples) \in BOOLEAN
    BY DEF Admitted
  <1> HIDE DEF samples
  <1>7. "ready" \in Statuses
    BY DEF Statuses
  <1>8. Settled(Admission, "ready", Admitted(samples)) \in Admissions
    BY <1>1, <1>6, <1>7, AdmissionFields
  <1> DEFINE more == [Admission EXCEPT !.samples = samples]
  <1>9. /\ more \in Admissions /\ more.status = Admission.status /\ more.samples = samples
        /\ more.admitted = Admission.admitted /\ more.step = Admission.step
    BY <1>1, <1>5, AdmissionFields
  <1> QED
    BY <1>1, <1>5, <1>8, <1>9 DEF Settled, samples

\* In an undecided or calibrating call the shape has its mode, and its key.
LEMMA CallKey ==
  ASSUME SolInv, Undecided \/ Measuring
  PROVE  /\ shape \in Shapes /\ modes[shape] \in BOOLEAN
         /\ Key = KeyOf(shape) /\ Key \in Keys
  <1>1. CallTyped /\ DataTyped /\ shape \in Shapes
    BY TypeParts DEF SolInv, CallTyped
  <1>2. modes[shape] # None
    BY <1>1, SolAssumption DEF Undecided, Measuring, IsCalibrating, SolInv, AdmittedOf, Standing
  <1> QED
    BY <1>1, <1>2, KeyTyped DEF Key, KeyOf

\* A new admission, with the step of its forward.
LEMMA NewAdmissionTyped ==
  ASSUME SolInv, Undecided
  PROVE  /\ NewAdmission \in Admissions /\ NewAdmission.step = current
         /\ ~NewAdmission.admitted /\ NewAdmission.status = "calibrating"
         /\ current # None
  <1>1. SolWindowPhase(current, shape) # "outside"
    BY DEF Undecided, Eligible
  <1>2. current # None
    BY <1>1 DEF SolWindowPhase
  <1>3. current \in 0..(Steps - 1)
    BY <1>2 DEF SolInv, SolTypeOK
  <1> QED
    BY <1>2, <1>3, NoSamplesTyped DEF NewAdmission, Admissions, Statuses

\* What a cached copy brings into the sample, and what is known of it.
LEMMA TakenCopy ==
  ASSUME SolInv, NEW key, Cached(key)
  PROVE  LET copy == Entry(key) IN
         /\ copy \in AdmissionCopy /\ copy.key = key
         /\ copy.admission \in Admissions /\ copy.admission.status = "ready"
         /\ grounds[key] \in Grounds
         /\ copy.admission.admitted => grounds[key].sound
         /\ grounds[key].steps \subseteq {copy.admission.step}
         /\ grounds[key].uses + copy.remaining <= 1 + Reuses
  <1>1. CacheOK(cache)
    BY TypeParts DEF SolInv, DataTyped
  <1>2. PICK j \in 1..Len(cache) : Entry(key) = cache[j]
    BY <1>1, TakeCache
  <1>3. Entry(key) \in AdmissionCopy /\ Entry(key).key = key
    BY <1>1, TakeCache
  <1> QED
    BY <1>1, <1>2, <1>3 DEF CacheOK, SolInv, CachedOf, Backed, AdmissionCopy

LEMMA DataTypedStep == SolInv /\ Next => DataTyped'
  <1> SUFFICES ASSUME SolInv, Next PROVE DataTyped'
    OBVIOUS
  <1>0. CallTyped /\ DataTyped
    BY TypeParts DEF SolInv
  <1>1. ASSUME NEW options \in Settings, BeginSample(options) PROVE DataTyped'
    BY <1>0, <1>1 DEF DataTyped, BeginSample, CacheOK
  <1>2. ASSUME NEW s \in Shapes, NEW step \in 0..(Steps - 1), NEW between \in BOOLEAN,
               BeginForward(s, step, between)
        PROVE  DataTyped'
    BY <1>0, <1>2 DEF DataTyped, BeginForward, CacheOK, history
  <1>3. CASE RouteCall \/ Moves
    BY <1>0, <1>3 DEF DataTyped, RouteCall, Moves, CacheOK, history
  <1>4. ASSUME NEW streamed \in BOOLEAN, DecideStream(streamed) PROVE DataTyped'
    BY <1>0, <1>4 DEF DataTyped, DecideStream, CacheOK, history
  <1>5. CASE TakeCached
    <2>1. Cached(Key) /\ cache' = AfterTake(Key)
      BY <1>5 DEF TakeCached
    <2>2. CacheOK(cache') /\ Len(cache') <= Len(cache) /\ CacheOK(cache)
      BY <1>0, <2>1, TakeCache DEF DataTyped
    <2>3. Entry(Key).admission \in Admissions
      BY <2>1, TakenCopy
    <2>4. admissions' \in [Shapes -> Admissions \union {None}]
      BY <1>0, <1>5, <2>3 DEF DataTyped, TakeCached
    <2>5. Len(cache') <= CacheEntries
      BY <1>0, <2>2, SolAssumption DEF DataTyped, CacheOK
    <2> QED
      BY <1>0, <1>5, <2>2, <2>4, <2>5 DEF DataTyped, TakeCached, CacheOK
  <1>6. CASE BeginCalibration
    <2>1. NewAdmission \in Admissions
      BY <1>6, NewAdmissionTyped DEF BeginCalibration
    <2> QED
      BY <1>0, <1>6, <2>1 DEF DataTyped, BeginCalibration, CacheOK
  <1>7. ASSUME NEW kind, Keeps(kind) PROVE DataTyped'
    BY <1>0, <1>7 DEF DataTyped, Keeps, CacheOK, history
  <1>8. ASSUME NEW measurement \in Measurements, Finishes(measurement) PROVE DataTyped'
    <2> DEFINE samples == WithSample(measurement)
               ready == Settled(Admission, "ready", Admitted(samples))
               more == [Admission EXCEPT !.samples = samples]
    <2>1. Measuring
      BY <1>8 DEF Finishes
    <2>2. ready \in Admissions /\ ready.status = "ready" /\ more \in Admissions
      BY <2>1, FinishAdmission
    <2>3. admissions' = [admissions EXCEPT ![shape] = IF Complete(samples) THEN ready ELSE more]
      BY <1>8 DEF Finishes, FinishSample
    <2>4. cache' = IF Complete(samples) /\ setting.fingerprint THEN AfterStore(Key, ready) ELSE cache
      BY <1>8 DEF Finishes, FinishSample
    <2> HIDE DEF samples, ready, more
    <2>5. Key \in Keys
      BY <2>1, CallKey
    <2>6. CacheOK(cache') /\ Len(cache') <= CacheEntries
      BY <1>0, <2>2, <2>4, <2>5, StoreCache DEF DataTyped
    <2>7. admissions' \in [Shapes -> Admissions \union {None}]
      BY <1>0, <2>2, <2>3 DEF DataTyped
    <2> QED
      BY <1>0, <1>8, <2>6, <2>7 DEF DataTyped, Finishes, CacheOK
  <1>9. CASE Fails
    BY <1>0, <1>9 DEF DataTyped, CallTyped, Fails, CacheOK
  <1> QED
    BY <1>1, <1>2, <1>3, <1>4, <1>5, <1>6, <1>7, <1>8, <1>9, StepKinds

LEMMA GroundsTypedStep == SolInv /\ Next => GroundsTyped'
  <1> SUFFICES ASSUME SolInv, Next PROVE GroundsTyped'
    OBVIOUS
  <1>0. GroundsTyped /\ SolTypeOK
    BY DEF SolInv
  <1>1. ASSUME NEW options \in Settings, BeginSample(options) PROVE GroundsTyped'
    BY <1>0, <1>1 DEF GroundsTyped, BeginSample
  <1>2. CASE UNCHANGED grounds
    BY <1>0, <1>2 DEF GroundsTyped
  <1>3. CASE TakeCached
    <2>1. Cached(Key) /\ grounds' = [grounds EXCEPT ![Key].uses = @ + 1]
      BY <1>3 DEF TakeCached
    <2>2. grounds[Key] \in Grounds
      BY <2>1, TakenCopy
    <2>3. [grounds[Key] EXCEPT !.uses = @ + 1] \in Grounds
      BY <2>2 DEF Grounds
    <2> QED
      BY <1>0, <2>1, <2>3 DEF GroundsTyped
  <1>4. CASE BeginCalibration
    <2>1. [sound |-> FALSE, steps |-> {}, uses |-> 1] \in Grounds
      BY DEF Grounds
    <2> QED
      BY <1>0, <1>4, <2>1 DEF GroundsTyped, BeginCalibration
  <1>5. ASSUME NEW measurement \in Measurements, Finishes(measurement) PROVE GroundsTyped'
    <2> DEFINE sound == Sound(WithSample(measurement))
    <2>1. /\ Measuring
          /\ grounds' = [grounds EXCEPT ![Key].sound = sound, ![Key].steps = @ \union {sigma}]
      BY <1>5 DEF Finishes, FinishSample
    <2>2. grounds[Key] \in Grounds /\ shape \in Shapes
      BY <2>1, CallKey DEF SolInv, AdmittedOf, Standing, Measuring, IsCalibrating
    <2>3. sound \in BOOLEAN /\ sigma \in 0..(Steps - 1)
      BY <1>0 DEF Sound, SolTypeOK
    <2> HIDE DEF sound
    <2>4. \A g \in Grounds :
            /\ [g EXCEPT !.sound = sound] \in Grounds
            /\ [g EXCEPT !.steps = @ \union {sigma}] \in Grounds
      BY <2>3 DEF Grounds
    <2> DEFINE once == [grounds EXCEPT ![Key].sound = sound]
    <2>5. once \in [Keys -> Grounds \union {None}]
      BY <1>0, <2>2, <2>4 DEF GroundsTyped
    <2>6. once[Key] \in Grounds
      BY <1>0, <2>1, <2>2, <2>4, CallKey DEF GroundsTyped
    <2>7. grounds' = [once EXCEPT ![Key].steps = @ \union {sigma}]
      BY <2>1
    <2> HIDE DEF once
    <2> QED
      BY <2>4, <2>5, <2>6, <2>7 DEF GroundsTyped
  <1> QED
    BY <1>1, <1>2, <1>3, <1>4, <1>5, StepKinds
    DEF BeginForward, RouteCall, Moves, DecideStream, Keeps, Fails, history

-----------------------------------------------------------------------------
(* The step in force, and the calls it may be lossy in.                    *)

LEMMA ObservedStep == SolInv /\ Next => ObservedOf'
  <1> SUFFICES ASSUME SolInv, Next PROVE ObservedOf'
    OBVIOUS
  <1>0. ObservedOf /\ CallTyped
    BY TypeParts DEF SolInv
  <1> USE DEF ObservedOf, InCall, Ordinal
  <1>1. ASSUME NEW options \in Settings, BeginSample(options) PROVE ObservedOf'
    BY <1>1 DEF BeginSample
  <1>2. ASSUME NEW s \in Shapes, NEW step \in 0..(Steps - 1), NEW between \in BOOLEAN,
               BeginForward(s, step, between)
        PROVE  ObservedOf'
    BY <1>2 DEF BeginForward
  <1>3. CASE RouteCall
    BY <1>0, <1>3 DEF RouteCall, ObserveStep
  <1>4. CASE Moves
    BY <1>0, <1>4 DEF Moves, clock
  <1>5. CASE (\E streamed \in BOOLEAN : DecideStream(streamed)) \/ TakeCached \/ BeginCalibration
    BY <1>0, <1>5 DEF DecideStream, TakeCached, BeginCalibration, call, clock
  <1>6. ASSUME NEW kind, Answers(kind), InCall PROVE ObservedOf'
    BY <1>0, <1>6 DEF Answers, clock
  <1> QED
    BY <1>1, <1>2, <1>3, <1>4, <1>5, <1>6, StepKinds DEF Keeps, Finishes, Measuring, Fails

\* A call leaves these alone until it answers.
LEMMA AnswersLeave ==
  ASSUME NEW kind, Answers(kind)
  PROVE  /\ stage' \in {"sampling", "enter"}
         /\ answer' = [block |-> block, kind |-> kind]
         /\ UNCHANGED <<setting, shape, sigma, onGrid, current>>
  BY DEF Answers, clock

LEMMA SparseStep == SolInv /\ Next => SparseOf' /\ TimingOf'
  <1> SUFFICES ASSUME SolInv, Next PROVE SparseOf' /\ TimingOf'
    OBVIOUS
  <1>0. SparseOf
    BY DEF SolInv
  <1>1. ASSUME NEW options \in Settings, BeginSample(options) PROVE SparseOf' /\ TimingOf'
    BY <1>1 DEF BeginSample, SparseOf, TimingOf
  <1>2. ASSUME NEW s \in Shapes, NEW step \in 0..(Steps - 1), NEW between \in BOOLEAN,
               BeginForward(s, step, between)
        PROVE  SparseOf' /\ TimingOf'
    BY <1>2 DEF BeginForward, SparseOf, TimingOf
  <1>3. CASE RouteCall
    <2>1. stage' \in {"override", "dual"} /\ current' = ObserveStep /\ owner' = Route(ObserveStep)
          /\ UNCHANGED <<setting, shape, block, admissions>>
      BY <1>3 DEF RouteCall
    <2>2. ASSUME Route(ObserveStep) = "sparse"
          PROVE  /\ SolWindowPhase(ObserveStep, shape) = "active" /\ block \notin Protected
                 /\ Admission # None /\ Admission.status # "calibrating"
                 /\ Admission.step # ObserveStep /\ Admission.admitted
      BY <2>2 DEF Route, SolWindowPhase
    <2>3. ASSUME SolWindowPhase(ObserveStep, shape) = "active"
          PROVE  ObserveStep # None /\ Active(ObserveStep, shape)
      BY <2>3 DEF SolWindowPhase
    <2> QED
      BY <2>1, <2>2, <2>3
      DEF SparseOf, TimingOf, MayBeLossy, Admission, Active, AtLeast, AtMost, EffectiveEnd
  <1>4. CASE Moves
    <2>1. UNCHANGED <<setting, shape, block, current, admissions>> /\ stage' # "dual"
      BY <1>4 DEF Moves, clock
    <2>2. stage' = "streaming" => MayBeLossy
      BY <1>4, SparseMay DEF Moves
    <2>3. stage' = "timing" => Measuring
      BY <1>4, MeasuresMeasuring DEF Moves
    <2> QED
      BY <2>1, <2>2, <2>3 DEF SparseOf, TimingOf, MayBeLossy, Measuring, IsCalibrating, Admission,
                              Active, AtLeast, AtMost, EffectiveEnd
  <1>5. CASE (\E streamed \in BOOLEAN : DecideStream(streamed)) \/ TakeCached \/ BeginCalibration
    <2>1. stage = "override" /\ stage' = "override"
      BY <1>5 DEF DecideStream, TakeCached, BeginCalibration, Undecided, call
    <2> QED
      BY <2>1 DEF SparseOf, TimingOf
  <1>6. ASSUME NEW kind, Answers(kind) PROVE SparseOf' /\ TimingOf'
    BY <1>6, AnswersLeave DEF SparseOf, TimingOf
  <1> QED
    BY <1>1, <1>2, <1>3, <1>4, <1>5, <1>6, StepKinds DEF Keeps, Finishes, Fails

-----------------------------------------------------------------------------
(* What admissions and copies stand on.                                    *)

\* In a call that measures, the step remembered is the forward's.
LEMMA MeasuringSigma == SolInv /\ Measuring => sigma = Admission.step
  BY DEF SolInv, ObservedOf, Measuring, Ordinal

\* finish_sample admits only what is sound.
LEMMA AdmittedSound ==
  ASSUME NEW samples \in Samples, Complete(samples), Admitted(samples)
  PROVE  Sound(samples)
  <1>1. PICK layers \in SUBSET Calibration : samples \in [layers -> Measurements]
    BY DEF Samples
  <1>2. layers = Calibration
    <2>1. Cardinality(layers) = Cardinality(Calibration)
      BY <1>1 DEF Complete
    <2> QED
      BY <2>1, FS_Subset, SolAssumption
  <1>3. \A layer \in Calibration : samples[layer].ratio \in Nat
    BY <1>1, <1>2, SolAssumption
  <1> QED
    BY <1>1, <1>2, <1>3, SolAssumption DEF Admitted, Sound

LEMMA FinishGrounds ==
  ASSUME SolInv, NEW measurement \in Measurements, Finishes(measurement)
  PROVE  /\ grounds[Key] \in Grounds /\ grounds'[Key] \in Grounds
         /\ grounds'[Key].sound = Sound(WithSample(measurement))
         /\ grounds'[Key].steps = grounds[Key].steps \union {sigma}
         /\ grounds'[Key].uses = grounds[Key].uses
         /\ \A key \in Keys \ {Key} : grounds'[key] = grounds[key]
  <1> DEFINE sound == Sound(WithSample(measurement))
  <1>1. /\ Measuring
        /\ grounds' = [grounds EXCEPT ![Key].sound = sound, ![Key].steps = @ \union {sigma}]
    BY DEF Finishes, FinishSample
  <1>2. grounds[Key] \in Grounds /\ Key \in Keys
    BY <1>1, CallKey DEF SolInv, AdmittedOf, Standing, Measuring, IsCalibrating
  <1>3. sound \in BOOLEAN /\ sigma \in 0..(Steps - 1)
    BY DEF Sound, SolInv, SolTypeOK
  <1> HIDE DEF sound
  <1> DEFINE once == [grounds EXCEPT ![Key].sound = sound]
  <1>4. /\ once \in [Keys -> Grounds \union {None}] /\ once[Key] \in Grounds
        /\ once[Key].sound = sound /\ once[Key].steps = grounds[Key].steps
        /\ once[Key].uses = grounds[Key].uses
        /\ \A key \in Keys \ {Key} : once[key] = grounds[key]
    BY <1>2, <1>3 DEF SolInv, GroundsTyped, Grounds
  <1>5. grounds' = [once EXCEPT ![Key].steps = @ \union {sigma}]
    BY <1>1
  <1> HIDE DEF once
  <1> QED
    BY <1>2, <1>3, <1>4, <1>5 DEF Grounds, sound

\* The shapes of a sample have different keys.
LEMMA KeysDiffer == \A s, t : KeyOf(s) = KeyOf(t) => s = t
  BY DEF KeyOf

LEMMA AdmittedStep == SolInv /\ Next => AdmittedOf'
  <1> SUFFICES ASSUME SolInv, Next PROVE AdmittedOf'
    OBVIOUS
  <1>0. /\ AdmittedOf /\ CachedOf /\ GroundsTyped /\ CallTyped /\ DataTyped /\ CacheOK(cache)
        /\ shape \in Shapes /\ admissions \in [Shapes -> Admissions \union {None}]
        /\ DOMAIN cache = 1..Len(cache)
    BY TypeParts DEF SolInv, DataTyped, CallTyped, CacheOK
  \* A shape whose admission and grounds stay, and that no copy is added for.
  <1>a. ASSUME NEW s \in Shapes, admissions'[s] # None, admissions'[s] = admissions[s],
               setting' = setting, modes'[s] = modes[s],
               grounds'[KeyOf(s)] = grounds[KeyOf(s)],
               Cached(KeyOf(s))' => Cached(KeyOf(s))
        PROVE  Standing(s)'
    BY <1>0, <1>a DEF AdmittedOf, Standing, IsCalibrating, KeyOf
  <1>1. ASSUME NEW options \in Settings, BeginSample(options) PROVE AdmittedOf'
    BY <1>1 DEF BeginSample, AdmittedOf
  <1>2. CASE UNCHANGED <<setting, modes, admissions, cache, grounds>>
    <2>1. \A s \in Shapes : Cached(KeyOf(s))' => Cached(KeyOf(s))
      BY <1>2 DEF Cached, KeyOf
    <2> QED
      BY <1>2, <2>1, <1>a DEF AdmittedOf
  <1>3. ASSUME NEW streamed \in BOOLEAN, DecideStream(streamed) PROVE AdmittedOf'
    <2>1. UNCHANGED <<setting, admissions, cache, grounds>> /\ modes[shape] = None
          /\ modes' = [modes EXCEPT ![shape] = streamed]
      BY <1>3 DEF DecideStream, history
    <2>2. ASSUME NEW s \in Shapes, admissions'[s] # None PROVE modes'[s] = modes[s]
      BY <1>0, <2>1, <2>2, SolAssumption DEF AdmittedOf, Standing, DataTyped
    <2>3. ASSUME NEW s \in Shapes, modes'[s] = modes[s]
          PROVE  Cached(KeyOf(s))' => Cached(KeyOf(s))
      BY <2>1, <2>3 DEF Cached, KeyOf
    <2> QED
      BY <2>1, <2>2, <2>3, <1>a DEF AdmittedOf
  <1>4. CASE TakeCached
    <2>1. /\ UNCHANGED <<setting, modes, shape>> /\ Cached(Key) /\ cache' = AfterTake(Key)
          /\ admissions' = [admissions EXCEPT ![shape] = Entry(Key).admission]
          /\ grounds' = [grounds EXCEPT ![Key].uses = @ + 1]
      BY <1>4 DEF TakeCached, call
    <2>2. Key = KeyOf(shape) /\ Key \in Keys /\ modes[shape] \in BOOLEAN
      BY <1>4, CallKey DEF TakeCached
    <2>3. \A key : Cached(key)' => Cached(key)
      <3>1. /\ CacheOK(cache') /\ Entry(Key).key = Key /\ \E j \in 1..Len(cache) : Entry(Key) = cache[j]
            /\ Entry(Key) \in AdmissionCopy
            /\ \A i \in 1..Len(cache') :
                 \/ \E j \in 1..Len(cache) : cache'[i] = cache[j]
                 \/ cache'[i] = [Entry(Key) EXCEPT !.remaining = @ - 1]
        BY <1>0, <2>1, TakeCache
      <3>2. [Entry(Key) EXCEPT !.remaining = @ - 1].key = Key
        BY <3>1 DEF AdmissionCopy
      <3>3. DOMAIN cache' = 1..Len(cache')
        BY <3>1 DEF CacheOK
      <3>4. \A i \in 1..Len(cache') : \E j \in 1..Len(cache) : cache'[i].key = cache[j].key
        BY <3>1, <3>2
      <3> QED
        BY <1>0, <3>3, <3>4 DEF Cached
    <2>4. ASSUME NEW s \in Shapes, s # shape, admissions'[s] # None
          PROVE  /\ admissions'[s] = admissions[s] /\ modes'[s] = modes[s]
                 /\ grounds'[KeyOf(s)] = grounds[KeyOf(s)]
                 /\ Cached(KeyOf(s))' => Cached(KeyOf(s))
      <3>1. admissions'[s] = admissions[s] /\ modes'[s] = modes[s]
        BY <1>0, <2>1, <2>4
      <3>2. KeyOf(s) \in Keys /\ KeyOf(s) # Key
        BY <1>0, <2>2, <2>4, <3>1, KeyTyped, KeysDiffer, SolAssumption DEF AdmittedOf, Standing
      <3>3. grounds'[KeyOf(s)] = grounds[KeyOf(s)]
        BY <1>0, <2>1, <3>2 DEF GroundsTyped
      <3>4. KeyOf(s)' = KeyOf(s)
        BY <2>1, <3>1 DEF KeyOf
      <3>5. Cached(KeyOf(s))' => Cached(KeyOf(s))
        BY <2>3, <3>4 DEF Cached
      <3> QED
        BY <3>1, <3>3, <3>5
    <2>5. /\ admissions'[shape] = Entry(Key).admission /\ grounds'[Key] \in Grounds
          /\ grounds'[Key].sound = grounds[Key].sound /\ grounds'[Key].steps = grounds[Key].steps
      <3>1. grounds[Key] \in Grounds
        BY <2>1, TakenCopy
      <3> QED
        BY <1>0, <2>1, <2>2, <3>1 DEF GroundsTyped, Grounds
    <2>6. /\ Entry(Key).admission.status = "ready"
          /\ Entry(Key).admission.admitted => grounds[Key].sound
          /\ grounds[Key].steps \subseteq {Entry(Key).admission.step}
      BY <2>1, TakenCopy
    <2>7. ASSUME NEW s \in Shapes, s = shape PROVE Standing(s)'
      <3>1. KeyOf(s)' = Key
        BY <2>1, <2>2, <2>7 DEF KeyOf
      <3> QED
        BY <2>1, <2>2, <2>5, <2>6, <2>7, <3>1 DEF Standing, IsCalibrating
    <2> QED
      BY <2>1, <2>4, <2>7, <1>a DEF AdmittedOf
  <1>5. CASE BeginCalibration
    <2>1. /\ UNCHANGED <<setting, modes, cache, shape>> /\ ~(setting.fingerprint /\ Cached(Key))
          /\ admissions' = [admissions EXCEPT ![shape] = NewAdmission]
          /\ grounds' = [grounds EXCEPT ![Key] = [sound |-> FALSE, steps |-> {}, uses |-> 1]]
      BY <1>5 DEF BeginCalibration, call
    <2>2. Key = KeyOf(shape) /\ Key \in Keys /\ modes[shape] \in BOOLEAN /\ Key[1] = setting
      BY <1>5, CallKey DEF BeginCalibration, Key
    <2>3. ~Cached(Key)
      BY <1>0, <2>1, <2>2 DEF Cached, CachedOf, Backed
    <2>4. ASSUME NEW s \in Shapes, s # shape, admissions'[s] # None
          PROVE  /\ admissions'[s] = admissions[s] /\ modes'[s] = modes[s]
                 /\ grounds'[KeyOf(s)] = grounds[KeyOf(s)]
                 /\ Cached(KeyOf(s))' => Cached(KeyOf(s))
      <3>1. admissions'[s] = admissions[s] /\ modes'[s] = modes[s]
        BY <1>0, <2>1, <2>4
      <3>2. KeyOf(s) \in Keys /\ KeyOf(s) # Key
        BY <1>0, <2>2, <2>4, <3>1, KeyTyped, KeysDiffer, SolAssumption DEF AdmittedOf, Standing
      <3>3. Cached(KeyOf(s))' => Cached(KeyOf(s))
        BY <2>1, <3>1 DEF Cached, KeyOf
      <3> QED
        BY <1>0, <2>1, <3>1, <3>2, <3>3 DEF GroundsTyped
    <2>5. /\ admissions'[shape] = NewAdmission /\ ~NewAdmission.admitted
          /\ grounds'[Key] = [sound |-> FALSE, steps |-> {}, uses |-> 1]
          /\ grounds'[Key] \in Grounds
      BY <1>0, <1>5, <2>1, <2>2, NewAdmissionTyped DEF BeginCalibration, GroundsTyped, Grounds
    <2>6. ASSUME NEW s \in Shapes, s = shape PROVE Standing(s)'
      <3>1. KeyOf(s)' = Key
        BY <2>1, <2>2, <2>6 DEF KeyOf
      <3>2. ~Cached(KeyOf(s))'
        BY <2>1, <2>3, <3>1 DEF Cached
      <3> QED
        BY <2>1, <2>2, <2>5, <2>6, <3>1, <3>2 DEF Standing, IsCalibrating
    <2> QED
      BY <2>1, <2>4, <2>6, <1>a DEF AdmittedOf
  <1>6. ASSUME NEW measurement \in Measurements, Finishes(measurement) PROVE AdmittedOf'
    <2> DEFINE samples == WithSample(measurement)
               ready == Settled(Admission, "ready", Admitted(samples))
               more == [Admission EXCEPT !.samples = samples]
    <2>1. /\ Measuring /\ setting' = setting /\ modes' = modes
          /\ admissions' = [admissions EXCEPT ![shape] = IF Complete(samples) THEN ready ELSE more]
          /\ cache' = IF Complete(samples) /\ setting.fingerprint THEN AfterStore(Key, ready) ELSE cache
      BY <1>6, AnswersLeave DEF Finishes, FinishSample
    <2>2. /\ samples \in Samples
          /\ ready \in Admissions /\ ready.status = "ready" /\ ready.step = Admission.step
          /\ ready.admitted = Admitted(samples)
          /\ more.status = "calibrating" /\ more.step = Admission.step
          /\ more.admitted = Admission.admitted
      BY <2>1, FinishAdmission
    <2>3. /\ grounds'[Key] \in Grounds /\ grounds'[Key].sound = Sound(samples)
          /\ grounds'[Key].steps = grounds[Key].steps \union {sigma}
          /\ grounds'[Key].uses = grounds[Key].uses
          /\ \A key \in Keys \ {Key} : grounds'[key] = grounds[key]
      BY <1>6, FinishGrounds
    <2>4. Complete(samples) /\ Admitted(samples) => Sound(samples)
      BY <2>2, AdmittedSound
    <2> HIDE DEF samples, ready, more
    <2>5. Key = KeyOf(shape) /\ Key \in Keys /\ modes[shape] \in BOOLEAN /\ sigma = Admission.step
      BY <2>1, CallKey, MeasuringSigma
    <2>6. /\ ~Admission.admitted /\ grounds[Key].uses = 1 /\ ~Cached(Key)
          /\ grounds[Key].steps \subseteq {Admission.step}
      BY <1>0, <2>1, <2>5 DEF AdmittedOf, Standing, Measuring, IsCalibrating, Admission
    <2>7. \A key : Cached(key)' => Cached(key) \/ key = Key
      <3>1. CASE Complete(samples) /\ setting.fingerprint
        <4>0. /\ Len(cache) <= CacheEntries /\ Key \in Keys
              /\ ready \in Admissions /\ ready.status = "ready"
          BY <1>0, <2>2, <2>5 DEF DataTyped
        <4>1. /\ CacheOK(AfterStore(Key, ready))
              /\ \A i \in 1..Len(AfterStore(Key, ready)) :
                   \/ \E j \in 1..Len(cache) : AfterStore(Key, ready)[i] = cache[j]
                   \/ AfterStore(Key, ready)[i].key = Key
          <5> DEFINE new == [key |-> Key, admission |-> ready, remaining |-> Reuses]
          <5>1. /\ CacheOK(AfterStore(Key, ready))
                /\ \A i \in 1..Len(AfterStore(Key, ready)) :
                     \/ /\ AfterStore(Key, ready)[i].key # Key
                        /\ \E j \in 1..Len(cache) : AfterStore(Key, ready)[i] = cache[j]
                     \/ AfterStore(Key, ready)[i] = new
            BY <1>0, <4>0, StoreCache
          <5>2. new.key = Key
            OBVIOUS
          <5> HIDE DEF new
          <5> QED
            BY <5>1, <5>2
        <4>a. cache' = AfterStore(Key, ready)
          BY <2>1, <3>1
        <4>2. DOMAIN cache' = 1..Len(cache')
          BY <4>1, <4>a DEF CacheOK
        <4> QED
          BY <1>0, <4>1, <4>2, <4>a DEF Cached
      <3>2. CASE ~(Complete(samples) /\ setting.fingerprint)
        BY <2>1, <3>2 DEF Cached
      <3> QED
        BY <3>1, <3>2
    <2>8. ASSUME NEW s \in Shapes, s # shape, admissions'[s] # None
          PROVE  /\ admissions'[s] = admissions[s] /\ modes'[s] = modes[s]
                 /\ grounds'[KeyOf(s)] = grounds[KeyOf(s)]
                 /\ Cached(KeyOf(s))' => Cached(KeyOf(s))
      <3>1. admissions'[s] = admissions[s] /\ modes'[s] = modes[s]
        BY <1>0, <2>1, <2>8
      <3>2. KeyOf(s) \in Keys /\ KeyOf(s) # Key
        BY <1>0, <2>5, <2>8, <3>1, KeyTyped, KeysDiffer, SolAssumption DEF AdmittedOf, Standing
      <3>3. KeyOf(s)' = KeyOf(s)
        BY <2>1, <3>1 DEF KeyOf
      <3>4. Cached(KeyOf(s))' => Cached(KeyOf(s))
        BY <2>7, <3>2, <3>3 DEF Cached
      <3> QED
        BY <2>3, <3>1, <3>2, <3>4
    <2>9. ASSUME NEW s \in Shapes, s = shape PROVE Standing(s)'
      <3>1. KeyOf(s)' = Key
        BY <2>1, <2>5, <2>9 DEF KeyOf
      <3>2. CASE Complete(samples)
        <4>1. admissions'[s] = ready
          BY <1>0, <2>1, <2>9, <3>2
        <4> QED
          BY <2>1, <2>2, <2>3, <2>4, <2>5, <2>6, <2>9, <3>1, <3>2, <4>1 DEF Standing, IsCalibrating
      <3>3. CASE ~Complete(samples)
        <4>1. admissions'[s] = more /\ cache' = cache
          BY <1>0, <2>1, <2>9, <3>3
        <4>2. ~Cached(KeyOf(s))'
          BY <2>6, <3>1, <4>1 DEF Cached
        <4> QED
          BY <2>1, <2>2, <2>3, <2>5, <2>6, <2>9, <3>1, <4>1, <4>2 DEF Standing, IsCalibrating
      <3> QED
        BY <3>2, <3>3
    <2> QED
      BY <2>8, <2>9, <2>1, <1>a DEF AdmittedOf
  <1>7. CASE Fails
    <2>1. /\ UNCHANGED <<setting, modes, cache, grounds>>
          /\ \E new \in Admissions :
               /\ new.status \in {"ready", "failed"} /\ ~new.admitted /\ new.step = Admission.step
               /\ admissions' = [admissions EXCEPT ![shape] = new]
      BY <1>7, AnswersLeave DEF Fails
    <2>2. \A s \in Shapes : KeyOf(s)' = KeyOf(s) /\ (Cached(KeyOf(s))' => Cached(KeyOf(s)))
      BY <2>1 DEF Cached, KeyOf
    <2>3. \A s \in Shapes \ {shape} : admissions'[s] = admissions[s]
      BY <1>0, <2>1
    <2>4. /\ admissions'[shape].status # "calibrating" /\ ~admissions'[shape].admitted
          /\ admissions'[shape].step = Admission.step
      BY <1>0, <2>1
    <2>5. ASSUME NEW s \in Shapes, s = shape PROVE Standing(s)'
      <3>1. Standing(s)
        BY <1>0, <1>7, <2>5 DEF AdmittedOf, Fails, Admission
      <3>2. admissions[s] = Admission
        BY <2>5 DEF Admission
      <3> QED
        BY <2>1, <2>2, <2>4, <2>5, <3>1, <3>2 DEF Standing, IsCalibrating
    <2> QED
      BY <2>1, <2>2, <2>3, <2>5, <1>a DEF AdmittedOf
  <1> QED
    BY <1>1, <1>2, <1>3, <1>4, <1>5, <1>6, <1>7, StepKinds, AnswersLeave
    DEF BeginForward, RouteCall, Moves, Keeps, history

LEMMA CachedStep == SolInv /\ Next => CachedOf' /\ ReuseOnce'
  <1> SUFFICES ASSUME SolInv, Next PROVE CachedOf' /\ ReuseOnce'
    OBVIOUS
  <1>0. /\ CachedOf /\ GroundsTyped /\ CallTyped /\ DataTyped /\ CacheOK(cache) /\ ReuseOnce
        /\ \A i \in 1..Len(cache) : cache[i] \in AdmissionCopy
        /\ DOMAIN cache = 1..Len(cache)
    BY TypeParts DEF SolInv, DataTyped, CacheOK
  <1>1. ASSUME NEW options \in Settings, BeginSample(options) PROVE CachedOf' /\ ReuseOnce'
    <2>1. cache' = cache /\ grounds' = [key \in Keys |-> IF Cached(key) THEN grounds[key] ELSE None]
      BY <1>1 DEF BeginSample
    <2>2. \A i \in 1..Len(cache) : grounds'[cache[i].key] = grounds[cache[i].key]
      BY <1>0, <2>1 DEF Cached, AdmissionCopy
    <2>3. CachedOf'
      BY <1>0, <2>1, <2>2 DEF CachedOf, Backed
    <2>4. ReuseOnce'
      BY <1>0, <2>1 DEF ReuseOnce
    <2> QED
      BY <2>3, <2>4
  <1>2. CASE UNCHANGED <<cache, grounds>>
    BY <1>0, <1>2 DEF CachedOf, Backed, ReuseOnce
  <1>3. CASE TakeCached
    <2>1. /\ Cached(Key) /\ cache' = AfterTake(Key)
          /\ grounds' = [grounds EXCEPT ![Key].uses = @ + 1]
      BY <1>3 DEF TakeCached
    <2>2. Key \in Keys
      BY <1>3, CallKey DEF TakeCached
    <2> DEFINE old == Entry(Key)
               new == [old EXCEPT !.remaining = @ - 1]
    <2>3. /\ old \in AdmissionCopy /\ old.key = Key /\ grounds[Key] \in Grounds
          /\ old.key[1].fingerprint
          /\ old.admission.admitted => grounds[Key].sound
          /\ grounds[Key].steps \subseteq {old.admission.step}
          /\ grounds[Key].uses + old.remaining <= 1 + Reuses
      <3>1. \E j \in 1..Len(cache) : old = cache[j]
        BY <1>0, <2>1, TakeCache
      <3> QED
        BY <1>0, <2>1, <3>1, TakenCopy DEF CachedOf, Backed
    <2>4. \A i \in 1..Len(cache') :
            \/ cache'[i].key # Key /\ \E j \in 1..Len(cache) : cache'[i] = cache[j]
            \/ cache'[i] = new
      BY <1>0, <2>1, TakeCache
    <2>5. /\ grounds'[Key] \in Grounds /\ grounds'[Key].sound = grounds[Key].sound
          /\ grounds'[Key].steps = grounds[Key].steps /\ grounds'[Key].uses = grounds[Key].uses + 1
          /\ \A key \in Keys \ {Key} : grounds'[key] = grounds[key]
      BY <1>0, <2>1, <2>2, <2>3 DEF GroundsTyped, Grounds
    <2>6. /\ new.key = Key /\ new.admission = old.admission /\ new.remaining = old.remaining - 1
          /\ old.remaining \in 1..Reuses
      BY <2>3 DEF AdmissionCopy
    <2> HIDE DEF old, new
    <2>7. ASSUME NEW i \in 1..Len(cache') PROVE Backed(cache'[i], grounds'[cache'[i].key])
      <3>1. CASE cache'[i] = new
        <4>1. /\ new.key = Key /\ new.key[1].fingerprint
              /\ new.admission.admitted => grounds'[Key].sound
              /\ grounds'[Key].steps \subseteq {new.admission.step}
          BY <2>3, <2>5, <2>6
        <4>2. /\ grounds[Key].uses \in Nat /\ grounds'[Key].uses = grounds[Key].uses + 1
              /\ old.remaining \in Int /\ Reuses \in Nat
              /\ new.remaining = old.remaining - 1
          BY <2>3, <2>5, <2>6, SolAssumption DEF Grounds
        <4>3. grounds'[Key].uses + new.remaining <= 1 + Reuses
          BY <2>3, <4>2
        <4> QED
          BY <2>5, <3>1, <4>1, <4>3 DEF Backed
      <3>2. CASE cache'[i].key # Key /\ \E j \in 1..Len(cache) : cache'[i] = cache[j]
        <4>1. PICK j \in 1..Len(cache) : cache'[i] = cache[j]
          BY <3>2
        <4>2. cache'[i].key \in Keys \ {Key}
          BY <1>0, <3>2, <4>1 DEF AdmissionCopy
        <4>3. grounds'[cache'[i].key] = grounds[cache[j].key]
          BY <2>5, <4>1, <4>2
        <4> QED
          BY <1>0, <4>1, <4>3 DEF CachedOf, Backed
      <3> QED
        BY <2>4, <3>1, <3>2
    <2>8. CachedOf'
      BY <2>7 DEF CachedOf
    <2>9. grounds'[Key].uses <= 1 + Reuses
      BY <2>3, <2>5, <2>6, SolAssumption DEF Grounds
    <2>10. ReuseOnce'
      BY <1>0, <2>5, <2>9 DEF ReuseOnce
    <2> QED
      BY <2>8, <2>10
  <1>4. CASE BeginCalibration
    <2>1. /\ cache' = cache /\ ~(setting.fingerprint /\ Cached(Key))
          /\ grounds' = [grounds EXCEPT ![Key] = [sound |-> FALSE, steps |-> {}, uses |-> 1]]
      BY <1>4 DEF BeginCalibration
    <2>2. Key \in Keys /\ Key[1] = setting
      BY <1>4, CallKey DEF BeginCalibration, Key
    <2>3. ~Cached(Key)
      BY <1>0, <2>1, <2>2 DEF Cached, CachedOf, Backed
    <2>4. \A i \in 1..Len(cache) : grounds'[cache[i].key] = grounds[cache[i].key]
      BY <1>0, <2>1, <2>3 DEF Cached, GroundsTyped
    <2>5. CachedOf'
      BY <1>0, <2>1, <2>4 DEF CachedOf, Backed
    <2>6. ReuseOnce'
      BY <1>0, <2>1, <2>2, SolAssumption DEF ReuseOnce, GroundsTyped
    <2> QED
      BY <2>5, <2>6
  <1>5. ASSUME NEW measurement \in Measurements, Finishes(measurement) PROVE CachedOf' /\ ReuseOnce'
    <2> DEFINE samples == WithSample(measurement)
               ready == Settled(Admission, "ready", Admitted(samples))
               new == [key |-> Key, admission |-> ready, remaining |-> Reuses]
    <2>1. /\ Measuring
          /\ cache' = IF Complete(samples) /\ setting.fingerprint THEN AfterStore(Key, ready) ELSE cache
      BY <1>5 DEF Finishes, FinishSample
    <2>2. /\ samples \in Samples
          /\ ready \in Admissions /\ ready.status = "ready" /\ ready.step = Admission.step
          /\ ready.admitted = Admitted(samples)
      BY <2>1, FinishAdmission
    <2>3. /\ grounds'[Key] \in Grounds /\ grounds'[Key].sound = Sound(samples)
          /\ grounds'[Key].steps = grounds[Key].steps \union {sigma}
          /\ grounds'[Key].uses = grounds[Key].uses
          /\ \A key \in Keys \ {Key} : grounds'[key] = grounds[key]
      BY <1>5, FinishGrounds
    <2>4. Complete(samples) /\ Admitted(samples) => Sound(samples)
      BY <2>2, AdmittedSound
    <2>5. Key = KeyOf(shape) /\ Key \in Keys /\ Key[1] = setting /\ sigma = Admission.step
      BY <2>1, CallKey, MeasuringSigma DEF Key
    <2>6. /\ grounds[Key].uses = 1 /\ ~Cached(Key) /\ grounds[Key].steps \subseteq {Admission.step}
      BY <2>1, <2>5, CallKey DEF SolInv, AdmittedOf, Standing, Measuring, IsCalibrating, Admission
    <2>7. new.key = Key /\ new.admission = ready /\ new.remaining = Reuses
      OBVIOUS
    <2>8. \/ cache' = cache
          \/ /\ Complete(samples) /\ setting.fingerprint /\ cache' = AfterStore(Key, ready)
             /\ \A i \in 1..Len(cache') :
                  \/ cache'[i].key # Key /\ \E j \in 1..Len(cache) : cache'[i] = cache[j]
                  \/ cache'[i] = new
      <3>1. CASE Complete(samples) /\ setting.fingerprint
        <4> HIDE DEF ready
        <4>1. Len(cache) <= CacheEntries /\ cache' = AfterStore(Key, ready)
          BY <1>0, <2>1, <3>1 DEF DataTyped
        <4>2. \A i \in 1..Len(AfterStore(Key, ready)) :
                \/ /\ AfterStore(Key, ready)[i].key # Key
                   /\ \E j \in 1..Len(cache) : AfterStore(Key, ready)[i] = cache[j]
                \/ AfterStore(Key, ready)[i] = new
          BY <1>0, <2>2, <2>5, <4>1, StoreCache
        <4> QED
          BY <3>1, <4>1, <4>2
      <3>2. CASE ~(Complete(samples) /\ setting.fingerprint)
        BY <2>1, <3>2
      <3> QED
        BY <3>1, <3>2
    <2> HIDE DEF samples, ready, new
    <2>9. ASSUME NEW j \in 1..Len(cache)
          PROVE  grounds'[cache[j].key] = grounds[cache[j].key]
      BY <1>0, <2>3, <2>6 DEF Cached, AdmissionCopy
    <2>10. ASSUME NEW i \in 1..Len(cache') PROVE Backed(cache'[i], grounds'[cache'[i].key])
      <3>1. CASE \E j \in 1..Len(cache) : cache'[i] = cache[j]
        BY <1>0, <2>9, <3>1 DEF CachedOf, Backed
      <3>2. CASE cache'[i] = new /\ Complete(samples) /\ setting.fingerprint
        BY <2>2, <2>3, <2>4, <2>5, <2>6, <2>7, <3>2, SolAssumption DEF Backed, Grounds
      <3> QED
        BY <2>8, <3>1, <3>2
    <2>11. CachedOf'
      BY <2>10 DEF CachedOf
    <2>12. ReuseOnce'
      BY <1>0, <2>3, <2>6, SolAssumption DEF ReuseOnce
    <2> QED
      BY <2>11, <2>12
  <1> QED
    BY <1>1, <1>2, <1>3, <1>4, <1>5, StepKinds
    DEF BeginForward, RouteCall, Moves, DecideStream, Keeps, Fails, history

LEMMA BrokenStep == SolInv /\ Next => BrokenOf'
  <1> SUFFICES ASSUME SolInv, Next PROVE BrokenOf'
    OBVIOUS
  <1>0. /\ BrokenOf /\ broken \subseteq Shapes /\ shape \in Shapes
        /\ admissions \in [Shapes -> Admissions \union {None}]
    BY DEF SolInv, SolTypeOK
  <1> USE DEF BrokenOf, IsCalibrating
  <1>1. ASSUME NEW options \in Settings, BeginSample(options) PROVE BrokenOf'
    BY <1>1 DEF BeginSample
  <1>2. CASE UNCHANGED <<admissions, broken>>
    BY <1>0, <1>2
  <1>3. CASE /\ broken' = broken /\ (Admission = None \/ IsCalibrating(shape))
             /\ \E a : admissions' = [admissions EXCEPT ![shape] = a]
    <2>1. shape \notin broken
      BY <1>0, <1>3 DEF Admission
    <2>2. \A s \in Shapes \ {shape} : admissions'[s] = admissions[s]
      BY <1>0, <1>3
    <2> QED
      BY <1>0, <1>3, <2>1, <2>2
  <1>4. CASE Fails
    <2>1. /\ broken' = broken \union {shape}
          /\ \E new \in Admissions :
               /\ new.status \in {"ready", "failed"} /\ ~new.admitted
               /\ admissions' = [admissions EXCEPT ![shape] = new]
      BY <1>4 DEF Fails
    <2>2. \A s \in Shapes \ {shape} : admissions'[s] = admissions[s]
      BY <1>0, <2>1
    <2>3. /\ admissions'[shape] # None /\ ~admissions'[shape].admitted
          /\ admissions'[shape].status # "calibrating"
      BY <1>0, <2>1, NoneAssumption
    <2> QED
      BY <1>0, <2>1, <2>2, <2>3
  <1>5. CASE TakeCached \/ BeginCalibration
    BY <1>3, <1>5 DEF TakeCached, BeginCalibration, Undecided
  <1>6. ASSUME NEW measurement \in Measurements, Finishes(measurement) PROVE BrokenOf'
    BY <1>3, <1>6 DEF Finishes, Measuring, FinishSample
  <1> QED
    BY <1>1, <1>2, <1>4, <1>5, <1>6, StepKinds
    DEF BeginForward, RouteCall, Moves, DecideStream, Keeps, history

-----------------------------------------------------------------------------
(* Lossy answers.                                                          *)

LossyPart ==
  /\ LossyOf /\ LossyInsideWindow /\ LossyWellMeasured /\ MeasuredStepExact
  /\ BrokenStaysExact

\* The answer itself: all that admits it is in force when it is given.
LEMMA LossyAnswer == SolInv /\ Keeps("lossy") => LossyPart'
  <1> SUFFICES ASSUME SolInv, Keeps("lossy") PROVE LossyPart'
    OBVIOUS
  <1>1. /\ MayBeLossy /\ InCall /\ answer' = [block |-> block, kind |-> "lossy"]
        /\ UNCHANGED <<setting, shape, sigma, onGrid, current, modes, admissions, grounds, broken>>
    BY AnswersLeave DEF Keeps, history
  <1>2. current = Ordinal /\ shape \in Shapes
    BY <1>1 DEF SolInv, ObservedOf, SolTypeOK
  <1>3. onGrid /\ setting.readable /\ sigma = current
    BY <1>1, <1>2 DEF MayBeLossy, Ordinal
  <1>4. Standing(shape) /\ Key = KeyOf(shape)
    BY <1>1, <1>2 DEF SolInv, AdmittedOf, MayBeLossy, Admission, Key, KeyOf
  <1>5. /\ grounds[Key] # None /\ grounds[Key].sound /\ sigma \notin grounds[Key].steps
        /\ ~IsCalibrating(shape) /\ Admission # None
    BY <1>1, <1>3, <1>4, NoneAssumption DEF MayBeLossy, Standing, Admission, IsCalibrating
  <1>6. shape \notin broken
    BY <1>1, <1>2 DEF SolInv, BrokenOf, MayBeLossy, Admission
  <1>7. Key' = Key /\ grounds'[Key'] = grounds[Key]
    BY <1>1 DEF Key
  <1>8. LossyInsideWindow'
    BY <1>1, <1>3 DEF LossyInsideWindow, MayBeLossy, Active, AtLeast, AtMost, EffectiveEnd
  <1>9. LossyOf'
    BY <1>1, <1>5 DEF LossyOf, Admission, IsCalibrating
  <1>10. LossyWellMeasured' /\ MeasuredStepExact' /\ BrokenStaysExact'
    BY <1>1, <1>5, <1>6, <1>7 DEF LossyWellMeasured, MeasuredStepExact, BrokenStaysExact
  <1> QED
    BY <1>8, <1>9, <1>10 DEF LossyPart

LEMMA LossyStep == SolInv /\ Next => LossyPart'
  <1> SUFFICES ASSUME SolInv, Next PROVE LossyPart'
    OBVIOUS
  <1>0. LossyPart
    BY DEF SolInv, LossyPart
  \* Nothing lossy was answered last.
  <1>a. ~Lossy' => LossyPart'
    BY DEF LossyPart, LossyOf, LossyInsideWindow, LossyWellMeasured, MeasuredStepExact,
           BrokenStaysExact
  <1>1. CASE (\E options \in Settings : BeginSample(options))
             \/ (\E s \in Shapes, step \in 0..(Steps - 1), between \in BOOLEAN :
                   BeginForward(s, step, between))
    <2>1. answer'.kind = None
      BY <1>1 DEF BeginSample, BeginForward
    <2> QED
      BY <2>1, <1>a, SolAssumption DEF Lossy
  <1>2. ASSUME Answers("exact") PROVE LossyPart'
    <2>1. answer'.kind = "exact"
      BY <1>2, AnswersLeave
    <2> QED
      BY <2>1, <1>a DEF Lossy
  <1>3. CASE RouteCall \/ Moves
    <2>1. UNCHANGED <<setting, shape, sigma, onGrid, answer, modes, admissions, grounds, broken>>
      BY <1>3 DEF RouteCall, Moves, clock, history
    <2>2. UNCHANGED <<Lossy, Key, Admission>>
      BY <2>1 DEF Lossy, Key, Admission
    <2> QED
      BY <1>0, <2>1, <2>2
      DEF LossyPart, LossyOf, LossyInsideWindow, LossyWellMeasured, MeasuredStepExact,
          BrokenStaysExact, IsCalibrating, Admission, AtLeast, AtMost, EffectiveEnd
  <1>4. CASE (\E streamed \in BOOLEAN : DecideStream(streamed)) \/ TakeCached \/ BeginCalibration
    <2>1. answer' = answer /\ (Admission = None \/ modes[shape] = None)
      BY <1>4 DEF DecideStream, TakeCached, BeginCalibration, Undecided, call
    <2>2. ~Lossy
      BY <1>0, <2>1, SolAssumption
      DEF LossyPart, LossyOf, Admission, SolInv, AdmittedOf, Standing, SolTypeOK
    <2> QED
      BY <1>a, <2>1, <2>2 DEF Lossy
  <1>5. ASSUME NEW kind, Keeps(kind) PROVE LossyPart'
    BY <1>2, <1>5, LossyAnswer DEF Keeps
  <1> QED
    BY <1>1, <1>2, <1>3, <1>4, <1>5, StepKinds DEF Finishes, Fails

-----------------------------------------------------------------------------
(* The theorems.                                                           *)

LEMMA InitInv == Init => SolInv
  <1> SUFFICES ASSUME Init PROVE SolInv
    OBVIOUS
  <1>1. CallTyped
    <2>1. (CHOOSE s \in Shapes : TRUE) \in Shapes
      BY SolAssumption
    <2>2. 0 \in Layers
      BY FirstLayer
    <2>3. answer \in [block : Layers, kind : {None, "exact", "lossy"}]
      BY <2>2 DEF Init
    <2> QED
      BY <2>1, <2>2, <2>3, SolAssumption DEF CallTyped, Init
  <1>2. DataTyped /\ CachedOf
    <2>1. cache = << >> /\ cache \in Seq(AdmissionCopy) /\ Len(cache) = 0
      BY DEF Init
    <2> QED
      BY <2>1, SolAssumption DEF DataTyped, CacheOK, CachedOf, Init
  <1>3. GroundsTyped /\ ReuseOnce
    BY DEF GroundsTyped, ReuseOnce, Init
  <1>4. ObservedOf /\ SparseOf /\ TimingOf /\ AdmittedOf /\ BrokenOf
    BY DEF Init, ObservedOf, SparseOf, TimingOf, AdmittedOf, BrokenOf, InCall
  <1>5. ~Lossy
    BY SolAssumption DEF Init, Lossy
  <1> QED
    BY <1>1, <1>2, <1>3, <1>4, <1>5, TypeParts
    DEF SolInv, LossyOf, LossyInsideWindow, LossyWellMeasured, MeasuredStepExact, BrokenStaysExact

LEMMA StepInv == SolInv /\ [Next]_vars => SolInv'
  <1>1. SolInv /\ Next => SolInv'
    <2>1. SolTypeOK' <=> CallTyped' /\ DataTyped'
      BY DEF SolTypeOK, CallTyped, DataTyped, CacheOK
    <2> QED
      BY <2>1, CallTypedStep, DataTypedStep, GroundsTypedStep, ObservedStep, SparseStep,
         AdmittedStep, CachedStep, BrokenStep, LossyStep
      DEF SolInv, LossyPart
  <1>2. SolInv /\ UNCHANGED vars => SolInv'
    <2> SUFFICES ASSUME SolInv, UNCHANGED vars PROVE SolInv'
      OBVIOUS
    <2>1. UNCHANGED <<setting, sample, forwards, stage, shape, block, owner, answer, sigma,
                      onGrid, current, modes, admissions, cache, grounds, broken>>
      BY DEF vars, call, clock, history
    <2>2. UNCHANGED <<Ordinal, Admission, Key, Lossy, InCall>>
      BY <2>1 DEF Ordinal, Admission, Key, Lossy, InCall
    <2>3. SolTypeOK' /\ GroundsTyped' /\ ObservedOf' /\ TimingOf' /\ BrokenOf' /\ LossyOf'
      BY <2>1, <2>2
      DEF SolInv, SolTypeOK, GroundsTyped, ObservedOf, TimingOf, BrokenOf, LossyOf, IsCalibrating
    <2>4. MayBeLossy' = MayBeLossy
      BY <2>1, <2>2 DEF MayBeLossy, Active, AtLeast, AtMost, EffectiveEnd
    <2>5. SparseOf'
      BY <2>1, <2>4 DEF SolInv, SparseOf
    <2>6. \A s \in Shapes : Standing(s)' = Standing(s)
      BY <2>1 DEF Standing, KeyOf, IsCalibrating, Cached
    <2>7. AdmittedOf' /\ CachedOf'
      BY <2>1, <2>6 DEF SolInv, AdmittedOf, CachedOf, Backed
    <2>8. LossyInsideWindow' /\ LossyWellMeasured' /\ MeasuredStepExact' /\ BrokenStaysExact'
      BY <2>1, <2>2
      DEF SolInv, LossyInsideWindow, LossyWellMeasured, MeasuredStepExact, BrokenStaysExact,
          AtLeast, AtMost, EffectiveEnd
    <2>9. ReuseOnce'
      BY <2>1 DEF SolInv, ReuseOnce
    <2> QED
      BY <2>3, <2>5, <2>7, <2>8, <2>9 DEF SolInv
  <1> QED
    BY <1>1, <1>2

LEMMA SolInvariant == Spec => []SolInv
  BY InitInv, StepInv, PTL DEF Spec

\* The state of the router is well formed: at most CacheEntries copies outlive
\* a sample, all of settled admissions and of distinct keys.
THEOREM RouterTyped == Spec => []SolTypeOK
  <1>1. SolInv => SolTypeOK
    BY DEF SolInv
  <1> QED
    BY <1>1, SolInvariant, PTL

\* Whatever step the override and the route remember from earlier forwards, a
\* lossy answer is given at a step of the window of the running forward.
THEOREM WindowCorrect == Spec => []LossyInsideWindow
  <1>1. SolInv => LossyInsideWindow
    BY DEF SolInv
  <1> QED
    BY <1>1, SolInvariant, PTL

\* A lossy answer stands on a measurement of every calibration layer, each within
\* its own limits.
THEOREM MeasurementCorrect == Spec => []LossyWellMeasured
  <1>1. SolInv => LossyWellMeasured
    BY DEF SolInv
  <1> QED
    BY <1>1, SolInvariant, PTL

\* The step whose layers were measured exactly is never the step of a lossy
\* answer, whether the route or the override decides.
THEOREM MeasuredStepCorrect == Spec => []MeasuredStepExact
  <1>1. SolInv => MeasuredStepExact
    BY DEF SolInv
  <1> QED
    BY <1>1, SolInvariant, PTL

\* However samples begin, end, fail and take copies of admissions, none serves
\* more samples than the one that made it and its reuses.
THEOREM ReuseCorrect == Spec => []ReuseOnce
  <1>1. SolInv => ReuseOnce
    BY DEF SolInv
  <1> QED
    BY <1>1, SolInvariant, PTL

\* A failed route answers nothing lossily until the sample ends, on either
\* route, although the admission may have come from a copy still in the cache.
THEOREM FailureCorrect == Spec => []BrokenStaysExact
  <1>1. SolInv => BrokenStaysExact
    BY DEF SolInv
  <1> QED
    BY <1>1, SolInvariant, PTL

-----------------------------------------------------------------------------
(* Calibrations settle.                                                    *)

\* The calibration layers a forward has passed.
LEMMA LayersBelow ==
  LET below(n) == {layer \in Calibration : layer < n} IN
  /\ below(0) = {} /\ below(BlockCount) = Calibration
  /\ \A n \in Nat : below(n + 1) = IF n \in Calibration THEN below(n) \union {n} ELSE below(n)
  <1>1. BlockCount \in Nat /\ \A layer \in Calibration : layer \in Nat /\ layer < BlockCount
    BY SolAssumption
  <1> QED
    BY <1>1

\* A call that goes on without a measurement or a failure is of no layer the
\* calibration waits for, nor of one that would have begun it.
LEMMA PassedLayer ==
  ASSUME SolInv, SettleInv, Admission = None \/ IsCalibrating(shape), Unmeasured
  PROVE  /\ IsCalibrating(shape) => block \notin Calibration
         /\ Admission = None /\ shape \in Qualified /\ SolWindowPhase(Ordinal, shape) # "outside"
              => block \in Protected
  <1>0. /\ InCall => current = Ordinal
        /\ Calibration \cap Protected = {} /\ shape \in Shapes /\ block \in Nat
        /\ IsCalibrating(shape) =>
             /\ current = Admission.step /\ shape \in Qualified
             /\ SolWindowPhase(Ordinal, shape) # "outside"
             /\ DOMAIN Admission.samples = {layer \in Calibration : layer < block}
    <2>1. shape \in Shapes /\ block \in 0..(BlockCount - 1)
      BY DEF SolInv, SolTypeOK, Layers
    <2>2. block \in Nat
      BY <2>1, SolAssumption
    <2>3. Calibration \cap Protected = {}
      <3>1. \A layer \in Calibration : layer \notin Protected
        BY SolAssumption
      <3> QED
        BY <3>1
    <2>4. InCall => current = Ordinal
      BY DEF SolInv, ObservedOf
    <2> QED
      BY <2>1, <2>2, <2>3, <2>4 DEF SettleInv, CalibratingOf, Admission
  <1>1. CASE DualAnswers
    BY <1>0, <1>1 DEF DualAnswers, SettleInv, ExactOf
  <1>2. CASE Ineligible
    BY <1>0, <1>2 DEF Ineligible, Eligible, InCall
  <1>3. CASE AwaitsCalibration
    <2>1. Calibrating /\ ~Measures /\ IsCalibrating(shape) /\ Admission # None
      BY <1>3 DEF AwaitsCalibration, Calibrating, Deciding, IsCalibrating, Admission
    <2>2. block \notin Calibration \ DOMAIN Admission.samples
      BY <1>0, <2>1 DEF Measures
    <2> QED
      BY <1>0, <2>1, <2>2
  <1>4. CASE StaysExact \/ AnswerWhole
    BY <1>4 DEF StaysExact, AnswerWhole, Sparse, Deciding, IsCalibrating, Admission
  <1>5. CASE StreamConsumed
    BY <1>5 DEF StreamConsumed, SolInv, SparseOf, MayBeLossy, IsCalibrating, Admission
  <1> QED
    BY <1>1, <1>2, <1>3, <1>4, <1>5 DEF Unmeasured

\* Such a call keeps the calibration in step with the block.
LEMMA SettlePassed ==
  ASSUME SolInv, SettleInv, NEW kind, Keeps(kind), Unmeasured
  PROVE  SettleInv'
  <1>1. /\ UNCHANGED <<setting, shape, sigma, onGrid, current, admissions>>
        /\ stage' = IF block = BlockCount - 1 THEN "sampling" ELSE "enter"
        /\ block' = IF block = BlockCount - 1 THEN block ELSE block + 1
        /\ InCall
    BY DEF Keeps, Answers, clock
  <1>2. /\ shape \in Shapes /\ block \in Layers /\ BlockCount \in Nat
        /\ Calibration \subseteq Layers
    BY SolAssumption DEF SolInv, SolTypeOK, Layers
  <1>3. /\ UNCHANGED <<Ordinal, Admission, SolWindowPhase(Ordinal, shape)>>
        /\ \A s \in Shapes : IsCalibrating(s)' = IsCalibrating(s)
    BY <1>1 DEF Ordinal, Admission, IsCalibrating, SolWindowPhase, Active, Precalibration,
                AtLeast, AtMost, EffectiveEnd
  <1>4. CalibratingOf'
    <2> SUFFICES ASSUME NEW s \in Shapes, IsCalibrating(s)
                 PROVE  /\ s = shape /\ stage' = "enter"
                        /\ current = admissions[s].step /\ Ordinal = admissions[s].step
                        /\ shape \in Qualified /\ SolWindowPhase(Ordinal, shape) # "outside"
                        /\ DOMAIN admissions[s].samples = {layer \in Calibration : layer < block'}
                        /\ DOMAIN admissions[s].samples # Calibration
      BY <1>1, <1>3 DEF CalibratingOf
    <2>1. /\ s = shape /\ current = admissions[s].step /\ Ordinal = admissions[s].step
          /\ shape \in Qualified /\ SolWindowPhase(Ordinal, shape) # "outside"
          /\ DOMAIN admissions[s].samples = {layer \in Calibration : layer < block}
          /\ DOMAIN admissions[s].samples # Calibration
      BY DEF SettleInv, CalibratingOf
    <2>2. block \notin Calibration
      BY <2>1, PassedLayer
    <2>a. /\ block \in Nat /\ BlockCount \in Nat
          /\ {layer \in Calibration : layer < block + 1} = {layer \in Calibration : layer < block}
          /\ {layer \in Calibration : layer < BlockCount} = Calibration
      BY <1>2, <2>2, LayersBelow DEF Layers
    <2>3. block # BlockCount - 1
      <3>1. block = BlockCount - 1 => block + 1 = BlockCount
        BY <2>a
      <3> QED
        BY <2>1, <2>a, <3>1
    <2>4. {layer \in Calibration : layer < block'} = {layer \in Calibration : layer < block}
      BY <1>1, <2>3, <2>a
    <2> QED
      BY <1>1, <2>1, <2>3, <2>4
  <1>5. UnbegunOf'
    <2> SUFFICES ASSUME stage' = "enter", shape \in Qualified,
                        SolWindowPhase(Ordinal, shape) # "outside", Admission = None
                 PROVE  \A layer \in 0..(block' - 1) : layer \in Protected
      BY <1>1, <1>3 DEF UnbegunOf
    <2>1. block \in Protected
      BY PassedLayer
    <2>2. stage \in {"enter", "dual", "override"}
      BY <1>1 DEF InCall, SolInv, SparseOf, TimingOf, MayBeLossy, IsCalibrating, Admission
    <2>3. \A layer \in 0..(block - 1) : layer \in Protected
      BY <2>2 DEF SettleInv, UnbegunOf
    <2>4. block' = block + 1
      BY <1>1
    <2> QED
      BY <1>2, <2>1, <2>3, <2>4 DEF Layers
  <1>6. ExactOf'
    BY <1>1 DEF ExactOf
  <1> QED
    BY <1>4, <1>5, <1>6 DEF SettleInv

LEMMA SettleFinishes ==
  ASSUME SolInv, SettleInv, NEW measurement \in Measurements, Finishes(measurement)
  PROVE  SettleInv'
  <1> DEFINE samples == WithSample(measurement)
             ready == Settled(Admission, "ready", Admitted(samples))
             more == [Admission EXCEPT !.samples = samples]
  <1>1. /\ UNCHANGED <<setting, shape, sigma, onGrid, current>> /\ Measuring
        /\ stage' = IF block = BlockCount - 1 THEN "sampling" ELSE "enter"
        /\ block' = IF block = BlockCount - 1 THEN block ELSE block + 1
        /\ admissions' = [admissions EXCEPT ![shape] = IF Complete(samples) THEN ready ELSE more]
    BY DEF Finishes, Answers, FinishSample, clock
  <1>2. /\ shape \in Shapes /\ block \in Layers /\ BlockCount \in Nat
        /\ Calibration \subseteq Layers /\ block \in Calibration
        /\ admissions \in [Shapes -> Admissions \union {None}]
    BY <1>1, SolAssumption DEF SolInv, SolTypeOK, Layers, Measuring
  <1>3. /\ DOMAIN samples = DOMAIN Admission.samples \union {block}
        /\ ready \in Admissions /\ ready.status = "ready"
        /\ more \in Admissions /\ more.step = Admission.step /\ more.samples = samples
    BY <1>1, FinishAdmission
  <1> HIDE DEF samples, ready, more
  <1>4. /\ UNCHANGED <<Ordinal, SolWindowPhase(Ordinal, shape)>>
        /\ \A s \in Shapes \ {shape} : admissions'[s] = admissions[s]
        /\ admissions'[shape] = IF Complete(samples) THEN ready ELSE more
    BY <1>1, <1>2 DEF Ordinal, SolWindowPhase, Active, Precalibration, AtLeast, AtMost, EffectiveEnd
  <1>5. /\ current = Admission.step /\ Ordinal = Admission.step
        /\ shape \in Qualified /\ SolWindowPhase(Ordinal, shape) # "outside"
        /\ DOMAIN Admission.samples = {layer \in Calibration : layer < block}
        /\ \A s \in Shapes \ {shape} : ~IsCalibrating(s)
    BY <1>1, <1>2 DEF SettleInv, CalibratingOf, Measuring, Admission
  <1>a. /\ block \in Nat /\ BlockCount \in Nat
        /\ {layer \in Calibration : layer < block + 1}
             = {layer \in Calibration : layer < block} \union {block}
        /\ {layer \in Calibration : layer < BlockCount} = Calibration
    BY <1>2, LayersBelow DEF Layers
  <1>6. DOMAIN samples = {layer \in Calibration : layer < block + 1}
    BY <1>3, <1>5, <1>a
  <1>7. ASSUME ~Complete(samples)
        PROVE  DOMAIN samples # Calibration /\ block # BlockCount - 1
    <2>1. DOMAIN samples # Calibration
      BY <1>7 DEF Complete
    <2>2. block = BlockCount - 1 => block + 1 = BlockCount
      BY <1>a
    <2> QED
      BY <1>6, <1>a, <2>1, <2>2
  <1>8. CalibratingOf'
    <2> SUFFICES ASSUME NEW s \in Shapes, IsCalibrating(s)'
                 PROVE  /\ s = shape /\ stage' = "enter"
                        /\ current = admissions'[s].step /\ Ordinal = admissions'[s].step
                        /\ DOMAIN admissions'[s].samples = {layer \in Calibration : layer < block'}
                        /\ DOMAIN admissions'[s].samples # Calibration
      BY <1>1, <1>4, <1>5 DEF CalibratingOf
    <2>1. s = shape /\ ~Complete(samples)
      BY <1>3, <1>4, <1>5 DEF IsCalibrating
    <2>2. admissions'[s] = more
      BY <1>4, <2>1
    <2> QED
      BY <1>1, <1>3, <1>5, <1>6, <1>7, <2>1, <2>2
  <1>9. Admission' # None
    BY <1>1, <1>3, <1>4, NoneAssumption DEF Admission
  <1>10. UnbegunOf' /\ ExactOf'
    BY <1>1, <1>9 DEF UnbegunOf, ExactOf
  <1> QED
    BY <1>8, <1>10 DEF SettleInv

LEMMA SettleStep == SolInv /\ SettleInv /\ Next => SettleInv'
  <1> SUFFICES ASSUME SolInv, SettleInv, Next PROVE SettleInv'
    OBVIOUS
  <1>0. /\ CalibratingOf /\ UnbegunOf /\ ExactOf /\ ObservedOf
        /\ shape \in Shapes /\ block \in Layers
        /\ admissions \in [Shapes -> Admissions \union {None}]
    BY DEF SettleInv, SolInv, SolTypeOK
  <1>1. ASSUME NEW options \in Settings, BeginSample(options) PROVE SettleInv'
    BY <1>1 DEF BeginSample, SettleInv, CalibratingOf, UnbegunOf, ExactOf, IsCalibrating
  <1>2. ASSUME NEW s \in Shapes, NEW step \in 0..(Steps - 1), NEW between \in BOOLEAN,
               BeginForward(s, step, between)
        PROVE  SettleInv'
    <2>1. stage = "sampling" /\ stage' = "enter" /\ block' = 0 /\ admissions' = admissions
      BY <1>2 DEF BeginForward
    <2>2. \A r \in Shapes : ~IsCalibrating(r)
      BY <1>0, <2>1 DEF CalibratingOf
    <2> QED
      BY <2>1, <2>2 DEF SettleInv, CalibratingOf, UnbegunOf, ExactOf, IsCalibrating
  <1>3. CASE RouteCall
    <2>1. /\ stage = "enter" /\ stage' \in {"override", "dual"} /\ current' = ObserveStep
          /\ owner' = Route(ObserveStep) /\ (stage' = "dual" => owner' # "sol")
          /\ UNCHANGED <<setting, sigma, onGrid, shape, block, admissions>>
      BY <1>3 DEF RouteCall
    <2>2. ObserveStep = Ordinal
      BY <1>0, <2>1 DEF ObserveStep, ObservedOf
    <2>3. /\ UNCHANGED <<Ordinal, Admission, SolWindowPhase(Ordinal, shape)>>
          /\ \A s \in Shapes : IsCalibrating(s)' = IsCalibrating(s)
      BY <2>1 DEF Ordinal, Admission, IsCalibrating, SolWindowPhase, Active, Precalibration,
                  AtLeast, AtMost, EffectiveEnd
    <2>4. CalibratingOf'
      BY <1>0, <2>1, <2>2, <2>3 DEF CalibratingOf
    <2>5. UnbegunOf'
      BY <1>0, <2>1, <2>3 DEF UnbegunOf
    <2>6. ASSUME Route(Ordinal) # "sol", Admission = None \/ IsCalibrating(shape)
          PROVE  shape \notin Qualified \/ block \in Protected
                 \/ SolWindowPhase(Ordinal, shape) = "outside"
      BY <2>6 DEF Route, SolWindowPhase, IsCalibrating, Admission
    <2>7. ExactOf'
      BY <1>0, <2>1, <2>2, <2>3, <2>6 DEF ExactOf
    <2> QED
      BY <2>4, <2>5, <2>7 DEF SettleInv
  <1>4. CASE Moves
    <2>1. /\ stage' \in {"override", "timing", "streaming"}
          /\ stage' = "streaming" => ~IsCalibrating(shape)
          /\ stage' \in {"timing", "streaming"} => Admission # None
          /\ stage' = "override" => stage = "dual"
          /\ UNCHANGED <<setting, sigma, onGrid, current, shape, block, admissions>>
      BY <1>4 DEF Moves, Measures, Calibrating, Sparse, Deciding, IsCalibrating, Admission, clock
    <2>2. /\ UNCHANGED <<Ordinal, Admission, SolWindowPhase(Ordinal, shape)>>
          /\ \A s \in Shapes : IsCalibrating(s)' = IsCalibrating(s)
      BY <2>1 DEF Ordinal, Admission, IsCalibrating, SolWindowPhase, Active, Precalibration,
                  AtLeast, AtMost, EffectiveEnd
    <2>3. CalibratingOf'
      BY <1>0, <2>1, <2>2 DEF CalibratingOf
    <2> QED
      BY <1>0, <2>1, <2>2, <2>3 DEF SettleInv, UnbegunOf, ExactOf
  <1>5. CASE \E streamed \in BOOLEAN : DecideStream(streamed)
    <2>1. UNCHANGED <<stage, setting, sigma, onGrid, current, shape, block, admissions>>
      BY <1>5 DEF DecideStream, call, clock
    <2> QED
      BY <1>0, <2>1
      DEF SettleInv, CalibratingOf, UnbegunOf, ExactOf, IsCalibrating, Ordinal, Admission,
          SolWindowPhase, Active, Precalibration, AtLeast, AtMost, EffectiveEnd
  <1>6. CASE TakeCached
    <2>1. /\ UNCHANGED <<stage, setting, sigma, onGrid, current, shape, block>> /\ stage = "override"
          /\ Cached(Key) /\ admissions' = [admissions EXCEPT ![shape] = Entry(Key).admission]
      BY <1>6 DEF TakeCached, Undecided, call, clock
    <2>2. Entry(Key).admission \in Admissions /\ Entry(Key).admission.status = "ready"
      BY <2>1, TakenCopy
    <2>3. /\ admissions'[shape] # None /\ admissions'[shape].status # "calibrating"
          /\ \A s \in Shapes \ {shape} : admissions'[s] = admissions[s]
      BY <1>0, <2>1, <2>2, NoneAssumption
    <2>4. \A s \in Shapes : ~IsCalibrating(s)'
      <3> SUFFICES ASSUME NEW s \in Shapes PROVE ~IsCalibrating(s)'
        OBVIOUS
      <3>1. CASE s = shape
        BY <2>3, <3>1 DEF IsCalibrating
      <3>2. CASE s # shape
        BY <1>0, <2>3, <3>2 DEF CalibratingOf, IsCalibrating
      <3> QED
        BY <3>1, <3>2
    <2> QED
      BY <2>1, <2>3, <2>4 DEF SettleInv, CalibratingOf, UnbegunOf, ExactOf, Admission
  <1>7. CASE BeginCalibration
    <2>1. /\ UNCHANGED <<stage, setting, sigma, onGrid, current, shape, block>> /\ stage = "override"
          /\ Eligible /\ Admission = None
          /\ admissions' = [admissions EXCEPT ![shape] = NewAdmission]
      BY <1>7 DEF BeginCalibration, Undecided, call, clock
    <2>2. /\ NewAdmission \in Admissions /\ NewAdmission.step = current
          /\ DOMAIN NewAdmission.samples = {}
      BY <1>7, NewAdmissionTyped DEF BeginCalibration, NewAdmission, NoSamples
    <2>3. /\ admissions'[shape] = NewAdmission /\ NewAdmission # None
          /\ \A s \in Shapes \ {shape} : admissions'[s] = admissions[s]
      BY <1>0, <2>1, <2>2, NoneAssumption
    <2>4. current = Ordinal /\ shape \in Qualified /\ SolWindowPhase(Ordinal, shape) # "outside"
      BY <1>0, <2>1 DEF ObservedOf, InCall, Eligible
    <2>5. {layer \in Calibration : layer < block} = {}
      <3>1. \A layer \in 0..(block - 1) : layer \in Protected
        BY <1>0, <2>1, <2>4 DEF UnbegunOf
      <3>2. \A layer \in Calibration : layer \in Nat /\ layer \notin Protected
        BY SolAssumption
      <3>3. ASSUME NEW layer \in Calibration, layer < block PROVE FALSE
        <4>1. layer \in 0..(block - 1)
          BY <1>0, <3>2, <3>3 DEF Layers
        <4> QED
          BY <3>1, <3>2, <4>1
      <3> QED
        BY <3>3
    <2>6. \A s \in Shapes \ {shape} : ~IsCalibrating(s)'
      BY <1>0, <2>3 DEF CalibratingOf, IsCalibrating
    <2>7. UNCHANGED <<Ordinal, SolWindowPhase(Ordinal, shape)>>
      BY <2>1 DEF Ordinal, SolWindowPhase, Active, Precalibration, AtLeast, AtMost, EffectiveEnd
    <2>8. CalibratingOf'
      BY <2>1, <2>2, <2>3, <2>4, <2>5, <2>6, <2>7, SolAssumption DEF CalibratingOf
    <2> QED
      BY <2>1, <2>3, <2>8 DEF SettleInv, UnbegunOf, ExactOf, Admission
  <1>8. ASSUME NEW kind, Keeps(kind), Unmeasured PROVE SettleInv'
    BY <1>8, SettlePassed
  <1>9. ASSUME NEW measurement \in Measurements, Finishes(measurement) PROVE SettleInv'
    BY <1>9, SettleFinishes
  <1>10. CASE Fails
    <2>1. /\ stage' \in {"sampling", "enter"}
          /\ \E new \in Admissions :
               /\ new.status # "calibrating"
               /\ admissions' = [admissions EXCEPT ![shape] = new]
      BY <1>10, AnswersLeave DEF Fails
    <2>2. /\ admissions'[shape] # None /\ admissions'[shape].status # "calibrating"
          /\ \A s \in Shapes \ {shape} : admissions'[s] = admissions[s]
      BY <1>0, <2>1, NoneAssumption
    <2>3. \A s \in Shapes : ~IsCalibrating(s)'
      <3> SUFFICES ASSUME NEW s \in Shapes PROVE ~IsCalibrating(s)'
        OBVIOUS
      <3>1. CASE s = shape
        BY <2>2, <3>1 DEF IsCalibrating
      <3>2. CASE s # shape
        BY <1>0, <2>2, <3>2 DEF CalibratingOf, IsCalibrating
      <3> QED
        BY <3>1, <3>2
    <2>4. Admission' # None
      BY <1>10, <2>2, AnswersLeave DEF Fails, Admission
    <2> QED
      BY <2>1, <2>3, <2>4 DEF SettleInv, CalibratingOf, UnbegunOf, ExactOf
  <1> QED
    BY <1>1, <1>2, <1>3, <1>4, <1>5, <1>6, <1>7, <1>8, <1>9, <1>10, StepKinds

LEMMA SettleInvariant == Spec => []SettleInv
  <1>1. Init => SettleInv
    BY DEF Init, SettleInv, CalibratingOf, UnbegunOf, ExactOf, IsCalibrating
  <1>2. SolInv /\ SettleInv /\ UNCHANGED vars => SettleInv'
    BY DEF SettleInv, CalibratingOf, UnbegunOf, ExactOf, IsCalibrating, Ordinal, Admission,
           SolWindowPhase, Active, Precalibration, AtLeast, AtMost, EffectiveEnd,
           vars, call, clock
  <1> QED
    BY <1>1, <1>2, SettleStep, SolInvariant, PTL DEF Spec

\* Every forward that runs to its end has met all the layers its calibrations
\* wait for, so none is left unsettled.
THEOREM CalibrationCorrect == Spec => []CalibrationSettles
  <1>1. SettleInv => CalibrationSettles
    BY DEF SettleInv, CalibratingOf, CalibrationSettles, IsCalibrating
  <1> QED
    BY <1>1, SettleInvariant, PTL
=============================================================================
