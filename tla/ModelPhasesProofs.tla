------------------------- MODULE ModelPhasesProofs -------------------------
(***************************************************************************)
(* The properties of ModelPhases for any patchers, weights and amounts of  *)
(* memory.  Three invariants carry them: CastInv says what the casts of a  *)
(* projection have left in the pages, MemoryInv what a request for room    *)
(* leaves to reclaim, PhaseInv what a guard that is half way still has to  *)
(* release.                                                                *)
(***************************************************************************)
EXTENDS ModelPhases, FiniteSetTheorems, TLAPS

USE DEF memory, pages, options, attempt, projection, marks, usage, models, history, release

-----------------------------------------------------------------------------
(* Pages and casts.                                                        *)

States == {"absent", "partial", "complete"}

PageTypes ==
  /\ data \in [Weights -> States]
  /\ prefetch \in [Weights -> [paged : BOOLEAN, resident : BOOLEAN, open : BOOLEAN]]
  /\ weight \in Weights

\* Where the cast of the weight may be open.
Casting ==
  \/ stage \in {"fill", "linear", "exit", "abandon"}
  \/ prepared /\ stage \in {"allocate", "recover", "retry", "write", "close"}

\* A cast is open for the call's own weight only; it pins the page it has, and
\* that page is complete once the cast is past its copy.  A signature vouches
\* for a complete page or for the one that is being filled.
CastOf(w) ==
  /\ Open(w) => w = weight /\ Casting
  /\ w \in pinned <=> prefetch[w].paged
  /\ prefetch[w].paged => Open(w)
  /\ prefetch[w].resident => prefetch[w].paged /\ data[w] = "complete"
  /\ prefetch[w].paged => data[w] = "complete" \/ stage \in {"fill", "abandon"}
  /\ w \in current => \/ data[w] = "complete"
                      \/ prefetch[w].paged /\ ~prefetch[w].resident

PageInv == pinned \subseteq Weights /\ \A w \in Weights : CastOf(w)

\* The chunks before the one at work were computed with complete weights.
RowsInv ==
  /\ rows \in [1..MaxChunks -> States \cup {"unwritten"}]
  /\ chunks \in 1..MaxChunks /\ chunk \in 1..chunks
  /\ \A c \in 1..(chunk - 1) : rows[c] = "complete"
  /\ stage \in {"write", "close", "returned"} => rows[chunk] = "complete"
  /\ stage \in {"allocate", "recover", "retry"} =>
       rows[chunk] = "complete" \/ (chunk = 1 /\ rows[1] = "unwritten")
  /\ \/ stage \in {"native", "trim", "reuse"}
     \/ prepared /\ stage \in {"fault", "fill"}
     => chunk = 1 /\ rows[1] = "unwritten"
  /\ stage \in {"close", "returned"} => chunk = chunks

CastInv == PageTypes /\ PageInv /\ RowsInv

\* Only pages that are not pinned are evicted, by whatever asks for memory.
LEMMA RequestEvicts ==
  ASSUME NEW target, NEW minimum, NEW mayEvict,
         RequestCudaHeadroom(target, minimum, mayEvict)
  PROVE  UNCHANGED pages \/ \E gone \in SUBSET Evictable : Evict(gone)
<1>1. CASE Enough(target) \/ TooLittleCached(target, minimum, mayEvict)
  BY <1>1 DEF Enough, TooLittleCached
<1>2. CASE Reclaim(target, minimum, mayEvict)
  BY <1>2 DEF Reclaim, Evictions
<1> QED BY <1>1, <1>2 DEF RequestCudaHeadroom

\* An eviction leaves what the invariant says of a weight, whatever becomes of
\* the call, as long as the cast of that weight stays open.
LEMMA EvictKeeps ==
  ASSUME PageTypes, PageInv, NEW gone \in SUBSET Evictable, Evict(gone),
         weight' = weight, Casting => Casting',
         stage' \in {"fill", "abandon"} \/ stage \notin {"fill", "abandon"}
  PROVE  PageTypes' /\ PageInv'
<1>1. PageTypes' BY DEF PageTypes, Evict, States
<1>2. ASSUME NEW w \in Weights PROVE CastOf(w)'
  <2>1. w \in pinned => w \notin gone BY DEF Evictable
  <2>2. CastOf(w) BY DEF PageInv
  <2> QED BY <2>1, <2>2 DEF CastOf, Evict, Open, PageTypes
<1>3. pinned' \subseteq Weights BY DEF Evict, PageInv
<1> QED BY <1>1, <1>2, <1>3 DEF PageInv

LEMMA SameKeeps ==
  ASSUME PageTypes, PageInv, UNCHANGED pages,
         weight' = weight, Casting => Casting',
         stage' \in {"fill", "abandon"} \/ stage \notin {"fill", "abandon"}
  PROVE  PageTypes' /\ PageInv'
<1>1. PageTypes' BY DEF PageTypes
<1>2. ASSUME NEW w \in Weights PROVE CastOf(w)'
  BY DEF CastOf, Open, PageTypes, PageInv
<1> QED BY <1>1, <1>2 DEF PageInv

\* Where no cast is open a call may go on, begin and end as it likes.
LEMMA ClosedKeeps ==
  ASSUME PageTypes, PageInv, ~Casting, weight' \in Weights,
         UNCHANGED pages \/ \E gone \in SUBSET Evictable : Evict(gone)
  PROVE  PageTypes' /\ PageInv'
<1>1. CASE UNCHANGED pages
  <2>1. PageTypes' BY <1>1 DEF PageTypes
  <2>2. ASSUME NEW w \in Weights PROVE CastOf(w)'
    BY <1>1 DEF CastOf, Open, PageTypes, PageInv
  <2> QED BY <1>1, <2>1, <2>2 DEF PageInv
<1>2. CASE \E gone \in SUBSET Evictable : Evict(gone)
  <2> PICK gone \in SUBSET Evictable : Evict(gone) BY <1>2
  <2>1. PageTypes' BY DEF PageTypes, Evict, States
  <2>2. ASSUME NEW w \in Weights PROVE CastOf(w)'
    BY DEF CastOf, Open, PageTypes, PageInv, Evict
  <2> QED BY <2>1, <2>2 DEF PageInv, Evict
<1> QED BY <1>1, <1>2

\* Every step of a call keeps what is said of the pages.
LEMMA StepKeepsPages ==
  ASSUME PageTypes, PageInv, ProjectionStep
  PROVE  PageTypes' /\ PageInv'
<1> USE DEF To
<1>1. CASE MakeRoom
  BY <1>1, RequestEvicts, ClosedKeeps DEF MakeRoom, Casting, PageTypes
<1>2. CASE DecideReuse
  <2>1. UNCHANGED pages \/ \E gone \in SUBSET Evictable : Evict(gone)
    BY <1>2, RequestEvicts DEF DecideReuse
  <2> QED BY <1>2, <2>1, ClosedKeeps DEF DecideReuse, Casting, PageTypes
<1>3. CASE ReuseUnsupported
  BY <1>3, ClosedKeeps DEF ReuseUnsupported, Casting, PageTypes
<1>4. CASE BeginCast
  <2>1. Fault(weight) /\ stage = "fault" /\ stage' = "fill" /\ weight' = weight
    BY <1>4 DEF BeginCast
  <2>2. \A w \in Weights : ~Open(w) /\ w \notin pinned
    BY <2>1 DEF PageInv, CastOf, Casting
  <2>3. PageTypes'
    <3>1. prefetch' \in [Weights -> [paged : BOOLEAN, resident : BOOLEAN, open : BOOLEAN]]
      <4>1. \E paged, resident \in BOOLEAN :
              prefetch' = [prefetch EXCEPT ![weight] = Cast(paged, resident)]
        <5>1. CASE weight \in Loaded /\ weight \in current
          BY <2>1, <5>1 DEF Fault, Cast
        <5>2. CASE weight \in Loaded /\ weight \notin current
          <6>1. (weight \in current) = FALSE BY <5>2
          <6>2. prefetch' = [prefetch EXCEPT ![weight] = Cast(TRUE, weight \in current)]
            BY <2>1, <5>2 DEF Fault
          <6> QED BY <6>1, <6>2
        <5>3. CASE weight \notin Loaded
          BY <2>1, <5>3 DEF Fault, Cast
        <5> QED BY <5>1, <5>2, <5>3
      <4> QED BY <4>1 DEF PageTypes, Cast
    <3>2. data' \in [Weights -> States]
      BY <2>1 DEF Fault, PageTypes, States
    <3> QED BY <2>1, <3>1, <3>2 DEF PageTypes
  <2>4. ASSUME NEW w \in Weights PROVE CastOf(w)'
    <3>1. CASE w # weight
      <4>1. prefetch'[w] = prefetch[w] /\ data'[w] = data[w]
        BY <2>1, <3>1 DEF Fault, PageTypes
      <4>2. (w \in pinned' <=> w \in pinned) /\ (w \in current' <=> w \in current)
        BY <2>1, <3>1 DEF Fault, PageTypes
      <4> QED BY <2>1, <2>2, <4>1, <4>2 DEF CastOf, PageInv, Open, Casting
    <3>2. CASE w = weight
      BY <2>1, <2>2, <3>2 DEF Fault, CastOf, PageInv, Open, Casting, PageTypes, Cast
    <3> QED BY <3>1, <3>2
  <2>5. pinned' \subseteq Weights BY <2>1 DEF Fault, PageInv, PageTypes
  <2> QED BY <2>3, <2>4, <2>5 DEF PageInv
<1>5. CASE EndCast
  <2>1. /\ stage = "fill" /\ Fill(weight) /\ weight' = weight /\ prepared' = prepared
        /\ stage' = "linear" \/ (prepared /\ stage' = "allocate")
    BY <1>5 DEF EndCast
  <2>2. PageTypes' BY <2>1 DEF Fill, PageTypes, States
  <2>3. ASSUME NEW w \in Weights PROVE CastOf(w)'
    BY <2>1 DEF Fill, CastOf, PageInv, Open, Casting, PageTypes
  <2> QED BY <2>1, <2>2, <2>3 DEF Fill, PageInv
<1>6. ASSUME Uncast(weight), weight' = weight,
             stage \notin {"fill", "abandon"}, stage' \notin {"fill", "abandon"}
      PROVE  PageTypes' /\ PageInv'
  <2>1. PageTypes' BY <1>6 DEF Uncast, PageTypes, NoCast
  <2>2. ASSUME NEW w \in Weights PROVE CastOf(w)'
    BY <1>6 DEF Uncast, CastOf, PageInv, Open, PageTypes, NoCast
  <2> QED BY <1>6, <2>1, <2>2 DEF PageInv, Uncast
<1>7. CASE Linear
  <2>1. CASE prepared
    BY <1>7, <2>1, SameKeeps DEF Linear, Casting
  <2>2. CASE ~prepared
    BY <1>6, <1>7, <2>2 DEF Linear
  <2> QED BY <2>1, <2>2
<1>8. CASE Allocated
  BY <1>8, SameKeeps DEF Allocated, Casting
<1>9. CASE AllocationFails
  BY <1>9, SameKeeps DEF AllocationFails, Casting
<1>10. CASE RecoverAllocation
  <2>1. UNCHANGED pages \/ \E gone \in SUBSET Evictable : Evict(gone)
    BY <1>10, RequestEvicts DEF RecoverAllocation
  <2> QED BY <1>10, <2>1, SameKeeps, EvictKeeps DEF RecoverAllocation, Casting
<1>11. CASE NextChunk
  <2>1. CASE prepared
    BY <1>11, <2>1, SameKeeps DEF NextChunk, Casting
  <2>2. CASE ~prepared
    BY <1>11, <2>2, ClosedKeeps DEF NextChunk, Casting, PageTypes
  <2> QED BY <2>1, <2>2
<1>12. CASE Return
  <2>1. CASE prepared
    BY <1>6, <1>12, <2>1 DEF Return
  <2>2. CASE ~prepared
    BY <1>12, <2>2, ClosedKeeps DEF Return, Casting, PageTypes
  <2> QED BY <2>1, <2>2
<1>13. CASE Raise
  <2>1. CASE Casting
    BY <1>13, <2>1, SameKeeps DEF Raise, Casting
  <2>2. CASE ~Casting
    BY <1>13, <2>2, ClosedKeeps DEF Raise, PageTypes
  <2> QED BY <2>1, <2>2
<1>14. CASE CleanUp
  <2>1. CASE stage = "exit"
    BY <1>6, <1>14, <2>1 DEF CleanUp
  <2>2. CASE stage = "abandon"
    <3>1. Abandon(weight) /\ weight' = weight /\ stage' = "unwind" BY <1>14, <2>2 DEF CleanUp
    <3>2. PageTypes' BY <3>1 DEF Abandon, PageTypes, NoCast
    <3>3. ASSUME NEW w \in Weights PROVE CastOf(w)'
      BY <2>2, <3>1 DEF Abandon, CastOf, PageInv, Open, PageTypes, NoCast
    <3> QED BY <3>1, <3>2, <3>3 DEF PageInv, Abandon
  <2> QED BY <1>14, <2>1, <2>2 DEF CleanUp
<1>15. CASE StartOver \/ Propagate
  BY <1>15, ClosedKeeps DEF StartOver, Propagate, Casting, PageTypes
<1> QED
  BY <1>1, <1>2, <1>3, <1>4, <1>5, <1>7, <1>8, <1>9, <1>10, <1>11, <1>12, <1>13, <1>14, <1>15
  DEF ProjectionStep

\* Every step of a call keeps what is said of its chunks.
LEMMA StepKeepsRows ==
  ASSUME PageTypes, PageInv, RowsInv, ProjectionStep
  PROVE  RowsInv'
<1> USE DEF To, RowsInv
<1>1. CASE MakeRoom BY <1>1 DEF MakeRoom
<1>2. CASE DecideReuse BY <1>2 DEF DecideReuse
<1>3. CASE ReuseUnsupported BY <1>3 DEF ReuseUnsupported
<1>4. CASE BeginCast BY <1>4 DEF BeginCast
<1>5. CASE EndCast BY <1>5 DEF EndCast
<1>6. CASE Linear
  <2>1. (IF prefetch[weight].paged THEN data[weight] ELSE "complete") = "complete"
    BY <1>6 DEF Linear, PageInv, CastOf, PageTypes
  <2>2. rows' = [rows EXCEPT ![chunk] = "complete"] BY <1>6, <2>1 DEF Linear
  <2>3. /\ rows' \in [1..MaxChunks -> States \cup {"unwritten"}]
        /\ rows'[chunk] = "complete"
        /\ \A c \in 1..(chunk - 1) : rows'[c] = "complete"
    <3>1. chunk \in 1..MaxChunks /\ \A c \in 1..(chunk - 1) : c \in 1..MaxChunks /\ c # chunk
      BY ProjectionAssumption
    <3> QED BY <2>2, <3>1 DEF States
  <2>4. /\ stage' \in {"allocate", "write"}
        /\ chunk' = chunk /\ chunks' = chunks
    BY <1>6 DEF Linear
  <2> QED BY <2>3, <2>4
<1>7. CASE Allocated BY <1>7 DEF Allocated
<1>8. CASE AllocationFails BY <1>8 DEF AllocationFails
<1>9. CASE RecoverAllocation BY <1>9 DEF RecoverAllocation
<1>10. CASE NextChunk BY <1>10 DEF NextChunk
<1>11. CASE Return BY <1>11 DEF Return
<1>12. CASE Raise BY <1>12 DEF Raise
<1>13. CASE CleanUp BY <1>13 DEF CleanUp
<1>14. CASE StartOver BY <1>14, ProjectionAssumption DEF StartOver, Unwritten
<1>15. CASE Propagate BY <1>15 DEF Propagate
<1> QED
  BY <1>1, <1>2, <1>3, <1>4, <1>5, <1>6, <1>7, <1>8, <1>9, <1>10, <1>11, <1>12, <1>13, <1>14, <1>15
  DEF ProjectionStep

LEMMA InitCasts == Init => CastInv
<1> SUFFICES ASSUME Init PROVE CastInv OBVIOUS
<1> USE DEF Init, WeightInit, ProjectionInit
<1>1. PageTypes BY DEF PageTypes, NoCast, States
<1>2. PageInv BY DEF PageInv, CastOf, NoCast, Open
<1>3. RowsInv BY ProjectionAssumption DEF RowsInv, Unwritten
<1> QED BY <1>1, <1>2, <1>3 DEF CastInv

\* The guards and nodes around a forward evict pages at most.
LEMMA AroundKeepsCasts ==
  ASSUME CastInv, UNCHANGED projection,
         UNCHANGED pages \/ \E gone \in SUBSET Evictable : Evict(gone)
  PROVE  CastInv'
<1>1. PageTypes' /\ PageInv'
  BY SameKeeps, EvictKeeps DEF CastInv, Casting
<1>2. RowsInv' BY DEF CastInv, RowsInv
<1> QED BY <1>1, <1>2 DEF CastInv

LEMMA NextCasts == CastInv /\ [Next]_vars => CastInv'
<1> SUFFICES ASSUME CastInv, [Next]_vars PROVE CastInv' OBVIOUS
<1>1. CASE Boundary
  BY <1>1, AroundKeepsCasts DEF Boundary, PagesFollow
<1>2. CASE UNCHANGED vars
  BY <1>2, AroundKeepsCasts DEF vars
<1>3. ASSUME NEW w \in Weights, NEW n \in 1..MaxChunks, NEW wants \in BOOLEAN,
             NEW recovers \in BOOLEAN, BeginCall(w, n, wants, recovers)
      PROVE  CastInv'
  <2>1. PageTypes' /\ PageInv'
    BY <1>3, ClosedKeeps DEF BeginCall, CastInv, Casting
  <2>2. RowsInv' BY <1>3, ProjectionAssumption DEF BeginCall, RowsInv, Unwritten
  <2> QED BY <2>1, <2>2 DEF CastInv
<1>4. CASE ProjectionStep
  BY <1>4, StepKeepsPages, StepKeepsRows DEF CastInv
<1>5. CASE MlpFloor
  <2>1. UNCHANGED pages \/ \E gone \in SUBSET Evictable : Evict(gone)
    BY <1>5 DEF MlpFloor, CheckFloor, Enough, TooLittleCached, Reclaim, Evictions
  <2> QED BY <1>5, <2>1, AroundKeepsCasts DEF MlpFloor
<1>6. ASSUME stage \in {"idle", "returned", "raised"}, Forget, stage' = "idle",
             UNCHANGED <<pages, weight>>
      PROVE  CastInv'
  <2>1. PageTypes' /\ PageInv'
    BY <1>6, ClosedKeeps DEF CastInv, Casting, PageTypes
  <2>2. RowsInv' BY <1>6, ProjectionAssumption DEF Forget, RowsInv, Unwritten
  <2> QED BY <2>1, <2>2 DEF CastInv
<1>7. CASE EndCall BY <1>6, <1>7 DEF EndCall, To
<1>8. CASE ForwardEnds BY <1>6, <1>8 DEF ForwardEnds, To
<1>9. CASE Forward
  BY <1>3, <1>4, <1>5, <1>7, <1>9 DEF Forward
<1> QED BY <1>1, <1>2, <1>8, <1>9 DEF Next

LEMMA CastsInvariant == Spec => []CastInv
BY InitCasts, NextCasts, PTL DEF Spec

\* Every projection that returns was computed with weights that were copied
\* and merged to the end, for any weights, amounts of memory and failures.
THEOREM WeightsCorrect == Spec => []CompleteWeightsUsed
<1>1. CastInv => CompleteWeightsUsed
  BY DEF CastInv, RowsInv, CompleteWeightsUsed
<1> QED BY <1>1, CastsInvariant, PTL

\* Between calls no page is pinned by a cast and no cast is open.
THEOREM CastsCorrect == Spec => []CastsReleased
<1>1. CastInv => CastsReleased
  BY DEF CastInv, PageInv, CastOf, Casting, Running, CastsReleased
<1> QED BY <1>1, CastsInvariant, PTL

-----------------------------------------------------------------------------
(* Memory.                                                                 *)

\* Before the second allocation there is room, or nothing left to reclaim.
MemoryInv ==
  /\ free \in Int /\ cache \in Nat /\ held \in Nat
  /\ stage = "retry" => free >= Output \/ (cache = 0 /\ Evictable = {})

LEMMA EvictableFinite ==
  IsFiniteSet(Loaded) /\ IsFiniteSet(Evictable) /\ Cardinality(Loaded) \in Nat
BY WeightAssumption, FS_Subset, FS_CardinalityType DEF Loaded, Evictable

LEMMA PagesCover ==
  ASSUME NEW units \in Nat, NEW size \in Nat \ {0}
  PROVE  (units + size - 1) \div size \in Nat /\ size * ((units + size - 1) \div size) >= units
OBVIOUS

\* An eviction gives back what was asked for, or everything there is.
LEMMA EvictionsSuffice ==
  ASSUME NEW units \in Nat, NEW gone \in Evictions(units)
  PROVE  /\ Cardinality(gone) \in Nat
         /\ PageSize * Cardinality(gone) >= units \/ gone = Evictable
<1>1. /\ gone \subseteq Evictable
      /\ Cardinality(gone) = SmallerOf(Cardinality(Evictable), (units + PageSize - 1) \div PageSize)
  BY DEF Evictions
<1>2. IsFiniteSet(gone) /\ Cardinality(gone) \in Nat /\ Cardinality(Evictable) \in Nat
  BY <1>1, EvictableFinite, FS_Subset, FS_CardinalityType
<1>3. CASE gone # Evictable
  <2>1. Cardinality(gone) < Cardinality(Evictable)
    <3>1. /\ Cardinality(gone) <= Cardinality(Evictable)
          /\ Cardinality(Evictable) = Cardinality(gone) => Evictable = gone
      BY <1>1, EvictableFinite, FS_Subset
    <3> QED BY <1>2, <1>3, <3>1
  <2>2. Cardinality(gone) = (units + PageSize - 1) \div PageSize
    BY <1>1, <1>2, <2>1 DEF SmallerOf
  <2> QED BY <1>2, <2>2, PagesCover, WeightAssumption
<1> QED BY <1>2, <1>3

\* Evicting pages that are there leaves memory a number.
LEMMA EvictionReading ==
  ASSUME NEW gone \in SUBSET Evictable
  PROVE  PageSize * Cardinality(gone) \in Nat
BY EvictableFinite, FS_Subset, FS_CardinalityType, WeightAssumption

LEMMA ReclaimKeepsMemory ==
  ASSUME NEW target \in Nat, NEW minimum, NEW mayEvict, free \in Int, cache \in Nat,
         Reclaim(target, minimum, mayEvict)
  PROVE  free' \in Int /\ cache' \in Nat
<1>1. PICK trimmed \in {free, free + cache}, gone \in SUBSET Evictable :
        free' = trimmed + PageSize * Cardinality(gone) /\ cache' \in {0, cache}
  BY DEF Reclaim, Evictions
<1>2. PageSize * Cardinality(gone) \in Nat BY EvictionReading
<1> QED BY <1>1, <1>2

LEMMA RequestKeepsMemory ==
  ASSUME NEW target \in Nat, NEW minimum, NEW mayEvict \in BOOLEAN, free \in Int, cache \in Nat,
         RequestCudaHeadroom(target, minimum, mayEvict)
  PROVE  free' \in Int /\ cache' \in Nat
<1>1. CASE Enough(target) \/ TooLittleCached(target, minimum, mayEvict)
  BY <1>1 DEF Enough, TooLittleCached
<1>2. CASE Reclaim(target, minimum, mayEvict) BY <1>2, ReclaimKeepsMemory
<1> QED BY <1>1, <1>2 DEF RequestCudaHeadroom

\* Without a minimum what a split segment holds changes nothing.
LEMMA SplitOfNothing ==
  ASSUME free \in Int, cache \in Nat, Reclaim(Output, 0, TRUE)
  PROVE  LET trimmed == IF cache > 0 THEN free + cache ELSE free
         IN  \E gone \in Evictions(LargerOf(0, Output - trimmed)) :
               /\ free' = trimmed + PageSize * Cardinality(gone)
               /\ cache' = IF cache > 0 THEN 0 ELSE cache
               /\ Evict(gone)
<1>1. cache + 0 = cache /\ cache >= 0 OBVIOUS
<1> QED BY <1>1 DEF Reclaim

LEMMA RecoverExhausts ==
  ASSUME free \in Int, cache \in Nat, RequestCudaHeadroom(Output, 0, TRUE)
  PROVE  free' >= Output \/ (cache' = 0 /\ Evictable' = {})
<1>1. CASE Enough(Output) BY <1>1 DEF Enough
<1>2. CASE TooLittleCached(Output, 0, TRUE) BY <1>2 DEF TooLittleCached
<1>3. CASE Reclaim(Output, 0, TRUE)
  <2> DEFINE trimmed == IF cache > 0 THEN free + cache ELSE free
             missing == LargerOf(0, Output - trimmed)
  <2>1. trimmed \in Int /\ missing \in Nat /\ trimmed + missing >= Output
    BY ProjectionAssumption DEF LargerOf
  <2>2. PICK gone \in Evictions(missing) :
          /\ free' = trimmed + PageSize * Cardinality(gone)
          /\ cache' = IF cache > 0 THEN 0 ELSE cache
          /\ Evict(gone)
    BY <1>3, SplitOfNothing
  <2>3. cache' = 0 BY <2>2
  <2>4. CASE gone = Evictable
    BY <2>2, <2>3, <2>4 DEF Evict, Evictable, Loaded
  <2>5. CASE PageSize * Cardinality(gone) >= missing
    <3>1. PageSize * Cardinality(gone) \in Nat BY EvictionReading DEF Evictions
    <3> HIDE DEF trimmed, missing
    <3> QED BY <2>1, <2>2, <2>5, <3>1, ProjectionAssumption
  <2> HIDE DEF missing
  <2> QED BY <2>1, <2>4, <2>5, EvictionsSuffice
<1> QED BY <1>1, <1>2, <1>3 DEF RequestCudaHeadroom

LEMMA InitMemory == Init => MemoryInv
BY WeightAssumption DEF Init, WeightInit, ProjectionInit, MemoryInv

LEMMA StepKeepsMemory ==
  ASSUME MemoryInv, ProjectionStep
  PROVE  MemoryInv'
<1> USE DEF MemoryInv, To
<1>1. CASE MakeRoom
  BY <1>1, RequestKeepsMemory, ProjectionAssumption DEF MakeRoom
<1>2. CASE DecideReuse
  BY <1>2, RequestKeepsMemory, ProjectionAssumption DEF DecideReuse
<1>3. CASE RecoverAllocation
  <2>1. RequestCudaHeadroom(Output, 0, TRUE) /\ stage' = "retry" /\ held' = held
    BY <1>3 DEF RecoverAllocation
  <2>2. free' \in Int /\ cache' \in Nat
    BY <2>1, RequestKeepsMemory, ProjectionAssumption
  <2>3. free' >= Output \/ (cache' = 0 /\ Evictable' = {})
    BY <2>1, RecoverExhausts
  <2> QED BY <2>1, <2>2, <2>3
<1>4. CASE BeginCast
  <2>1. /\ stage' = "fill" /\ held' = held /\ cache' = cache
        /\ free' \in {free, free - PageSize}
    BY <1>4 DEF BeginCast, Fault
  <2> QED BY <2>1, WeightAssumption
<1>5. CASE Allocated
  BY <1>5, ProjectionAssumption DEF Allocated, Allocate, SmallerOf
<1>6. CASE StartOver
  BY <1>6 DEF StartOver
<1>7. CASE \/ ReuseUnsupported \/ EndCast \/ Linear \/ AllocationFails \/ NextChunk
           \/ Return \/ Raise \/ CleanUp \/ Propagate
  BY <1>7 DEF ReuseUnsupported, EndCast, Linear, AllocationFails, NextChunk, Return, Raise,
              CleanUp, Propagate
<1> QED BY <1>1, <1>2, <1>3, <1>4, <1>5, <1>6, <1>7 DEF ProjectionStep

LEMMA NextMemory == MemoryInv /\ [Next]_vars => MemoryInv'
<1> SUFFICES ASSUME MemoryInv, [Next]_vars PROVE MemoryInv' OBVIOUS
<1> USE DEF MemoryInv
<1>1. ASSUME UNCHANGED projection, PagesFollow PROVE MemoryInv'
  <2>1. CASE UNCHANGED <<memory, pages>> BY <1>1, <2>1 DEF Evictable, Loaded
  <2>2. CASE /\ Evict(Evictable) /\ UNCHANGED cache
             /\ free' = free + PageSize * Cardinality(Evictable)
    <3>1. PageSize * Cardinality(Evictable) \in Nat BY EvictionReading
    <3>2. Evictable' = {} BY <2>2 DEF Evict, Evictable, Loaded
    <3>3. /\ free' = free + PageSize * Cardinality(Evictable) /\ cache' = cache
          /\ held' = held /\ stage' = stage
      BY <1>1, <2>2
    <3>4. free' \in Int /\ free' >= free BY <3>1, <3>3
    <3> QED BY <3>2, <3>3, <3>4, ProjectionAssumption
  <2> QED BY <1>1, <2>1, <2>2 DEF PagesFollow
<1>2. CASE Boundary BY <1>1, <1>2 DEF Boundary
<1>3. CASE Forward
  <2>1. ASSUME NEW w \in Weights, NEW n \in 1..MaxChunks, NEW wants \in BOOLEAN,
               NEW recovers \in BOOLEAN, BeginCall(w, n, wants, recovers)
        PROVE  MemoryInv'
    BY <2>1 DEF BeginCall
  <2>2. CASE MlpFloor
    <3>1. CASE Reclaim(SoftFloor, MinimumTrim, FALSE)
      BY <2>2, <3>1, ReclaimKeepsMemory, WeightAssumption DEF MlpFloor
    <3>2. CASE UNCHANGED <<free, cache, pages>>
      BY <2>2, <3>2 DEF MlpFloor
    <3> QED BY <2>2, <3>1, <3>2 DEF MlpFloor, CheckFloor, Enough, TooLittleCached
  <2>3. CASE EndCall BY <2>3 DEF EndCall, To
  <2> QED BY <1>3, <2>1, <2>2, <2>3, StepKeepsMemory DEF Forward
<1>4. CASE ForwardEnds
  <2>1. PageSize * Cardinality(Loaded) \in Int
    BY EvictableFinite, WeightAssumption
  <2> QED BY <1>4, <2>1, WeightAssumption DEF ForwardEnds, To
<1>5. CASE UNCHANGED vars BY <1>5 DEF vars, Evictable, Loaded
<1> QED BY <1>2, <1>3, <1>4, <1>5 DEF Next

\* The second allocation fails only where nothing is left to reclaim, for any
\* sizes of pages, outputs and requests.
THEOREM RetryCorrect == Spec => RetryExhaustsMemory
<1>1. MemoryInv /\ [Next]_vars =>
        [stage = "retry" /\ stage' \in {"unwind", "exit"} => cache = 0 /\ Evictable = {}]_stage
  <2> SUFFICES ASSUME MemoryInv, [Next]_vars, stage = "retry", stage' \in {"unwind", "exit"}
               PROVE  cache = 0 /\ Evictable = {}
    OBVIOUS
  <2>1. Raise
    BY DEF Next, vars, Boundary, Forward, ForwardEnds, BeginCall, EndCall, MlpFloor, To,
           ProjectionStep, MakeRoom, DecideReuse, ReuseUnsupported, BeginCast, EndCast, Linear,
           Allocated, AllocationFails, RecoverAllocation, NextChunk, Return, CleanUp, StartOver,
           Propagate
  <2>2. free < Output BY <2>1 DEF Raise, OutOfMemory
  <2> QED BY <2>2, ProjectionAssumption DEF MemoryInv
<1> QED BY <1>1, InitMemory, NextMemory, PTL DEF Spec, RetryExhaustsMemory

-----------------------------------------------------------------------------
(* Guards.                                                                 *)

Kept(p) == Protected(p, KeysOf(Needed(request)))
Managed == \E h \in request : IsPhaseManaged(h)
OnDuty == loaded \cap Dynamic

\* What a guard still has to release is neither needed nor busy, and what it
\* has not to release may stay.
PhaseInv ==
  /\ loaded \subseteq Patcher /\ todo \subseteq Patcher
  /\ \A h \in marked : UuidOf[h] \in managedKeys
  /\ phase \in {"prior", "stale", "clearing"} => \A p \in todo : ~Kept(p)
  /\ phase \in {"prior", "clearing"} => \A p \in todo : InnerOf[p] \notin Busy
  /\ phase = "prior" /\ Managed =>
       \A p \in OnDuty \ todo : Kept(p) \/ InnerOf[p] \in spared \/ IsPhaseManaged(p)
  /\ phase = "stale" /\ Managed =>
       \A p \in OnDuty : Kept(p) \/ InnerOf[p] \in spared \/ IsPhaseManaged(p)
  /\ phase = "clearing" => \A p \in OnDuty \ todo : Kept(p) \/ InnerOf[p] \in spared
  /\ phase = "forward" => \A p \in OnDuty : Kept(p) \/ InnerOf[p] \in spared
  /\ phase = "stale" =>
       \A p \in loaded \ todo :
         IsPhaseManaged(p) /\ InnerOf[p] \in onGpu => Kept(p) \/ p \in refused
  /\ phase = "upstream" =>
       \A p \in loaded :
         IsPhaseManaged(p) /\ InnerOf[p] \in onGpu => Kept(p) \/ p \in refused

\* Who shares a clone's base shares all that protects it.
LEMMA ClonesAlike ==
  ASSUME NEW p \in Patcher, NEW q \in Patcher, UuidOf[p] = UuidOf[q]
  PROVE  InnerOf[p] = InnerOf[q] /\ ProtectionKeys(p) = ProtectionKeys(q)
BY PatcherAssumption DEF ProtectionKeys

LEMMA ProtectedByOne ==
  ASSUME NEW p \in Patcher, NEW keys, NEW S \in SUBSET Patcher,
         Protected(p, keys \cup KeysOf(S))
  PROVE  Protected(p, keys) \/ \E q \in S : InnerOf[p] = InnerOf[q]
<1>1. PICK key \in ProtectionKeys(p) : key \in keys \/ \E q \in S : key \in ProtectionKeys(q)
  BY DEF Protected, KeysOf
<1>2. CASE key \in keys BY <1>1, <1>2 DEF Protected
<1>3. ASSUME NEW q \in S, key \in ProtectionKeys(q) PROVE InnerOf[p] = InnerOf[q]
  BY <1>1, <1>3, PatcherAssumption DEF ProtectionKeys
<1> QED BY <1>1, <1>2, <1>3

LEMMA ProtectsItself ==
  ASSUME NEW p, NEW keys, NEW S, p \in S
  PROVE  Protected(p, keys \cup KeysOf(S))
<1>1. <<"clone", UuidOf[p]>> \in ProtectionKeys(p) BY DEF ProtectionKeys
<1>2. ProtectionKeys(p) \subseteq KeysOf(S) BY DEF KeysOf
<1> QED BY <1>1, <1>2 DEF Protected

LEMMA DetachShrinks ==
  ASSUME NEW p, FullDetach(p)
  PROVE  /\ loaded' \subseteq loaded /\ onGpu' \subseteq onGpu
         /\ p \notin loaded' \/ loaded' = loaded
         /\ loaded \ loaded' \subseteq Clones(p)
<1>1. p \in loaded => p \in Clones(p) BY DEF Clones
<1>2. CASE loaded' = loaded \ Clones(p) /\ onGpu' = onGpu \ ({InnerOf[p]} \ (owned \cup queued))
  BY <1>1, <1>2
<1>3. CASE UNCHANGED <<models, onGpu>> BY <1>3
<1> QED BY <1>2, <1>3 DEF FullDetach

\* What the guard of a load decides to release.
LEMMA PriorStageChooses ==
  ASSUME NEW S \in SUBSET Patcher, loaded \subseteq Patcher
  PROVE  /\ PriorStage(S) \subseteq loaded
         /\ \A p \in PriorStage(S) :
              ~Protected(p, KeysOf(Needed(S))) /\ InnerOf[p] \notin Busy
         /\ (\E h \in S : IsPhaseManaged(h)) =>
              \A p \in OnDuty \ PriorStage(S) :
                Protected(p, KeysOf(Needed(S))) \/ InnerOf[p] \in Busy \/ IsPhaseManaged(p)
<1> DEFINE busy == {p \in loaded \cap Dynamic : ~PriorStageIdle(p)}
           keys == KeysOf(Needed(S)) \cup KeysOf(busy)
<1>1. CASE \A p \in S : ~IsPhaseManaged(p) BY <1>1 DEF PriorStage
<1>2. CASE \E h \in S : IsPhaseManaged(h)
  <2>1. PriorStage(S) = {p \in loaded \cap Dynamic : ~IsPhaseManaged(p) /\ ~Protected(p, keys)}
    BY <1>2 DEF PriorStage, RequestedModelKeys
  <2>2. ASSUME NEW p \in PriorStage(S)
        PROVE  ~Protected(p, KeysOf(Needed(S))) /\ InnerOf[p] \notin Busy
    <3>1. p \notin busy BY <2>1, ProtectsItself
    <3>2. ~Protected(p, KeysOf(Needed(S))) BY <2>1 DEF Protected
    <3> QED BY <2>1, <3>1, <3>2 DEF PriorStageIdle
  <2>3. ASSUME NEW p \in OnDuty \ PriorStage(S), ~IsPhaseManaged(p),
               ~Protected(p, KeysOf(Needed(S)))
        PROVE  InnerOf[p] \in Busy
    <3>1. Protected(p, keys) BY <2>1, <2>3 DEF OnDuty
    <3>2. PICK q \in busy : InnerOf[p] = InnerOf[q]
      BY <2>3, <3>1, ProtectedByOne DEF OnDuty
    <3> QED BY <3>2 DEF PriorStageIdle
  <2> QED BY <2>1, <2>2, <2>3
<1> QED BY <1>1, <1>2

\* A release never adds to what is loaded and shortens the list of a guard.
LEMMA ReleaseKeeps ==
  ASSUME PhaseInv, UNCHANGED <<marks, usage, request, spared>>, phase' = phase,
         loaded' \subseteq loaded, onGpu' \subseteq onGpu, refused \subseteq refused',
         NEW p \in todo, todo' = todo \ {p},
         p \in loaded' => phase = "stale" /\ (InnerOf[p] \notin onGpu' \/ p \in refused')
  PROVE  PhaseInv'
<1> USE DEF PhaseInv
<1>1. \A q : Kept(q)' <=> Kept(q) BY DEF Kept
<1>2. \A q : IsPhaseManaged(q)' <=> IsPhaseManaged(q) BY DEF IsPhaseManaged
<1>3. Managed' <=> Managed BY DEF Managed, IsPhaseManaged
<1>4. Busy' = Busy BY DEF Busy
<1>5. OnDuty' \subseteq OnDuty BY DEF OnDuty
<1>6. phase # "stale" => OnDuty' \ todo' \subseteq OnDuty \ todo BY DEF OnDuty
<1>7. ASSUME phase = "stale", NEW q \in loaded' \ todo', IsPhaseManaged(q)', InnerOf[q] \in onGpu'
      PROVE  Kept(q)' \/ q \in refused'
  BY <1>1, <1>2, <1>7
<1>8. phase' = "prior" /\ Managed' =>
        \A q \in OnDuty' \ todo' : Kept(q)' \/ InnerOf[q] \in spared' \/ IsPhaseManaged(q)'
  BY <1>1, <1>2, <1>3, <1>6
<1>9. phase' = "stale" /\ Managed' =>
        \A q \in OnDuty' : Kept(q)' \/ InnerOf[q] \in spared' \/ IsPhaseManaged(q)'
  BY <1>1, <1>2, <1>3, <1>5
<1>10. phase' = "clearing" => \A q \in OnDuty' \ todo' : Kept(q)' \/ InnerOf[q] \in spared'
  BY <1>1, <1>6
<1>11. phase' = "forward" => \A q \in OnDuty' : Kept(q)' \/ InnerOf[q] \in spared'
  BY <1>1, <1>5
<1>12. phase' = "upstream" =>
         \A q \in loaded' : IsPhaseManaged(q)' /\ InnerOf[q] \in onGpu' => Kept(q)' \/ q \in refused'
  BY <1>1, <1>2
<1> QED BY <1>1, <1>4, <1>7, <1>8, <1>9, <1>10, <1>11, <1>12

\* A guard that failed, a node that began or ended has nothing to keep to.
LEMMA RestKeeps ==
  ASSUME PhaseInv, phase' \in {"rest", "node", "failed"},
         loaded' \subseteq Patcher, todo' \subseteq Patcher, UNCHANGED marks
  PROVE  PhaseInv'
BY DEF PhaseInv

\* A load or a forward that begins, and a guard that goes on to its next part.
LEMMA GuardBegins ==
  ASSUME PhaseInv,
         \/ \E S \in SUBSET Patcher : BeginLoad(S)
         \/ \E h \in Patcher : BeginForward(h)
         \/ BeginStale \/ EndStale \/ EnterForward
  PROVE  PhaseInv'
<1> USE DEF PhaseInv
<1>1. ASSUME NEW S \in SUBSET Patcher, BeginLoad(S) PROVE PhaseInv'
  <2>1. /\ phase' = "prior" /\ request' = S /\ todo' = PriorStage(S) /\ spared' = Busy
        /\ UNCHANGED <<models, marks, usage>>
    BY <1>1 DEF BeginLoad
  <2>2. \A p : /\ Kept(p)' <=> Protected(p, KeysOf(Needed(S)))
               /\ IsPhaseManaged(p)' <=> IsPhaseManaged(p)
    BY <2>1 DEF Kept, IsPhaseManaged
  <2>3. /\ Managed' <=> \E h \in S : IsPhaseManaged(h)
        /\ Busy' = Busy /\ OnDuty' = OnDuty
    BY <2>1, <2>2 DEF Managed, Busy, OnDuty
  <2> QED BY <2>1, <2>2, <2>3, PriorStageChooses
<1>2. ASSUME NEW h \in Patcher, BeginForward(h) PROVE PhaseInv'
  <2>1. /\ phase' = "clearing" /\ request' = used /\ todo' = Candidates(used) /\ spared' = Busy
        /\ UNCHANGED <<models, marks, active, owned>> /\ queued' \subseteq queued
    BY <1>2 DEF BeginForward
  <2>2. \A p : Kept(p)' <=> Protected(p, RequestedModelKeys(used))
    BY <2>1 DEF Kept, RequestedModelKeys
  <2>3. Busy' \subseteq Busy /\ OnDuty' = OnDuty BY <2>1 DEF Busy, OnDuty
  <2>4. Candidates(used) =
          {p \in OnDuty : InnerOf[p] \notin Busy /\ ~Protected(p, RequestedModelKeys(used))}
    BY DEF Candidates, OnDuty, PriorStageIdle
  <2>5. OnDuty \subseteq Patcher BY DEF OnDuty
  <2> QED BY <2>1, <2>2, <2>3, <2>4, <2>5
<1>3. ASSUME UNCHANGED <<models, marks, request, spared, onGpu, refused>>
      PROVE  /\ \A p : (Kept(p)' <=> Kept(p)) /\ (IsPhaseManaged(p)' <=> IsPhaseManaged(p))
             /\ (Managed' <=> Managed) /\ OnDuty' = OnDuty
  BY <1>3 DEF Kept, IsPhaseManaged, Managed, OnDuty
<1>4. CASE BeginStale
  <2>1. /\ phase = "prior" /\ phase' = "stale" /\ todo = {} /\ todo' = Stale
        /\ UNCHANGED <<models, marks, request, spared, onGpu, refused>>
    BY <1>4 DEF BeginStale
  <2>2. Stale = {p \in loaded : IsPhaseManaged(p) /\ InnerOf[p] \in onGpu /\ ~Kept(p)}
    BY DEF Stale, NeedsDynamicRelease, Kept, RequestedModelKeys
  <2> QED BY <1>3, <2>1, <2>2
<1>5. CASE EndStale
  BY <1>3, <1>5 DEF EndStale
<1>6. CASE EnterForward
  BY <1>3, <1>6 DEF EnterForward
<1> QED BY <1>1, <1>2, <1>4, <1>5, <1>6

Releases(p) == ReleasePriorStage(p) \/ ReleaseStale(p) \/ ReleaseCandidate(p)

LEMMA GuardReleases ==
  ASSUME PhaseInv, NEW p \in Patcher, Releases(p)
  PROVE  PhaseInv'
<1>1. ASSUME ReleasePriorStage(p) \/ ReleaseCandidate(p) PROVE PhaseInv'
  <2>1. /\ loaded' \subseteq loaded /\ onGpu' \subseteq onGpu
        /\ UNCHANGED <<marks, usage, request, history>>
        /\ p \in todo /\ phase \in {"prior", "clearing"}
    BY <1>1, DetachShrinks DEF ReleasePriorStage, ReleaseCandidate
  <2>2. CASE p \in loaded'
    <3>1. phase' = "failed" /\ todo' = {}
      BY <1>1, <2>2 DEF ReleasePriorStage, ReleaseCandidate
    <3> QED BY <2>1, <3>1, RestKeeps DEF PhaseInv
  <2>3. CASE p \notin loaded'
    <3>1. phase' = phase /\ todo' = todo \ {p}
      BY <1>1, <2>3 DEF ReleasePriorStage, ReleaseCandidate
    <3> QED BY <2>1, <2>3, <3>1, ReleaseKeeps
  <2> QED BY <2>2, <2>3
<1>2. CASE ReleaseStale(p)
  <2>1. /\ phase = "stale" /\ phase' = phase /\ p \in todo /\ todo' = todo \ {p}
        /\ UNCHANGED <<marks, usage, request, spared>>
    BY <1>2 DEF ReleaseStale
  <2>2. CASE KeepHostCopy(p) /\ refused' = refused
    BY <2>1, <2>2, ReleaseKeeps DEF KeepHostCopy
  <2>3. CASE FullDetach(p) /\ refused' = refused \cup (Clones(p) \cap loaded')
    <3>1. p \in loaded' => p \in refused'
      BY <2>3, DetachShrinks DEF Clones
    <3> QED BY <2>1, <2>3, <3>1, DetachShrinks, ReleaseKeeps
  <2> QED BY <1>2, <2>2, <2>3 DEF ReleaseStale
<1> QED BY <1>1, <1>2 DEF Releases

LEMMA InitPhases == Init => PhaseInv
BY DEF Init, ReleaseInit, PhaseInv

LEMMA NextPhases == PhaseInv /\ [Next]_vars => PhaseInv'
<1> SUFFICES ASSUME PhaseInv, [Next]_vars PROVE PhaseInv' OBVIOUS
<1>1. CASE \E S \in Loads : BeginLoad(S)
  BY <1>1, GuardBegins, PhasesAssumption
<1>2. CASE BeginStale \/ EndStale \/ EnterForward \/ \E p \in Patcher : BeginForward(p)
  BY <1>2, GuardBegins
<1>3. ASSUME NEW p \in Patcher, ReleasePriorStage(p) \/ ReleaseStale(p) \/ ReleaseCandidate(p)
      PROVE  PhaseInv'
  BY <1>3, GuardReleases DEF Releases
<1>4. CASE UpstreamLoad
  <2>1. loaded' \subseteq Patcher BY <1>4 DEF UpstreamLoad, Needed, PhaseInv
  <2> QED BY <1>4, <2>1, RestKeeps DEF UpstreamLoad, PhaseInv
<1>5. ASSUME NEW p \in Patcher, MarkPhaseManaged(p) PROVE PhaseInv'
  BY <1>5 DEF MarkPhaseManaged, PhaseInv
<1>6. CASE BeginNode \/ \E p \in Patcher : UseModel(p)
  BY <1>6, RestKeeps DEF BeginNode, UseModel, PhaseInv
<1>7. ASSUME NEW p \in Patcher, NEW q \in Patcher, ParentStandsIn(p, q) PROVE PhaseInv'
  BY <1>7, RestKeeps DEF ParentStandsIn, PhaseInv
<1>8. CASE EndNode
  BY <1>8, RestKeeps DEF EndNode, PhaseInv
<1>9. CASE ForwardEnds
  BY <1>9, RestKeeps DEF ForwardEnds, LeaveForward, PhaseInv
<1>10. CASE Forward
  <2>1. /\ phase = "forward"
        /\ UNCHANGED <<phase, models, marks, queued, request, todo, history>>
    BY <1>10 DEF Forward, H3Follows
  <2>2. \A p : Kept(p)' <=> Kept(p) BY <2>1 DEF Kept
  <2> QED BY <2>1, <2>2 DEF PhaseInv, OnDuty
<1>11. CASE UNCHANGED vars
  <2>1. UNCHANGED release BY <1>11 DEF vars
  <2> QED BY <2>1 DEF PhaseInv, Kept, Managed, OnDuty, IsPhaseManaged, Busy
<1> QED
  BY <1>1, <1>2, <1>3, <1>4, <1>5, <1>6, <1>7, <1>8, <1>9, <1>10, <1>11
  DEF Next, Boundary, GuardStep

LEMMA PhasesInvariant == Spec => []PhaseInv
BY InitPhases, NextPhases, PTL DEF Spec

\* A managed H3 of an earlier prompt that the load does not ask for is off the
\* GPU when ComfyUI loads, or its detach was tried in vain, for any models,
\* clones and models they bring along.
THEOREM StaleCorrect == Spec => []StaleReleased
<1>1. PhaseInv => StaleReleased
  BY DEF PhaseInv, StaleReleased, IsPhaseManaged, Kept
<1> QED BY <1>1, PhasesInvariant, PTL

\* While H3 computes, and when a load of it begins, only models that are needed
\* or were busy share its GPU, for any models and however often a detach fails.
THEOREM RoomCorrect == Spec => []RoomForSampling
<1>1. PhaseInv => RoomForSampling
  BY DEF PhaseInv, RoomForSampling, Managed, Kept, OnDuty
<1> QED BY <1>1, PhasesInvariant, PTL

\* No step of a guard takes a model that is needed or, where an earlier phase
\* is cleared, busy, nor a clone of one.
THEOREM NeededCorrect == Spec => NeededKept
<1>1. ASSUME PhaseInv, [Next]_vars,
             NEW q \in loaded \ loaded', phase \in {"prior", "stale", "clearing"}
      PROVE  ~Kept(q) /\ (phase # "stale" => InnerOf[q] \notin Busy)
  <2>1. PICK p \in Patcher : Releases(p)
    BY <1>1
    DEF Next, Boundary, GuardStep, Releases, Forward, ForwardEnds, vars, BeginNode,
        EndNode, BeginLoad, ParentStandsIn, UseModel, UpstreamLoad, BeginStale, EndStale,
        EnterForward, LeaveForward, MarkPhaseManaged, BeginForward
  <2>2. p \in todo /\ q \in Clones(p)
    BY <1>1, <2>1, DetachShrinks
    DEF Releases, ReleasePriorStage, ReleaseStale, ReleaseCandidate, KeepHostCopy
  <2>3. InnerOf[q] = InnerOf[p] /\ ProtectionKeys(q) = ProtectionKeys(p)
    BY <1>1, <2>2, ClonesAlike DEF Clones, PhaseInv
  <2> QED BY <1>1, <2>2, <2>3 DEF PhaseInv, Kept, Protected
<1>2. PhaseInv /\ [Next]_vars =>
        [\A p \in loaded \ loaded' : phase \in {"prior", "stale", "clearing"} =>
           /\ ~Protected(p, KeysOf(Needed(request)))
           /\ phase # "stale" => InnerOf[p] \notin Busy]_release
  BY <1>1 DEF Kept
<1> QED BY <1>2, PhasesInvariant, PTL DEF Spec, NeededKept
=============================================================================
