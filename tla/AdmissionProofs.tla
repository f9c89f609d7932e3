--------------------------- MODULE AdmissionProofs ---------------------------
(***************************************************************************)
(* Proofs about Admission, for any devices, requests, chunks of staging    *)
(* and levels of memory, and any number of calls and samples.              *)
(*                                                                         *)
(* What a plan promises is said of the reading it was made from, so the    *)
(* invariant follows a call stage by stage while nobody else changes the   *)
(* memory: FreshPlan, TrimmedPlan and PoolPlan.  Whatever others do, a     *)
(* plan says what its call needs (PlanOf), and so do the leases.           *)
(***************************************************************************)
EXTENDS Admission, FiniteSetTheorems, WellFoundedInduction, TLAPS

-----------------------------------------------------------------------------
(* The least of a finite set, for the tuples of Python's min.              *)

\* A finite set that is not empty has a minimal element for any strict order.
LEMMA MinimalExists ==
  ASSUME NEW S, IsFiniteSet(S), S # {}, NEW R,
         \A x \in S : <<x, x>> \notin R,
         \A x, y, z \in S : <<x, y>> \in R /\ <<y, z>> \in R => <<x, z>> \in R
  PROVE  \E m \in S : \A y \in S : <<y, m>> \notin R
<1> DEFINE HasMinimal(U) == \E m \in U : \A y \in U : <<y, m>> \notin R
           Bad == {n \in Nat : \E U \in SUBSET S :
                     U # {} /\ Cardinality(U) = n /\ ~HasMinimal(U)}
<1> SUFFICES ASSUME ~HasMinimal(S) PROVE FALSE
  OBVIOUS
<1>1. Cardinality(S) \in Bad
  BY FS_CardinalityType
<1>2. PICK n \in Bad : \A k \in Bad : <<k, n>> \notin OpToRel(<, Nat)
  <2>1. Bad \subseteq Nat /\ Bad # {}
    BY <1>1
  <2> HIDE DEF Bad
  <2> QED BY <2>1, NatLessThanWellFounded, WFMin, Zenon
<1>3. \A k \in Bad : ~(k < n)
  <2>1. Bad \subseteq Nat
    OBVIOUS
  <2> HIDE DEF Bad
  <2> QED BY <1>2, <2>1, Zenon DEF OpToRel
<1>4. PICK U \in SUBSET S : U # {} /\ Cardinality(U) = n /\ ~HasMinimal(U)
  OBVIOUS
<1>5. PICK x \in U : TRUE
  BY <1>4
<1> DEFINE V == U \ {x}
<1>6. IsFiniteSet(U) /\ Cardinality(U) \in Nat /\ Cardinality(V) = Cardinality(U) - 1
  BY <1>4, <1>5, FS_Subset, FS_CardinalityType, FS_RemoveElement
<1>7. Cardinality(V) \in Nat /\ Cardinality(V) < n
  <2>1. IsFiniteSet(V)
    BY <1>6, FS_Subset
  <2> QED BY <1>4, <1>6, <2>1, FS_CardinalityType
<1>8. V # {}
  <2> SUFFICES ASSUME V = {} PROVE FALSE
    OBVIOUS
  <2>1. \A y \in U : y = x
    OBVIOUS
  <2>2. <<x, x>> \notin R
    BY <1>4, <1>5
  <2>3. ASSUME NEW y \in U PROVE <<y, x>> \notin R
    <3>1. y = x
      BY <2>1
    <3> QED BY <2>2, <3>1
  <2> QED BY <1>4, <1>5, <2>3
<1>9. HasMinimal(V)
  <2>1. SUFFICES ASSUME ~HasMinimal(V) PROVE FALSE
    OBVIOUS
  <2>2. V \in SUBSET S
    BY <1>4
  <2>3. Cardinality(V) \in Bad
    BY <1>7, <1>8, <2>1, <2>2
  <2> HIDE DEF HasMinimal, Bad
  <2> QED BY <1>3, <1>7, <2>3
<1>10. PICK m \in V : \A y \in V : <<y, m>> \notin R
  BY <1>9
<1>11. CASE <<x, m>> \in R
  <2>1. ASSUME NEW y \in U PROVE <<y, x>> \notin R
    <3>1. CASE y = x
      <4>1. <<x, x>> \notin R
        BY <1>4, <1>5
      <4> QED BY <3>1, <4>1
    <3>2. CASE y # x
      <4>1. <<y, m>> \notin R
        BY <1>10, <3>2
      <4>2. y \in S /\ x \in S /\ m \in S
        BY <1>4, <1>5, <1>10
      <4>3. <<y, x>> \in R /\ <<x, m>> \in R => <<y, m>> \in R
        BY <4>2
      <4> QED BY <1>11, <4>1, <4>3
    <3> QED BY <3>1, <3>2
  <2> QED BY <1>4, <1>5, <2>1
<1>12. CASE <<x, m>> \notin R
  <2>1. ASSUME NEW y \in U PROVE <<y, m>> \notin R
    <3>1. CASE y = x
      BY <1>12, <3>1
    <3>2. CASE y # x
      BY <1>10, <3>2
    <3> QED BY <3>1, <3>2
  <2> QED BY <1>4, <1>10, <2>1
<1> QED BY <1>11, <1>12

Tuples == [1..5 -> Int]

\* Python's order on tuples of five numbers is strict.
LEMMA BeforeStrict ==
  ASSUME NEW a \in Tuples, NEW b \in Tuples, NEW c \in Tuples
  PROVE  /\ ~Before(a, a)
         /\ Before(a, b) /\ Before(b, c) => Before(a, c)
<1>1. DOMAIN a = 1..5 /\ DOMAIN b = 1..5 /\ DOMAIN c = 1..5
  BY DEF Tuples
<1>2. ~Before(a, a)
  BY <1>1 DEF Before, Tuples
<1>3. ASSUME Before(a, b), Before(b, c)
      PROVE  Before(a, c)
  <2>1. PICK i \in 1..5 : a[i] < b[i] /\ \A j \in 1..(i - 1) : a[j] = b[j]
    BY <1>1, <1>3 DEF Before
  <2>2. PICK k \in 1..5 : b[k] < c[k] /\ \A j \in 1..(k - 1) : b[j] = c[j]
    BY <1>1, <1>3 DEF Before
  <2>3. CASE i < k
    <3>1. a[i] < c[i] /\ \A j \in 1..(i - 1) : a[j] = c[j]
      BY <2>1, <2>2, <2>3 DEF Tuples
    <3> QED BY <1>1, <3>1 DEF Before
  <2>4. CASE i >= k
    <3>1. a[k] < c[k] /\ \A j \in 1..(k - 1) : a[j] = c[j]
      <4>1. a[k] <= b[k]
        BY <2>1, <2>2, <2>4 DEF Tuples
      <4>2. \A j \in 1..(k - 1) : a[j] = b[j]
        BY <2>1, <2>2, <2>4
      <4> QED BY <2>2, <4>1, <4>2 DEF Tuples
    <3> QED BY <1>1, <3>1 DEF Before
  <2> QED BY <2>3, <2>4
<1> QED BY <1>2, <1>3

\* The element that Least chooses: stated for a function of ranks, and used
\* with the ranks of splits and of plans.
LEMMA RankedMinimal ==
  ASSUME NEW S, IsFiniteSet(S), S # {}, NEW rank \in [S -> Tuples]
  PROVE  \E m \in S : \A y \in S : ~Before(rank[y], rank[m])
<1> DEFINE R == {xy \in S \X S : Before(rank[xy[1]], rank[xy[2]])}
<1>1. \A x, y \in S : <<x, y>> \in R <=> Before(rank[x], rank[y])
  OBVIOUS
<1>2. \A x \in S : rank[x] \in Tuples
  OBVIOUS
<1>3. \A x \in S : ~Before(rank[x], rank[x])
  BY <1>2, BeforeStrict
<1>4. \A x, y, z \in S : Before(rank[x], rank[y]) /\ Before(rank[y], rank[z])
                           => Before(rank[x], rank[z])
  BY <1>2, BeforeStrict, Zenon
<1> HIDE DEF R
<1>5. \E m \in S : \A y \in S : <<y, m>> \notin R
  <2>1. /\ \A x \in S : <<x, x>> \notin R
        /\ \A x, y, z \in S : <<x, y>> \in R /\ <<y, z>> \in R => <<x, z>> \in R
    BY <1>1, <1>3, <1>4
  <2> QED BY <2>1, MinimalExists, Zenon
<1> QED BY <1>1, <1>5

LEMMA TupleTyped ==
  ASSUME NEW a \in Int, NEW b \in Int, NEW c \in Int, NEW d \in Int, NEW e \in Int
  PROVE  <<a, b, c, d, e>> \in Tuples
BY DEF Tuples

\* The first component that differs decides.
LEMMA FirstDecides ==
  ASSUME NEW x \in Tuples, NEW y \in Tuples, ~Before(y, x),
         NEW k \in 1..5, \A j \in 1..(k - 1) : x[j] = y[j]
  PROVE  x[k] <= y[k]
<1>1. DOMAIN y = 1..5 /\ x[k] \in Int /\ y[k] \in Int
  BY DEF Tuples
<1>2. y[k] < x[k] => Before(y, x)
  BY <1>1 DEF Before
<1> QED BY <1>1, <1>2

-----------------------------------------------------------------------------
(* The split of one device.                                                *)

LEMMA NeedsTyped ==
  ASSUME NEW c \in Requests, NEW p \in Splits(c)
  PROVE  Need0(c, p) \in Int /\ Need1(c, p) \in Int
<1>1. Heads \in Int /\ p \in Int
  BY PartitionAssumption, RequestAssumption DEF Splits
<1>2. {c.fixed0, c.fixed1, c.unit, c.prepare, c.prepareUnit} \subseteq Int
  BY RequestAssumption
<1>3. p * c.unit \in Int /\ p * c.prepareUnit \in Int /\ (Heads - p) * c.unit \in Int
  BY <1>1, <1>2
<1> QED BY <1>2, <1>3 DEF Need0, Need1, Larger

LEMMA MarginsTyped ==
  ASSUME NEW c \in Requests, NEW d \in Secondaries, NEW memory \in [Devices -> Nat],
         NEW p \in Splits(c)
  PROVE  Margin0(c, p, memory) \in Int /\ Margin1(c, p, d, memory) \in Int
<1>1. Primary \in Devices /\ d \in Devices
  BY DEF Devices
<1>2. {memory[Primary], memory[d], Reserve[Primary], Reserve[d]} \subseteq Int
  BY <1>1, PartitionAssumption
<1> QED BY <1>2, NeedsTyped DEF Margin0, Margin1

LEMMA ShareTyped ==
  ASSUME NEW units \in Int, NEW d \in Devices
  PROVE  Share(units, d) \in Int
<1>1. Total[d] \in Nat \ {0} /\ Common \in Nat
  BY PartitionAssumption
<1>2. Common \div Total[d] \in Int
  BY <1>1
<1> QED BY <1>2 DEF Share

\* Partition returns a split, and one that fits with the smallest bottleneck
\* of those that do, if any does.
LEMMA PartitionBest ==
  ASSUME NEW c \in Requests, NEW d \in Secondaries, NEW memory \in [Devices -> Nat]
  PROVE  /\ Partition(c, d, memory) \in Splits(c)
         /\ \A q \in Splits(c) : Fits(c, q, d, memory) =>
              /\ Fits(c, Partition(c, d, memory), d, memory)
              /\ Bottleneck(Partition(c, d, memory)) <= Bottleneck(q)
<1> DEFINE m0(p) == Margin0(c, p, memory)
           m1(p) == Margin1(c, p, d, memory)
           imbalance(p) == Bottleneck(p) - (Heads - Bottleneck(p))
           fitting == {p \in Splits(c) : Fits(c, p, d, memory)}
           best(p) == <<Bottleneck(p), imbalance(p),
                        -Smaller(Share(m0(p), Primary), Share(m1(p), d)), -m0(p) - m1(p), p>>
           nearest(p) == <<Share(Short(m0(p)), Primary) + Share(Short(m1(p)), d),
                           Larger(Short(m0(p)), Short(m1(p))), Bottleneck(p), imbalance(p), p>>
           split == Partition(c, d, memory)
<1>1. split = IF fitting # {} THEN Least(fitting, best) ELSE Least(Splits(c), nearest)
  BY DEF Partition
<1>2. IsFiniteSet(Splits(c)) /\ Splits(c) # {} /\ IsFiniteSet(fitting)
  <2>1. c.minimum \in Int /\ Heads - c.minimum \in Int /\ c.minimum <= Heads - c.minimum
    BY PartitionAssumption, RequestAssumption
  <2>2. IsFiniteSet(Splits(c))
    BY <2>1, FS_Interval DEF Splits
  <2>3. Splits(c) # {}
    BY <2>1 DEF Splits
  <2>4. IsFiniteSet(fitting)
    BY <2>2, FS_Subset
  <2> QED BY <2>2, <2>3, <2>4
<1>3. ASSUME NEW p \in Splits(c)
      PROVE  best(p) \in Tuples /\ nearest(p) \in Tuples /\ Bottleneck(p) \in Int
  <2>1. m0(p) \in Int /\ m1(p) \in Int
    BY MarginsTyped
  <2>2. p \in Int /\ Bottleneck(p) \in Int /\ imbalance(p) \in Int
    BY PartitionAssumption, RequestAssumption DEF Splits, Bottleneck, Larger
  <2>3. Short(m0(p)) \in Int /\ Short(m1(p)) \in Int
    BY <2>1 DEF Short, Larger
  <2> HIDE DEF m0, m1, imbalance
  <2>4. Primary \in Devices /\ d \in Devices
    BY DEF Devices
  <2>5. /\ Share(m0(p), Primary) \in Int /\ Share(m1(p), d) \in Int
        /\ Share(Short(m0(p)), Primary) \in Int /\ Share(Short(m1(p)), d) \in Int
    BY <2>1, <2>3, <2>4, ShareTyped
  <2>6. /\ -Smaller(Share(m0(p), Primary), Share(m1(p), d)) \in Int
        /\ -m0(p) - m1(p) \in Int
        /\ Share(Short(m0(p)), Primary) + Share(Short(m1(p)), d) \in Int
        /\ Larger(Short(m0(p)), Short(m1(p))) \in Int
    BY <2>1, <2>3, <2>5 DEF Smaller, Larger
  <2> QED BY <2>2, <2>6, TupleTyped
<1> HIDE DEF m0, m1, imbalance, best, nearest
<1>4. CASE fitting # {}
  <2> DEFINE rank == [p \in fitting |-> best(p)]
  <2>1. rank \in [fitting -> Tuples]
    BY <1>3
  <2>2. \E m \in fitting : \A y \in fitting : ~Before(rank[y], rank[m])
    <3> HIDE DEF rank, fitting
    <3> QED BY <1>2, <1>4, <2>1, RankedMinimal
  <2>3. /\ split \in fitting
        /\ \A y \in fitting \ {split} : ~Before(best(y), best(split))
    <3>1. split = CHOOSE x \in fitting : \A y \in fitting \ {x} : ~Before(best(y), best(x))
      BY <1>1, <1>4 DEF Least
    <3>2. \E m \in fitting : \A y \in fitting \ {m} : ~Before(best(y), best(m))
      BY <2>2
    <3> HIDE DEF fitting, split
    <3> QED BY <3>1, <3>2
  <2>4. ASSUME NEW q \in fitting PROVE Bottleneck(split) <= Bottleneck(q)
    <3>1. CASE q = split
      BY <1>3, <2>3, <3>1
    <3>2. CASE q # split
      <4>1. best(split)[1] <= best(q)[1]
        <5>1. best(split) \in Tuples /\ best(q) \in Tuples /\ ~Before(best(q), best(split))
          BY <1>3, <2>3, <3>2
        <5>2. \A j \in 1..(1 - 1) : best(split)[j] = best(q)[j]
          OBVIOUS
        <5> QED BY <5>1, <5>2, FirstDecides
      <4> QED BY <4>1 DEF best
    <3> QED BY <3>1, <3>2
  <2> QED BY <2>3, <2>4
<1>5. CASE fitting = {}
  <2> DEFINE rank == [p \in Splits(c) |-> nearest(p)]
  <2>1. rank \in [Splits(c) -> Tuples]
    BY <1>3
  <2>2. \E m \in Splits(c) : \A y \in Splits(c) : ~Before(rank[y], rank[m])
    <3> HIDE DEF rank
    <3> QED BY <1>2, <2>1, RankedMinimal
  <2>3. split \in Splits(c)
    <3>1. split = CHOOSE x \in Splits(c) :
                    \A y \in Splits(c) \ {x} : ~Before(nearest(y), nearest(x))
      BY <1>1, <1>5 DEF Least
    <3>2. \E m \in Splits(c) : \A y \in Splits(c) \ {m} : ~Before(nearest(y), nearest(m))
      BY <2>2
    <3> HIDE DEF split
    <3> QED BY <3>1, <3>2
  <2> QED BY <1>5, <2>3
<1> QED BY <1>4, <1>5

-----------------------------------------------------------------------------
(* The plan of one device, and the choice between devices.                 *)

\* What a plan says.
Plans == [enabled : BOOLEAN, fits : BOOLEAN, device : Secondaries, heads : 0..Heads,
          chunk : Nat, need0 : Int, need1 : Int, staging : Int,
          margin0 : Int, margin1 : Int, free1 : Int, limit : Int]

LEMMA StagingTyped ==
  ASSUME NEW c \in Requests, NEW p \in 0..Heads, NEW chunk \in Nat
  PROVE  Staging(c, p, chunk) \in Int
<1>1. {c.staged, c.stagedUnit} \subseteq Int /\ Heads \in Int
  BY RequestAssumption, PartitionAssumption
<1>2. /\ Heads * c.stagedUnit \in Int /\ (Heads - p) * c.stagedUnit \in Int
      /\ chunk * c.staged \in Int
  BY <1>1
<1>3. StagedWeight(c, p) \in Int
  BY <1>2 DEF StagedWeight
<1> QED BY <1>2, <1>3 DEF Staging

\* The staged chunk is one of the list, and may be pinned.
LEMMA ChunkFits ==
  ASSUME NEW c \in Requests, NEW p \in 0..Heads, NEW limit \in Nat
  PROVE  LET chunk == StagedChunk(c, p, limit)
         IN  chunk \in Nat /\ (chunk # 0 => Staging(c, p, chunk) <= limit)
<1> DEFINE fitting == {i \in DOMAIN Chunks : Staging(c, p, Chunks[i]) <= limit}
           first == CHOOSE i \in fitting : \A j \in fitting : i <= j
<1>1. StagedChunk(c, p, limit) = IF fitting = {} THEN 0 ELSE Chunks[first]
  BY DEF StagedChunk
<1>2. CASE fitting = {}
  BY <1>1, <1>2
<1>3. CASE fitting # {}
  <2>1. fitting \subseteq Nat
    BY PartitionAssumption
  <2>2. \E i \in fitting : \A j \in fitting : <<j, i>> \notin OpToRel(<, Nat)
    <3> HIDE DEF fitting
    <3> QED BY <1>3, <2>1, NatLessThanWellFounded, WFMin, Zenon
  <2>3. \E i \in fitting : \A j \in fitting : ~(j < i)
    <3> HIDE DEF fitting
    <3> QED BY <2>1, <2>2, Zenon DEF OpToRel
  <2>4. \E i \in fitting : \A j \in fitting : i <= j
    <3> HIDE DEF fitting
    <3> QED BY <2>1, <2>3
  <2>5. first \in fitting
    <3> HIDE DEF fitting
    <3> QED BY <2>4
  <2>6. Chunks[first] \in Nat
    BY <2>5, PartitionAssumption
  <2> QED BY <1>1, <1>3, <2>5, <2>6
<1> QED BY <1>2, <1>3

\* prepare: what its plan says, what an admitted one promises of the reading,
\* and that its split is the best of its device.
LEMMA PrepareSound ==
  ASSUME NEW c \in Requests, NEW d \in Secondaries, NEW memory \in [Devices -> Nat],
         NEW limit \in Nat
  PROVE  LET plan_ == Prepare(c, d, memory, limit)
         IN  /\ plan_ \in Plans /\ plan_.device = d
             /\ plan_.heads \in Splits(c)
             /\ plan_.need0 = Need0(c, plan_.heads) /\ plan_.need1 = Need1(c, plan_.heads)
             /\ plan_.margin0 = Margin0(c, plan_.heads, memory)
             /\ plan_.margin1 = Margin1(c, plan_.heads, d, memory)
             /\ plan_.free1 = memory[d] /\ plan_.limit = limit
             /\ plan_.fits <=> Fits(c, plan_.heads, d, memory)
             /\ plan_.enabled => plan_.fits /\ plan_.staging <= limit
             /\ \A q \in Splits(c) : Fits(c, q, d, memory) =>
                  plan_.fits /\ Bottleneck(plan_.heads) <= Bottleneck(q)
<1> DEFINE p == Partition(c, d, memory)
           fits == Fits(c, p, d, memory)
           chunk == IF fits THEN StagedChunk(c, p, limit) ELSE 0
           prepared == Prepare(c, d, memory, limit)
<1>1. prepared =
        [enabled |-> chunk # 0, fits |-> fits, device |-> d, heads |-> p, chunk |-> chunk,
         need0 |-> Need0(c, p), need1 |-> Need1(c, p),
         staging |-> IF chunk = 0 THEN 0 ELSE Staging(c, p, chunk),
         margin0 |-> Margin0(c, p, memory), margin1 |-> Margin1(c, p, d, memory),
         free1 |-> memory[d], limit |-> limit]
  BY DEF Prepare
<1>2. /\ p \in Splits(c)
      /\ \A q \in Splits(c) : Fits(c, q, d, memory) => fits /\ Bottleneck(p) <= Bottleneck(q)
  BY PartitionBest
<1>3. p \in 0..Heads
  BY <1>2, PartitionAssumption, RequestAssumption DEF Splits
<1> HIDE DEF p
<1>4. chunk \in Nat /\ (chunk # 0 => fits /\ Staging(c, p, chunk) <= limit)
  BY <1>3, ChunkFits
<1>5. fits \in BOOLEAN
  BY DEF Fits
<1>6. Need0(c, p) \in Int /\ Need1(c, p) \in Int
  BY <1>2, NeedsTyped
<1>7. Margin0(c, p, memory) \in Int /\ Margin1(c, p, d, memory) \in Int
  BY <1>2, MarginsTyped
<1>8. memory[d] \in Int
  BY DEF Devices
<1> HIDE DEF chunk, fits, prepared
<1>9. (IF chunk = 0 THEN 0 ELSE Staging(c, p, chunk)) \in Int
  BY <1>3, <1>4, StagingTyped
<1>10. prepared \in Plans
  BY <1>1, <1>3, <1>4, <1>5, <1>6, <1>7, <1>8, <1>9 DEF Plans
<1>11. /\ prepared.heads = p /\ prepared.device = d /\ prepared.fits = fits
       /\ prepared.enabled = (chunk # 0)
       /\ prepared.need0 = Need0(c, p) /\ prepared.need1 = Need1(c, p)
       /\ prepared.margin0 = Margin0(c, p, memory)
       /\ prepared.margin1 = Margin1(c, p, d, memory)
       /\ prepared.free1 = memory[d] /\ prepared.limit = limit
       /\ prepared.staging = IF chunk = 0 THEN 0 ELSE Staging(c, p, chunk)
  BY <1>1
<1> QED BY <1>2, <1>4, <1>10, <1>11 DEF fits, prepared

\* _select_admission: a plan of a usable device, that fits if any does and is
\* admitted if any is, and then with the smallest bottleneck of those that are.
LEMMA SelectBest ==
  ASSUME NEW c \in Requests, NEW devices \in SUBSET Secondaries, devices # {},
         NEW memory \in [Devices -> Nat], NEW limit \in Nat
  PROVE  LET chosen == Select(c, devices, memory, limit)
         IN  /\ \E d \in devices : chosen = Prepare(c, d, memory, limit)
             /\ \A d \in devices : Prepare(c, d, memory, limit).fits => chosen.fits
             /\ \A d \in devices : Prepare(c, d, memory, limit).enabled =>
                  /\ chosen.enabled
                  /\ Bottleneck(chosen.heads) <= Bottleneck(Prepare(c, d, memory, limit).heads)
<1> DEFINE rank(p) ==
             <<IF p.enabled THEN 0 ELSE 1, Short(p.margin0) + Short(p.margin1),
               Bottleneck(p.heads),
               -Smaller(Share(p.margin0, Primary), Share(p.margin1, p.device)),
               p.device>>
           candidates == {Prepare(c, d, memory, limit) : d \in devices}
           chosen == Select(c, devices, memory, limit)
<1>1. chosen = Least(candidates, rank)
  BY DEF Select
<1>2. IsFiniteSet(devices)
  BY PartitionAssumption, FS_Subset
<1>4. ASSUME NEW p \in candidates
      PROVE  /\ p \in Plans
             /\ p.fits <=> p.margin0 >= 0 /\ p.margin1 >= 0
             /\ p.enabled => p.fits
             /\ p.heads \in Splits(c)
  <2>1. PICK d \in devices : p = Prepare(c, d, memory, limit)
    OBVIOUS
  <2>2. /\ p \in Plans /\ p.heads \in Splits(c)
        /\ p.margin0 = Margin0(c, p.heads, memory)
        /\ p.margin1 = Margin1(c, p.heads, d, memory)
        /\ p.fits <=> Fits(c, p.heads, d, memory)
        /\ p.enabled => p.fits
    <3>1. d \in Secondaries
      OBVIOUS
    <3> QED BY <2>1, <3>1, PrepareSound
  <2> QED BY <2>2 DEF Fits
<1>5. ASSUME NEW p \in Plans
      PROVE  /\ rank(p) \in Tuples
             /\ rank(p)[1] = IF p.enabled THEN 0 ELSE 1
             /\ rank(p)[2] = Short(p.margin0) + Short(p.margin1)
             /\ rank(p)[3] = Bottleneck(p.heads)
  <2>1. /\ p.margin0 \in Int /\ p.margin1 \in Int /\ p.device \in Secondaries
        /\ p.heads \in Int /\ Heads \in Int
    BY PartitionAssumption DEF Plans
  <2>2. p.device \in Int /\ p.device \in Devices /\ Primary \in Devices
    <3>1. Secondaries \subseteq Int
      BY PartitionAssumption
    <3> QED BY <2>1, <3>1 DEF Devices
  <2>3. Share(p.margin0, Primary) \in Int /\ Share(p.margin1, p.device) \in Int
    BY <2>1, <2>2, ShareTyped
  <2>4. /\ -Smaller(Share(p.margin0, Primary), Share(p.margin1, p.device)) \in Int
        /\ Short(p.margin0) + Short(p.margin1) \in Int
        /\ Bottleneck(p.heads) \in Int
        /\ (IF p.enabled THEN 0 ELSE 1) \in Int
    <3>1. -Smaller(Share(p.margin0, Primary), Share(p.margin1, p.device)) \in Int
      BY <2>3 DEF Smaller
    <3>2. Short(p.margin0) + Short(p.margin1) \in Int
      BY <2>1 DEF Short, Larger
    <3>3. Bottleneck(p.heads) \in Int
      BY <2>1 DEF Bottleneck, Larger
    <3> QED BY <3>1, <3>2, <3>3
  <2>5. rank(p) \in Tuples
    BY <2>2, <2>4, TupleTyped
  <2> QED BY <2>5
<1> HIDE DEF rank, candidates, chosen
<1>6. chosen \in candidates /\ \A p \in candidates \ {chosen} : ~Before(rank(p), rank(chosen))
  <2> DEFINE ranks == [d \in devices |-> rank(Prepare(c, d, memory, limit))]
  <2>1. \A d \in devices : Prepare(c, d, memory, limit) \in candidates
    BY DEF candidates
  <2>2. ranks \in [devices -> Tuples]
    BY <1>4, <1>5, <2>1
  <2>3. PICK m \in devices : \A d \in devices : ~Before(ranks[d], ranks[m])
    <3> HIDE DEF ranks
    <3> QED BY <1>2, <2>2, RankedMinimal
  <2>4. \A p \in candidates : ~Before(rank(p), rank(Prepare(c, m, memory, limit)))
    BY <2>3 DEF candidates
  <2>5. chosen = CHOOSE x \in candidates :
                   \A y \in candidates \ {x} : ~Before(rank(y), rank(x))
    BY <1>1 DEF Least
  <2>6. \E x \in candidates : \A y \in candidates \ {x} : ~Before(rank(y), rank(x))
    BY <2>1, <2>4
  <2> QED BY <2>5, <2>6
<1>7. ASSUME NEW p \in candidates, p.enabled
      PROVE  chosen.enabled /\ Bottleneck(chosen.heads) <= Bottleneck(p.heads)
  <2>1. CASE p = chosen
    <3>1. Bottleneck(p.heads) \in Int
      BY <1>4, PartitionAssumption DEF Plans, Bottleneck, Larger
    <3> QED BY <1>7, <2>1, <3>1
  <2>2. CASE p # chosen
    <3>1. ~Before(rank(p), rank(chosen)) /\ rank(p) \in Tuples /\ rank(chosen) \in Tuples
      BY <1>4, <1>5, <1>6, <2>2
    <3>2. rank(p)[1] = 0 /\ rank(p)[2] = 0
      BY <1>4, <1>5, <1>7 DEF Short, Larger, Plans
    <3>3. rank(chosen)[1] <= rank(p)[1]
      <4>1. \A j \in 1..(1 - 1) : rank(chosen)[j] = rank(p)[j]
        OBVIOUS
      <4> QED BY <3>1, <4>1, FirstDecides
    <3>4. chosen.enabled
      BY <1>4, <1>5, <1>6, <3>2, <3>3
    <3>5. rank(chosen)[1] = 0 /\ rank(chosen)[2] = 0
      BY <1>4, <1>5, <1>6, <3>4 DEF Short, Larger, Plans
    <3>6. rank(chosen)[3] <= rank(p)[3]
      <4>1. \A j \in 1..(3 - 1) : rank(chosen)[j] = rank(p)[j]
        BY <3>2, <3>5
      <4> QED BY <3>1, <4>1, FirstDecides
    <3> QED BY <1>4, <1>5, <1>6, <3>4, <3>6
  <2> QED BY <2>1, <2>2
<1>8. ASSUME NEW p \in candidates, p.fits
      PROVE  chosen.fits
  <2> SUFFICES ASSUME p # chosen, ~chosen.enabled PROVE chosen.fits
    BY <1>4, <1>6, <1>8
  <2>1. ~Before(rank(p), rank(chosen)) /\ rank(p) \in Tuples /\ rank(chosen) \in Tuples
    BY <1>4, <1>5, <1>6
  <2>2. rank(chosen)[1] = 1 /\ rank(p)[1] \in {0, 1} /\ rank(p)[2] = 0
    BY <1>4, <1>5, <1>6, <1>8 DEF Short, Larger, Plans
  <2>3. rank(chosen)[1] <= rank(p)[1]
    <3>1. \A j \in 1..(1 - 1) : rank(chosen)[j] = rank(p)[j]
      OBVIOUS
    <3> QED BY <2>1, <3>1, FirstDecides
  <2>4. rank(chosen)[2] <= rank(p)[2]
    <3>1. \A j \in 1..(2 - 1) : rank(chosen)[j] = rank(p)[j]
      BY <2>2, <2>3
    <3> QED BY <2>1, <3>1, FirstDecides
  <2> QED BY <1>4, <1>5, <1>6, <2>2, <2>4 DEF Short, Larger, Plans
<1> QED BY <1>6, <1>7, <1>8 DEF candidates, chosen

-----------------------------------------------------------------------------
(* The invariant.                                                          *)

Stages == {"idle", "lease", "selected", "trimmed", "pool", "run"}
Planned == {"selected", "trimmed", "pool", "run"}
LeaseKeys == {LeaseKey(c) : c \in Requests}

\* The variables the proof speaks of have their types.
Typed ==
  /\ free \in [Devices -> Nat] /\ inactive \in Nat /\ host \in Nat
  /\ stage \in Stages /\ disturbed \in BOOLEAN /\ leased \in BOOLEAN /\ prepares \in Nat
  /\ leases \in [LeaseKeys -> Plans \cup {None}] /\ DOMAIN backoff = RecoveryKeys
  /\ stage # "idle" => request \in Requests /\ usable \in (SUBSET Secondaries) \ {{}}
  /\ stage \in Planned => plan \in Plans

\* What p says is needed, c needs.
TellsNeeds(p, c) == p.need0 = Need0(c, p.heads) /\ p.need1 = Need1(c, p.heads)

PlanOf == stage \in Planned => TellsNeeds(plan, request)

\* A lease says what any call that may take it needs.
LeasesHold ==
  \A c \in Requests : Leasable(c) /\ leases[LeaseKey(c)] # None =>
    TellsNeeds(leases[LeaseKey(c)], c)

NothingGiven == stage \in {"idle", "lease", "selected"} => before = None

InactiveWithin ==
  stage \in {"lease", "selected"} /\ ~disturbed =>
    free[Primary] + inactive <= Total[Primary]

\* The plan of a device, made from the memory there is.
Now(d) == Prepare(request, d, free, host)

FreshPlan ==
  stage = "selected" /\ ~disturbed => plan = Now(plan.device) /\ plan.device \in usable

\* The memory there is holds what the plan needs.
HoldsPlan ==
  /\ free[Primary] >= Target(plan)
  /\ free[plan.device] >= plan.need1 + Reserve[plan.device]
  /\ plan.staging <= host

\* After a trim the plan is the one for whose sake it was done.  It keeps its
\* promise if all of the blocks were freed; a rejected one waits before it may
\* ask again.
TrimmedPlan ==
  stage = "trimmed" /\ ~disturbed =>
    /\ before = plan /\ plan.device \in usable /\ plan.limit = host
    /\ plan.enabled => plan.fits /\ HoldsPlan /\ plan.heads \in Splits(request)
    /\ inactive = 0 =>
         /\ Now(plan.device).enabled
         /\ plan.enabled =>
              Bottleneck(Now(plan.device).heads) + MinHeadGain <= Bottleneck(plan.heads)
    /\ ~plan.enabled => backoff[RecoveryKey(plan.device)] = CooldownChecks

PoolPlan ==
  stage = "pool" /\ ~disturbed =>
    plan.limit = host /\ (plan.enabled => plan.fits /\ HoldsPlan)

BestInv ==
  /\ Typed /\ PlanOf /\ LeasesHold /\ NothingGiven /\ InactiveWithin
  /\ FreshPlan /\ TrimmedPlan /\ PoolPlan
  /\ SplitIsBest /\ TrimRescues /\ AdmittedFits

-----------------------------------------------------------------------------
(* A plan made new.                                                        *)

\* The splits that fit, as SplitIsBest says it.
Fitting(c, d, memory) ==
  {p \in 0..Heads : /\ {p, Heads - p} \subseteq c.minimum..Heads
                    /\ memory[Primary] >= Reserve[Primary] + Need0(c, p)
                    /\ memory[d] >= Reserve[d] + Need1(c, p)}

NoneBelow(p, c, d, memory) ==
  \A q \in Fitting(c, d, memory) : Bottleneck(p.heads) <= Bottleneck(q)

BestOf(p, c, memory) ==
  /\ p.fits <=> Fitting(c, p.device, memory) # {}
  /\ p.fits => NoneBelow(p, c, p.device, memory)

BestOfAll(p, c, devices, memory, limit) ==
  /\ p.fits <=> \E d \in devices : Fitting(c, d, memory) # {}
  /\ p.fits => NoneBelow(p, c, p.device, memory)
  /\ \A d \in devices :
       Prepare(c, d, memory, limit).enabled => p.enabled /\ NoneBelow(p, c, d, memory)

LEMMA FittingSplits ==
  ASSUME NEW c \in Requests, NEW d \in Secondaries, NEW memory \in [Devices -> Nat], NEW q
  PROVE  q \in Fitting(c, d, memory) <=> q \in Splits(c) /\ Fits(c, q, d, memory)
<1>1. Heads \in Nat /\ c.minimum \in Nat
  BY PartitionAssumption, RequestAssumption
<1>2. q \in Splits(c) <=> q \in 0..Heads /\ {q, Heads - q} \subseteq c.minimum..Heads
  BY <1>1 DEF Splits
<1>3. ASSUME q \in Splits(c)
      PROVE  Fits(c, q, d, memory) <=>
               /\ memory[Primary] >= Reserve[Primary] + Need0(c, q)
               /\ memory[d] >= Reserve[d] + Need1(c, q)
  <2>1. Primary \in Devices /\ d \in Devices
    BY DEF Devices
  <2>2. {memory[Primary], memory[d], Reserve[Primary], Reserve[d]} \subseteq Int
    BY <2>1, PartitionAssumption
  <2>3. Need0(c, q) \in Int /\ Need1(c, q) \in Int
    BY <1>3, NeedsTyped
  <2> QED BY <2>2, <2>3 DEF Fits, Margin0, Margin1
<1> QED BY <1>2, <1>3 DEF Fitting

LEMMA PreparedBest ==
  ASSUME NEW c \in Requests, NEW d \in Secondaries, NEW memory \in [Devices -> Nat],
         NEW limit \in Nat
  PROVE  BestOf(Prepare(c, d, memory, limit), c, memory)
<1> DEFINE p == Prepare(c, d, memory, limit)
<1>1. /\ p.device = d /\ p.heads \in Splits(c)
      /\ p.fits <=> Fits(c, p.heads, d, memory)
      /\ \A q \in Splits(c) : Fits(c, q, d, memory) =>
           p.fits /\ Bottleneck(p.heads) <= Bottleneck(q)
  BY PrepareSound
<1> HIDE DEF p
<1> QED BY <1>1, FittingSplits DEF BestOf, NoneBelow, p

LEMMA ReserveTyped ==
  ASSUME NEW d \in Devices
  PROVE  Reserve[d] \in Int
BY PartitionAssumption

\* What needs and reserves are made of.
LEMMA HoldsTyped ==
  ASSUME Typed, stage \in Planned
  PROVE  /\ plan.need0 \in Int /\ plan.need1 \in Int /\ plan.staging \in Int
         /\ plan.heads \in Int /\ plan.device \in Secondaries
         /\ Bottleneck(plan.heads) \in Int
         /\ {Reserve[Primary], Reserve[plan.device], free[Primary], free[plan.device]}
              \subseteq Int
<1>1. plan \in Plans
  BY DEF Typed
<1>2. /\ plan.need0 \in Int /\ plan.need1 \in Int /\ plan.staging \in Int
      /\ plan.heads \in Int /\ Heads \in Int /\ plan.device \in Secondaries
  BY <1>1, PartitionAssumption DEF Plans
<1>3. Primary \in Devices /\ plan.device \in Devices
  BY <1>2 DEF Devices
<1>4. Bottleneck(plan.heads) \in Int
  BY <1>2 DEF Bottleneck, Larger
<1>5. {Reserve[Primary], Reserve[plan.device]} \subseteq Int
  BY <1>3, ReserveTyped
<1>6. {free[Primary], free[plan.device]} \subseteq Int
  <2>1. free \in [Devices -> Nat]
    BY DEF Typed
  <2> QED BY <1>3, <2>1
<1> QED BY <1>2, <1>4, <1>5, <1>6

\* The plan made now of a secondary.
LEMMA NowSound ==
  ASSUME Typed, stage # "idle", NEW d \in Secondaries
  PROVE  /\ Now(d) \in Plans /\ Now(d).device = d /\ TellsNeeds(Now(d), request)
         /\ Now(d).limit = host /\ Now(d).free1 = free[d]
         /\ Now(d).heads \in Splits(request) /\ BestOf(Now(d), request, free)
         /\ Now(d).enabled =>
              /\ Now(d).fits /\ Now(d).staging <= host
              /\ free[Primary] >= Target(Now(d))
              /\ free[d] >= Now(d).need1 + Reserve[d]
<1>1. request \in Requests /\ free \in [Devices -> Nat] /\ host \in Nat
  BY DEF Typed
<1>2. /\ Now(d) \in Plans /\ Now(d).device = d /\ TellsNeeds(Now(d), request)
      /\ Now(d).limit = host /\ Now(d).free1 = free[d] /\ Now(d).heads \in Splits(request)
      /\ Now(d).fits <=> Fits(request, Now(d).heads, d, free)
      /\ Now(d).enabled => Now(d).fits /\ Now(d).staging <= host
  BY <1>1, PrepareSound DEF Now, TellsNeeds
<1>3. BestOf(Now(d), request, free)
  BY <1>1, PreparedBest DEF Now
<1>4. Now(d).heads \in Fitting(request, d, free) <=> Fits(request, Now(d).heads, d, free)
  BY <1>1, <1>2, FittingSplits
<1>5. Need0(request, Now(d).heads) \in Int /\ Need1(request, Now(d).heads) \in Int
  BY <1>1, <1>2, NeedsTyped
<1>6. Reserve[Primary] \in Int /\ Reserve[d] \in Int
  BY PartitionAssumption DEF Devices
<1> QED BY <1>2, <1>3, <1>4, <1>5, <1>6 DEF Fitting, TellsNeeds, Target

LEMMA FittingTyped ==
  ASSUME NEW c \in Requests, NEW d \in Secondaries, NEW memory \in [Devices -> Nat],
         NEW q \in Fitting(c, d, memory)
  PROVE  Bottleneck(q) \in Int
BY PartitionAssumption DEF Fitting, Bottleneck, Larger

LEMMA PlanTyped ==
  ASSUME NEW p \in Plans
  PROVE  Bottleneck(p.heads) \in Int
<1>1. p.heads \in Int /\ Heads \in Int
  BY PartitionAssumption DEF Plans
<1> QED BY <1>1 DEF Bottleneck, Larger

\* What has no larger bottleneck than a plan that is the best of its device
\* has none below it there.
LEMMA NoneBelowToo ==
  ASSUME NEW p \in Plans, NEW q \in Plans, NEW c \in Requests, NEW d \in Secondaries,
         NEW memory \in [Devices -> Nat],
         NoneBelow(q, c, d, memory), Bottleneck(p.heads) <= Bottleneck(q.heads)
  PROVE  NoneBelow(p, c, d, memory)
BY PlanTyped, FittingTyped DEF NoneBelow

\* The plan selected now.
LEMMA SelectedSound ==
  ASSUME Typed, stage # "idle"
  PROVE  /\ \E d \in usable : Selected = Now(d)
         /\ \A d \in usable : Now(d).fits => Selected.fits
         /\ \A d \in usable : Now(d).enabled =>
              Selected.enabled /\ Bottleneck(Selected.heads) <= Bottleneck(Now(d).heads)
BY SelectBest DEF Typed, Selected, Now

LEMMA SelectedBest ==
  ASSUME Typed, stage # "idle"
  PROVE  BestOfAll(Selected, request, usable, free, host)
<1>1. /\ request \in Requests /\ usable \in (SUBSET Secondaries) \ {{}}
      /\ free \in [Devices -> Nat]
  BY DEF Typed
<1>2. PICK s \in usable : Selected = Now(s)
  BY SelectedSound
<1>3. \A d \in usable :
        /\ Now(d) \in Plans /\ Now(d).device = d /\ BestOf(Now(d), request, free)
        /\ Now(d).enabled => Now(d).fits
  BY <1>1, NowSound
<1>4. Selected \in Plans /\ Selected.device = s /\ BestOf(Selected, request, free)
  BY <1>2, <1>3
<1>5. Selected.fits <=> \E d \in usable : Fitting(request, d, free) # {}
  <2>1. \A d \in usable : Fitting(request, d, free) # {} => Selected.fits
    BY <1>3, SelectedSound DEF BestOf
  <2> QED BY <1>4, <2>1 DEF BestOf
<1>6. ASSUME NEW d \in usable, Now(d).enabled
      PROVE  Selected.enabled /\ NoneBelow(Selected, request, d, free)
  <2>1. Selected.enabled /\ Bottleneck(Selected.heads) <= Bottleneck(Now(d).heads)
    BY <1>6, SelectedSound
  <2>2. NoneBelow(Now(d), request, d, free) /\ Now(d) \in Plans
    BY <1>3, <1>6 DEF BestOf
  <2> QED BY <1>1, <1>4, <2>1, <2>2, NoneBelowToo
<1> QED BY <1>4, <1>5, <1>6 DEF BestOfAll, BestOf, Now

-----------------------------------------------------------------------------
(* The invariant holds at first, and every step keeps it.                  *)

USE DEF readings, learned, history, call, To

LEMMA TotalTyped == Total \in [Devices -> Nat]
BY PartitionAssumption

LEMMA InitBest == Init => BestInv
<1> SUFFICES ASSUME Init PROVE BestInv
  OBVIOUS
<1>1. Typed
  BY TotalTyped DEF Init, Typed, Stages, Planned, LeaseKeys
<1>2. LeasesHold
  BY DEF Init, LeasesHold
<1> QED BY <1>1, <1>2 DEF Init, BestInv, PlanOf, NothingGiven, InactiveWithin, FreshPlan,
                          TrimmedPlan, PoolPlan, SplitIsBest, TrimRescues, AdmittedFits, Planned

\* At rest the invariant asks for no more than typed leases that hold.
LEMMA RestBest ==
  ASSUME BestInv, Rest, UNCHANGED backoff,
         leases' \in [LeaseKeys -> Plans \cup {None}], LeasesHold'
  PROVE  BestInv'
<1>1. Typed'
  BY TotalTyped DEF Rest, BestInv, Typed, Stages, Planned
<1> QED BY <1>1 DEF Rest, BestInv, PlanOf, NothingGiven, InactiveWithin, FreshPlan,
                    TrimmedPlan, PoolPlan, SplitIsBest, TrimRescues, AdmittedFits, Planned

LEMMA BeginSampleBest ==
  ASSUME BestInv, BeginSample
  PROVE  BestInv'
<1>1. Typed'
  BY DEF BestInv, BeginSample, Typed, Planned
<1>2. LeasesHold'
  BY DEF BestInv, BeginSample, LeasesHold, Typed, LeaseKeys
<1>3. NothingGiven'
  BY DEF BestInv, BeginSample, NothingGiven
<1> QED BY <1>1, <1>2, <1>3
        DEF BeginSample, BestInv, PlanOf, InactiveWithin, FreshPlan,
            TrimmedPlan, PoolPlan, SplitIsBest, TrimRescues, AdmittedFits, Planned

LEMMA BeginCallBest ==
  ASSUME BestInv, NEW c \in Requests, NEW devices \in (SUBSET Secondaries) \ {{}},
         BeginCall(c, devices)
  PROVE  BestInv'
<1>1. free' \in [Devices -> Nat] /\ free'[Primary] \in Levels[Primary]
  BY AdmissionAssumption DEF BeginCall, Memories, Devices
<1>2. inactive' \in Nat /\ inactive' \in Inactive /\ host' \in Nat
  BY AdmissionAssumption DEF BeginCall
<1>3. Typed'
  BY <1>1, <1>2 DEF BestInv, BeginCall, Typed, Stages, Planned
<1>4. InactiveWithin'
  BY <1>1, <1>2, InactiveAssumption DEF InactiveWithin
<1>5. LeasesHold' /\ NothingGiven'
  BY DEF BestInv, BeginCall, LeasesHold, NothingGiven
<1> QED BY <1>3, <1>4, <1>5
        DEF BeginCall, BestInv, PlanOf, FreshPlan,
            TrimmedPlan, PoolPlan, SplitIsBest, TrimRescues, AdmittedFits, Planned

LEMMA DisturbBest ==
  ASSUME BestInv, Disturb
  PROVE  BestInv'
<1>1. free' \in [Devices -> Nat] /\ host' \in Nat
  BY AdmissionAssumption DEF BestInv, Disturb, Typed
<1>2. Typed'
  BY <1>1 DEF BestInv, Disturb, Typed
<1>3. PlanOf' /\ LeasesHold' /\ NothingGiven'
  BY DEF BestInv, Disturb, PlanOf, TellsNeeds, LeasesHold, NothingGiven
<1> QED BY <1>2, <1>3
        DEF Disturb, BestInv, InactiveWithin, FreshPlan, TrimmedPlan, PoolPlan,
            SplitIsBest, TrimRescues, AdmittedFits

LEMMA UseLeaseBest ==
  ASSUME BestInv, UseLease
  PROVE  BestInv'
<1> USE DEF UseLease
<1>1. request \in Requests /\ LeaseKey(request) \in LeaseKeys
  BY DEF BestInv, Typed, LeaseKeys
<1>2. Lease \in Plans /\ TellsNeeds(Lease, request)
  BY <1>1 DEF BestInv, Typed, Lease, LeasesHold
<1>3. Typed'
  BY <1>2 DEF BestInv, Typed, Stages
<1>4. PlanOf' /\ LeasesHold' /\ NothingGiven'
  BY <1>2 DEF BestInv, PlanOf, TellsNeeds, LeasesHold, NothingGiven
<1>5. AdmittedFits'
  <2>1. /\ free[Primary] + inactive >= Lease.need0 + Reserve[Primary]
        /\ free[Lease.device] >= Lease.need1 + Reserve[Lease.device]
        /\ Lease.staging <= host
    BY DEF LeaseValid
  <2>2. Lease.need0 \in Int /\ Lease.need1 \in Int /\ Lease.device \in Secondaries
    BY <1>2 DEF Plans
  <2>3. Reserve[Primary] \in Int /\ Reserve[Lease.device] \in Int
    <3>1. Primary \in Devices /\ Lease.device \in Devices
      BY <2>2 DEF Devices
    <3> QED BY <3>1, ReserveTyped
  <2> QED BY <1>2, <2>1, <2>2, <2>3 DEF AdmittedFits, TellsNeeds
<1> QED BY <1>3, <1>4, <1>5
        DEF BestInv, InactiveWithin, FreshPlan, TrimmedPlan, PoolPlan, SplitIsBest, TrimRescues

LEMMA SelectAdmissionBest ==
  ASSUME BestInv, SelectAdmission
  PROVE  BestInv'
<1> USE DEF SelectAdmission
<1>1. /\ request \in Requests /\ usable \in (SUBSET Secondaries) \ {{}}
      /\ Typed /\ stage # "idle"
  BY DEF BestInv, Typed
<1>2. PICK d \in usable : Selected = Now(d)
  BY <1>1, SelectedSound
<1>3. d \in Secondaries
  BY <1>1
<1>4. /\ plan' = Now(d) /\ plan'.device = d /\ plan' \in Plans /\ TellsNeeds(plan', request)
      /\ BestOfAll(plan', request, usable, free, host)
  BY <1>1, <1>2, <1>3, NowSound, SelectedBest
<1>5. Typed'
  BY <1>1, <1>4 DEF Typed, Stages, DropLease
<1>6. LeasesHold'
  <2>1. ASSUME NEW c \in Requests, Leasable(c), leases'[LeaseKey(c)] # None
        PROVE  leases'[LeaseKey(c)] = leases[LeaseKey(c)]
    <3>1. LeaseKey(c) \in LeaseKeys /\ leases \in [LeaseKeys -> Plans \cup {None}]
      BY DEF BestInv, Typed, LeaseKeys
    <3> QED BY <2>1, <3>1 DEF DropLease
  <2> QED BY <2>1 DEF BestInv, LeasesHold
<1>7. NothingGiven' /\ InactiveWithin'
  BY DEF BestInv, NothingGiven, InactiveWithin
<1>8. PlanOf' /\ FreshPlan'
  BY <1>2, <1>4 DEF PlanOf, TellsNeeds, FreshPlan, Now
<1>9. SplitIsBest'
  BY <1>4 DEF SplitIsBest, BestOfAll, NoneBelow, Fitting
<1> QED BY <1>5, <1>6, <1>7, <1>8, <1>9
        DEF BestInv, TrimmedPlan, PoolPlan, TrimRescues, AdmittedFits

\* Undisturbed, the plan that Potential promises is the one there would be.
LEMMA PotentialIsNext ==
  ASSUME BestInv, stage = "selected", ~disturbed
  PROVE  Potential = Prepare(request, plan.device, [free EXCEPT ![Primary] = @ + inactive], host)
<1> DEFINE d == plan.device
           given == [free EXCEPT ![Primary] = Smaller(Total[Primary], @ + inactive),
                                 ![d] = plan.free1]
<1>1. plan = Now(d) /\ d \in usable /\ Typed /\ free[Primary] + inactive <= Total[Primary]
  BY DEF BestInv, FreshPlan, InactiveWithin
<1>2. d \in Secondaries
  BY <1>1 DEF Typed
<1>3. plan.free1 = free[d] /\ plan.limit = host
  BY <1>1, <1>2, NowSound
<1>4. free \in [Devices -> Nat] /\ d \in Devices /\ Primary \in Devices /\ d # Primary
  BY <1>1, <1>2, PartitionAssumption DEF Typed, Devices
<1>5. Smaller(Total[Primary], free[Primary] + inactive) = free[Primary] + inactive
  BY <1>1, <1>4, PartitionAssumption DEF Smaller, Typed
<1>6. given = [free EXCEPT ![Primary] = @ + inactive]
  BY <1>3, <1>4, <1>5
<1> QED BY <1>3, <1>6 DEF Potential

\* The cache is given back for the sake of Potential, which is kept if all of
\* it is freed.
LEMMA GiveBackTrims ==
  ASSUME BestInv, stage = "selected", GiveBack, UNCHANGED <<request, usable, plan, disturbed>>,
         Potential.enabled,
         plan.enabled => Bottleneck(plan.heads) - Bottleneck(Potential.heads) >= MinHeadGain,
         ~plan.enabled => backoff'[RecoveryKey(plan.device)] = CooldownChecks
  PROVE  TrimmedPlan'
<1> SUFFICES ASSUME ~disturbed PROVE TrimmedPlan'
  BY DEF TrimmedPlan
<1> DEFINE d == plan.device
<1>1. Typed /\ plan = Now(d) /\ d \in usable /\ d \in Secondaries
  BY DEF BestInv, FreshPlan, Typed
<1>2. plan.limit = host
  BY <1>1, NowSound
<1>3. PICK freed \in 0..inactive :
        free' = [free EXCEPT ![Primary] = @ + freed] /\ inactive' = inactive - freed
  BY DEF GiveBack
<1>4. /\ free \in [Devices -> Nat] /\ d \in Devices /\ Primary \in Devices /\ d # Primary
      /\ inactive \in Nat /\ request \in Requests /\ host \in Nat
  BY <1>1, PartitionAssumption DEF Typed, Devices
<1>5. inactive' = 0 => Now(plan.device)' = Potential
  <2> SUFFICES ASSUME inactive' = 0 PROVE Now(plan.device)' = Potential
    OBVIOUS
  <2>1. freed = inactive
    BY <1>3, <1>4
  <2> QED BY <1>3, <2>1, PotentialIsNext DEF GiveBack, Now
<1>6. ASSUME plan.enabled
      PROVE  plan'.fits /\ HoldsPlan' /\ plan'.heads \in Splits(request')
  <2>1. /\ plan.fits /\ plan.staging <= host /\ plan.heads \in Splits(request)
        /\ free[Primary] >= Target(plan) /\ free[d] >= plan.need1 + Reserve[d]
    BY <1>1, <1>6, NowSound
  <2>2. plan.need0 \in Int /\ Reserve[Primary] \in Int
    BY <1>1, HoldsTyped DEF Planned
  <2>3. free'[d] = free[d] /\ free'[Primary] >= free[Primary]
    BY <1>3, <1>4
  <2>4. free'[Primary] \in Int /\ free[Primary] \in Int
    BY <1>3, <1>4
  <2>5. HoldsPlan'
    BY <2>1, <2>2, <2>3, <2>4 DEF HoldsPlan, Target, GiveBack
  <2> QED BY <2>1, <2>5
<1>7. ASSUME plan.enabled
      PROVE  Bottleneck(Potential.heads) + MinHeadGain <= Bottleneck(plan.heads)
  <2> DEFINE given == [free EXCEPT ![Primary] = @ + inactive]
  <2>1. given \in [Devices -> Nat]
    BY <1>4
  <2>2. Potential = Prepare(request, d, given, host)
    BY PotentialIsNext
  <2> HIDE DEF given, d
  <2>3. Prepare(request, d, given, host) \in Plans
    BY <1>1, <1>4, <2>1, PrepareSound
  <2>4. Bottleneck(Potential.heads) \in Int /\ Bottleneck(plan.heads) \in Int
    BY <1>1, <2>2, <2>3, PlanTyped, HoldsTyped DEF Planned
  <2> QED BY <1>7, <2>4, AdmissionAssumption
<1>8. before' = plan' /\ plan'.device \in usable' /\ plan'.limit = host'
  BY <1>1, <1>2 DEF GiveBack
<1>9. ~plan'.enabled => (backoff[RecoveryKey(plan.device)])' = CooldownChecks
  BY DEF RecoveryKey
<1> QED BY <1>5, <1>6, <1>7, <1>8, <1>9 DEF TrimmedPlan

\* A plan that is kept is as good as when it was made.
LEMMA KeepPlanPools ==
  ASSUME BestInv, stage = "selected", KeepPlan,
         UNCHANGED <<request, usable, prepares, plan, disturbed>>
  PROVE  PoolPlan' /\ SplitIsBest' /\ TrimRescues'
<1>1. Typed /\ before = None
  BY DEF BestInv, NothingGiven
<1>2. TrimRescues'
  BY <1>1 DEF TrimRescues, KeepPlan
<1>3. SplitIsBest'
  BY DEF BestInv, SplitIsBest, KeepPlan
<1>4. ASSUME ~disturbed
      PROVE  plan.limit = host /\ (plan.enabled => plan.fits /\ HoldsPlan)
  <2>1. plan = Now(plan.device) /\ plan.device \in Secondaries
    BY <1>1, <1>4 DEF BestInv, FreshPlan, Typed
  <2> QED BY <1>1, <2>1, NowSound DEF HoldsPlan
<1>5. PoolPlan'
  BY <1>4 DEF PoolPlan, HoldsPlan, Target, KeepPlan
<1> QED BY <1>2, <1>3, <1>5

\* What the two ways to give back have in common.
LEMMA CoordinatedBest ==
  ASSUME BestInv, stage = "selected", stage' \in {"pool", "trimmed"},
         UNCHANGED <<host, leases, request, usable, leased, prepares, plan, disturbed>>,
         free' \in [Devices -> Nat], inactive' \in Nat, DOMAIN backoff' = RecoveryKeys,
         TrimmedPlan', PoolPlan', SplitIsBest', TrimRescues'
  PROVE  BestInv'
<1>1. Typed'
  BY DEF BestInv, Typed, Stages, Planned
<1>2. PlanOf' /\ LeasesHold'
  BY DEF BestInv, PlanOf, TellsNeeds, LeasesHold, Planned
<1> QED BY <1>1, <1>2 DEF BestInv, NothingGiven, InactiveWithin, FreshPlan, AdmittedFits

LEMMA GiveBackTyped ==
  ASSUME Typed, GiveBack
  PROVE  free' \in [Devices -> Nat] /\ inactive' \in Nat
<1>1. free \in [Devices -> Nat] /\ inactive \in Nat /\ Primary \in Devices
  BY DEF Typed, Devices
<1>2. PICK freed \in 0..inactive :
        free' = [free EXCEPT ![Primary] = @ + freed] /\ inactive' = inactive - freed
  BY DEF GiveBack
<1>3. free[Primary] + freed \in Nat /\ inactive - freed \in Nat
  BY <1>1, <1>2
<1> QED BY <1>1, <1>2, <1>3

LEMMA KeyTyped ==
  ASSUME Typed, stage \in Planned
  PROVE  RecoveryKey(plan.device) \in RecoveryKeys
<1>1. request \in Requests /\ plan.device \in Secondaries
  BY HoldsTyped DEF Typed, Planned
<1> QED BY <1>1 DEF RecoveryKey, RecoveryKeys

LEMMA RebalanceBest ==
  ASSUME BestInv, Rebalance
  PROVE  BestInv'
<1>1. /\ stage = "selected"
      /\ UNCHANGED <<leases, request, usable, leased, prepares, plan, disturbed>>
      /\ KeepPlan \/ (Improvable /\ plan.enabled /\ GiveBack)
  BY DEF Rebalance
<1>4. DOMAIN backoff' = RecoveryKeys
  BY DEF Rebalance, Forget, BestInv, Typed
<1>2. CASE KeepPlan
  <2>1. PoolPlan' /\ SplitIsBest' /\ TrimRescues'
    BY <1>1, <1>2, KeepPlanPools
  <2>2. TrimmedPlan' /\ UNCHANGED <<free, inactive, host>> /\ stage' = "pool"
    BY <1>2 DEF KeepPlan, TrimmedPlan
  <2>3. free' \in [Devices -> Nat] /\ inactive' \in Nat
    BY <2>2 DEF BestInv, Typed
  <2> QED BY <1>4, <1>1, <2>1, <2>2, <2>3, CoordinatedBest
<1>3. CASE Improvable /\ plan.enabled /\ GiveBack
  <2>1. TrimmedPlan'
    BY <1>1, <1>3, GiveBackTrims DEF Improvable
  <2>2. PoolPlan' /\ SplitIsBest' /\ TrimRescues' /\ host' = host /\ stage' = "trimmed"
    BY <1>3 DEF GiveBack, PoolPlan, SplitIsBest, TrimRescues
  <2>3. free' \in [Devices -> Nat] /\ inactive' \in Nat
    BY <1>3, GiveBackTyped DEF BestInv
  <2> QED BY <1>4, <1>1, <2>1, <2>2, <2>3, CoordinatedBest
<1> QED BY <1>1, <1>2, <1>3

LEMMA RecoverBest ==
  ASSUME BestInv, Recover
  PROVE  BestInv'
<1>1. /\ stage = "selected" /\ ~plan.enabled
      /\ UNCHANGED <<leases, request, usable, leased, prepares, plan, disturbed>>
  BY DEF Recover
<1>2. \/ KeepPlan
      \/ PrimaryIsShort /\ Deficit <= 0 /\ stage' = "trimmed" /\ UNCHANGED <<readings, before>>
      \/ /\ Rescuable /\ GiveBack
         /\ backoff' = [backoff EXCEPT ![RecoveryKey(plan.device)] = CooldownChecks]
  BY DEF Recover
<1>6. DOMAIN backoff' = RecoveryKeys
  BY DEF Recover, BestInv, Typed
<1>3. CASE KeepPlan
  <2>1. PoolPlan' /\ SplitIsBest' /\ TrimRescues'
    BY <1>1, <1>3, KeepPlanPools
  <2>2. TrimmedPlan' /\ UNCHANGED <<free, inactive, host>> /\ stage' = "pool"
    BY <1>3 DEF KeepPlan, TrimmedPlan
  <2>3. free' \in [Devices -> Nat] /\ inactive' \in Nat
    BY <2>2 DEF BestInv, Typed
  <2> QED BY <1>6, <1>1, <2>1, <2>2, <2>3, CoordinatedBest
<1>4. CASE PrimaryIsShort /\ Deficit <= 0 /\ stage' = "trimmed" /\ UNCHANGED <<readings, before>>
  \* Others have left memory since the plan was made.
  <2>1. disturbed
    <3> SUFFICES ASSUME ~disturbed PROVE FALSE
      OBVIOUS
    <3>1. plan = Prepare(request, plan.device, free, host) /\ plan.device \in Secondaries
      BY <1>1 DEF BestInv, FreshPlan, Typed, Now
    <3>2. request \in Requests /\ free \in [Devices -> Nat] /\ host \in Nat
      BY <1>1 DEF BestInv, Typed
    <3>3. plan.margin0 = Margin0(request, plan.heads, free) /\ plan.need0 = Need0(request, plan.heads)
      BY <3>1, <3>2, PrepareSound
    <3>4. plan.need0 \in Int /\ Reserve[Primary] \in Int /\ free[Primary] \in Int
      BY <1>1, HoldsTyped DEF BestInv, Planned
    <3>5. plan.margin0 = -Deficit
      BY <3>3, <3>4 DEF Margin0, Deficit, Target
    <3>6. plan.margin0 < 0 /\ Deficit \in Int
      BY <1>4, <3>4 DEF PrimaryIsShort, Deficit, Target
    <3> QED BY <1>4, <3>5, <3>6
  <2>2. TrimmedPlan' /\ PoolPlan' /\ SplitIsBest' /\ TrimRescues'
    BY <1>1, <1>4, <2>1 DEF TrimmedPlan, PoolPlan, SplitIsBest, TrimRescues
  <2>3. free' \in [Devices -> Nat] /\ inactive' \in Nat /\ host' = host
    BY <1>4 DEF BestInv, Typed
  <2> QED BY <1>6, <1>1, <1>4, <2>2, <2>3, CoordinatedBest
<1>5. CASE /\ Rescuable /\ GiveBack
           /\ backoff' = [backoff EXCEPT ![RecoveryKey(plan.device)] = CooldownChecks]
  <2>4. backoff'[RecoveryKey(plan.device)] = CooldownChecks
    BY <1>1, <1>5, KeyTyped DEF BestInv, Typed, Planned
  <2>1. TrimmedPlan'
    BY <1>1, <1>5, <2>4, GiveBackTrims DEF Rescuable
  <2>2. PoolPlan' /\ SplitIsBest' /\ TrimRescues' /\ host' = host /\ stage' = "trimmed"
    BY <1>5 DEF GiveBack, PoolPlan, SplitIsBest, TrimRescues
  <2>3. free' \in [Devices -> Nat] /\ inactive' \in Nat
    BY <1>5, GiveBackTyped DEF BestInv
  <2> QED BY <1>6, <1>1, <2>1, <2>2, <2>3, CoordinatedBest
<1> QED BY <1>2, <1>3, <1>4, <1>5

\* Whatever the selection after a trim finds, it has the plan for whose sake
\* the cache was given back to choose from.
LEMMA SelectAgainBest ==
  ASSUME BestInv, SelectAgain
  PROVE  BestInv'
<1> DEFINE better == Selected.enabled /\ Bottleneck(Selected.heads) < Bottleneck(plan.heads)
           keep == plan.enabled /\ ~better
<1>1. /\ stage = "trimmed" /\ stage' = "pool"
      /\ plan' = IF keep THEN plan ELSE Selected
      /\ UNCHANGED <<readings, leases, request, usable, leased, prepares, disturbed, before>>
  BY DEF SelectAgain
<1>2. /\ Typed /\ request \in Requests /\ usable \in (SUBSET Secondaries) \ {{}}
      /\ plan \in Plans /\ TellsNeeds(plan, request)
  BY <1>1 DEF BestInv, Typed, PlanOf, Planned
<1>3. PICK s \in usable : Selected = Now(s)
  BY <1>1, <1>2, SelectedSound
<1>4. /\ Selected \in Plans /\ Selected.device = s /\ TellsNeeds(Selected, request)
      /\ Selected.limit = host /\ BestOf(Selected, request, free)
      /\ Selected.enabled =>
           /\ Selected.fits /\ Selected.staging <= host
           /\ free[Primary] >= Target(Selected)
           /\ free[s] >= Selected.need1 + Reserve[s]
  BY <1>1, <1>2, <1>3, NowSound
<1>5. Bottleneck(plan.heads) \in Int /\ Bottleneck(Selected.heads) \in Int
  <2>1. plan.heads \in Int /\ Selected.heads \in Int /\ Heads \in Int
    BY <1>2, <1>4, PartitionAssumption DEF Plans
  <2> QED BY <2>1 DEF Bottleneck, Larger
<1>6. Typed' /\ PlanOf' /\ LeasesHold'
  <2>4. DOMAIN backoff' = RecoveryKeys
    BY <1>2 DEF SelectAgain, Forget, Typed
  <2>1. Typed'
    BY <1>1, <1>2, <1>4, <2>4 DEF Typed, Stages
  <2>2. PlanOf'
    BY <1>1, <1>2, <1>4 DEF PlanOf, TellsNeeds
  <2>3. LeasesHold'
    BY <1>1 DEF BestInv, LeasesHold, TellsNeeds
  <2> QED BY <2>1, <2>2, <2>3
<1>7. ASSUME ~disturbed
      PROVE  PoolPlan' /\ SplitIsBest' /\ TrimRescues'
  <2> DEFINE d == plan.device
             again == Now(d)
  <2>1. /\ before = plan /\ d \in usable /\ plan.limit = host
        /\ plan.enabled => plan.fits /\ HoldsPlan /\ plan.heads \in Splits(request)
        /\ inactive = 0 =>
             /\ again.enabled
             /\ plan.enabled => Bottleneck(again.heads) + MinHeadGain <= Bottleneck(plan.heads)
        /\ ~plan.enabled => backoff[RecoveryKey(d)] = CooldownChecks
    BY <1>1, <1>7 DEF BestInv, TrimmedPlan
  <2>2. again.enabled =>
          Selected.enabled /\ Bottleneck(Selected.heads) <= Bottleneck(again.heads)
    BY <1>1, <1>2, <2>1, SelectedSound
  <2>3. Bottleneck(again.heads) \in Int
    BY <1>1, <1>2, <2>1, NowSound, PlanTyped
  <2> HIDE DEF again
  <2>4. BestOfAll(Selected, request, usable, free, host)
    BY <1>1, <1>2, SelectedBest
  <2>5. CASE keep
    <3>1. /\ plan' = plan /\ plan.enabled
          /\ Selected.enabled => Bottleneck(plan.heads) <= Bottleneck(Selected.heads)
      BY <1>1, <1>5, <2>5
    <3>2. plan.fits /\ d \in Secondaries /\ free \in [Devices -> Nat]
      BY <1>2, <2>1, <3>1 DEF Typed
    <3>3. Fitting(request, d, free) # {}
      \* The plan fitted a memory that has only grown.
      <4>1. /\ plan.heads \in 0..Heads
            /\ {plan.heads, Heads - plan.heads} \subseteq request.minimum..Heads
        BY <1>2, <2>1, <3>1, PartitionAssumption, RequestAssumption DEF Splits
      <4>2. /\ plan.need0 = Need0(request, plan.heads) /\ plan.need1 = Need1(request, plan.heads)
            /\ {plan.need0, plan.need1, Reserve[Primary], Reserve[d], free[Primary], free[d]}
                 \subseteq Int
        BY <1>1, <1>2, HoldsTyped DEF TellsNeeds, Planned
      <4>3. plan.heads \in Fitting(request, d, free)
        BY <2>1, <3>1, <4>1, <4>2 DEF Fitting, HoldsPlan, Target
      <4> QED BY <4>3
    <3>4. ASSUME NEW e \in usable, Prepare(request, e, free, host).enabled
          PROVE  NoneBelow(plan, request, e, free)
      BY <1>2, <1>4, <2>4, <3>1, <3>2, <3>4, NoneBelowToo DEF BestOfAll
    <3>5. SplitIsBest'
      BY <1>1, <2>1, <3>1, <3>2, <3>3, <3>4 DEF SplitIsBest, NoneBelow, Fitting
    <3>6. PoolPlan'
      BY <1>1, <2>1, <3>1 DEF PoolPlan, HoldsPlan, Target
    <3>7. inactive = 0 => MinHeadGain <= 0
      BY <1>5, <2>1, <2>2, <2>3, <3>1, AdmissionAssumption
    <3>8. TrimRescues'
      BY <1>1, <1>5, <2>1, <3>1, <3>7, AdmissionAssumption DEF TrimRescues
    <3> QED BY <3>5, <3>6, <3>8
  <2>6. CASE ~keep
    <3>1. plan' = Selected /\ (plan.enabled => better)
      BY <1>1, <2>6
    <3>2. SplitIsBest'
      BY <1>1, <2>4, <3>1 DEF SplitIsBest, BestOfAll, NoneBelow, Fitting
    <3>3. PoolPlan'
      BY <1>1, <1>4, <3>1 DEF PoolPlan, HoldsPlan, Target
    <3>4. /\ inactive = 0 => Selected.enabled
          /\ inactive = 0 /\ plan.enabled =>
               Bottleneck(plan.heads) - Bottleneck(Selected.heads) >= MinHeadGain
      BY <1>5, <2>1, <2>2, <2>3, AdmissionAssumption
    <3>5. ~Selected.enabled => backoff'[RecoveryKey(d)] = CooldownChecks
      BY <2>1, <3>1 DEF SelectAgain
    <3>6. plan.enabled => Selected.enabled /\ Bottleneck(plan.heads) - Bottleneck(Selected.heads) >= 0
      BY <1>5, <3>1
    <3>7. TrimRescues'
      BY <1>1, <2>1, <3>1, <3>4, <3>5, <3>6 DEF TrimRescues, RecoveryKey
    <3> QED BY <3>2, <3>3, <3>7
  <2> QED BY <2>5, <2>6
<1>8. ASSUME disturbed
      PROVE  PoolPlan' /\ SplitIsBest' /\ TrimRescues'
  BY <1>1, <1>8 DEF PoolPlan, SplitIsBest, TrimRescues
<1> QED BY <1>1, <1>6, <1>7, <1>8
        DEF BestInv, NothingGiven, InactiveWithin, FreshPlan, TrimmedPlan, AdmittedFits

LEMMA BeginRunBest ==
  ASSUME BestInv, BeginRun
  PROVE  BestInv'
<1> USE DEF BeginRun
<1>1. Typed'
  BY DEF BestInv, Typed, Stages, Planned
<1>2. PlanOf' /\ LeasesHold'
  BY DEF BestInv, PlanOf, LeasesHold, TellsNeeds, Planned
<1>3. AdmittedFits'
  <2> SUFFICES ASSUME ~disturbed PROVE AdmittedFits'
    BY DEF AdmittedFits
  <2>1. plan.limit = host /\ HoldsPlan /\ TellsNeeds(plan, request) /\ pool.size <= host
    BY DEF BestInv, PoolPlan, PoolFits, PlanOf, Planned
  <2>2. /\ plan.need0 \in Int /\ plan.need1 \in Int
        /\ {Reserve[Primary], Reserve[plan.device], free[Primary], free[plan.device]}
             \subseteq Int
        /\ inactive \in Nat
    BY HoldsTyped DEF BestInv, Planned, Typed
  <2>3. free[Primary] + (IF leased THEN inactive ELSE 0) >= Reserve[Primary] + plan.need0
    BY <2>1, <2>2 DEF HoldsPlan, Target
  <2>4. free[plan.device] >= Reserve[plan.device] + plan.need1
    BY <2>1, <2>2 DEF HoldsPlan
  <2> QED BY <2>1, <2>3, <2>4 DEF AdmittedFits, HoldsPlan, TellsNeeds
<1> QED BY <1>1, <1>2, <1>3
        DEF BestInv, NothingGiven, InactiveWithin, FreshPlan, TrimmedPlan, PoolPlan,
            SplitIsBest, TrimRescues

LEMMA BuildPoolBest ==
  ASSUME BestInv, BuildPool
  PROVE  BestInv'
<1> USE DEF BuildPool
<1> DEFINE d == plan.device
<1>1. Typed /\ stage = "pool" /\ plan \in Plans
  BY DEF BestInv, Typed, Planned
<1>2. d \in Secondaries /\ plan' = Now(d)
  BY <1>1 DEF Plans, Now
<1>3. /\ plan' \in Plans /\ plan'.device = d /\ TellsNeeds(plan', request)
      /\ plan'.limit = host
      /\ plan'.enabled =>
           /\ plan'.fits /\ plan'.staging <= host
           /\ free[Primary] >= Target(plan')
           /\ free[d] >= plan'.need1 + Reserve[d]
  BY <1>1, <1>2, NowSound
<1> HIDE DEF d
<1>4. Typed'
  BY <1>1, <1>3 DEF Typed
<1>5. PlanOf' /\ LeasesHold'
  BY <1>3 DEF BestInv, PlanOf, LeasesHold, TellsNeeds
<1>6. prepares' # 0
  BY <1>1 DEF Typed
<1>7. PoolPlan'
  BY <1>3 DEF PoolPlan, HoldsPlan, Target
<1>8. SplitIsBest' /\ TrimRescues'
  BY <1>6 DEF SplitIsBest, TrimRescues
<1> QED BY <1>4, <1>5, <1>6, <1>7, <1>8
        DEF BestInv, NothingGiven, InactiveWithin, FreshPlan, TrimmedPlan, AdmittedFits

\* A call that ends without a new lease leaves the leases, or one less.
LEMMA DroppedHold ==
  ASSUME BestInv, stage # "idle", leases' \in {leases, DropLease}
  PROVE  leases' \in [LeaseKeys -> Plans \cup {None}] /\ LeasesHold'
<1>1. leases \in [LeaseKeys -> Plans \cup {None}] /\ LeasesHold
  BY DEF BestInv, Typed
<1>2. leases' \in [LeaseKeys -> Plans \cup {None}]
  <2> HIDE DEF Plans
  <2> QED BY <1>1 DEF DropLease
<1>3. ASSUME NEW c \in Requests, Leasable(c), leases'[LeaseKey(c)] # None
      PROVE  leases'[LeaseKey(c)] = leases[LeaseKey(c)]
  <2>1. LeaseKey(c) \in LeaseKeys
    BY DEF LeaseKeys
  <2> QED BY <1>1, <1>3, <2>1 DEF DropLease
<1>4. LeasesHold'
  BY <1>1, <1>3 DEF LeasesHold
<1> QED BY <1>2, <1>4

LEMMA ProbeFailsBest ==
  ASSUME BestInv, ProbeFails
  PROVE  BestInv'
BY DroppedHold, RestBest DEF ProbeFails, Rest

LEMMA PoolFailsBest ==
  ASSUME BestInv, PoolFails
  PROVE  BestInv'
BY DroppedHold, RestBest DEF PoolFails, Rest

LEMMA FallBackBest ==
  ASSUME BestInv, FallBack
  PROVE  BestInv'
BY DroppedHold, RestBest DEF FallBack, Rest

LEMMA LeaseOfTyped ==
  ASSUME NEW p \in Plans
  PROVE  /\ LeaseOf(p) \in Plans /\ LeaseOf(p).heads = p.heads
         /\ LeaseOf(p).need0 = p.need0 /\ LeaseOf(p).need1 = p.need1
<1> DEFINE q == [p EXCEPT !.margin0 = 0]
           r == [q EXCEPT !.margin1 = 0]
<1>1. q \in Plans /\ q.heads = p.heads /\ q.need0 = p.need0 /\ q.need1 = p.need1
  BY DEF Plans
<1>2. LeaseOf(p) = [r EXCEPT !.free1 = 0]
  BY DEF LeaseOf
<1> HIDE DEF q
<1>3. r \in Plans /\ r.heads = q.heads /\ r.need0 = q.need0 /\ r.need1 = q.need1
  BY <1>1 DEF Plans
<1> HIDE DEF r
<1>4. /\ LeaseOf(p) \in Plans /\ LeaseOf(p).heads = r.heads
      /\ LeaseOf(p).need0 = r.need0 /\ LeaseOf(p).need1 = r.need1
  BY <1>2, <1>3 DEF Plans
<1> QED BY <1>1, <1>3, <1>4

\* What a completed call leaves to the next is true of every call of its key.
LEMMA EndRunBest ==
  ASSUME BestInv, NEW outcome, EndRun(outcome)
  PROVE  BestInv'
<1>1. /\ request \in Requests /\ plan \in Plans /\ TellsNeeds(plan, request)
      /\ leases \in [LeaseKeys -> Plans \cup {None}] /\ LeasesHold
  BY DEF BestInv, Typed, PlanOf, Planned, EndRun
<1>2. Rest /\ \/ leases' \in {leases, DropLease}
              \/ /\ Leasable(request)
                 /\ leases' = [leases EXCEPT ![LeaseKey(request)] = LeaseOf(plan)]
  BY DEF EndRun
<1>8. CASE leases' \in {leases, DropLease}
  BY <1>8, <1>2, DroppedHold, RestBest DEF EndRun
<1> SUFFICES ASSUME Leasable(request),
                    leases' = [leases EXCEPT ![LeaseKey(request)] = LeaseOf(plan)]
             PROVE  BestInv'
  BY <1>8, <1>2
<1>3. /\ LeaseOf(plan) \in Plans /\ LeaseOf(plan).heads = plan.heads
      /\ LeaseOf(plan).need0 = plan.need0 /\ LeaseOf(plan).need1 = plan.need1
  BY <1>1, LeaseOfTyped
<1>4. TellsNeeds(LeaseOf(plan), request)
  BY <1>1, <1>3 DEF TellsNeeds
<1>5. leases' \in [LeaseKeys -> Plans \cup {None}]
  <2> HIDE DEF Plans
  <2> QED BY <1>1, <1>2, <1>3
<1>6. ASSUME NEW c \in Requests, Leasable(c), leases'[LeaseKey(c)] # None
      PROVE  TellsNeeds(leases'[LeaseKey(c)], c)
  <2>1. LeaseKey(c) \in LeaseKeys /\ LeaseKey(request) \in LeaseKeys
    BY <1>1 DEF LeaseKeys
  <2>2. CASE leases'[LeaseKey(c)] = leases[LeaseKey(c)]
    BY <1>1, <1>6, <2>2 DEF LeasesHold
  <2>3. CASE leases'[LeaseKey(c)] # leases[LeaseKey(c)]
    <3>1. /\ Leasable(request) /\ LeaseKey(c) = LeaseKey(request)
          /\ leases'[LeaseKey(c)] = LeaseOf(plan)
      BY <1>1, <1>2, <1>6, <2>1, <2>3
    <3>2. c = request
      <4>1. c.shape = request.shape /\ c.audio = request.audio
        BY <3>1 DEF LeaseKey
      <4> QED BY <1>1, <1>6, <3>1, <4>1, LeaseKeyAssumption DEF Leasable
    <3> QED BY <1>4, <3>1, <3>2
  <2> QED BY <2>2, <2>3
<1>7. LeasesHold'
  <2>1. \A c \in Requests : Leasable(c) /\ leases'[LeaseKey(c)] # None =>
          TellsNeeds(leases'[LeaseKey(c)], c)
    BY <1>6
  <2> QED BY <2>1 DEF LeasesHold, TellsNeeds
<1> QED BY <1>2, <1>5, <1>7, RestBest DEF EndRun

LEMMA StepBest == BestInv /\ [Next]_vars => BestInv'
<1> SUFFICES ASSUME BestInv, [Next]_vars PROVE BestInv'
  OBVIOUS
<1>1. CASE BeginSample BY <1>1, BeginSampleBest
<1>2. CASE Disturb BY <1>2, DisturbBest
<1>3. ASSUME NEW c \in Requests, NEW devices \in (SUBSET Secondaries) \ {{}},
             BeginCall(c, devices)
      PROVE  BestInv'
  BY <1>3, BeginCallBest
<1>4. CASE UseLease BY <1>4, UseLeaseBest
<1>5. CASE SelectAdmission BY <1>5, SelectAdmissionBest
<1>6. CASE Rebalance BY <1>6, RebalanceBest
<1>7. CASE Recover BY <1>7, RecoverBest
<1>8. CASE SelectAgain BY <1>8, SelectAgainBest
<1>9. CASE BeginRun BY <1>9, BeginRunBest
<1>10. CASE BuildPool BY <1>10, BuildPoolBest
<1>11. CASE FallBack BY <1>11, FallBackBest
<1>12. ASSUME NEW outcome, EndRun(outcome) PROVE BestInv'
  BY <1>12, EndRunBest
<1>14. CASE ProbeFails BY <1>14, ProbeFailsBest
<1>15. CASE PoolFails BY <1>15, PoolFailsBest
<1>13. CASE UNCHANGED vars
  BY <1>13 DEF vars, BestInv, Typed, PlanOf, TellsNeeds, LeasesHold, NothingGiven,
               InactiveWithin, FreshPlan, TrimmedPlan, PoolPlan, Now, HoldsPlan, Target, RecoveryKey,
               SplitIsBest, TrimRescues, AdmittedFits
<1> QED BY <1>1, <1>2, <1>3, <1>4, <1>5, <1>6, <1>7, <1>8, <1>9, <1>10, <1>11, <1>12, <1>13,
           <1>14, <1>15 DEF Next

-----------------------------------------------------------------------------
(* The theorems.                                                           *)

\* Type correctness of the variables the proof speaks of.
THEOREM TypeCorrect == Spec => []Typed
<1>1. BestInv => Typed
  BY DEF BestInv
<1> QED BY InitBest, StepBest, <1>1, PTL DEF Spec

\* _select_admission passes over no split of no device, whatever the sizes and
\* needs: its plan fits if any does, with the smallest bottleneck of those of its
\* device, and of every device that admits the call.
THEOREM SplitCorrect == Spec => []SplitIsBest
<1>1. BestInv => SplitIsBest
  BY DEF BestInv
<1> QED BY InitBest, StepBest, <1>1, PTL DEF Spec

\* However little a trim frees, an admitted call stays admitted and loses no
\* head of balance; if all is freed it gains what was promised, and a rejected
\* call is admitted; a call that is still rejected waits for its next trim.
THEOREM TrimCorrect == Spec => []TrimRescues
<1>1. BestInv => TrimRescues
  BY DEF BestInv
<1> QED BY InitBest, StepBest, <1>1, PTL DEF Spec

\* What a call runs with fits its needs in the memory there is, wherever the
\* plan is from: a lease, a trim, or a pool that was built anew.
THEOREM FitCorrect == Spec => []AdmittedFits
<1>1. BestInv => AdmittedFits
  BY DEF BestInv
<1> QED BY InitBest, StepBest, <1>1, PTL DEF Spec
=============================================================================
