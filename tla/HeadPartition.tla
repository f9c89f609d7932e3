---------------------------- MODULE HeadPartition ----------------------------
(***************************************************************************)
(* The split of the attention heads between two devices, and the staging   *)
(* of it through pinned host memory: _best_partition, plan_host_staging    *)
(* and DualAdaptiveAdmission.prepare for a call of attention.              *)
(*                                                                         *)
(* Abstracted: bytes are counted in units; what a call needs is linear in  *)
(* the heads, with the constants of a request.  The planner of the MLP     *)
(* channels is never asked for by this program and is left out, and so are *)
(* a split fixed by the caller and the floor of tokens below which nothing *)
(* is planned.                                                             *)
(***************************************************************************)
EXTENDS Integers, Sequences, FiniteSets

CONSTANTS
  Primary,      \* CUDA index of the first device
  Secondaries,  \* CUDA indices of the devices that may be the second
  Total,        \* units of each device
  Reserve,      \* _reserve of each device
  Common,       \* a multiple of every total, so that shares are integers
  Heads,        \* attention heads
  Requests,     \* calls of attention: see RequestAssumption
  Chunks        \* sizes of a staged input, the preferred one first

Devices == Secondaries \cup {Primary}

ASSUME PartitionAssumption ==
  /\ Primary \in Nat /\ Secondaries \subseteq Nat \ {Primary} /\ IsFiniteSet(Secondaries)
  /\ Total \in [Devices -> Nat \ {0}] /\ Reserve \in [Devices -> Nat]
  /\ Common \in Nat /\ \A d \in Devices : Common % Total[d] = 0
  /\ Heads \in Nat /\ Chunks \in Seq(Nat \ {0})

ASSUME RequestAssumption ==
  \A c \in Requests :
    /\ c.minimum \in 1..(Heads \div 2)           \* heads for each device
    /\ {c.fixed0, c.fixed1, c.unit} \subseteq Nat
    /\ {c.prepare, c.prepareUnit} \subseteq Nat  \* the phase before, on the primary
    /\ {c.staged, c.stagedUnit} \subseteq Nat    \* of pinned memory

Larger(a, b) == IF a > b THEN a ELSE b
Smaller(a, b) == IF a < b THEN a ELSE b
Short(margin) == Larger(0, -margin)
Share(units, d) == units * (Common \div Total[d])

\* Tuples are compared as Python does.
Before(a, b) ==
  \E i \in DOMAIN a : a[i] < b[i] /\ \A j \in 1..(i - 1) : a[j] = b[j]
Least(S, Rank(_)) == CHOOSE x \in S : \A y \in S \ {x} : ~Before(Rank(y), Rank(x))

-----------------------------------------------------------------------------
(* The split.                                                              *)

Need0(c, p) == Larger(c.fixed0 + p * c.unit, c.prepare + p * c.prepareUnit)
Need1(c, p) == c.fixed1 + (Heads - p) * c.unit

Bottleneck(p) == Larger(p, Heads - p)

Splits(c) == c.minimum..(Heads - c.minimum)

Margin0(c, p, free) == free[Primary] - Reserve[Primary] - Need0(c, p)
Margin1(c, p, d, free) == free[d] - Reserve[d] - Need1(c, p)
Fits(c, p, d, free) == Margin0(c, p, free) >= 0 /\ Margin1(c, p, d, free) >= 0

\* The smallest bottleneck, then the largest margin; where nothing fits, the
\* split that comes nearest.
Partition(c, d, free) ==
  LET m0(p) == Margin0(c, p, free)
      m1(p) == Margin1(c, p, d, free)
      imbalance(p) == Bottleneck(p) - (Heads - Bottleneck(p))
      fitting == {p \in Splits(c) : Fits(c, p, d, free)}
      best(p) == <<Bottleneck(p), imbalance(p),
                   -Smaller(Share(m0(p), Primary), Share(m1(p), d)), -m0(p) - m1(p), p>>
      nearest(p) == <<Share(Short(m0(p)), Primary) + Share(Short(m1(p)), d),
                      Larger(Short(m0(p)), Short(m1(p))), Bottleneck(p), imbalance(p), p>>
  IN  IF fitting # {} THEN Least(fitting, best) ELSE Least(Splits(c), nearest)

-----------------------------------------------------------------------------
(* Staging, and the admission of a call.                                   *)

\* A sparse call stages the projection of all heads, an exact one its shard.
StagedWeight(c, p) == (IF c.sol THEN Heads ELSE Heads - p) * c.stagedUnit
Staging(c, p, chunk) == chunk * c.staged + StagedWeight(c, p)

\* The first chunk whose staging may be pinned, 0 if there is none.
StagedChunk(c, p, limit) ==
  LET fitting == {i \in DOMAIN Chunks : Staging(c, p, Chunks[i]) <= limit}
  IN  IF fitting = {} THEN 0
      ELSE Chunks[CHOOSE i \in fitting : \A j \in fitting : i <= j]

\* prepare: one reading of both devices and of the host.
Prepare(c, d, free, limit) ==
  LET p == Partition(c, d, free)
      fits == Fits(c, p, d, free)
      chunk == IF fits THEN StagedChunk(c, p, limit) ELSE 0
  IN  [enabled |-> chunk # 0, fits |-> fits, device |-> d, heads |-> p, chunk |-> chunk,
       need0 |-> Need0(c, p), need1 |-> Need1(c, p),
       staging |-> IF chunk = 0 THEN 0 ELSE Staging(c, p, chunk),
       margin0 |-> Margin0(c, p, free), margin1 |-> Margin1(c, p, d, free),
       free1 |-> free[d], limit |-> limit]

\* Mutant: the first device that admits the call is taken, whatever its split.
SelectFirst(c, usable, free, limit) ==
  LET rank(plan) ==
        <<IF plan.enabled THEN 0 ELSE 1, Short(plan.margin0) + Short(plan.margin1),
          plan.device>>
  IN  Least({Prepare(c, d, free, limit) : d \in usable}, rank)

\* _select_admission: the best of the complete plans.
Select(c, usable, free, limit) ==
  LET rank(plan) ==
        <<IF plan.enabled THEN 0 ELSE 1, Short(plan.margin0) + Short(plan.margin1),
          Bottleneck(plan.heads),
          -Smaller(Share(plan.margin0, Primary), Share(plan.margin1, plan.device)),
          plan.device>>
  IN  Least({Prepare(c, d, free, limit) : d \in usable}, rank)
=============================================================================
