------------------------------ MODULE Admission ------------------------------
(***************************************************************************)
(* How a dual call of exact or sparse attention comes to its split of the  *)
(* heads outside a graph (dual_attention.py): a lease on a balanced plan   *)
(* that completed before, or a plan from live readings, for whose sake the *)
(* primary's inactive allocator blocks may be given back.  Then the pinned *)
(* pool is fitted to the plan, or the plan to the pool.                    *)
(*                                                                         *)
(* One sampling thread, which holds the run lock.  Other threads and       *)
(* processes take and leave memory between calls, and of one device or the *)
(* host once within a call.  Which secondaries are usable is a choice of   *)
(* the call; why they may not be is in DualAttention, and so is what the   *)
(* run does with the plan.                                                 *)
(*                                                                         *)
(* Abstracted: the host is the amount that may be pinned now, what the     *)
(* pool has pinned included.                                               *)
(***************************************************************************)
EXTENDS HeadPartition

CONSTANTS
  Levels,          \* bound: levels of free memory, of each device
  Inactive,        \* bound: levels of inactive blocks of the primary
  Hosts,           \* bound: levels of pinnable host memory
  MinReclaimable,  \* WDDM_REBALANCE_MIN_RECLAIMABLE_MIB
  MinHeadGain,     \* WDDM_REBALANCE_MIN_HEAD_GAIN
  DriverFloor,     \* WDDM_LEASE_MIN_DRIVER_FREE_MIB
  CooldownChecks,  \* cooldown_checks of the memory policy
  None             \* Python's None

ASSUME AdmissionAssumption ==
  /\ Levels \in [Devices -> SUBSET Nat] /\ \A d \in Devices : Levels[d] # {}
  /\ Inactive \subseteq Nat /\ Hosts \subseteq Nat
  /\ {MinReclaimable, MinHeadGain, DriverFloor, CooldownChecks} \subseteq Nat

\* Inactive blocks are part of what the process has taken from the device.
ASSUME InactiveAssumption ==
  \A units \in Levels[Primary], blocks \in Inactive : units + blocks <= Total[Primary]

\* A lease key names all that the planner is told of a long exact call.
ASSUME LeaseKeyAssumption ==
  \A c, d \in {r \in Requests : r.long /\ ~r.sol} :
    c.shape = d.shape /\ c.audio = d.audio => c = d

VARIABLES
  free, inactive, host,   \* what a reading finds
  pool,       \* _pool: [chunk, weight, size]
  backoff,    \* cache_recovery_backoff
  attempted,  \* wddm_rebalance_attempted
  leases,     \* wddm_balanced_leases: the plan of each lease key
  stage,      \* where the call stands
  request,    \* the call
  usable,     \* secondaries that are neither quarantined nor out of reach
  plan,       \* the admission it has selected
  leased,     \* it is a lease
  prepares,   \* times the pool was fitted
  \* What happened in this call, for the properties: no code reads these.
  disturbed,  \* others changed the memory after it was first read
  before      \* the plan for whose sake cache was given back

readings == <<free, inactive, host>>
learned == <<backoff, attempted, leases>>
history == <<disturbed, before>>
call == <<request, usable, plan, leased, prepares>>
vars == <<readings, pool, learned, stage, call, history>>

NoPool == [chunk |-> 0, weight |-> 0, size |-> 0]
Memories == {f \in [Devices -> UNION {Levels[d] : d \in Devices}] :
               \A d \in Devices : f[d] \in Levels[d]}

\* _cache_recovery_key and _balanced_lease_key; the route is in the first only.
RecoveryKey(d) == <<d, request.shape, request.sol>>
RecoveryKeys ==
  Secondaries \X {c.shape : c \in Requests} \X {c.sol : c \in Requests}

\* Mutant: the audio rows are left out.
LeaseKeyByTokens(c) == <<c.shape>>

LeaseKey(c) == <<c.shape, c.audio>>

Leasable(c) == ~c.sol /\ c.long

To(next) == stage' = next
AnyRequest == CHOOSE c \in Requests : TRUE
Selected == Select(request, usable, free, host)

\* Nothing of a call outlives it, and readings are taken within calls only.
Rest ==
  /\ To("idle") /\ request' = AnyRequest
  /\ free' = Total /\ inactive' = 0 /\ host' = 0
  /\ usable' = {} /\ plan' = None /\ leased' = FALSE /\ prepares' = 0
  /\ disturbed' = FALSE /\ before' = None

Init ==
  /\ stage = "idle" /\ request = AnyRequest
  /\ free = Total /\ inactive = 0 /\ host = 0
  /\ usable = {} /\ plan = None /\ leased = FALSE /\ prepares = 0
  /\ disturbed = FALSE /\ before = None
  /\ pool = NoPool
  /\ backoff = [k \in RecoveryKeys |-> 0] /\ attempted = {}
  /\ leases = [k \in {LeaseKey(c) : c \in Requests} |-> None]

-----------------------------------------------------------------------------
(* Samples, calls and others.                                              *)

\* begin_sample forgets what this thread learned; end_sample drops the pool.
BeginSample ==
  /\ stage = "idle"
  /\ backoff' = [k \in RecoveryKeys |-> 0] /\ attempted' = {}
  /\ leases' = [k \in DOMAIN leases |-> None]
  /\ pool' = NoPool
  /\ UNCHANGED <<readings, stage, call, history>>

BeginCall(c, devices) ==
  /\ stage = "idle" /\ To("lease")
  /\ request' = c /\ usable' = devices
  /\ free' \in Memories /\ inactive' \in Inactive /\ host' \in Hosts
  /\ UNCHANGED <<pool, learned, plan, leased, prepares, history>>

Disturb ==
  /\ stage \in {"selected", "trimmed", "pool"} /\ ~disturbed
  /\ disturbed' = TRUE
  /\ \/ \E d \in Devices : \E units \in Levels[d] :
          free' = [free EXCEPT ![d] = units] /\ host' = host
     \/ \E units \in Hosts : host' = units /\ free' = free
  /\ UNCHANGED <<inactive, pool, learned, stage, call, before>>

-----------------------------------------------------------------------------
(* The lease.                                                              *)

\* _pool_matches_admission, with the limit the plan was made under.
PoolFits(p) ==
  /\ pool.chunk >= p.chunk /\ pool.weight >= StagedWeight(request, p.heads)
  /\ pool.size <= p.limit

\* _validated_balanced_lease, on new readings; inactive blocks count.
LeaseValid(p) ==
  /\ PoolFits(p)
  /\ free[Primary] >= DriverFloor
  /\ free[Primary] + inactive >= p.need0 + Reserve[Primary]
  /\ free[p.device] >= p.need1 + Reserve[p.device]
  /\ p.staging <= host

Lease == leases[LeaseKey(request)]
DropLease == [leases EXCEPT ![LeaseKey(request)] = None]

\* What of a plan a lease is read for later.
LeaseOf(p) == [p EXCEPT !.margin0 = 0, !.margin1 = 0, !.free1 = 0]

UseLease ==
  /\ stage = "lease" /\ Leasable(request) /\ Lease # None /\ LeaseValid(Lease)
  /\ plan' = Lease /\ leased' = TRUE
  /\ To("run")
  /\ UNCHANGED <<readings, pool, learned, request, usable, prepares, history>>

\* A lease that is not valid, or whose readings fail, is dropped; the plan is
\* made anew.
SelectAdmission ==
  /\ stage = "lease"
  /\ leases' = IF Leasable(request) THEN DropLease ELSE leases
  /\ plan' = Selected
  /\ To("selected")
  /\ UNCHANGED <<readings, pool, backoff, attempted, request, usable, leased, prepares, history>>

\* A reading fails before there is a plan to run: the call falls back.
ProbeFails ==
  /\ stage \in {"lease", "selected", "trimmed"} /\ Rest
  /\ leases' = IF stage = "lease" /\ Leasable(request) THEN DropLease ELSE leases
  /\ UNCHANGED <<pool, backoff, attempted>>

-----------------------------------------------------------------------------
(* Giving back the cache of the primary (_coordinated_admission).          *)

\* The plan there would be with all inactive blocks given back; the secondary
\* and the host are taken as the first plan found them.
Potential ==
  Prepare(request, plan.device,
          [free EXCEPT ![Primary] = Smaller(Total[Primary], @ + inactive),
                       ![plan.device] = plan.free1],
          plan.limit)

Target(p) == p.need0 + Reserve[Primary]

\* empty_cache returns whole segments only: of the inactive blocks it may free
\* any part.
GiveBack ==
  /\ \E freed \in 0..inactive :
       free' = [free EXCEPT ![Primary] = @ + freed] /\ inactive' = inactive - freed
  /\ before' = plan
  /\ To("trimmed")
  /\ UNCHANGED host

KeepPlan == UNCHANGED <<readings, before>> /\ To("pool")

\* An admitted plan that leaves the primary fewer heads, once in a sample for
\* each signature.
Improvable ==
  /\ Leasable(request) /\ plan.heads < Heads - plan.heads
  /\ RecoveryKey(plan.device) \notin attempted
  /\ inactive >= MinReclaimable
  /\ Potential.enabled
  /\ Bottleneck(plan.heads) - Bottleneck(Potential.heads) >= MinHeadGain

Forget(devices) ==
  backoff' = [k \in RecoveryKeys |->
                IF k \in {RecoveryKey(d) : d \in devices} THEN 0 ELSE backoff[k]]

\* _rebalance_admitted_exact_cache; without need of it nothing is given back.
Rebalance ==
  /\ stage = "selected" /\ plan.enabled
  /\ IF Improvable
       THEN /\ attempted' = attempted \cup {RecoveryKey(plan.device)}
            /\ IF free[Primary] >= Target(Potential) THEN KeepPlan ELSE GiveBack
       ELSE attempted' = attempted /\ KeepPlan
  /\ IF stage' = "pool" THEN Forget({plan.device}) ELSE backoff' = backoff
  /\ UNCHANGED <<pool, leases, request, usable, leased, prepares, disturbed, plan>>

\* The nearest split fits the secondary.
PrimaryIsShort == ~plan.fits /\ plan.margin0 < 0 /\ plan.margin1 >= 0
Deficit == Target(plan) - free[Primary]

\* Mutant: whether the host could stage the plan is not asked.
RescuableByBytes == inactive >= Deficit

Rescuable == inactive >= Deficit /\ Potential.enabled

\* _recover_primary_admission_cache: not again before CooldownChecks calls that
\* it would have rescued; and without need where others have left memory.
Recover ==
  /\ stage = "selected" /\ ~plan.enabled
  /\ \/ ~(PrimaryIsShort /\ (Deficit <= 0 \/ Rescuable)) /\ KeepPlan /\ UNCHANGED backoff
     \/ /\ PrimaryIsShort /\ Deficit <= 0
        /\ To("trimmed")
        /\ UNCHANGED <<readings, before, backoff>>
     \/ /\ PrimaryIsShort /\ Deficit > 0 /\ Rescuable
        /\ LET left == backoff[RecoveryKey(plan.device)]
               counts(n) == backoff' = [backoff EXCEPT ![RecoveryKey(plan.device)] = n]
           IN  \/ left > 0 /\ counts(left - 1) /\ KeepPlan
               \/ left = 0 /\ counts(CooldownChecks) /\ GiveBack
  /\ UNCHANGED <<pool, attempted, leases, request, usable, leased, prepares, disturbed, plan>>

\* The plan from new readings; an admitted one stays unless that is better.
SelectAgain ==
  /\ stage = "trimmed" /\ To("pool")
  /\ LET better == Selected.enabled /\ Bottleneck(Selected.heads) < Bottleneck(plan.heads)
     IN  plan' = IF plan.enabled /\ ~better THEN plan ELSE Selected
  /\ IF ~plan'.enabled THEN UNCHANGED backoff
     ELSE Forget(IF plan.enabled THEN {plan'.device} ELSE {plan.device, plan'.device})
  /\ UNCHANGED <<readings, pool, attempted, leases, request, usable, leased, prepares, history>>

-----------------------------------------------------------------------------
(* The pool, and the run.                                                  *)

BeginRun ==
  /\ stage = "pool" /\ plan.enabled /\ PoolFits(plan)
  /\ To("run")
  /\ UNCHANGED <<readings, pool, learned, call, history>>

PoolFor(p) ==
  [chunk |-> p.chunk, weight |-> StagedWeight(request, p.heads), size |-> p.staging]

\* _ensure_pool, and a plan from live readings; twice at most.
BuildPool ==
  /\ stage = "pool" /\ plan.enabled /\ ~PoolFits(plan) /\ prepares < 2
  /\ pool' = PoolFor(plan)
  /\ plan' = Prepare(request, plan.device, free, host)
  /\ prepares' = prepares + 1
  /\ UNCHANGED <<readings, learned, stage, request, usable, leased, history>>

\* The old pool is gone, and the new one or the readings after it fail.
PoolFails ==
  /\ stage = "pool" /\ plan.enabled /\ ~PoolFits(plan) /\ prepares < 2
  /\ pool' \in {NoPool, PoolFor(plan)}
  /\ leases' = DropLease
  /\ Rest
  /\ UNCHANGED <<backoff, attempted>>

\* The plan was rejected, or the pool cannot be fitted to it.
FallBack ==
  /\ stage = "pool" /\ (~plan.enabled \/ (~PoolFits(plan) /\ prepares = 2))
  /\ leases' = DropLease
  /\ Rest
  /\ UNCHANGED <<pool, backoff, attempted>>

\* A balanced exact plan that completed is leased.  A failure drops the lease
\* of the key, a sparse call's that of the exact one too; an interruption does
\* not get there.
EndRun(outcome) ==
  /\ stage = "run" /\ Rest
  /\ \/ outcome = "completed"
        /\ leases' = IF Leasable(request) /\ 2 * plan.heads = Heads
                       THEN [leases EXCEPT ![LeaseKey(request)] = LeaseOf(plan)] ELSE leases
     \/ outcome = "failed" /\ leases' = DropLease
     \/ outcome = "interrupted" /\ leases' = leases
  /\ UNCHANGED <<pool, backoff, attempted>>

Next ==
  \/ BeginSample \/ Disturb
  \/ \E c \in Requests, devices \in (SUBSET Secondaries) \ {{}} : BeginCall(c, devices)
  \/ UseLease \/ SelectAdmission \/ ProbeFails
  \/ Rebalance \/ Recover \/ SelectAgain
  \/ BeginRun \/ BuildPool \/ PoolFails \/ FallBack
  \/ \E outcome \in {"completed", "failed", "interrupted"} : EndRun(outcome)

Spec == Init /\ [][Next]_vars

-----------------------------------------------------------------------------
(* Properties.                                                             *)

\* A plan made from the memory there is, of the devices it could be of: the
\* boundaries and the order of _best_partition and the ranking of
\* _select_admission, against a definition that knows neither.
\*  - It fits if any split of any usable device does.
\*  - No split that fits its own device has a smaller bottleneck, but for a plan
\*    kept through a trim: of what was freed a smaller bottleneck could come that
\*    the host cannot stage.
\*  - If some device admits the call, the call is admitted, with a bottleneck no
\*    split of that device is below.  A device whose best split the host cannot
\*    stage does not admit it, even if a worse one could be staged.
SplitIsBest ==
  stage \in {"selected", "pool"} /\ prepares = 0 /\ ~disturbed =>
    LET fitting(d) == {p \in 0..Heads :
                         /\ {p, Heads - p} \subseteq request.minimum..Heads
                         /\ free[Primary] >= Reserve[Primary] + Need0(request, p)
                         /\ free[d] >= Reserve[d] + Need1(request, p)}
        noneBelow(d) == \A p \in fitting(d) : Bottleneck(plan.heads) <= Bottleneck(p)
    IN  /\ plan.fits <=> \E d \in usable : fitting(d) # {}
        /\ plan.fits /\ plan # before => noneBelow(plan.device)
        /\ \A d \in usable :
             Prepare(request, d, free, host).enabled => plan.enabled /\ noneBelow(d)

\* Cache is given back on a promise, for the freed bytes are a hint only: unless
\* others took the memory,
\*  - a call that was admitted stays so, and loses no head of balance;
\*  - if all of it was freed the call is admitted, and one that was before gains
\*    at least MinHeadGain heads ("only to rescue a rejected dual plan");
\*  - if the call is still rejected, the next CooldownChecks calls of its
\*    signature do without.
TrimRescues ==
  stage = "pool" /\ before # None /\ prepares = 0 /\ ~disturbed =>
    LET gain == Bottleneck(before.heads) - Bottleneck(plan.heads)
    IN  /\ before.enabled => plan.enabled /\ gain >= 0
        /\ inactive = 0 => plan.enabled /\ (before.enabled => gain >= MinHeadGain)
        /\ ~plan.enabled => backoff[RecoveryKey(before.device)] = CooldownChecks

\* Whatever a call runs with - a lease of an earlier call, a plan kept through
\* a trim, one made again for the pool - fits what this call needs in the
\* memory there is, the inactive blocks counted for a lease only.  A lease asks
\* of the pool that it was within the limit of the plan, not within today's:
\* only what the call itself stages may surely be pinned.
AdmittedFits ==
  stage = "run" /\ ~disturbed =>
    /\ free[Primary] + (IF leased THEN inactive ELSE 0)
         >= Reserve[Primary] + Need0(request, plan.heads)
    /\ free[plan.device] >= Reserve[plan.device] + Need1(request, plan.heads)
    /\ plan.staging <= host
    /\ ~leased => pool.size <= host
=============================================================================
