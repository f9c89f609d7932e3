----------------------------- MODULE WeightCast -----------------------------
(***************************************************************************)
(* What a projection of the H3 model stands on: the memory of the device   *)
(* with the one policy that reclaims it (runtime_memory.py), the pages     *)
(* ComfyUI's DynamicVRAM allocator (VBAR) keeps weights in, and casts of a *)
(* weight that may die half way (cast_failure_cleanup.py).                 *)
(*                                                                         *)
(* ComfyUI is not under src/: a cast faults the page in, which pins it,    *)
(* notes the page's signature with the weight, publishes _prefetch, and    *)
(* only then copies and merges the data.  Whoever finds the signature      *)
(* unchanged later takes the page as it is.  A page is evicted only while  *)
(* it is not pinned.                                                       *)
(*                                                                         *)
(* Abstracted: memory is counted in units, a weight has one page; inactive *)
(* blocks of split segments, which empty_cache keeps, count as in use.     *)
(***************************************************************************)
EXTENDS Integers, FiniteSets

CONSTANTS
  Weights,         \* projection weights of the model
  Memory,          \* units of the device that pages and tensors share
  PageSize,        \* units of a weight's page
  SoftFloor,       \* what a check without a demand wants to be free
  HardFloor,       \* below it the cooldown is ignored
  MinimumTrim,     \* minimum_reclaimable_mib of such a check
  CooldownChecks   \* cooldown_checks of the policy

ASSUME WeightAssumption ==
  /\ IsFiniteSet(Weights)
  /\ Memory \in Nat /\ PageSize \in Nat \ {0}
  /\ SoftFloor \in Nat /\ HardFloor \in Nat /\ MinimumTrim \in Nat /\ CooldownChecks \in Nat

VARIABLES
  free,      \* units the driver reports
  cache,     \* inactive blocks of the allocator that empty_cache returns
  cooldown,  \* cooldown_remaining of the options the MLP was patched with
  data,      \* of each page: "absent", "partial" or "complete"
  current,   \* weights whose _v_signature is the one of their page
  pinned,    \* weights whose page is pinned
  prefetch   \* _prefetch of each weight: NoCast or what its cast found

memory == <<free, cache, cooldown>>
pages == <<data, current, pinned, prefetch>>

NoCast == [paged |-> FALSE, resident |-> FALSE, open |-> FALSE]
Cast(paged, resident) == [paged |-> paged, resident |-> resident, open |-> TRUE]
Open(w) == prefetch[w].open

LargerOf(a, b) == IF a > b THEN a ELSE b
SmallerOf(a, b) == IF a < b THEN a ELSE b

Loaded == {w \in Weights : data[w] # "absent"}
Evictable == Loaded \ pinned

WeightInit ==
  /\ free = Memory /\ cache = 0 /\ cooldown = 0
  /\ data = [w \in Weights |-> "absent"] /\ current = {} /\ pinned = {}
  /\ prefetch = [w \in Weights |-> NoCast]

-----------------------------------------------------------------------------
(* request_cuda_headroom.                                                  *)

\* A page that goes takes its signature with it.
Evict(gone) ==
  /\ data' = [w \in Weights |-> IF w \in gone THEN "absent" ELSE data[w]]
  /\ current' = current \ gone
  /\ UNCHANGED <<pinned, prefetch>>

\* free_memory of the VBAR: whole pages, as many as the request takes.
Evictions(units) ==
  {gone \in SUBSET Evictable :
     Cardinality(gone) =
       SmallerOf(Cardinality(Evictable), (units + PageSize - 1) \div PageSize)}

Enough(target) == free >= target /\ UNCHANGED <<free, cache, pages>>

TooLittleCached(target, minimum, mayEvict) ==
  /\ free < target /\ cache < minimum /\ ~mayEvict
  /\ UNCHANGED <<free, cache, pages>>

\* reclaimable_bytes counts the blocks of split segments as well.
Reclaim(target, minimum, mayEvict) ==
  \E split \in {0, minimum} :
  LET trims == cache + split > 0 /\ cache + split >= minimum
      trimmed == IF trims THEN free + cache ELSE free
      missing == IF mayEvict THEN LargerOf(0, target - trimmed) ELSE 0
  IN /\ free < target /\ (cache + split >= minimum \/ mayEvict)
     /\ \E gone \in Evictions(missing) :
          /\ free' = trimmed + PageSize * Cardinality(gone)
          /\ cache' = IF trims THEN 0 ELSE cache
          /\ Evict(gone)

\* A caller with a demand is served whatever the cooldown says, and what it
\* makes of the cooldown of its own options nobody asks.
RequestCudaHeadroom(target, minimum, mayEvict) ==
  /\ \/ Enough(target)
     \/ TooLittleCached(target, minimum, mayEvict)
     \/ Reclaim(target, minimum, mayEvict)
  /\ UNCHANGED cooldown

CoolsDown == free >= HardFloor /\ cooldown > 0

\* The soft floor before an MLP call: no demand, no eviction.  Its options are
\* those the MLP was patched with, so that no sample resets its cooldown.
CheckFloor ==
  \/ Enough(SoftFloor) /\ cooldown' = LargerOf(0, cooldown - 1)
  \/ TooLittleCached(SoftFloor, MinimumTrim, FALSE) /\ UNCHANGED cooldown
  \/ /\ free < SoftFloor /\ CoolsDown
     /\ cooldown' = cooldown - 1
     /\ UNCHANGED <<free, cache, pages>>
  \/ /\ ~CoolsDown /\ Reclaim(SoftFloor, MinimumTrim, FALSE)
     /\ cooldown' \in (IF cache' # cache THEN {CooldownChecks} ELSE {cooldown, CooldownChecks})

\* Tensors come from inactive blocks or from the driver.
Allocate(units) ==
  /\ free + cache >= units
  /\ \E fromCache \in 0..SmallerOf(units, cache) :
       /\ units - fromCache <= free
       /\ cache' = cache - fromCache /\ free' = free - (units - fromCache)
  /\ UNCHANGED cooldown

\* Inactive blocks may be too small or too scattered to be of use.
OutOfMemory(units) == free < units

-----------------------------------------------------------------------------
(* A cast.                                                                 *)

\* vbar_fault and the start of the cast: without room there is no page.
Fault(w) ==
  /\ ~Open(w)
  /\ \/ /\ w \in Loaded
        /\ prefetch' = [prefetch EXCEPT ![w] = Cast(TRUE, w \in current)]
        /\ data' = IF w \in current THEN data ELSE [data EXCEPT ![w] = "partial"]
        /\ current' = current \cup {w} /\ pinned' = pinned \cup {w}
        /\ UNCHANGED free
     \/ /\ w \notin Loaded /\ free >= PageSize
        /\ free' = free - PageSize
        /\ prefetch' = [prefetch EXCEPT ![w] = Cast(TRUE, FALSE)]
        /\ data' = [data EXCEPT ![w] = "partial"]
        /\ current' = current \cup {w} /\ pinned' = pinned \cup {w}
     \/ /\ w \notin Loaded /\ free < PageSize
        /\ prefetch' = [prefetch EXCEPT ![w] = Cast(FALSE, FALSE)]
        /\ UNCHANGED <<free, data, current, pinned>>
  /\ UNCHANGED <<cache, cooldown>>

\* The copy and, under strict_lora_merges, the whole merge.
Fill(w) ==
  /\ Open(w)
  /\ data' = IF prefetch[w].paged /\ ~prefetch[w].resident
               THEN [data EXCEPT ![w] = "complete"] ELSE data
  /\ UNCHANGED <<current, pinned, prefetch>>

\* uncast_bias_weight: the page is unpinned and stays.
Uncast(w) ==
  /\ prefetch' = [prefetch EXCEPT ![w] = NoCast]
  /\ pinned' = pinned \ {w}
  /\ UNCHANGED <<data, current>>

\* Mutant: the signature of a page that was never filled is left in place.
AbandonKeepsSignature(w) == Uncast(w)

\* Mutant: only a cast that found its page resident is undone.
AbandonResidentOnly(w) ==
  IF prefetch[w].resident THEN Uncast(w)
  ELSE current' = current \ {w} /\ UNCHANGED <<data, pinned, prefetch>>

\* owned_casts on the way out of a failed call.
Abandon(w) ==
  /\ prefetch' = [prefetch EXCEPT ![w] = NoCast]
  /\ pinned' = pinned \ {w}
  /\ current' = IF Open(w) /\ ~prefetch[w].resident THEN current \ {w} ELSE current
  /\ UNCHANGED data
=============================================================================
