----------------------------- MODULE EasyCache -----------------------------
(***************************************************************************)
(* h3_easycache.py: the output cache that may answer a diffusion call with *)
(* a stored difference instead of running the model.  The environment is   *)
(* ComfyUI's sampler: it visits the sigmas of a schedule, some samplers a  *)
(* sigma between two of them or the same one twice, and at each evaluation *)
(* makes one diffusion call per batch of conditions (uuids).               *)
(*                                                                         *)
(* Abstracted: a tensor is the number of the sigma it was computed at;     *)
(* the three drift gates are one, the rates of change are known or not;    *)
(* a cache entry has size one, and percentages are exact.  The latents are *)
(* a video/audio pair throughout a sample: others never reach the state.   *)
(***************************************************************************)
EXTENDS Integers, Sequences, FiniteSets

CONSTANTS
  Uuids,       \* conditions of the sample
  Optional,    \* conditions with a timestep range: absent from some steps
  CallShapes,  \* batches of conditions a diffusion call may carry
  Configs,     \* what a sample may be run with: the profile, the length of the
               \* schedule (0 without usable boundaries), the window in percent,
               \* the memory limit in cache entries and the batches that occur
  Transient,   \* what the update of one entry needs beside it
  OffGrid,     \* bound: sigmas visited that the schedule does not list
  MaxPasses    \* bound: evaluations at one sigma

ASSUME EasyAssumption ==
  /\ IsFiniteSet(Uuids) /\ "none" \notin Uuids
  /\ Optional \subseteq Uuids
  /\ CallShapes \subseteq Seq(Uuids) \ {<< >>}
  /\ Configs \subseteq [profile: {"quality", "speed", "manual"}, steps: Nat,
                        window: {w \in (0..100) \X (0..100) : w[1] < w[2]}, limit: Nat,
                        calls: SUBSET CallShapes]
  /\ Transient \in Nat
  /\ OffGrid \in Nat /\ MaxPasses \in Nat \ {0}

VARIABLES
  config,     \* of the sample: profile, schedule length, window, memory limit
  visit,      \* sigmas visited so far
  position,   \* ordinal of the last scheduled one, -1 before the first
  between,    \* the current sigma is not of the schedule
  pass,       \* evaluation at this sigma
  active,     \* conditions whose timestep range holds this sigma
  asked,      \* conditions this evaluation has covered
  stage,      \* where the diffusion call stands
  call,       \* its uuids
  runs,       \* model executions of this call
  served,     \* what it returned
  caches,     \* state.caches: the sigma an entry was computed at, 0 for none
  first,      \* state.first_uuid, whose drift decides for a step
  history,    \* sigma of the previous_* tensors, 0 for None
  rates,      \* video_rate and audio_rate are known
  drift,      \* cumulative_*: None, below every threshold, or not
  key,        \* current_sigma_key
  decision,   \* current_step_decision
  candidate,  \* current_step_had_candidate
  force,      \* force_refresh_next
  hits,       \* consecutive_hit_steps
  steps,      \* step_count, 0 for None
  disabled    \* disabled_reason: none, a lack of resources, something unsupported

sampler == <<visit, position, between, pass, active, asked>>
predictor == <<caches, history, rates, drift>>
policy == <<first, key, decision, candidate, force, hits, steps>>
answer == <<runs, served>>
vars == <<config, sampler, stage, call, answer, predictor, policy, disabled>>

Members(c) == {c[i] : i \in DOMAIN c}
NoUuid == "none"
Larger(a, b) == IF a > b THEN a ELSE b
Smaller(a, b) == IF a < b THEN a ELSE b

-----------------------------------------------------------------------------
(* _configure_step_policy and _resolve_step_window.                        *)

MaxHits ==
  IF config.profile = "speed" /\ config.steps >= 30 THEN 3
  ELSE IF config.profile = "speed" /\ config.steps >= 13 THEN 2
  ELSE 1

LastOrdinal == config.steps - 1
Nearest(percent) == (2 * percent * LastOrdinal + 100) \div 200

\* Mutant: the start is rounded outward.
WindowStartOutward ==
  Larger(1, IF config.profile = "speed" THEN Nearest(config.window[1])
            ELSE (config.window[1] * LastOrdinal) \div 100)

WindowStart ==
  Larger(1, IF config.profile = "speed" THEN Nearest(config.window[1])
            ELSE (config.window[1] * LastOrdinal + 99) \div 100)

WindowEnd ==
  Smaller(config.steps - 2,
          IF config.profile = "speed" THEN Nearest(config.window[2])
          ELSE (config.window[2] * LastOrdinal) \div 100)

\* The ordinal of the current sigma, if the schedule lists it.
Scheduled == steps # 0 /\ ~between
InsideWindow == Scheduled /\ steps >= 3 /\ position \in WindowStart..WindowEnd
AtLastStep == Scheduled /\ position = steps - 1

CanApply == \A u \in Members(call) : caches[u] # 0
IsLead == first \in Members(call)

-----------------------------------------------------------------------------
ClearedPredictor ==
  /\ caches' = [u \in Uuids |-> 0] /\ history' = 0
  /\ rates' = FALSE /\ drift' = "none"

ClearRuntime ==
  /\ ClearedPredictor
  /\ first' = NoUuid /\ key' = 0
  /\ decision' = "none" /\ candidate' = FALSE
  /\ force' = FALSE /\ hits' = 0
  /\ steps' = 0 /\ disabled' = "no"

DisableCache ==
  /\ ClearedPredictor
  /\ disabled' = "resources"
  /\ decision' = "refresh" /\ force' = TRUE
  /\ UNCHANGED <<first, key, candidate, hits, steps>>

NoConfig == [profile |-> "quality", steps |-> 0, window |-> <<0, 100>>, limit |-> 0,
             calls |-> {}]

Init ==
  /\ config = NoConfig
  /\ visit = 0 /\ position = -1 /\ between = FALSE /\ pass = 1
  /\ active = {} /\ asked = {}
  /\ stage = "outside" /\ call = << >> /\ runs = 0 /\ served = "none"
  /\ caches = [u \in Uuids |-> 0] /\ history = 0 /\ rates = FALSE /\ drift = "none"
  /\ first = NoUuid /\ key = 0 /\ decision = "none" /\ candidate = FALSE
  /\ force = FALSE /\ hits = 0 /\ steps = 0
  /\ disabled = "no"

-----------------------------------------------------------------------------
(* The sampler.                                                            *)

\* The outer sample wrapper clones the configured state and prepares it.
BeginSample ==
  /\ stage = "outside"
  /\ config' \in Configs /\ steps' = config'.steps
  /\ stage' = "sampling"
  /\ UNCHANGED <<sampler, call, answer, predictor, first, key, decision, candidate, force, hits,
                 disabled>>

Conditions == UNION {Members(c) : c \in config.calls}
Evaluated == active \subseteq asked
OffGridVisits == visit - (position + 1)

NextSigma ==
  /\ stage = "sampling" /\ Evaluated
  /\ visit' = visit + 1
  /\ \/ /\ position + 1 < config.steps
        /\ position' = position + 1 /\ between' = FALSE
     \/ /\ OffGridVisits < OffGrid /\ (config.steps = 0 \/ position \in 0..(config.steps - 2))
        /\ between' = TRUE /\ UNCHANGED position
  /\ active' \in {a \in SUBSET Conditions : Conditions \ Optional \subseteq a}
  /\ pass' = 1 /\ asked' = {}
  /\ UNCHANGED <<config, stage, call, answer, predictor, policy, disabled>>

EvaluateAgain ==
  /\ stage = "sampling" /\ Evaluated /\ visit # 0 /\ pass < MaxPasses
  /\ pass' = pass + 1 /\ asked' = {}
  /\ UNCHANGED <<config, visit, position, between, active, stage, call, answer, predictor,
                 policy, disabled>>

\* The outer sample wrapper's finally.
EndSample ==
  /\ \/ stage = "raised"
     \/ stage = "sampling" /\ Evaluated /\ position = config.steps - 1
  /\ ClearRuntime
  /\ stage' = "outside"
  /\ config' = NoConfig
  /\ visit' = 0 /\ position' = -1 /\ between' = FALSE /\ pass' = 1
  /\ active' = {} /\ asked' = {}
  /\ call' = << >> /\ runs' = 0 /\ served' = "none"

-----------------------------------------------------------------------------
(* One diffusion call.                                                     *)

\* The sampler calls; a disabled cache lets the model answer.
BeginCall(c) ==
  /\ stage = "sampling" /\ visit # 0
  /\ c \in config.calls /\ Members(c) \subseteq active \ asked
  /\ call' = c /\ asked' = asked \cup Members(c)
  /\ runs' = 0 /\ served' = "none"
  /\ stage' = IF disabled # "no" THEN "uncached" ELSE "entered"
  /\ UNCHANGED <<config, visit, position, between, pass, active, predictor, policy,
                 disabled>>

\* A foreign cache or block patch, or no uuids: what is held stays held.
Bypass ==
  /\ stage = "entered"
  /\ disabled' = "unsupported"
  /\ stage' = "uncached"
  /\ UNCHANGED <<config, sampler, call, answer, predictor, policy>>

\* Mutant: a step that reached the limit does not force the next refresh.
EnterSigmaForgets ==
  /\ stage = "entered"
  /\ first' = IF first = NoUuid THEN call[1] ELSE first
  /\ key' = visit
  /\ IF visit = key THEN UNCHANGED <<decision, candidate, force>>
     ELSE /\ force' = IF candidate THEN hits > MaxHits ELSE force
          /\ decision' = "none" /\ candidate' = FALSE
  /\ stage' = IF AtLastStep THEN "ending" ELSE "gate"
  /\ UNCHANGED <<config, sampler, call, answer, predictor, hits, steps, disabled>>

\* _begin_sigma: the first call at a sigma closes the step before it.
EnterSigma ==
  /\ stage = "entered"
  /\ first' = IF first = NoUuid THEN call[1] ELSE first
  /\ key' = visit
  /\ IF visit = key THEN UNCHANGED <<decision, candidate, force>>
     ELSE /\ force' = IF candidate THEN hits >= MaxHits ELSE force
          /\ decision' = "none" /\ candidate' = FALSE
  /\ stage' = IF AtLastStep THEN "ending" ELSE "gate"
  /\ UNCHANGED <<config, sampler, call, answer, predictor, hits, steps, disabled>>

\* The last step drops what it will not need and runs the model.
LastStep ==
  /\ stage = "ending"
  /\ ClearedPredictor
  /\ decision' = "refresh"
  /\ stage' = "last"
  /\ UNCHANGED <<config, sampler, call, answer, first, key, candidate, force, hits, steps, disabled>>

\* Drift since the last exact lead output only ever grows.
DriftAfter ==
  IF ~(IsLead /\ history # 0 /\ rates) THEN {drift}
  ELSE IF drift = "above" THEN {"above"} ELSE {"below", "above"}

LeadMayPredict == IsLead /\ ~force /\ InsideWindow /\ CanApply /\ drift' = "below"

\* The lead condition decides for the whole step, the others follow.
Gate ==
  /\ stage = "gate"
  /\ drift' \in DriftAfter
  /\ LET hit == \/ decision = "candidate" /\ CanApply
                \/ decision = "none" /\ LeadMayPredict
     IN  /\ decision' = IF decision # "none" \/ ~IsLead THEN decision
                        ELSE IF hit THEN "candidate" ELSE "refresh"
         /\ stage' = IF hit THEN "apply" ELSE "exact"
         /\ caches' = [u \in Uuids |->
              IF ~hit /\ decision' = "refresh" /\ u \in Members(call) THEN 0 ELSE caches[u]]
  /\ UNCHANGED <<config, sampler, call, answer, history, rates, first, key, candidate, force, hits,
                 steps, disabled>>

\* The call returns to the sampler.
Answered(how) == served' = how /\ stage' = "sampling" /\ call' = << >>

ApplyPrediction ==
  /\ stage = "apply"
  /\ candidate' = TRUE
  /\ hits' = IF IsLead THEN hits + 1 ELSE hits
  /\ force' = IF IsLead THEN hits' >= MaxHits ELSE force
  /\ Answered("prediction")
  /\ UNCHANGED <<config, sampler, runs, predictor, first, key, decision, steps, disabled>>

\* Mutant: what the model returned before the failure is not used.
CacheFailsRerun ==
  /\ stage \in {"gate", "apply", "store"}
  /\ DisableCache
  /\ stage' = "uncached"
  /\ UNCHANGED <<config, sampler, call, answer>>

\* Memory runs out on the cache's side: it is disabled and the model's result,
\* already there or not, is the answer.
CacheFails ==
  /\ stage \in {"gate", "apply", "store"}
  /\ DisableCache
  /\ IF stage = "store" THEN Answered("model")
                        ELSE stage' = "uncached" /\ UNCHANGED <<served, call>>
  /\ UNCHANGED <<config, sampler, runs>>

ModelReturns ==
  /\ stage \in {"uncached", "last", "exact"}
  /\ runs' = runs + 1
  /\ \/ stage = "exact" /\ stage' = "store" /\ UNCHANGED <<served, call, disabled>>
     \/ stage # "exact" /\ Answered("model") /\ UNCHANGED disabled
     \/ \* an output the cache cannot hold
        stage # "uncached" /\ Answered("model") /\ disabled' = "unsupported"
  /\ UNCHANGED <<config, sampler, predictor, policy>>

InCall == stage \notin {"outside", "sampling", "raised"}

\* Mutant: only the outer sample wrapper clears.
CallRaisesKeeps ==
  /\ InCall
  /\ stage' = "raised"
  /\ UNCHANGED <<config, sampler, call, answer, predictor, policy, disabled>>

\* The model or the cache's own code fails, in any way but a lack of memory on
\* the cache's side, or the sample is cancelled: the diffusion wrapper clears.
CallRaises ==
  /\ InCall
  /\ ClearRuntime
  /\ stage' = "raised"
  /\ UNCHANGED <<config, sampler, call, answer>>

Held == {u \in Uuids : caches[u] # 0}

\* Mutant: entries of conditions that are not of this call are not counted.
FitsAlone == Cardinality(Members(call)) + Transient <= config.limit

Fits ==
  /\ Cardinality(Held \cup Members(call)) <= config.limit
  /\ Cardinality(Held) + Cardinality(Members(call)) + Transient <= config.limit

\* Mutant: every call moves the reference the drift is measured from.
StoreMovesReference ==
  /\ stage = "store" /\ Fits
  /\ caches' = [u \in Uuids |-> IF u \in Members(call) THEN visit ELSE caches[u]]
  /\ rates' \in IF history # 0 THEN {rates, TRUE} ELSE {rates}
  /\ history' = visit /\ drift' = "none"
  /\ force' = FALSE /\ hits' = 0
  /\ Answered("model")
  /\ UNCHANGED <<config, sampler, runs, first, key, decision, candidate, steps, disabled>>

\* _cache_outputs and the new reference of the drift.
Store ==
  /\ stage = "store" /\ Fits
  /\ caches' = [u \in Uuids |-> IF u \in Members(call) THEN visit ELSE caches[u]]
  /\ IF IsLead
     THEN /\ rates' \in IF history # 0 THEN {rates, TRUE} ELSE {rates}
          /\ history' = visit /\ drift' = "none"
          /\ force' = FALSE /\ hits' = 0
     ELSE UNCHANGED <<rates, history, drift, force, hits>>
  /\ Answered("model")
  /\ UNCHANGED <<config, sampler, runs, first, key, decision, candidate, steps, disabled>>

StoreRefused ==
  /\ stage = "store" /\ ~Fits
  /\ DisableCache
  /\ Answered("model")
  /\ UNCHANGED <<config, sampler, runs>>

Sampler == BeginSample \/ NextSigma \/ EvaluateAgain \/ EndSample
Call ==
  \/ \E c \in CallShapes : BeginCall(c)
  \/ Bypass \/ EnterSigma \/ LastStep \/ Gate \/ ApplyPrediction
  \/ CacheFails \/ ModelReturns \/ CallRaises \/ Store \/ StoreRefused

Next == Sampler \/ Call
Spec == Init /\ [][Next]_vars

-----------------------------------------------------------------------------
(* Properties.                                                             *)

\* A prediction is only applied at a scheduled step that is neither the first
\* nor the last and whose share of the schedule lies within the percentages,
\* or within half a step of them under the speed profile.
WindowRespected ==
  stage = "apply" =>
    /\ Scheduled /\ position \in 1..(config.steps - 2)
    /\ LET slack == IF config.profile = "speed" THEN 50 ELSE 0
       IN  /\ 100 * position >= config.window[1] * LastOrdinal - slack
           /\ 100 * position <= config.window[2] * LastOrdinal + slack

\* Frequent exact refreshes: no condition that takes part in every step is
\* answered from an entry older than the steps the profile may reuse,
\* whichever call of a step decided and in whatever batches they came.
PredictionsFresh ==
  stage = "apply" => \A u \in Members(call) \ Optional : visit - caches[u] <= MaxHits

\* The drift that lets the lead predict is measured from the very step the
\* lead's entry was computed at.
GateMatchesEntry == first \in Uuids => caches[first] \in {0, history}

\* A call runs the model exactly once, or not at all when it is predicted,
\* wherever on the cache's side memory ran out.
OneModelRun ==
  /\ runs <= 1
  /\ stage = "sampling" => runs = (IF served = "model" THEN 1 ELSE 0)

\* Once disabled, the cache answers nothing until the sample is over.
DisabledForSample ==
  [][disabled # "no" /\ stage' # "raised" /\ stage' # "outside"
       => disabled' # "no" /\ stage' # "apply"]_vars

\* No prediction tensor is left after an exception or the sample, while the
\* cache is disabled for a lack of resources, and through all the calls of the
\* last scheduled step if the cache still answered at its first.  A cache that
\* was disabled before by something unsupported keeps what it holds.
NothingRetained ==
  \/ stage \in {"raised", "outside"}
  \/ disabled = "resources"
  \/ AtLastStep /\ key = visit /\ stage # "ending"
  => Held = {} /\ history = 0 /\ ~rates /\ drift = "none"

\* The entries together never exceed the memory limit, those of conditions
\* the current call does not carry included.
CacheWithinLimit == Cardinality(Held) <= config.limit
=============================================================================
