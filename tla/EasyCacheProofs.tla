-------------------------- MODULE EasyCacheProofs --------------------------
(***************************************************************************)
(* Proofs about EasyCache for any conditions, batches, schedules, windows  *)
(* and limits, and for any number of sigmas and passes.                    *)
(***************************************************************************)
EXTENDS EasyCache, FiniteSetTheorems, TLAPS

Stages == {"outside", "sampling", "entered", "gate", "ending", "apply", "uncached", "last",
           "exact", "store", "raised"}

\* The part of the types the arguments below need.
Shape ==
  /\ caches \in [Uuids -> Nat] /\ history \in Nat /\ visit \in Nat
  /\ call \in CallShapes \cup {<< >>}
  /\ stage \in Stages
  /\ runs \in Nat
  /\ config.limit \in Nat

\* What the place of a call says: it has a batch, its lead is known once the
\* sigma is entered, and a disabled cache takes no part in it.
CallOf ==
  /\ stage \in {"entered", "gate", "ending", "apply", "exact", "store"} => call \in CallShapes
  /\ first \in Uuids \cup {NoUuid}
  /\ stage \in {"gate", "ending", "apply", "last", "exact", "store"} => first \in Uuids
  /\ disabled # "no" => stage \in {"sampling", "uncached"}

\* How often the model has run at each place of a call.
RunsOf ==
  /\ stage \in {"entered", "gate", "ending", "apply", "uncached", "last", "exact"} => runs = 0
  /\ stage = "store" => runs = 1
  /\ stage \in {"outside", "sampling"} => runs = (IF served = "model" THEN 1 ELSE 0)
  /\ runs <= 1

Cleared == caches = [u \in Uuids |-> 0] /\ history = 0 /\ rates = FALSE /\ drift = "none"

\* Nothing is held before a lead is known, where the code has cleared, and by
\* a cache that resources were missing for.
ClearedOf ==
  /\ first = NoUuid => Cleared
  /\ stage \in {"last", "raised", "outside"} => Cleared
  /\ disabled = "resources" => Cleared

\* The inductive invariant of everything but the memory limit.
EasyInv == Shape /\ CallOf /\ RunsOf /\ ClearedOf /\ GateMatchesEntry

LEMMA InitEasyInv == Init => EasyInv
  BY EasyAssumption DEF Init, EasyInv, Shape, CallOf, RunsOf, ClearedOf, Cleared, GateMatchesEntry,
     Stages, NoUuid, NoConfig

\* The uuids of a batch are conditions of the sample.
LEMMA BatchMembers ==
  ASSUME NEW c \in CallShapes PROVE Members(c) \subseteq Uuids /\ c[1] \in Uuids
  BY EasyAssumption DEF Members

LEMMA ShapeStep == EasyInv /\ Next => Shape'
  <1> SUFFICES ASSUME EasyInv, Next PROVE Shape'
    OBVIOUS
  <1> USE EasyAssumption DEF EasyInv, Shape, Stages
  <1>1. CASE Sampler
    BY <1>1, SMTT(30) DEF Sampler, BeginSample, NextSigma, EvaluateAgain, EndSample, ClearRuntime,
       ClearedPredictor, NoConfig, sampler, answer, predictor, policy
  <1>2. ASSUME NEW c \in CallShapes, BeginCall(c) PROVE Shape'
    BY <1>2 DEF BeginCall, predictor, policy
  <1>3. CASE Bypass \/ EnterSigma \/ LastStep \/ ApplyPrediction
    BY <1>3 DEF Bypass, EnterSigma, LastStep, ApplyPrediction, Answered, ClearedPredictor,
       sampler, answer, predictor, policy
  <1>4. CASE Gate
    BY <1>4 DEF Gate, sampler, answer
  <1>5. CASE CacheFails \/ ModelReturns \/ CallRaises \/ StoreRefused
    BY <1>5 DEF CacheFails, ModelReturns, CallRaises, StoreRefused, DisableCache, ClearRuntime,
       ClearedPredictor, Answered, sampler, answer, predictor, policy
  <1>6. CASE Store
    BY <1>6 DEF Store, Answered, sampler
  <1> QED BY <1>1, <1>2, <1>3, <1>4, <1>5, <1>6 DEF Next, Call

LEMMA CallStep == EasyInv /\ Next => CallOf' /\ RunsOf'
  <1> SUFFICES ASSUME EasyInv, Next PROVE CallOf' /\ RunsOf'
    OBVIOUS
  <1> USE EasyAssumption DEF EasyInv, Shape, CallOf, RunsOf, NoUuid
  <1>1. CASE Sampler
    BY <1>1 DEF Sampler, BeginSample, NextSigma, EvaluateAgain, EndSample, ClearRuntime,
       sampler, answer, predictor, policy
  <1>2. ASSUME NEW c \in CallShapes, BeginCall(c) PROVE CallOf' /\ RunsOf'
    BY <1>2 DEF BeginCall, predictor, policy
  <1>3. CASE EnterSigma
    BY <1>3, BatchMembers DEF EnterSigma, sampler, answer, predictor
  <1>4. CASE Bypass \/ LastStep \/ ApplyPrediction
    BY <1>4 DEF Bypass, LastStep, ApplyPrediction, Answered, sampler, answer, predictor, policy
  <1>5. CASE Gate
    BY <1>5 DEF Gate, sampler, answer
  <1>6. CASE CacheFails \/ StoreRefused \/ Store
    BY <1>6, ZenonT(60) DEF CacheFails, StoreRefused, Store, DisableCache, Answered, sampler
  <1>7. CASE ModelReturns \/ CallRaises
    BY <1>7 DEF ModelReturns, CallRaises, ClearRuntime, Answered, sampler, answer, predictor,
       policy
  <1> QED BY <1>1, <1>2, <1>3, <1>4, <1>5, <1>6, <1>7 DEF Next, Call

LEMMA ReferenceStep == EasyInv /\ Next => ClearedOf' /\ GateMatchesEntry'
  <1> SUFFICES ASSUME EasyInv, Next PROVE ClearedOf' /\ GateMatchesEntry'
    OBVIOUS
  <1> USE EasyAssumption DEF EasyInv, Shape, CallOf, ClearedOf, Cleared, GateMatchesEntry, NoUuid
  <1>1. CASE Sampler
    BY <1>1 DEF Sampler, BeginSample, NextSigma, EvaluateAgain, EndSample, ClearRuntime,
       ClearedPredictor, NoUuid, sampler, answer, predictor, policy
  <1>2. ASSUME NEW c \in CallShapes, BeginCall(c) PROVE ClearedOf' /\ GateMatchesEntry'
    BY <1>2 DEF BeginCall, predictor, policy
  <1>3. CASE EnterSigma
    BY <1>3, BatchMembers DEF EnterSigma, predictor
  <1>4. CASE Bypass \/ LastStep \/ ApplyPrediction
    BY <1>4 DEF Bypass, LastStep, ApplyPrediction, Answered, ClearedPredictor, predictor, policy
  <1>5. CASE Gate
    BY <1>5 DEF Gate
  <1>6. CASE CacheFails \/ StoreRefused
    BY <1>6 DEF CacheFails, StoreRefused, DisableCache, ClearedPredictor, Answered
  <1>7. CASE ModelReturns \/ CallRaises
    BY <1>7 DEF ModelReturns, CallRaises, ClearRuntime, ClearedPredictor, Answered, predictor,
       policy
  <1>8. CASE Store
    <2>1. first \in Uuids /\ first' = first /\ stage' = "sampling"
      BY <1>8 DEF Store, Answered
    <2>2. caches'[first] = IF IsLead THEN visit ELSE caches[first]
      BY <1>8, <2>1 DEF Store, IsLead
    <2> QED BY <1>8, <2>1, <2>2 DEF Store
  <1> QED BY <1>1, <1>2, <1>3, <1>4, <1>5, <1>6, <1>7, <1>8 DEF Next, Call

LEMMA EasyInvStep == EasyInv /\ [Next]_vars => EasyInv'
  <1> SUFFICES ASSUME EasyInv, [Next]_vars PROVE EasyInv'
    OBVIOUS
  <1>1. CASE Next
    BY <1>1, ShapeStep, CallStep, ReferenceStep DEF EasyInv
  <1>2. CASE UNCHANGED vars
    BY <1>2 DEF EasyInv, Shape, CallOf, RunsOf, ClearedOf, Cleared, GateMatchesEntry, vars,
       sampler, answer, predictor, policy
  <1> QED BY <1>1, <1>2

LEMMA EasyInvariant == Spec => []EasyInv
  BY InitEasyInv, EasyInvStep, PTL DEF Spec

\* A diffusion call runs the model exactly once or is predicted, wherever
\* memory ran out on the cache's side.
THEOREM OneRunCorrect == Spec => []OneModelRun
  <1>1. EasyInv => OneModelRun
    BY DEF EasyInv, RunsOf, OneModelRun
  <1> QED BY <1>1, EasyInvariant, PTL

\* The drift that gates a prediction is measured from the step the lead's
\* entry was computed at, in whatever batches the conditions come.
THEOREM GateCorrect == Spec => []GateMatchesEntry
  BY EasyInvariant, PTL DEF EasyInv

\* A disabled cache stays disabled, and predicts nothing, until the sample or
\* an exception ends it.
THEOREM DisabledCorrect == Spec => DisabledForSample
  <1>1. EasyInv /\ [Next]_vars =>
          [disabled # "no" /\ stage' # "raised" /\ stage' # "outside"
             => disabled' # "no" /\ stage' # "apply"]_vars
    <2> SUFFICES ASSUME EasyInv, Next, disabled # "no", stage' # "raised", stage' # "outside"
                 PROVE  disabled' # "no" /\ stage' # "apply"
      OBVIOUS
    <2>1. stage \in {"sampling", "uncached"}
      BY DEF EasyInv, CallOf
    <2> QED
      BY <2>1 DEF Next, Sampler, Call, BeginSample, NextSigma, EvaluateAgain, EndSample, BeginCall,
         Bypass, EnterSigma, LastStep, Gate, ApplyPrediction, CacheFails, ModelReturns,
         CallRaises, Store, StoreRefused, Answered
  <1> QED BY <1>1, EasyInvariant, PTL DEF Spec, DisabledForSample

-----------------------------------------------------------------------------
(* The memory limit.                                                       *)

LimitInv == EasyInv /\ CacheWithinLimit

\* An entry is dropped or kept: the limit survives.
LEMMA HeldShrinks ==
  ASSUME CacheWithinLimit, Held' \subseteq Held, config' = config,
         config.limit \in Nat
  PROVE  CacheWithinLimit'
  <1>1. IsFiniteSet(Held)
    BY EasyAssumption, FS_Subset DEF Held
  <1>2. Cardinality(Held') <= Cardinality(Held) /\ Cardinality(Held) \in Nat
        /\ Cardinality(Held') \in Nat
    BY <1>1, FS_Subset, FS_CardinalityType
  <1> QED BY <1>2 DEF CacheWithinLimit

LEMMA LimitStep == LimitInv /\ [Next]_vars => CacheWithinLimit'
  <1> SUFFICES ASSUME LimitInv, [Next]_vars PROVE CacheWithinLimit'
    OBVIOUS
  <1>0. Shape /\ CallOf /\ ClearedOf /\ CacheWithinLimit
    BY DEF LimitInv, EasyInv
  <1>1. CASE stage' = "outside" /\ caches' = [u \in Uuids |-> 0] /\ config'.limit \in Nat
    BY <1>1, FS_EmptySet DEF CacheWithinLimit, Held
  <1>2. CASE BeginSample
    <2>1. Held' = {}
      BY <1>0, <1>2 DEF BeginSample, predictor, ClearedOf, Cleared, Held
    <2>2. config'.limit \in Nat
      BY <1>2, EasyAssumption DEF BeginSample
    <2> QED BY <2>1, <2>2, FS_EmptySet DEF CacheWithinLimit
  <1>3. CASE EndSample
    BY <1>3, <1>1 DEF EndSample, ClearRuntime, ClearedPredictor, NoConfig
  <1>4. CASE Store
    <2>1. Members(call) \subseteq Uuids
      BY <1>0, <1>4, BatchMembers DEF Store, CallOf
    <2>2. Held' \subseteq Held \cup Members(call) /\ config' = config
      BY <1>4, <2>1 DEF Store, Held
    <2>3. IsFiniteSet(Held \cup Members(call))
      BY <2>1, EasyAssumption, FS_Subset DEF Held
    <2>4. Cardinality(Held') <= Cardinality(Held \cup Members(call))
      BY <2>2, <2>3, FS_Subset
    <2>5. Cardinality(Held') \in Nat /\ Cardinality(Held \cup Members(call)) \in Nat
      BY <2>2, <2>3, FS_Subset, FS_CardinalityType
    <2>6. Cardinality(Held \cup Members(call)) <= config.limit
      BY <1>4 DEF Store, Fits
    <2> QED BY <1>0, <2>2, <2>4, <2>5, <2>6 DEF CacheWithinLimit, Shape
  <1>5. CASE Gate
    <2>1. Held' \subseteq Held /\ config' = config
      BY <1>5 DEF Gate, Held
    <2> QED BY <1>0, <2>1, HeldShrinks DEF Shape
  <1>6. CASE caches' \in {caches, [u \in Uuids |-> 0]} /\ config' = config
    <2>1. Held' \subseteq Held
      BY <1>6 DEF Held
    <2> QED BY <1>0, <1>6, <2>1, HeldShrinks DEF Shape
  <1>7. CASE \/ NextSigma \/ EvaluateAgain \/ (\E c \in CallShapes : BeginCall(c)) \/ Bypass
             \/ EnterSigma \/ ApplyPrediction \/ ModelReturns \/ UNCHANGED vars
    BY <1>6, <1>7 DEF NextSigma, EvaluateAgain, BeginCall, Bypass, EnterSigma, ApplyPrediction,
       ModelReturns, vars, predictor
  <1>8. CASE LastStep \/ CacheFails \/ CallRaises \/ StoreRefused
    BY <1>6, <1>8 DEF LastStep, CacheFails, CallRaises, StoreRefused, DisableCache, ClearRuntime,
       ClearedPredictor
  <1>9. CASE Sampler
    BY <1>2, <1>3, <1>7, <1>9 DEF Sampler
  <1>10. CASE Call
    BY <1>4, <1>5, <1>7, <1>8, <1>10 DEF Call
  <1> QED BY <1>7, <1>9, <1>10 DEF Next

\* The entries together stay within the memory limit of the sample.
THEOREM LimitCorrect == Spec => []CacheWithinLimit
  <1>1. Init => LimitInv
    <2>1. Init => Held = {} /\ config.limit = 0
      BY DEF Init, Held, NoConfig
    <2> QED BY <2>1, InitEasyInv, FS_EmptySet DEF LimitInv, CacheWithinLimit
  <1>2. LimitInv /\ [Next]_vars => LimitInv'
    BY EasyInvStep, LimitStep DEF LimitInv
  <1>3. LimitInv => CacheWithinLimit
    BY DEF LimitInv
  <1> QED BY <1>1, <1>2, <1>3, PTL DEF Spec
-----------------------------------------------------------------------------
(* Where predictions are made.                                             *)

\* The decision of this sigma is to predict.
Chosen == decision = "candidate" /\ key = visit

\* What the places of a sample say of the schedule, the sigma and the call.
Placed ==
  /\ position \in Int /\ key \in Nat /\ key <= visit
  /\ config.steps \in Nat
  /\ config.window \in (0..100) \X (0..100)
  /\ steps = (IF stage = "raised" THEN 0 ELSE config.steps)
  /\ decision \in {"none", "candidate", "refresh"}
  /\ stage \in {"outside", "raised"} => decision = "none"
  /\ stage \in {"gate", "ending", "apply", "last", "exact", "store"} => key = visit
  /\ stage \in Stages \ {"outside", "sampling", "raised"} => visit # 0

\* A sigma that is predicted lies inside the window, and what is applied was
\* chosen at this sigma.
ChosenInside == Chosen => InsideWindow
ApplyChosen == stage = "apply" => Chosen /\ CanApply

WindowInv == Placed /\ ChosenInside /\ ApplyChosen


\* The largest multiple, as the window's bounds use it.
LEMMA CeilBound ==
  ASSUME NEW m \in Int, NEW p \in Int, (m + 99) \div 100 <= p
  PROVE  100 * p >= m
  OBVIOUS

LEMMA FloorBound ==
  ASSUME NEW m \in Int, NEW p \in Int, p <= m \div 100
  PROVE  100 * p <= m
  OBVIOUS

LEMMA NearestStart ==
  ASSUME NEW m \in Int, NEW p \in Int, (2 * m + 100) \div 200 <= p
  PROVE  100 * p >= m - 50
  OBVIOUS

LEMMA NearestEnd ==
  ASSUME NEW m \in Int, NEW p \in Int, p <= (2 * m + 100) \div 200
  PROVE  100 * p <= m + 50
  OBVIOUS

\* A step inside the window is neither the first nor the last, and its share
\* of the schedule lies within the percentages or half a step of them.
LEMMA InsideShare ==
  ASSUME Placed, InsideWindow, steps = config.steps
  PROVE  /\ Scheduled /\ position \in 1..(config.steps - 2)
         /\ LET slack == IF config.profile = "speed" THEN 50 ELSE 0
            IN  /\ 100 * position >= config.window[1] * LastOrdinal - slack
                /\ 100 * position <= config.window[2] * LastOrdinal + slack
<1>1. /\ position \in Int /\ config.steps \in Nat /\ LastOrdinal \in Int
      /\ config.window[1] \in Int /\ config.window[2] \in Int
  BY DEF Placed, LastOrdinal
<1> DEFINE a == config.window[1] * LastOrdinal
           b == config.window[2] * LastOrdinal
<1>2. a \in Int /\ b \in Int
  BY <1>1
<1>3. /\ 2 * config.window[1] * LastOrdinal = 2 * a
      /\ 2 * config.window[2] * LastOrdinal = 2 * b
  BY <1>1
<1>4. position >= WindowStart /\ position <= WindowEnd
  <2>1. WindowStart \in Int /\ WindowEnd \in Int
    BY <1>1, <1>2, <1>3 DEF WindowStart, WindowEnd, Nearest, Larger, Smaller
  <2> QED BY <1>1, <2>1 DEF InsideWindow
<1>5. /\ position >= 1 /\ position <= config.steps - 2
      /\ position >= (IF config.profile = "speed" THEN Nearest(config.window[1])
                      ELSE (a + 99) \div 100)
      /\ position <= (IF config.profile = "speed" THEN Nearest(config.window[2]) ELSE b \div 100)
  BY <1>1, <1>2, <1>3, <1>4 DEF WindowStart, WindowEnd, Nearest, Larger, Smaller
<1>6. /\ Nearest(config.window[1]) = (2 * a + 100) \div 200
      /\ Nearest(config.window[2]) = (2 * b + 100) \div 200
  BY <1>3 DEF Nearest
<1> HIDE DEF a, b
<1>7. CASE config.profile = "speed"
  <2>1. 100 * position >= a - 50 /\ 100 * position <= b + 50
    BY <1>1, <1>2, <1>5, <1>6, <1>7, NearestStart, NearestEnd
  <2> QED BY <1>1, <1>5, <1>7, <2>1 DEF a, b, InsideWindow
<1>8. CASE config.profile # "speed"
  <2>1. 100 * position >= a /\ 100 * position <= b
    BY <1>1, <1>2, <1>5, <1>8, CeilBound, FloorBound
  <2>2. 100 * position >= a - 0 /\ 100 * position <= b + 0
    BY <1>2, <2>1
  <2> QED BY <1>1, <1>5, <1>8, <2>2 DEF a, b, InsideWindow
<1> QED BY <1>7, <1>8

LEMMA InitWindow == Init => WindowInv
  BY DEF Init, NoConfig, WindowInv, Placed, ChosenInside, ApplyChosen, Chosen

\* A configuration as a sample may be run with.
LEMMA ConfigTyped ==
  ASSUME NEW c \in Configs \cup {NoConfig}
  PROVE  c.steps \in Nat /\ c.window \in (0..100) \X (0..100)
  BY EasyAssumption DEF NoConfig

LEMMA PlacedStep == EasyInv /\ WindowInv /\ Next => Placed'
<1> SUFFICES ASSUME EasyInv, WindowInv, Next PROVE Placed'
  OBVIOUS
<1> USE DEF WindowInv, Placed
<1>1. visit \in Nat /\ stage \in Stages
  BY DEF EasyInv, Shape
<1>2. CASE BeginSample
  <2>1. config' \in Configs
    BY <1>2 DEF BeginSample
  <2>2. config'.steps \in Nat /\ config'.window \in (0..100) \X (0..100)
    BY <2>1, ConfigTyped
  <2> QED BY <1>1, <1>2, <2>2 DEF BeginSample, sampler
<1>3. CASE NextSigma
  BY <1>1, <1>3 DEF NextSigma, policy
<1>4. CASE EvaluateAgain
  BY <1>1, <1>4 DEF EvaluateAgain, policy
<1>5. CASE EndSample
  BY <1>1, <1>5 DEF EndSample, ClearRuntime, NoConfig
<1>6. ASSUME NEW c \in CallShapes, BeginCall(c) PROVE Placed'
  BY <1>1, <1>6 DEF BeginCall, policy
<1>7. CASE Bypass \/ LastStep \/ ApplyPrediction
  BY <1>1, <1>7 DEF Bypass, LastStep, ApplyPrediction, Answered, policy, sampler
<1>8. CASE EnterSigma
  BY <1>1, <1>8 DEF EnterSigma, sampler
<1>9. CASE Gate
  BY <1>1, <1>9 DEF Gate, sampler
<1>10. CASE CacheFails \/ StoreRefused \/ Store
  BY <1>1, <1>10 DEF CacheFails, StoreRefused, Store, DisableCache, Answered, sampler
<1>11. CASE ModelReturns
  BY <1>1, <1>11 DEF ModelReturns, Answered, sampler, policy
<1>12. CASE CallRaises
  BY <1>1, <1>12 DEF CallRaises, ClearRuntime, sampler
<1> QED BY <1>2, <1>3, <1>4, <1>5, <1>6, <1>7, <1>8, <1>9, <1>10, <1>11, <1>12
        DEF Next, Sampler, Call

LEMMA ChosenStep == EasyInv /\ WindowInv /\ Next => ChosenInside' /\ ApplyChosen'
<1> SUFFICES ASSUME EasyInv, WindowInv, Next PROVE ChosenInside' /\ ApplyChosen'
  OBVIOUS
<1>1. visit \in Nat /\ stage \in Stages /\ Placed /\ ChosenInside /\ ApplyChosen
  BY DEF EasyInv, Shape, WindowInv
<1>2. Placed'
  BY PlacedStep
\* The window is the same throughout a sigma.
<1>3. ASSUME UNCHANGED <<config, steps, position, between>>
      PROVE  InsideWindow' <=> InsideWindow
  BY <1>3 DEF InsideWindow, Scheduled, WindowStart, WindowEnd, LastOrdinal, Nearest
<1>4. CASE BeginSample
  <2>1. decision' = "none" /\ stage' = "sampling"
    BY <1>1, <1>4 DEF BeginSample, Placed
  <2> QED BY <2>1 DEF ChosenInside, ApplyChosen, Chosen
<1>5. CASE NextSigma
  <2>1. key' # visit' /\ stage' = "sampling"
    BY <1>1, <1>5 DEF NextSigma, Placed, policy
  <2> QED BY <2>1 DEF ChosenInside, ApplyChosen, Chosen
<1>6. CASE EndSample \/ CallRaises
  <2>1. decision' = "none" /\ stage' \in {"outside", "raised"}
    BY <1>6 DEF EndSample, CallRaises, ClearRuntime
  <2> QED BY <2>1 DEF ChosenInside, ApplyChosen, Chosen
<1>7. CASE EvaluateAgain \/ \E c \in CallShapes : BeginCall(c)
  <2>1. /\ UNCHANGED <<config, steps, position, between, visit, key, decision>>
        /\ stage' # "apply"
    BY <1>7 DEF EvaluateAgain, BeginCall, policy
  <2> QED BY <1>1, <1>3, <2>1 DEF ChosenInside, ApplyChosen, Chosen
<1>8. CASE Bypass \/ ApplyPrediction \/ ModelReturns \/ Store
  <2>1. /\ UNCHANGED <<config, steps, position, between, visit, key, decision>>
        /\ stage' # "apply"
    BY <1>8 DEF Bypass, ApplyPrediction, ModelReturns, Store, Answered, sampler, policy
  <2> QED BY <1>1, <1>3, <2>1 DEF ChosenInside, ApplyChosen, Chosen
<1>9. CASE EnterSigma
  <2>1. /\ UNCHANGED <<config, steps, position, between, visit>>
        /\ stage' # "apply"
        /\ Chosen' => Chosen
    BY <1>9 DEF EnterSigma, sampler, Chosen
  <2> QED BY <1>1, <1>3, <2>1 DEF ChosenInside, ApplyChosen
<1>10. CASE LastStep \/ CacheFails \/ StoreRefused
  <2>1. decision' = "refresh" /\ stage' # "apply"
    BY <1>10 DEF LastStep, CacheFails, StoreRefused, DisableCache, Answered
  <2> QED BY <2>1 DEF ChosenInside, ApplyChosen, Chosen
<1>11. CASE Gate
  <2>1. /\ UNCHANGED <<config, steps, position, between, visit, key, call>>
        /\ key = visit
    BY <1>1, <1>11 DEF Gate, sampler, Placed
  <2>2. /\ stage' = "apply" => decision' = "candidate" /\ CanApply /\ caches' = caches
        /\ decision' = "candidate" => decision = "candidate" \/ InsideWindow
    <3>1. caches \in [Uuids -> Nat]
      BY DEF EasyInv, Shape
    <3> QED BY <1>11, <3>1 DEF Gate, LeadMayPredict
  <2>3. ChosenInside'
    BY <1>1, <1>3, <2>1, <2>2 DEF ChosenInside, Chosen
  <2>4. ApplyChosen'
    BY <2>1, <2>2 DEF ApplyChosen, Chosen, CanApply
  <2> QED BY <2>3, <2>4
<1> QED BY <1>4, <1>5, <1>6, <1>7, <1>8, <1>9, <1>10, <1>11 DEF Next, Sampler, Call

LEMMA WindowStep == EasyInv /\ WindowInv /\ [Next]_vars => WindowInv'
<1> SUFFICES ASSUME EasyInv, WindowInv, [Next]_vars PROVE WindowInv'
  OBVIOUS
<1>1. CASE Next
  BY <1>1, PlacedStep, ChosenStep DEF WindowInv
<1>2. CASE UNCHANGED vars
  <2>1. /\ UNCHANGED <<config, steps, position, between, visit, key, decision, stage>>
        /\ UNCHANGED <<call, caches>>
    BY <1>2 DEF vars, sampler, predictor, policy
  <2> QED BY <2>1 DEF WindowInv, Placed, ChosenInside, ApplyChosen, Chosen, CanApply,
          InsideWindow, Scheduled, WindowStart, WindowEnd, LastOrdinal, Nearest
<1> QED BY <1>1, <1>2

LEMMA WindowInvariant == Spec => []WindowInv
<1>1. EasyInv /\ WindowInv /\ [Next]_vars => WindowInv'
  BY WindowStep
<1> QED BY <1>1, InitWindow, EasyInvariant, PTL DEF Spec

\* A prediction is only applied at a scheduled step that is neither the first
\* nor the last and whose share of the schedule lies within the percentages,
\* whatever the schedule, the window and the samplers that visit other sigmas.
THEOREM WindowCorrect == Spec => []WindowRespected
<1>1. EasyInv /\ WindowInv => WindowRespected
  <2> SUFFICES ASSUME EasyInv, WindowInv, stage = "apply"
               PROVE  /\ Scheduled /\ position \in 1..(config.steps - 2)
                      /\ LET slack == IF config.profile = "speed" THEN 50 ELSE 0
                         IN  /\ 100 * position >= config.window[1] * LastOrdinal - slack
                             /\ 100 * position <= config.window[2] * LastOrdinal + slack
    BY DEF WindowRespected
  <2>1. Placed /\ InsideWindow
    BY DEF WindowInv, ChosenInside, ApplyChosen
  <2>2. steps = config.steps
    BY <2>1 DEF Placed
  <2> QED BY <2>1, <2>2, InsideShare
<1> QED BY <1>1, EasyInvariant, WindowInvariant, PTL

-----------------------------------------------------------------------------
(* What is held at the last step.                                          *)

\* A cache that answered at the first call of the last step holds nothing
\* from there on, and no call at that step predicts or stores.
LastInv ==
  AtLastStep =>
    /\ stage \notin {"gate", "apply", "exact", "store"}
    /\ key = visit /\ stage # "ending" => Cleared

\* Only the sampler and the wrappers change what the last step is.
LEMMA SameStep ==
  ASSUME UNCHANGED <<steps, position, between>> PROVE AtLastStep' <=> AtLastStep
  BY DEF AtLastStep, Scheduled

LEMMA LastStepInv ==
  EasyInv /\ WindowInv /\ LastInv /\ [Next]_vars => LastInv'
<1> SUFFICES ASSUME EasyInv, WindowInv, LastInv, [Next]_vars PROVE LastInv'
  OBVIOUS
<1> USE DEF LastInv
<1>1. visit \in Nat /\ Placed /\ ClearedOf /\ (stage = "outside" => Cleared)
  BY DEF EasyInv, Shape, WindowInv, ClearedOf
<1>2. CASE BeginSample
  BY <1>1, <1>2 DEF BeginSample, Cleared, predictor
<1>3. CASE NextSigma
  <2>1. stage' = "sampling" /\ visit' # key'
    BY <1>1, <1>3 DEF NextSigma, Placed, policy
  <2> QED BY <2>1
<1>4. CASE EndSample \/ CallRaises
  <2>1. ~AtLastStep'
    BY <1>4 DEF EndSample, CallRaises, ClearRuntime, AtLastStep, Scheduled
  <2> QED BY <2>1
<1>5. CASE EvaluateAgain \/ (\E c \in CallShapes : BeginCall(c)) \/ Bypass \/ UNCHANGED vars
  <2>1. /\ UNCHANGED <<steps, position, between, key, visit, caches, history, rates, drift>>
        /\ stage' \in {"sampling", "uncached", "entered"} \/ stage' = stage
        /\ stage # "ending" \/ stage' = "ending"
    BY <1>5 DEF EvaluateAgain, BeginCall, Bypass, vars, sampler, policy, predictor
  <2> QED BY <2>1, SameStep DEF Cleared
<1>6. CASE EnterSigma
  <2>1. UNCHANGED <<steps, position, between>>
        /\ stage' = (IF AtLastStep THEN "ending" ELSE "gate")
    BY <1>6 DEF EnterSigma, sampler
  <2> QED BY <2>1, SameStep
<1>7. CASE LastStep
  BY <1>7 DEF LastStep, ClearedPredictor, Cleared
<1>8. CASE Gate \/ ApplyPrediction \/ Store
  <2>1. UNCHANGED <<steps, position, between>> /\ stage \in {"gate", "apply", "store"}
    BY <1>8 DEF Gate, ApplyPrediction, Store, sampler
  <2> QED BY <2>1, SameStep
<1>9. CASE CacheFails \/ StoreRefused
  <2>1. Cleared' /\ stage' \in {"uncached", "sampling"}
    BY <1>9 DEF CacheFails, StoreRefused, DisableCache, ClearedPredictor, Cleared, Answered
  <2> QED BY <2>1
<1>10. CASE ModelReturns
  <2>1. /\ UNCHANGED <<steps, position, between, key, visit, caches, history, rates, drift>>
        /\ stage' = "sampling" \/ stage = "exact"
        /\ stage # "ending"
    BY <1>10 DEF ModelReturns, Answered, sampler, policy, predictor
  <2> QED BY <2>1, SameStep DEF Cleared
<1> QED BY <1>2, <1>3, <1>4, <1>5, <1>6, <1>7, <1>8, <1>9, <1>10 DEF Next, Sampler, Call

\* Nothing is retained after an exception or the sample, by a cache disabled
\* for a lack of resources, and through the last scheduled step when the cache
\* answered at its first call, whatever other calls come at that step.
THEOREM RetentionCorrect == Spec => []NothingRetained
<1>1. Init => LastInv
  BY DEF Init, LastInv, AtLastStep, Scheduled
<1>2. EasyInv /\ LastInv => NothingRetained
  BY DEF EasyInv, ClearedOf, Cleared, LastInv, NothingRetained, Held
<1> QED BY <1>1, <1>2, LastStepInv, EasyInvariant, WindowInvariant, PTL DEF Spec

-----------------------------------------------------------------------------
(* How old a prediction may be.                                            *)

\* The conditions that are asked for at every sigma.
Always == Conditions \ Optional

\* The batch of a call, and the conditions active at a sigma.
Batched ==
  /\ stage \in {"outside", "sampling"} => call = << >>
  /\ Members(call) \subseteq asked /\ asked \subseteq active
  /\ active \subseteq Conditions /\ Conditions \subseteq Uuids
  /\ stage = "outside" => visit = 0
  /\ visit = 0 => active = {} /\ asked = {}
  /\ visit # 0 => Always \subseteq active
  /\ stage = "uncached" => disabled # "no"
  /\ hits \in Nat /\ pass \in Nat \ {0} /\ \A u \in Uuids : caches[u] <= visit

\* The cache takes part in the sample.
Caching == disabled = "no" /\ stage # "raised"

\* Conditions that have been answered in this evaluation.
Answers == asked \ Members(call)

\* Nothing is entered before the first call at a sigma.
Unentered ==
  Caching /\ key # visit => Answers = {} /\ (pass > 1 => active = {})

\* While nothing forces a refresh, what was answered at this sigma has an entry.
Covered ==
  Caching /\ decision \in {"none", "candidate"} =>
    /\ \A u \in Answers : caches[u] # 0
    /\ pass > 1 => \A u \in active : caches[u] # 0

\* The lead decides with its first call at a sigma and is applied at once; it
\* runs the model only to refresh.
LeadFirst ==
  /\ Chosen /\ Caching => candidate \/ (stage = "apply" /\ IsLead)
  /\ Chosen /\ Caching /\ pass = 1 =>
       first \in asked /\ (stage \in {"entered", "gate"} => ~IsLead)
  /\ stage = "last" \/ (stage \in {"exact", "store"} /\ IsLead) => decision = "refresh"
  /\ decision = "none" /\ key = visit => ~candidate

\* An entry that is not of this sigma is no older than the hits since its lead
\* was exact; the sigma that would exceed the limit is not predicted.
Aged ==
  Caching =>
    \A u \in Always : caches[u] # 0 =>
      /\ key # visit =>
           visit - caches[u] <= 1 \/ (candidate /\ visit - 1 - caches[u] <= hits)
      /\ key = visit /\ decision = "none" =>
           \/ visit - caches[u] <= 1
           \/ ((force <=> hits >= MaxHits) /\ visit - 1 - caches[u] <= hits)
      /\ Chosen =>
           /\ visit - caches[u] <= MaxHits
           /\ caches[u] = visit \/ visit - caches[u] <= hits + (IF candidate THEN 0 ELSE 1)

\* What was answered at a sigma that is not predicted is of that sigma.
Refreshed ==
  Caching /\ ~Chosen => \A u \in Answers : caches[u] \in {0, visit}

Reuse == Unentered /\ Covered /\ LeadFirst /\ Aged /\ Refreshed
FreshInv == Batched /\ Reuse

LEMMA HitsBounded == MaxHits \in 1..3
  BY DEF MaxHits

LEMMA NoMembers == Members(<< >>) = {}
  BY DEF Members

LEMMA InitFresh == Init => FreshInv
<1> SUFFICES ASSUME Init PROVE FreshInv
  OBVIOUS
<1>1. Conditions = {} /\ Members(call) = {}
  BY NoMembers DEF Init, Conditions, NoConfig
<1>2. Batched
  BY <1>1, EasyAssumption DEF Init, Batched
<1>3. Unentered /\ Covered /\ LeadFirst /\ Aged /\ Refreshed
  BY <1>1 DEF Init, Unentered, Covered, LeadFirst, Aged, Refreshed, Answers, Caching, Chosen,
     Always
<1> QED BY <1>2, <1>3 DEF FreshInv, Reuse

LEMMA BatchedStep == EasyInv /\ WindowInv /\ FreshInv /\ Next => Batched'
<1> SUFFICES ASSUME EasyInv, WindowInv, FreshInv, Next PROVE Batched'
  OBVIOUS
<1>1. /\ visit \in Nat /\ stage \in Stages /\ caches \in [Uuids -> Nat]
      /\ call \in CallShapes \cup {<< >>}
  BY DEF EasyInv, Shape
<1>2. Batched /\ Placed
  BY DEF FreshInv, WindowInv
<1> USE DEF Batched
<1>3. ASSUME config' = config PROVE Conditions' = Conditions /\ Always' = Always
  BY <1>3 DEF Conditions, Always
<1>4. ASSUME call' = << >> PROVE Members(call)' = {}
  BY <1>4, NoMembers
<1>5. ASSUME call' = call PROVE Members(call)' = Members(call)
  BY <1>5
<1>6. CASE BeginSample
  <2>1. config'.calls \subseteq CallShapes
    BY <1>6, EasyAssumption DEF BeginSample
  <2>2. Conditions' \subseteq Uuids
    BY <2>1, BatchMembers DEF Conditions
  <2>3. /\ visit = 0 /\ active = {} /\ asked = {} /\ call = << >> /\ stage' = "sampling"
        /\ UNCHANGED <<visit, active, asked, call, hits, pass, caches>>
    BY <1>2, <1>6 DEF BeginSample, sampler, predictor
  <2> QED BY <1>1, <1>2, <1>4, <2>2, <2>3
<1>7. CASE NextSigma
  <2>1. /\ config' = config /\ active' \subseteq Conditions /\ Always \subseteq active'
        /\ asked' = {} /\ pass' = 1 /\ visit' = visit + 1 /\ stage' = "sampling"
        /\ UNCHANGED <<call, hits, caches>> /\ call = << >>
    BY <1>2, <1>7 DEF NextSigma, Always, predictor, policy
  <2> QED BY <1>1, <1>2, <1>3, <1>4, <2>1
<1>8. CASE EvaluateAgain
  <2>1. /\ config' = config /\ asked' = {} /\ pass' = pass + 1 /\ stage' = "sampling"
        /\ call = << >>
        /\ UNCHANGED <<visit, active, call, hits, caches>>
    BY <1>2, <1>8 DEF EvaluateAgain, predictor, policy
  <2> QED BY <1>1, <1>2, <1>3, <1>4, <2>1
<1>9. CASE EndSample
  <2>1. /\ config' = NoConfig /\ active' = {} /\ asked' = {} /\ pass' = 1 /\ visit' = 0
        /\ stage' = "outside" /\ call' = << >> /\ hits' = 0 /\ caches' = [u \in Uuids |-> 0]
    BY <1>9 DEF EndSample, ClearRuntime, ClearedPredictor
  <2>2. Conditions' = {}
    BY <2>1 DEF Conditions, NoConfig
  <2> QED BY <1>4, <2>1, <2>2
<1>10. ASSUME NEW c \in CallShapes, BeginCall(c) PROVE Batched'
  <2>1. /\ config' = config /\ call' = c /\ asked' = asked \cup Members(c)
        /\ Members(c) \subseteq active /\ visit # 0
        /\ stage' = (IF disabled # "no" THEN "uncached" ELSE "entered")
        /\ UNCHANGED <<visit, active, pass, hits, caches, disabled>>
    BY <1>10 DEF BeginCall, predictor, policy
  <2> QED BY <1>1, <1>2, <1>3, <2>1
\* What is left does not touch the sampler.
<1>11. ASSUME UNCHANGED <<config, visit, active, asked, pass>>,
              call' \in {call, << >>}, call' = call \/ stage' = "sampling",
              stage' \in {"outside", "sampling"} => call' = << >>,
              stage' # "outside", stage' = "uncached" => disabled' # "no", hits' \in Nat,
              \A u \in Uuids : caches'[u] \in {0, caches[u], visit}
       PROVE  Batched'
  <2>1. Members(call)' \subseteq asked
    BY <1>2, <1>4, <1>5, <1>11
  <2> QED BY <1>1, <1>2, <1>3, <1>11, <2>1
<1>12. CASE Bypass \/ EnterSigma
  BY <1>2, <1>11, <1>12 DEF Bypass, EnterSigma, sampler, predictor, policy
<1>13. CASE LastStep
  BY <1>2, <1>11, <1>13 DEF LastStep, ClearedPredictor, sampler
<1>14. CASE Gate
  <2>1. \A u \in Uuids : caches'[u] \in {0, caches[u]}
    BY <1>14 DEF Gate
  <2> QED BY <1>2, <1>11, <1>14, <2>1 DEF Gate, sampler
<1>15. CASE ApplyPrediction
  BY <1>2, <1>11, <1>15 DEF ApplyPrediction, Answered, sampler, predictor
<1>16. CASE CacheFails
  BY <1>2, <1>11, <1>16 DEF CacheFails, DisableCache, ClearedPredictor, Answered, sampler
<1>17. CASE ModelReturns
  BY <1>2, <1>11, <1>17 DEF ModelReturns, Answered, sampler, predictor, policy
<1>18. CASE CallRaises
  BY <1>2, <1>11, <1>18 DEF CallRaises, ClearRuntime, ClearedPredictor, sampler
<1>19. CASE Store
  <2>1. \A u \in Uuids : caches'[u] \in {0, caches[u], visit}
    BY <1>19 DEF Store
  <2>2. /\ UNCHANGED <<config, visit, active, asked, pass>>
        /\ stage' = "sampling" /\ call' = << >>
    BY <1>19 DEF Store, Answered, sampler
  <2>3. hits' = 0 \/ hits' = hits
    BY <1>19 DEF Store
  <2>4. hits' \in Nat
    BY <1>2, <2>3
  <2> HIDE DEF Batched
  <2> QED BY <1>11, <2>1, <2>2, <2>4
<1>20. CASE StoreRefused
  BY <1>2, <1>11, <1>20 DEF StoreRefused, DisableCache, ClearedPredictor, Answered, sampler
<1> QED BY <1>6, <1>7, <1>8, <1>9, <1>10, <1>12, <1>13, <1>14, <1>15, <1>16, <1>17, <1>18,
       <1>19, <1>20 DEF Next, Sampler, Call

\* Where the cache takes no part, or nothing is held, there is nothing to say.
LEMMA IdleReuse ==
  ASSUME LeadFirst', ~Caching'
  PROVE  Reuse'
  BY DEF Reuse, Unentered, Covered, Aged, Refreshed

LEMMA BoundaryStep ==
  EasyInv /\ WindowInv /\ FreshInv /\ (BeginSample \/ EndSample \/ CallRaises) => Reuse'
<1> SUFFICES ASSUME EasyInv, WindowInv, FreshInv, BeginSample \/ EndSample \/ CallRaises
             PROVE  Reuse'
  OBVIOUS
<1>1. CASE BeginSample
  <2>1. /\ visit = 0 /\ key = 0 /\ asked = {} /\ active = {} /\ decision = "none"
        /\ disabled = "no" /\ LeadFirst /\ \A u \in Uuids : caches[u] = 0
    BY <1>1 DEF BeginSample, FreshInv, Reuse, Batched, WindowInv, Placed, EasyInv, CallOf,
       ClearedOf, Cleared
  <2>2. /\ stage' = "sampling" /\ stage = "outside"
        /\ UNCHANGED <<visit, key, asked, active, pass, call, decision, candidate, caches, first>>
    BY <1>1 DEF BeginSample, sampler, predictor
  <2>3. Answers' = {} /\ ~Chosen'
    BY <2>1, <2>2 DEF Answers, Chosen
  <2>4. ~candidate
    BY <2>1 DEF LeadFirst
  <2>5. \A u \in Always' : caches'[u] = 0
    <3>1. Conditions' \subseteq Uuids
      BY <1>1, BatchedStep DEF Next, Sampler, Batched
    <3> QED BY <2>1, <2>2, <3>1 DEF Always
  <2> QED BY <2>1, <2>2, <2>3, <2>4, <2>5
          DEF Reuse, Unentered, Covered, LeadFirst, Aged, Refreshed
<1>2. CASE EndSample
  <2>1. /\ stage' = "outside" /\ visit' = 0 /\ key' = 0 /\ asked' = {} /\ active' = {}
        /\ pass' = 1 /\ decision' = "none" /\ candidate' = FALSE
        /\ config' = NoConfig
    BY <1>2 DEF EndSample, ClearRuntime
  <2>2. Answers' = {} /\ ~Chosen' /\ Always' = {}
    BY <2>1 DEF Answers, Chosen, Always, Conditions, NoConfig
  <2> QED BY <2>1, <2>2 DEF Reuse, Unentered, Covered, LeadFirst, Aged, Refreshed
<1>3. CASE CallRaises
  <2>1. stage' = "raised" /\ decision' = "none" /\ candidate' = FALSE
    BY <1>3 DEF CallRaises, ClearRuntime
  <2> QED BY <2>1, IdleReuse DEF LeadFirst, Caching, Chosen
<1> QED BY <1>1, <1>2, <1>3

\* The next sigma: what was answered at this one is either of it, or its lead
\* was predicted and counted.
LEMMA NextSigmaStep == EasyInv /\ WindowInv /\ FreshInv /\ NextSigma => Reuse'
<1> SUFFICES ASSUME EasyInv, WindowInv, FreshInv, NextSigma PROVE Reuse'
  OBVIOUS
<1>1. /\ stage = "sampling" /\ stage' = "sampling" /\ visit' = visit + 1 /\ pass' = 1
      /\ asked' = {} /\ active \subseteq asked
      /\ UNCHANGED <<config, call, caches, key, decision, candidate, hits, disabled, first>>
  BY DEF NextSigma, Evaluated, predictor, policy
<1>2. /\ visit \in Nat /\ caches \in [Uuids -> Nat] /\ key \in Nat /\ key <= visit
      /\ Batched /\ Reuse
  BY DEF EasyInv, Shape, WindowInv, Placed, FreshInv
<1>3. /\ Always' = Always /\ Always \subseteq Uuids /\ Answers = asked /\ Answers' = {}
      /\ key' # visit' /\ ~Chosen'
  <2>1. Members(call) = {}
    BY <1>1, <1>2, NoMembers DEF Batched
  <2> QED BY <1>1, <1>2, <2>1 DEF Always, Conditions, Answers, Chosen, Batched
<1>4. ASSUME disabled = "no", NEW u \in Always, caches[u] # 0
      PROVE  visit' - caches[u] <= 1 \/ (candidate /\ visit' - 1 - caches[u] <= hits)
  <2>1. visit # 0
    BY <1>2, <1>3, <1>4 DEF Batched
  <2>2. u \in Answers
    BY <1>1, <1>2, <1>3, <2>1 DEF Batched
  <2>3. key = visit /\ Caching
    BY <1>1, <1>2, <1>4, <2>2 DEF Reuse, Unentered, Caching
  <2>4. CASE Chosen
    <3>1. candidate
      <4>1. LeadFirst /\ stage # "apply"
        BY <1>1, <1>2 DEF Reuse
      <4> QED BY <2>3, <2>4, <4>1 DEF LeadFirst
    <3>2. caches[u] = visit \/ visit - caches[u] <= hits
      <4>1. Aged
        BY <1>2 DEF Reuse
      <4>2. hits \in Nat /\ caches[u] \in Nat
        BY <1>2, <1>3 DEF Batched
      <4> QED BY <1>2, <1>4, <2>3, <2>4, <3>1, <4>1, <4>2 DEF Aged
    <3>3. visit' - 1 - caches[u] = visit - caches[u] /\ caches[u] \in Nat
      BY <1>1, <1>2, <1>3
    <3> QED BY <1>1, <1>2, <3>1, <3>2, <3>3
  <2>5. CASE ~Chosen
    BY <1>1, <1>2, <1>4, <2>2, <2>3, <2>5 DEF Reuse, Refreshed
  <2> QED BY <2>4, <2>5
<1>5. Unentered' /\ Covered' /\ LeadFirst' /\ Refreshed'
  BY <1>1, <1>3 DEF Unentered, Covered, LeadFirst, Refreshed
<1>6. Aged'
  BY <1>1, <1>3, <1>4 DEF Aged, Caching
<1> QED BY <1>5, <1>6 DEF Reuse

LEMMA EvaluateAgainStep == EasyInv /\ WindowInv /\ FreshInv /\ EvaluateAgain => Reuse'
<1> SUFFICES ASSUME EasyInv, WindowInv, FreshInv, EvaluateAgain PROVE Reuse'
  OBVIOUS
<1>1. /\ stage = "sampling" /\ stage' = "sampling" /\ pass' = pass + 1
      /\ asked' = {} /\ active \subseteq asked
      /\ UNCHANGED <<config, visit, active, call, caches, key, decision, candidate, force, hits,
                     disabled, first>>
  BY DEF EvaluateAgain, Evaluated, predictor, policy
<1>2. Batched /\ Reuse
  BY DEF FreshInv
<1>3. /\ Always' = Always /\ Answers = asked /\ Answers' = {} /\ (Chosen' <=> Chosen)
      /\ (Caching' <=> Caching) /\ MaxHits' = MaxHits /\ pass' # 1
  <2>1. Members(call) = {} /\ pass \in Nat /\ (pass' = 1 => pass = 0)
    BY <1>1, <1>2, NoMembers DEF Batched
  <2>2. pass # 0
    BY <1>2 DEF Batched
  <2> QED BY <1>1, <2>1, <2>2 DEF Always, Conditions, Answers, Chosen, Caching, MaxHits
<1>4. Unentered' /\ Covered'
  BY <1>1, <1>2, <1>3 DEF Reuse, Unentered, Covered
<1>5. LeadFirst'
  BY <1>1, <1>2, <1>3 DEF Reuse, LeadFirst
<1>6. Aged'
  BY <1>1, <1>2, <1>3 DEF Reuse, Aged
<1>7. Refreshed'
  BY <1>3 DEF Refreshed
<1> QED BY <1>4, <1>5, <1>6, <1>7 DEF Reuse

LEMMA BeginCallStep ==
  \A c \in CallShapes : EasyInv /\ WindowInv /\ FreshInv /\ BeginCall(c) => Reuse'
<1> SUFFICES ASSUME NEW c \in CallShapes, EasyInv, WindowInv, FreshInv, BeginCall(c)
             PROVE  Reuse'
  OBVIOUS
<1>1. /\ stage = "sampling" /\ stage' = (IF disabled # "no" THEN "uncached" ELSE "entered")
      /\ Members(c) \subseteq active \ asked
      /\ call' = c /\ asked' = asked \cup Members(c)
      /\ UNCHANGED <<config, visit, active, pass, caches, key, decision, candidate, force, hits,
                     disabled, first>>
  BY DEF BeginCall, predictor, policy
<1>2. Batched /\ Reuse
  BY DEF FreshInv
<1>3. /\ Always' = Always /\ Answers' = Answers /\ (Chosen' <=> Chosen)
      /\ (Caching' <=> Caching) /\ MaxHits' = MaxHits
  <2>1. Members(call) = {}
    BY <1>1, <1>2, NoMembers DEF Batched
  <2> QED BY <1>1, <2>1 DEF Always, Conditions, Answers, Chosen, Caching, MaxHits
<1>4. Unentered' /\ Covered'
  BY <1>1, <1>2, <1>3 DEF Reuse, Unentered, Covered
<1>5. LeadFirst'
  BY <1>1, <1>2, <1>3 DEF Reuse, LeadFirst, IsLead, Caching
<1>6. Aged' /\ Refreshed'
  BY <1>1, <1>2, <1>3 DEF Reuse, Aged, Refreshed
<1> QED BY <1>4, <1>5, <1>6 DEF Reuse

\* The first call at a sigma closes the step before it: the refresh is forced
\* as soon as the hits have reached the limit.
LEMMA EnterSigmaStep == EasyInv /\ WindowInv /\ FreshInv /\ EnterSigma => Reuse'
<1> SUFFICES ASSUME EasyInv, WindowInv, FreshInv, EnterSigma PROVE Reuse'
  OBVIOUS
<1>1. /\ stage = "entered" /\ stage' \in {"ending", "gate"} /\ key' = visit
      /\ UNCHANGED <<config, visit, active, asked, pass, call, caches, hits, disabled>>
  BY DEF EnterSigma, sampler, predictor
<1>2. /\ visit \in Nat /\ caches \in [Uuids -> Nat] /\ call \in CallShapes
      /\ Unentered /\ Covered /\ LeadFirst /\ Aged /\ Refreshed /\ Batched
      /\ first \in Uuids \cup {NoUuid} /\ Caching
  BY <1>1 DEF EasyInv, Shape, CallOf, FreshInv, Reuse, Caching
<1>3. /\ Always' = Always /\ Always \subseteq Uuids /\ Answers' = Answers /\ Caching'
      /\ MaxHits' = MaxHits
  BY <1>1, <1>2 DEF Always, Conditions, Answers, Caching, MaxHits, Batched
<1>4. CASE key = visit
  <2>1. UNCHANGED <<decision, candidate, force>>
    BY <1>4 DEF EnterSigma
  <2>2. (Chosen' <=> Chosen)
    BY <1>1, <1>4, <2>1 DEF Chosen
  <2>3. Chosen /\ pass = 1 => first' = first
    <3>1. first = NoUuid => first \notin Uuids
      BY EasyAssumption DEF NoUuid
    <3>2. Chosen /\ pass = 1 => first \in Uuids
      BY <1>2 DEF LeadFirst, Batched
    <3> QED BY <1>2, <3>1, <3>2 DEF EnterSigma
  <2>4. Unentered' /\ Covered' /\ Refreshed'
    BY <1>1, <1>2, <1>3, <1>4, <2>1, <2>2 DEF Unentered, Covered, Refreshed, Caching
  <2>5. LeadFirst'
    BY <1>1, <1>2, <1>3, <1>4, <2>1, <2>2, <2>3 DEF LeadFirst, IsLead
  <2>6. Aged'
    BY <1>1, <1>2, <1>3, <1>4, <2>1, <2>2 DEF Aged
  <2> QED BY <2>4, <2>5, <2>6 DEF Reuse
<1>5. CASE key # visit
  <2>1. /\ force' = (IF candidate THEN hits >= MaxHits ELSE force)
        /\ decision' = "none" /\ candidate' = FALSE
    BY <1>5 DEF EnterSigma
  <2>2. Answers = {} /\ (pass > 1 => active = {})
    BY <1>2, <1>5 DEF Unentered
  <2>3. ~Chosen'
    BY <2>1 DEF Chosen
  <2>4. Unentered' /\ Covered' /\ LeadFirst' /\ Refreshed'
    BY <1>1, <1>3, <2>1, <2>2, <2>3 DEF Unentered, Covered, LeadFirst, Refreshed
  <2>5. Aged'
    <3> SUFFICES ASSUME NEW u \in Always, caches[u] # 0
                 PROVE  \/ visit - caches[u] <= 1
                        \/ (force' <=> hits >= MaxHits) /\ visit - 1 - caches[u] <= hits
      BY <1>1, <1>3, <2>1, <2>3 DEF Aged
    <3>1. visit - caches[u] <= 1 \/ (candidate /\ visit - 1 - caches[u] <= hits)
      BY <1>2, <1>5 DEF Aged, Caching
    <3> QED BY <2>1, <3>1
  <2> QED BY <2>4, <2>5 DEF Reuse
<1> QED BY <1>4, <1>5

\* Where the cache is disabled, whatever the call answers.
LEMMA DisabledStep ==
  EasyInv /\ WindowInv /\ FreshInv /\ (Bypass \/ CacheFails \/ StoreRefused) => Reuse'
<1> SUFFICES ASSUME EasyInv, WindowInv, FreshInv, Bypass \/ CacheFails \/ StoreRefused
             PROVE  Reuse'
  OBVIOUS
<1>1. disabled' # "no" /\ stage' \in {"uncached", "sampling"}
  BY DEF Bypass, CacheFails, StoreRefused, DisableCache, Answered
<1>2. ~Caching'
  BY <1>1 DEF Caching
<1>3. CASE Bypass
  <2>1. LeadFirst /\ UNCHANGED <<key, visit, decision, candidate>>
    BY <1>3 DEF FreshInv, Reuse, Bypass, policy, sampler
  <2> QED BY <1>1, <1>2, <2>1, IdleReuse DEF LeadFirst, Chosen
<1>4. CASE CacheFails \/ StoreRefused
  <2>1. decision' = "refresh"
    BY <1>4 DEF CacheFails, StoreRefused, DisableCache
  <2> QED BY <1>1, <1>2, <2>1, IdleReuse DEF LeadFirst, Chosen
<1> QED BY <1>3, <1>4

\* The last step holds nothing and refreshes.
LEMMA LastStepStep == EasyInv /\ WindowInv /\ FreshInv /\ LastStep => Reuse'
<1> SUFFICES ASSUME EasyInv, WindowInv, FreshInv, LastStep PROVE Reuse'
  OBVIOUS
<1>1. /\ stage = "ending" /\ stage' = "last" /\ decision' = "refresh" /\ key = visit
      /\ \A u \in Uuids : caches'[u] = 0
      /\ UNCHANGED <<config, visit, active, asked, call, key>>
  BY DEF LastStep, ClearedPredictor, sampler, WindowInv, Placed
<1>2. Always' \subseteq Uuids /\ Answers' \subseteq Uuids /\ ~Chosen'
  BY <1>1 DEF Always, Conditions, Answers, FreshInv, Batched, Chosen
<1> QED BY <1>1, <1>2 DEF Reuse, Unentered, Covered, LeadFirst, Aged, Refreshed

\* The lead's decision: a prediction is one more hit than the steps before it
\* had, and only while they had fewer than the limit.
LEMMA GateStep == EasyInv /\ WindowInv /\ FreshInv /\ Gate => Reuse'
<1> SUFFICES ASSUME EasyInv, WindowInv, FreshInv, Gate PROVE Reuse'
  OBVIOUS
<1>1. /\ stage = "gate" /\ stage' \in {"apply", "exact"} /\ key = visit
      /\ UNCHANGED <<config, visit, active, asked, pass, call, first, key, candidate, force, hits,
                     disabled>>
      /\ decision \in {"none", "candidate", "refresh"}
  BY DEF Gate, sampler, WindowInv, Placed
<1>2. /\ decision' = decision \/ (decision = "none" /\ IsLead)
      /\ \/ decision = "none" /\ decision' = "candidate" => stage' = "apply" /\ ~force
         \/ decision # "none"
      /\ decision = "candidate" /\ CanApply => stage' = "apply"
      /\ decision = "none" /\ IsLead => decision' \in {"candidate", "refresh"}
      /\ decision = "none" /\ IsLead /\ stage' = "exact" => decision' = "refresh"
      /\ decision' = "none" => decision = "none"
  BY <1>1 DEF Gate, LeadMayPredict
<1>3. /\ \A u \in Uuids : caches'[u] \in {0, caches[u]}
      /\ decision' # "refresh" => \A u \in Uuids : caches'[u] = caches[u]
  BY DEF Gate
<1>4. /\ visit \in Nat /\ caches \in [Uuids -> Nat] /\ hits \in Nat /\ pass \in Nat \ {0}
      /\ Unentered /\ Covered /\ LeadFirst /\ Aged /\ Refreshed /\ Caching
      /\ Members(call) \subseteq asked /\ asked \subseteq active /\ active \subseteq Uuids
      /\ Always \subseteq Uuids
  BY <1>1 DEF EasyInv, Shape, CallOf, FreshInv, Batched, Reuse, Caching, Always
<1>5. /\ Always' = Always /\ Answers' = Answers /\ Caching' /\ (IsLead' <=> IsLead)
      /\ MaxHits' = MaxHits /\ Answers \subseteq Uuids
  BY <1>1, <1>4 DEF Always, Conditions, Answers, Caching, MaxHits, IsLead
<1>6. Unentered' /\ Covered'
  BY <1>1, <1>2, <1>3, <1>4, <1>5 DEF Unentered, Covered
<1>7. LeadFirst'
  <2>1. Chosen' => candidate \/ (stage' = "apply" /\ IsLead)
    BY <1>1, <1>2, <1>4 DEF LeadFirst, Chosen
  <2>2. Chosen' /\ pass = 1 => first \in asked
    BY <1>1, <1>2, <1>4 DEF LeadFirst, Chosen, IsLead
  <2>3. stage' = "exact" /\ IsLead => decision' = "refresh"
    <3> SUFFICES ASSUME stage' = "exact", IsLead, decision = "candidate" PROVE FALSE
      BY <1>1, <1>2
    <3>1. pass # 1
      BY <1>1, <1>4 DEF LeadFirst, Chosen
    <3>2. \A u \in active : caches[u] # 0
      BY <1>4, <3>1 DEF Covered
    <3>3. CanApply
      BY <1>4, <3>2 DEF CanApply
    <3> QED BY <1>1, <1>2, <3>3
  <2>4. decision' = "none" => ~candidate
    BY <1>1, <1>2, <1>4 DEF LeadFirst
  <2> QED BY <1>1, <1>5, <2>1, <2>2, <2>3, <2>4 DEF LeadFirst
<1>8. Aged'
  <2> SUFFICES ASSUME NEW u \in Always, caches'[u] # 0
               PROVE  /\ decision' = "none" =>
                           \/ visit - caches'[u] <= 1
                           \/ (force <=> hits >= MaxHits) /\ visit - 1 - caches'[u] <= hits
                      /\ decision' = "candidate" =>
                           /\ visit - caches'[u] <= MaxHits
                           /\ \/ caches'[u] = visit
                              \/ visit - caches'[u] <= hits + (IF candidate THEN 0 ELSE 1)
    BY <1>1, <1>5 DEF Aged, Chosen
  <2>1. caches'[u] = caches[u] /\ caches[u] \in Nat
    BY <1>3, <1>4
  <2>2. decision = "none" =>
          \/ visit - caches[u] <= 1
          \/ (force <=> hits >= MaxHits) /\ visit - 1 - caches[u] <= hits
    BY <1>1, <1>4, <2>1 DEF Aged
  <2>3. decision = "candidate" =>
          /\ visit - caches[u] <= MaxHits
          /\ caches[u] = visit \/ visit - caches[u] <= hits + (IF candidate THEN 0 ELSE 1)
    BY <1>1, <1>4, <2>1 DEF Aged, Chosen
  <2>4. CASE decision = "none" /\ decision' = "candidate"
    <3>1. ~force /\ ~candidate
      BY <1>1, <1>2, <1>4, <2>4 DEF LeadFirst
    <3>2. visit - caches[u] <= 1 \/ (hits < MaxHits /\ visit - 1 - caches[u] <= hits)
      BY <1>4, <2>2, <2>4, <3>1, HitsBounded
    <3> QED BY <1>4, <2>1, <2>4, <3>1, <3>2, HitsBounded
  <2>5. CASE ~(decision = "none" /\ decision' = "candidate")
    BY <1>2, <2>1, <2>2, <2>3, <2>5
  <2> QED BY <2>4, <2>5
<1>9. Refreshed'
  BY <1>1, <1>2, <1>3, <1>4, <1>5 DEF Refreshed, Chosen
<1> QED BY <1>6, <1>7, <1>8, <1>9 DEF Reuse

LEMMA ApplyStep == EasyInv /\ WindowInv /\ FreshInv /\ ApplyPrediction => Reuse'
<1> SUFFICES ASSUME EasyInv, WindowInv, FreshInv, ApplyPrediction PROVE Reuse'
  OBVIOUS
<1>1. /\ stage = "apply" /\ stage' = "sampling" /\ call' = << >>
      /\ candidate' = TRUE /\ hits' = (IF IsLead THEN hits + 1 ELSE hits)
      /\ UNCHANGED <<config, visit, active, asked, pass, caches, first, key, decision, disabled>>
  BY DEF ApplyPrediction, Answered, sampler, predictor
<1>2. /\ visit \in Nat /\ caches \in [Uuids -> Nat] /\ hits \in Nat /\ Caching
      /\ Unentered /\ Covered /\ LeadFirst /\ Aged /\ Refreshed /\ Chosen /\ CanApply
      /\ Always \subseteq Uuids
  BY <1>1 DEF EasyInv, Shape, CallOf, FreshInv, Batched, Reuse, Caching, WindowInv, ApplyChosen,
     Always
<1>3. /\ Always' = Always /\ Answers' \subseteq Answers \cup Members(call) /\ Caching' /\ Chosen'
      /\ MaxHits' = MaxHits
  BY <1>1, <1>2 DEF Always, Conditions, Answers, Caching, MaxHits, Chosen
<1>4. Unentered' /\ Covered'
  BY <1>1, <1>2, <1>3 DEF Unentered, Covered, Chosen, CanApply
<1>5. LeadFirst'
  BY <1>1, <1>2, <1>3 DEF LeadFirst, Chosen
<1>6. Aged'
  <2> SUFFICES ASSUME NEW u \in Always, caches[u] # 0
               PROVE  /\ visit - caches[u] <= MaxHits
                      /\ caches[u] = visit \/ visit - caches[u] <= hits'
    BY <1>1, <1>2, <1>3 DEF Aged, Chosen
  <2>1. /\ visit - caches[u] <= MaxHits
        /\ caches[u] = visit \/ visit - caches[u] <= hits + (IF candidate THEN 0 ELSE 1)
    BY <1>2 DEF Aged
  <2>2. candidate \/ IsLead
    BY <1>1, <1>2 DEF LeadFirst
  <2>3. caches[u] \in Nat
    BY <1>2
  <2> QED BY <1>1, <1>2, <2>1, <2>2, <2>3
<1>7. Refreshed'
  BY <1>3 DEF Refreshed
<1> QED BY <1>4, <1>5, <1>6, <1>7 DEF Reuse

LEMMA ModelReturnsStep == EasyInv /\ WindowInv /\ FreshInv /\ ModelReturns => Reuse'
<1> SUFFICES ASSUME EasyInv, WindowInv, FreshInv, ModelReturns PROVE Reuse'
  OBVIOUS
<1>1. /\ UNCHANGED <<config, visit, active, asked, pass, caches, first, key, decision, candidate,
                     force, hits>>
      /\ stage \in {"uncached", "last", "exact"} /\ stage' \in {"store", "sampling"}
      /\ LeadFirst /\ Batched
  BY DEF ModelReturns, Answered, sampler, predictor, policy, FreshInv, Reuse
<1>2. CASE stage' = "store"
  <2>1. stage = "exact" /\ UNCHANGED <<call, disabled>>
    BY <1>2 DEF ModelReturns, Answered
  <2>2. /\ Always' = Always /\ Answers' = Answers /\ (Caching' <=> Caching)
        /\ (Chosen' <=> Chosen) /\ MaxHits' = MaxHits /\ (IsLead' <=> IsLead)
    BY <1>1, <1>2, <2>1 DEF Always, Conditions, Answers, Caching, Chosen, MaxHits, IsLead
  <2>3. Unentered' /\ Covered' /\ Refreshed'
    BY <1>1, <2>2 DEF FreshInv, Reuse, Unentered, Covered, Refreshed
  <2>4. LeadFirst'
    BY <1>1, <1>2, <2>1, <2>2 DEF LeadFirst
  <2>5. Aged'
    BY <1>1, <2>2 DEF FreshInv, Reuse, Aged
  <2> QED BY <2>3, <2>4, <2>5 DEF Reuse
<1>3. CASE stage' = "sampling" /\ disabled' # "no"
  <2>1. ~Caching'
    BY <1>3 DEF Caching
  <2> QED BY <1>1, <1>3, <2>1, IdleReuse DEF LeadFirst, Chosen
<1>4. CASE stage' = "sampling" /\ disabled' = "no"
  <2>1. stage = "last" /\ key = visit
    BY <1>1, <1>4 DEF ModelReturns, Batched, WindowInv, Placed
  <2>2. decision = "refresh" /\ \A u \in Uuids : caches[u] = 0
    BY <1>1, <2>1 DEF LeadFirst, EasyInv, ClearedOf, Cleared
  <2>3. ~Chosen' /\ Always' \subseteq Uuids /\ Answers' \subseteq Uuids
    BY <1>1, <2>2 DEF Chosen, Always, Conditions, Answers, Batched
  <2> QED BY <1>1, <1>4, <2>1, <2>2, <2>3
          DEF Reuse, Unentered, Covered, LeadFirst, Aged, Refreshed
<1> QED BY <1>1, <1>2, <1>3, <1>4

\* A lead that is stored has refreshed the whole sigma: no entry is left to
\* its old count.
LEMMA StoreStep == EasyInv /\ WindowInv /\ FreshInv /\ Store => Reuse'
<1> SUFFICES ASSUME EasyInv, WindowInv, FreshInv, Store PROVE Reuse'
  OBVIOUS
<1>1. /\ stage = "store" /\ stage' = "sampling" /\ call' = << >> /\ key = visit /\ visit # 0
      /\ ~IsLead => UNCHANGED <<force, hits>>
      /\ UNCHANGED <<config, visit, active, asked, pass, first, key, decision, candidate, disabled>>
  BY DEF Store, Answered, sampler, WindowInv, Placed, Stages
<1>2. /\ visit \in Nat /\ caches \in [Uuids -> Nat] /\ hits \in Nat
      /\ Unentered /\ Covered /\ LeadFirst /\ Aged /\ Refreshed
      /\ Members(call) \subseteq asked /\ asked \subseteq active /\ active \subseteq Uuids
      /\ Always \subseteq Uuids
  BY DEF EasyInv, Shape, FreshInv, Batched, Reuse, Always
<1>3. \A u \in Uuids : caches'[u] = (IF u \in Members(call) THEN visit ELSE caches[u])
  BY DEF Store
<1>4. /\ Always' = Always /\ Answers' = asked /\ asked \subseteq Answers \cup Members(call)
      /\ (Caching' <=> Caching) /\ (Chosen' <=> Chosen) /\ MaxHits' = MaxHits
  <2>1. Members(call)' = {}
    BY <1>1, NoMembers
  <2> QED BY <1>1, <2>1 DEF Always, Conditions, Answers, Caching, Chosen, MaxHits
<1>5. IsLead => decision = "refresh"
  BY <1>1, <1>2 DEF LeadFirst
<1>6. Unentered'
  BY <1>1 DEF Unentered
<1>7. Covered'
  BY <1>1, <1>2, <1>3, <1>4 DEF Covered
<1>8. LeadFirst'
  BY <1>1, <1>2, <1>4 DEF LeadFirst
<1>9. Aged'
  <2> SUFFICES ASSUME Caching, NEW u \in Always, caches'[u] # 0
               PROVE  /\ decision = "none" =>
                           \/ visit - caches'[u] <= 1
                           \/ (force' <=> hits' >= MaxHits) /\ visit - 1 - caches'[u] <= hits'
                      /\ Chosen =>
                           /\ visit - caches'[u] <= MaxHits
                           /\ \/ caches'[u] = visit
                              \/ visit - caches'[u] <= hits' + (IF candidate THEN 0 ELSE 1)
    BY <1>1, <1>4 DEF Aged
  <2>1. CASE u \in Members(call)
    <3>1. caches'[u] = visit /\ visit - visit = 0
      BY <1>2, <1>3, <2>1
    <3> QED BY <3>1, HitsBounded
  <2>2. CASE u \notin Members(call) /\ decision # "refresh"
    <3>1. caches'[u] = caches[u] /\ force' = force /\ hits' = hits
      BY <1>1, <1>2, <1>3, <1>5, <2>2
    <3> QED BY <1>1, <1>2, <3>1 DEF Aged
  <2>3. CASE decision = "refresh"
    BY <2>3 DEF Chosen
  <2> QED BY <2>1, <2>2, <2>3
<1>10. Refreshed'
  BY <1>1, <1>2, <1>3, <1>4 DEF Refreshed
<1> QED BY <1>6, <1>7, <1>8, <1>9, <1>10 DEF Reuse

LEMMA FreshStep == EasyInv /\ WindowInv /\ FreshInv /\ [Next]_vars => FreshInv'
<1> SUFFICES ASSUME EasyInv, WindowInv, FreshInv, [Next]_vars PROVE FreshInv'
  OBVIOUS
<1>1. CASE Next
  <2>1. Reuse'
    BY <1>1, BoundaryStep, NextSigmaStep, EvaluateAgainStep, BeginCallStep, EnterSigmaStep,
       DisabledStep, LastStepStep, GateStep, ApplyStep, ModelReturnsStep, StoreStep
       DEF Next, Sampler, Call
  <2> QED BY <1>1, <2>1, BatchedStep DEF FreshInv
<1>2. CASE UNCHANGED vars
  <2>1. /\ UNCHANGED <<config, visit, active, asked, pass, stage, call, caches, first, key>>
        /\ UNCHANGED <<decision, candidate, force, hits, disabled>>
    BY <1>2 DEF vars, sampler, predictor, policy
  <2>2. /\ Conditions' = Conditions /\ Always' = Always /\ Answers' = Answers
        /\ (Caching' <=> Caching) /\ (Chosen' <=> Chosen) /\ (IsLead' <=> IsLead)
        /\ MaxHits' = MaxHits /\ Members(call)' = Members(call)
    BY <2>1 DEF Conditions, Always, Answers, Caching, Chosen, IsLead, MaxHits
  <2>3. Batched'
    BY <2>1, <2>2 DEF FreshInv, Batched
  <2>4. Unentered' /\ Covered' /\ Refreshed'
    BY <2>1, <2>2 DEF FreshInv, Reuse, Unentered, Covered, Refreshed
  <2>5. LeadFirst'
    BY <2>1, <2>2 DEF FreshInv, Reuse, LeadFirst
  <2>6. Aged'
    BY <2>1, <2>2 DEF FreshInv, Reuse, Aged
  <2> QED BY <2>3, <2>4, <2>5, <2>6 DEF FreshInv, Reuse
<1> QED BY <1>1, <1>2

LEMMA FreshInvariant == Spec => []FreshInv
<1>1. EasyInv /\ WindowInv /\ FreshInv /\ [Next]_vars => FreshInv'
  BY FreshStep
<1> QED BY <1>1, InitFresh, EasyInvariant, WindowInvariant, PTL DEF Spec

\* No condition that takes part in every step is answered from an entry older
\* than the steps the profile may reuse, for any batches, schedules, samplers
\* and numbers of evaluations at a sigma.
THEOREM FreshCorrect == Spec => []PredictionsFresh
<1>1. EasyInv /\ WindowInv /\ FreshInv => PredictionsFresh
  <2> SUFFICES ASSUME EasyInv, WindowInv, FreshInv, stage = "apply",
                      NEW u \in Members(call) \ Optional
               PROVE  visit - caches[u] <= MaxHits
    BY DEF PredictionsFresh
  <2>1. Chosen /\ caches[u] # 0
    BY DEF WindowInv, ApplyChosen, CanApply
  <2>2. u \in Always
    BY DEF FreshInv, Batched, Always
  <2>3. Caching
    BY DEF EasyInv, CallOf, Caching
  <2> QED BY <2>1, <2>2, <2>3 DEF FreshInv, Reuse, Aged
<1> QED BY <1>1, EasyInvariant, WindowInvariant, FreshInvariant, PTL
=============================================================================
