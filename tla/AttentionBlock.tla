--------------------------- MODULE AttentionBlock ---------------------------
(***************************************************************************)
(* What the dual-GPU route promises to the sampler, with the recovery      *)
(* machinery hidden: every attention block that starts either ends with    *)
(* one complete result, computed wholly by the GPU pair or wholly by the   *)
(* single-device path, or fails and closes its sample.  At most one thread *)
(* engages the pair, a pair result is delivered by the step that gives the *)
(* pair up, and the single-device path runs without holding it.            *)
(***************************************************************************)
CONSTANTS Threads,  \* sampler threads
          NoThread  \* nobody is engaged with the GPU pair

VARIABLES stage,    \* where each thread is in its sample
          outcome,  \* how the current block was computed
          engaged   \* the thread that holds the GPU pair

avars == <<stage, outcome, engaged>>

AbstractTypeOK ==
  /\ stage \in [Threads -> {"idle", "sampling", "block", "closing"}]
  /\ outcome \in [Threads -> {"none", "dual", "single"}]
  /\ engaged \in Threads \cup {NoThread}

AbstractInit ==
  /\ stage = [t \in Threads |-> "idle"]
  /\ outcome = [t \in Threads |-> "none"]
  /\ engaged = NoThread

Move(t, from, to) ==
  /\ stage[t] = from
  /\ stage' = [stage EXCEPT ![t] = to]

OpenSample(t) ==
  Move(t, "idle", "sampling") /\ UNCHANGED <<outcome, engaged>>

OpenBlock(t) ==
  /\ Move(t, "sampling", "block")
  /\ UNCHANGED <<outcome, engaged>>

Engage(t) ==
  /\ stage[t] \in {"block", "closing"}
  /\ outcome[t] = "none" \/ stage[t] = "closing"
  /\ engaged = NoThread
  /\ engaged' = t
  /\ UNCHANGED <<stage, outcome>>

\* The pair is given up, with the block computed or without a result.
Disengage(t) ==
  /\ engaged = t /\ stage[t] = "block"
  /\ engaged' = NoThread
  /\ outcome' \in {outcome, [outcome EXCEPT ![t] = "dual"]}
  /\ UNCHANGED stage

DisengageAndFail(t) ==
  /\ engaged = t
  /\ engaged' = NoThread
  /\ Move(t, "block", "closing")
  /\ outcome' = [outcome EXCEPT ![t] = "none"]

ComputeSingle(t) ==
  /\ stage[t] = "block" /\ engaged # t /\ outcome[t] = "none"
  /\ outcome' = [outcome EXCEPT ![t] = "single"]
  /\ UNCHANGED <<stage, engaged>>

CloseBlock(t) ==
  /\ engaged # t /\ outcome[t] # "none"
  /\ Move(t, "block", "sampling")
  /\ outcome' = [outcome EXCEPT ![t] = "none"]
  /\ UNCHANGED engaged

FailBlock(t) ==
  /\ engaged # t
  /\ Move(t, "block", "closing")
  /\ outcome' = [outcome EXCEPT ![t] = "none"]
  /\ UNCHANGED engaged

CloseSample(t) ==
  Move(t, "sampling", "closing") /\ UNCHANGED <<outcome, engaged>>

LeaveSample(t) ==
  /\ Move(t, "closing", "idle")
  /\ engaged' = IF engaged = t THEN NoThread ELSE engaged
  /\ UNCHANGED outcome

\* The steps that bring a started block to its end.
Advance(t) ==
  \/ Engage(t) \/ Disengage(t) \/ DisengageAndFail(t)
  \/ ComputeSingle(t) \/ CloseBlock(t) \/ FailBlock(t)

AbstractNext ==
  \E t \in Threads :
    Advance(t) \/ OpenSample(t) \/ OpenBlock(t) \/ CloseSample(t) \/ LeaveSample(t)

\* Every started block ends.
AbstractLiveness == \A t \in Threads : (stage[t] = "block") ~> (stage[t] # "block")

AbstractSafety == AbstractInit /\ [][AbstractNext]_avars
AbstractSpec == AbstractSafety /\ AbstractLiveness
=============================================================================
