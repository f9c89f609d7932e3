--------------------------- MODULE GraphAttention ---------------------------
(***************************************************************************)
(* One dual attention call under the cudaMallocAsync allocation graph:     *)
(* graph_capacity.py acquires QKV storage on both GPUs before the call is  *)
(* admitted, graph_attention.py drives the second GPU through an actor     *)
(* that lives on one worker thread, and dual_attention.py gives the        *)
(* storage back.  The threads share three pinned host buffers that         *)
(* asynchronous copies read and write until a synchronize.                 *)
(*                                                                         *)
(* Abstracted: a buffer, a device tensor or a target range is the name of  *)
(* what was copied into it last; capacity plans are a free choice.  The    *)
(* run lock around the call is the one of DualAttention.                   *)
(***************************************************************************)
EXTENDS Naturals, Sequences, FiniteSets

CONSTANTS
  Chunks,      \* input chunks of the attention input
  RopeChunks,  \* chunks of the rotary table
  Ranges,      \* query ranges of the target
  Splits,      \* head splits _candidate_heads lists, best balanced first
  MaxCalls     \* bound: calls the run explores

ASSUME GraphAssumption ==
  /\ Chunks \in Nat \ {0}
  /\ RopeChunks \in Nat \ {0}
  /\ Ranges \in Nat \ {0}
  /\ Splits \in Nat
  /\ MaxCalls \in Nat

VARIABLES
  calls,      \* calls begun
  route,      \* of the current call: sparse Sol or exact, with or without RoPE
  main,       \* where the main thread stands
  candidate,  \* the head split being tried
  trimmed,    \* trimmed_secondary
  workspace,  \* split the SecondaryQKV owner holds storage for, 0 is none
  step,       \* position in the script of requests
  task,       \* the request on the worker thread
  reply,      \* how far its future is, or its result until it is read
  flight,     \* asynchronous copies that have not completed
  host,       \* what each pinned buffer holds
  returned,   \* values['returned']: the secondary half back on the primary
  items,      \* actor.items, and the rows of x and rope copied so far
  qkv,        \* actor.qkv: None, or the chunks projected into it
  audio,      \* actor.audio
  stream,     \* actor.sol_stream
  target,     \* per range: Nothing yet written, or the secondary half it adds
  outcome     \* how the last call ended

acquisition == <<candidate, trimmed, workspace>>
transfer == <<flight, host, returned>>
actor == <<items, qkv, audio, stream>>
exchange == <<task, reply>>
progress == <<calls, route, step>>
vars == <<progress, main, acquisition, exchange, transfer, actor, target, outcome>>

Buffers == {"raw", "input", "partial"}
Nothing == <<"nothing", 0>>
Weights == {"qkv_weight", "out_weight", "q_norm", "k_norm"}
Slots ==
  (Weights \X {1}) \cup ({"x"} \X (1..Chunks)) \cup ({"rope"} \X (1..RopeChunks))
PartialOf(i) == <<"range", i>>
RangeTags == {PartialOf(i) : i \in 1..Ranges}
Contents == Slots \cup RangeTags \cup {Nothing}
NoQkv == [held |-> FALSE, chunks |-> {}]

-----------------------------------------------------------------------------
(* The script: what run asks of the worker, in program order.              *)

Request(op, slot, buf) == [op |-> op, slot |-> slot, buf |-> buf]
Plain(op) == Request(op, Nothing, "none")
NoTask == Plain("none")
Each(n, Op(_)) == [i \in 1..n |-> Op(i)]

Put(name) == Request("put", <<name, 1>>, "raw")
CopyInput(i) == Request("slice", <<"x", i>>, "input")
CopyRope(i) == Request("slice", <<"rope", i>>, "raw")
ProjectChunk(i) == Request("chunk", <<"x", i>>, "input")
ComputeRange(i) == Request("range", PartialOf(i), "partial")

SolChunks == Each(Chunks, ProjectChunk)

Script(r) ==
  << Plain("adopt"), Put("qkv_weight"), Put("out_weight"), Put("q_norm"), Put("k_norm") >>
  \o (IF r.sol THEN << >> ELSE << Plain("allocate") >> \o Each(Chunks, CopyInput))
  \o (IF r.rope THEN << Plain("allocate") >> \o Each(RopeChunks, CopyRope) ELSE << >>)
  \o (IF r.sol THEN << Plain("allocate") >> \o SolChunks \o << Plain("release") >>
               ELSE << Plain("qkv") >>)
  \o << Plain("audio") >>
  \o (IF r.sol THEN << Plain("stream") >> ELSE << >>)
  \o Each(Ranges, ComputeRange)

Asked == Script(route)[step]
Sends(q) == q.op \in {"put", "slice", "chunk"}
\* The main thread computes its own half between submit and result.
Overlaps(q) == q.op \in {"chunk", "qkv", "audio", "stream", "range"}

Init ==
  /\ calls = 0
  /\ route = [sol |-> FALSE, rope |-> FALSE]
  /\ main = "idle"
  /\ candidate = 0 /\ trimmed = FALSE /\ workspace = 0
  /\ step = 1
  /\ task = NoTask /\ reply = "none"
  /\ flight = {}
  /\ host = [b \in Buffers |-> Nothing]
  /\ returned = Nothing
  /\ items = [s \in Slots |-> Nothing]
  /\ qkv = NoQkv /\ audio = FALSE /\ stream = FALSE
  /\ target = [i \in 1..Ranges |-> Nothing]
  /\ outcome = "none"

-----------------------------------------------------------------------------
(* graph_capacity.acquire: QKV storage before admission.                   *)

BeginCall ==
  /\ main = "idle" /\ calls < MaxCalls
  /\ calls' = calls + 1
  /\ \E sol, rope \in BOOLEAN : route' = [sol |-> sol, rope |-> rope]
  /\ main' = "primary"
  /\ candidate' = 1 /\ trimmed' = FALSE
  /\ step' = 1
  /\ target' = [i \in 1..Ranges |-> Nothing]
  /\ outcome' = "none"
  /\ UNCHANGED <<workspace, exchange, transfer, actor>>

\* The call leaves the dual route before anything was computed.
Leave(how) ==
  /\ main' = "idle"
  /\ outcome' = how
  /\ UNCHANGED <<progress, trimmed, exchange, transfer, actor, target>>

\* No pair to begin with, no split left, or an error outside the try of one.
GiveUp ==
  /\ main = "primary"
  /\ \/ Leave("raised")
     \/ candidate \in {1, Splits + 1} /\ Leave("fallback")
  /\ candidate' = 0 /\ UNCHANGED workspace

\* The primary QKV of a split is allocated, after a headroom request if the
\* first try found no memory.
AllocatePrimary ==
  /\ main = "primary" /\ candidate <= Splits
  /\ main' = "secondary"
  /\ UNCHANGED <<progress, acquisition, exchange, transfer, actor, target, outcome>>

\* The split cannot fit in principle, or the primary has no memory for it.
SkipSplit ==
  /\ main = "primary" /\ candidate <= Splits
  /\ candidate' = candidate + 1
  /\ UNCHANGED <<progress, main, trimmed, workspace, exchange, transfer, actor, target, outcome>>

\* acquire_secondary on the worker: storage, or one trim of the worker's
\* cache and another try, or the next split.
AcquireSecondary ==
  /\ main = "secondary" /\ workspace = 0
  /\ \/ workspace' = candidate /\ UNCHANGED <<main, candidate, trimmed>>
     \/ ~trimmed /\ trimmed' = TRUE /\ UNCHANGED <<main, candidate, workspace>>
     \/ /\ trimmed
        /\ main' = "primary" /\ candidate' = candidate + 1
        /\ UNCHANGED <<trimmed, workspace>>
  /\ UNCHANGED <<progress, exchange, transfer, actor, target, outcome>>

\* Both devices own their QKV and the rest of the peak fits.
AdmitOwned ==
  /\ main = "secondary" /\ workspace # 0
  /\ main' = "pool"
  /\ trimmed' \in {trimmed, TRUE}
  /\ UNCHANGED <<progress, candidate, workspace, exchange, transfer, actor, target, outcome>>

\* The remainder does not fit even after a trim: the finally clause releases
\* the storage and the next split is tried.
RefuseOwned ==
  /\ main = "secondary" /\ workspace # 0
  /\ trimmed' \in {trimmed, TRUE}
  /\ main' = "primary" /\ candidate' = candidate + 1
  /\ workspace' = 0
  /\ UNCHANGED <<progress, exchange, transfer, actor, target, outcome>>

\* Anything else that is raised for a split: same finally, acquire fails.
AcquireRaises ==
  /\ main = "secondary"
  /\ Leave("raised")
  /\ candidate' = 0 /\ workspace' = 0

\* dual_attention.run: the host pool is made to match, or the transaction is
\* left or raises before CUDA work; both go through the release of storage.
PreparePool ==
  /\ main = "pool"
  /\ \/ main' = "fill" /\ UNCHANGED outcome
     \/ main' = "freeing" /\ outcome' \in {"fallback", "retry"}
  /\ UNCHANGED <<progress, acquisition, exchange, transfer, actor, target>>

-----------------------------------------------------------------------------
(* Asynchronous copies.                                                    *)

ToHost(device, content, buf) ==
  [device |-> device, kind |-> "to host", content |-> content, buf |-> buf]
ToDevice(slot, buf) ==
  [device |-> "secondary", kind |-> "to device", content |-> slot, buf |-> buf]
ToReturned ==
  [device |-> "primary", kind |-> "to returned", content |-> Nothing, buf |-> "partial"]

\* Mutant: the worker returns without waiting for its copies.
DrainedOnPrimary(device) == device = "primary" => \A c \in flight : c.device # device

\* torch.cuda.synchronize(device) returns, or raises in a clean-up: a device
\* that has failed runs no more copies either.
Drained(device) == \A c \in flight : c.device # device

\* A copy completes: only now is its source read and its target written.
CopyCompletes(c) ==
  /\ c \in flight
  /\ flight' = flight \ {c}
  /\ CASE c.kind = "to host" ->
            host' = [host EXCEPT ![c.buf] = c.content] /\ UNCHANGED <<items, returned>>
       [] c.kind = "to device" ->
            items' = [items EXCEPT ![c.content] = host[c.buf]] /\ UNCHANGED <<host, returned>>
       [] OTHER ->
            returned' = host[c.buf] /\ UNCHANGED <<host, items>>
  /\ UNCHANGED <<progress, main, acquisition, exchange, qkv, audio, stream, target, outcome>>

-----------------------------------------------------------------------------
(* The worker thread: _secondary_worker around one method of the actor.    *)

Answer(how) == reply' = how /\ task' = NoTask

\* Copies are issued; the method ends when they are drained.
WorkerIssues ==
  /\ task.op \in {"put", "slice", "chunk", "range"} /\ reply = "none"
  /\ flight' = flight \cup
       {IF Sends(task) THEN ToDevice(task.slot, task.buf)
                       ELSE ToHost("secondary", task.slot, task.buf)}
  /\ reply' = "issued"
  /\ UNCHANGED <<progress, main, acquisition, task, host, returned, actor, target, outcome>>

WorkerDrains ==
  /\ reply = "issued" /\ Drained("secondary")
  /\ qkv' = IF task.op = "chunk"
            THEN [held |-> TRUE, chunks |-> qkv.chunks \cup {items[task.slot][2]}]
            ELSE qkv
  /\ Answer("ok")
  /\ UNCHANGED <<progress, main, acquisition, transfer, items, audio, stream, target, outcome>>

DropInputs == items' = [s \in Slots |-> IF s[1] = "out_weight" THEN items[s] ELSE Nothing]

\* The other methods.
WorkerComputes ==
  /\ reply = "none"
  /\ \/ /\ task.op = "adopt" /\ workspace # 0
        /\ qkv' = [held |-> TRUE, chunks |-> {}] /\ UNCHANGED <<items, audio, stream>>
     \/ /\ task.op = "qkv"
        /\ qkv' = [held |-> TRUE, chunks |-> {items[<<"x", i>>][2] : i \in 1..Chunks}]
        /\ DropInputs /\ UNCHANGED <<audio, stream>>
     \/ task.op = "release" /\ DropInputs /\ UNCHANGED <<qkv, audio, stream>>
     \/ task.op = "allocate" /\ UNCHANGED actor
     \/ task.op = "audio" /\ audio' = TRUE /\ UNCHANGED <<items, qkv, stream>>
     \/ task.op = "stream" /\ stream' = TRUE /\ UNCHANGED <<items, qkv, audio>>
  /\ Answer("ok")
  /\ UNCHANGED <<progress, main, acquisition, transfer, target, outcome>>

\* A method raises, and only its class and message reach the main thread: before
\* it has issued its copy, or with the copy under way and nobody waiting for it,
\* as when the projection of a chunk fails after the copy of its input.
WorkerRaises ==
  /\ task.op \notin {"none", "reset", "free"} /\ reply \in {"none", "issued"}
  /\ Answer("error")
  /\ UNCHANGED <<progress, main, acquisition, transfer, actor, target, outcome>>

\* Closing the Sol stream may raise; everything is dropped nonetheless.
DropActor ==
  /\ items' = [s \in Slots |-> Nothing]
  /\ qkv' = NoQkv /\ audio' = FALSE /\ stream' = FALSE
  /\ reply' \in {"ok", "error"} /\ task' = NoTask

\* Mutant: reset does not synchronize the device.
WorkerResetsUndrained ==
  /\ task.op = "reset" /\ reply = "none"
  /\ DropActor
  /\ UNCHANGED <<progress, main, acquisition, transfer, target, outcome>>

\* reset: whatever a failed request has left under way ends before it answers.
WorkerResets ==
  /\ task.op = "reset" /\ reply = "none" /\ Drained("secondary")
  /\ DropActor
  /\ UNCHANGED <<progress, main, acquisition, transfer, target, outcome>>

\* SecondaryQKV.release; an error of it is caught.
WorkerFrees ==
  /\ task.op = "free" /\ reply = "none" /\ Drained("secondary")
  /\ workspace' = 0
  /\ reply' \in {"ok", "error"} /\ task' = NoTask
  /\ UNCHANGED <<progress, main, candidate, trimmed, transfer, actor, target, outcome>>

-----------------------------------------------------------------------------
(* The main thread: graph_attention.run and the finally clauses around it. *)

\* stage, or the copy of a chunk: the pinned buffer is about to be filled.
FillBuffer ==
  /\ main = "fill" /\ Sends(Asked)
  /\ flight' = flight \cup {ToHost("primary", Asked.slot, Asked.buf)}
  /\ main' = "filled"
  /\ UNCHANGED <<progress, acquisition, exchange, host, returned, actor, target, outcome>>

\* The buffer is synchronised if there is one, and the request submitted.
Submit ==
  /\ \/ main = "filled" /\ Drained("primary")
     \/ main = "fill" /\ ~Sends(Asked)
  /\ task' = Asked /\ reply' = "none"
  /\ main' = IF Overlaps(Asked) THEN "compute" ELSE "await"
  /\ UNCHANGED <<progress, acquisition, transfer, actor, target, outcome>>

ComputeOwn ==
  /\ main = "compute"
  /\ main' = "await"
  /\ UNCHANGED <<progress, acquisition, exchange, transfer, actor, target, outcome>>

\* Mutant: the last range is taken for written when the one before it is.
AdvanceEarly ==
  IF step < Len(Script(route)) - 1
  THEN step' = step + 1 /\ main' = "fill" /\ UNCHANGED outcome
  ELSE main' = "closing" /\ outcome' = "done" /\ UNCHANGED step

Advance ==
  IF step < Len(Script(route))
  THEN step' = step + 1 /\ main' = "fill" /\ UNCHANGED outcome
  ELSE main' = "closing" /\ outcome' = "done" /\ UNCHANGED step

\* The future's result arrives; a range is then copied back to the primary.
TakeReply ==
  /\ main = "await" /\ reply = "ok"
  /\ reply' = "none"
  /\ IF Asked.op = "range"
     THEN /\ flight' = flight \cup {ToReturned}
          /\ main' = "returning"
          /\ UNCHANGED <<step, outcome>>
     ELSE Advance /\ UNCHANGED flight
  /\ UNCHANGED <<calls, route, acquisition, task, host, returned, actor, target>>

\* The two halves are added into the target.
AddRange ==
  /\ main = "returning" /\ Drained("primary")
  /\ target' = [target EXCEPT ![Asked.slot[2]] = returned]
  /\ Advance
  /\ UNCHANGED <<calls, route, acquisition, exchange, transfer, actor>>

\* The main thread's own work raises, perhaps with a request outstanding, or
\* a failed future does, or the two Sol streams disagree about the range.
RunRaises ==
  /\ \/ main \in {"fill", "filled", "compute", "returning"} /\ UNCHANGED reply
     \/ main = "await" /\ reply = "error" /\ reply' = "none"
     \/ main = "await" /\ reply = "ok" /\ Asked.op = "range" /\ route.sol /\ reply' = "none"
  /\ main' = "closing" /\ outcome' = "retry"
  /\ UNCHANGED <<progress, acquisition, task, transfer, actor, target>>

\* Mutant: finally waits for a result a failed future does not have.
ResetActorDelivered ==
  /\ main = "closing" /\ task = NoTask /\ reply # "error"
  /\ task' = Plain("reset") /\ reply' = "none"
  /\ main' = "resetting"
  /\ UNCHANGED <<progress, acquisition, transfer, actor, target, outcome>>

\* finally: the pending future has ended, whatever became of it, then the
\* actor is reset on its own thread.
ResetActor ==
  /\ main = "closing" /\ task = NoTask
  /\ task' = Plain("reset") /\ reply' = "none"
  /\ main' = "resetting"
  /\ UNCHANGED <<progress, acquisition, transfer, actor, target, outcome>>

\* The primary's stream and weight were closed before the reset; what any of
\* the three raised is raised now, after a whole target too.
LeaveRun ==
  /\ main = "resetting" /\ reply \in {"ok", "error"}
  /\ reply' = "none"
  /\ main' = "freeing"
  /\ outcome' \in {"retry"} \cup (IF reply = "ok" THEN {outcome} ELSE {})
  /\ UNCHANGED <<progress, acquisition, task, transfer, actor, target>>

\* dual_attention.run's finally: the secondary storage is released on the
\* worker, then the values are dropped and the primary synchronised.
ReleaseStorage ==
  /\ main = "freeing"
  /\ task' = Plain("free") /\ reply' = "none"
  /\ main' = "freed"
  /\ UNCHANGED <<progress, acquisition, transfer, actor, target, outcome>>

\* A device failure during the clean-up is raised instead of the outcome.
EndCall ==
  /\ main = "freed" /\ reply \in {"ok", "error"} /\ Drained("primary")
  /\ reply' = "none"
  /\ main' = "idle"
  /\ candidate' = 0
  /\ returned' = Nothing
  /\ outcome' \in {outcome, "fatal"}
  /\ UNCHANGED <<progress, trimmed, workspace, task, flight, host, actor, target>>

-----------------------------------------------------------------------------
Acquire ==
  \/ GiveUp \/ AllocatePrimary \/ SkipSplit \/ AcquireSecondary
  \/ AdmitOwned \/ RefuseOwned \/ AcquireRaises
Run ==
  \/ PreparePool \/ FillBuffer \/ Submit \/ ComputeOwn \/ TakeReply \/ AddRange
  \/ RunRaises \/ ResetActor \/ LeaveRun \/ ReleaseStorage \/ EndCall
Worker ==
  \/ WorkerIssues \/ WorkerDrains \/ WorkerComputes \/ WorkerRaises
  \/ WorkerResets \/ WorkerFrees
Copies == \E c \in flight : CopyCompletes(c)

Next == BeginCall \/ Acquire \/ Run \/ Worker \/ Copies

\* The main thread keeps executing a call, the worker thread its queue and
\* the devices their copies; nothing obliges the sampler to make a call.
Fairness == WF_vars(Acquire \/ Run) /\ WF_vars(Worker) /\ WF_vars(Copies)

Spec == Init /\ [][Next]_vars
FairSpec == Spec /\ Fairness

-----------------------------------------------------------------------------
(* Properties.                                                             *)

\* A pinned buffer is never refilled under a copy that still uses it: every
\* weight, chunk and RoPE slice on the second GPU is the one staged for it,
\* and a target range only ever adds the secondary half of that range.  Audio
\* rows, Sol routes and query ranges are computed from a complete Q/K/V with
\* its output weight in place.
TransfersExact ==
  /\ \A s \in Slots : items[s] \in {Nothing, s}
  /\ \A i \in 1..Ranges : target[i] \in {Nothing, PartialOf(i)}
  /\ task.op \in {"audio", "stream", "range"} =>
       qkv.chunks = 1..Chunks /\ items[<<"out_weight", 1>>] = <<"out_weight", 1>>

\* Between calls nothing of the second GPU is held, whatever ended the call:
\* no actor tensor, no storage, no request and no copy under way.  The owner of
\* the storage lets go only after the actor, or no memory would be returned,
\* and only after the copy that a failed request left under way has ended.
SecondaryReleased ==
  /\ qkv.held => workspace # 0
  /\ main \in {"freeing", "freed"} => \A c \in flight : c.device # "secondary"
  /\ main = "idle" =>
       /\ workspace = 0 /\ qkv = NoQkv /\ ~audio /\ ~stream
       /\ \A s \in Slots : items[s] = Nothing
       /\ task = NoTask /\ flight = {}

\* A committed call has added every range; a call that fell back or failed in
\* acquisition has not touched the target its fallback reads.
GraphOutputWhole ==
  /\ outcome = "done" => \A i \in 1..Ranges : target[i] = PartialOf(i)
  /\ outcome \in {"fallback", "raised"} => \A i \in 1..Ranges : target[i] = Nothing

\* Every call ends: the main thread never waits for a worker that will not
\* answer, nor the worker for a copy.
CallEnds == main # "idle" ~> main = "idle"
=============================================================================
