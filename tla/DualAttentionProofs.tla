------------------------ MODULE DualAttentionProofs ------------------------
(***************************************************************************)
(* Proofs about DualAttention for any threads, states, devices, shapes and *)
(* range counts.                                                           *)
(***************************************************************************)
EXTENDS DualAttention, FiniteSetTheorems, TLAPS

\* What a thread's place in run says about its own locals: nothing of the
\* target is written outside the range loop and its consequences, a plan is
\* bound before the pool is prepared, and a started range has its half in
\* pool.partial once its future succeeded.
AtRest == {"idle", "sampling", "ending", "dropping", "forward", "admitting", "single"}

LocalsOf(t) ==
  /\ pc[t] \in AtRest \cup {"preparing", "staging"} => written[t] = 0
  /\ pc[t] \in AtRest \cup {"preparing", "staging", "joining"} =>
       ~torn[t] /\ fault[t] = "none"
  /\ pc[t] \notin {"joining", "cleanup"} =>
       phase[t] = "none" /\ \A h \in Halves : future[t][h] = "idle"
  /\ pc[t] \in {"preparing", "staging", "joining"} => secondary[t] # NoDevice
  /\ pc[t] = "joining" => written[t] < Ranges /\ phase[t] # "none"
  /\ pc[t] = "joining" /\ phase[t] # "range" => written[t] = 0
  /\ pc[t] = "cleanup" /\ fault[t] = "none" => written[t] = Ranges /\ ~torn[t]
  /\ pc[t] = "cleanup" /\ fault[t] = "rejected" => written[t] = 0 /\ ~torn[t]
  /\ pc[t] \in {"mlp", "retry"} => fault[t] = "none"
  /\ recovery[t] # 0 => secondary[t] # NoDevice
  /\ pc[t] \in Executing => cuda[t]
  /\ result[t] # "corrupt"

RangeStaged(t) ==
  pc[t] = "joining" /\ phase[t] = "range" /\ future[t]["secondary"] = "ok" =>
    partial[Owner[t]] = <<t, written[t] + 1>>

\* What LockCoversWork says of one thread.
LockOf(t) ==
  /\ pc[t] \in Locked <=> lock = t
  /\ \A h \in Halves : future[t][h] = "running" => lock = t

\* The inductive invariant.
DualInv ==
  /\ TypeOK
  /\ \A t \in Threads : LocalsOf(t)
  /\ \A t \in Threads : RangeStaged(t)
  /\ LockCoversWork

LEMMA InitDualInv == Init => DualInv
  BY DualAssumption DEF Init, DualInv, TypeOK, LocalsOf, RangeStaged, LockCoversWork, PCs, InBlock,
     Locked, Executing, AtRest, Idle, Halves, Keys, LeaseKeys, NoReprobe, Kinds

\* Failure keys of a bound call are keys, and consuming a ticket keeps the
\* types of the quarantine.
LEMMA KeyType == ASSUME TypeOK, NEW t \in Threads, secondary[t] # NoDevice
                 PROVE  FailureKey(t) \in Keys
  BY DualAssumption DEF TypeOK, FailureKey, KeyOn, Keys

LEMMA ReprobeType == ASSUME TypeOK, NEW t \in Threads, NEW k \in Keys,
                            AllowResourceReprobe(t, k)
                     PROVE  /\ failures' \in [Threads -> SUBSET Keys]
                            /\ reprobes' \in [Threads -> [Keys -> [count : Nat, ticket : Nat]]]
                            /\ disabled' = disabled
  <1>1. CASE UNCHANGED quarantine
    BY <1>1 DEF TypeOK, quarantine
  <1>2. CASE /\ reprobes' = [reprobes EXCEPT ![t][k].ticket = 0]
             /\ failures' = [failures EXCEPT ![t] = @ \ {k}]
             /\ UNCHANGED disabled
    <2>1. reprobes[t] \in [Keys -> [count : Nat, ticket : Nat]] /\ failures[t] \in SUBSET Keys
      BY DEF TypeOK
    <2>2. [reprobes[t][k] EXCEPT !.ticket = 0] \in [count : Nat, ticket : Nat]
      BY <2>1
    <2>3. reprobes' \in [Threads -> [Keys -> [count : Nat, ticket : Nat]]]
      BY <1>2, <2>1, <2>2 DEF TypeOK
    <2> QED BY <1>2, <2>1, <2>3 DEF TypeOK
  <1> QED BY <1>1, <1>2 DEF AllowResourceReprobe

LEMMA QuarantineType ==
  ASSUME TypeOK, NEW t \in Threads, NEW k \in Keys, NEW kind \in Kinds,
         NEW preflight \in BOOLEAN, Quarantine(t, k, kind, preflight)
  PROVE  /\ failures' \in [Threads -> SUBSET Keys]
         /\ disabled' \in [States -> SUBSET Keys]
         /\ reprobes' \in [Threads -> [Keys -> [count : Nat, ticket : Nat]]]
         /\ recovery' \in [Threads -> Nat]
  <1>1. reprobes[t] \in [Keys -> [count : Nat, ticket : Nat]] /\ Owner[t] \in States
    BY DualAssumption DEF TypeOK
  <1>2. failures' \in [Threads -> SUBSET Keys] /\ disabled' \in [States -> SUBSET Keys]
    BY <1>1 DEF TypeOK, Quarantine
  <1>3. CASE kind = "resource" /\ ~preflight
    <2> DEFINE count == reprobes[t][k].count + 1
    <2>1. count \in Nat
      BY <1>1
    <2>2. reprobes' = [reprobes EXCEPT ![t][k] = [count |-> count, ticket |-> count]]
      BY <1>3 DEF Quarantine
    <2>3. \E n \in {count, 0} : recovery' = [recovery EXCEPT ![t] = n]
      BY <1>3 DEF Quarantine
    <2> HIDE DEF count
    <2> QED BY <1>1, <1>2, <2>1, <2>2, <2>3 DEF TypeOK
  <1>4. CASE ~(kind = "resource" /\ ~preflight)
    <2>1. reprobes' = [reprobes EXCEPT ![t][k].ticket = 0] /\ recovery' = recovery
      BY <1>4 DEF Quarantine
    <2>2. [reprobes[t][k] EXCEPT !.ticket = 0] \in [count : Nat, ticket : Nat]
      BY <1>1
    <2> QED BY <1>1, <1>2, <2>1, <2>2 DEF TypeOK
  <1> QED BY <1>3, <1>4

\* A lease dropped or remembered keeps the type of the leases.
LEMMA LeaseType ==
  ASSUME TypeOK, NEW t \in Threads, NEW d \in Secondaries \cup {NoDevice},
         leases' = [leases EXCEPT ![t][LeaseKey[shape[t]]] = d] \/ leases' = leases
  PROVE  leases' \in [Threads -> [LeaseKeys -> Secondaries \cup {NoDevice}]]
  <1>1. LeaseKey[shape[t]] \in LeaseKeys
    BY DEF TypeOK, LeaseKeys
  <1>2. leases[t] \in [LeaseKeys -> Secondaries \cup {NoDevice}]
    BY DEF TypeOK
  <1>3. CASE leases' = leases
    BY <1>3 DEF TypeOK
  <1>4. CASE leases' = [leases EXCEPT ![t][LeaseKey[shape[t]]] = d]
    BY <1>1, <1>2, <1>4 DEF TypeOK
  <1> QED BY <1>3, <1>4

\* Every step keeps the types.
LEMMA TypeStep == DualInv /\ Next => TypeOK'
  <1> SUFFICES ASSUME DualInv, Next PROVE TypeOK'
    OBVIOUS
  <1> USE DualAssumption DEF DualInv, TypeOK, Goto, budget, memory, quarantine, operation,
        call, PCs, InBlock, Locked, Executing
  <1>1. ASSUME NEW t \in Threads, BeginSample(t) PROVE TypeOK'
    BY <1>1 DEF BeginSample, NoReprobe
  <1>2. ASSUME NEW t \in Threads, EnterBlock(t) PROVE TypeOK'
    BY <1>2 DEF EnterBlock
  <1>3. ASSUME NEW t \in Threads, BypassDual(t) PROVE TypeOK'
    BY <1>3 DEF BypassDual
  <1>4. ASSUME NEW t \in Threads, RebuildInput(t) PROVE TypeOK'
    BY <1>4 DEF RebuildInput
  <1>5. ASSUME NEW t \in Threads, SingleCompletes(t) PROVE TypeOK'
    BY <1>5 DEF SingleCompletes
  <1>6. ASSUME NEW t \in Threads, FinishBlock(t) PROVE TypeOK'
    <2>1. CASE recovery[t] = 0
      BY <1>6, <2>1 DEF FinishBlock, ForgetCall
    <2>2. CASE recovery[t] # 0
      <3>1. FailureKey(t) \in Keys
        BY <2>2, KeyType DEF LocalsOf
      <3>2. AllowResourceReprobe(t, FailureKey(t))
        BY <1>6, <2>2 DEF FinishBlock
      <3> QED BY <1>6, <3>1, <3>2, ReprobeType DEF FinishBlock, ForgetCall
    <2> QED BY <2>1, <2>2
  <1>7. ASSUME NEW t \in Threads, BlockRaises(t) PROVE TypeOK'
    BY <1>7 DEF BlockRaises, ForgetCall
  <1>8. ASSUME NEW t \in Threads, EndSample(t) PROVE TypeOK'
    BY <1>8 DEF EndSample
  <1>9. ASSUME NEW t \in Threads, TryReleasePool(t) PROVE TypeOK'
    <2>1. lock' \in Threads \cup {NoThread} /\ pc' \in [Threads -> PCs]
      BY <1>9, ZenonT(60) DEF TryReleasePool
    <2> QED BY <1>9, <2>1 DEF TryReleasePool
  <1>10. ASSUME NEW t \in Threads, DropPool(t) PROVE TypeOK'
    <2>1. pool' \in [States -> Nat] /\ pc' \in [Threads -> PCs]
      BY <1>10 DEF DropPool
    <2> QED BY <1>10, <2>1 DEF DropPool
  <1>11. ASSUME NEW t \in Threads, TryLock(t) PROVE TypeOK'
    <2>1. lock' \in Threads \cup {NoThread} /\ pc' \in [Threads -> PCs]
      BY <1>11 DEF TryLock
    <2> QED BY <1>11, <2>1 DEF TryLock
  <1>12. ASSUME NEW t \in Threads, UseLease(t) PROVE TypeOK'
    <2>1. LeaseKey[shape[t]] \in LeaseKeys
      BY DEF LeaseKeys
    <2>2. Lease(t) \in Secondaries \cup {NoDevice}
      BY <2>1 DEF Lease
    <2> QED BY <1>12, <2>2 DEF UseLease
  <1>13. ASSUME NEW t \in Threads, SelectSecondary(t) PROVE TypeOK'
    <2>1. leases' \in [Threads -> [LeaseKeys -> Secondaries \cup {NoDevice}]]
      BY <1>13, LeaseType DEF SelectSecondary, DropStaleLease, DropLease
    <2>2. secondary' \in [Threads -> Secondaries \cup {NoDevice}]
      BY <1>13 DEF SelectSecondary
    <2> QED BY <1>13, <2>1, <2>2 DEF SelectSecondary
  <1>14. ASSUME NEW t \in Threads, NotAdmitted(t) PROVE TypeOK'
    <2>1. leases' \in [Threads -> [LeaseKeys -> Secondaries \cup {NoDevice}]]
      BY <1>14, LeaseType DEF NotAdmitted, DropStaleLease, DropLease
    <2> QED BY <1>14, <2>1 DEF NotAdmitted
  <1>15. ASSUME NEW t \in Threads, AdmissionRaises(t) PROVE TypeOK'
    <2>1. leases' \in [Threads -> [LeaseKeys -> Secondaries \cup {NoDevice}]]
      BY <1>15, LeaseType DEF AdmissionRaises, DropStaleLease, DropLease
    <2> QED BY <1>15, <2>1 DEF AdmissionRaises
  <1>16. ASSUME NEW t \in Threads, PreparePool(t) PROVE TypeOK'
    <2>1. leases' \in [Threads -> [LeaseKeys -> Secondaries \cup {NoDevice}]]
      BY <1>16, LeaseType DEF PreparePool, DropLease
    <2>4. pool' \in [States -> Nat]
      BY <1>16 DEF PreparePool
    <2>2. pc' \in [Threads -> PCs]
      BY <1>16, ZenonT(60) DEF PreparePool
    <2>3. cuda' \in [Threads -> BOOLEAN] /\ fault' \in [Threads -> Kinds \cup {"none", "rejected"}]
      BY <1>16, ZenonT(60) DEF PreparePool
    <2> QED BY <1>16, <2>1, <2>2, <2>3, <2>4 DEF PreparePool
  <1>17. ASSUME NEW t \in Threads, StageInputs(t) PROVE TypeOK'
    BY <1>17 DEF StageInputs, Submit, NextPhase, Launched, Halves
  <1>18. ASSUME NEW t \in Threads, NEW h \in Halves, WorkerEnds(t, h) PROVE TypeOK'
    <2>1. future[t] \in [Halves -> {"idle", "running", "ok", "error"}]
      OBVIOUS
    <2>2. future' \in [Threads -> [Halves -> {"idle", "running", "ok", "error"}]]
      <3>1. PICK e \in {"error", "ok"} : future' = [future EXCEPT ![t][h] = e]
        BY <1>18 DEF WorkerEnds
      <3>2. [future[t] EXCEPT ![h] = e] \in [Halves -> {"idle", "running", "ok", "error"}]
        BY <2>1
      <3> QED BY <3>1, <3>2
    <2>3. <<t, written[t] + 1>> \in (Threads \cup {NoThread}) \X Nat
      OBVIOUS
    <2>4. partial' \in [States -> (Threads \cup {NoThread}) \X Nat]
      BY <1>18, <2>3, ZenonT(60) DEF WorkerEnds
    <2> QED BY <1>18, <2>2, <2>4 DEF WorkerEnds
  <1>19. ASSUME NEW t \in Threads, JoinPhase(t) PROVE TypeOK'
    BY <1>19 DEF JoinPhase, Submit, NextPhase, Launched, Halves
  <1>20. ASSUME NEW t \in Threads, JoinRange(t) PROVE TypeOK'
    <2>1. written' \in [Threads -> 0..Ranges] /\ torn' \in [Threads -> BOOLEAN]
      BY <1>20 DEF JoinRange, LocalsOf
    <2>2. pc' \in [Threads -> PCs] /\ phase' \in [Threads -> {"none", "qkv", "audio", "stream", "range"}]
      BY <1>20, ZenonT(60) DEF JoinRange, Submit, NextPhase
    <2>4. Idle \in [Halves -> {"idle", "running", "ok", "error"}]
      BY DEF Idle
    <2>5. \A s, p : Launched(s, p) \in [Halves -> {"idle", "running", "ok", "error"}]
      BY DEF Launched
    <2>6. future' \in [Threads -> [Halves -> {"idle", "running", "ok", "error"}]]
      <3>1. PICK f \in [Halves -> {"idle", "running", "ok", "error"}] :
               future' = [future EXCEPT ![t] = f]
        BY <1>20, <2>4, <2>5 DEF JoinRange, Submit
      <3> QED BY <3>1
    <2>3. leases' \in [Threads -> [LeaseKeys -> Secondaries \cup {NoDevice}]]
      BY <1>20, LeaseType DEF JoinRange
    <2> QED BY <1>20, <2>1, <2>2, <2>3, <2>6 DEF JoinRange
  <1>21. ASSUME NEW t \in Threads, NEW kind \in Kinds, RunRaises(t, kind) PROVE TypeOK'
    <2>1. FailureKey(t) \in Keys
      BY <1>21, KeyType DEF RunRaises, LocalsOf
    <2>2. /\ failures' \in [Threads -> SUBSET Keys]
          /\ disabled' \in [States -> SUBSET Keys]
          /\ reprobes' \in [Threads -> [Keys -> [count : Nat, ticket : Nat]]]
          /\ recovery' \in [Threads -> Nat]
      <3>1. CASE kind \in {"fatal", "interrupt"}
        BY <1>21, <3>1 DEF RunRaises
      <3>2. CASE kind \notin {"fatal", "interrupt"}
        <4>1. Quarantine(t, FailureKey(t), kind, ~cuda[t])
          BY <1>21, <3>2 DEF RunRaises
        <4> QED BY <2>1, <4>1, QuarantineType
      <3> QED BY <3>1, <3>2
    <2>3. leases' \in [Threads -> [LeaseKeys -> Secondaries \cup {NoDevice}]]
      BY <1>21, LeaseType DEF RunRaises, DropLease
    <2>4. pool' \in [States -> Nat]
      BY <1>21 DEF RunRaises
    <2> QED BY <1>21, <2>2, <2>3, <2>4 DEF RunRaises
  <1>22. ASSUME NEW t \in Threads, ReturnDual(t) PROVE TypeOK'
    BY <1>22 DEF ReturnDual, ReleaseRun, Idle
  <1>23. ASSUME NEW t \in Threads, FallBack(t) PROVE TypeOK'
    BY <1>23 DEF FallBack, ReleaseRun, Idle
  <1>24. ASSUME NEW t \in Threads, RaiseRetry(t) PROVE TypeOK'
    BY <1>24 DEF RaiseRetry, ReleaseRun, Idle
  <1>25. ASSUME NEW t \in Threads, RaiseFatal(t) PROVE TypeOK'
    BY <1>25 DEF RaiseFatal, ReleaseRun, ForgetCall, Idle
  <1> QED
    BY <1>1, <1>2, <1>3, <1>4, <1>5, <1>6, <1>7, <1>8, <1>9, <1>10, <1>11, <1>12, <1>13,
       <1>14, <1>15, <1>16, <1>17, <1>18, <1>19, <1>20, <1>21, <1>22, <1>23, <1>24, <1>25
       DEF Next, Step

\* The range before the loop's end is the last one.
LEMMA LastRange == ASSUME NEW n \in Nat, NEW i \in 0..n, i < n, ~(i + 1 < n)
                   PROVE  i + 1 = n
  OBVIOUS

\* Every step keeps what a thread's place says about its locals.
LEMMA LocalsStep == DualInv /\ Next => (\A u \in Threads : LocalsOf(u))'
  <1> SUFFICES ASSUME DualInv, Next, NEW u \in Threads PROVE LocalsOf(u)'
    OBVIOUS
  <1> USE DualAssumption DEF DualInv, TypeOK, Goto, budget, memory, quarantine, operation,
        call, Locked, Executing, LocalsOf, AtRest
  <1>1. ASSUME NEW t \in Threads, BeginSample(t) PROVE LocalsOf(u)'
    BY <1>1 DEF BeginSample
  <1>2. ASSUME NEW t \in Threads, EnterBlock(t) PROVE LocalsOf(u)'
    BY <1>2 DEF EnterBlock
  <1>3. ASSUME NEW t \in Threads, BypassDual(t) PROVE LocalsOf(u)'
    BY <1>3 DEF BypassDual
  <1>4. ASSUME NEW t \in Threads, RebuildInput(t) PROVE LocalsOf(u)'
    BY <1>4 DEF RebuildInput
  <1>5. ASSUME NEW t \in Threads, SingleCompletes(t) PROVE LocalsOf(u)'
    BY <1>5 DEF SingleCompletes
  <1>6. ASSUME NEW t \in Threads, FinishBlock(t) PROVE LocalsOf(u)'
    BY <1>6 DEF FinishBlock, ForgetCall
  <1>7. ASSUME NEW t \in Threads, BlockRaises(t) PROVE LocalsOf(u)'
    BY <1>7 DEF BlockRaises, ForgetCall
  <1>8. ASSUME NEW t \in Threads, EndSample(t) PROVE LocalsOf(u)'
    BY <1>8 DEF EndSample
  <1>9. ASSUME NEW t \in Threads, TryReleasePool(t) PROVE LocalsOf(u)'
    BY <1>9 DEF TryReleasePool
  <1>10. ASSUME NEW t \in Threads, DropPool(t) PROVE LocalsOf(u)'
    BY <1>10 DEF DropPool
  <1>11. ASSUME NEW t \in Threads, TryLock(t) PROVE LocalsOf(u)'
    BY <1>11 DEF TryLock
  <1>12. ASSUME NEW t \in Threads, UseLease(t) PROVE LocalsOf(u)'
    BY <1>12 DEF UseLease
  <1>13. ASSUME NEW t \in Threads, SelectSecondary(t) PROVE LocalsOf(u)'
    BY <1>13 DEF SelectSecondary
  <1>14. ASSUME NEW t \in Threads, NotAdmitted(t) PROVE LocalsOf(u)'
    BY <1>14 DEF NotAdmitted
  <1>15. ASSUME NEW t \in Threads, AdmissionRaises(t) PROVE LocalsOf(u)'
    BY <1>15 DEF AdmissionRaises
  <1>16. ASSUME NEW t \in Threads, PreparePool(t) PROVE LocalsOf(u)'
    <2>1. \/ pc'[t] = "staging" /\ fault'[t] = fault[t] /\ cuda'[t]
          \/ pc'[t] = "cleanup" /\ fault'[t] = "rejected"
      BY <1>16 DEF PreparePool
    <2>2. \A v \in Threads \ {t} : pc'[v] = pc[v] /\ fault'[v] = fault[v] /\ cuda'[v] = cuda[v]
      BY <1>16 DEF PreparePool
    <2>3. /\ pc[t] = "preparing"
          /\ UNCHANGED <<call, phase, future, written, torn>>
      BY <1>16 DEF PreparePool
    <2>4. CASE u # t
      BY <2>2, <2>3, <2>4
    <2>5. CASE u = t
      BY <2>1, <2>3, <2>5
    <2> QED BY <2>4, <2>5
  <1>17. ASSUME NEW t \in Threads, StageInputs(t) PROVE LocalsOf(u)'
    BY <1>17 DEF StageInputs, Submit, NextPhase
  <1>18. ASSUME NEW t \in Threads, NEW h \in Halves, WorkerEnds(t, h) PROVE LocalsOf(u)'
    <2>1. pc[t] \in {"joining", "cleanup"}
      BY <1>18 DEF WorkerEnds
    <2>2. \A v \in Threads \ {t} : future'[v] = future[v]
      BY <1>18 DEF WorkerEnds
    <2>3. UNCHANGED <<pc, call, phase, cuda, fault, written, torn>>
      BY <1>18 DEF WorkerEnds
    <2>4. CASE u # t
      BY <2>2, <2>3, <2>4
    <2>5. CASE u = t
      BY <2>1, <2>3, <2>5
    <2> QED BY <2>4, <2>5
  <1>19. ASSUME NEW t \in Threads, JoinPhase(t) PROVE LocalsOf(u)'
    BY <1>19 DEF JoinPhase, Submit, NextPhase
  <1>20. ASSUME NEW t \in Threads, JoinRange(t) PROVE LocalsOf(u)'
    <2>1. CASE u # t
      BY <1>20, <2>1 DEF JoinRange, Submit
    <2>2. CASE u = t
      <3>1. partial[Owner[t]] = <<t, written[t] + 1>>
        BY <1>20 DEF JoinRange, Delivered, Awaited, RangeStaged
      <3>2. ~torn'[t] /\ written'[t] = written[t] + 1 /\ pc[t] = "joining"
        BY <1>20, <3>1 DEF JoinRange
      <3>3. CASE written[t] + 1 < Ranges
        <4>1. phase'[t] = "range" /\ pc'[t] = "joining"
          BY <1>20, <3>3 DEF JoinRange, Submit, NextPhase
        <4> QED BY <1>20, <2>2, <3>2, <3>3, <4>1 DEF JoinRange
      <3>4. CASE ~(written[t] + 1 < Ranges)
        <4>1. pc'[t] = "cleanup"
          BY <1>20, <3>4 DEF JoinRange
        <4>2. written[t] \in 0..Ranges /\ written[t] < Ranges
          BY <3>2
        <4>3. written'[t] = Ranges
          <5>1. written[t] + 1 = Ranges
            BY <3>4, <4>2, LastRange
          <5> QED BY <3>2, <5>1
        <4> QED BY <1>20, <2>2, <3>2, <4>1, <4>3 DEF JoinRange
      <3> QED BY <3>3, <3>4
    <2> QED BY <2>1, <2>2
  <1>21. ASSUME NEW t \in Threads, NEW kind \in Kinds, RunRaises(t, kind) PROVE LocalsOf(u)'
    <2>1. CASE u # t
      BY <1>21, <2>1 DEF RunRaises, Quarantine
    <2>2. CASE u = t
      <3>1. pc[t] \in {"preparing", "staging", "joining"} /\ pc'[t] = "cleanup" /\ fault'[t] = kind
        BY <1>21 DEF RunRaises
      <3>2. UNCHANGED <<secondary, result, phase, future, written, torn>>
        BY <1>21 DEF RunRaises
      <3> QED BY <2>2, <3>1, <3>2 DEF Kinds
    <2> QED BY <2>1, <2>2
  <1>22. ASSUME NEW t \in Threads, ReturnDual(t) PROVE LocalsOf(u)'
    BY <1>22 DEF ReturnDual, ReleaseRun, Idle
  <1>23. ASSUME NEW t \in Threads, FallBack(t) PROVE LocalsOf(u)'
    BY <1>23 DEF FallBack, ReleaseRun, Idle
  <1>24. ASSUME NEW t \in Threads, RaiseRetry(t) PROVE LocalsOf(u)'
    BY <1>24 DEF RaiseRetry, ReleaseRun, Idle
  <1>25. ASSUME NEW t \in Threads, RaiseFatal(t) PROVE LocalsOf(u)'
    BY <1>25 DEF RaiseFatal, ReleaseRun, ForgetCall, Idle
  <1> QED
    BY <1>1, <1>2, <1>3, <1>4, <1>5, <1>6, <1>7, <1>8, <1>9, <1>10, <1>11, <1>12, <1>13,
       <1>14, <1>15, <1>16, <1>17, <1>18, <1>19, <1>20, <1>21, <1>22, <1>23, <1>24, <1>25
       DEF Next, Step

\* Every step keeps the run lock with the thread inside run and its futures.
LEMMA LockStep == DualInv /\ Next => LockCoversWork'
  <1> SUFFICES ASSUME DualInv, Next, NEW u \in Threads PROVE LockOf(u)'
    BY DEF LockCoversWork, LockOf
  <1> USE DualAssumption DEF DualInv, TypeOK, Goto, budget, memory, quarantine, operation,
        call, Locked, Executing, LockCoversWork, LocalsOf, LockOf, AtRest
  <1>1. ASSUME NEW t \in Threads, BeginSample(t) PROVE LockOf(u)'
    BY <1>1 DEF BeginSample
  <1>2. ASSUME NEW t \in Threads, EnterBlock(t) PROVE LockOf(u)'
    BY <1>2 DEF EnterBlock
  <1>3. ASSUME NEW t \in Threads, BypassDual(t) PROVE LockOf(u)'
    BY <1>3 DEF BypassDual
  <1>4. ASSUME NEW t \in Threads, RebuildInput(t) PROVE LockOf(u)'
    BY <1>4 DEF RebuildInput
  <1>5. ASSUME NEW t \in Threads, SingleCompletes(t) PROVE LockOf(u)'
    BY <1>5 DEF SingleCompletes
  <1>6. ASSUME NEW t \in Threads, FinishBlock(t) PROVE LockOf(u)'
    BY <1>6 DEF FinishBlock, ForgetCall
  <1>7. ASSUME NEW t \in Threads, BlockRaises(t) PROVE LockOf(u)'
    BY <1>7 DEF BlockRaises, ForgetCall
  <1>8. ASSUME NEW t \in Threads, EndSample(t) PROVE LockOf(u)'
    BY <1>8 DEF EndSample
  <1>9. ASSUME NEW t \in Threads, TryReleasePool(t) PROVE LockOf(u)'
    BY <1>9 DEF TryReleasePool
  <1>10. ASSUME NEW t \in Threads, DropPool(t) PROVE LockOf(u)'
    BY <1>10 DEF DropPool
  <1>11. ASSUME NEW t \in Threads, TryLock(t) PROVE LockOf(u)'
    BY <1>11 DEF TryLock
  <1>12. ASSUME NEW t \in Threads, UseLease(t) PROVE LockOf(u)'
    BY <1>12 DEF UseLease
  <1>13. ASSUME NEW t \in Threads, SelectSecondary(t) PROVE LockOf(u)'
    BY <1>13 DEF SelectSecondary
  <1>14. ASSUME NEW t \in Threads, NotAdmitted(t) PROVE LockOf(u)'
    BY <1>14 DEF NotAdmitted
  <1>15. ASSUME NEW t \in Threads, AdmissionRaises(t) PROVE LockOf(u)'
    BY <1>15 DEF AdmissionRaises
  <1>16. ASSUME NEW t \in Threads, PreparePool(t) PROVE LockOf(u)'
    BY <1>16 DEF PreparePool
  <1>17. ASSUME NEW t \in Threads, StageInputs(t) PROVE LockOf(u)'
    BY <1>17 DEF StageInputs, Submit
  <1>18. ASSUME NEW t \in Threads, NEW h \in Halves, WorkerEnds(t, h) PROVE LockOf(u)'
    BY <1>18 DEF WorkerEnds
  <1>19. ASSUME NEW t \in Threads, JoinPhase(t) PROVE LockOf(u)'
    BY <1>19 DEF JoinPhase, Submit
  <1>20. ASSUME NEW t \in Threads, JoinRange(t) PROVE LockOf(u)'
    BY <1>20 DEF JoinRange, Submit, Idle
  <1>21. ASSUME NEW t \in Threads, NEW kind \in Kinds, RunRaises(t, kind) PROVE LockOf(u)'
    BY <1>21 DEF RunRaises
  <1>22. ASSUME NEW t \in Threads, ReturnDual(t) PROVE LockOf(u)'
    BY <1>22 DEF ReturnDual, ReleaseRun, Idle
  <1>23. ASSUME NEW t \in Threads, FallBack(t) PROVE LockOf(u)'
    BY <1>23 DEF FallBack, ReleaseRun, Idle
  <1>24. ASSUME NEW t \in Threads, RaiseRetry(t) PROVE LockOf(u)'
    BY <1>24 DEF RaiseRetry, ReleaseRun, Idle
  <1>25. ASSUME NEW t \in Threads, RaiseFatal(t) PROVE LockOf(u)'
    BY <1>25 DEF RaiseFatal, ReleaseRun, ForgetCall, Idle
  <1> QED
    BY <1>1, <1>2, <1>3, <1>4, <1>5, <1>6, <1>7, <1>8, <1>9, <1>10, <1>11, <1>12, <1>13,
       <1>14, <1>15, <1>16, <1>17, <1>18, <1>19, <1>20, <1>21, <1>22, <1>23, <1>24, <1>25
       DEF Next, Step

\* A future that was just submitted has not ended.
LEMMA NothingLaunchedDelivered == \A s, p : \A h \in Halves : Launched(s, p)[h] # "ok"
  BY DEF Launched

\* Every step keeps a delivered half of a range in pool.partial: no other
\* thread's future is running while this thread joins.
LEMMA RangeStagedStep == DualInv /\ Next => (\A u \in Threads : RangeStaged(u))'
  <1> SUFFICES ASSUME DualInv, Next, NEW u \in Threads PROVE RangeStaged(u)'
    OBVIOUS
  <1> USE DualAssumption DEF DualInv, TypeOK, Goto, budget, memory, quarantine, operation,
        call, Locked, Executing, LockCoversWork, LocalsOf, RangeStaged, AtRest
  <1>1. ASSUME NEW t \in Threads, BeginSample(t) PROVE RangeStaged(u)'
    BY <1>1 DEF BeginSample
  <1>2. ASSUME NEW t \in Threads, EnterBlock(t) PROVE RangeStaged(u)'
    BY <1>2 DEF EnterBlock
  <1>3. ASSUME NEW t \in Threads, BypassDual(t) PROVE RangeStaged(u)'
    BY <1>3 DEF BypassDual
  <1>4. ASSUME NEW t \in Threads, RebuildInput(t) PROVE RangeStaged(u)'
    BY <1>4 DEF RebuildInput
  <1>5. ASSUME NEW t \in Threads, SingleCompletes(t) PROVE RangeStaged(u)'
    BY <1>5 DEF SingleCompletes
  <1>6. ASSUME NEW t \in Threads, FinishBlock(t) PROVE RangeStaged(u)'
    BY <1>6 DEF FinishBlock, ForgetCall
  <1>7. ASSUME NEW t \in Threads, BlockRaises(t) PROVE RangeStaged(u)'
    BY <1>7 DEF BlockRaises, ForgetCall
  <1>8. ASSUME NEW t \in Threads, EndSample(t) PROVE RangeStaged(u)'
    BY <1>8 DEF EndSample
  <1>9. ASSUME NEW t \in Threads, TryReleasePool(t) PROVE RangeStaged(u)'
    BY <1>9 DEF TryReleasePool
  <1>10. ASSUME NEW t \in Threads, DropPool(t) PROVE RangeStaged(u)'
    BY <1>10 DEF DropPool
  <1>11. ASSUME NEW t \in Threads, TryLock(t) PROVE RangeStaged(u)'
    BY <1>11 DEF TryLock
  <1>12. ASSUME NEW t \in Threads, UseLease(t) PROVE RangeStaged(u)'
    BY <1>12 DEF UseLease
  <1>13. ASSUME NEW t \in Threads, SelectSecondary(t) PROVE RangeStaged(u)'
    BY <1>13 DEF SelectSecondary
  <1>14. ASSUME NEW t \in Threads, NotAdmitted(t) PROVE RangeStaged(u)'
    BY <1>14 DEF NotAdmitted
  <1>15. ASSUME NEW t \in Threads, AdmissionRaises(t) PROVE RangeStaged(u)'
    BY <1>15 DEF AdmissionRaises
  <1>16. ASSUME NEW t \in Threads, PreparePool(t) PROVE RangeStaged(u)'
    <2>1. pc'[t] \in {"staging", "cleanup"} /\ pc[t] = "preparing"
      BY <1>16 DEF PreparePool
    <2>2. \A v \in Threads \ {t} : pc'[v] = pc[v]
      BY <1>16 DEF PreparePool
    <2>3. UNCHANGED <<partial, phase, future, written>>
      BY <1>16 DEF PreparePool
    <2> QED BY <2>1, <2>2, <2>3
  <1>17. ASSUME NEW t \in Threads, StageInputs(t) PROVE RangeStaged(u)'
    <2>1. CASE u # t
      BY <1>17, <2>1 DEF StageInputs, Submit
    <2>2. CASE u = t
      <3>1. future'[t]["secondary"] # "ok"
        BY <1>17, NothingLaunchedDelivered DEF StageInputs, Submit, Halves
      <3> QED BY <2>2, <3>1
    <2> QED BY <2>1, <2>2
  <1>18. ASSUME NEW t \in Threads, NEW h \in Halves, WorkerEnds(t, h) PROVE RangeStaged(u)'
    <2>1. lock = t
      BY <1>18 DEF WorkerEnds
    <2>2. CASE u # t
      <3>1. pc[u] # "joining"
        BY <2>1, <2>2
      <3> QED BY <1>18, <3>1 DEF WorkerEnds
    <2>3. CASE u = t
      <3>1. UNCHANGED <<pc, phase, written>>
        BY <1>18 DEF WorkerEnds
      <3>2. CASE future' = [future EXCEPT ![t][h] = "error"] /\ UNCHANGED partial
        BY <2>3, <3>1, <3>2
      <3>3. CASE /\ future' = [future EXCEPT ![t][h] = "ok"]
                 /\ IF phase[t] = "range"
                    THEN partial' = [partial EXCEPT ![Owner[t]] = <<t, written[t] + 1>>]
                    ELSE UNCHANGED partial
        BY <2>3, <3>1, <3>3
      <3> QED BY <1>18, <3>2, <3>3 DEF WorkerEnds
    <2> QED BY <2>2, <2>3
  <1>19. ASSUME NEW t \in Threads, JoinPhase(t) PROVE RangeStaged(u)'
    <2>1. CASE u # t
      BY <1>19, <2>1 DEF JoinPhase, Submit
    <2>2. CASE u = t
      <3>1. future'[t]["secondary"] # "ok"
        BY <1>19, NothingLaunchedDelivered DEF JoinPhase, Submit, Halves
      <3> QED BY <2>2, <3>1
    <2> QED BY <2>1, <2>2
  <1>20. ASSUME NEW t \in Threads, JoinRange(t) PROVE RangeStaged(u)'
    <2>1. CASE u # t
      BY <1>20, <2>1 DEF JoinRange, Submit
    <2>2. CASE u = t
      <3>1. future'[t]["secondary"] # "ok"
        BY <1>20, NothingLaunchedDelivered DEF JoinRange, Submit, Idle, Halves
      <3> QED BY <2>2, <3>1
    <2> QED BY <2>1, <2>2
  <1>21. ASSUME NEW t \in Threads, NEW kind \in Kinds, RunRaises(t, kind) PROVE RangeStaged(u)'
    BY <1>21 DEF RunRaises
  <1>22. ASSUME NEW t \in Threads, ReturnDual(t) PROVE RangeStaged(u)'
    BY <1>22 DEF ReturnDual, ReleaseRun, Idle
  <1>23. ASSUME NEW t \in Threads, FallBack(t) PROVE RangeStaged(u)'
    BY <1>23 DEF FallBack, ReleaseRun, Idle
  <1>24. ASSUME NEW t \in Threads, RaiseRetry(t) PROVE RangeStaged(u)'
    BY <1>24 DEF RaiseRetry, ReleaseRun, Idle
  <1>25. ASSUME NEW t \in Threads, RaiseFatal(t) PROVE RangeStaged(u)'
    BY <1>25 DEF RaiseFatal, ReleaseRun, ForgetCall, Idle
  <1> QED
    BY <1>1, <1>2, <1>3, <1>4, <1>5, <1>6, <1>7, <1>8, <1>9, <1>10, <1>11, <1>12, <1>13,
       <1>14, <1>15, <1>16, <1>17, <1>18, <1>19, <1>20, <1>21, <1>22, <1>23, <1>24, <1>25
       DEF Next, Step
-----------------------------------------------------------------------------
LEMMA DualInvStutter == DualInv /\ UNCHANGED vars => DualInv'
  <1> SUFFICES ASSUME DualInv, UNCHANGED vars PROVE DualInv'
    OBVIOUS
  <1> USE DEF DualInv, vars, budget, memory, quarantine, call, operation
  <1>1. TypeOK'
    BY DEF TypeOK
  <1>2. LockCoversWork'
    BY DEF LockCoversWork
  <1>3. (\A t \in Threads : LocalsOf(t))'
    BY DEF LocalsOf
  <1>4. (\A t \in Threads : RangeStaged(t))'
    BY DEF RangeStaged
  <1> QED BY <1>1, <1>2, <1>3, <1>4

LEMMA DualInvStep == DualInv /\ [Next]_vars => DualInv'
  <1> SUFFICES ASSUME DualInv, [Next]_vars PROVE DualInv'
    OBVIOUS
  <1>1. CASE Next
    <2>1. TypeOK' /\ LockCoversWork'
      BY <1>1, TypeStep, LockStep
    <2>2. (\A u \in Threads : LocalsOf(u))' /\ (\A u \in Threads : RangeStaged(u))'
      BY <1>1, LocalsStep, RangeStagedStep
    <2> QED BY <2>1, <2>2 DEF DualInv
  <1>2. CASE UNCHANGED vars
    BY <1>2, DualInvStutter
  <1> QED BY <1>1, <1>2

LEMMA DualInvariant == Spec => []DualInv
  BY InitDualInv, DualInvStep, PTL DEF Spec

\* Every variable of the dual route keeps its type: a target never has more
\* ranges written than it has, and no thread is anywhere else than run allows.
THEOREM TypeCorrect == Spec => []TypeOK
  BY DualInvariant, PTL DEF DualInv

\* The run lock is held by exactly the thread inside run, and covers every
\* future it has on the executor, through failures and cleanup.
THEOREM LockCorrect == Spec => []LockCoversWork
  BY DualInvariant, PTL DEF DualInv

\* A block's attention output is never a mixture: not of two ranges, not of
\* two threads, not of a half-written target and a single-device retry.
THEOREM OutputCorrect == Spec => []OutputIsWhole
  <1>1. DualInv => OutputIsWhole
    BY DEF DualInv, LocalsOf, OutputIsWhole
  <1> QED BY <1>1, DualInvariant, PTL

\* The pool a dual run stages through is not replaced or dropped under it:
\* only the thread that holds the run lock changes a pool, and a run that has
\* started CUDA work keeps its own.
THEOREM PoolCorrect == Spec => PoolHeldWhileComputing
  <1>1. DualInv /\ [Next]_vars =>
          [\A t \in Threads : pc[t] \in Executing =>
             pool'[Owner[t]] = pool[Owner[t]]]_vars
    <2> SUFFICES ASSUME DualInv, Next, NEW t \in Threads, pc[t] \in Executing
                 PROVE  pool'[Owner[t]] = pool[Owner[t]]
      OBVIOUS
    <2>1. lock = t /\ cuda[t]
      BY DEF DualInv, LockCoversWork, LocalsOf, Locked
    <2>2. ASSUME NEW u \in Threads, DropPool(u) \/ PreparePool(u) PROVE FALSE
      BY <2>1, <2>2 DEF DualInv, LockCoversWork, Locked, Executing, DropPool, PreparePool
    <2>3. ASSUME NEW u \in Threads, NEW kind \in Kinds, RunRaises(u, kind)
          PROVE  pool'[Owner[t]] = pool[Owner[t]]
      <3>1. u = t
        BY <2>1, <2>3 DEF DualInv, LockCoversWork, Locked, Executing, RunRaises
      <3> QED BY <2>1, <2>3, <3>1 DEF RunRaises, DualInv, TypeOK
    <2>4. CASE UNCHANGED pool
      BY <2>4
    <2> QED
      BY <2>2, <2>3, <2>4 DEF Next, Step, BeginSample, EnterBlock, BypassDual, RebuildInput,
         SingleCompletes, FinishBlock, BlockRaises, EndSample, TryReleasePool, TryLock,
         UseLease, SelectSecondary, NotAdmitted, AdmissionRaises, StageInputs, WorkerEnds,
         JoinPhase, JoinRange, ReturnDual, FallBack, RaiseRetry, RaiseFatal, ReleaseRun, memory
  <1> QED BY <1>1, DualInvariant, PTL DEF Spec, PoolHeldWhileComputing

-----------------------------------------------------------------------------
(* Recovery tickets: what a block may bring back, and when.                *)

\* A ticket that is still live is the latest one of its key.
TicketsOf(t) == \A k \in Keys : reprobes[t][k].ticket \in {0, reprobes[t][k].count}

\* A ticket is carried from the failure that opened it to the end of the block
\* that is recomputed for it, and is within the sample's budget.
RecoveryOf(t) ==
  /\ recovery[t] <= RESOURCE_REPROBES_PER_SAMPLE
  /\ recovery[t] # 0 =>
       \/ pc[t] = "cleanup" /\ fault[t] = "resource"
       \/ pc[t] \in {"retry", "single"}
       \/ pc[t] = "mlp" /\ result[t] = "single"

RecoveryInv == \A t \in Threads : TicketsOf(t) /\ RecoveryOf(t)

\* What consuming the ticket of a key changes.
LEMMA ReprobeEffect ==
  ASSUME DualInv, NEW t \in Threads, NEW k \in Keys, AllowResourceReprobe(t, k)
  PROVE  /\ disabled' = disabled
         /\ \/ UNCHANGED <<failures, reprobes>>
            \/ /\ reprobes[t][k].ticket = recovery[t] /\ k \in failures[t]
               /\ k \notin disabled[Owner[t]]
               /\ \A u \in Threads, j \in Keys : u # t \/ j # k => reprobes'[u][j] = reprobes[u][j]
               /\ reprobes'[t][k].count = reprobes[t][k].count /\ reprobes'[t][k].ticket = 0
               /\ \A u \in Threads \ {t} : failures'[u] = failures[u]
               /\ failures'[t] = failures[t] \ {k}
  <1>1. /\ failures \in [Threads -> SUBSET Keys]
        /\ reprobes \in [Threads -> [Keys -> [count : Nat, ticket : Nat]]]
    BY DEF DualInv, TypeOK
  <1>2. CASE UNCHANGED quarantine
    BY <1>2 DEF quarantine
  <1>3. CASE ~UNCHANGED quarantine
    <2>1. /\ reprobes[t][k].ticket = recovery[t] /\ k \in failures[t]
          /\ k \notin disabled[Owner[t]] /\ UNCHANGED disabled
          /\ reprobes' = [reprobes EXCEPT ![t][k].ticket = 0]
          /\ failures' = [failures EXCEPT ![t] = @ \ {k}]
      BY <1>3 DEF AllowResourceReprobe
    <2>2. /\ \A u \in Threads, j \in Keys : u # t \/ j # k => reprobes'[u][j] = reprobes[u][j]
          /\ reprobes'[t][k].count = reprobes[t][k].count /\ reprobes'[t][k].ticket = 0
      BY <1>1, <2>1
    <2>3. /\ \A u \in Threads \ {t} : failures'[u] = failures[u]
          /\ failures'[t] = failures[t] \ {k}
      BY <1>1, <2>1
    <2> QED BY <2>1, <2>2, <2>3
  <1> QED BY <1>2, <1>3

\* What a quarantine changes, and for whom.
LEMMA QuarantineEffect ==
  ASSUME DualInv, NEW t \in Threads, NEW k \in Keys, NEW kind \in Kinds,
         NEW preflight \in BOOLEAN, Quarantine(t, k, kind, preflight)
  PROVE  /\ \A u \in Threads : failures'[u] \subseteq failures[u] \cup {k}
         /\ \A u \in Threads : failures[u] \subseteq failures'[u]
         /\ \A u \in Threads \ {t} : failures'[u] = failures[u]
         /\ \A o \in States : disabled'[o] \subseteq disabled[o] \cup {k}
         /\ \A o \in States \ {Owner[t]} : disabled'[o] = disabled[o]
         /\ \A u \in Threads, j \in Keys : u # t \/ j # k => reprobes'[u][j] = reprobes[u][j]
         /\ \A u \in Threads \ {t} : recovery'[u] = recovery[u]
         /\ \/ /\ kind = "resource" /\ k \in failures'[t]
               /\ reprobes'[t][k].count = reprobes[t][k].count + 1
               /\ reprobes'[t][k].ticket = reprobes[t][k].count + 1
               /\ recovery'[t] \in 0..RESOURCE_REPROBES_PER_SAMPLE
            \/ /\ reprobes'[t][k].count = reprobes[t][k].count
               /\ reprobes'[t][k].ticket = 0
               /\ recovery'[t] = recovery[t]
  <1>1. /\ reprobes[t] \in [Keys -> [count : Nat, ticket : Nat]] /\ Owner[t] \in States
        /\ failures \in [Threads -> SUBSET Keys] /\ disabled \in [States -> SUBSET Keys]
        /\ reprobes \in [Threads -> [Keys -> [count : Nat, ticket : Nat]]]
        /\ recovery \in [Threads -> Nat] /\ RESOURCE_REPROBES_PER_SAMPLE \in Nat
    BY DualAssumption DEF DualInv, TypeOK
  <1>2. /\ \A u \in Threads : failures'[u] \subseteq failures[u] \cup {k}
        /\ \A u \in Threads : failures[u] \subseteq failures'[u]
        /\ \A u \in Threads \ {t} : failures'[u] = failures[u]
        /\ \A o \in States : disabled'[o] \subseteq disabled[o] \cup {k}
        /\ \A o \in States \ {Owner[t]} : disabled'[o] = disabled[o]
        /\ kind = "resource" => k \in failures'[t]
    BY <1>1 DEF Quarantine
  <1>3. CASE kind = "resource" /\ ~preflight
    <2> DEFINE count == reprobes[t][k].count + 1
    <2>1. count \in Nat
      BY <1>1
    <2>2. reprobes' = [reprobes EXCEPT ![t][k] = [count |-> count, ticket |-> count]]
      BY <1>3 DEF Quarantine
    <2>3. recovery' = [recovery EXCEPT ![t] =
                         IF count <= RESOURCE_REPROBES_PER_SAMPLE THEN count ELSE 0]
      BY <1>3 DEF Quarantine
    <2> HIDE DEF count
    <2>4. /\ \A u \in Threads, j \in Keys : u # t \/ j # k => reprobes'[u][j] = reprobes[u][j]
          /\ reprobes'[t][k].count = count /\ reprobes'[t][k].ticket = count
      BY <1>1, <2>2
    <2>5. /\ \A u \in Threads \ {t} : recovery'[u] = recovery[u]
          /\ recovery'[t] \in 0..RESOURCE_REPROBES_PER_SAMPLE
      BY <1>1, <2>1, <2>3
    <2> QED BY <1>2, <1>3, <2>4, <2>5 DEF count
  <1>4. CASE ~(kind = "resource" /\ ~preflight)
    <2>1. reprobes' = [reprobes EXCEPT ![t][k].ticket = 0] /\ recovery' = recovery
      BY <1>4 DEF Quarantine
    <2>2. /\ \A u \in Threads, j \in Keys : u # t \/ j # k => reprobes'[u][j] = reprobes[u][j]
          /\ reprobes'[t][k].count = reprobes[t][k].count /\ reprobes'[t][k].ticket = 0
      BY <1>1, <2>1
    <2> QED BY <1>2, <2>1, <2>2
  <1> QED BY <1>3, <1>4

LEMMA RecoveryStep == DualInv /\ RecoveryInv /\ Next => RecoveryInv'
  <1> SUFFICES ASSUME DualInv, RecoveryInv, Next, NEW u \in Threads
               PROVE  (TicketsOf(u) /\ RecoveryOf(u))'
    BY DEF RecoveryInv
  <1> USE DualAssumption DEF DualInv, TypeOK, Goto, budget, memory, quarantine, operation,
        call, Locked, Executing, LocalsOf, AtRest, RecoveryInv, RecoveryOf
  <1>0. TicketsOf(u) /\ RecoveryOf(u) /\ recovery[u] \in Nat
    OBVIOUS
  <1>a. ASSUME UNCHANGED reprobes PROVE TicketsOf(u)'
    BY <1>a DEF TicketsOf
  <1>b. ASSUME NEW t \in Threads, recovery[t] = 0, UNCHANGED <<recovery, result>>,
               \A v \in Threads \ {t} : pc'[v] = pc[v] /\ fault'[v] = fault[v]
        PROVE  RecoveryOf(u)'
    BY <1>0, <1>b
  <1>1. ASSUME NEW t \in Threads, BeginSample(t) PROVE (TicketsOf(u) /\ RecoveryOf(u))'
    <2>1. TicketsOf(u)'
      BY <1>1 DEF BeginSample, NoReprobe, TicketsOf
    <2> QED BY <1>1, <2>1 DEF BeginSample
  <1>2. ASSUME NEW t \in Threads, EnterBlock(t) PROVE (TicketsOf(u) /\ RecoveryOf(u))'
    BY <1>a, <1>2 DEF EnterBlock
  <1>3. ASSUME NEW t \in Threads, BypassDual(t) PROVE (TicketsOf(u) /\ RecoveryOf(u))'
    BY <1>a, <1>3 DEF BypassDual
  <1>4. ASSUME NEW t \in Threads, RebuildInput(t) PROVE (TicketsOf(u) /\ RecoveryOf(u))'
    BY <1>a, <1>4 DEF RebuildInput
  <1>5. ASSUME NEW t \in Threads, SingleCompletes(t) PROVE (TicketsOf(u) /\ RecoveryOf(u))'
    BY <1>a, <1>5 DEF SingleCompletes
  <1>6. ASSUME NEW t \in Threads, FinishBlock(t) PROVE (TicketsOf(u) /\ RecoveryOf(u))'
    <2>1. recovery' = [recovery EXCEPT ![t] = 0]
      BY <1>6 DEF FinishBlock, ForgetCall
    <2>2. UNCHANGED fault /\ pc[t] = "mlp" /\ \A v \in Threads \ {t} : pc'[v] = pc[v] /\ result'[v] = result[v]
      BY <1>6 DEF FinishBlock, ForgetCall
    <2>3. RecoveryOf(u)'
      BY <2>1, <2>2
    <2>4. TicketsOf(u)'
      <3>1. CASE recovery[t] = 0
        BY <1>6, <1>a, <3>1 DEF FinishBlock
      <3>2. CASE recovery[t] # 0
        <4>1. FailureKey(t) \in Keys
          BY <3>2, KeyType
        <4>2. AllowResourceReprobe(t, FailureKey(t))
          BY <1>6, <3>2 DEF FinishBlock
        <4>3. CASE UNCHANGED <<failures, reprobes>>
          BY <1>a, <4>3
        <4>4. CASE /\ \A v \in Threads, j \in Keys :
                        v # t \/ j # FailureKey(t) => reprobes'[v][j] = reprobes[v][j]
                   /\ reprobes'[t][FailureKey(t)].ticket = 0
          <5> SUFFICES ASSUME NEW j \in Keys
                       PROVE  reprobes'[u][j].ticket \in {0, reprobes'[u][j].count}
            BY DEF TicketsOf
          <5> HIDE DEF DualInv, RecoveryInv
          <5> QED BY <1>0, <4>4 DEF TicketsOf
        <4> QED BY <4>1, <4>2, <4>3, <4>4, ReprobeEffect
      <3> QED BY <3>1, <3>2
    <2> QED BY <2>3, <2>4
  <1>7. ASSUME NEW t \in Threads, BlockRaises(t) PROVE (TicketsOf(u) /\ RecoveryOf(u))'
    BY <1>a, <1>7 DEF BlockRaises, ForgetCall
  <1>8. ASSUME NEW t \in Threads, EndSample(t) PROVE (TicketsOf(u) /\ RecoveryOf(u))'
    BY <1>a, <1>8 DEF EndSample
  <1>9. ASSUME NEW t \in Threads, TryReleasePool(t) PROVE (TicketsOf(u) /\ RecoveryOf(u))'
    <2>1. /\ pc[t] = "ending" /\ UNCHANGED <<recovery, result, reprobes, fault>>
          /\ \A v \in Threads \ {t} : pc'[v] = pc[v]
      BY <1>9 DEF TryReleasePool
    <2> QED BY <1>a, <1>b, <2>1
  <1>10. ASSUME NEW t \in Threads, DropPool(t) PROVE (TicketsOf(u) /\ RecoveryOf(u))'
    BY <1>a, <1>10 DEF DropPool
  <1>11. ASSUME NEW t \in Threads, TryLock(t) PROVE (TicketsOf(u) /\ RecoveryOf(u))'
    <2>1. /\ pc[t] = "forward" /\ UNCHANGED <<recovery, result, reprobes, fault>>
          /\ \A v \in Threads \ {t} : pc'[v] = pc[v]
      BY <1>11 DEF TryLock
    <2> QED BY <1>a, <1>b, <2>1
  <1>12. ASSUME NEW t \in Threads, UseLease(t) PROVE (TicketsOf(u) /\ RecoveryOf(u))'
    BY <1>a, <1>12 DEF UseLease
  <1>13. ASSUME NEW t \in Threads, SelectSecondary(t) PROVE (TicketsOf(u) /\ RecoveryOf(u))'
    BY <1>a, <1>13 DEF SelectSecondary
  <1>14. ASSUME NEW t \in Threads, NotAdmitted(t) PROVE (TicketsOf(u) /\ RecoveryOf(u))'
    BY <1>a, <1>14 DEF NotAdmitted
  <1>15. ASSUME NEW t \in Threads, AdmissionRaises(t) PROVE (TicketsOf(u) /\ RecoveryOf(u))'
    BY <1>a, <1>15 DEF AdmissionRaises
  <1>16. ASSUME NEW t \in Threads, PreparePool(t) PROVE (TicketsOf(u) /\ RecoveryOf(u))'
    <2>1. /\ pc[t] = "preparing" /\ UNCHANGED <<recovery, result, reprobes>>
          /\ \A v \in Threads \ {t} : pc'[v] = pc[v] /\ fault'[v] = fault[v]
      BY <1>16 DEF PreparePool
    <2>2. recovery[t] = 0
      BY <2>1
    <2> QED BY <1>a, <1>b, <2>1, <2>2
  <1>17. ASSUME NEW t \in Threads, StageInputs(t) PROVE (TicketsOf(u) /\ RecoveryOf(u))'
    BY <1>a, <1>17 DEF StageInputs, Submit
  <1>18. ASSUME NEW t \in Threads, NEW h \in Halves, WorkerEnds(t, h)
         PROVE  (TicketsOf(u) /\ RecoveryOf(u))'
    BY <1>a, <1>18 DEF WorkerEnds
  <1>19. ASSUME NEW t \in Threads, JoinPhase(t) PROVE (TicketsOf(u) /\ RecoveryOf(u))'
    BY <1>a, <1>19 DEF JoinPhase, Submit
  <1>20. ASSUME NEW t \in Threads, JoinRange(t) PROVE (TicketsOf(u) /\ RecoveryOf(u))'
    <2>1. /\ pc[t] = "joining" /\ UNCHANGED <<recovery, result, reprobes, fault>>
          /\ \A v \in Threads \ {t} : pc'[v] = pc[v]
      BY <1>20 DEF JoinRange, Submit
    <2> QED BY <1>a, <2>1
  <1>21. ASSUME NEW t \in Threads, NEW kind \in Kinds, RunRaises(t, kind)
         PROVE  (TicketsOf(u) /\ RecoveryOf(u))'
    <2>1. /\ pc[t] \in {"preparing"} \cup Executing /\ pc'[t] = "cleanup" /\ fault'[t] = kind
          /\ \A v \in Threads \ {t} : pc'[v] = pc[v] /\ fault'[v] = fault[v]
          /\ UNCHANGED result
      BY <1>21 DEF RunRaises
    <2>2. recovery[t] = 0
      BY <2>1
    <2>3. CASE kind \in {"fatal", "interrupt"}
      <3>1. UNCHANGED <<recovery, reprobes>>
        BY <1>21, <2>3 DEF RunRaises
      <3> QED BY <1>a, <1>b, <2>1, <2>2, <3>1
    <2>4. CASE kind \notin {"fatal", "interrupt"}
      <3>1. FailureKey(t) \in Keys
        BY <2>1, KeyType
      <3>2. Quarantine(t, FailureKey(t), kind, ~cuda[t])
        BY <1>21, <2>4 DEF RunRaises
      <3>3. \A v \in Threads \ {t} : recovery'[v] = recovery[v]
        BY <3>1, <3>2, QuarantineEffect
      <3> HIDE DEF DualInv, TypeOK, RecoveryInv, RecoveryOf, LocalsOf
      <3>0. (~cuda[t]) \in BOOLEAN
        OBVIOUS
      <3>4. \A v \in Threads, j \in Keys :
              v # t \/ j # FailureKey(t) => reprobes'[v][j] = reprobes[v][j]
        <4> DEFINE preflight == ~cuda[t]
                   key == FailureKey(t)
        <4>1. preflight \in BOOLEAN /\ key \in Keys /\ Quarantine(t, key, kind, preflight)
          BY <3>0, <3>1, <3>2
        <4> HIDE DEF preflight, key
        <4>2. \A v \in Threads, j \in Keys : v # t \/ j # key => reprobes'[v][j] = reprobes[v][j]
          BY <4>1, QuarantineEffect
        <4> QED BY <4>2 DEF key
      <3>7. \/ /\ kind = "resource" /\ FailureKey(t) \in failures'[t]
               /\ reprobes'[t][FailureKey(t)].count = reprobes[t][FailureKey(t)].count + 1
               /\ reprobes'[t][FailureKey(t)].ticket = reprobes[t][FailureKey(t)].count + 1
               /\ recovery'[t] \in 0..RESOURCE_REPROBES_PER_SAMPLE
            \/ /\ reprobes'[t][FailureKey(t)].count = reprobes[t][FailureKey(t)].count
               /\ reprobes'[t][FailureKey(t)].ticket = 0
               /\ recovery'[t] = recovery[t]
        BY <3>0, <3>1, <3>2, QuarantineEffect
      <3>5. TicketsOf(u)'
        <4> SUFFICES ASSUME NEW j \in Keys
                     PROVE  reprobes'[u][j].ticket \in {0, reprobes'[u][j].count}
          BY DEF TicketsOf
        <4> QED BY <1>0, <3>4, <3>7 DEF TicketsOf
      <3>6. RecoveryOf(u)'
        BY <1>0, <2>1, <2>2, <3>3, <3>7, DualAssumption DEF RecoveryOf
      <3> QED BY <3>5, <3>6
    <2> QED BY <2>3, <2>4
  <1>22. ASSUME NEW t \in Threads, ReturnDual(t) PROVE (TicketsOf(u) /\ RecoveryOf(u))'
    BY <1>a, <1>22 DEF ReturnDual, ReleaseRun
  <1>23. ASSUME NEW t \in Threads, FallBack(t) PROVE (TicketsOf(u) /\ RecoveryOf(u))'
    BY <1>a, <1>23 DEF FallBack, ReleaseRun
  <1>24. ASSUME NEW t \in Threads, RaiseRetry(t) PROVE (TicketsOf(u) /\ RecoveryOf(u))'
    BY <1>a, <1>24 DEF RaiseRetry, ReleaseRun
  <1>25. ASSUME NEW t \in Threads, RaiseFatal(t) PROVE (TicketsOf(u) /\ RecoveryOf(u))'
    BY <1>a, <1>25 DEF RaiseFatal, ReleaseRun, ForgetCall
  <1> QED
    BY <1>1, <1>2, <1>3, <1>4, <1>5, <1>6, <1>7, <1>8, <1>9, <1>10, <1>11, <1>12, <1>13,
       <1>14, <1>15, <1>16, <1>17, <1>18, <1>19, <1>20, <1>21, <1>22, <1>23, <1>24, <1>25
       DEF Next, Step

LEMMA RecoveryInvariant == Spec => [](DualInv /\ RecoveryInv)
  <1>1. Init => RecoveryInv
    BY DualAssumption DEF Init, RecoveryInv, TicketsOf, RecoveryOf, NoReprobe
  <1>2. DualInv /\ RecoveryInv /\ [Next]_vars => RecoveryInv'
    <2>1. RecoveryInv /\ UNCHANGED vars => RecoveryInv'
      BY DEF RecoveryInv, TicketsOf, RecoveryOf, vars, quarantine, call, operation
    <2> QED BY <2>1, RecoveryStep
  <1> QED BY <1>1, <1>2, DualInvariant, PTL DEF Spec

\* A key comes back into a thread's quarantine-free set only with a new sample
\* or at the end of the block that was recomputed on one GPU for it, within the
\* sample's budget, and never once it is disabled.
THEOREM ReadmissionCorrect == Spec => ReadmissionNeedsCompletedBlock
  <1>1. DualInv /\ RecoveryInv /\ [Next]_vars =>
          [\A t \in Threads : \A k \in failures[t] \ failures'[t] :
             \/ samples'[t] = samples[t] + 1
             \/ /\ pc[t] = "mlp" /\ result[t] = "single"
                /\ k \notin disabled[Owner[t]]
                /\ reprobes[t][k].count <= RESOURCE_REPROBES_PER_SAMPLE]_vars
    <2> SUFFICES ASSUME DualInv, RecoveryInv, Next,
                        NEW t \in Threads, NEW k \in failures[t] \ failures'[t]
                 PROVE  \/ samples'[t] = samples[t] + 1
                        \/ /\ pc[t] = "mlp" /\ result[t] = "single"
                           /\ k \notin disabled[Owner[t]]
                           /\ reprobes[t][k].count <= RESOURCE_REPROBES_PER_SAMPLE
      OBVIOUS
    <2>1. ASSUME NEW u \in Threads, BeginSample(u) PROVE samples'[t] = samples[t] + 1
      BY <2>1 DEF BeginSample, DualInv, TypeOK
    <2>2. ASSUME NEW u \in Threads, FinishBlock(u)
          PROVE  /\ pc[t] = "mlp" /\ result[t] = "single"
                 /\ k \notin disabled[Owner[t]]
                 /\ reprobes[t][k].count <= RESOURCE_REPROBES_PER_SAMPLE
      <3>1. recovery[u] # 0 /\ AllowResourceReprobe(u, FailureKey(u)) /\ pc[u] = "mlp"
        BY <2>2 DEF FinishBlock, quarantine
      <3>2. FailureKey(u) \in Keys
        BY <3>1, KeyType DEF DualInv, LocalsOf
      <3>3. u = t /\ k = FailureKey(u) /\ k \notin disabled[Owner[t]]
            /\ reprobes[t][k].ticket = recovery[t]
        BY <3>1, <3>2, ReprobeEffect
      <3>4. recovery[t] <= RESOURCE_REPROBES_PER_SAMPLE /\ result[t] = "single"
        BY <3>1, <3>3 DEF RecoveryInv, RecoveryOf
      <3>5. reprobes[t][k].count = recovery[t]
        BY <3>1, <3>2, <3>3 DEF RecoveryInv, TicketsOf
      <3> QED BY <3>1, <3>3, <3>4, <3>5
    <2>3. ASSUME NEW u \in Threads, NEW kind \in Kinds, RunRaises(u, kind) PROVE FALSE
      <3>1. Quarantine(u, FailureKey(u), kind, ~cuda[u])
        BY <2>3 DEF RunRaises, quarantine
      <3>2. FailureKey(u) \in Keys /\ (~cuda[u]) \in BOOLEAN
        BY <2>3, KeyType DEF RunRaises, DualInv, LocalsOf, TypeOK, Executing
      <3>3. failures[t] \subseteq failures'[t]
        BY <3>1, <3>2, QuarantineEffect
      <3> QED BY <3>3
    <2>4. CASE UNCHANGED failures
      BY <2>4
    <2> QED
      BY <2>1, <2>2, <2>3, <2>4 DEF Next, Step, EnterBlock, BypassDual, RebuildInput,
         SingleCompletes, BlockRaises, EndSample, TryReleasePool, DropPool, TryLock,
         UseLease, SelectSecondary, NotAdmitted, AdmissionRaises, PreparePool, StageInputs,
         WorkerEnds, JoinPhase, JoinRange, ReturnDual, FallBack, RaiseRetry, RaiseFatal,
         ReleaseRun, quarantine
  <1> QED BY <1>1, RecoveryInvariant, PTL DEF Spec, ReadmissionNeedsCompletedBlock

-----------------------------------------------------------------------------
(* What bars a pair: keys in quarantine or disabled, and leases past them. *)

InRun(t) == pc[t] \in {"preparing"} \cup Executing

\* A lease dropped or popped leaves the other leases, and no lease is made.
LEMMA LeaseDropped ==
  ASSUME TypeOK, NEW t \in Threads,
         DropLease(t) \/ DropStaleLease(t) \/ UNCHANGED leases
  PROVE  \A u \in Threads, l \in LeaseKeys : leases'[u][l] \in {leases[u][l], NoDevice}
  <1>1. LeaseKey[shape[t]] \in LeaseKeys /\ leases[t] \in [LeaseKeys -> Secondaries \cup {NoDevice}]
    BY DEF TypeOK, LeaseKeys
  <1>2. CASE UNCHANGED leases
    BY <1>2
  <1>3. CASE DropLease(t)
    BY <1>1, <1>3 DEF DropLease, TypeOK
  <1> QED BY <1>2, <1>3 DEF DropStaleLease

\* What a step does to the leases and the call of a thread: leases are dropped
\* but for the one a finished run leaves, and a call enters the run with a pair
\* that was leased to it or that is not blocked.
LeasesMove(t) ==
  \A l \in LeaseKeys :
    \/ leases'[t][l] \in {leases[t][l], NoDevice}
    \/ /\ pc[t] = "joining" /\ shape[t] \in Long
       /\ l = LeaseKey[shape[t]] /\ leases'[t][l] = secondary[t]

CallMoves(t) ==
  InRun(t)' =>
    /\ pc[t] \in Locked /\ shape'[t] = shape[t]
    /\ \/ InRun(t) /\ secondary'[t] = secondary[t] /\ leases'[t] = leases[t]
       \/ /\ shape[t] \in Long /\ leases'[t] = leases[t]
          /\ secondary'[t] = Lease(t)
       \/ ~Quarantined(t, KeyOn(t, secondary'[t]))

LEMMA CallStep == ASSUME DualInv, Next, NEW u \in Threads
                  PROVE  LeasesMove(u) /\ CallMoves(u)
  <1> USE DEF Goto, budget, memory, quarantine, operation, call, Executing, Locked, InRun
  <1>0. TypeOK
    BY DEF DualInv
  <1>c. /\ pc \in [Threads -> PCs] /\ secondary \in [Threads -> Secondaries \cup {NoDevice}]
        /\ shape \in [Threads -> Shapes]
        /\ leases \in [Threads -> [LeaseKeys -> Secondaries \cup {NoDevice}]]
    BY <1>0 DEF TypeOK
  <1>a. ASSUME NEW t \in Threads, DropLease(t) \/ DropStaleLease(t) \/ UNCHANGED leases
        PROVE  LeasesMove(u)
    BY <1>0, <1>a, LeaseDropped DEF LeasesMove
  <1>b. ASSUME InRun(u)' => /\ InRun(u) /\ leases'[u] = leases[u]
                            /\ secondary'[u] = secondary[u] /\ shape'[u] = shape[u]
        PROVE  CallMoves(u)
    BY <1>b DEF CallMoves
  <1>d. ASSUME NEW t \in Threads, u # t, DropLease(t) \/ DropStaleLease(t) \/ UNCHANGED leases
        PROVE  leases'[u] = leases[u]
    BY <1>c, <1>d DEF DropLease, DropStaleLease
  \* A step of another thread leaves the call, one of its own leaves the run.
  <1>e. ASSUME NEW t \in Threads,
               DropLease(t) \/ DropStaleLease(t) \/ UNCHANGED leases,
               UNCHANGED shape, \A v \in Threads \ {t} : pc'[v] = pc[v] /\ secondary'[v] = secondary[v],
               ~InRun(t)' \/ (InRun(t) /\ secondary'[t] = secondary[t] /\ UNCHANGED leases)
        PROVE  CallMoves(u)
    <2>1. CASE u = t
      BY <1>b, <1>e, <2>1
    <2>2. CASE u # t
      <3>1. leases'[u] = leases[u]
        BY <1>d, <1>e, <2>2
      <3> QED BY <1>b, <1>e, <2>2, <3>1
    <2> QED BY <2>1, <2>2
  <1>1. ASSUME NEW t \in Threads, BeginSample(t) PROVE LeasesMove(u) /\ CallMoves(u)
    <2>1. LeasesMove(u)
      BY <1>c, <1>1 DEF BeginSample, LeasesMove
    <2>2. CallMoves(u)
      BY <1>b, <1>c, <1>1 DEF BeginSample
    <2> QED BY <2>1, <2>2
  <1>2. ASSUME NEW t \in Threads, EnterBlock(t) PROVE LeasesMove(u) /\ CallMoves(u)
    <2>1. LeasesMove(u)
      BY <1>a, <1>2 DEF EnterBlock
    <2>2. CallMoves(u)
      BY <1>b, <1>c, <1>2 DEF EnterBlock
    <2> QED BY <2>1, <2>2
  <1>3. ASSUME NEW t \in Threads, BypassDual(t) PROVE LeasesMove(u) /\ CallMoves(u)
    <2>1. LeasesMove(u)
      BY <1>a, <1>3 DEF BypassDual
    <2>2. CallMoves(u)
      BY <1>b, <1>c, <1>3 DEF BypassDual
    <2> QED BY <2>1, <2>2
  <1>4. ASSUME NEW t \in Threads, RebuildInput(t) PROVE LeasesMove(u) /\ CallMoves(u)
    <2>1. LeasesMove(u)
      BY <1>a, <1>4 DEF RebuildInput
    <2>2. CallMoves(u)
      BY <1>b, <1>c, <1>4 DEF RebuildInput
    <2> QED BY <2>1, <2>2
  <1>5. ASSUME NEW t \in Threads, SingleCompletes(t) PROVE LeasesMove(u) /\ CallMoves(u)
    <2>1. LeasesMove(u)
      BY <1>a, <1>5 DEF SingleCompletes
    <2>2. CallMoves(u)
      BY <1>b, <1>c, <1>5 DEF SingleCompletes
    <2> QED BY <2>1, <2>2
  <1>6. ASSUME NEW t \in Threads, FinishBlock(t) PROVE LeasesMove(u) /\ CallMoves(u)
    <2>1. LeasesMove(u)
      BY <1>a, <1>6 DEF FinishBlock, ForgetCall
    <2>2. CallMoves(u)
      BY <1>b, <1>c, <1>6 DEF FinishBlock, ForgetCall
    <2> QED BY <2>1, <2>2
  <1>7. ASSUME NEW t \in Threads, BlockRaises(t) PROVE LeasesMove(u) /\ CallMoves(u)
    <2>1. LeasesMove(u)
      BY <1>a, <1>7 DEF BlockRaises, ForgetCall
    <2>2. CallMoves(u)
      BY <1>b, <1>c, <1>7 DEF BlockRaises, ForgetCall
    <2> QED BY <2>1, <2>2
  <1>8. ASSUME NEW t \in Threads, EndSample(t) PROVE LeasesMove(u) /\ CallMoves(u)
    <2>1. LeasesMove(u)
      BY <1>a, <1>8 DEF EndSample
    <2>2. CallMoves(u)
      BY <1>b, <1>c, <1>8 DEF EndSample
    <2> QED BY <2>1, <2>2
  <1>9. ASSUME NEW t \in Threads, TryReleasePool(t) PROVE LeasesMove(u) /\ CallMoves(u)
    <2>1. LeasesMove(u)
      BY <1>a, <1>9 DEF TryReleasePool
    <2>2. CallMoves(u)
      BY <1>b, <1>c, <1>9 DEF TryReleasePool
    <2> QED BY <2>1, <2>2
  <1>10. ASSUME NEW t \in Threads, DropPool(t) PROVE LeasesMove(u) /\ CallMoves(u)
    <2>1. LeasesMove(u)
      BY <1>a, <1>10 DEF DropPool
    <2>2. CallMoves(u)
      BY <1>b, <1>c, <1>10 DEF DropPool
    <2> QED BY <2>1, <2>2
  <1>11. ASSUME NEW t \in Threads, TryLock(t) PROVE LeasesMove(u) /\ CallMoves(u)
    <2>1. LeasesMove(u)
      BY <1>a, <1>11 DEF TryLock
    <2>2. CallMoves(u)
      BY <1>b, <1>c, <1>11 DEF TryLock
    <2> QED BY <2>1, <2>2
  <1>12. ASSUME NEW t \in Threads, UseLease(t) PROVE LeasesMove(u) /\ CallMoves(u)
    <2>1. LeasesMove(u)
      BY <1>a, <1>12 DEF UseLease
    <2>2. CallMoves(u)
      BY <1>c, <1>12 DEF UseLease, CallMoves
    <2> QED BY <2>1, <2>2
  <1>13. ASSUME NEW t \in Threads, SelectSecondary(t) PROVE LeasesMove(u) /\ CallMoves(u)
    <2>1. LeasesMove(u)
      BY <1>a, <1>13 DEF SelectSecondary
    <2>2. CallMoves(u)
      <3>1. CASE u = t
        BY <1>c, <1>13, <3>1 DEF SelectSecondary, CallMoves
      <3>2. CASE u # t
        <4>1. leases'[u] = leases[u]
          BY <1>d, <1>13, <3>2 DEF SelectSecondary
        <4> QED BY <1>b, <1>c, <1>13, <3>2, <4>1 DEF SelectSecondary
      <3> QED BY <3>1, <3>2
    <2> QED BY <2>1, <2>2
  <1>14. ASSUME NEW t \in Threads, NotAdmitted(t) PROVE LeasesMove(u) /\ CallMoves(u)
    <2>1. LeasesMove(u)
      BY <1>a, <1>14 DEF NotAdmitted
    <2>2. CallMoves(u)
      <3>1. /\ DropLease(t) \/ DropStaleLease(t) \/ UNCHANGED leases
            /\ UNCHANGED shape
            /\ \A v \in Threads \ {t} : pc'[v] = pc[v] /\ secondary'[v] = secondary[v]
            /\ ~InRun(t)' \/ (InRun(t) /\ secondary'[t] = secondary[t] /\ UNCHANGED leases)
        BY <1>c, <1>14 DEF NotAdmitted
      <3> QED BY <1>e, <3>1
    <2> QED BY <2>1, <2>2
  <1>15. ASSUME NEW t \in Threads, AdmissionRaises(t) PROVE LeasesMove(u) /\ CallMoves(u)
    <2>1. LeasesMove(u)
      BY <1>a, <1>15 DEF AdmissionRaises
    <2>2. CallMoves(u)
      <3>1. /\ DropLease(t) \/ DropStaleLease(t) \/ UNCHANGED leases
            /\ UNCHANGED shape
            /\ \A v \in Threads \ {t} : pc'[v] = pc[v] /\ secondary'[v] = secondary[v]
            /\ ~InRun(t)' \/ (InRun(t) /\ secondary'[t] = secondary[t] /\ UNCHANGED leases)
        BY <1>c, <1>15 DEF AdmissionRaises
      <3> QED BY <1>e, <3>1
    <2> QED BY <2>1, <2>2
  <1>16. ASSUME NEW t \in Threads, PreparePool(t) PROVE LeasesMove(u) /\ CallMoves(u)
    <2>1. LeasesMove(u)
      BY <1>a, <1>16 DEF PreparePool
    <2>2. CallMoves(u)
      <3>1. /\ DropLease(t) \/ DropStaleLease(t) \/ UNCHANGED leases
            /\ UNCHANGED shape
            /\ \A v \in Threads \ {t} : pc'[v] = pc[v] /\ secondary'[v] = secondary[v]
            /\ ~InRun(t)' \/ (InRun(t) /\ secondary'[t] = secondary[t] /\ UNCHANGED leases)
        BY <1>c, <1>16 DEF PreparePool
      <3> QED BY <1>e, <3>1
    <2> QED BY <2>1, <2>2
  <1>17. ASSUME NEW t \in Threads, StageInputs(t) PROVE LeasesMove(u) /\ CallMoves(u)
    <2>1. LeasesMove(u)
      BY <1>a, <1>17 DEF StageInputs, Submit
    <2>2. CallMoves(u)
      BY <1>b, <1>c, <1>17 DEF StageInputs, Submit
    <2> QED BY <2>1, <2>2
  <1>18. ASSUME NEW t \in Threads, NEW h \in Halves, WorkerEnds(t, h) PROVE LeasesMove(u) /\ CallMoves(u)
    <2>1. LeasesMove(u)
      BY <1>a, <1>18 DEF WorkerEnds
    <2>2. CallMoves(u)
      BY <1>b, <1>c, <1>18 DEF WorkerEnds
    <2> QED BY <2>1, <2>2
  <1>19. ASSUME NEW t \in Threads, JoinPhase(t) PROVE LeasesMove(u) /\ CallMoves(u)
    <2>1. LeasesMove(u)
      BY <1>a, <1>19 DEF JoinPhase, Submit
    <2>2. CallMoves(u)
      BY <1>b, <1>c, <1>19 DEF JoinPhase, Submit
    <2> QED BY <2>1, <2>2
  <1>20. ASSUME NEW t \in Threads, JoinRange(t) PROVE LeasesMove(u) /\ CallMoves(u)
    <2>1. LeasesMove(u)
      <3>1. CASE UNCHANGED leases
        BY <1>a, <3>1
      <3>2. CASE ~UNCHANGED leases
        <4>1. /\ pc[t] = "joining" /\ shape[t] \in Long
              /\ leases' = [leases EXCEPT ![t][LeaseKey[shape[t]]] = secondary[t]]
          BY <1>20, <3>2 DEF JoinRange
        <4>2. LeaseKey[shape[t]] \in LeaseKeys
          BY <1>c DEF LeaseKeys
        <4> QED BY <1>c, <4>1, <4>2 DEF LeasesMove
      <3> QED BY <3>1, <3>2
    <2>2. CallMoves(u)
      BY <1>b, <1>c, <1>20 DEF JoinRange, Submit
    <2> QED BY <2>1, <2>2
  <1>21. ASSUME NEW t \in Threads, NEW kind \in Kinds, RunRaises(t, kind)
         PROVE  LeasesMove(u) /\ CallMoves(u)
    <2>1. LeasesMove(u)
      BY <1>a, <1>21 DEF RunRaises
    <2>2. CallMoves(u)
      <3>1. /\ DropLease(t) \/ DropStaleLease(t) \/ UNCHANGED leases
            /\ UNCHANGED shape
            /\ \A v \in Threads \ {t} : pc'[v] = pc[v] /\ secondary'[v] = secondary[v]
            /\ ~InRun(t)' \/ (InRun(t) /\ secondary'[t] = secondary[t] /\ UNCHANGED leases)
        BY <1>c, <1>21 DEF RunRaises
      <3> QED BY <1>e, <3>1
    <2> QED BY <2>1, <2>2
  <1>22. ASSUME NEW t \in Threads, ReturnDual(t) PROVE LeasesMove(u) /\ CallMoves(u)
    <2>1. LeasesMove(u)
      BY <1>a, <1>22 DEF ReturnDual, ReleaseRun
    <2>2. CallMoves(u)
      BY <1>b, <1>c, <1>22 DEF ReturnDual, ReleaseRun
    <2> QED BY <2>1, <2>2
  <1>23. ASSUME NEW t \in Threads, FallBack(t) PROVE LeasesMove(u) /\ CallMoves(u)
    <2>1. LeasesMove(u)
      BY <1>a, <1>23 DEF FallBack, ReleaseRun
    <2>2. CallMoves(u)
      BY <1>b, <1>c, <1>23 DEF FallBack, ReleaseRun
    <2> QED BY <2>1, <2>2
  <1>24. ASSUME NEW t \in Threads, RaiseRetry(t) PROVE LeasesMove(u) /\ CallMoves(u)
    <2>1. LeasesMove(u)
      BY <1>a, <1>24 DEF RaiseRetry, ReleaseRun
    <2>2. CallMoves(u)
      BY <1>b, <1>c, <1>24 DEF RaiseRetry, ReleaseRun
    <2> QED BY <2>1, <2>2
  <1>25. ASSUME NEW t \in Threads, RaiseFatal(t) PROVE LeasesMove(u) /\ CallMoves(u)
    <2>1. LeasesMove(u)
      BY <1>a, <1>25 DEF RaiseFatal, ReleaseRun, ForgetCall
    <2>2. CallMoves(u)
      BY <1>b, <1>c, <1>25 DEF RaiseFatal, ReleaseRun, ForgetCall
    <2> QED BY <2>1, <2>2
  <1> QED
    BY <1>1, <1>2, <1>3, <1>4, <1>5, <1>6, <1>7, <1>8, <1>9, <1>10, <1>11, <1>12, <1>13,
       <1>14, <1>15, <1>16, <1>17, <1>18, <1>19, <1>20, <1>21, <1>22, <1>23, <1>24, <1>25
       DEF Next, Step

LiveLeases(t, k) == {l \in LeasesFor(k) : leases[t][l] = k[1]}

\* Of the leases for a key in K, one at least is not on the pair of the key;
\* and a run of such a key has the lease of its own call.
Barred(t, K) ==
  /\ \A k \in K : LeasesFor(k) = {} \/ LiveLeases(t, k) # LeasesFor(k)
  /\ InRun(t) /\ FailureKey(t) \in K => shape[t] \in Long /\ Lease(t) = secondary[t]

LEMMA LeasesForType ==
  ASSUME NEW k
  PROVE  /\ LeasesFor(k) \subseteq LeaseKeys /\ IsFiniteSet(LeasesFor(k))
         /\ \A r \in Long : LeaseKey[r] \in LeasesFor(k) => Signature[r] = k[2]
         /\ \A r \in Shapes : LeasesFor(k) # {} /\ Signature[r] = k[2] =>
              r \in Long /\ LeaseKey[r] \in LeasesFor(k)
  <1>1. LeasesFor(k) \subseteq LeaseKeys
    BY DualAssumption DEF LeasesFor, LeaseKeys
  <1>2. IsFiniteSet(LeasesFor(k))
    <2> DEFINE S == {r \in Long : Signature[r] = k[2]}
    <2>1. IsFiniteSet(S)
      BY DualAssumption, FS_Subset
    <2>2. LeasesFor(k) = {LeaseKey[r] : r \in S}
      BY DEF LeasesFor
    <2> DEFINE f == [r \in S |-> LeaseKey[r]]
    <2>3. f \in Surjection(S, LeasesFor(k))
      BY <2>2 DEF Surjection
    <2> HIDE DEF f, S
    <2> QED BY <2>1, <2>3, FS_Surjection
  <1>3. \A r \in Long : LeaseKey[r] \in LeasesFor(k) => Signature[r] = k[2]
    BY KeyAssumption DEF LeasesFor
  <1>4. \A r \in Shapes : LeasesFor(k) # {} /\ Signature[r] = k[2] =>
          r \in Long /\ LeaseKey[r] \in LeasesFor(k)
    BY KeyAssumption, DualAssumption DEF LeasesFor
  <1> QED BY <1>1, <1>2, <1>3, <1>4

\* A step lets nobody past the keys that were barred before it.
LEMMA BarredKept ==
  ASSUME DualInv, Next, NEW u \in Threads, NEW K, Barred(u, K),
         K \subseteq Keys, K \subseteq disabled[Owner[u]] \cup failures[u]
  PROVE  /\ \A k \in K : \/ LeasesFor(k) = {}
                         \/ \E l \in LeasesFor(k) : leases'[u][l] # k[1]
         /\ InRun(u)' /\ FailureKey(u)' \in K =>
              shape'[u] \in Long /\ leases'[u][LeaseKey[shape'[u]]] = secondary'[u]
  <1>0. /\ LeasesMove(u) /\ CallMoves(u)
        /\ shape[u] \in Shapes /\ secondary[u] \in Secondaries \cup {NoDevice}
    BY CallStep DEF DualInv, TypeOK
  <1>1. ASSUME NEW k \in K, LeasesFor(k) # {}
        PROVE  \E l \in LeasesFor(k) : leases'[u][l] # k[1]
    <2>1. PICK l \in LeasesFor(k) : leases[u][l] # k[1]
      BY <1>1 DEF Barred, LiveLeases
    <2>2. l \in LeaseKeys /\ k[1] # NoDevice /\ k = <<k[1], k[2]>>
      BY DualAssumption, LeasesForType DEF Keys
    <2>3. CASE leases'[u][l] \in {leases[u][l], NoDevice}
      BY <2>1, <2>2, <2>3
    <2>4. CASE /\ pc[u] = "joining" /\ shape[u] \in Long
               /\ l = LeaseKey[shape[u]] /\ leases'[u][l] = secondary[u]
      <3>1. Signature[shape[u]] = k[2] /\ InRun(u)
        BY <2>4, LeasesForType DEF InRun, Executing
      <3>2. secondary[u] = k[1] => FailureKey(u) = k /\ Lease(u) = k[1]
        BY <2>2, <3>1 DEF Barred, FailureKey, KeyOn
      <3> QED BY <2>1, <2>4, <3>2 DEF Lease
    <2> QED BY <1>0, <2>2, <2>3, <2>4 DEF LeasesMove
  <1>2. ASSUME InRun(u)', FailureKey(u)' \in K
        PROVE  shape'[u] \in Long /\ leases'[u][LeaseKey[shape'[u]]] = secondary'[u]
    <2>1. shape'[u] = shape[u] /\ FailureKey(u)' = <<secondary'[u], Signature[shape[u]]>>
      BY <1>0, <1>2 DEF CallMoves, FailureKey, KeyOn
    <2>2. CASE InRun(u) /\ secondary'[u] = secondary[u] /\ leases'[u] = leases[u]
      BY <1>2, <2>1, <2>2 DEF Barred, FailureKey, KeyOn, Lease
    <2>3. CASE /\ shape[u] \in Long /\ leases'[u] = leases[u]
               /\ secondary'[u] = Lease(u)
      BY <2>1, <2>3 DEF Lease
    <2>4. CASE ~Quarantined(u, KeyOn(u, secondary'[u]))
      BY <1>2, <2>1, <2>4 DEF Quarantined, KeyOn
    <2> QED BY <1>0, <1>2, <2>2, <2>3, <2>4 DEF CallMoves
  <1> QED BY <1>1, <1>2

\* A failed call gives its lease up: of the leases for its key, that one is not
\* on the pair.
LEMMA FailedLoose ==
  ASSUME DualInv, NEW u \in Threads, InRun(u),
         leases'[u][LeaseKey[shape[u]]] = NoDevice
  PROVE  /\ FailureKey(u) \in Keys
         /\ LeasesFor(FailureKey(u)) # {} =>
              /\ LeaseKey[shape[u]] \in LeasesFor(FailureKey(u))
              /\ leases'[u][LeaseKey[shape[u]]] # FailureKey(u)[1]
  <1>1. FailureKey(u) \in Keys
    BY KeyType DEF DualInv, LocalsOf, InRun, Executing
  <1>2. FailureKey(u)[1] \in Secondaries /\ FailureKey(u)[2] = Signature[shape[u]]
    BY <1>1 DEF FailureKey, KeyOn, Keys
  <1>3. shape[u] \in Shapes
    BY DEF DualInv, TypeOK
  <1> QED BY <1>1, <1>2, <1>3, LeasesForType, DualAssumption

-----------------------------------------------------------------------------
(* The quarantine of a thread and its budget.                              *)

\* What a step does to the failures a thread remembers: it forgets some that
\* are within the budget, or fails a run and takes the lease of its call.
FailuresShrink(t) ==
  /\ failures'[t] \subseteq failures[t]
  /\ \A k \in failures[t] \ failures'[t] :
       reprobes'[t][k].count <= RESOURCE_REPROBES_PER_SAMPLE
  /\ \A k \in Keys : reprobes'[t][k].count \in {0, reprobes[t][k].count}

RunFails(t) ==
  /\ InRun(t) /\ ~InRun(t)'
  /\ leases'[t][LeaseKey[shape[t]]] = NoDevice
  /\ \A l \in LeaseKeys : leases'[t][l] \in {leases[t][l], NoDevice}
  /\ failures'[t] \subseteq failures[t] \cup {FailureKey(t)}
  /\ failures[t] \subseteq failures'[t]
  /\ \A k \in Keys \ {FailureKey(t)} : reprobes'[t][k].count = reprobes[t][k].count
  /\ \/ /\ FailureKey(t) \in failures'[t]
        /\ reprobes'[t][FailureKey(t)].count = reprobes[t][FailureKey(t)].count + 1
     \/ reprobes'[t][FailureKey(t)].count = reprobes[t][FailureKey(t)].count

\* Leases are granted by a run that ends well, and that forgets nothing.
LEMMA FailuresStep ==
  ASSUME DualInv, RecoveryInv, Next, NEW u \in Threads
  PROVE  FailuresShrink(u) \/ RunFails(u)
  <1>0. /\ TypeOK /\ failures[u] \in SUBSET Keys
        /\ \A k \in Keys : reprobes[u][k].count \in Nat
        /\ RESOURCE_REPROBES_PER_SAMPLE \in Nat
    BY DualAssumption DEF DualInv, TypeOK
  <1>1. CASE UNCHANGED <<failures, reprobes>>
    BY <1>0, <1>1 DEF FailuresShrink
  <1>2. ASSUME NEW t \in Threads, BeginSample(t) PROVE FailuresShrink(u)
    <2>1. CASE u = t
      <3>1. failures'[u] = {} /\ \A k \in Keys : reprobes'[u][k].count = 0
        BY <1>0, <1>2, <2>1 DEF BeginSample, TypeOK, NoReprobe
      <3> QED BY <1>0, <3>1 DEF FailuresShrink
    <2>2. CASE u # t
      <3>1. failures'[u] = failures[u] /\ reprobes'[u] = reprobes[u]
        BY <1>0, <1>2, <2>2 DEF BeginSample, TypeOK
      <3> QED BY <3>1 DEF FailuresShrink
    <2> QED BY <2>1, <2>2
  <1>3. ASSUME NEW t \in Threads, FinishBlock(t), ~UNCHANGED <<failures, reprobes>>
        PROVE  FailuresShrink(u)
    <2>1. recovery[t] # 0 /\ AllowResourceReprobe(t, FailureKey(t))
      BY <1>3 DEF FinishBlock, quarantine
    <2> DEFINE key == FailureKey(t)
    <2>2. key \in Keys /\ AllowResourceReprobe(t, key)
      BY <2>1, KeyType DEF DualInv, LocalsOf
    <2> HIDE DEF key
    <2>3. /\ reprobes[t][key].ticket = recovery[t]
          /\ \A v \in Threads, j \in Keys : v # t \/ j # key => reprobes'[v][j] = reprobes[v][j]
          /\ reprobes'[t][key].count = reprobes[t][key].count
          /\ \A v \in Threads \ {t} : failures'[v] = failures[v]
          /\ failures'[t] = failures[t] \ {key}
      BY <1>3, <2>2, ReprobeEffect
    <2>4. reprobes[t][key].count <= RESOURCE_REPROBES_PER_SAMPLE
      BY <2>1, <2>2, <2>3 DEF RecoveryInv, TicketsOf, RecoveryOf
    <2>5. CASE u = t
      <3>1. \A k \in Keys : reprobes'[u][k].count = reprobes[u][k].count
        BY <2>3, <2>5
      <3> QED BY <2>3, <2>4, <2>5, <3>1 DEF FailuresShrink
    <2>6. CASE u # t
      BY <1>0, <2>3, <2>6 DEF FailuresShrink
    <2> QED BY <2>5, <2>6
  <1>4. ASSUME NEW t \in Threads, NEW kind \in Kinds, RunRaises(t, kind),
               ~UNCHANGED <<failures, reprobes>>
        PROVE  FailuresShrink(u) \/ RunFails(u)
    <2>1. kind \notin {"fatal", "interrupt"} /\ DropLease(t)
      BY <1>4 DEF RunRaises, quarantine
    <2>2. InRun(t) /\ ~InRun(t)'
      BY <1>0, <1>4 DEF RunRaises, Goto, InRun, Executing, TypeOK
    <2> DEFINE key == FailureKey(t)
               preflight == ~cuda[t]
    <2>3. key \in Keys /\ preflight \in BOOLEAN /\ Quarantine(t, key, kind, preflight)
      BY <1>4, <2>1, <2>2, KeyType DEF RunRaises, DualInv, LocalsOf, InRun, Executing
    <2> HIDE DEF key, preflight
    <2>4. /\ failures'[t] \subseteq failures[t] \cup {key}
          /\ failures[t] \subseteq failures'[t]
          /\ \A v \in Threads \ {t} : failures'[v] = failures[v]
      BY <2>3, QuarantineEffect
    <2>5. \A v \in Threads, j \in Keys : v # t \/ j # key => reprobes'[v][j] = reprobes[v][j]
      BY <2>3, QuarantineEffect
    <2>6. \/ key \in failures'[t] /\ reprobes'[t][key].count = reprobes[t][key].count + 1
          \/ reprobes'[t][key].count = reprobes[t][key].count
      BY <2>3, QuarantineEffect
    <2>7. CASE u # t
      BY <1>0, <2>4, <2>5, <2>7 DEF FailuresShrink
    <2>8. CASE u = t
      <3>1. leases \in [Threads -> [LeaseKeys -> Secondaries \cup {NoDevice}]]
            /\ LeaseKey[shape[t]] \in LeaseKeys
        BY <1>0 DEF TypeOK, LeaseKeys
      <3>2. /\ leases'[t][LeaseKey[shape[t]]] = NoDevice
            /\ \A l \in LeaseKeys : leases'[t][l] \in {leases[t][l], NoDevice}
        BY <2>1, <3>1 DEF DropLease
      <3> QED BY <2>2, <2>4, <2>5, <2>6, <2>8, <3>2 DEF RunFails, key
    <2> QED BY <2>7, <2>8
  <1>5. \/ UNCHANGED <<failures, reprobes>>
        \/ \E t \in Threads :
             BeginSample(t) \/ FinishBlock(t) \/ \E kind \in Kinds : RunRaises(t, kind)
    BY DEF Next, Step, BeginSample, EnterBlock, BypassDual, RebuildInput,
       SingleCompletes, BlockRaises, EndSample, TryReleasePool, DropPool, TryLock,
       UseLease, SelectSecondary, NotAdmitted, AdmissionRaises, PreparePool, StageInputs,
       WorkerEnds, JoinPhase, JoinRange, ReturnDual, FallBack, RaiseRetry, RaiseFatal,
       ReleaseRun, quarantine
  <1> QED BY <1>1, <1>2, <1>3, <1>4, <1>5

\* Within the budget, or in quarantine: then what has failed and what may still
\* fail behind a lease are together within the bound.
FailuresLimit(k) == RESOURCE_REPROBES_PER_SAMPLE + LargerOf(1, Cardinality(LeasesFor(k)))

BudgetOf(t) ==
  \A k \in Keys :
    IF k \in failures[t]
    THEN reprobes[t][k].count + Cardinality(LiveLeases(t, k)) <= FailuresLimit(k)
    ELSE reprobes[t][k].count <= RESOURCE_REPROBES_PER_SAMPLE

QuarantineInv == \A t \in Threads : Barred(t, failures[t]) /\ BudgetOf(t)

LEMMA SubsetCount ==
  ASSUME NEW S, NEW T, IsFiniteSet(S), T \subseteq S
  PROVE  /\ Cardinality(S) \in Nat /\ Cardinality(T) \in Nat
         /\ Cardinality(T) <= Cardinality(S)
         /\ T # S => Cardinality(T) + 1 <= Cardinality(S)
  BY FS_Subset, FS_CardinalityType

\* A thread that has quarantined a key gets no lease for it that it had not.
LEMMA LiveShrinks ==
  ASSUME DualInv, Next, NEW u \in Threads, Barred(u, failures[u]), NEW k \in failures[u]
  PROVE  {l \in LeasesFor(k) : leases'[u][l] = k[1]} \subseteq LiveLeases(u, k)
  <1>0. LeasesMove(u) /\ failures[u] \subseteq Keys
    BY CallStep DEF DualInv, TypeOK
  <1> SUFFICES ASSUME NEW l \in LeasesFor(k), leases'[u][l] = k[1]
               PROVE  leases[u][l] = k[1]
    BY DEF LiveLeases
  <1>1. l \in LeaseKeys /\ k[1] # NoDevice /\ k = <<k[1], k[2]>>
    BY <1>0, DualAssumption, LeasesForType DEF Keys
  <1>2. CASE leases'[u][l] \in {leases[u][l], NoDevice}
    BY <1>1, <1>2
  <1>3. CASE /\ pc[u] = "joining" /\ shape[u] \in Long
             /\ l = LeaseKey[shape[u]] /\ leases'[u][l] = secondary[u]
    <2>1. Signature[shape[u]] = k[2] /\ InRun(u)
      BY <1>3, LeasesForType DEF InRun, Executing
    <2>2. FailureKey(u) = k
      BY <1>1, <1>3, <2>1 DEF FailureKey, KeyOn
    <2> QED BY <1>3, <2>1, <2>2 DEF Barred, Lease
  <1> QED BY <1>0, <1>1, <1>2, <1>3 DEF LeasesMove

LEMMA BudgetStep ==
  ASSUME DualInv, RecoveryInv, QuarantineInv, Next, NEW u \in Threads
  PROVE  BudgetOf(u)'
  <1> DEFINE Left(k) == {l \in LeasesFor(k) : leases'[u][l] = k[1]}
  <1> SUFFICES ASSUME NEW k \in Keys
               PROVE  IF k \in failures'[u]
                      THEN reprobes'[u][k].count + Cardinality(Left(k)) <= FailuresLimit(k)
                      ELSE reprobes'[u][k].count <= RESOURCE_REPROBES_PER_SAMPLE
    BY DEF BudgetOf, LiveLeases, FailuresLimit, LeasesFor, Keys
  <1>0. /\ Barred(u, failures[u]) /\ BudgetOf(u) /\ failures[u] \subseteq Keys
        /\ reprobes[u][k].count \in Nat /\ RESOURCE_REPROBES_PER_SAMPLE \in Nat
    BY DualAssumption DEF QuarantineInv, DualInv, TypeOK
  <1>1. /\ IsFiniteSet(LeasesFor(k)) /\ Left(k) \subseteq LeasesFor(k)
        /\ LiveLeases(u, k) \subseteq LeasesFor(k)
    BY LeasesForType DEF LiveLeases
  <1>2. /\ Cardinality(Left(k)) \in Nat /\ Cardinality(LiveLeases(u, k)) \in Nat
        /\ Cardinality(LeasesFor(k)) \in Nat
    BY <1>1, SubsetCount
  <1>3. k \in failures[u] =>
          /\ Left(k) \subseteq LiveLeases(u, k)
          /\ Cardinality(Left(k)) <= Cardinality(LiveLeases(u, k))
          /\ Left(k) # LiveLeases(u, k) =>
               Cardinality(Left(k)) + 1 <= Cardinality(LiveLeases(u, k))
    <2> SUFFICES ASSUME k \in failures[u]
                 PROVE  /\ Left(k) \subseteq LiveLeases(u, k)
                        /\ Cardinality(Left(k)) <= Cardinality(LiveLeases(u, k))
                        /\ Left(k) # LiveLeases(u, k) =>
                             Cardinality(Left(k)) + 1 <= Cardinality(LiveLeases(u, k))
      OBVIOUS
    <2>1. Left(k) \subseteq LiveLeases(u, k)
      BY <1>0, LiveShrinks
    <2>2. IsFiniteSet(LiveLeases(u, k))
      BY <1>1, FS_Subset
    <2> HIDE DEF Left
    <2> QED BY <2>1, <2>2, SubsetCount
  <1>4. /\ FailuresLimit(k) \in Nat
        /\ RESOURCE_REPROBES_PER_SAMPLE + 1 <= FailuresLimit(k)
        /\ RESOURCE_REPROBES_PER_SAMPLE + Cardinality(LeasesFor(k)) <= FailuresLimit(k)
    BY <1>0, <1>2 DEF FailuresLimit, LargerOf
  <1>5. /\ k \in failures[u] =>
             reprobes[u][k].count + Cardinality(LiveLeases(u, k)) <= FailuresLimit(k)
        /\ k \notin failures[u] => reprobes[u][k].count <= RESOURCE_REPROBES_PER_SAMPLE
    BY <1>0 DEF BudgetOf
  <1> HIDE DEF Left
  <1>6. CASE FailuresShrink(u)
    <2>1. /\ reprobes'[u][k].count \in {0, reprobes[u][k].count}
          /\ k \in failures'[u] => k \in failures[u]
          /\ k \in failures[u] /\ k \notin failures'[u] =>
               reprobes'[u][k].count <= RESOURCE_REPROBES_PER_SAMPLE
      BY <1>6 DEF FailuresShrink
    <2> QED BY <1>0, <1>2, <1>3, <1>4, <1>5, <2>1
  <1>7. CASE RunFails(u) /\ k # FailureKey(u)
    <2>1. /\ reprobes'[u][k].count = reprobes[u][k].count
          /\ k \in failures'[u] <=> k \in failures[u]
      BY <1>7 DEF RunFails
    <2> QED BY <1>0, <1>2, <1>3, <1>4, <1>5, <2>1
  <1>8. CASE RunFails(u) /\ k = FailureKey(u)
    <2>1. /\ InRun(u) /\ leases'[u][LeaseKey[shape[u]]] = NoDevice
          /\ failures[u] \subseteq failures'[u]
          /\ \/ k \in failures'[u] /\ reprobes'[u][k].count = reprobes[u][k].count + 1
             \/ reprobes'[u][k].count = reprobes[u][k].count
      BY <1>8 DEF RunFails
    <2>2. LeasesFor(k) # {} =>
            /\ LeaseKey[shape[u]] \in LeasesFor(k)
            /\ LeaseKey[shape[u]] \notin Left(k)
      BY <1>8, <2>1, FailedLoose DEF Left
    <2>3. CASE k \in failures[u]
      <3>1. shape[u] \in Long /\ leases[u][LeaseKey[shape[u]]] = k[1]
        BY <1>0, <1>8, <2>1, <2>3 DEF Barred, Lease, FailureKey, KeyOn
      <3>2. LeaseKey[shape[u]] \in LiveLeases(u, k)
        BY <1>8, <3>1 DEF LiveLeases, LeasesFor, FailureKey, KeyOn
      <3>3. Left(k) # LiveLeases(u, k)
        BY <2>2, <3>2 DEF LiveLeases
      <3> QED BY <1>0, <1>2, <1>3, <1>4, <1>5, <2>1, <2>3, <3>3
    <2>4. CASE k \notin failures[u]
      <3>1. CASE LeasesFor(k) = {}
        <4>1. Cardinality(Left(k)) = 0
          BY <1>1, <3>1, FS_EmptySet
        <4> QED BY <1>0, <1>4, <1>5, <2>1, <2>4, <4>1
      <3>2. CASE LeasesFor(k) # {}
        <4>1. Left(k) # LeasesFor(k)
          BY <2>2, <3>2
        <4>2. Cardinality(Left(k)) + 1 <= Cardinality(LeasesFor(k))
          BY <1>1, <4>1, SubsetCount
        <4> QED BY <1>0, <1>2, <1>4, <1>5, <2>1, <2>4, <4>2
      <3> QED BY <3>1, <3>2
    <2> QED BY <2>3, <2>4
  <1> QED BY <1>6, <1>7, <1>8, FailuresStep

LEMMA QuarantineStep ==
  ASSUME DualInv, RecoveryInv, QuarantineInv, Next
  PROVE  QuarantineInv'
  <1> SUFFICES ASSUME NEW u \in Threads PROVE Barred(u, failures[u])' /\ BudgetOf(u)'
    BY DEF QuarantineInv
  <1>0. Barred(u, failures[u]) /\ failures[u] \subseteq Keys
    BY DEF QuarantineInv, DualInv, TypeOK
  <1>1. /\ \A k \in failures[u] : \/ LeasesFor(k) = {}
                                  \/ \E l \in LeasesFor(k) : leases'[u][l] # k[1]
        /\ InRun(u)' /\ FailureKey(u)' \in failures[u] =>
             shape'[u] \in Long /\ leases'[u][LeaseKey[shape'[u]]] = secondary'[u]
    BY <1>0, BarredKept
  <1>2. CASE FailuresShrink(u)
    <2>1. failures'[u] \subseteq failures[u]
      BY <1>2 DEF FailuresShrink
    <2> QED BY <1>1, <2>1, BudgetStep DEF Barred, LiveLeases, LeasesFor, Lease
  <1>3. CASE RunFails(u)
    <2>1. /\ InRun(u) /\ ~InRun(u)' /\ leases'[u][LeaseKey[shape[u]]] = NoDevice
          /\ failures'[u] \subseteq failures[u] \cup {FailureKey(u)}
      BY <1>3 DEF RunFails
    <2>2. LeasesFor(FailureKey(u)) = {}
          \/ \E l \in LeasesFor(FailureKey(u)) : leases'[u][l] # FailureKey(u)[1]
      BY <2>1, FailedLoose
    <2>3. \A k \in failures'[u] : \/ LeasesFor(k) = {}
                                  \/ \E l \in LeasesFor(k) : leases'[u][l] # k[1]
      BY <1>1, <2>1, <2>2
    <2> QED BY <2>1, <2>3, BudgetStep DEF Barred, LiveLeases, LeasesFor
  <1> QED BY <1>2, <1>3, FailuresStep

LEMMA QuarantineInvariant == Spec => [](DualInv /\ QuarantineInv)
  <1>1. Init => QuarantineInv
    <2> SUFFICES ASSUME Init, NEW t \in Threads PROVE Barred(t, failures[t]) /\ BudgetOf(t)
      BY DEF QuarantineInv
    <2>1. failures[t] = {} /\ \A k \in Keys : reprobes[t][k].count = 0
      BY DEF Init, NoReprobe
    <2> QED BY <2>1, DualAssumption DEF Barred, BudgetOf
  <1>2. DualInv /\ RecoveryInv /\ QuarantineInv /\ [Next]_vars => QuarantineInv'
    <2>1. QuarantineInv /\ UNCHANGED vars => QuarantineInv'
      BY DEF QuarantineInv, Barred, BudgetOf, LiveLeases, InRun, Lease, FailureKey, KeyOn,
         vars, quarantine, call
    <2> QED BY <2>1, QuarantineStep
  <1> QED BY <1>1, <1>2, RecoveryInvariant, PTL DEF Spec

\* In one sample a thread sees at most one failure of a key more than its
\* budget, and one more for each further lease key that calls of the key may
\* have: a quarantined key is only run again behind a lease, and each failure
\* there costs the lease.
THEOREM BudgetCorrect == Spec => []ResourceFailuresBounded
  <1>1. DualInv /\ QuarantineInv => ResourceFailuresBounded
    <2> SUFFICES ASSUME DualInv, QuarantineInv, NEW t \in Threads, NEW k \in Keys
                 PROVE  reprobes[t][k].count <= FailuresLimit(k)
      BY DEF ResourceFailuresBounded, FailuresLimit
    <2>1. /\ reprobes[t][k].count \in Nat /\ RESOURCE_REPROBES_PER_SAMPLE \in Nat
          /\ BudgetOf(t)
      BY DualAssumption DEF DualInv, TypeOK, QuarantineInv
    <2>2. LiveLeases(t, k) \subseteq LeasesFor(k) /\ IsFiniteSet(LeasesFor(k))
      BY LeasesForType DEF LiveLeases
    <2>3. Cardinality(LiveLeases(t, k)) \in Nat /\ Cardinality(LeasesFor(k)) \in Nat
      BY <2>2, SubsetCount
    <2>4. FailuresLimit(k) \in Nat /\ RESOURCE_REPROBES_PER_SAMPLE <= FailuresLimit(k)
      BY <2>1, <2>3 DEF FailuresLimit, LargerOf
    <2> QED BY <2>1, <2>3, <2>4 DEF BudgetOf
  <1> QED BY <1>1, QuarantineInvariant, PTL

-----------------------------------------------------------------------------
(* The signatures a state has disabled.                                    *)

\* Nothing is leased, or no two threads sample with one state object.
LeasesUnshared ==
  Long = {} \/ \A t, u \in Threads : Owner[t] = Owner[u] => t = u

EnabledInv == \A t \in Threads : Barred(t, disabled[Owner[t]])

\* A step disables a signature only where it fails a run of that signature, and
\* then takes the lease of the failed call.
LEMMA DisabledStep ==
  ASSUME DualInv, Next
  PROVE  \/ UNCHANGED disabled
         \/ \E t \in Threads :
              /\ InRun(t) /\ ~InRun(t)'
              /\ leases'[t][LeaseKey[shape[t]]] = NoDevice
              /\ \A o \in States : disabled'[o] \subseteq disabled[o] \cup {FailureKey(t)}
              /\ \A o \in States \ {Owner[t]} : disabled'[o] = disabled[o]
  <1> SUFFICES ASSUME ~UNCHANGED disabled
               PROVE  \E t \in Threads :
                        /\ InRun(t) /\ ~InRun(t)'
                        /\ leases'[t][LeaseKey[shape[t]]] = NoDevice
                        /\ \A o \in States : disabled'[o] \subseteq disabled[o] \cup {FailureKey(t)}
                        /\ \A o \in States \ {Owner[t]} : disabled'[o] = disabled[o]
    OBVIOUS
  <1>1. PICK t \in Threads : \E kind \in Kinds : RunRaises(t, kind)
    BY DEF Next, Step, BeginSample, EnterBlock, BypassDual, RebuildInput,
       SingleCompletes, FinishBlock, AllowResourceReprobe, BlockRaises, EndSample,
       TryReleasePool, DropPool, TryLock, UseLease, SelectSecondary, NotAdmitted,
       AdmissionRaises, PreparePool, StageInputs, WorkerEnds, JoinPhase, JoinRange,
       ReturnDual, FallBack, RaiseRetry, RaiseFatal, ReleaseRun, quarantine
  <1>2. PICK kind \in Kinds : RunRaises(t, kind)
    BY <1>1
  <1> DEFINE key == FailureKey(t)
             preflight == ~cuda[t]
  <1>3. InRun(t) /\ ~InRun(t)'
    BY <1>2 DEF RunRaises, Goto, InRun, Executing, DualInv, TypeOK
  <1>4. kind \notin {"fatal", "interrupt"} /\ DropLease(t)
    BY <1>2 DEF RunRaises, quarantine
  <1>5. key \in Keys /\ preflight \in BOOLEAN /\ Quarantine(t, key, kind, preflight)
    BY <1>2, <1>3, <1>4, KeyType DEF RunRaises, DualInv, LocalsOf, InRun, Executing
  <1> HIDE DEF key, preflight
  <1>6. /\ \A o \in States : disabled'[o] \subseteq disabled[o] \cup {key}
        /\ \A o \in States \ {Owner[t]} : disabled'[o] = disabled[o]
    BY <1>5, QuarantineEffect
  <1>7. leases'[t][LeaseKey[shape[t]]] = NoDevice
    <2>1. leases \in [Threads -> [LeaseKeys -> Secondaries \cup {NoDevice}]]
      BY DEF DualInv, TypeOK
    <2>2. LeaseKey[shape[t]] \in LeaseKeys
      BY DEF LeaseKeys, DualInv, TypeOK
    <2> QED BY <1>4, <2>1, <2>2 DEF DropLease
  <1> QED BY <1>3, <1>6, <1>7 DEF key

LEMMA EnabledStep ==
  ASSUME LeasesUnshared, DualInv, EnabledInv, Next
  PROVE  EnabledInv'
  <1> SUFFICES ASSUME NEW u \in Threads PROVE Barred(u, disabled[Owner[u]])'
    BY DEF EnabledInv
  <1>0. /\ Barred(u, disabled[Owner[u]]) /\ disabled[Owner[u]] \subseteq Keys
        /\ Owner[u] \in States
    BY DualAssumption DEF EnabledInv, DualInv, TypeOK
  <1>1. /\ \A k \in disabled[Owner[u]] : \/ LeasesFor(k) = {}
                                         \/ \E l \in LeasesFor(k) : leases'[u][l] # k[1]
        /\ InRun(u)' /\ FailureKey(u)' \in disabled[Owner[u]] =>
             shape'[u] \in Long /\ leases'[u][LeaseKey[shape'[u]]] = secondary'[u]
    BY <1>0, BarredKept
  <1>2. CASE UNCHANGED disabled
    BY <1>1, <1>2 DEF Barred, LiveLeases, LeasesFor, Lease
  <1>3. CASE ~UNCHANGED disabled
    <2>1. PICK t \in Threads :
            /\ InRun(t) /\ ~InRun(t)'
            /\ leases'[t][LeaseKey[shape[t]]] = NoDevice
            /\ \A o \in States : disabled'[o] \subseteq disabled[o] \cup {FailureKey(t)}
            /\ \A o \in States \ {Owner[t]} : disabled'[o] = disabled[o]
      BY <1>3, DisabledStep
    <2>2. InRun(u)' => u = t
      BY <2>1, CallStep DEF CallMoves, DualInv, LockCoversWork, InRun, Executing, Locked
    <2>3. ~InRun(u)'
      BY <2>1, <2>2
    <2>4. ASSUME NEW k \in disabled'[Owner[u]], k \notin disabled[Owner[u]],
                 LeasesFor(k) # {}
          PROVE  \E l \in LeasesFor(k) : leases'[u][l] # k[1]
      <3>1. k = FailureKey(t) /\ Owner[u] = Owner[t]
        BY <1>0, <2>1, <2>4
      <3>2. u = t
        BY <2>4, <3>1 DEF LeasesUnshared, LeasesFor
      <3> QED BY <2>1, <2>4, <3>1, <3>2, FailedLoose
    <2> QED BY <1>1, <2>3, <2>4 DEF Barred, LiveLeases, LeasesFor
  <1> QED BY <1>2, <1>3

\* A dual run only uses a key that its state has disabled or its thread has
\* quarantined behind a lease that the failure did not cost, where no other
\* thread of the state disables behind a lease (with one state for several
\* threads and a lease it is false: run DualLease).
THEOREM QuarantineCorrect ==
  ASSUME LeasesUnshared
  PROVE  Spec => []QuarantineRespected
  <1>1. Init => EnabledInv
    <2> SUFFICES ASSUME Init, NEW t \in Threads PROVE Barred(t, disabled[Owner[t]])
      BY DEF EnabledInv
    <2>1. disabled[Owner[t]] = {}
      BY DualAssumption DEF Init
    <2> QED BY <2>1 DEF Barred
  <1>2. DualInv /\ EnabledInv /\ [Next]_vars => EnabledInv'
    <2>1. EnabledInv /\ UNCHANGED vars => EnabledInv'
      BY DEF EnabledInv, Barred, LiveLeases, InRun, Lease, FailureKey, KeyOn, vars,
         quarantine, call
    <2> QED BY <2>1, EnabledStep
  <1>3. DualInv /\ QuarantineInv /\ EnabledInv => QuarantineRespected
    <2> SUFFICES ASSUME DualInv, QuarantineInv, EnabledInv, NEW t \in Threads, InRun(t),
                        Quarantined(t, FailureKey(t))
                 PROVE  /\ Lease(t) = secondary[t]
                        /\ \E l \in LeasesFor(FailureKey(t)) : l # LeaseKey[shape[t]]
      BY DEF QuarantineRespected, InRun
    <2> DEFINE key == FailureKey(t)
    <2>1. /\ shape[t] \in Long /\ Lease(t) = secondary[t]
          /\ LeasesFor(key) = {} \/ LiveLeases(t, key) # LeasesFor(key)
      BY DEF QuarantineInv, EnabledInv, Barred, Quarantined
    <2>2. key[1] = secondary[t] /\ LeaseKey[shape[t]] \in LeasesFor(key)
      BY <2>1 DEF FailureKey, KeyOn, LeasesFor
    <2>3. PICK l \in LeasesFor(key) : leases[t][l] # secondary[t]
      BY <2>1, <2>2 DEF LiveLeases
    <2> QED BY <2>1, <2>3 DEF Lease
  <1> QED BY <1>1, <1>2, <1>3, QuarantineInvariant, PTL DEF Spec

\* Long exact calls that share a failure key share their lease key: all calls
\* of one token count are of one packed sequence.
LeasesFollowKeys ==
  \A r, s \in Long : Signature[r] = Signature[s] => LeaseKey[r] = LeaseKey[s]

\* Only allocation pressure is retried where, besides, leases are no finer than
\* failure keys: a key that any other failure has disabled has no dual run again.
THEOREM RetryCorrect ==
  ASSUME LeasesFollowKeys, LeasesUnshared
  PROVE  Spec => []OnlyAllocationPressureRetried
  <1>1. DualInv /\ QuarantineRespected => OnlyAllocationPressureRetried
    <2> SUFFICES ASSUME DualInv, QuarantineRespected, NEW t \in Threads, InRun(t),
                        FailureKey(t) \in disabled[Owner[t]]
                 PROVE  FALSE
      BY DEF OnlyAllocationPressureRetried, InRun
    <2>1. PICK l \in LeasesFor(FailureKey(t)) : l # LeaseKey[shape[t]]
      BY DEF QuarantineRespected, Quarantined, InRun
    <2>2. PICK r \in Long : l = LeaseKey[r] /\ Signature[r] = Signature[shape[t]]
      BY DEF LeasesFor, FailureKey, KeyOn
    <2>3. shape[t] \in Long
      BY <2>2, KeyAssumption DEF DualInv, TypeOK
    <2> QED BY <2>1, <2>2, <2>3 DEF LeasesFollowKeys
  <1> QED BY <1>1, QuarantineCorrect, DualInvariant, PTL

-----------------------------------------------------------------------------
(* The pinned pool of an idle state.                                       *)

\* One patched model in the process.
OneState == \A t, u \in Threads : Owner[t] = Owner[u]

\* A state with a pool has a thread that is still in its sample.
PoolUsed ==
  \A o \in States : pool[o] # 0 => \E t \in Threads : Owner[t] = o /\ pc[t] # "idle"

LEMMA PoolUsedStep ==
  ASSUME OneState, DualInv, PoolUsed, Next
  PROVE  PoolUsed'
  <1> SUFFICES ASSUME NEW o \in States, pool'[o] # 0
               PROVE  \E t \in Threads : Owner[t] = o /\ pc'[t] # "idle"
    BY DEF PoolUsed
  <1> USE DEF Goto
  <1>0. pc \in [Threads -> PCs] /\ pool \in [States -> Nat] /\ Owner \in [Threads -> States]
    BY DualAssumption DEF DualInv, TypeOK
  <1>1. ASSUME NEW t \in Threads, DropPool(t) PROVE FALSE
    <2>1. Owner[t] # o /\ pool[o] # 0
      BY <1>0, <1>1 DEF DropPool
    <2> QED BY <2>1 DEF PoolUsed, OneState
  <1>2. ASSUME NEW t \in Threads, TryReleasePool(t)
        PROVE  \E u \in Threads : Owner[u] = o /\ pc'[u] # "idle"
    <2>1. PICK u \in Threads : Owner[u] = o /\ pc[u] # "idle"
      BY <1>2 DEF PoolUsed, TryReleasePool, memory
    <2>2. CASE lock = NoThread
      <3>1. pc'[t] # "idle" /\ Owner[t] = o
        BY <1>0, <1>2, <2>1, <2>2 DEF TryReleasePool, OneState
      <3> QED BY <3>1
    <2>3. CASE lock # NoThread
      <3>1. lock \in Threads /\ pc[lock] \in Locked /\ Owner[lock] = o
        BY <2>1, <2>3 DEF DualInv, TypeOK, LockCoversWork, OneState
      <3>2. pc[t] = "ending" /\ \A v \in Threads \ {t} : pc'[v] = pc[v]
        BY <1>0, <1>2 DEF TryReleasePool
      <3>3. lock # t /\ pc[lock] # "idle"
        BY <3>1, <3>2 DEF Locked, Executing
      <3> QED BY <3>1, <3>2, <3>3
    <2> QED BY <2>2, <2>3
  <1>3. ASSUME NEW t \in Threads, PreparePool(t) \/ \E kind \in Kinds : RunRaises(t, kind)
        PROVE  \E u \in Threads : Owner[u] = o /\ pc'[u] # "idle"
    <2>1. pc'[t] # "idle" /\ pc[t] # "idle" /\ \A v \in Threads \ {t} : pc'[v] = pc[v]
      BY <1>0, <1>3 DEF PreparePool, RunRaises, Executing
    <2>2. Owner[t] = o \/ pool[o] # 0
      BY <1>0, <1>3 DEF PreparePool, RunRaises
    <2> QED BY <2>1, <2>2 DEF PoolUsed
  <1>4. ASSUME UNCHANGED pool, \A v \in Threads : pc'[v] # "idle" \/ pc'[v] = pc[v]
        PROVE  \E u \in Threads : Owner[u] = o /\ pc'[u] # "idle"
    BY <1>4 DEF PoolUsed
  <1>5. \/ \E t \in Threads :
             DropPool(t) \/ TryReleasePool(t) \/ PreparePool(t)
             \/ \E kind \in Kinds : RunRaises(t, kind)
        \/ UNCHANGED pool /\ \A v \in Threads : pc'[v] # "idle" \/ pc'[v] = pc[v]
    BY <1>0 DEF Next, Step, BeginSample, EnterBlock, BypassDual, RebuildInput,
       SingleCompletes, FinishBlock, BlockRaises, EndSample, TryLock, UseLease,
       SelectSecondary, NotAdmitted, AdmissionRaises, StageInputs, WorkerEnds, JoinPhase,
       JoinRange, ReturnDual, FallBack, RaiseRetry, RaiseFatal, ReleaseRun, memory
  <1> QED BY <1>1, <1>2, <1>3, <1>4, <1>5

\* With one patched model in the process no pinned memory outlives the samples:
\* whoever holds the lock while another thread gives up on it will itself
\* release the pool.  (With two models it is false: run DualPools.)
THEOREM IdleCorrect ==
  ASSUME OneState
  PROVE  Spec => []IdlePoolReleased
  <1>1. Init => PoolUsed
    BY DEF Init, PoolUsed
  <1>2. DualInv /\ PoolUsed /\ [Next]_vars => PoolUsed'
    <2>1. PoolUsed /\ UNCHANGED vars => PoolUsed'
      BY DEF PoolUsed, vars, memory
    <2> QED BY <2>1, PoolUsedStep
  <1>3. PoolUsed => IdlePoolReleased
    BY DEF PoolUsed, IdlePoolReleased
  <1> QED BY <1>1, <1>2, <1>3, DualInvariant, PTL DEF Spec

-----------------------------------------------------------------------------
(* The route implements the abstract block service.                        *)

\* A block has an output exactly while its MLP half is to come.
ResultOf(t) == result[t] # "none" <=> pc[t] = "mlp"
ResultInv == \A t \in Threads : ResultOf(t)

LEMMA ResultStep == DualInv /\ ResultInv /\ Next => ResultInv'
  <1> SUFFICES ASSUME DualInv, ResultInv, Next, NEW u \in Threads PROVE ResultOf(u)'
    BY DEF ResultInv
  <1> USE DEF Goto, budget, memory, quarantine, operation, call, Executing
  <1>0. /\ ResultOf(u) /\ pc \in [Threads -> PCs]
        /\ result \in [Threads -> {"none", "dual", "single", "corrupt"}]
    BY DEF ResultInv, DualInv, TypeOK
  <1>1. ASSUME NEW t \in Threads, BeginSample(t) PROVE ResultOf(u)'
    BY <1>0, <1>1 DEF BeginSample, ResultOf
  <1>2. ASSUME NEW t \in Threads, EnterBlock(t) PROVE ResultOf(u)'
    BY <1>0, <1>2 DEF EnterBlock, ResultOf
  <1>3. ASSUME NEW t \in Threads, BypassDual(t) PROVE ResultOf(u)'
    BY <1>0, <1>3 DEF BypassDual, ResultOf
  <1>4. ASSUME NEW t \in Threads, RebuildInput(t) PROVE ResultOf(u)'
    BY <1>0, <1>4 DEF RebuildInput, ResultOf
  <1>5. ASSUME NEW t \in Threads, SingleCompletes(t) PROVE ResultOf(u)'
    BY <1>0, <1>5 DEF SingleCompletes, ResultOf
  <1>6. ASSUME NEW t \in Threads, FinishBlock(t) PROVE ResultOf(u)'
    BY <1>0, <1>6 DEF FinishBlock, ForgetCall, ResultOf
  <1>7. ASSUME NEW t \in Threads, BlockRaises(t) PROVE ResultOf(u)'
    BY <1>0, <1>7 DEF BlockRaises, ForgetCall, ResultOf
  <1>8. ASSUME NEW t \in Threads, EndSample(t) PROVE ResultOf(u)'
    BY <1>0, <1>8 DEF EndSample, ResultOf
  <1>9. ASSUME NEW t \in Threads, TryReleasePool(t) PROVE ResultOf(u)'
    BY <1>0, <1>9 DEF TryReleasePool, ResultOf
  <1>10. ASSUME NEW t \in Threads, DropPool(t) PROVE ResultOf(u)'
    BY <1>0, <1>10 DEF DropPool, ResultOf
  <1>11. ASSUME NEW t \in Threads, TryLock(t) PROVE ResultOf(u)'
    BY <1>0, <1>11 DEF TryLock, ResultOf
  <1>12. ASSUME NEW t \in Threads, UseLease(t) PROVE ResultOf(u)'
    BY <1>0, <1>12 DEF UseLease, ResultOf
  <1>13. ASSUME NEW t \in Threads, SelectSecondary(t) PROVE ResultOf(u)'
    BY <1>0, <1>13 DEF SelectSecondary, ResultOf
  <1>14. ASSUME NEW t \in Threads, NotAdmitted(t) PROVE ResultOf(u)'
    BY <1>0, <1>14 DEF NotAdmitted, ResultOf
  <1>15. ASSUME NEW t \in Threads, AdmissionRaises(t) PROVE ResultOf(u)'
    BY <1>0, <1>15 DEF AdmissionRaises, ResultOf
  <1>16. ASSUME NEW t \in Threads, PreparePool(t) PROVE ResultOf(u)'
    BY <1>0, <1>16 DEF PreparePool, ResultOf
  <1>17. ASSUME NEW t \in Threads, StageInputs(t) PROVE ResultOf(u)'
    BY <1>0, <1>17 DEF StageInputs, Submit, ResultOf
  <1>18. ASSUME NEW t \in Threads, NEW h \in Halves, WorkerEnds(t, h) PROVE ResultOf(u)'
    BY <1>0, <1>18 DEF WorkerEnds, ResultOf
  <1>19. ASSUME NEW t \in Threads, JoinPhase(t) PROVE ResultOf(u)'
    BY <1>0, <1>19 DEF JoinPhase, Submit, ResultOf
  <1>20. ASSUME NEW t \in Threads, JoinRange(t) PROVE ResultOf(u)'
    BY <1>0, <1>20 DEF JoinRange, Submit, ResultOf
  <1>21. ASSUME NEW t \in Threads, NEW kind \in Kinds, RunRaises(t, kind) PROVE ResultOf(u)'
    BY <1>0, <1>21 DEF RunRaises, ResultOf
  <1>22. ASSUME NEW t \in Threads, ReturnDual(t) PROVE ResultOf(u)'
    BY <1>0, <1>22 DEF ReturnDual, ReleaseRun, ResultOf
  <1>23. ASSUME NEW t \in Threads, FallBack(t) PROVE ResultOf(u)'
    BY <1>0, <1>23 DEF FallBack, ReleaseRun, ResultOf
  <1>24. ASSUME NEW t \in Threads, RaiseRetry(t) PROVE ResultOf(u)'
    BY <1>0, <1>24 DEF RaiseRetry, ReleaseRun, ResultOf
  <1>25. ASSUME NEW t \in Threads, RaiseFatal(t) PROVE ResultOf(u)'
    BY <1>0, <1>25 DEF RaiseFatal, ReleaseRun, ForgetCall, ResultOf
  <1> QED
    BY <1>1, <1>2, <1>3, <1>4, <1>5, <1>6, <1>7, <1>8, <1>9, <1>10, <1>11, <1>12, <1>13,
       <1>14, <1>15, <1>16, <1>17, <1>18, <1>19, <1>20, <1>21, <1>22, <1>23, <1>24, <1>25
       DEF Next, Step

\* The abstract stages, as a function of the program counters.
Stages == [t \in Threads |-> StageOf(pc[t])]

LEMMA StageMoves ==
  ASSUME DualInv, NEW t \in Threads, NEW to, Goto(t, to)
  PROVE  /\ Service!Move(t, StageOf(pc[t]), StageOf(to))
         /\ StageOf(pc[t]) = StageOf(to) => Stages' = Stages
  <1>1. pc \in [Threads -> PCs]
    BY DEF DualInv, TypeOK
  <1>2. pc' = [pc EXCEPT ![t] = to]
    BY DEF Goto
  <1>3. Stages' = [Stages EXCEPT ![t] = StageOf(to)] /\ Stages[t] = StageOf(pc[t])
    BY <1>1, <1>2 DEF Stages
  <1>4. StageOf(pc[t]) = StageOf(to) => Stages' = Stages
    BY <1>3 DEF Stages
  <1> QED BY <1>3, <1>4 DEF Stages, Service!Move

LEMMA StageValues ==
  /\ \A p \in InBlock : StageOf(p) = "block"
  /\ StageOf("ending") = "closing" /\ StageOf("dropping") = "closing"
  /\ StageOf("idle") = "idle" /\ StageOf("sampling") = "sampling"
  BY DEF StageOf, InBlock, Locked, Executing

\* An abstract step, or one the sampler cannot see.
BlockStep == [Service!AbstractNext]_<<Stages, result, lock>>

LEMMA BlockStepOf ==
  ASSUME DualInv, ResultInv, NEW t \in Threads,
         \/ Service!Advance(t) \/ Service!OpenSample(t) \/ Service!OpenBlock(t)
         \/ Service!CloseSample(t) \/ Service!LeaveSample(t)
  PROVE  BlockStep
  BY DEF BlockStep, Service!AbstractNext

\* Every step of the route is a step of the service, or hidden from it: the run
\* lock is what engages the pair, and the output a block gets from it is given
\* with the lock.
LEMMA BlockStepped == ASSUME DualInv, ResultInv, Next PROVE BlockStep
  <1> USE StageValues DEF budget, memory, quarantine, operation, call, Executing, InBlock, Locked
  <1>0. /\ pc \in [Threads -> PCs] /\ lock \in Threads \cup {NoThread} /\ NoThread \notin Threads
        /\ result \in [Threads -> {"none", "dual", "single", "corrupt"}]
        /\ \A v \in Threads : pc[v] \in Locked <=> lock = v
        /\ \A v \in Threads : result[v] # "none" <=> pc[v] = "mlp"
        /\ \A v \in Threads : Stages[v] = StageOf(pc[v])
    BY DualAssumption DEF DualInv, TypeOK, LockCoversWork, ResultInv, ResultOf, Stages
  <1> DEFINE Hidden == Stages' = Stages /\ UNCHANGED <<result, lock>>
  <1>h. Hidden => BlockStep
    BY DEF BlockStep
  <1>p. (UNCHANGED pc) => Stages' = Stages
    BY DEF Stages
  <1>1. ASSUME NEW t \in Threads, BeginSample(t) PROVE BlockStep
    <2>1. /\ Goto(t, "sampling")
          /\ pc[t] = "idle" /\ UNCHANGED <<result, lock>>
      BY <1>0, <1>1 DEF BeginSample
    <2>2. Service!Move(t, StageOf(pc[t]), StageOf("sampling"))
      BY <2>1, StageMoves
    <2> QED BY <1>0, <2>1, <2>2, BlockStepOf DEF Service!OpenSample, Stages
  <1>2. ASSUME NEW t \in Threads, EnterBlock(t) PROVE BlockStep
    <2>1. /\ Goto(t, "forward")
          /\ pc[t] = "sampling" /\ UNCHANGED <<result, lock>>
      BY <1>0, <1>2 DEF EnterBlock
    <2>2. Service!Move(t, StageOf(pc[t]), StageOf("forward"))
      BY <2>1, StageMoves
    <2> QED BY <1>0, <2>1, <2>2, BlockStepOf DEF Service!OpenBlock, Stages
  <1>3. ASSUME NEW t \in Threads, BypassDual(t) PROVE BlockStep
    <2>1. Goto(t, "single") /\ StageOf(pc[t]) = "block" /\ UNCHANGED <<result, lock>>
      BY <1>3 DEF BypassDual
    <2> QED BY <1>h, <2>1, StageMoves
  <1>4. ASSUME NEW t \in Threads, RebuildInput(t) PROVE BlockStep
    <2>1. Goto(t, "single") /\ StageOf(pc[t]) = "block" /\ UNCHANGED <<result, lock>>
      BY <1>4 DEF RebuildInput
    <2> QED BY <1>h, <2>1, StageMoves
  <1>5. ASSUME NEW t \in Threads, SingleCompletes(t) PROVE BlockStep
    <2>1. /\ Goto(t, "mlp") /\ pc[t] = "single" /\ UNCHANGED lock
          /\ result' = [result EXCEPT ![t] = "single"]
      BY <1>5 DEF SingleCompletes, DualInv, LocalsOf, AtRest
    <2>2. Stages' = Stages
      BY <2>1, StageMoves
    <2> QED BY <1>0, <2>1, <2>2, BlockStepOf DEF Service!ComputeSingle, Service!Advance, Stages
  <1>6. ASSUME NEW t \in Threads, FinishBlock(t) PROVE BlockStep
    <2>1. /\ Goto(t, "sampling")
          /\ pc[t] = "mlp" /\ UNCHANGED lock
          /\ result' = [result EXCEPT ![t] = "none"]
      BY <1>0, <1>6 DEF FinishBlock, ForgetCall
    <2>2. Service!Move(t, StageOf(pc[t]), StageOf("sampling"))
      BY <2>1, StageMoves
    <2> QED BY <1>0, <2>1, <2>2, BlockStepOf DEF Service!CloseBlock, Service!Advance, Stages
  <1>7. ASSUME NEW t \in Threads, BlockRaises(t) PROVE BlockStep
    <2>1. /\ Goto(t, "ending")
          /\ StageOf(pc[t]) = "block" /\ lock # t /\ UNCHANGED lock
          /\ result' = [result EXCEPT ![t] = "none"]
      BY <1>0, <1>7 DEF BlockRaises, ForgetCall
    <2>2. Service!Move(t, StageOf(pc[t]), StageOf("ending"))
      BY <2>1, StageMoves
    <2> QED BY <1>0, <2>1, <2>2, BlockStepOf DEF Service!FailBlock, Service!Advance, Stages
  <1>8. ASSUME NEW t \in Threads, EndSample(t) PROVE BlockStep
    <2>1. /\ Goto(t, "ending")
          /\ pc[t] = "sampling" /\ UNCHANGED <<result, lock>>
      BY <1>0, <1>8 DEF EndSample
    <2>2. Service!Move(t, StageOf(pc[t]), StageOf("ending"))
      BY <2>1, StageMoves
    <2> QED BY <1>0, <2>1, <2>2, BlockStepOf DEF Service!CloseSample, Stages
  <1>9. ASSUME NEW t \in Threads, TryReleasePool(t) PROVE BlockStep
    <2>1. pc[t] = "ending" /\ UNCHANGED result
      BY <1>9 DEF TryReleasePool
    <2>2. CASE lock = NoThread
      <3>1. lock' = t /\ Goto(t, "dropping")
        BY <1>9, <2>2 DEF TryReleasePool
      <3>2. Stages' = Stages
        BY <2>1, <3>1, StageMoves
      <3> QED BY <1>0, <2>1, <2>2, <3>1, <3>2, BlockStepOf DEF Service!Engage, Service!Advance, Stages
    <2>3. CASE lock # NoThread
      <3>1. UNCHANGED lock /\ Goto(t, "idle")
        BY <1>9, <2>3 DEF TryReleasePool
      <3>2. Service!Move(t, StageOf(pc[t]), StageOf("idle"))
        BY <3>1, StageMoves
      <3> QED BY <1>0, <2>1, <3>1, <3>2, BlockStepOf DEF Service!LeaveSample, Stages
    <2> QED BY <2>2, <2>3
  <1>10. ASSUME NEW t \in Threads, DropPool(t) PROVE BlockStep
    <2>1. /\ Goto(t, "idle")
          /\ pc[t] = "dropping" /\ UNCHANGED result /\ lock' = NoThread
      BY <1>0, <1>10 DEF DropPool
    <2>2. Service!Move(t, StageOf(pc[t]), StageOf("idle"))
      BY <2>1, StageMoves
    <2> QED BY <1>0, <2>1, <2>2, BlockStepOf DEF Service!LeaveSample, Stages
  <1>11. ASSUME NEW t \in Threads, TryLock(t) PROVE BlockStep
    <2>1. pc[t] = "forward" /\ UNCHANGED result
      BY <1>11 DEF TryLock
    <2>2. CASE lock = NoThread
      <3>1. lock' = t /\ Goto(t, "admitting")
        BY <1>11, <2>2 DEF TryLock
      <3>2. Stages' = Stages
        BY <2>1, <3>1, StageMoves
      <3> QED BY <1>0, <2>1, <2>2, <3>1, <3>2, BlockStepOf DEF Service!Engage, Service!Advance, Stages
    <2>3. CASE lock # NoThread
      <3>1. UNCHANGED lock /\ Goto(t, "single")
        BY <1>11, <2>3 DEF TryLock
      <3> QED BY <1>h, <2>1, <3>1, StageMoves
    <2> QED BY <2>2, <2>3
  <1>12. ASSUME NEW t \in Threads, UseLease(t) PROVE BlockStep
    <2>1. Goto(t, "staging") /\ StageOf(pc[t]) = "block" /\ UNCHANGED <<result, lock>>
      BY <1>12 DEF UseLease
    <2> QED BY <1>h, <2>1, StageMoves
  <1>13. ASSUME NEW t \in Threads, SelectSecondary(t) PROVE BlockStep
    <2>1. Goto(t, "preparing") /\ StageOf(pc[t]) = "block" /\ UNCHANGED <<result, lock>>
      BY <1>13 DEF SelectSecondary
    <2> QED BY <1>h, <2>1, StageMoves
  <1>14. ASSUME NEW t \in Threads, NotAdmitted(t) PROVE BlockStep
    <2>1. Goto(t, "single") /\ pc[t] = "admitting" /\ UNCHANGED result /\ lock' = NoThread
      BY <1>14 DEF NotAdmitted
    <2>2. Stages' = Stages
      BY <2>1, StageMoves
    <2> QED BY <1>0, <2>1, <2>2, BlockStepOf DEF Service!Disengage, Service!Advance, Stages
  <1>15. ASSUME NEW t \in Threads, AdmissionRaises(t) PROVE BlockStep
    <2>1. /\ Goto(t, "ending")
          /\ pc[t] = "admitting" /\ UNCHANGED result /\ lock' = NoThread
      BY <1>0, <1>15 DEF AdmissionRaises
    <2>2. Service!Move(t, StageOf(pc[t]), StageOf("ending"))
      BY <2>1, StageMoves
    <2>3. result' = [result EXCEPT ![t] = "none"]
      <3>1. result[t] = "none"
        BY <1>0, <2>1
      <3> QED BY <1>0, <2>1, <3>1
    <2> QED BY <1>0, <2>1, <2>2, <2>3, BlockStepOf DEF Service!DisengageAndFail, Service!Advance, Stages
  <1>16. ASSUME NEW t \in Threads, PreparePool(t) PROVE BlockStep
    <2>1. /\ UNCHANGED <<result, lock>> /\ StageOf(pc[t]) = "block"
          /\ Goto(t, "staging") \/ Goto(t, "cleanup")
      BY <1>16 DEF PreparePool
    <2> QED BY <1>h, <2>1, StageMoves
  <1>17. ASSUME NEW t \in Threads, StageInputs(t) PROVE BlockStep
    <2>1. Goto(t, "joining") /\ StageOf(pc[t]) = "block" /\ UNCHANGED <<result, lock>>
      BY <1>17 DEF StageInputs
    <2> QED BY <1>h, <2>1, StageMoves
  <1>18. ASSUME NEW t \in Threads, NEW h \in Halves, WorkerEnds(t, h) PROVE BlockStep
    BY <1>h, <1>p, <1>18 DEF WorkerEnds
  <1>19. ASSUME NEW t \in Threads, JoinPhase(t) PROVE BlockStep
    BY <1>h, <1>p, <1>19 DEF JoinPhase
  <1>20. ASSUME NEW t \in Threads, JoinRange(t) PROVE BlockStep
    <2>1. /\ UNCHANGED <<result, lock>> /\ StageOf(pc[t]) = "block"
          /\ (UNCHANGED pc) \/ Goto(t, "cleanup")
      BY <1>20 DEF JoinRange
    <2> QED BY <1>h, <1>p, <2>1, StageMoves
  <1>21. ASSUME NEW t \in Threads, NEW kind \in Kinds, RunRaises(t, kind) PROVE BlockStep
    <2>1. Goto(t, "cleanup") /\ StageOf(pc[t]) = "block" /\ UNCHANGED <<result, lock>>
      BY <1>21 DEF RunRaises
    <2> QED BY <1>h, <2>1, StageMoves
  <1>22. ASSUME NEW t \in Threads, ReturnDual(t) PROVE BlockStep
    <2>1. /\ Goto(t, "mlp") /\ pc[t] = "cleanup" /\ lock' = NoThread
          /\ result' = [result EXCEPT ![t] = "dual"]
      BY <1>22 DEF ReturnDual, ReleaseRun, DualInv, LocalsOf
    <2>2. Stages' = Stages
      BY <2>1, StageMoves
    <2> QED BY <1>0, <2>1, <2>2, BlockStepOf DEF Service!Disengage, Service!Advance, Stages
  <1>23. ASSUME NEW t \in Threads, FallBack(t) PROVE BlockStep
    <2>1. Goto(t, "single") /\ pc[t] = "cleanup" /\ UNCHANGED result /\ lock' = NoThread
      BY <1>23 DEF FallBack, ReleaseRun
    <2>2. Stages' = Stages
      BY <2>1, StageMoves
    <2> QED BY <1>0, <2>1, <2>2, BlockStepOf DEF Service!Disengage, Service!Advance, Stages
  <1>24. ASSUME NEW t \in Threads, RaiseRetry(t) PROVE BlockStep
    <2>1. Goto(t, "retry") /\ pc[t] = "cleanup" /\ UNCHANGED result /\ lock' = NoThread
      BY <1>24 DEF RaiseRetry, ReleaseRun
    <2>2. Stages' = Stages
      BY <2>1, StageMoves
    <2> QED BY <1>0, <2>1, <2>2, BlockStepOf DEF Service!Disengage, Service!Advance, Stages
  <1>25. ASSUME NEW t \in Threads, RaiseFatal(t) PROVE BlockStep
    <2>1. /\ Goto(t, "ending")
          /\ pc[t] = "cleanup" /\ lock' = NoThread
          /\ result' = [result EXCEPT ![t] = "none"]
      BY <1>0, <1>25 DEF RaiseFatal, ReleaseRun, ForgetCall
    <2>2. Service!Move(t, StageOf(pc[t]), StageOf("ending"))
      BY <2>1, StageMoves
    <2> QED BY <1>0, <2>1, <2>2, BlockStepOf DEF Service!DisengageAndFail, Service!Advance, Stages
  <1> QED
    BY <1>1, <1>2, <1>3, <1>4, <1>5, <1>6, <1>7, <1>8, <1>9, <1>10, <1>11, <1>12, <1>13,
       <1>14, <1>15, <1>16, <1>17, <1>18, <1>19, <1>20, <1>21, <1>22, <1>23, <1>24, <1>25
       DEF Next, Step

\* The route keeps the service's promise, whatever fails: each step of a thread
\* is one the service allows, or one it does not see.  That every started block
\* ends too is left to TLC.
THEOREM ServiceCorrect == Spec => Service!AbstractSafety
  <1>1. Init => Service!AbstractInit /\ ResultInv
    BY StageValues DEF Init, Service!AbstractInit, ResultInv, ResultOf
  <1>2. DualInv /\ ResultInv /\ [Next]_vars =>
          ResultInv' /\ [Service!AbstractNext]_Service!avars
    <2> SUFFICES ASSUME DualInv, ResultInv, [Next]_vars
                 PROVE  ResultInv' /\ [Service!AbstractNext]_Service!avars
      OBVIOUS
    <2>1. CASE Next
      <3>1. BlockStep /\ ResultInv'
        BY <2>1, BlockStepped, ResultStep
      <3> QED BY <3>1 DEF BlockStep, Stages, Service!avars
    <2>2. CASE UNCHANGED vars
      BY <2>2 DEF vars, call, ResultInv, ResultOf, Service!avars
    <2> QED BY <2>1, <2>2
  <1> QED BY <1>1, <1>2, DualInvariant, PTL DEF Spec, Service!AbstractSafety

=============================================================================
