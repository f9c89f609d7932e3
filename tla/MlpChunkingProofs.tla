-------------------------- MODULE MlpChunkingProofs --------------------------
(***************************************************************************)
(* Proofs about MlpChunking, for any lengths, blocks, budgets, limits and  *)
(* numbers of forwards.                                                    *)
(*                                                                         *)
(* ResultWhole needs that within a loop the rows below chunkStart, and no  *)
(* others, stand in the output once.  GrowthEarned needs what the streak   *)
(* of a length stands for (StreakOf) and that a freeze is the freeze of    *)
(* the step whose record is the latest (FreezeOf).                         *)
(***************************************************************************)
EXTENDS MlpChunking, WellFoundedInduction, TLAPS

Records == [step : Int, opening : Nat, margin : BOOLEAN, least : Nat]

\* The variables that choose the rows have their types.
PolicyTyped ==
  /\ options \in Options /\ tokens \in Lengths
  /\ block \in Nat
  /\ selections \in [Lengths -> Nat]
  /\ freezes \in [Lengths -> [step : Int, rows : Nat]]
  /\ upgrades \in [Lengths -> [candidate : Nat, stable : Nat]]
  /\ caps \in [Lengths -> Nat]
  /\ epoch \in Nat
  /\ asked \in [Lengths -> [now : Records, before : Records, earlier : Records]]

\* The variables of the loop have theirs.
LoopTyped ==
  /\ chunkTokens \in Nat /\ chunkStart \in Nat /\ rows \in Nat
  /\ output \in [0..(tokens - 1) -> Nat]

\* A streak counts steps that opened with its candidate and never asked for
\* less than is in use.
Supports(call, n) ==
  call.opening = upgrades[n].candidate /\ call.margin /\ call.least >= selections[n]
StreakOf ==
  \A n \in Lengths :
    /\ upgrades[n].stable \in 0..2
    /\ upgrades[n].stable >= 1 => Supports(asked[n].now, n)
    /\ upgrades[n].stable >= 2 => Supports(asked[n].before, n)

\* A freeze holds the rows in use, for the step of the latest record.
FreezeOf ==
  \A n \in Lengths :
    freezes[n].rows = selections[n] /\ freezes[n].step = asked[n].now.step

\* The rows passed are written once, the others not yet.
WrittenOf ==
  /\ stage \in {"loop", "compute"} =>
       /\ chunkStart <= tokens
       /\ \A row \in 0..(tokens - 1) : output[row] = IF row < chunkStart THEN 1 ELSE 0
  /\ stage = "compute" => rows <= tokens - chunkStart

PolicyInv == PolicyTyped /\ StreakOf /\ FreezeOf
MlpInv == PolicyInv /\ LoopTyped /\ WrittenOf /\ ResultWhole

-----------------------------------------------------------------------------
(* Rows are positive whatever the memory.                                  *)

\* A set of numbers that is not empty has a least one.
LEMMA LeastOf ==
  ASSUME NEW S, S \subseteq Nat, S # {}
  PROVE  \E m \in S : \A k \in S : m <= k
<1>1. \E m \in S : \A k \in S : <<k, m>> \notin OpToRel(<, Nat)
  BY NatLessThanWellFounded, WFMin, Zenon
<1>2. \E m \in S : \A k \in S : ~ (k < m)
  BY <1>1, Zenon DEF OpToRel
<1> QED BY <1>2

\* A bounded one has a greatest.
LEMMA GreatestOf ==
  ASSUME NEW S, S \subseteq Nat, S # {}, NEW top \in Nat, \A s \in S : s <= top
  PROVE  \E m \in S : \A k \in S : m >= k
<1> DEFINE Gaps == {gap \in Nat : top - gap \in S}
<1>1. \A s \in S : top - s \in Nat /\ top - (top - s) = s
  OBVIOUS
<1>2. Gaps \subseteq Nat /\ Gaps # {}
  BY <1>1
<1>3. PICK gap \in Gaps : \A other \in Gaps : gap <= other
  BY <1>2, LeastOf
<1>4. \A s \in S : top - s \in Gaps
  BY <1>1
<1>5. \A s \in S : top - gap >= s
  BY <1>3, <1>4
<1> QED BY <1>3, <1>5

\* _balanced_chunk_tokens returns a positive number of rows.
LEMMA BalancedPositive ==
  ASSUME NEW n \in Nat \ {0}, NEW target \in Nat \ {0}
  PROVE  BalancedChunkTokens(n, target) \in Nat \ {0}
<1> DEFINE fitting == {chunks \in LargerOf(2, Ceil(n, target))..n :
                         AlignedRows(n, chunks) <= target}
           fewest == CHOOSE chunks \in fitting : \A other \in fitting : chunks <= other
<1>1. CASE n <= target \/ fitting = {}
  BY <1>1, ChunkAssumption DEF BalancedChunkTokens
<1>2. CASE ~(n <= target) /\ fitting # {}
  <2>1. fitting \subseteq Nat \ {0}
    <3>1. Ceil(n, target) \in Int
      BY DEF Ceil
    <3>2. LargerOf(2, Ceil(n, target)) \in Nat \ {0}
      BY <3>1 DEF LargerOf
    <3> QED BY <3>2
  <2>2. fewest \in fitting
    BY <1>2, <2>1, LeastOf, Zenon
  <2>3. fewest \in Nat \ {0}
    BY <2>1, <2>2
  <2>4. AlignedRows(n, fewest) \in Int
    <3> HIDE DEF fewest
    <3>1. \A a \in Int, d \in Nat \ {0} : Ceil(a, d) \in Int
      BY DEF Ceil
    <3>2. Alignment \in Nat \ {0}
      BY ChunkAssumption
    <3>3. Ceil(Ceil(n, fewest), Alignment) \in Int
      BY <2>3, <3>1, <3>2
    <3>4. \A a, b \in Int : a * b \in Int
      OBVIOUS
    <3> QED BY <3>2, <3>3, <3>4 DEF AlignedRows
  <2>5. BalancedChunkTokens(n, target) = LargerOf(Minimum, AlignedRows(n, fewest))
    BY <1>2, Zenon DEF BalancedChunkTokens
  <2> QED BY <2>4, <2>5, ChunkAssumption DEF LargerOf
<1> QED BY <1>1, <1>2

\* So does the ordinary path.
LEMMA CandidatePositive ==
  ASSUME NEW target \in Nat
  PROVE  CandidateTokens(target) \in Nat \ {0}
<1> DEFINE fits == {c \in Candidates : c <= target}
<1>1. Candidates \subseteq Nat /\ Candidates # {} /\ 0 \notin Candidates
  BY ChunkAssumption
<1>2. \E m \in Candidates : \A k \in Candidates : m <= k
  BY <1>1, LeastOf
<1>3. fits # {} => \E m \in fits : \A k \in fits : m >= k
  BY <1>1, GreatestOf
<1>4. CandidateTokens(target) \in Candidates
  BY <1>2, <1>3, Zenon DEF CandidateTokens
<1> QED BY <1>1, <1>4

\* What a call asks for is positive while the caps are numbers.
LEMMA ProposedPositive ==
  ASSUME PolicyTyped, NEW n \in Lengths, NEW budget \in Budgets
  PROVE  Proposed(n, budget) \in Nat \ {0}
<1>1. n \in Nat \ {0} /\ budget \in Nat \ {0} /\ caps[n] \in Nat
  BY ChunkAssumption DEF PolicyTyped
<1>2. SelectChunkTokens(n, budget) \in Nat \ {0}
  <2> DEFINE target == SmallerOf(SmallerOf(n, HardFullLimit), budget)
  <2>1. target \in Nat \ {0}
    BY <1>1, ChunkAssumption DEF SmallerOf
  <2> HIDE DEF target
  <2>2. SelectChunkTokens(n, budget) \in {n, BalancedChunkTokens(n, target), CandidateTokens(target)}
    BY DEF SelectChunkTokens, target
  <2> QED BY <1>1, <2>1, <2>2, BalancedPositive, CandidatePositive
<1>3. PressureLimit(n, SelectChunkTokens(n, budget)) \in Nat \ {0}
  BY <1>1, <1>2 DEF PressureLimit, SmallerOf
<1>4. BalancedChunkTokens(n, CorrectnessCap) \in Nat \ {0}
  BY <1>1, ChunkAssumption, BalancedPositive
<1> QED BY <1>3, <1>4 DEF Proposed

-----------------------------------------------------------------------------
(* One selection.                                                          *)

\* The step of a call is a number.
LEMMA StepKeyTyped == PolicyTyped => StepKey \in Nat
  BY DEF PolicyTyped, StepKey

\* The record that is the latest is of this step exactly if the freeze is.
LEMMA SameStep ==
  PolicyTyped /\ FreezeOf =>
    (asked[tokens].now.step = StepKey <=> freezes[tokens].step = StepKey)
  BY DEF PolicyTyped, FreezeOf

\* The rows grow by one call: what GrowthEarned says of a step.
Growth ==
  \A n \in Lengths :
    selections[n] # 0 /\ selections'[n] > selections[n] =>
      /\ asked'[n].now.step # asked[n].now.step
      /\ \A call \in {asked'[n].now, asked'[n].before, asked'[n].earlier} :
           /\ call.opening = selections'[n] /\ call.margin
           /\ call.least >= selections[n]

\* The rows in use are those asked for, or fewer.
LEMMA AppliedTyped ==
  ASSUME PolicyInv, NEW new \in Nat \ {0}, NEW margin \in BOOLEAN
  PROVE  /\ Applied(new, margin) \in Nat
         /\ UpgradeState(new, margin) \in [candidate : Nat, stable : Nat]
         /\ Noted(new, margin) \in [now : Records, before : Records, earlier : Records]
<1>1. /\ tokens \in Lengths /\ selections[tokens] \in Nat
      /\ freezes[tokens] \in [step : Int, rows : Nat]
      /\ upgrades[tokens] \in [candidate : Nat, stable : Nat]
  BY DEF PolicyInv, PolicyTyped
<1>2. asked[tokens] \in [now : Records, before : Records, earlier : Records]
  BY <1>1 DEF PolicyInv, PolicyTyped
<1>3. Applied(new, margin) \in Nat
  BY <1>1 DEF Applied, Frozen
<1>4. UpgradeState(new, margin) \in [candidate : Nat, stable : Nat]
  <2>1. Streak(new) \in Nat
    BY <1>1 DEF Streak
  <2> QED BY <1>1, <2>1 DEF UpgradeState, NoUpgrade
<1>5. Noted(new, margin) \in [now : Records, before : Records, earlier : Records]
  <2>1. StepKey \in Int
    BY StepKeyTyped DEF PolicyInv
  <2>2. SmallerOf(asked[tokens].now.least, new) \in Nat
    BY <1>2 DEF Records, SmallerOf
  <2>3. asked[tokens].now \in Records /\ asked[tokens].before \in Records
    BY <1>2
  <2> QED BY <1>2, <2>1, <2>2, <2>3 DEF Noted, Records
<1> QED BY <1>3, <1>4, <1>5

\* A call that rises opens a step, and its streak stands for the two before.
LEMMA RiseEarned ==
  ASSUME PolicyInv, NEW new \in Nat \ {0}, NEW margin \in BOOLEAN,
         selections[tokens] # 0, Applied(new, margin) > selections[tokens]
  PROVE  /\ Upgraded(new, margin) /\ Applied(new, margin) = new
         /\ asked[tokens].now.step # StepKey
         /\ Supports(asked[tokens].now, tokens) /\ Supports(asked[tokens].before, tokens)
         /\ upgrades[tokens].candidate = new
<1>1. /\ tokens \in Lengths /\ selections[tokens] \in Nat
      /\ freezes[tokens] \in [step : Int, rows : Nat]
      /\ upgrades[tokens] \in [candidate : Nat, stable : Nat]
  BY DEF PolicyInv, PolicyTyped
<1>2. freezes[tokens].rows = selections[tokens]
  BY <1>1 DEF PolicyInv, FreezeOf
<1>3. ~Frozen(new) /\ Upgraded(new, margin) /\ Applied(new, margin) = new
  BY <1>1, <1>2 DEF Applied, Frozen
<1>4. freezes[tokens].step # StepKey
  BY <1>1, <1>2, <1>3 DEF Frozen
<1>5. asked[tokens].now.step # StepKey
  BY <1>4, SameStep DEF PolicyInv
<1>6. upgrades[tokens].candidate = new /\ upgrades[tokens].stable >= 2
  BY <1>1, <1>3 DEF Upgraded, Streak, UpgradeStableCalls
<1>7. Supports(asked[tokens].now, tokens) /\ Supports(asked[tokens].before, tokens)
  BY <1>1, <1>6 DEF PolicyInv, StreakOf
<1> QED BY <1>3, <1>5, <1>6, <1>7

\* A selection keeps what the policy rests on, and grows only when earned.
LEMMA SelectStep ==
  ASSUME PolicyInv, NEW budget \in Budgets, SelectAdaptive(budget)
  PROVE  PolicyInv' /\ Growth
<1> DEFINE new == Proposed(tokens, budget)
           margin == budget >= new + Margin
           applied == Applied(new, margin)
           upgrade == UpgradeState(new, margin)
           noted == Noted(new, margin)
<1>1. /\ selections' = [selections EXCEPT ![tokens] = applied]
      /\ upgrades' = [upgrades EXCEPT ![tokens] = upgrade]
      /\ freezes' = [freezes EXCEPT ![tokens] = [step |-> StepKey, rows |-> applied]]
      /\ asked' = [asked EXCEPT ![tokens] = noted]
      /\ epoch' = StepKey
      /\ UNCHANGED <<options, caps, tokens, block>>
  BY DEF SelectAdaptive, forward
<1>2. new \in Nat \ {0} /\ margin \in BOOLEAN
  BY ProposedPositive DEF PolicyInv, PolicyTyped
<1>3. /\ tokens \in Lengths /\ selections \in [Lengths -> Nat]
      /\ freezes \in [Lengths -> [step : Int, rows : Nat]]
      /\ upgrades \in [Lengths -> [candidate : Nat, stable : Nat]]
      /\ asked \in [Lengths -> [now : Records, before : Records, earlier : Records]]
  BY DEF PolicyInv, PolicyTyped
<1> HIDE DEF new, margin
<1>4. /\ applied \in Nat /\ upgrade \in [candidate : Nat, stable : Nat]
      /\ noted \in [now : Records, before : Records, earlier : Records]
  BY <1>2, AppliedTyped
<1>5. StepKey \in Nat
  BY StepKeyTyped DEF PolicyInv
<1>6. applied > selections[tokens] /\ selections[tokens] # 0 =>
        /\ Upgraded(new, margin) /\ applied = new
        /\ asked[tokens].now.step # StepKey
        /\ Supports(asked[tokens].now, tokens) /\ Supports(asked[tokens].before, tokens)
        /\ upgrades[tokens].candidate = new
  BY <1>2, RiseEarned
<1>7. asked[tokens].now.step = StepKey <=> freezes[tokens].step = StepKey
  BY SameStep DEF PolicyInv
<1>8. noted.now.step = StepKey
  BY DEF Noted
<1>9. asked[tokens].now.step # StepKey =>
        /\ noted.now = [step |-> StepKey, opening |-> new, margin |-> margin, least |-> new]
        /\ noted.before = asked[tokens].now /\ noted.earlier = asked[tokens].before
  BY DEF Noted
<1>10. asked[tokens].now.step = StepKey =>
        /\ noted.now.opening = asked[tokens].now.opening
        /\ noted.now.margin = asked[tokens].now.margin
        /\ noted.now.least = SmallerOf(asked[tokens].now.least, new)
        /\ noted.before = asked[tokens].before
  BY DEF Noted
<1>11. PolicyTyped'
  <2>1. selections' \in [Lengths -> Nat]
    BY <1>1, <1>3, <1>4
  <2>2. freezes' \in [Lengths -> [step : Int, rows : Nat]]
    BY <1>1, <1>3, <1>4, <1>5
  <2>3. upgrades' \in [Lengths -> [candidate : Nat, stable : Nat]]
    BY <1>1, <1>3, <1>4
  <2>4. asked' \in [Lengths -> [now : Records, before : Records, earlier : Records]]
    BY <1>1, <1>3, <1>4
  <2> QED BY <1>1, <1>5, <2>1, <2>2, <2>3, <2>4 DEF PolicyInv, PolicyTyped
<1>12. FreezeOf'
  <2>1. ASSUME NEW n \in Lengths, n # tokens
        PROVE  /\ asked'[n] = asked[n] /\ freezes'[n] = freezes[n]
               /\ selections'[n] = selections[n]
    BY <1>1, <1>3, <2>1
  <2>2. /\ asked'[tokens] = noted /\ selections'[tokens] = applied
        /\ freezes'[tokens] = [step |-> StepKey, rows |-> applied]
    BY <1>1, <1>3
  <2> HIDE DEF applied, noted
  <2> QED BY <1>1, <1>3, <1>4, <1>8, <2>1, <2>2 DEF PolicyInv, FreezeOf
<1>13. StreakOf'
  <2> SUFFICES ASSUME NEW n \in Lengths
               PROVE  /\ upgrades'[n].stable \in 0..2
                      /\ upgrades'[n].stable >= 1 => Supports(asked[n].now, n)'
                      /\ upgrades'[n].stable >= 2 => Supports(asked[n].before, n)'
    BY DEF StreakOf
  <2>1. CASE n # tokens
    <3>1. /\ asked'[n] = asked[n] /\ upgrades'[n] = upgrades[n]
          /\ selections'[n] = selections[n]
      BY <1>1, <1>3, <2>1
    <3> QED BY <3>1 DEF PolicyInv, StreakOf, Supports
  <2>2. CASE n = tokens
    <3>1. /\ asked'[n] = noted /\ upgrades'[n] = upgrade /\ selections'[n] = applied
      BY <1>1, <1>3, <2>2
    <3>2. /\ upgrades[n].stable \in 0..2
          /\ upgrades[n].stable >= 1 => Supports(asked[n].now, n)
          /\ upgrades[n].stable >= 2 => Supports(asked[n].before, n)
      BY DEF PolicyInv, StreakOf
    <3>3. CASE Frozen(new)
      <4>1. /\ asked[n].now.step = StepKey /\ applied = freezes[n].rows
            /\ upgrade = upgrades[n] /\ new >= freezes[n].rows
        BY <3>3, <2>2, <1>7 DEF Frozen, Applied, UpgradeState
      <4>2. freezes[n].rows = selections[n]
        BY <3>3, <2>2 DEF Frozen, PolicyInv, FreezeOf
      <4>3. asked[n].now.least \in Nat /\ selections[n] \in Nat
        BY <1>3 DEF Records
      <4> HIDE DEF applied, noted, upgrade
      <4>4. asked[n].now.least >= selections[n] => noted.now.least >= applied
        BY <1>2, <1>10, <2>2, <4>1, <4>2, <4>3 DEF SmallerOf
      <4> QED BY <3>1, <3>2, <4>1, <4>2, <4>4, <1>10, <2>2 DEF Supports
    <3>4. CASE Steady(new, margin) /\ ~Upgraded(new, margin)
      <4>1. upgrade = [candidate |-> new, stable |-> Streak(new)]
        BY <3>4 DEF UpgradeState, Steady
      <4>2. applied = selections[n] /\ new > selections[n] /\ margin
        <5>1. /\ ~Frozen(new) /\ selections[n] # 0 /\ new > selections[n] /\ margin
          BY <3>4, <2>2, Zenon DEF Steady
        <5>2. ~(new < selections[n])
          BY <5>1, <1>2, <1>3
        <5>3. applied = selections[n]
          BY <5>1, <5>2, <3>4, <2>2, Zenon DEF Applied
        <5> QED BY <5>1, <5>3
      <4>3. asked[n].now.step # StepKey
        <5>1. freezes[n].rows = selections[n]
          BY DEF PolicyInv, FreezeOf
        <5>2. freezes[n].step # StepKey
          BY <5>1, <3>4, <4>2, <2>2, <1>2, <1>3 DEF Steady, Frozen
        <5> QED BY <5>2, <1>7, <2>2
      <4>4. /\ Streak(new) \in 1..2
            /\ Streak(new) = 2 => upgrades[n].candidate = new /\ upgrades[n].stable = 1
        BY <3>2, <3>4, <2>2 DEF Upgraded, Streak, UpgradeStableCalls
      <4> HIDE DEF applied, noted, upgrade
      <4>5. Supports(asked[n].now, n)'
        BY <3>1, <4>1, <4>2, <4>3, <1>9, <1>2, <1>3, <2>2 DEF Supports
      <4>6. Streak(new) = 2 => Supports(asked[n].before, n)'
        BY <3>1, <3>2, <4>1, <4>2, <4>3, <4>4, <1>9, <2>2 DEF Supports
      <4> QED BY <3>1, <4>1, <4>4, <4>5, <4>6
    <3>5. CASE ~Frozen(new) /\ ~(Steady(new, margin) /\ ~Upgraded(new, margin))
      BY <3>1, <3>5 DEF UpgradeState, NoUpgrade
    <3> QED BY <3>3, <3>4, <3>5
  <2> QED BY <2>1, <2>2
<1>14. Growth
  <2> SUFFICES ASSUME NEW n \in Lengths, selections[n] # 0, selections'[n] > selections[n]
               PROVE  /\ asked'[n].now.step # asked[n].now.step
                      /\ \A call \in {asked'[n].now, asked'[n].before, asked'[n].earlier} :
                           /\ call.opening = selections'[n] /\ call.margin
                           /\ call.least >= selections[n]
    BY DEF Growth
  <2>1. n = tokens
    BY <1>1, <1>3
  <2>2. /\ asked'[n] = noted /\ selections'[n] = applied
    BY <1>1, <1>3, <2>1
  <2>3. /\ Upgraded(new, margin) /\ applied = new
        /\ asked[n].now.step # StepKey /\ upgrades[n].candidate = new
        /\ Supports(asked[n].now, n) /\ Supports(asked[n].before, n)
    BY <1>6, <2>1, <2>2
  <2>4. margin
    BY <2>3 DEF Upgraded, Steady
  <2> HIDE DEF applied, noted
  <2> QED BY <1>8, <1>9, <1>2, <1>3, <2>1, <2>2, <2>3, <2>4 DEF Supports
<1> QED BY <1>11, <1>12, <1>13, <1>14 DEF PolicyInv

\* No other action touches the policy, but for the cap of a length.
LEMMA PolicyKept ==
  ASSUME PolicyInv, LoopTyped, [Next]_vars,
         ~(\E budget \in Budgets : SelectAdaptive(budget))
  PROVE  PolicyInv' /\ Growth
<1>1. UNCHANGED <<options, policy>>
  BY DEF Next, NewForward, SelectFixed, RunWhole, BeginChunks, NextChunk, FinishChunk,
         RecoverChunk, Fallback, Raises, ReturnChunks, NextBlock, vars, forward
<1>2. tokens' \in Lengths /\ block' \in Nat
  <2>1. tokens \in Lengths /\ block \in Nat /\ Blocks \in Nat
    BY ChunkAssumption DEF PolicyInv, PolicyTyped
  <2>2. CASE \E n \in Lengths : NewForward(n)
    BY <2>2 DEF NewForward
  <2>3. CASE NextBlock \/ Raises
    BY <2>1, <2>3 DEF NextBlock, Raises
  <2>4. CASE UNCHANGED <<tokens, block>>
    BY <2>1, <2>4
  <2>5. \/ \E n \in Lengths : NewForward(n)
        \/ NextBlock \/ Raises \/ UNCHANGED <<tokens, block>>
    BY DEF Next, SelectFixed, RunWhole, BeginChunks, NextChunk, FinishChunk,
           RecoverChunk, Fallback, ReturnChunks, vars, forward
  <2> QED BY <2>2, <2>3, <2>4, <2>5
<1>3. caps' \in [Lengths -> Nat]
  <2>1. caps \in [Lengths -> Nat] /\ tokens \in Lengths /\ rows \in Nat
    BY DEF PolicyInv, PolicyTyped, LoopTyped
  <2>2. RecordChunkPressure \in [Lengths -> Nat]
    <3>1. rows \div (2 * Alignment) \in Int
      BY <2>1, ChunkAssumption
    <3>2. Alignment \in Nat /\ Minimum \in Nat
      BY ChunkAssumption
    <3>3. \A a, b \in Int : a * b \in Int
      OBVIOUS
    <3>4. Alignment * (rows \div (2 * Alignment)) \in Int
      BY <3>1, <3>2, <3>3
    <3>5. LargerOf(Minimum, Alignment * (rows \div (2 * Alignment))) \in Nat
      BY <3>2, <3>4 DEF LargerOf
    <3>6. \A a, b \in Nat : SmallerOf(a, b) \in Nat
      BY DEF SmallerOf
    <3> QED BY <2>1, <3>5, <3>6 DEF RecordChunkPressure
  <2>3. caps' = caps \/ caps' = RecordChunkPressure
    BY DEF Next, NewForward, SelectFixed, RunWhole, BeginChunks, NextChunk, FinishChunk,
           RecoverChunk, Fallback, Raises, ReturnChunks, NextBlock, vars
  <2> QED BY <2>1, <2>2, <2>3
<1>4. PolicyTyped'
  BY <1>1, <1>2, <1>3 DEF PolicyInv, PolicyTyped, policy
<1>5. FreezeOf' /\ StreakOf'
  BY <1>1 DEF PolicyInv, FreezeOf, StreakOf, Supports, policy
<1>6. Growth
  BY <1>1 DEF PolicyInv, PolicyTyped, Growth, policy
<1> QED BY <1>4, <1>5, <1>6 DEF PolicyInv

\* Every step keeps the policy.
LEMMA PolicyStep ==
  ASSUME PolicyInv, LoopTyped, [Next]_vars
  PROVE  PolicyInv' /\ Growth
<1>1. CASE \E budget \in Budgets : SelectAdaptive(budget)
  BY <1>1, SelectStep
<1>2. CASE ~(\E budget \in Budgets : SelectAdaptive(budget))
  BY <1>2, PolicyKept
<1> QED BY <1>1, <1>2

-----------------------------------------------------------------------------
(* One call.                                                               *)

\* Every step keeps what is written.
LEMMA LoopStep ==
  ASSUME MlpInv, [Next]_vars
  PROVE  LoopTyped' /\ WrittenOf' /\ ResultWhole'
<1>1. /\ tokens \in Nat \ {0} /\ caps[tokens] \in Nat
      /\ chunkTokens \in Nat /\ chunkStart \in Nat /\ rows \in Nat
      /\ output \in [0..(tokens - 1) -> Nat]
  BY ChunkAssumption DEF MlpInv, PolicyInv, PolicyTyped, LoopTyped
<1>3. ASSUME NEW n \in Lengths, NewForward(n)
      PROVE  LoopTyped' /\ WrittenOf' /\ ResultWhole'
  BY <1>1, <1>3, ChunkAssumption
     DEF NewForward, Unwritten, LoopTyped, WrittenOf, ResultWhole
<1>4. ASSUME NEW budget \in Budgets, SelectAdaptive(budget)
      PROVE  LoopTyped' /\ WrittenOf' /\ ResultWhole'
  <2>1. /\ chunkTokens' = Applied(Proposed(tokens, budget), budget >= Proposed(tokens, budget) + Margin)
        /\ stage' = "selected" /\ UNCHANGED <<forward, loop>>
    BY <1>4 DEF SelectAdaptive
  <2>2. chunkTokens' \in Nat
    <3>1. Proposed(tokens, budget) \in Nat \ {0}
      BY ProposedPositive DEF MlpInv, PolicyInv, PolicyTyped
    <3>2. (budget >= Proposed(tokens, budget) + Margin) \in BOOLEAN
      OBVIOUS
    <3> QED BY <2>1, <3>1, <3>2, AppliedTyped DEF MlpInv
  <2> QED BY <1>1, <2>1, <2>2 DEF forward, loop, LoopTyped, WrittenOf, ResultWhole
<1>5. CASE SelectFixed
  <2>1. options.rows \in Nat
    BY ChunkAssumption DEF MlpInv, PolicyInv, PolicyTyped
  <2> QED BY <1>1, <1>5, <2>1 DEF SelectFixed, forward, loop, LoopTyped, WrittenOf, ResultWhole
<1>6. CASE RunWhole
  BY <1>1, <1>6 DEF RunWhole, Computed, Unwritten, forward, LoopTyped, WrittenOf, ResultWhole
<1>7. CASE BeginChunks
  BY <1>1, <1>7 DEF BeginChunks, Unwritten, forward, LoopTyped, WrittenOf, ResultWhole
<1>8. CASE NextChunk
  <2>1. PressureLimit(tokens, chunkTokens) \in Nat
    BY <1>1 DEF PressureLimit, SmallerOf
  <2>2. rows' \in Nat /\ rows' <= tokens - chunkStart
    BY <1>1, <1>8, <2>1 DEF NextChunk, SmallerOf
  <2> QED BY <1>1, <1>8, <2>2
          DEF NextChunk, forward, MlpInv, LoopTyped, WrittenOf, ResultWhole
<1>9. CASE FinishChunk
  <2>1. /\ chunkStart <= tokens /\ rows <= tokens - chunkStart
        /\ \A row \in 0..(tokens - 1) : output[row] = IF row < chunkStart THEN 1 ELSE 0
    BY <1>9 DEF FinishChunk, MlpInv, WrittenOf
  <2>2. /\ output' = [row \in 0..(tokens - 1) |->
                       output[row] + (IF row - chunkStart \in 0..(rows - 1) THEN 1 ELSE 0)]
        /\ chunkStart' = chunkStart + rows /\ stage' = "loop"
        /\ UNCHANGED <<tokens, chunkTokens, rows>>
    BY <1>9 DEF FinishChunk, Computed, forward
  <2>3. \A row \in 0..(tokens - 1) :
          output'[row] = IF row < chunkStart + rows THEN 1 ELSE 0
    BY <1>1, <2>1, <2>2
  <2> QED BY <1>1, <2>1, <2>2, <2>3 DEF LoopTyped, WrittenOf, ResultWhole
<1>10. CASE RecoverChunk
  BY <1>1, <1>10 DEF RecoverChunk, forward, MlpInv, LoopTyped, WrittenOf, ResultWhole
<1>11. CASE Fallback
  BY <1>1, <1>11 DEF Fallback, PairFails, Unwritten, forward, LoopTyped, WrittenOf, ResultWhole
<1>12. CASE Raises
  BY <1>1, <1>12 DEF Raises, CallEnds, Unwritten, forward, LoopTyped, WrittenOf, ResultWhole
<1>13. CASE ReturnChunks
  BY <1>1, <1>13 DEF ReturnChunks, forward, loop, MlpInv, LoopTyped, WrittenOf, ResultWhole
<1>14. CASE NextBlock
  BY <1>1, <1>14 DEF NextBlock, CallEnds, Unwritten, LoopTyped, WrittenOf, ResultWhole
<1>15. CASE UNCHANGED vars
  BY <1>1, <1>15 DEF vars, forward, loop, MlpInv, LoopTyped, WrittenOf, ResultWhole
<1> QED BY <1>3, <1>4, <1>5, <1>6, <1>7, <1>8, <1>9, <1>10, <1>11, <1>12, <1>13, <1>14,
           <1>15 DEF Next

-----------------------------------------------------------------------------
(* The specification.                                                      *)

\* A model starts with empty tables.
LEMMA MlpInit == Init => MlpInv
<1> SUFFICES ASSUME Init PROVE MlpInv
  OBVIOUS
<1>1. Lengths \subseteq Nat \ {0} /\ Blocks \in Nat
  BY ChunkAssumption
<1>2. /\ Unasked \in Records /\ NoUpgrade \in [candidate : Nat, stable : Nat]
      /\ NoFreeze \in [step : Int, rows : Nat]
      /\ Unasked.step = NoFreeze.step /\ NoUpgrade.stable = 0 /\ NoFreeze.rows = 0
  BY DEF Unasked, Records, NoUpgrade, NoFreeze
<1>3. PolicyTyped
  BY <1>1, <1>2 DEF Init, PolicyTyped
<1>4. FreezeOf /\ StreakOf
  BY <1>2 DEF Init, FreezeOf, StreakOf
<1>5. LoopTyped /\ WrittenOf /\ ResultWhole
  BY <1>1 DEF Init, Unwritten, LoopTyped, WrittenOf, ResultWhole
<1> QED BY <1>3, <1>4, <1>5 DEF MlpInv, PolicyInv

\* The invariant of every step.
LEMMA MlpNext == MlpInv /\ [Next]_vars => MlpInv'
<1>1. MlpInv /\ [Next]_vars => PolicyInv'
  BY PolicyStep DEF MlpInv
<1> QED BY <1>1, LoopStep DEF MlpInv

\* A call that returns has computed each of its rows once, whatever memory
\* failures shrank its chunks or sent it back to the first row.
THEOREM ResultCorrect == Spec => []ResultWhole
<1>1. MlpInv => ResultWhole
  BY DEF MlpInv
<1> QED BY <1>1, MlpInit, MlpNext, PTL DEF Spec

\* The chunk of a length grows only after three steady forwards of that length,
\* never within one.
THEOREM GrowthCorrect == Spec => GrowthEarned
<1>1. MlpInv /\ [Next]_vars => Growth
  BY PolicyStep DEF MlpInv
<1> QED BY <1>1, MlpInit, MlpNext, PTL DEF Spec, GrowthEarned, Growth
=============================================================================
