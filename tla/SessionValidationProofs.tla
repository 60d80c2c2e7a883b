----------------------- MODULE SessionValidationProofs -----------------------
(***************************************************************************)
(* Theorems about SessionValidation, for every budget, every delay, every  *)
(* Retry-After and every lateness of the timers.                           *)
(***************************************************************************)
EXTENDS SessionValidation, TLAPS

\* Before the first attempt no time has passed and no outage was seen; the
\* loop goes on only after an outage, and has no state until it returns.
LoopState ==
  /\ attempts = 0 => now = 0 /\ last = None
  /\ pc \in {"asking", "sleeping"} => attempts > 0
  /\ pc = "sleeping" \/ (pc = "deciding" /\ attempts > 0) => heard \in Outages
  /\ pc # "done" => state = "none"

\* Typing, the budget, and what an outage leaves.
BudgetInv == TypeOK /\ LoopState /\ WithinBudget /\ OutageIsNotVerdict

\* The wait planned leaves room for a useful attempt, and is no shorter than
\* the Retry-After or the longest wait.
LEMMA PlanLeavesRoom ==
  ASSUME NEW attempt \in Nat, NEW retryAfter \in RetryAfters \cup {None}, NEW remaining \in Int,
         NEW planned, planned = PlanNextWait(attempt, retryAfter, remaining), planned # None
  PROVE  /\ planned \in Int /\ planned + MinUseful <= remaining
         /\ retryAfter # None => planned >= Smaller(retryAfter * 1000, MaxWait)
<1> DEFINE backoff == BackoffBase * 2 ^ Larger(0, attempt - 1)
           honored == IF retryAfter # None THEN Larger(backoff, retryAfter * 1000) ELSE backoff
           wait == Smaller(honored, MaxWait)
<1>1. Larger(0, attempt - 1) \in Nat
  BY DEF Larger
<1>2. backoff \in Int
  BY <1>1, BudgetAssumption
<1> HIDE DEF backoff
<1>3. retryAfter # None => retryAfter \in Nat
  BY BudgetAssumption
<1>4. honored \in Int /\ (retryAfter # None => honored >= retryAfter * 1000)
  BY <1>2, <1>3 DEF Larger
<1> HIDE DEF honored
<1>5. wait \in Int /\ (retryAfter # None => wait >= Smaller(retryAfter * 1000, MaxWait))
  BY <1>3, <1>4, BudgetAssumption DEF Smaller
<1>6. PlanNextWait(attempt, retryAfter, remaining) = IF remaining - wait < MinUseful THEN None ELSE wait
  BY DEF PlanNextWait, backoff, honored
<1> HIDE DEF wait
<1> QED
  BY <1>5, <1>6, BudgetAssumption

\* An outage ends the run or plans a wait that fits the budget.
LEMMA RetryFits ==
  ASSUME BudgetInv, pc = "asking", now' \in Int, NEW r \in RetryAfters \cup {None}, Retry(r),
         last' = r, outageAt' = now', heard' \in Outages
  PROVE  /\ BudgetInv'
         /\ pc' = "sleeping" /\ r # None => timer' >= Smaller(r * 1000, MaxWait)
<1> USE DEF BudgetInv
<1>a. /\ attempts \in Nat /\ attempts > 0 /\ TotalCap - now' \in Int /\ timer \in Int
      /\ now' \in Int /\ MinUseful \in Int /\ TotalCap \in Int
  BY BudgetAssumption DEF TypeOK, LoopState
<1> DEFINE wait == PlanNextWait(attempts, r, TotalCap - now')
<1>b. heard' \notin Verdicts /\ heard' \in {"nothing"} \cup Verdicts \cup Outages
  BY DEF Verdicts, Outages
<1>1 CASE wait = None
  <2>1. pc' = "done" /\ state' = "unavailable" /\ UNCHANGED <<attempts, timer>>
    BY <1>1 DEF Retry, Return
  <2> HIDE DEF wait
  <2> QED
    BY <1>a, <1>b, <2>1 DEF TypeOK, LoopState, WithinBudget, OutageIsNotVerdict
<1>2 CASE wait # None
  <2>1. pc' = "sleeping" /\ timer' = wait /\ UNCHANGED <<attempts, state>>
    BY <1>2 DEF Retry
  <2>2. /\ wait \in Int /\ wait + MinUseful <= TotalCap - now'
        /\ r # None => wait >= Smaller(r * 1000, MaxWait)
    <3> DEFINE remaining == TotalCap - now'
    <3>1. attempts \in Nat /\ remaining \in Int
      BY <1>a
    <3>2. wait = PlanNextWait(attempts, r, remaining)
      OBVIOUS
    <3> HIDE DEF remaining
    <3>3. wait = PlanNextWait(attempts, r, remaining) /\ wait # None
      BY <1>2, <3>2
    <3> HIDE DEF wait, BudgetInv
    <3>4. /\ wait \in Int /\ wait + MinUseful <= remaining
          /\ r # None => wait >= Smaller(r * 1000, MaxWait)
      BY <3>1, <3>3, PlanLeavesRoom
    <3> QED
      BY <3>4 DEF remaining
  <2> HIDE DEF wait
  <2>3. WithinBudget'
    <3>1. \A c, n, w, m \in Int : w + m <= c - n => n + w + m <= c
      OBVIOUS
    <3>2. now' + wait + MinUseful <= TotalCap
      BY <2>2, <1>a, <3>1
    <3> QED
      BY <2>1, <3>2 DEF WithinBudget
  <2>4. state' = "none"
    BY <2>1 DEF LoopState
  <2> QED
    BY <1>a, <1>b, <2>1, <2>2, <2>3 DEF TypeOK, LoopState, OutageIsNotVerdict
<1> QED
  BY <1>1, <1>2

\* Every step of the loop keeps its budget and its bookkeeping.
LEMMA NextBudgetInv ==
  ASSUME BudgetInv, [Next]_vars
  PROVE  BudgetInv'
<1> USE DEF BudgetInv
<1>a. /\ TotalCap \in Int /\ AttemptTimeout \in Int /\ MinUseful \in Int /\ MinUseful > 0
      /\ MinUseful <= AttemptTimeout /\ MinUseful <= TotalCap
      /\ Delays \subseteq Int /\ Lateness \subseteq Int
      /\ now \in Int /\ timer \in Int /\ attempts \in Nat
  BY BudgetAssumption DEF TypeOK
<1>1 CASE GiveUp
  BY <1>1, <1>a DEF GiveUp, Return, TypeOK, LoopState, WithinBudget, OutageIsNotVerdict, Outages
<1>2 CASE Attempt
  <2>1. TotalCap - now >= MinUseful
    BY <1>2, <1>a DEF Attempt, Remaining, LoopState
  <2>2. timer' \in Int /\ now + timer' <= TotalCap
    BY <1>2, <2>1, <1>a DEF Attempt, Remaining, Smaller, Larger
  <2>3. /\ pc' = "asking" /\ attempts' = attempts + 1 /\ UNCHANGED <<now, last, state, heard, outageAt>>
        /\ pc = "deciding"
    BY <1>2 DEF Attempt
  <2>4. TypeOK'
    BY <2>2, <2>3, <1>a DEF TypeOK
  <2>5. LoopState'
    BY <2>3, <1>a DEF LoopState
  <2>6. WithinBudget'
    BY <2>2, <2>3 DEF WithinBudget
  <2>7. OutageIsNotVerdict'
    BY <2>3 DEF OutageIsNotVerdict, LoopState
  <2> QED
    BY <2>4, <2>5, <2>6, <2>7
<1>3. ASSUME NEW d \in Delays, NEW a \in Verdicts, Verdict(d, a) PROVE BudgetInv'
  BY <1>3, <1>a DEF Verdict, Return, TypeOK, LoopState, WithinBudget, OutageIsNotVerdict, Verdicts, Outages
<1>4. ASSUME NEW d \in Delays, NEW r \in RetryAfters \cup {None}, Busy(d, r) PROVE BudgetInv'
  <2>1. now' \in Int /\ heard' \in Outages
    BY <1>4, <1>a DEF Busy, Outages
  <2> QED
    BY <1>4, <2>1, RetryFits DEF Busy
<1>5. ASSUME NEW d \in Int, NoAnswer(d) PROVE BudgetInv'
  <2>1. now' \in Int /\ heard' \in Outages
    BY <1>5, <1>a DEF NoAnswer, Outages
  <2> QED
    BY <1>5, <2>1, RetryFits DEF NoAnswer
<1>6. ASSUME NEW late \in Lateness, Wake(late) PROVE BudgetInv'
  BY <1>6, <1>a DEF Wake, TypeOK, LoopState, WithinBudget, OutageIsNotVerdict
<1>7 CASE UNCHANGED vars
  BY <1>7 DEF vars, TypeOK, LoopState, WithinBudget, OutageIsNotVerdict
<1>8. \A late \in Lateness : timer + late \in Int
  BY <1>a
<1>9. \A d \in Delays : d \in Int
  BY <1>a
<1> QED
  BY <1>1, <1>2, <1>3, <1>4, <1>5, <1>6, <1>7, <1>8, <1>9, Zenon DEF Next

\* A run begins with the whole budget.
LEMMA InitBudgetInv == Init => BudgetInv
BY BudgetAssumption DEF Init, BudgetInv, TypeOK, LoopState, WithinBudget, OutageIsNotVerdict, Verdicts, Outages

\* The invariant holds throughout every run.
LEMMA BudgetInvHolds == Spec => []BudgetInv
<1>1. Init => BudgetInv
  BY InitBudgetInv
<1>2. BudgetInv /\ [Next]_vars => BudgetInv'
  BY NextBudgetInv
<1> QED
  BY <1>1, <1>2, PTL DEF Spec

\* Every reachable state is well typed.
THEOREM TypeCorrect == Spec => []TypeOK
<1>1. BudgetInv => TypeOK
  BY DEF BudgetInv
<1> QED
  BY <1>1, BudgetInvHolds, PTL

\* No attempt and no sleep is begun that could outlast the budget.
THEOREM WithinBudgetHolds == Spec => []WithinBudget
<1>1. BudgetInv => WithinBudget
  BY DEF BudgetInv
<1> QED
  BY <1>1, BudgetInvHolds, PTL

\* An outage never becomes a verdict against the session.
THEOREM OutageIsNotVerdictHolds == Spec => []OutageIsNotVerdict
<1>1. BudgetInv => OutageIsNotVerdict
  BY DEF BudgetInv
<1> QED
  BY <1>1, BudgetInvHolds, PTL

-----------------------------------------------------------------------------
(* Retry-After.                                                            *)

\* The wait under way, or just over, is the provider's or the longest.
WaitsItsTurn ==
  last # None =>
    /\ pc = "sleeping" => now = outageAt /\ timer >= Smaller(last * 1000, MaxWait)
    /\ pc = "deciding" => now >= outageAt + Smaller(last * 1000, MaxWait)

\* A sleep is planned from the outage that caused it, and a timer never fires early.
LEMMA NextWaitsItsTurn ==
  ASSUME BudgetInv, WaitsItsTurn, [Next]_vars
  PROVE  WaitsItsTurn'
<1> USE DEF BudgetInv, WaitsItsTurn
<1>a. /\ MaxWait \in Int /\ (last # None => last \in Int) /\ Lateness \subseteq Nat /\ Delays \subseteq Int
      /\ now \in Int /\ timer \in Int /\ outageAt \in Int /\ \A r \in RetryAfters : r \in Int
  BY BudgetAssumption DEF TypeOK
<1>b. ASSUME NEW n \in Int PROVE Smaller(n * 1000, MaxWait) \in Int
  BY <1>b, <1>a DEF Smaller
<1>1 CASE GiveUp
  BY <1>1 DEF GiveUp, Return
<1>2 CASE Attempt
  BY <1>2 DEF Attempt
<1>3. ASSUME NEW d \in Delays, NEW a \in Verdicts, Verdict(d, a) PROVE WaitsItsTurn'
  BY <1>3 DEF Verdict, Return
<1>4. ASSUME NEW r \in RetryAfters \cup {None}, Retry(r), last' = r, outageAt' = now', pc = "asking",
             now' \in Int, heard' \in Outages
      PROVE  WaitsItsTurn'
  <2>1 CASE pc' = "sleeping"
    BY <1>4, <2>1, RetryFits
  <2>2 CASE pc' # "sleeping"
    BY <1>4, <2>2 DEF Retry, Return
  <2> QED
    BY <2>1, <2>2
<1>5. ASSUME NEW d \in Delays, NEW r \in RetryAfters \cup {None}, Busy(d, r) PROVE WaitsItsTurn'
  BY <1>5, <1>4, <1>a DEF Busy, Outages
<1>6. ASSUME NEW d \in Int, NoAnswer(d) PROVE WaitsItsTurn'
  BY <1>6 DEF NoAnswer
<1>7. ASSUME NEW late \in Lateness, Wake(late) PROVE WaitsItsTurn'
  <2>1. late \in Nat
    BY <1>a
  <2>2. pc = "sleeping" /\ now' = now + timer + late /\ UNCHANGED <<last, outageAt>>
    BY <1>7 DEF Wake
  <2>3. last # None => Smaller(last * 1000, MaxWait) \in Int
    BY <1>a, <1>b
  <2>4. last # None => now' >= outageAt + Smaller(last * 1000, MaxWait)
    BY <2>1, <2>2, <2>3, <1>a
  <2>5. pc' = "deciding"
    BY <1>7 DEF Wake
  <2> QED
    BY <2>2, <2>4, <2>5
<1>8 CASE UNCHANGED vars
  BY <1>8 DEF vars
<1>9. (\A late \in Lateness : timer + late \in Int) /\ \A d \in Delays : d \in Int
  BY <1>a
<1> QED
  BY <1>1, <1>2, <1>3, <1>5, <1>6, <1>7, <1>8, <1>9, Zenon DEF Next

\* The provider is not asked again before its Retry-After, up to the longest
\* wait the loop allows itself (session-validation.ts planNextWaitMs()).
THEOREM RetryAfterHonored == Spec => HonorsRetryAfter
<1>1. Init => WaitsItsTurn
  BY DEF Init, WaitsItsTurn
<1>2. BudgetInv /\ WaitsItsTurn /\ [Next]_vars => WaitsItsTurn'
  BY NextWaitsItsTurn
<1>3. WaitsItsTurn => (pc = "deciding" /\ pc' = "asking" /\ last # None
                         => now >= outageAt + Smaller(last * 1000, MaxWait))
  BY DEF WaitsItsTurn
<1> QED
  BY <1>1, <1>2, <1>3, BudgetInvHolds, PTL DEF Spec, HonorsRetryAfter
=============================================================================
