-------------------------- MODULE SessionValidation --------------------------
(***************************************************************************)
(* One run of validateSessionResponse() (src/lib/session-validation.ts):   *)
(* the loop that asks the identity provider for a session verdict, retries *)
(* an outage within a budget of wall-clock time, and answers with one of   *)
(* three states.  Time is in milliseconds from the start of the run.       *)
(***************************************************************************)
EXTENDS Integers

CONSTANTS
  TotalCap,        \* SESSION_VALIDATE_TOTAL_CAP_MS
  AttemptTimeout,  \* SESSION_VALIDATE_ATTEMPT_TIMEOUT_MS
  MaxWait,         \* SESSION_VALIDATE_MAX_WAIT_MS
  BackoffBase,     \* BACKOFF_BASE_MS
  MinUseful,       \* MIN_USEFUL_ATTEMPT_MS
  Delays,          \* how long an answer may take
  RetryAfters,     \* the Retry-After delays, in seconds, the provider may send
  Lateness,        \* how late a timer may fire
  None             \* no Retry-After

ASSUME BudgetAssumption ==
  /\ TotalCap \in Nat /\ AttemptTimeout \in Nat /\ MaxWait \in Nat
  /\ BackoffBase \in Nat /\ MinUseful \in Nat \ {0}
  /\ MinUseful <= AttemptTimeout /\ MinUseful <= TotalCap
  /\ Delays \subseteq Nat /\ RetryAfters \subseteq Nat /\ Lateness \subseteq Nat
  /\ None \notin Int

VARIABLES
  pc,        \* "deciding", "asking", "sleeping" or "done"
  now,       \* Date.now() - started
  attempts,  \* requests made
  timer,     \* how long the present attempt, or the present sleep, may last
  last,      \* the Retry-After of the last outage
  state,     \* the state returned, "none" until then
  heard,     \* history: what the latest attempt came to
  outageAt   \* history: when the latest outage was noticed

vars == <<pc, now, attempts, timer, last, state, heard, outageAt>>

Smaller(a, b) == IF a <= b THEN a ELSE b
Larger(a, b) == IF a >= b THEN a ELSE b

\* What an attempt comes to.  "cut" is a 2xx whose body never arrives whole.
Verdicts == {"session", "signed_out", "refused", "cut"}
Outages == {"busy", "no_answer"}

Init ==
  /\ pc = "deciding"
  /\ now = 0
  /\ attempts = 0
  /\ timer = 0
  /\ last = None
  /\ state = "none"
  /\ heard = "nothing"
  /\ outageAt = 0

Remaining == TotalCap - now

\* Fault: the wait is not held against the rest of the budget.
WaitWhateverRemains(attempt, retryAfter, remaining) ==
  LET backoff == BackoffBase * 2 ^ Larger(0, attempt - 1)
  IN Smaller(IF retryAfter # None THEN Larger(backoff, retryAfter * 1000) ELSE backoff, MaxWait)

\* Fault: the shorter of the backoff and the Retry-After is waited.
WaitTheShorter(attempt, retryAfter, remaining) ==
  LET backoff == BackoffBase * 2 ^ Larger(0, attempt - 1)
      wait == IF retryAfter # None THEN Smaller(backoff, retryAfter * 1000) ELSE backoff
  IN IF remaining - wait < MinUseful THEN None ELSE wait

\* planNextWaitMs(): the wait before the next attempt, or None when the rest
\* of the budget cannot hold that wait and a useful attempt.
PlanNextWait(attempt, retryAfter, remaining) ==
  LET backoff == BackoffBase * 2 ^ Larger(0, attempt - 1)
      honored == IF retryAfter # None THEN Larger(backoff, retryAfter * 1000) ELSE backoff
      wait == Smaller(honored, MaxWait)
  IN IF remaining - wait < MinUseful THEN None ELSE wait

Return(s) ==
  /\ pc' = "done"
  /\ state' = s
  /\ UNCHANGED <<attempts, timer>>

GiveUp ==
  /\ pc = "deciding"
  /\ attempts > 0 /\ Remaining < MinUseful
  /\ Return("unavailable")
  /\ UNCHANGED <<now, last, heard, outageAt>>

\* request(AbortSignal.timeout(timeoutMs))
Attempt ==
  /\ pc = "deciding"
  /\ ~(attempts > 0 /\ Remaining < MinUseful)
  /\ attempts' = attempts + 1
  /\ timer' = Larger(MinUseful, Smaller(AttemptTimeout,
                                        IF Remaining > 0 THEN Remaining ELSE AttemptTimeout))
  /\ pc' = "asking"
  /\ UNCHANGED <<now, last, state, heard, outageAt>>

\* A 2xx is a session unless its body says authenticated: false; any other
\* answer below 500 but a 429 is a verdict against the session.
Verdict(d, a) ==
  /\ pc = "asking"
  /\ d <= timer
  /\ now' = now + d
  /\ heard' = a
  /\ Return(IF a \in {"session", "cut"} THEN "authenticated" ELSE "unauthenticated")
  /\ UNCHANGED <<last, outageAt>>

\* Sleep before the next attempt, or stop.
Retry(retryAfter) ==
  LET wait == PlanNextWait(attempts, retryAfter, TotalCap - now') IN
  IF wait = None
  THEN Return("unavailable")
  ELSE /\ pc' = "sleeping" /\ timer' = wait
       /\ UNCHANGED <<attempts, state>>

\* Fault: the Retry-After is kept in milliseconds.
BusyInMilliseconds(d, retryAfter) ==
  /\ pc = "asking" /\ d <= timer
  /\ now' = now + d
  /\ last' = IF retryAfter = None THEN None ELSE retryAfter * 1000
  /\ heard' = "busy" /\ outageAt' = now'
  /\ Retry(retryAfter)

\* Fault: every answer of the provider is a verdict, a 429 or a 5xx too.
BusyIsVerdict(d, retryAfter) ==
  /\ pc = "asking" /\ d <= timer
  /\ now' = now + d
  /\ heard' = "busy"
  /\ Return("unauthenticated")
  /\ UNCHANGED <<last, outageAt>>

\* 5xx or 429: the provider could not judge.
Busy(d, retryAfter) ==
  /\ pc = "asking"
  /\ d <= timer
  /\ now' = now + d
  /\ last' = retryAfter
  /\ heard' = "busy"
  /\ outageAt' = now'
  /\ Retry(retryAfter)

\* Fault: the request is sent without the signal of its timer.
NoTimer(d) ==
  /\ pc = "asking" /\ d < timer
  /\ now' = now + d
  /\ last' = None
  /\ heard' = "no_answer" /\ outageAt' = now'
  /\ Retry(None)

\* The network fails the request, or its timer ends it, at or after its time.
NoAnswer(d) ==
  /\ pc = "asking"
  /\ now' = now + d
  /\ last' = None
  /\ heard' = "no_answer"
  /\ outageAt' = now'
  /\ Retry(None)

Wake(late) ==
  /\ pc = "sleeping"
  /\ now' = now + timer + late
  /\ pc' = "deciding"
  /\ UNCHANGED <<attempts, timer, last, state, heard, outageAt>>

Next ==
  \/ GiveUp \/ Attempt
  \/ \E d \in Delays :
       \/ \E a \in Verdicts : Verdict(d, a)
       \/ \E r \in RetryAfters \cup {None} : Busy(d, r)
       \/ d <= timer /\ NoAnswer(d)
  \/ \E late \in Lateness : NoAnswer(timer + late) \/ Wake(late)

Spec == Init /\ [][Next]_vars

\* The event loop runs what is ready, and timers fire; the provider need
\* never answer.
FairSpec ==
  /\ Spec
  /\ WF_vars(GiveUp) /\ WF_vars(Attempt)
  /\ WF_vars(\E late \in Lateness : NoAnswer(timer + late) \/ Wake(late))

-----------------------------------------------------------------------------

\* Type invariant.
TypeOK ==
  /\ pc \in {"deciding", "asking", "sleeping", "done"}
  /\ now \in Int /\ attempts \in Nat /\ timer \in Int /\ outageAt \in Int
  /\ last \in RetryAfters \cup {None}
  /\ state \in {"none", "authenticated", "unauthenticated", "unavailable"}
  /\ heard \in {"nothing"} \cup Verdicts \cup Outages

\* No attempt and no sleep is begun that could outlast the budget of 8 s, and
\* after a sleep there is room for an attempt worth making: only a timer that
\* fires late can carry the run past the cap.
WithinBudget ==
  /\ pc = "asking" => now + timer <= TotalCap
  /\ pc = "sleeping" => now + timer + MinUseful <= TotalCap

\* An outage is not a verdict: "unauthenticated" is returned only on an
\* answer that judged the session, and "unavailable" only when the latest
\* attempt was an outage too.
OutageIsNotVerdict ==
  /\ state = "unauthenticated" => heard \in {"signed_out", "refused"}
  /\ state = "unavailable" => heard \in Outages
  /\ heard \in Verdicts => pc = "done"

\* The next attempt is not made before the provider's Retry-After has passed,
\* up to the longest wait the loop allows itself.
HonorsRetryAfter ==
  [][pc = "deciding" /\ pc' = "asking" /\ last # None
       => now >= outageAt + Smaller(last * 1000, MaxWait)]_vars

\* Every run returns.
Returns == <>(pc = "done")
=============================================================================
