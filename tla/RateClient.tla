----------------------------- MODULE RateClient -----------------------------
(***************************************************************************)
(* createResilientHttpClient: every call to the exchange-rate provider     *)
(* goes through one circuit breaker, which wraps a retry with backoff,     *)
(* which wraps one timeout per attempt.                                    *)
(*                                                                         *)
(* Time is discrete.  A call's timer is what is left of its attempt's      *)
(* timeout or of its backoff; rest is what is left before an open circuit  *)
(* may be tried again.  Time does not pass over a timer that is due.  The  *)
(* breaker is cockatiel's: a count of consecutive failed calls, one trial  *)
(* when it is half open, and everyone else waiting for that trial.         *)
(*                                                                         *)
(* age and waited are history.                                             *)
(***************************************************************************)
EXTENDS Integers

CONSTANTS
  Calls,                 \* who calls; one call of each at a time
  NoCall,
  RETRY_MAX_ATTEMPTS, HTTP_TIMEOUT,
  RETRY_BASE_DELAY, RETRY_MAX_DELAY, RETRY_JITTER,
  CIRCUIT_BREAKER_FAILURE_THRESHOLD, CIRCUIT_BREAKER_RESET_TIMEOUT,
  Remaining              \* the longest time a call may take from attempt k on

ASSUME CallsAssumption == NoCall \notin Calls
ASSUME ConfigAssumption ==
  /\ RETRY_MAX_ATTEMPTS \in Nat \ {0} /\ HTTP_TIMEOUT \in Nat \ {0}
  /\ RETRY_BASE_DELAY \in Nat /\ RETRY_MAX_DELAY \in Nat /\ RETRY_JITTER \in Nat
  /\ CIRCUIT_BREAKER_FAILURE_THRESHOLD \in Nat \ {0}

Attempt == 1..RETRY_MAX_ATTEMPTS

Capped(delay) == IF delay > RETRY_MAX_DELAY THEN RETRY_MAX_DELAY ELSE delay

\* computeBackoffDelayMs: exponential, plus jitter, capped.
Exponential(k) == RETRY_BASE_DELAY * 2^(k - 1)
BackoffDelays(k) == {Capped(Exponential(k) + jitter) : jitter \in 0..RETRY_JITTER}

CallBound == Remaining[1]

\* The provers know nothing of powers.
ASSUME PowersAssumption == \A k \in Attempt : Exponential(k) \in Nat

ASSUME RemainingAssumption ==
  /\ Remaining \in [Attempt -> Nat]
  /\ Remaining[RETRY_MAX_ATTEMPTS] = HTTP_TIMEOUT
  /\ \A k \in Attempt \ {RETRY_MAX_ATTEMPTS} :
       Remaining[k] = HTTP_TIMEOUT + Capped(Exponential(k) + RETRY_JITTER) + Remaining[k + 1]

\* As configured: 10 s of rest, 6.8 s of attempts and backoff.
ASSUME ResetAssumption ==
  CIRCUIT_BREAKER_RESET_TIMEOUT \in Nat /\ CIRCUIT_BREAKER_RESET_TIMEOUT > CallBound

VARIABLES
  step, attempt, timer,          \* the calls
  circuit, failures, rest, trial, \* the breaker
  age, waited                    \* history

call == <<step, attempt, timer, age, waited>>
breaker == <<circuit, failures, rest, trial>>
clientVars == <<call, breaker>>

Step == {"none", "entering", "waiting", "attempting", "backoff", "ended"}

ClientInit ==
  /\ step = [c \in Calls |-> "none"]
  /\ attempt = [c \in Calls |-> 1]
  /\ timer = [c \in Calls |-> 0]
  /\ circuit = "closed" /\ failures = 0 /\ rest = 0 /\ trial = NoCall
  /\ age = [c \in Calls |-> 0]
  /\ waited = [c \in Calls |-> FALSE]

Pass(c, here, next) == step[c] = here /\ step' = [step EXCEPT ![c] = next]

-----------------------------------------------------------------------------
(* Through the breaker *)

Fetch(c) ==
  /\ Pass(c, "entering", "attempting")
  /\ attempt' = [attempt EXCEPT ![c] = 1]
  /\ timer' = [timer EXCEPT ![c] = HTTP_TIMEOUT]
  /\ UNCHANGED <<age, waited>>

Admit(c) ==
  /\ circuit = "closed"
  /\ Fetch(c)
  /\ UNCHANGED breaker

\* CircuitOpenError, without contacting the provider.
Reject(c) ==
  /\ circuit = "open" /\ rest > 0
  /\ Pass(c, "entering", "ended")
  /\ UNCHANGED <<attempt, timer, age, waited, breaker>>

Try(c) ==
  /\ circuit = "open" /\ rest = 0
  /\ Fetch(c)
  /\ circuit' = "halfOpen"
  /\ trial' = c
  /\ UNCHANGED <<failures, rest>>

Await(c) ==
  /\ circuit = "halfOpen"
  /\ Pass(c, "entering", "waiting")
  /\ waited' = [waited EXCEPT ![c] = TRUE]
  /\ UNCHANGED <<attempt, timer, age, breaker>>

\* The trial is over, and whoever waited for it executes anew.
Resume(c) ==
  /\ trial = NoCall
  /\ Pass(c, "waiting", "entering")
  /\ UNCHANGED <<attempt, timer, age, waited, breaker>>

Open ==
  IF circuit = "open" THEN UNCHANGED <<circuit, rest>>
  ELSE circuit' = "open" /\ rest' = CIRCUIT_BREAKER_RESET_TIMEOUT

Close ==
  /\ circuit' = IF circuit = "halfOpen" THEN "closed" ELSE circuit
  /\ UNCHANGED rest

\* Mistake: the trial that failed still counts as under way.
Done_TrialKept(c) ==
  /\ step' = [step EXCEPT ![c] = "ended"]
  /\ timer' = [timer EXCEPT ![c] = 0]
  /\ UNCHANGED <<attempt, age, waited, trial>>

Done(c) ==
  /\ step' = [step EXCEPT ![c] = "ended"]
  /\ timer' = [timer EXCEPT ![c] = 0]
  /\ trial' = IF trial = c THEN NoCall ELSE trial
  /\ UNCHANGED <<attempt, age, waited>>

\* What the breaker makes of a call that ends.  A failed trial opens the
\* circuit by itself; otherwise it opens at the threshold.
CallSucceeds(c) ==
  /\ Done(c)
  /\ failures' = 0
  /\ IF trial = c THEN Close ELSE UNCHANGED <<circuit, rest>>

CallFails(c) ==
  LET count == failures + 1 IN
  /\ Done(c)
  /\ IF trial = c THEN Open /\ UNCHANGED failures
     ELSE /\ failures' = IF count > CIRCUIT_BREAKER_FAILURE_THRESHOLD THEN failures ELSE count
          /\ IF count >= CIRCUIT_BREAKER_FAILURE_THRESHOLD THEN Open
             ELSE UNCHANGED <<circuit, rest>>

\* An error that is not retryable is no failure of the provider; it closes a
\* half-open circuit and leaves the count as it was.
CallRefused(c) ==
  /\ Done(c)
  /\ IF trial = c THEN Close ELSE UNCHANGED <<circuit, rest>>
  /\ UNCHANGED failures

-----------------------------------------------------------------------------
(* The attempts of one call *)

Succeed(c) == step[c] = "attempting" /\ CallSucceeds(c)

\* 404 and the other statuses that are not worth a retry.
Refuse(c) == step[c] = "attempting" /\ CallRefused(c)

\* Mistake: RETRY_MAX_ATTEMPTS counts the retries, as cockatiel's maxAttempts does.
AttemptFails_CountsRetries(c) ==
  /\ step[c] = "attempting"
  /\ \/ /\ attempt[c] <= RETRY_MAX_ATTEMPTS
        /\ step' = [step EXCEPT ![c] = "backoff"]
        /\ \E delay \in BackoffDelays(attempt[c]) : timer' = [timer EXCEPT ![c] = delay]
        /\ UNCHANGED <<attempt, age, waited, breaker>>
     \/ attempt[c] > RETRY_MAX_ATTEMPTS /\ CallFails(c)

\* A retryable status, a connection failure, or the timeout.
AttemptFails(c) ==
  /\ step[c] = "attempting"
  /\ \/ /\ attempt[c] < RETRY_MAX_ATTEMPTS
        /\ step' = [step EXCEPT ![c] = "backoff"]
        /\ \E delay \in BackoffDelays(attempt[c]) : timer' = [timer EXCEPT ![c] = delay]
        /\ UNCHANGED <<attempt, age, waited, breaker>>
     \/ attempt[c] = RETRY_MAX_ATTEMPTS /\ CallFails(c)

BackoffEnds(c) ==
  /\ Pass(c, "backoff", "attempting")
  /\ timer[c] = 0
  /\ attempt' = [attempt EXCEPT ![c] = @ + 1]
  /\ timer' = [timer EXCEPT ![c] = HTTP_TIMEOUT]
  /\ UNCHANGED <<age, waited, breaker>>

CallProceeds(c) ==
  \/ Admit(c) \/ Reject(c) \/ Try(c) \/ Await(c) \/ Resume(c)
  \/ Succeed(c) \/ Refuse(c) \/ AttemptFails(c) \/ BackoffEnds(c)

-----------------------------------------------------------------------------
(* Time *)

\* Something that takes no time is left to do, or a timer is due.
Urgent(c) ==
  \/ step[c] = "entering"
  \/ step[c] = "waiting" /\ trial = NoCall
  \/ step[c] \in {"attempting", "backoff"} /\ timer[c] = 0

Less1(n) == IF n = 0 THEN 0 ELSE n - 1

ClientTick ==
  /\ \A c \in Calls : ~Urgent(c)
  /\ timer' = [c \in Calls |-> Less1(timer[c])]
  /\ rest' = Less1(rest)
  /\ age' = [c \in Calls |-> IF step[c] \in {"none", "ended"} THEN age[c] ELSE age[c] + 1]
  /\ UNCHANGED <<step, attempt, waited, circuit, failures, trial>>

-----------------------------------------------------------------------------
(* Properties *)

ClientTypeOK ==
  /\ step \in [Calls -> Step]
  /\ attempt \in [Calls -> Attempt]
  /\ timer \in [Calls -> Nat]
  /\ circuit \in {"closed", "open", "halfOpen"}
  /\ failures \in 0..CIRCUIT_BREAKER_FAILURE_THRESHOLD
  /\ rest \in Nat
  /\ trial \in Calls \cup {NoCall}
  /\ age \in [Calls -> Nat]
  /\ waited \in [Calls -> BOOLEAN]

Patience(c) == IF waited[c] THEN CallBound ELSE 0

\* A call holds its caller, and the transaction it was made in, no longer than
\* its attempts and backoffs may take, plus one trial if it had to wait for
\* one: timeouts, retries and the half-open circuit do not add up to more.
CallsEndInTime == \A c \in Calls : age[c] <= CallBound + Patience(c)

\* What CallsEndInTime rests on: each call is within its budget and the trial
\* is the oldest of those that wait for it.
Budget(c) ==
  /\ step[c] = "entering" => age[c] <= Patience(c)
  /\ step[c] = "waiting" => age[c] <= CallBound /\ waited[c]
  /\ step[c] = "attempting" =>
       age[c] + timer[c] + Remaining[attempt[c]] - HTTP_TIMEOUT <= CallBound + Patience(c)
  /\ step[c] = "backoff" =>
       /\ attempt[c] < RETRY_MAX_ATTEMPTS
       /\ age[c] + timer[c] + Remaining[attempt[c] + 1] <= CallBound + Patience(c)
  /\ age[c] <= CallBound + Patience(c)

TrialLeads ==
  /\ circuit = "halfOpen" => trial # NoCall
  /\ trial # NoCall =>
       /\ circuit # "closed"
       /\ step[trial] \in {"attempting", "backoff"}
       /\ circuit = "open" => rest + age[trial] >= CIRCUIT_BREAKER_RESET_TIMEOUT
       /\ ~waited[trial]
       /\ \A c \in Calls : step[c] = "waiting" => age[c] <= age[trial]

Settled == circuit = "closed" \/ (circuit = "open" /\ rest > 0)

\* Whoever has waited finds the circuit closed, or open with its rest ahead:
\* nobody waits twice, and nobody who waited becomes a trial.
WaitersSettle ==
  \A c \in Calls :
    \/ step[c] = "entering" /\ waited[c]
    \/ step[c] = "waiting" /\ trial = NoCall
    => Settled

ClientInv ==
  /\ ClientTypeOK
  /\ \A c \in Calls : Budget(c)
  /\ TrialLeads
  /\ WaitersSettle

=============================================================================
