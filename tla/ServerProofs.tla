---------------------------- MODULE ServerProofs ----------------------------
(***************************************************************************)
(* For any number of connections, any pool and any faults: a call to the   *)
(* provider ends in time, requests whose client is still there never       *)
(* outlive what they depend on, and the force-exit timer only cuts off a   *)
(* shutdown that something holds up.                                       *)
(*                                                                         *)
(* The last of these compares two clocks.  When the signal comes the timer *)
(* exceeds what any call can take (DrainAssumption); statements take no    *)
(* time, so a request that gets a client and asks for a rate afterwards    *)
(* does it before the clock moves, or else has waited in the queue; from   *)
(* then on the timer and what is left of the call go down together         *)
(* (Drains), also for the requests of clients that went away, which the    *)
(* pool waits for when the HTTP server does not.  Once the clients are     *)
(* back, time stands still until a server hangs or a leaked query keeps    *)
(* the pool (TimeIsLeft).                                                  *)
(***************************************************************************)
EXTENDS Server, TLAPS

-----------------------------------------------------------------------------
(* The client, for any number of callers, any backoff and any thresholds:   *)
(* every step of a call, and every tick, keeps the calls within their       *)
(* budgets.  A call that never waited is charged for its own attempts only. *)
(* The one that waits is charged for the trial too, and waits once: the     *)
(* trial it waited for ends before the circuit can be tried again, because  *)
(* a call takes less time than an open circuit rests (ResetAssumption).  So *)
(* when it goes on the circuit is closed, or open with its rest ahead       *)
(* (WaitersSettle).                                                         *)

(* The constants *)

LEMMA RemainingFacts ==
  /\ CallBound \in Nat /\ HTTP_TIMEOUT \in Nat /\ HTTP_TIMEOUT > 0
  /\ RETRY_MAX_ATTEMPTS \in Nat /\ RETRY_MAX_ATTEMPTS >= 1
  /\ \A k \in Attempt : k \in Nat /\ Remaining[k] \in Nat /\ Remaining[k] >= HTTP_TIMEOUT
  /\ \A k \in Attempt : k # RETRY_MAX_ATTEMPTS => k + 1 \in Attempt
<1>1. /\ HTTP_TIMEOUT \in Nat /\ HTTP_TIMEOUT > 0
      /\ RETRY_MAX_ATTEMPTS \in Nat /\ RETRY_MAX_ATTEMPTS >= 1
      /\ RETRY_MAX_DELAY \in Nat /\ RETRY_JITTER \in Nat
  BY ConfigAssumption
<1>2. CallBound \in Nat
  BY <1>1, RemainingAssumption DEF CallBound, Attempt
<1>3. ASSUME NEW k \in Attempt
      PROVE  k \in Nat /\ Remaining[k] \in Nat /\ Remaining[k] >= HTTP_TIMEOUT
  <2>1. k \in Nat /\ Remaining[k] \in Nat
    BY RemainingAssumption DEF Attempt
  <2>2. CASE k = RETRY_MAX_ATTEMPTS
    BY <1>1, <2>1, <2>2, RemainingAssumption
  <2>3. CASE k # RETRY_MAX_ATTEMPTS
    <3>1. k + 1 \in Attempt
      BY <1>1, <2>3 DEF Attempt
    <3>2. Remaining[k + 1] \in Nat
      BY <3>1, RemainingAssumption
    <3>3. Exponential(k) \in Nat
      BY PowersAssumption
    <3>4. Capped(Exponential(k) + RETRY_JITTER) \in Nat
      BY <1>1, <3>3 DEF Capped
    <3>5. Remaining[k] = HTTP_TIMEOUT + Capped(Exponential(k) + RETRY_JITTER) + Remaining[k + 1]
      BY <2>3, RemainingAssumption
    <3> QED BY <1>1, <2>1, <3>2, <3>4, <3>5
  <2> QED BY <2>1, <2>2, <2>3
<1>4. ASSUME NEW k \in Attempt, k # RETRY_MAX_ATTEMPTS PROVE k + 1 \in Attempt
  BY <1>1, <1>4 DEF Attempt
<1> QED BY <1>1, <1>2, <1>3, <1>4

\* The backoff after attempt k fits in what is left from attempt k on.
LEMMA BackoffFits ==
  ASSUME NEW k \in Attempt, k < RETRY_MAX_ATTEMPTS, NEW delay \in BackoffDelays(k)
  PROVE  delay \in Nat /\ delay + Remaining[k + 1] <= Remaining[k] - HTTP_TIMEOUT
<1>1. Exponential(k) \in Nat
  BY PowersAssumption
<1>2. RETRY_MAX_DELAY \in Nat /\ RETRY_JITTER \in Nat
  BY ConfigAssumption
<1>3. PICK jitter \in 0..RETRY_JITTER : delay = Capped(Exponential(k) + jitter)
  BY DEF BackoffDelays
<1>4. delay \in Nat /\ delay <= Capped(Exponential(k) + RETRY_JITTER)
        /\ Capped(Exponential(k) + RETRY_JITTER) \in Nat
  BY <1>1, <1>2, <1>3 DEF Capped
<1>5. k \in Nat /\ k # RETRY_MAX_ATTEMPTS
  BY RemainingFacts
<1>6. Remaining[k] = HTTP_TIMEOUT + Capped(Exponential(k) + RETRY_JITTER) + Remaining[k + 1]
  BY <1>5, RemainingAssumption
<1>7. Remaining[k + 1] \in Nat
  BY <1>5, RemainingFacts
<1> QED BY <1>4, <1>6, <1>7, RemainingFacts

LEMMA InTime == ASSUME ClientInv PROVE CallsEndInTime
BY DEF ClientInv, Budget, CallsEndInTime

-----------------------------------------------------------------------------
(* The invariant holds at first *)

LEMMA ClientStarts == ASSUME ClientInit PROVE ClientInv
<1>1. ClientTypeOK
  <2>1. 1 \in Attempt
    BY RemainingFacts DEF Attempt
  <2> QED BY <2>1, ConfigAssumption DEF ClientInit, ClientTypeOK, Step
<1>2. ASSUME NEW c \in Calls PROVE Budget(c)
  <2>1. step[c] = "none" /\ age[c] = 0 /\ ~waited[c]
    BY DEF ClientInit
  <2> QED BY <2>1, RemainingFacts DEF Budget, Patience
<1>3. TrialLeads /\ WaitersSettle
  BY DEF ClientInit, TrialLeads, WaitersSettle
<1> QED BY <1>1, <1>2, <1>3 DEF ClientInv

-----------------------------------------------------------------------------
(* Types *)

\* What the end of a call does to the breaker, and that it ends.
LEMMA EndType ==
  ASSUME ClientTypeOK, NEW c \in Calls,
         CallSucceeds(c) \/ CallFails(c) \/ CallRefused(c)
  PROVE  ClientTypeOK'
<1>1. /\ step' \in [Calls -> Step] /\ attempt' \in [Calls -> Attempt] /\ timer' \in [Calls -> Nat]
      /\ trial' \in Calls \cup {NoCall} /\ age' \in [Calls -> Nat] /\ waited' \in [Calls -> BOOLEAN]
  BY DEF ClientTypeOK, CallSucceeds, CallFails, CallRefused, Done, Step
<1>2. /\ circuit' \in {"closed", "open", "halfOpen"} /\ rest' \in Nat
      /\ failures' \in 0..CIRCUIT_BREAKER_FAILURE_THRESHOLD
  <2>1. /\ CIRCUIT_BREAKER_FAILURE_THRESHOLD \in Nat
        /\ CIRCUIT_BREAKER_RESET_TIMEOUT \in Nat
    BY ConfigAssumption, ResetAssumption
  <2>2. CASE CallSucceeds(c)
    BY <2>1, <2>2 DEF ClientTypeOK, CallSucceeds, Close
  <2>3. CASE CallFails(c)
    BY <2>1, <2>3 DEF ClientTypeOK, CallFails, Open
  <2>4. CASE CallRefused(c)
    BY <2>1, <2>4 DEF ClientTypeOK, CallRefused, Close
  <2> QED BY <2>2, <2>3, <2>4
<1> QED BY <1>1, <1>2 DEF ClientTypeOK

LEMMA ClientType ==
  ASSUME ClientInv, NEW c \in Calls, CallProceeds(c)
  PROVE  ClientTypeOK'
<1> USE DEF ClientInv
<1>1. 1 \in Attempt /\ HTTP_TIMEOUT \in Nat
  BY RemainingFacts DEF Attempt
<1>2. CASE Admit(c) \/ Try(c)
  BY <1>1, <1>2 DEF Admit, Try, Fetch, Pass, ClientTypeOK, Step, breaker
<1>3. CASE Reject(c) \/ Await(c) \/ Resume(c)
  BY <1>3 DEF Reject, Await, Resume, Pass, ClientTypeOK, Step, breaker
<1>4. CASE Succeed(c) \/ Refuse(c)
  BY <1>4, EndType DEF Succeed, Refuse
<1>5. CASE AttemptFails(c)
  <2>1. CASE CallFails(c)
    BY <2>1, EndType
  <2>2. CASE ~CallFails(c)
    <3>1. attempt[c] \in Attempt /\ attempt[c] < RETRY_MAX_ATTEMPTS
      BY <1>5, <2>2 DEF AttemptFails, ClientTypeOK
    <3>2. PICK delay \in BackoffDelays(attempt[c]) : timer' = [timer EXCEPT ![c] = delay]
      BY <1>5, <2>2 DEF AttemptFails
    <3>3. delay \in Nat
      BY <3>1, BackoffFits
    <3> QED BY <1>5, <2>2, <3>2, <3>3 DEF AttemptFails, ClientTypeOK, Step, breaker
  <2> QED BY <2>1, <2>2
<1>6. CASE BackoffEnds(c)
  <2>1. attempt[c] \in Attempt /\ attempt[c] < RETRY_MAX_ATTEMPTS
    BY <1>6 DEF BackoffEnds, Pass, Budget, ClientTypeOK
  <2>2. attempt[c] + 1 \in Attempt
    BY <2>1, RemainingFacts
  <2> QED BY <1>1, <1>6, <2>2 DEF BackoffEnds, Pass, ClientTypeOK, Step, breaker
<1> QED BY <1>2, <1>3, <1>4, <1>5, <1>6 DEF CallProceeds

-----------------------------------------------------------------------------
(* The breaker and those who wait *)

\* A trial is younger than an open circuit's rest is long.
LEMMA TrialRests ==
  ASSUME ClientInv, trial # NoCall
  PROVE  /\ trial \in Calls /\ age[trial] \in Nat /\ age[trial] <= CallBound
         /\ circuit = "open" => rest > 0
<1>1. trial \in Calls /\ age[trial] \in Nat /\ ~waited[trial]
  BY DEF ClientInv, ClientTypeOK, TrialLeads
<1>2. age[trial] <= CallBound
  BY <1>1, RemainingFacts DEF ClientInv, Budget, Patience
<1>3. circuit = "open" => rest > 0
  BY <1>1, <1>2, RemainingFacts, ResetAssumption DEF ClientInv, TrialLeads, ClientTypeOK
<1> QED BY <1>1, <1>2, <1>3

\* What the end of a call leaves of the breaker.
LEMMA EndKeepsBreaker ==
  ASSUME ClientInv, NEW c \in Calls, step[c] = "attempting",
         CallSucceeds(c) \/ CallFails(c) \/ CallRefused(c)
  PROVE  TrialLeads' /\ WaitersSettle'
<1> USE DEF ClientInv
<1>1. /\ step' = [step EXCEPT ![c] = "ended"]
      /\ trial' = IF trial = c THEN NoCall ELSE trial
      /\ age' = age /\ waited' = waited
      /\ step \in [Calls -> Step] /\ trial \in Calls \cup {NoCall}
      /\ age \in [Calls -> Nat]
  BY DEF CallSucceeds, CallFails, CallRefused, Done, ClientTypeOK
<1>2. CIRCUIT_BREAKER_RESET_TIMEOUT \in Nat /\ CIRCUIT_BREAKER_RESET_TIMEOUT > 0
  BY RemainingFacts, ResetAssumption
<1>3. CASE trial = c
  <2>1. trial' = NoCall
    BY <1>1, <1>3
  <2>2. circuit \in {"open", "halfOpen"} /\ (circuit = "open" => rest > 0)
    <3>1. c # NoCall
      BY CallsAssumption
    <3> QED BY <1>3, <3>1, TrialRests DEF TrialLeads, ClientTypeOK
  <2>3. Settled'
    <3>1. CASE CallSucceeds(c) \/ CallRefused(c)
      BY <1>3, <2>2, <3>1 DEF CallSucceeds, CallRefused, Close, Settled
    <3>2. CASE CallFails(c)
      BY <1>2, <1>3, <2>2, <3>2 DEF CallFails, Open, Settled
    <3> QED BY <3>1, <3>2
  <2>4. circuit' # "halfOpen"
    BY <2>3 DEF Settled
  <2> QED BY <2>1, <2>3, <2>4 DEF TrialLeads, WaitersSettle
<1>4. CASE trial # c
  <2>1. trial' = trial
    BY <1>1, <1>4
  <2>2. \/ UNCHANGED <<circuit, rest>>
        \/ circuit' = "open" /\ rest' = CIRCUIT_BREAKER_RESET_TIMEOUT
    BY <1>4 DEF CallSucceeds, CallFails, CallRefused, Open
  <2>3. \A r \in Calls : step'[r] # "ended" => step'[r] = step[r]
    BY <1>1
  <2>4. trial # NoCall => step'[trial] = step[trial]
    BY <1>1, <1>4
  <2>5. TrialLeads'
    BY <1>1, <1>2, <2>1, <2>2, <2>3, <2>4 DEF TrialLeads
  <2>6. Settled => Settled'
    BY <1>2, <2>2 DEF Settled
  <2>7. WaitersSettle'
    BY <1>1, <2>1, <2>3, <2>6 DEF WaitersSettle
  <2> QED BY <2>5, <2>7
<1> QED BY <1>3, <1>4

LEMMA KeepsBreaker ==
  ASSUME ClientInv, NEW c \in Calls, CallProceeds(c)
  PROVE  TrialLeads' /\ WaitersSettle'
<1> USE DEF ClientInv
<1>1. /\ step \in [Calls -> Step] /\ trial \in Calls \cup {NoCall} /\ age \in [Calls -> Nat]
      /\ waited \in [Calls -> BOOLEAN] /\ rest \in Nat
  BY DEF ClientTypeOK
<1>2. CASE Admit(c)
  <2>1. /\ step' = [step EXCEPT ![c] = "attempting"] /\ step[c] = "entering"
        /\ UNCHANGED <<age, waited, circuit, rest, trial>>
    BY <1>2 DEF Admit, Fetch, Pass, breaker
  <2> QED BY <1>1, <1>2, <2>1 DEF Admit, TrialLeads, WaitersSettle, Settled
<1>3. CASE Reject(c)
  <2>1. /\ step' = [step EXCEPT ![c] = "ended"] /\ step[c] = "entering"
        /\ UNCHANGED <<age, waited, circuit, rest, trial>>
    BY <1>3 DEF Reject, Pass, breaker
  <2> QED BY <1>1, <2>1 DEF TrialLeads, WaitersSettle, Settled
<1>4. CASE Try(c)
  <2>1. /\ step' = [step EXCEPT ![c] = "attempting"] /\ step[c] = "entering"
        /\ circuit = "open" /\ rest = 0 /\ circuit' = "halfOpen" /\ trial' = c
        /\ UNCHANGED <<age, waited, rest>>
    BY <1>4 DEF Try, Fetch, Pass
  <2>2. trial = NoCall
    BY <2>1, TrialRests
  <2>3. ~Settled
    BY <2>1 DEF Settled
  <2>4. \A r \in Calls : step[r] # "waiting" /\ ~(step[r] = "entering" /\ waited[r])
    BY <2>2, <2>3 DEF WaitersSettle
  <2>5. \A r \in Calls : step'[r] # "waiting" /\ ~(step'[r] = "entering" /\ waited'[r])
    BY <1>1, <2>1, <2>4
  <2>6. step'[c] = "attempting" /\ ~waited'[c]
    BY <1>1, <2>1, <2>4
  <2>7. c # NoCall
    BY CallsAssumption
  <2>8. TrialLeads'
    BY <2>1, <2>5, <2>6, <2>7 DEF TrialLeads
  <2>9. WaitersSettle'
    BY <2>5 DEF WaitersSettle
  <2> QED BY <2>8, <2>9
<1>5. CASE Await(c)
  <2>1. /\ step' = [step EXCEPT ![c] = "waiting"] /\ step[c] = "entering"
        /\ waited' = [waited EXCEPT ![c] = TRUE]
        /\ circuit = "halfOpen"
        /\ UNCHANGED <<age, circuit, rest, trial>>
    BY <1>5 DEF Await, Pass, breaker
  <2>2. trial # NoCall /\ trial # c /\ trial \in Calls
    BY <1>1, <2>1 DEF TrialLeads
  <2>3. ~waited[c]
    BY <2>1 DEF WaitersSettle, Settled
  <2>4. age[c] = 0
    BY <1>1, <2>1, <2>3 DEF Budget, Patience
  <2>5. TrialLeads'
    BY <1>1, <2>1, <2>2, <2>4 DEF TrialLeads
  <2>6. \A r \in Calls : step'[r] = "entering" /\ waited'[r] => step[r] = "entering" /\ waited[r]
    BY <1>1, <2>1
  <2>7. WaitersSettle'
    BY <2>1, <2>2, <2>6 DEF WaitersSettle, Settled
  <2> QED BY <2>5, <2>7
<1>6. CASE Resume(c)
  <2>1. /\ step' = [step EXCEPT ![c] = "entering"] /\ step[c] = "waiting" /\ trial = NoCall
        /\ UNCHANGED <<age, waited, circuit, rest, trial>>
    BY <1>6 DEF Resume, Pass, breaker
  <2>2. Settled' /\ Settled
    BY <2>1 DEF WaitersSettle, Settled
  <2> QED BY <1>1, <2>1, <2>2 DEF TrialLeads, WaitersSettle
<1>7. CASE Succeed(c) \/ Refuse(c)
  BY <1>7, EndKeepsBreaker DEF Succeed, Refuse
<1>8. CASE AttemptFails(c)
  <2>1. CASE CallFails(c)
    BY <1>8, <2>1, EndKeepsBreaker DEF AttemptFails
  <2>2. CASE ~CallFails(c)
    <3>1. /\ step' = [step EXCEPT ![c] = "backoff"] /\ step[c] = "attempting"
          /\ UNCHANGED <<age, waited, circuit, rest, trial>>
      BY <1>8, <2>2 DEF AttemptFails, breaker
    <3> QED BY <1>1, <3>1 DEF TrialLeads, WaitersSettle, Settled
  <2> QED BY <2>1, <2>2
<1>9. CASE BackoffEnds(c)
  <2>1. /\ step' = [step EXCEPT ![c] = "attempting"] /\ step[c] = "backoff"
        /\ UNCHANGED <<age, waited, circuit, rest, trial>>
    BY <1>9 DEF BackoffEnds, Pass, breaker
  <2> QED BY <1>1, <2>1 DEF TrialLeads, WaitersSettle, Settled
<1> QED BY <1>2, <1>3, <1>4, <1>5, <1>6, <1>7, <1>8, <1>9 DEF CallProceeds

-----------------------------------------------------------------------------
(* The budgets *)

LEMMA KeepsBudget ==
  ASSUME ClientInv, NEW c \in Calls, CallProceeds(c)
  PROVE  \A r \in Calls : Budget(r)'
<1> USE DEF ClientInv
<1>1. /\ step \in [Calls -> Step] /\ attempt \in [Calls -> Attempt] /\ timer \in [Calls -> Nat]
      /\ age \in [Calls -> Nat] /\ waited \in [Calls -> BOOLEAN]
  BY DEF ClientTypeOK
<1>2. ASSUME NEW r \in Calls, r # c PROVE Budget(r)'
  <2>1. /\ step'[r] = step[r] /\ attempt'[r] = attempt[r] /\ timer'[r] = timer[r]
        /\ age'[r] = age[r] /\ waited'[r] = waited[r]
    BY <1>1, <1>2 DEF CallProceeds, Admit, Reject, Try, Await, Resume, Succeed, Refuse,
                      AttemptFails, BackoffEnds, Fetch, Pass, CallSucceeds, CallFails,
                      CallRefused, Done
  <2>2. Budget(r)
    OBVIOUS
  <2> QED BY <2>1, <2>2 DEF Budget, Patience
<1>3. Budget(c)'
  <2>1. /\ age[c] \in Nat /\ timer[c] \in Nat /\ attempt[c] \in Attempt /\ age'[c] = age[c]
        /\ Budget(c)
    BY <1>1 DEF CallProceeds, Admit, Reject, Try, Await, Resume, Succeed, Refuse,
                AttemptFails, BackoffEnds, Fetch, Pass, CallSucceeds, CallFails, CallRefused, Done
  <2>2. CASE Admit(c) \/ Try(c)
    <3>1. /\ step[c] = "entering" /\ step'[c] = "attempting" /\ attempt'[c] = 1
          /\ timer'[c] = HTTP_TIMEOUT /\ waited'[c] = waited[c]
      BY <1>1, <2>2 DEF Admit, Try, Fetch, Pass
    <3> QED BY <2>1, <3>1, RemainingFacts DEF Budget, Patience, CallBound
  <2>3. CASE Reject(c)
    <3>1. step'[c] = "ended" /\ waited'[c] = waited[c]
      BY <1>1, <2>3 DEF Reject, Pass
    <3> QED BY <2>1, <3>1 DEF Budget, Patience
  <2>4. CASE Await(c)
    <3>1. step[c] = "entering" /\ step'[c] = "waiting" /\ waited'[c]
      BY <1>1, <2>4 DEF Await, Pass
    <3>2. age[c] <= CallBound
      BY <2>1, <3>1, RemainingFacts DEF Budget, Patience
    <3> QED BY <2>1, <3>1, <3>2, RemainingFacts DEF Budget, Patience
  <2>5. CASE Resume(c)
    <3>1. step[c] = "waiting" /\ step'[c] = "entering" /\ waited'[c] = waited[c]
      BY <1>1, <2>5 DEF Resume, Pass
    <3> QED BY <2>1, <3>1, RemainingFacts DEF Budget, Patience
  <2>6. CASE CallSucceeds(c) \/ CallFails(c) \/ CallRefused(c)
    <3>1. step'[c] = "ended" /\ waited'[c] = waited[c]
      BY <1>1, <2>6 DEF CallSucceeds, CallFails, CallRefused, Done
    <3> QED BY <2>1, <3>1 DEF Budget, Patience
  <2>7. CASE AttemptFails(c) /\ ~CallFails(c)
    <3>1. /\ step[c] = "attempting" /\ step'[c] = "backoff" /\ attempt[c] < RETRY_MAX_ATTEMPTS
          /\ attempt'[c] = attempt[c] /\ waited'[c] = waited[c]
      BY <1>1, <2>7 DEF AttemptFails
    <3>2. PICK delay \in BackoffDelays(attempt[c]) : timer' = [timer EXCEPT ![c] = delay]
      BY <2>7 DEF AttemptFails
    <3>3. /\ timer'[c] = delay /\ delay \in Nat
          /\ delay + Remaining[attempt[c] + 1] <= Remaining[attempt[c]] - HTTP_TIMEOUT
      BY <1>1, <2>1, <3>1, <3>2, BackoffFits
    <3>4. Remaining[attempt[c]] \in Nat /\ Remaining[attempt[c] + 1] \in Nat
      BY <2>1, <3>1, RemainingFacts
    <3> DEFINE a == Remaining[attempt[c]]
               b == Remaining[attempt[c] + 1]
    <3>5. age[c] + timer[c] + a - HTTP_TIMEOUT <= CallBound + Patience(c)
          /\ age[c] <= CallBound + Patience(c)
      BY <2>1, <3>1 DEF Budget
    <3>6. Patience(c) \in Nat /\ Patience(c)' = Patience(c)
      BY <3>1, RemainingFacts DEF Patience
    <3>7. age'[c] + timer'[c] + Remaining[attempt'[c] + 1] <= CallBound + Patience(c)'
      <4>1. age'[c] + timer'[c] + b <= CallBound + Patience(c)
        <5> HIDE DEF a, b
        <5> QED BY <2>1, <3>3, <3>4, <3>5, <3>6, RemainingFacts DEF a, b
      <4> QED BY <3>1, <3>6, <4>1
    <3> QED BY <2>1, <3>1, <3>5, <3>6, <3>7 DEF Budget
  <2>8. CASE BackoffEnds(c)
    <3>1. /\ step[c] = "backoff" /\ timer[c] = 0 /\ step'[c] = "attempting"
          /\ attempt'[c] = attempt[c] + 1
          /\ timer'[c] = HTTP_TIMEOUT /\ waited'[c] = waited[c]
      BY <1>1, <2>8 DEF BackoffEnds, Pass
    <3>2. attempt[c] + 1 \in Attempt
      BY <2>1, <3>1, RemainingFacts DEF Budget
    <3>3. Remaining[attempt[c] + 1] \in Nat
      BY <3>2, RemainingFacts
    <3> QED BY <2>1, <3>1, <3>3, RemainingFacts DEF Budget, Patience
  <2> QED BY <2>2, <2>3, <2>4, <2>5, <2>6, <2>7, <2>8
          DEF CallProceeds, Succeed, Refuse
<1> QED BY <1>2, <1>3

LEMMA CallKeepsInv ==
  ASSUME ClientInv, NEW c \in Calls, CallProceeds(c)
  PROVE  ClientInv'
BY ClientType, KeepsBreaker, KeepsBudget DEF ClientInv

-----------------------------------------------------------------------------
(* Time *)

LEMMA Less1Facts ==
  ASSUME NEW n \in Nat
  PROVE  Less1(n) \in Nat /\ (n > 0 => Less1(n) = n - 1) /\ (n = 0 => Less1(n) = 0)
BY DEF Less1

LEMMA TickKeepsInv == ASSUME ClientInv, ClientTick PROVE ClientInv'
<1> USE DEF ClientInv
<1>1. /\ step \in [Calls -> Step] /\ attempt \in [Calls -> Attempt] /\ timer \in [Calls -> Nat]
      /\ age \in [Calls -> Nat] /\ waited \in [Calls -> BOOLEAN] /\ rest \in Nat
      /\ trial \in Calls \cup {NoCall}
  BY DEF ClientTypeOK
<1>2. /\ timer' = [c \in Calls |-> Less1(timer[c])] /\ rest' = Less1(rest)
      /\ age' = [c \in Calls |-> IF step[c] \in {"none", "ended"} THEN age[c] ELSE age[c] + 1]
      /\ UNCHANGED <<step, attempt, waited, circuit, failures, trial>>
      /\ \A c \in Calls : ~Urgent(c)
  BY DEF ClientTick
<1>3. \A c \in Calls : step[c] # "entering" /\ (step[c] = "waiting" => trial # NoCall)
                       /\ (step[c] \in {"attempting", "backoff"} => timer[c] > 0)
  BY <1>1, <1>2 DEF Urgent
<1>4. ClientTypeOK'
  <2>1. timer' \in [Calls -> Nat] /\ age' \in [Calls -> Nat] /\ rest' \in Nat
    BY <1>1, <1>2, Less1Facts
  <2> QED BY <1>2, <2>1 DEF ClientTypeOK
<1>5. TrialLeads'
  <2>1. \A c \in Calls : step[c] \in {"waiting", "attempting", "backoff"} => age'[c] = age[c] + 1
    BY <1>1, <1>2
  <2>2. ASSUME trial # NoCall
        PROVE  /\ circuit = "open" => rest' + age'[trial] >= CIRCUIT_BREAKER_RESET_TIMEOUT
               /\ \A c \in Calls : step[c] = "waiting" => age'[c] <= age'[trial]
    <3>1. /\ trial \in Calls /\ age'[trial] = age[trial] + 1
          /\ age[trial] \in Nat
      BY <1>1, <2>1, <2>2 DEF TrialLeads
    <3>2. rest' \in Nat /\ rest' >= rest - 1
      BY <1>1, <1>2, Less1Facts
    <3>3. circuit = "open" => rest' + age'[trial] >= CIRCUIT_BREAKER_RESET_TIMEOUT
      BY <1>1, <2>2, <3>1, <3>2, ResetAssumption DEF TrialLeads
    <3>4. \A c \in Calls : step[c] = "waiting" => age'[c] <= age'[trial]
      BY <1>1, <2>1, <2>2, <3>1 DEF TrialLeads
    <3> QED BY <3>3, <3>4
  <2> QED BY <1>2, <2>2 DEF TrialLeads
<1>6. WaitersSettle'
  BY <1>2, <1>3 DEF WaitersSettle
<1>7. ASSUME NEW c \in Calls, step[c] # "waiting" PROVE Budget(c)'
  <2>1. /\ age[c] \in Nat /\ timer[c] \in Nat /\ attempt[c] \in Attempt /\ Budget(c)
        /\ Patience(c)' = Patience(c) /\ Patience(c) \in Nat
    BY <1>1, <1>2, RemainingFacts DEF Patience
  <2>2. CASE step[c] \in {"none", "ended"}
    <3>1. age'[c] = age[c]
      BY <1>2, <2>2
    <3> QED BY <1>2, <2>1, <2>2, <3>1 DEF Budget
  <2>3. CASE step[c] \in {"attempting", "backoff"}
    <3>1. age'[c] = age[c] + 1 /\ timer'[c] = timer[c] - 1 /\ timer[c] > 0
      BY <1>1, <1>2, <1>3, <2>3, Less1Facts
    <3>2. Remaining[attempt[c]] \in Nat /\ Remaining[attempt[c]] >= HTTP_TIMEOUT
      BY <2>1, RemainingFacts
    <3>3. step[c] = "backoff" => Remaining[attempt[c] + 1] \in Nat
      BY <2>1, RemainingFacts DEF Budget
    <3> QED BY <1>2, <2>1, <2>3, <3>1, <3>2, <3>3, RemainingFacts DEF Budget
  <2> QED BY <1>1, <1>3, <1>7, <2>2, <2>3 DEF Step
<1>8. ASSUME NEW c \in Calls, step[c] = "waiting" PROVE Budget(c)'
  <2>1. trial # NoCall /\ trial \in Calls
    BY <1>1, <1>3, <1>8
  <2>2. step[trial] # "waiting" /\ ~waited[trial]
    BY <2>1 DEF TrialLeads
  <2>3. PICK t \in Calls : t = trial
    BY <2>1
  <2>4. age'[trial] <= CallBound
    <3>1. Budget(t)'
      BY <1>7, <2>2, <2>3
    <3>2. age'[t] \in Nat /\ ~waited'[t]
      BY <1>2, <1>4, <2>2, <2>3 DEF ClientTypeOK
    <3> QED BY <2>3, <3>1, <3>2, RemainingFacts DEF Budget, Patience
  <2>5. age'[c] <= age'[trial] /\ age'[c] \in Nat /\ age'[trial] \in Nat
    BY <1>2, <1>4, <1>5, <1>8, <2>1 DEF TrialLeads, ClientTypeOK
  <2>6. waited[c]
    BY <1>8 DEF Budget
  <2> QED BY <1>2, <1>8, <2>4, <2>5, <2>6, RemainingFacts DEF Budget, Patience
<1> QED BY <1>4, <1>5, <1>6, <1>7, <1>8

-----------------------------------------------------------------------------
(* The server *)

LEMMA TimeFacts ==
  /\ SHUTDOWN_TIMEOUT \in Nat /\ READINESS_CHECK_TIMEOUT \in Nat /\ READINESS_CHECK_TIMEOUT > 0
  /\ SHUTDOWN_TIMEOUT > CallBound /\ SHUTDOWN_TIMEOUT > READINESS_CHECK_TIMEOUT
BY ServerAssumption, DrainAssumption

-----------------------------------------------------------------------------
(* The steps, by what they do *)

\* A handler goes on, and nothing else happens.
Goes(n) == Connect(n) \/ Arrive(n) \/ Disconnect(n) \/ Claim(n) \/ Begin(n)

Responds(n) == Save(n) \/ MeetClosedRedis(n) \/ ProbeTimesOut(n) \/ ProbeAnswers(n)

Queries(n) == QueryStarts(n) \/ QueryEnds(n)

\* What happens on one connection.
Handles(n) ==
  \/ Goes(n) \/ Abort(n) \/ AskForRate(n) \/ EndTransaction(n) \/ Responds(n)
  \/ RateCall(n) \/ Probe(n) \/ Queries(n)

LEMMA NextCases ==
  ASSUME [Next]_vars
  PROVE  \/ \E n \in Connections : Handles(n)
         \/ Signal \/ CloseStep \/ Exit \/ ForceExit \/ CloseFails
         \/ \E server \in {"postgres", "redis", "tracing"} : Hang(server)
         \/ Tick
         \/ UNCHANGED vars
BY DEF Next, Handles, Goes, Responds, Queries, Prompt, Shutdown, Stopped

-----------------------------------------------------------------------------
(* The invariant holds at first *)

LEMMA InitIInv == ASSUME Init PROVE IInv
<1>1. ClientInv
  <2>1. ClientInit
    BY DEF Init
  <2> QED BY <2>1, ClientStarts
<1>2. TypeOK
  <2>1. ClientTypeOK
    BY <1>1 DEF ClientInv
  <2>2. /\ place \in [Connections -> InFlight \cup Idle \cup {"none"}]
        /\ probe \in [Connections -> 0..READINESS_CHECK_TIMEOUT]
    BY TimeFacts DEF Init
  <2>3. /\ gone \subseteq Connections
        /\ query \in [Connections -> {"none", "waiting", "running"}]
        /\ hung \subseteq {"postgres", "redis", "tracing"}
        /\ closing \in Closing \cup {"no", "done"}
        /\ force \in 0..SHUTDOWN_TIMEOUT
        /\ exitCode \in {0, 1}
        /\ exit \in {"running", "clean", "unclean", "forced"}
    BY TimeFacts DEF Init
  <2>4. delayed \in BOOLEAN
    BY DEF Init
  <2> QED BY <2>1, <2>2, <2>3, <2>4 DEF TypeOK
<1>3. CallsMatchPlaces
  <2>1. gone = {} /\ \A n \in Calls : place[n] = "none" /\ step[n] = "none" /\ age[n] = 0 /\ ~waited[n]
    BY DEF Init, ClientInit, Connections
  <2> QED BY <2>1 DEF CallsMatchPlaces, Connections
<1>4. Drains /\ TimeIsLeft /\ PoolIsDrained
  BY DEF Init, Drains, TimeIsLeft, PoolIsDrained, RedisClosed, Closing
<1>5. DependenciesOutliveRequests /\ ForcedExitIsExplained
  BY DEF Init, DependenciesOutliveRequests, ForcedExitIsExplained, PoolEnding
<1> QED BY <1>1, <1>2, <1>3, <1>4, <1>5 DEF IInv

-----------------------------------------------------------------------------
(* The calls *)

LEMMA SameClient == ASSUME ClientInv, UNCHANGED clientVars PROVE ClientInv'
<1> USE DEF clientVars, call, breaker
<1>1. ClientTypeOK'
  BY DEF ClientInv, ClientTypeOK
<1>2. \A c \in Calls : Budget(c)'
  BY DEF ClientInv, Budget, Patience
<1>3. TrialLeads' /\ WaitersSettle'
  BY DEF ClientInv, TrialLeads, WaitersSettle, Settled
<1> QED BY <1>1, <1>2, <1>3 DEF ClientInv

\* A call begins, or its result is taken: no other call is concerned.
LEMMA OneClient ==
  ASSUME ClientInv, NEW n \in Calls, NEW s \in {"none", "entering"},
         step[n] \in {"none", "ended"},
         step' = [step EXCEPT ![n] = s],
         attempt' \in [Calls -> Attempt], age' \in [Calls -> Nat], waited' \in [Calls -> BOOLEAN],
         age'[n] = 0, ~waited'[n],
         \A c \in Calls \ {n} : age'[c] = age[c] /\ waited'[c] = waited[c] /\ attempt'[c] = attempt[c],
         UNCHANGED <<timer, breaker>>
  PROVE  ClientInv'
<1> USE DEF breaker
<1>1. step \in [Calls -> Step] /\ step'[n] = s /\ \A c \in Calls \ {n} : step'[c] = step[c]
  BY DEF ClientInv, ClientTypeOK
<1>2. ClientTypeOK'
  BY DEF ClientInv, ClientTypeOK, Step
<1>3. ASSUME NEW c \in Calls PROVE Budget(c)'
  <2>1. CASE c = n
    BY <1>1, <2>1, RemainingFacts DEF Budget, Patience
  <2>2. CASE c # n
    <3>1. Budget(c)
      BY DEF ClientInv
    <3> QED BY <1>1, <2>2, <3>1 DEF Budget, Patience
  <2> QED BY <2>1, <2>2
<1>4. TrialLeads'
  <2>1. trial # NoCall => trial \in Calls \ {n}
    BY DEF ClientInv, ClientTypeOK, TrialLeads
  <2>2. \A c \in Calls : step'[c] = "waiting" => c # n /\ step[c] = "waiting"
    BY <1>1
  <2> QED BY <1>1, <2>1, <2>2 DEF ClientInv, TrialLeads
<1>5. WaitersSettle'
  BY <1>1 DEF ClientInv, WaitersSettle, Settled
<1> QED BY <1>2, <1>3, <1>4, <1>5 DEF ClientInv

LEMMA ClientStep == ASSUME IInv, [Next]_vars PROVE ClientInv'
<1> USE DEF IInv
<1>1. ASSUME NEW n \in Connections, AskForRate(n) PROVE ClientInv'
  <2>1. place[n] = "working" /\ step' = [step EXCEPT ![n] = "entering"]
        /\ UNCHANGED <<attempt, timer, age, waited, breaker>>
    BY <1>1 DEF AskForRate, Move
  <2>2. step[n] = "none" /\ age[n] = 0 /\ ~waited[n]
    BY <2>1 DEF CallsMatchPlaces, Connections
  <2>3. attempt \in [Calls -> Attempt] /\ age \in [Calls -> Nat] /\ waited \in [Calls -> BOOLEAN]
    BY DEF ClientInv, ClientTypeOK
  <2> QED BY <2>1, <2>2, <2>3, OneClient DEF Connections
<1>2. ASSUME NEW n \in Connections, EndTransaction(n) PROVE ClientInv'
  <2>1. CASE step[n] = "ended" /\ step' = [step EXCEPT ![n] = "none"]
             /\ attempt' = [attempt EXCEPT ![n] = 1] /\ age' = [age EXCEPT ![n] = 0]
             /\ waited' = [waited EXCEPT ![n] = FALSE]
    <3>1. attempt \in [Calls -> Attempt] /\ age \in [Calls -> Nat] /\ waited \in [Calls -> BOOLEAN]
          /\ 1 \in Attempt
      BY RemainingFacts DEF ClientInv, ClientTypeOK, Attempt
    <3>2. UNCHANGED <<timer, breaker>>
      BY <1>2 DEF EndTransaction
    <3>3. /\ attempt' \in [Calls -> Attempt] /\ age' \in [Calls -> Nat]
          /\ waited' \in [Calls -> BOOLEAN] /\ age'[n] = 0 /\ ~waited'[n]
          /\ \A c \in Calls \ {n} : age'[c] = age[c] /\ waited'[c] = waited[c] /\ attempt'[c] = attempt[c]
      BY <2>1, <3>1 DEF Connections
    <3> QED BY <2>1, <3>2, <3>3, OneClient DEF Connections
  <2>2. CASE UNCHANGED <<step, attempt, age, waited>>
    <3>1. UNCHANGED clientVars
      BY <1>2, <2>2 DEF EndTransaction, clientVars, call
    <3> QED BY <3>1, SameClient
  <2> QED BY <1>2, <2>1, <2>2 DEF EndTransaction
<1>3. ASSUME NEW n \in Connections, RateCall(n) PROVE ClientInv'
  BY <1>3, CallKeepsInv DEF RateCall, Connections
<1>4. CASE Tick
  BY <1>4, TickKeepsInv DEF Tick
<1>5. ASSUME NEW n \in Connections, Goes(n) \/ Abort(n) \/ Responds(n) \/ Probe(n) \/ Queries(n)
      PROVE  ClientInv'
  <2>1. UNCHANGED clientVars
    BY <1>5 DEF Goes, Connect, Arrive, Disconnect, Claim, Begin, Abort, Responds, Save,
                MeetClosedRedis, ProbeTimesOut, ProbeAnswers, Respond, Probe, Queries,
                QueryStarts, QueryEnds
  <2> QED BY <2>1, SameClient
<1>6. CASE \/ Signal \/ CloseStep \/ Exit \/ ForceExit \/ CloseFails \/ UNCHANGED vars
           \/ \E server \in {"postgres", "redis", "tracing"} : Hang(server)
  <2>1. UNCHANGED clientVars
    BY <1>6 DEF Signal, CloseStep, Exit, ForceExit, CloseFails, Hang, vars
  <2> QED BY <2>1, SameClient
<1> QED BY <1>1, <1>2, <1>3, <1>4, <1>5, <1>6, NextCases DEF Handles

-----------------------------------------------------------------------------
(* The process *)

LEMMA NextStage ==
  ASSUME NEW c \in Closing
  PROVE  /\ Next1[c] \in {"postgres", "redis", "tracing", "done"}
         /\ c = "http" => Next1[c] = "postgres"
         /\ Next1[c] \in {"redis", "tracing", "done"} => c # "http"
         /\ Next1[c] = "redis" => c = "postgres"
         /\ Next1[c] = "postgres" => c = "http"
<1>1. CASE c = "http"
  BY <1>1 DEF Next1
<1>2. CASE c = "postgres"
  BY <1>2 DEF Next1
<1>3. CASE c = "redis"
  BY <1>3 DEF Next1
<1>4. CASE c = "tracing"
  BY <1>4 DEF Next1
<1> QED BY <1>1, <1>2, <1>3, <1>4 DEF Closing

LEMMA TypeStep == ASSUME IInv, [Next]_vars PROVE TypeOK'
<1>1. ClientTypeOK'
  BY ClientStep DEF ClientInv
<1> DEFINE Place == InFlight \cup Idle \cup {"none"}
           Handlers == place' \in [Connections -> Place] /\ gone' \subseteq Connections
           Probes == /\ probe' \in [Connections -> 0..READINESS_CHECK_TIMEOUT]
                     /\ query' \in [Connections -> {"none", "waiting", "running"}]
           Ending == /\ hung' \subseteq {"postgres", "redis", "tracing"}
                     /\ closing' \in Closing \cup {"no", "done"}
                     /\ force' \in 0..SHUTDOWN_TIMEOUT
                     /\ exitCode' \in {0, 1}
                     /\ exit' \in {"running", "clean", "unclean", "forced"}
           Note == delayed' \in BOOLEAN
<1> SUFFICES Handlers /\ Probes /\ Ending /\ Note
  BY <1>1 DEF TypeOK
<1>2. place \in [Connections -> Place] /\ gone \subseteq Connections
  BY DEF IInv, TypeOK
<1>3. /\ probe \in [Connections -> 0..READINESS_CHECK_TIMEOUT]
      /\ query \in [Connections -> {"none", "waiting", "running"}]
  BY DEF IInv, TypeOK
<1>4. /\ hung \subseteq {"postgres", "redis", "tracing"}
      /\ closing \in Closing \cup {"no", "done"}
      /\ force \in 0..SHUTDOWN_TIMEOUT
      /\ exitCode \in {0, 1}
      /\ exit \in {"running", "clean", "unclean", "forced"}
  BY DEF IInv, TypeOK
<1>5. delayed \in BOOLEAN
  BY DEF IInv, TypeOK
<1> USE DEF InFlight, Idle
<1>6. UNCHANGED handlers => Handlers
  BY <1>2 DEF handlers
<1>7. UNCHANGED probes => Probes
  BY <1>3 DEF probes
<1>8. UNCHANGED <<hung, closing, force, exitCode, exit>> => Ending
  BY <1>4
<1>9. delayed' = delayed => Note
  BY <1>5
<1> HIDE DEF Handlers, Probes, Ending, Note
<1>10. ASSUME NEW n \in Connections, Goes(n) \/ Abort(n) \/ AskForRate(n)
       PROVE  Handlers /\ Probes /\ Ending /\ Note
  <2>1. UNCHANGED <<probes, hung, shutdown>>
    BY <1>10 DEF Goes, Connect, Arrive, Disconnect, Claim, Begin, Abort, AskForRate
  <2>2. Handlers
    BY <1>2, <1>10 DEF Goes, Connect, Arrive, Disconnect, Claim, Begin, Abort, AskForRate,
                       Move, Handlers
  <2> QED BY <1>7, <1>8, <1>9, <2>1, <2>2 DEF shutdown
<1>11. ASSUME NEW n \in Connections, EndTransaction(n) PROVE Handlers /\ Probes /\ Ending /\ Note
  <2>1. Note
    BY <1>5, <1>11 DEF EndTransaction, Note
  <2>2. Handlers
    BY <1>2, <1>11 DEF EndTransaction, Move, Handlers
  <2>3. UNCHANGED <<probes, hung, closing, force, exitCode, exit>>
    BY <1>11 DEF EndTransaction
  <2> QED BY <1>7, <1>8, <2>1, <2>2, <2>3
<1>12. ASSUME NEW n \in Connections, Responds(n) PROVE Handlers /\ Probes /\ Ending /\ Note
  <2>1. PICK here \in InFlight : Respond(n, here)
    BY <1>12 DEF Responds, Save, MeetClosedRedis, ProbeTimesOut, ProbeAnswers
  <2>2. Note
    BY <1>5, <2>1 DEF Respond, Note
  <2>3. Handlers
    BY <1>2, <2>1 DEF Respond, Move, Handlers
  <2>4. UNCHANGED <<hung, closing, force, exitCode, exit>>
    BY <2>1 DEF Respond
  <2>5. Probes
    BY <1>3, <1>12, TimeFacts DEF Responds, Save, MeetClosedRedis, ProbeTimesOut, ProbeAnswers,
                                  probes, Probes
  <2> QED BY <1>8, <2>2, <2>3, <2>4, <2>5
<1>13. ASSUME NEW n \in Connections, Probe(n) PROVE Handlers /\ Probes /\ Ending /\ Note
  <2>1. Handlers
    BY <1>2, <1>13 DEF Probe, Move, Handlers
  <2>2. Probes
    BY <1>3, <1>13, TimeFacts DEF Probe, Probes
  <2>3. UNCHANGED <<hung, shutdown>>
    BY <1>13 DEF Probe
  <2> QED BY <1>8, <1>9, <2>1, <2>2, <2>3 DEF shutdown
<1>14. ASSUME NEW n \in Connections, Queries(n) PROVE Handlers /\ Probes /\ Ending /\ Note
  <2>1. Note
    BY <1>5, <1>14 DEF Queries, QueryStarts, QueryEnds, shutdown, Note
  <2>2. Probes
    BY <1>3, <1>14 DEF Queries, QueryStarts, QueryEnds, Probes
  <2>3. UNCHANGED <<handlers, hung, closing, force, exitCode, exit>>
    BY <1>14 DEF Queries, QueryStarts, QueryEnds, shutdown
  <2> QED BY <1>6, <1>8, <2>1, <2>2, <2>3
<1>15. CASE Signal
  <2>1. Handlers /\ UNCHANGED <<probes, delayed>>
    BY <1>2, <1>15 DEF Signal, Handlers
  <2>2. Ending
    BY <1>4, <1>15, TimeFacts DEF Signal, Closing, Ending
  <2> QED BY <1>7, <1>9, <2>1, <2>2
<1>16. CASE CloseStep \/ CloseFails
  <2>1. closing \in Closing
    BY <1>16 DEF CloseStep, CloseFails, CanClose, Closing
  <2>2. closing' \in Closing \cup {"done"}
    BY <1>16, <2>1, NextStage DEF CloseStep, CloseFails, Closing
  <2>3. Ending
    BY <1>4, <1>16, <2>2 DEF CloseStep, CloseFails, Ending
  <2>4. UNCHANGED <<handlers, probes, delayed>>
    BY <1>16 DEF CloseStep, CloseFails, process
  <2> QED BY <1>6, <1>7, <1>9, <2>3, <2>4
<1>17. CASE Exit \/ ForceExit
  <2>1. Ending
    BY <1>4, <1>17 DEF Exit, ForceExit, Ending
  <2>2. UNCHANGED <<handlers, probes, delayed>>
    BY <1>17 DEF Exit, ForceExit, process
  <2> QED BY <1>6, <1>7, <1>9, <2>1, <2>2
<1>18. ASSUME NEW server \in {"postgres", "redis", "tracing"}, Hang(server)
       PROVE  Handlers /\ Probes /\ Ending /\ Note
  <2>1. Ending
    BY <1>4, <1>18 DEF Hang, shutdown, Ending
  <2>2. UNCHANGED <<handlers, probes, delayed>>
    BY <1>18 DEF Hang, process, shutdown
  <2> QED BY <1>6, <1>7, <1>9, <2>1, <2>2
<1>19. CASE Tick
  <2>1. \A n \in Connections : Less1(probe[n]) \in 0..READINESS_CHECK_TIMEOUT
    BY <1>3, TimeFacts DEF Less1
  <2>2. Less1(force) \in 0..SHUTDOWN_TIMEOUT
    BY <1>4, TimeFacts DEF Less1
  <2>3. Handlers
    BY <1>2, <1>19 DEF Tick, Handlers
  <2>4. Probes
    BY <1>3, <1>19, <2>1 DEF Tick, Probes
  <2>5. Ending
    BY <1>4, <1>19, <2>2 DEF Tick, Ending
  <2>6. Note
    BY <1>5, <1>19 DEF Tick, Note
  <2> QED BY <2>3, <2>4, <2>5, <2>6
<1>20. CASE UNCHANGED vars \/ \E n \in Connections : RateCall(n)
  <2>1. UNCHANGED <<handlers, probes, hung, shutdown>>
    BY <1>20 DEF vars, process, RateCall
  <2> QED BY <1>6, <1>7, <1>8, <1>9, <2>1 DEF shutdown
<1> QED BY <1>10, <1>11, <1>12, <1>13, <1>14, <1>15, <1>16, <1>17, <1>18, <1>19, <1>20,
           NextCases DEF Handles

LEMMA CallsStep == ASSUME IInv, [Next]_vars PROVE CallsMatchPlaces'
<1> USE DEF IInv, Connections
<1>1. /\ place \in [Calls -> InFlight \cup Idle \cup {"none"}]
      /\ step \in [Calls -> Step] /\ age \in [Calls -> Nat] /\ waited \in [Calls -> BOOLEAN]
  BY DEF TypeOK, ClientInv, ClientTypeOK
<1>2. \A n \in Calls : /\ place[n] = "rating" <=> step[n] # "none"
                       /\ step[n] = "none" => age[n] = 0 /\ ~waited[n]
                       /\ n \in gone => place[n] \in InFlight
  BY DEF CallsMatchPlaces
<1>3. ASSUME NEW n \in Calls, Goes(n) \/ Probe(n) PROVE CallsMatchPlaces'
  <2>1. UNCHANGED <<step, age, waited, gone>>
    BY <1>3 DEF Goes, Connect, Arrive, Disconnect, Claim, Begin, Probe, clientVars, call
  <2>2. /\ place[n] # "rating" /\ place'[n] # "rating"
        /\ place[n] \in InFlight => place'[n] \in InFlight
        /\ \A m \in Calls \ {n} : place'[m] = place[m]
    BY <1>1, <1>3 DEF Goes, Connect, Arrive, Disconnect, Claim, Begin, Probe, Move, InFlight
  <2> QED BY <1>2, <2>1, <2>2 DEF CallsMatchPlaces
<1>4. ASSUME NEW n \in Calls, Responds(n) PROVE CallsMatchPlaces'
  <2>1. PICK here \in {"claiming", "saving", "probing"} : Respond(n, here)
    BY <1>4 DEF Responds, Save, MeetClosedRedis, ProbeTimesOut, ProbeAnswers
  <2>2. UNCHANGED <<step, age, waited>> /\ gone' = gone \ {n}
    BY <2>1 DEF Respond, clientVars, call
  <2>3. /\ place[n] # "rating" /\ place'[n] # "rating"
        /\ \A m \in Calls \ {n} : place'[m] = place[m]
    BY <1>1, <2>1 DEF Respond, Move
  <2> QED BY <1>2, <2>2, <2>3 DEF CallsMatchPlaces
<1>5. ASSUME NEW n \in Calls, Abort(n) PROVE CallsMatchPlaces'
  <2>1. UNCHANGED <<step, age, waited, place>> /\ gone' = gone \cup {n} /\ place[n] \in InFlight
    BY <1>5 DEF Abort, clientVars, call
  <2> QED BY <1>2, <2>1 DEF CallsMatchPlaces
<1>6. ASSUME NEW n \in Calls, AskForRate(n) PROVE CallsMatchPlaces'
  BY <1>1, <1>2, <1>6 DEF AskForRate, Move, CallsMatchPlaces, InFlight
<1>7. ASSUME NEW n \in Calls, EndTransaction(n) PROVE CallsMatchPlaces'
  BY <1>1, <1>2, <1>7 DEF EndTransaction, Move, CallsMatchPlaces, InFlight
<1>8. ASSUME NEW n \in Calls, RateCall(n) PROVE CallsMatchPlaces'
  <2>1. UNCHANGED <<place, gone>> /\ CallProceeds(n)
    BY <1>8 DEF RateCall, process, handlers
  <2>2. /\ step[n] # "none" /\ step'[n] # "none"
        /\ \A m \in Calls \ {n} : step'[m] = step[m] /\ age'[m] = age[m] /\ waited'[m] = waited[m]
    BY <1>1, <2>1 DEF CallProceeds, Admit, Reject, Try, Await, Resume, Succeed, Refuse,
                      AttemptFails, BackoffEnds, Fetch, Pass, CallSucceeds, CallFails,
                      CallRefused, Done
  <2> QED BY <1>2, <2>1, <2>2 DEF CallsMatchPlaces
<1>9. CASE Tick
  <2>1. UNCHANGED <<step, waited, gone>> /\ \A m \in Calls : step[m] = "none" => age'[m] = age[m]
    BY <1>9 DEF Tick, ClientTick
  <2>2. \A m \in Calls : /\ place'[m] = "rating" <=> place[m] = "rating"
                         /\ place[m] \in InFlight => place'[m] = place[m]
    BY <1>9 DEF Tick, InFlight
  <2> QED BY <1>2, <2>1, <2>2 DEF CallsMatchPlaces
<1>10. CASE Signal
  <2>1. UNCHANGED <<step, age, waited, gone>>
    BY <1>10 DEF Signal, clientVars, call
  <2>2. \A m \in Calls : /\ place'[m] = "rating" <=> place[m] = "rating"
                         /\ place[m] \in InFlight => place'[m] = place[m]
    BY <1>10 DEF Signal, Idle, InFlight
  <2> QED BY <1>2, <2>1, <2>2 DEF CallsMatchPlaces
<1>11. CASE \/ CloseStep \/ Exit \/ ForceExit \/ CloseFails \/ UNCHANGED vars
            \/ \E n \in Calls : Queries(n)
            \/ \E server \in {"postgres", "redis", "tracing"} : Hang(server)
  <2>1. UNCHANGED <<step, age, waited, place, gone>>
    BY <1>11 DEF CloseStep, Exit, ForceExit, CloseFails, Queries, QueryStarts, QueryEnds, Hang,
                 vars, clientVars, call, process, handlers
  <2> QED BY <1>2, <2>1 DEF CallsMatchPlaces
<1> QED BY <1>3, <1>4, <1>5, <1>6, <1>7, <1>8, <1>9, <1>10, <1>11, NextCases DEF Handles

-----------------------------------------------------------------------------
(* Shutdown *)

Held == InTransaction \cup Querying

\* The steps of the shutdown itself.
LEMMA Closes ==
  ASSUME CloseStep \/ CloseFails
  PROVE  /\ closing \in Closing /\ closing' = Next1[closing] /\ exit = "running"
         /\ closing = "http" => \A n \in Connections : place[n] # "none" => n \in gone
         /\ closing = "postgres" => Held = {} \/ exitCode' = 1
         /\ exitCode' \in {exitCode, 1}
         /\ UNCHANGED <<clientVars, process, hung, force, exit, delayed>>
<1>1. closing \in Closing
  BY DEF CloseStep, CloseFails, CanClose, Closing
<1> QED BY <1>1 DEF CloseStep, CloseFails, CanClose, Held

\* One connection's step leaves the shutdown and the other connections alone.
LEMMA OthersStay ==
  ASSUME IInv, NEW n \in Connections, Handles(n)
  PROVE  /\ UNCHANGED <<closing, force, hung, exitCode, exit>> /\ exit = "running"
         /\ \A m \in Connections \ {n} :
              /\ place'[m] = place[m] /\ probe'[m] = probe[m] /\ query'[m] = query[m]
              /\ m \in gone' <=> m \in gone
              /\ step'[m] = step[m] /\ age'[m] = age[m] /\ waited'[m] = waited[m]
<1> USE DEF Handles
<1>1. UNCHANGED <<closing, force, hung, exitCode, exit>> /\ exit = "running"
  BY DEF Goes, Connect, Arrive, Disconnect, Claim, Begin, Abort, AskForRate, EndTransaction,
         Responds, Save, MeetClosedRedis, ProbeTimesOut, ProbeAnswers, Respond, Move, Probe,
         RateCall, Queries, QueryStarts, QueryEnds, shutdown
<1>2. \A m \in Connections \ {n} :
        place'[m] = place[m] /\ (m \in gone' <=> m \in gone)
  BY DEF Goes, Connect, Arrive, Disconnect, Claim, Begin, Abort, AskForRate, EndTransaction,
         Responds, Save, MeetClosedRedis, ProbeTimesOut, ProbeAnswers, Respond, Probe, Move,
         RateCall, Queries, QueryStarts, QueryEnds, process, handlers, IInv, TypeOK
<1>3. \A m \in Connections \ {n} : probe'[m] = probe[m] /\ query'[m] = query[m]
  BY DEF Goes, Connect, Arrive, Disconnect, Claim, Begin, Abort, AskForRate, EndTransaction,
         Responds, Save, MeetClosedRedis, ProbeTimesOut, ProbeAnswers, Probe,
         RateCall, Queries, QueryStarts, QueryEnds, process, probes, IInv, TypeOK
<1>4. ASSUME NEW m \in Connections \ {n}
      PROVE  step'[m] = step[m] /\ age'[m] = age[m] /\ waited'[m] = waited[m]
  <2> USE DEF Connections
  <2>1. /\ step \in [Calls -> Step] /\ age \in [Calls -> Nat] /\ waited \in [Calls -> BOOLEAN]
    BY DEF IInv, ClientInv, ClientTypeOK
  <2>2. CASE RateCall(n)
    BY <2>1, <2>2 DEF RateCall, CallProceeds, Admit, Reject, Try, Await, Resume, Succeed, Refuse,
                      AttemptFails, BackoffEnds, Fetch, Pass, CallSucceeds, CallFails,
                      CallRefused, Done
  <2>3. CASE AskForRate(n) \/ EndTransaction(n)
    BY <2>1, <2>3 DEF AskForRate, EndTransaction
  <2>4. CASE Goes(n) \/ Abort(n) \/ Responds(n) \/ Probe(n) \/ Queries(n)
    BY <2>4 DEF Goes, Connect, Arrive, Disconnect, Claim, Begin, Abort, Responds, Save,
                MeetClosedRedis, ProbeTimesOut, ProbeAnswers, Respond, Probe, Queries,
                QueryStarts, QueryEnds, clientVars, call
  <2> QED BY <2>2, <2>3, <2>4
<1> QED BY <1>1, <1>2, <1>3, <1>4

\* A pool that is ending hands out no client, and takes back those it handed out.
LEMMA EndingPool ==
  ASSUME IInv, PoolEnding, NEW n \in Connections, Handles(n)
  PROVE  Held' \subseteq Held
<1> USE DEF Handles, IInv
<1>1. /\ \A m \in Connections \ {n} : place'[m] = place[m] /\ query'[m] = query[m]
      /\ place \in [Connections -> InFlight \cup Idle \cup {"none"}]
      /\ query \in [Connections -> {"none", "waiting", "running"}]
  BY OthersStay DEF TypeOK
<1>2. place'[n] \in {"working", "rating"} => place[n] \in {"working", "rating"}
  BY <1>1 DEF Goes, Connect, Arrive, Disconnect, Claim, Begin, Abort, AskForRate, EndTransaction,
              Responds, Save, MeetClosedRedis, ProbeTimesOut, ProbeAnswers, Respond, Probe, Move,
              RateCall, Queries, QueryStarts, QueryEnds, process, handlers, ClientFree
<1>3. query'[n] = "running" => query[n] = "running"
  BY <1>1 DEF Goes, Connect, Arrive, Disconnect, Claim, Begin, Abort, AskForRate, EndTransaction,
              Responds, Save, MeetClosedRedis, ProbeTimesOut, ProbeAnswers, Probe,
              RateCall, Queries, QueryStarts, QueryEnds, process, probes, ClientFree
<1> QED BY <1>1, <1>2, <1>3 DEF Held, InTransaction, Querying

\* Only handlers that nobody waits for are left once the HTTP server has
\* closed, and the pool outlives whoever has a client of it.
LEMMA OutliveStep == ASSUME IInv, [Next]_vars PROVE DependenciesOutliveRequests' /\ PoolIsDrained'
<1> USE DEF IInv
<1> DEFINE Late == {"postgres", "redis", "tracing", "done"}
           Drained(c) == c \in {"redis", "tracing", "done"}
<1>1. /\ closing \in Late => \A n \in Connections : place[n] # "none" => n \in gone
      /\ exit = "clean" => Held = {}
      /\ Drained(closing) /\ exitCode = 0 => Held = {}
  BY DEF DependenciesOutliveRequests, PoolIsDrained, PoolEnding, RedisClosed, Held
<1>2. /\ closing \in Closing \cup {"no", "done"}
      /\ place \in [Connections -> InFlight \cup Idle \cup {"none"}] /\ exitCode \in {0, 1}
      /\ \A n \in Connections : n \in gone => place[n] \in InFlight
  BY DEF TypeOK, CallsMatchPlaces
<1>3. SUFFICES
        /\ closing' \in Late => \A n \in Connections : place'[n] # "none" => n \in gone'
        /\ exit' = "clean" => Held' = {}
        /\ Drained(closing') /\ exitCode' = 0 => Held' = {}
  BY DEF DependenciesOutliveRequests, PoolIsDrained, PoolEnding, RedisClosed, Held
<1>4. ASSUME NEW n \in Connections, Handles(n)
      PROVE  /\ closing' \in Late => \A m \in Connections : place'[m] # "none" => m \in gone'
             /\ exit' = "clean" => Held' = {}
             /\ Drained(closing') /\ exitCode' = 0 => Held' = {}
  <2>1. /\ exit = "running" /\ UNCHANGED <<closing, exit, exitCode>>
        /\ \A m \in Connections \ {n} : place'[m] = place[m] /\ (m \in gone' <=> m \in gone)
    BY <1>4, OthersStay
  <2>2. closing \in Late => Held' \subseteq Held
    BY <1>4, EndingPool DEF PoolEnding
  <2>3. ASSUME closing \in Late PROVE place'[n] # "none" => n \in gone'
    <3>1. ~Listening /\ (place[n] # "none" => n \in gone) /\ place[n] \notin Idle
      BY <1>1, <1>2, <2>3 DEF Listening, Idle, InFlight
    <3>2. CASE Goes(n) \/ AskForRate(n) \/ EndTransaction(n) \/ Probe(n)
      BY <3>1, <3>2 DEF Goes, Connect, Arrive, Disconnect, Claim, Begin, AskForRate,
                        EndTransaction, Probe, Move, Idle
    <3>3. CASE Responds(n)
      <4>1. PICK here \in InFlight : Respond(n, here)
        BY <3>3 DEF Responds, Save, MeetClosedRedis, ProbeTimesOut, ProbeAnswers, InFlight
      <4>2. n \in gone
        BY <3>1, <4>1 DEF Respond, Move, InFlight
      <4> QED BY <1>2, <4>1, <4>2 DEF Respond, Move
    <3>4. CASE Abort(n) \/ RateCall(n) \/ Queries(n)
      BY <3>1, <3>4 DEF Abort, RateCall, Queries, QueryStarts, QueryEnds, process, handlers
    <3> QED BY <1>4, <3>2, <3>3, <3>4 DEF Handles
  <2>4. closing' \in Late => \A m \in Connections : place'[m] # "none" => m \in gone'
    BY <1>1, <2>1, <2>3
  <2> QED BY <1>1, <2>1, <2>2, <2>4
<1>5. CASE CloseStep \/ CloseFails
  <2>1. /\ closing \in Closing /\ closing' = Next1[closing] /\ exit = "running"
        /\ closing = "http" => \A n \in Connections : place[n] # "none" => n \in gone
        /\ closing = "postgres" => Held = {} \/ exitCode' = 1
        /\ exitCode' \in {exitCode, 1}
        /\ UNCHANGED <<place, gone, query, exit>>
    BY <1>5, Closes DEF process, handlers, probes
  <2>2. \A n \in Connections : place'[n] # "none" => n \in gone'
    BY <1>1, <2>1 DEF Closing
  <2>3. Held' = Held
    BY <2>1 DEF Held, InTransaction, Querying
  <2>4. Drained(closing') /\ exitCode' = 0 => Held' = {}
    BY <1>1, <1>2, <2>1, <2>3, NextStage DEF Closing
  <2> QED BY <2>1, <2>2, <2>4
<1>6. CASE Signal \/ Tick
  <2>1. /\ closing' \in Late => closing' = closing
        /\ \A n \in Connections : /\ place[n] = "none" => place'[n] = "none"
                                  /\ place'[n] \in {"working", "rating"} <=> place[n] \in {"working", "rating"}
        /\ UNCHANGED <<gone, query, exitCode, exit>>
    BY <1>2, <1>6 DEF Signal, Tick, Idle, probes
  <2>2. exit = "running"
    BY <1>6 DEF Signal, Tick
  <2>3. Held' = Held
    BY <2>1 DEF Held, InTransaction, Querying
  <2> QED BY <1>1, <2>1, <2>2, <2>3
<1>7. CASE Exit \/ ForceExit
  <2>1. UNCHANGED <<place, gone, query, closing, exitCode>>
    BY <1>7 DEF Exit, ForceExit, process, handlers, probes
  <2>2. Held' = Held
    BY <2>1 DEF Held, InTransaction, Querying
  <2>3. exit' = "clean" => exitCode = 0 /\ closing = "done"
    BY <1>7 DEF Exit, ForceExit
  <2> QED BY <1>1, <2>1, <2>2, <2>3
<1>8. CASE \/ UNCHANGED vars
           \/ \E server \in {"postgres", "redis", "tracing"} : Hang(server)
  <2>1. UNCHANGED <<place, gone, query, closing, exitCode, exit>>
    BY <1>8 DEF vars, Hang, process, handlers, probes, shutdown
  <2>2. Held' = Held
    BY <2>1 DEF Held, InTransaction, Querying
  <2> QED BY <1>1, <2>1, <2>2
<1> QED BY <1>4, <1>5, <1>6, <1>7, <1>8, NextCases

\* What every step does to the history: it is never rewritten.
LEMMA HinderedStays ==
  ASSUME [Next]_vars, Unhindered'
  PROVE  Unhindered
<1> USE DEF Unhindered
<1>1. ASSUME NEW n \in Connections, Handles(n) PROVE Unhindered
  <2>1. CASE Goes(n) \/ Abort(n) \/ AskForRate(n) \/ Probe(n) \/ RateCall(n)
    <3>1. hung' = hung /\ delayed' = delayed
      BY <2>1 DEF Goes, Connect, Arrive, Disconnect, Claim, Begin, Abort, AskForRate, Probe,
                  RateCall, shutdown
    <3> QED BY <3>1
  <2>2. CASE EndTransaction(n)
    <3>1. hung' = hung
      BY <2>2 DEF EndTransaction
    <3>2. CASE UNCHANGED delayed
      BY <3>1, <3>2
    <3>3. CASE delayed' = (delayed \/ (~Listening /\ waited[n]))
      <4>1. delayed => delayed'
        BY <3>3, Zenon
      <4> QED BY <3>1, <4>1
    <3> QED BY <2>2, <3>2, <3>3 DEF EndTransaction
  <2>3. CASE Responds(n)
    <3>1. hung' = hung /\ (delayed => delayed')
      BY <2>3 DEF Responds, Save, MeetClosedRedis, ProbeTimesOut, ProbeAnswers, Respond
    <3> QED BY <3>1
  <2>4. CASE Queries(n)
    <3>1. hung' = hung
      BY <2>4 DEF Queries, QueryStarts, QueryEnds
    <3>2. CASE UNCHANGED delayed
      BY <3>1, <3>2
    <3>3. CASE delayed' = (delayed \/ (~Listening /\ place[n] # "probing"))
      <4>1. delayed => delayed'
        BY <3>3, Zenon
      <4> QED BY <3>1, <4>1
    <3> QED BY <2>4, <3>2, <3>3 DEF Queries, QueryStarts, QueryEnds, shutdown
  <2> QED BY <1>1, <2>1, <2>2, <2>3, <2>4 DEF Handles
<1>2. CASE Signal \/ CloseStep \/ Exit \/ ForceExit \/ CloseFails \/ UNCHANGED vars
  <2>1. hung' = hung /\ delayed' = delayed
    BY <1>2 DEF Signal, CloseStep, Exit, ForceExit, CloseFails, vars, shutdown
  <2> QED BY <2>1
<1>3. CASE Tick
  <2>1. hung' = hung /\ (delayed => delayed')
    BY <1>3 DEF Tick
  <2> QED BY <2>1
<1>4. CASE \E server \in {"postgres", "redis", "tracing"} : Hang(server)
  BY <1>4 DEF Hang
<1> QED BY <1>1, <1>2, <1>3, <1>4, NextCases

\* A process that has ended does nothing.
LEMMA OnlyWhileRunning == ASSUME IInv, [Next]_vars, exit # "running" PROVE UNCHANGED vars
<1>1. ASSUME NEW n \in Connections, Handles(n) PROVE FALSE
  BY <1>1, OthersStay
<1>2. CASE \/ Signal \/ CloseStep \/ Exit \/ ForceExit \/ CloseFails \/ Tick
           \/ \E server \in {"postgres", "redis", "tracing"} : Hang(server)
  BY <1>2 DEF Signal, CloseStep, Exit, ForceExit, CloseFails, Tick, Hang
<1> QED BY <1>1, <1>2, NextCases

\* A leaked query that ends leaves its mark.
LEMMA LeakedStays ==
  ASSUME IInv, [Next]_vars, ~Listening, Unhindered', Leaked' = {}
  PROVE  Leaked = {}
<1> USE DEF IInv
<1>1. SUFFICES ASSUME NEW m \in Leaked PROVE FALSE
  OBVIOUS
<1>2. /\ m \in Connections /\ query[m] = "running" /\ place[m] # "probing"
      /\ place \in [Connections -> InFlight \cup Idle \cup {"none"}]
      /\ query \in [Connections -> {"none", "waiting", "running"}]
  BY <1>1 DEF Leaked, Querying, TypeOK
<1>3. ~(query'[m] = "running" /\ place'[m] # "probing")
  BY <1>2 DEF Leaked, Querying
<1>4. ASSUME NEW n \in Connections, Handles(n) PROVE FALSE
  <2>1. n = m
    BY <1>2, <1>3, <1>4, OthersStay
  <2>2. CASE Goes(n) \/ Abort(n) \/ AskForRate(n) \/ EndTransaction(n) \/ RateCall(n)
    BY <1>2, <1>3, <2>1, <2>2 DEF Goes, Connect, Arrive, Disconnect, Claim, Begin, Abort,
         AskForRate, EndTransaction, RateCall, Move, process, handlers, probes
  <2>3. CASE Responds(n)
    BY <1>2, <1>3, <2>1, <2>3 DEF Responds, Save, MeetClosedRedis, ProbeTimesOut, ProbeAnswers,
         Respond, Move, probes
  <2>4. CASE Probe(n) \/ QueryStarts(n)
    BY <1>2, <2>1, <2>4 DEF Probe, QueryStarts
  <2>5. CASE QueryEnds(n)
    <3>1. delayed'
      BY <1>2, <2>1, <2>5 DEF QueryEnds
    <3> QED BY <3>1 DEF Unhindered
  <2> QED BY <1>4, <2>2, <2>3, <2>4, <2>5 DEF Handles, Queries
<1>5. CASE Signal \/ Tick
  BY <1>2, <1>3, <1>5 DEF Signal, Tick, probes
<1>6. CASE \/ CloseStep \/ CloseFails \/ Exit \/ ForceExit \/ UNCHANGED vars
           \/ \E server \in {"postgres", "redis", "tracing"} : Hang(server)
  <2>1. UNCHANGED <<place, query>>
    BY <1>6 DEF CloseStep, CloseFails, Exit, ForceExit, Hang, vars, process, handlers, probes
  <2> QED BY <1>2, <1>3, <2>1
<1> QED BY <1>4, <1>5, <1>6, NextCases

\* What the timer covers, of one connection.
Covered(m) ==
  /\ place[m] \notin Idle
  /\ place[m] \in {"claiming", "working"} => force = SHUTDOWN_TIMEOUT
  /\ place[m] = "connecting" /\ closing = "http" => force = SHUTDOWN_TIMEOUT
  /\ place[m] = "rating" /\ step[m] # "ended" /\ ~waited[m] => force + age[m] > CallBound
  /\ place[m] = "probing" => force > probe[m]

LEMMA DrainsStep == ASSUME IInv, [Next]_vars PROVE Drains'
<1> USE DEF IInv, Connections
<1> DEFINE Draining == {"http", "postgres"}
<1>1. /\ place \in [Calls -> InFlight \cup Idle \cup {"none"}]
      /\ probe \in [Calls -> 0..READINESS_CHECK_TIMEOUT]
      /\ force \in Nat /\ closing \in Closing \cup {"no", "done"}
      /\ step \in [Calls -> Step] /\ age \in [Calls -> Nat] /\ waited \in [Calls -> BOOLEAN]
  BY DEF TypeOK, ClientInv, ClientTypeOK
<1>2. SUFFICES ASSUME closing' \in Draining, Unhindered', NEW m \in Calls PROVE Covered(m)'
  BY DEF Drains, Covered
<1>3. Unhindered
  BY <1>2, HinderedStays
<1>4. CASE Signal
  <2>1. /\ force' = SHUTDOWN_TIMEOUT
        /\ place'[m] = IF place[m] \in Idle THEN "none" ELSE place[m]
        /\ UNCHANGED <<step, age, waited, probe>>
    BY <1>4 DEF Signal, clientVars, call, probes
  <2> QED BY <1>1, <2>1, TimeFacts, RemainingFacts DEF Covered, Idle
<1>5. ASSUME closing \in Draining PROVE Covered(m)
  BY <1>3, <1>5 DEF Drains, Covered
<1>6. ASSUME NEW n \in Calls, Handles(n) PROVE Covered(m)'
  <2>1. closing \in Draining /\ closing' = closing /\ force' = force /\ Covered(m)
    BY <1>2, <1>5, <1>6, OthersStay
  <2>2. CASE m # n
    <3>1. /\ place'[m] = place[m] /\ probe'[m] = probe[m]
          /\ step'[m] = step[m] /\ age'[m] = age[m] /\ waited'[m] = waited[m]
      BY <1>6, <2>2, OthersStay
    <3> QED BY <2>1, <3>1 DEF Covered
  <2>3. CASE m = n
    <3>1. CASE Goes(n) \/ Probe(n)
      <4>1. \/ place[n] = "claiming" /\ place'[n] = "connecting"
            \/ place[n] = "claiming" /\ place'[n] = "saving"
            \/ place[n] \in {"claiming", "connecting"} /\ place'[n] = "working" /\ closing = "http"
        BY <1>1, <2>1, <2>3, <3>1 DEF Goes, Connect, Arrive, Disconnect, Claim, Begin, Probe, Move,
                                       Listening, ClientFree, PoolEnding, Covered, Idle
      <4> QED BY <2>1, <2>3, <4>1 DEF Covered, Idle
    <3>2. CASE AskForRate(n)
      <4>1. place[n] = "working" /\ place'[n] = "rating" /\ age' = age
        BY <1>1, <3>2 DEF AskForRate, Move
      <4>2. age[n] = 0
        BY <4>1 DEF CallsMatchPlaces
      <4> QED BY <2>1, <2>3, <4>1, <4>2, TimeFacts, RemainingFacts DEF Covered, Idle
    <3>3. CASE EndTransaction(n)
      <4>1. place'[n] = "saving"
        BY <1>1, <3>3 DEF EndTransaction, Move
      <4> QED BY <2>3, <4>1 DEF Covered, Idle
    <3>4. CASE Responds(n)
      <4>1. PICK here \in InFlight : Respond(n, here)
        BY <3>4 DEF Responds, Save, MeetClosedRedis, ProbeTimesOut, ProbeAnswers, InFlight
      <4>2. /\ place'[n] \in {"answered", "none"}
            /\ place'[n] = "answered" /\ ~Listening => delayed'
        BY <1>1, <4>1 DEF Respond, Move
      <4>3. place'[n] = "none"
        BY <1>2, <2>1, <4>2 DEF Listening, Unhindered
      <4> QED BY <2>3, <4>3 DEF Covered, Idle
    <3>5. CASE RateCall(n)
      <4>1. UNCHANGED <<place, probe>> /\ CallProceeds(n)
        BY <3>5 DEF RateCall, process, handlers, probes
      <4>2. age'[n] = age[n] /\ step[n] # "ended" /\ (waited[n] => waited'[n])
        BY <1>1, <4>1 DEF CallProceeds, Admit, Reject, Try, Await, Resume, Succeed, Refuse,
                          AttemptFails, BackoffEnds, Fetch, Pass, CallSucceeds, CallFails,
                          CallRefused, Done
      <4> QED BY <2>1, <2>3, <4>1, <4>2 DEF Covered
    <3>6. CASE Abort(n) \/ Queries(n)
      <4>1. UNCHANGED <<place, probe, step, age, waited>>
        BY <3>6 DEF Abort, Queries, QueryStarts, QueryEnds, handlers, probes, clientVars, call
      <4> QED BY <2>1, <4>1 DEF Covered
    <3> QED BY <1>6, <3>1, <3>2, <3>3, <3>4, <3>5, <3>6 DEF Handles
  <2> QED BY <2>2, <2>3
<1>7. CASE Tick
  <2>1. /\ closing \in Draining /\ closing' = closing
        /\ force' = Less1(force) /\ probe'[m] = Less1(probe[m])
        /\ UNCHANGED <<step, waited>>
        /\ step[m] \notin {"none", "ended"} => age'[m] = age[m] + 1
        /\ ~PromptOwed(m)
    BY <1>2, <1>7 DEF Tick, ClientTick
  <2>2. Covered(m) /\ "redis" \notin hung /\ "postgres" \notin hung
    BY <1>3, <1>5, <2>1 DEF Unhindered
  <2>3. place'[m] = place[m]
    BY <1>7, <2>2 DEF Tick, Covered, Idle
  <2>4. place[m] \notin {"claiming", "working", "saving"} /\ (place[m] = "probing" => probe[m] > 0)
    BY <1>1, <2>1, <2>2 DEF PromptOwed
  <2>5. ~(place[m] = "connecting" /\ closing = "http")
    <3>1. place[m] = "connecting" /\ closing = "http" => delayed'
      BY <1>7 DEF Tick
    <3> QED BY <1>2, <3>1 DEF Unhindered
  <2>6. place[m] = "rating" => step[m] # "none"
    BY DEF CallsMatchPlaces
  <2>7. probe[m] \in Nat
    BY <1>1
  <2>8. Less1(force) \in Nat /\ Less1(force) >= force - 1 /\ (probe[m] > 0 => Less1(probe[m]) = probe[m] - 1)
    BY <1>1, <2>7, Less1Facts
  <2> QED BY <1>1, <2>1, <2>2, <2>3, <2>4, <2>5, <2>6, <2>7, <2>8, RemainingFacts DEF Covered, Idle
<1>8. CASE CloseStep \/ CloseFails
  <2>1. /\ closing \in Closing /\ closing' = Next1[closing]
        /\ UNCHANGED <<place, probe, step, age, waited, force>>
    BY <1>8, Closes DEF process, handlers, probes, clientVars, call
  <2>2. closing = "http" /\ closing' = "postgres"
    BY <1>2, <2>1, NextStage
  <2> QED BY <1>5, <2>1, <2>2 DEF Covered
<1>9. CASE Exit \/ ForceExit \/ UNCHANGED vars
           \/ \E server \in {"postgres", "redis", "tracing"} : Hang(server)
  <2>1. UNCHANGED <<place, probe, step, age, waited, force, closing>>
    BY <1>9 DEF Exit, ForceExit, Hang, vars, process, handlers, probes, shutdown, clientVars, call
  <2> QED BY <1>2, <1>5, <2>1 DEF Covered
<1> QED BY <1>4, <1>6, <1>7, <1>8, <1>9, NextCases

LEMMA TimeStep == ASSUME IInv, [Next]_vars PROVE TimeIsLeft'
<1> USE DEF IInv, Connections
<1>1. /\ place \in [Calls -> InFlight \cup Idle \cup {"none"}]
      /\ probe \in [Calls -> 0..READINESS_CHECK_TIMEOUT]
      /\ force \in Nat /\ closing \in Closing \cup {"no", "done"}
      /\ step \in [Calls -> Step] /\ age \in [Calls -> Nat] /\ waited \in [Calls -> BOOLEAN]
  BY DEF TypeOK, ClientInv, ClientTypeOK
<1>2. SUFFICES ASSUME closing' \in Closing, Unhindered', Leaked' = {},
                      \A n \in Calls : ~waited'[n]
               PROVE  force' > 0
  BY DEF TimeIsLeft
<1>3. Unhindered
  BY <1>2, HinderedStays
<1>4. ASSUME closing \in Closing, \A n \in Calls : ~waited[n] PROVE force > 0
  <2>1. Leaked = {}
    BY <1>2, <1>4, LeakedStays DEF Listening, Closing
  <2> QED BY <1>3, <1>4, <2>1 DEF TimeIsLeft
<1>5. CASE Signal
  BY <1>5, TimeFacts, RemainingFacts DEF Signal
<1>6. ASSUME NEW n \in Calls, Handles(n) PROVE force' > 0
  <2>1. /\ closing \in Closing /\ force' = force
        /\ \A m \in Calls \ {n} : ~waited[m]
    BY <1>2, <1>6, OthersStay
  <2>2. ~Listening
    BY <2>1 DEF Listening, Closing
  <2>3. ~waited[n]
    <3>1. CASE Goes(n) \/ Abort(n) \/ AskForRate(n) \/ Responds(n) \/ Probe(n) \/ Queries(n)
      <4>1. waited' = waited
        BY <3>1 DEF Goes, Connect, Arrive, Disconnect, Claim, Begin, Abort, AskForRate, Responds,
                    Save, MeetClosedRedis, ProbeTimesOut, ProbeAnswers, Respond, Probe, Queries,
                    QueryStarts, QueryEnds, clientVars, call
      <4> QED BY <1>2, <4>1
    <3>2. CASE EndTransaction(n)
      <4>1. CASE waited' = waited
        BY <1>2, <4>1
      <4>2. CASE delayed' = (delayed \/ (~Listening /\ waited[n]))
        <5>1. ~delayed'
          BY <1>2 DEF Unhindered
        <5> QED BY <2>2, <4>2, <5>1, Zenon
      <4> QED BY <3>2, <4>1, <4>2 DEF EndTransaction
    <3>3. CASE RateCall(n)
      <4>1. waited[n] => waited'[n]
        BY <1>1, <3>3 DEF RateCall, CallProceeds, Admit, Reject, Try, Await, Resume, Succeed,
                          Refuse, AttemptFails, BackoffEnds, Fetch, Pass, CallSucceeds,
                          CallFails, CallRefused, Done
      <4> QED BY <1>2, <4>1
    <3> QED BY <1>6, <3>1, <3>2, <3>3 DEF Handles
  <2> QED BY <1>4, <2>1, <2>3
<1>7. CASE Tick
  <2>1. /\ closing \in Closing /\ waited' = waited
        /\ force' = Less1(force) /\ ~CanClose /\ force # 0
        /\ \A n \in Calls : ~PromptOwed(n)
        /\ closing = "http" /\ (\E n \in Calls : place[n] = "connecting") => delayed'
    BY <1>2, <1>7 DEF Tick, ClientTick, ShutdownOwed
  <2>2. "redis" \notin hung /\ "postgres" \notin hung /\ "tracing" \notin hung
    BY <1>3 DEF Unhindered
  <2>3. closing \in {"http", "postgres"}
    BY <2>1, <2>2 DEF CanClose, Closing
  <2>4. Leaked = {}
    BY <1>2, <2>1, LeakedStays DEF Listening, Closing
  <2>5. \A n \in Calls : Covered(n)
    BY <1>3, <2>3 DEF Drains, Covered
  <2>6. \E n \in Calls : place[n] \in {"rating", "probing"}
    <3>1. CASE closing = "http"
      <4>1. PICK n \in Calls : \/ place[n] \notin {"none", "connecting"}
                               \/ place[n] = "connecting"
                               \/ ClientFree /\ query[n] = "waiting"
        BY <2>1, <3>1 DEF CanClose
      <4>2. place[n] # "connecting" /\ ~(ClientFree /\ query[n] = "waiting")
        BY <1>2, <2>1, <3>1 DEF PromptOwed, Unhindered
      <4>3. Covered(n) /\ ~PromptOwed(n)
        BY <2>1, <2>5
      <4> QED BY <1>1, <2>2, <4>1, <4>2, <4>3 DEF PromptOwed, Covered, InFlight, Idle
    <3>2. CASE closing = "postgres"
      <4>1. PICK n \in Calls : place[n] \in {"working", "rating"} \/ query[n] = "running"
        BY <2>1, <2>2, <3>2 DEF CanClose, InTransaction, Querying
      <4>2. query[n] = "running" => place[n] = "probing"
        BY <2>4 DEF Leaked, Querying
      <4>3. place[n] # "working"
        BY <2>1, <2>2 DEF PromptOwed
      <4> QED BY <4>1, <4>2, <4>3
    <3> QED BY <2>3, <3>1, <3>2
  <2>7. PICK n \in Calls : place[n] \in {"rating", "probing"}
    BY <2>6
  <2>8. Covered(n) /\ ~PromptOwed(n)
    BY <2>1, <2>5
  <2>9. CASE place[n] = "rating"
    <3>1. step[n] \notin {"none", "ended"}
      BY <2>2, <2>8, <2>9 DEF PromptOwed, CallsMatchPlaces
    <3>2. age'[n] = age[n] + 1
      BY <1>7, <3>1 DEF Tick, ClientTick
    <3>3. ~waited[n] /\ ~waited'[n]
      BY <1>2, <2>1
    <3>4. age'[n] <= CallBound
      <4>1. Budget(n)' /\ age'[n] \in Nat
        BY ClientStep DEF ClientInv, ClientTypeOK
      <4> QED BY <3>3, <4>1, RemainingFacts DEF Budget, Patience
    <3>5. force + age[n] > CallBound
      BY <2>8, <2>9, <3>1, <3>3 DEF Covered
    <3> QED BY <1>1, <2>1, <3>2, <3>4, <3>5, Less1Facts, RemainingFacts
  <2>10. CASE place[n] = "probing"
    <3>1. probe[n] \in Nat /\ probe[n] # 0
      BY <1>1, <2>8, <2>10 DEF PromptOwed
    <3>2. force > probe[n]
      BY <2>8, <2>10 DEF Covered
    <3> QED BY <1>1, <2>1, <3>1, <3>2, Less1Facts
  <2> QED BY <2>7, <2>9, <2>10
<1>8. CASE CloseStep \/ CloseFails
  <2>1. closing \in Closing /\ UNCHANGED <<waited, force>>
    BY <1>8, Closes DEF clientVars, call
  <2> QED BY <1>2, <1>4, <2>1
<1>9. CASE Exit \/ ForceExit \/ UNCHANGED vars
           \/ \E server \in {"postgres", "redis", "tracing"} : Hang(server)
  <2>1. UNCHANGED <<waited, force, closing>>
    BY <1>9 DEF Exit, ForceExit, Hang, vars, shutdown, clientVars, call
  <2> QED BY <1>2, <1>4, <2>1
<1> QED BY <1>5, <1>6, <1>7, <1>8, <1>9, NextCases

LEMMA ForcedStep == ASSUME IInv, [Next]_vars PROVE ForcedExitIsExplained'
<1> USE DEF IInv
<1>1. CASE UNCHANGED vars
  <2>1. UNCHANGED <<exit, hung, place, query, delayed, waited>>
    BY <1>1 DEF vars, shutdown, process, handlers, probes, clientVars, call
  <2>2. Leaked' = Leaked
    BY <2>1 DEF Leaked, Querying
  <2> QED BY <2>1, <2>2 DEF ForcedExitIsExplained
<1>2. CASE ForceExit
  <2>1. closing \in Closing /\ force = 0 /\ UNCHANGED <<hung, place, query, delayed, waited>>
    BY <1>2 DEF ForceExit, process, handlers, probes, clientVars, call
  <2>2. Leaked' = Leaked
    BY <2>1 DEF Leaked, Querying
  <2>3. ~(Unhindered /\ Leaked = {} /\ \A n \in Connections : ~waited[n])
    BY <2>1 DEF TimeIsLeft
  <2> QED BY <2>1, <2>2, <2>3 DEF ForcedExitIsExplained, Unhindered
<1>3. CASE ~UNCHANGED vars /\ ~ForceExit
  <2>1. exit = "running"
    BY <1>3, OnlyWhileRunning
  <2>2. exit' \in {"running", "clean", "unclean"}
    <3>1. CASE \/ Signal \/ CloseStep \/ Exit \/ CloseFails \/ Tick
               \/ \E server \in {"postgres", "redis", "tracing"} : Hang(server)
      BY <2>1, <3>1 DEF Signal, CloseStep, Exit, CloseFails, Tick, Hang, shutdown
    <3>2. CASE \E n \in Connections : Handles(n)
      BY <2>1, <3>2, OthersStay
    <3> QED BY <1>3, <3>1, <3>2, NextCases
  <2> QED BY <2>2 DEF ForcedExitIsExplained
<1> QED BY <1>1, <1>2, <1>3

-----------------------------------------------------------------------------
(* The theorems *)

LEMMA IInvStep == ASSUME IInv, [Next]_vars PROVE IInv'
<1>1. TypeOK' /\ ClientInv' /\ CallsMatchPlaces'
  BY TypeStep, ClientStep, CallsStep
<1>2. Drains' /\ TimeIsLeft' /\ ForcedExitIsExplained'
  BY DrainsStep, TimeStep, ForcedStep
<1>3. PoolIsDrained' /\ DependenciesOutliveRequests'
  BY OutliveStep
<1> QED BY <1>1, <1>2, <1>3 DEF IInv

\* The inductive invariant of the server and its calls.
THEOREM InvariantHolds == Spec => []IInv
<1>1. Init => IInv
  BY InitIInv
<1>2. IInv /\ [Next]_vars => IInv'
  BY IInvStep
<1> QED BY <1>1, <1>2, PTL DEF Spec

\* Every variable keeps its type.
THEOREM TypeCorrect == Spec => []TypeOK
<1>1. IInv => TypeOK
  BY DEF IInv
<1> QED BY <1>1, InvariantHolds, PTL

\* A call to the provider lasts no longer than its attempts and backoffs may,
\* plus one trial when it had to wait for one.
THEOREM CallsAlwaysEndInTime == Spec => []CallsEndInTime
<1>1. IInv => CallsEndInTime
  BY InTime DEF IInv
<1> QED BY <1>1, InvariantHolds, PTL

\* Only requests whose client has gone away meet a pool or a Redis client that
\* shutdown has closed, and a clean exit cuts off no transaction.
THEOREM DependenciesAlwaysOutlive == Spec => []DependenciesOutliveRequests
<1>1. IInv => DependenciesOutliveRequests
  BY DEF IInv
<1> QED BY <1>1, InvariantHolds, PTL

\* The force-exit timer cuts off only what hangs, leaks, outlives its response,
\* or has waited for another's trial or for a client of the pool.
THEOREM ForcedExitsAlwaysExplained == Spec => []ForcedExitIsExplained
<1>1. IInv => ForcedExitIsExplained
  BY DEF IInv
<1> QED BY <1>1, InvariantHolds, PTL

=============================================================================
