------------------------- MODULE EventDeliveryProofs -------------------------
(***************************************************************************)
(* Theorems about EventDelivery, for any number of events, copies, faults  *)
(* and retries.  The consumer's part of the invariant is shown one action  *)
(* at a time; what the relays add is that a sent event is kept.            *)
(***************************************************************************)
EXTENDS EventDelivery, TLAPS

\* The consumer's part of IInv.
ConsumerInv ==
  /\ ConsumerTypeOK
  /\ ClaimsAreHeld
  /\ OneHandler
  /\ RetriesWereFailures
  /\ ProcessedOnce
  /\ DeadLettersWereRetried

\* An account event the consumer's side still answers for.
Answered(e) == Kept(e) \/ e \in orphaned

\* No step makes the consumer's side give up an event.
KeepsEvents == \A e \in AccountEvents : Answered(e) => Answered(e)'

-----------------------------------------------------------------------------
(* One lemma per action of the consumer *)

\* A failure is counted once, for the event of its copy.
LEMMA FailCounts ==
  ASSUME NEW c \in Copies, NEW here, ConsumerTypeOK, event[c] \in AccountEvents, Fail(c, here)
  PROVE  /\ failures' \in [AccountEvents -> Nat]
         /\ failures'[event[c]] = failures[event[c]] + 1
         /\ \A e \in AccountEvents : failures'[e] >= failures[e]
<1>1. failures' = [failures EXCEPT ![event[c]] = failures[event[c]] + 1]
  BY DEF Fail
<1>2. failures \in [AccountEvents -> Nat]
  BY DEF ConsumerTypeOK
<1>3. \A e \in AccountEvents : failures'[e] = IF e = event[c] THEN failures[e] + 1 ELSE failures[e]
  BY <1>1, <1>2
<1> QED BY <1>1, <1>2, <1>3

\* Counting is safe where one copy changes place and the others stay or are
\* requeued, failures only grow, and the one copy's counts are in order.
LEMMA CountersKept ==
  ASSUME ConsumerTypeOK, ConsumerTypeOK', RetriesWereFailures, DeadLettersWereRetried,
         NEW c \in Copies,
         \A e \in AccountEvents : failures'[e] >= failures[e],
         \A d \in Copies \ {c} : at'[d] # "unsent" =>
           /\ at[d] # "unsent" /\ event'[d] = event[d] /\ retries'[d] = retries[d]
           /\ at'[d] = at[d] \/ at'[d] = "queue",
         at'[c] # "unsent" =>
           /\ retries'[c] <= failures'[event'[c]]
           /\ at'[c] \in {"failed", "released"} => retries'[c] < failures'[event'[c]]
           /\ at'[c] = "dlq" => failures'[event'[c]] > MaxRetries
  PROVE  RetriesWereFailures' /\ DeadLettersWereRetried'
<1>1. ASSUME NEW d \in Copies, at'[d] # "unsent"
      PROVE  /\ retries'[d] <= failures'[event'[d]]
             /\ at'[d] \in {"failed", "released"} => retries'[d] < failures'[event'[d]]
             /\ at'[d] = "dlq" => failures'[event'[d]] > MaxRetries
  <2>1. CASE d = c
    BY <1>1, <2>1
  <2>2. CASE d # c
    <3>1. at[d] # "unsent" /\ event'[d] = event[d] /\ retries'[d] = retries[d]
      BY <1>1, <2>2
    <3>2. at'[d] = at[d] \/ at'[d] = "queue"
      BY <1>1, <2>2
    <3>3. event[d] \in AccountEvents
      BY <3>1 DEF ConsumerTypeOK
    <3>4. failures[event[d]] \in Nat /\ failures'[event[d]] \in Nat /\ retries[d] \in Nat
      BY <3>3 DEF ConsumerTypeOK
    <3>5. failures'[event[d]] >= failures[event[d]]
      BY <3>3
    <3>6. retries[d] <= failures[event[d]]
      BY <3>1 DEF RetriesWereFailures
    <3>7. at[d] \in {"failed", "released"} => retries[d] < failures[event[d]]
      BY <3>1 DEF RetriesWereFailures
    <3>8. at[d] = "dlq" => failures[event[d]] > MaxRetries
      BY DEF DeadLettersWereRetried
    <3> QED BY <3>1, <3>2, <3>4, <3>5, <3>6, <3>7, <3>8, RetriesAssumption
  <2> QED BY <2>1, <2>2
<1>2. RetriesWereFailures'
  BY <1>1 DEF RetriesWereFailures
<1>3. DeadLettersWereRetried'
  BY <1>1 DEF DeadLettersWereRetried
<1> QED BY <1>2, <1>3

\* Claiming an event preserves the consumer's invariant and drops nothing.
LEMMA ClaimKeeps ==
  ASSUME NEW c \in Copies, ConsumerInv, Claim(c)
  PROVE  ConsumerInv' /\ KeepsEvents
<1> USE CopiesAssumption, RetriesAssumption DEF ConsumerInv, ConsumerTypeOK, Place, InBroker, Handled, NoEvent
<1>0. at[c] # "unsent" /\ event[c] \in AccountEvents
  BY DEF Claim, Move
<1>1. ConsumerTypeOK'
  BY <1>0 DEF Claim, Move
<1>2. ClaimsAreHeld'
  BY <1>0, <1>1 DEF Claim, Move, ClaimsAreHeld
<1>3. OneHandler'
  BY <1>0, <1>1 DEF Claim, Move, OneHandler, ClaimsAreHeld
<1>4. RetriesWereFailures'
  BY <1>0, <1>1 DEF Claim, Move, RetriesWereFailures
<1>5. ProcessedOnce'
  BY <1>0, <1>1 DEF Claim, Move, ProcessedOnce, OneHandler, ClaimsAreHeld
<1>6. DeadLettersWereRetried'
  BY <1>0, <1>1 DEF Claim, Move, DeadLettersWereRetried, RetriesWereFailures
<1>7. KeepsEvents
  BY <1>0, <1>1 DEF Claim, Move, KeepsEvents, Answered, Kept, Copy, ClaimsAreHeld
<1> QED BY <1>1, <1>2, <1>3, <1>4, <1>5, <1>6, <1>7

\* Acking a duplicate preserves the consumer's invariant and drops nothing.
LEMMA SkipDuplicateKeeps ==
  ASSUME NEW c \in Copies, ConsumerInv, SkipDuplicate(c)
  PROVE  ConsumerInv' /\ KeepsEvents
<1> USE CopiesAssumption, RetriesAssumption DEF ConsumerInv, ConsumerTypeOK, Place, InBroker, Handled, NoEvent
<1>0. at[c] # "unsent" /\ event[c] \in AccountEvents
  BY DEF SkipDuplicate, Move
<1>1. ConsumerTypeOK'
  BY <1>0 DEF SkipDuplicate, Move
<1>2. ClaimsAreHeld'
  BY <1>0, <1>1 DEF SkipDuplicate, Move, ClaimsAreHeld
<1>3. OneHandler'
  BY <1>0, <1>1 DEF SkipDuplicate, Move, OneHandler, ClaimsAreHeld
<1>4. RetriesWereFailures'
  BY <1>0, <1>1 DEF SkipDuplicate, Move, RetriesWereFailures
<1>5. ProcessedOnce'
  BY <1>0, <1>1 DEF SkipDuplicate, Move, ProcessedOnce, OneHandler, ClaimsAreHeld
<1>6. DeadLettersWereRetried'
  BY <1>0, <1>1 DEF SkipDuplicate, Move, DeadLettersWereRetried, RetriesWereFailures
<1>7. KeepsEvents
  BY <1>0, <1>1 DEF SkipDuplicate, Move, KeepsEvents, Answered, Kept, Copy, ClaimsAreHeld
<1> QED BY <1>1, <1>2, <1>3, <1>4, <1>5, <1>6, <1>7

\* Processing an event preserves the consumer's invariant and drops nothing.
LEMMA ProcessKeeps ==
  ASSUME NEW c \in Copies, ConsumerInv, Process(c)
  PROVE  ConsumerInv' /\ KeepsEvents
<1> USE CopiesAssumption, RetriesAssumption DEF ConsumerInv, ConsumerTypeOK, Place, InBroker, Handled, NoEvent
<1>0. at[c] # "unsent" /\ event[c] \in AccountEvents
  BY DEF Process, Move
<1>1. ConsumerTypeOK'
  <2>1. effects' \in [AccountEvents -> Nat]
    <3>1. effects \in [AccountEvents -> Nat] /\ effects' = [effects EXCEPT ![event[c]] = effects[event[c]] + 1]
      BY DEF Process, ConsumerTypeOK
    <3>2. effects[event[c]] \in Nat
      BY <1>0 DEF ConsumerTypeOK
    <3>3. effects[event[c]] + 1 \in Nat
      BY <3>2
    <3> QED BY <1>0, <3>1, <3>3
  <2> QED BY <1>0, <2>1 DEF Process, Move
<1>2. ClaimsAreHeld'
  BY <1>0, <1>1 DEF Process, Move, ClaimsAreHeld
<1>3. OneHandler'
  BY <1>0, <1>1 DEF Process, Move, OneHandler, ClaimsAreHeld
<1>4. RetriesWereFailures'
  BY <1>0, <1>1 DEF Process, Move, RetriesWereFailures
<1>5. ProcessedOnce'
  BY <1>0, <1>1 DEF Process, Move, ProcessedOnce, OneHandler, ClaimsAreHeld
<1>6. DeadLettersWereRetried'
  BY <1>0, <1>1 DEF Process, Move, DeadLettersWereRetried, RetriesWereFailures
<1>7. KeepsEvents
  BY <1>0, <1>1 DEF Process, Move, KeepsEvents, Answered, Kept, Copy, ClaimsAreHeld
<1> QED BY <1>1, <1>2, <1>3, <1>4, <1>5, <1>6, <1>7

\* A failed onProcessed preserves the consumer's invariant and drops nothing.
LEMMA ProcessFailsKeeps ==
  ASSUME NEW c \in Copies, ConsumerInv, ProcessFails(c)
  PROVE  ConsumerInv' /\ KeepsEvents
<1> USE CopiesAssumption, RetriesAssumption DEF ConsumerInv, ConsumerTypeOK, Place, InBroker, Handled, NoEvent
<1>0. at[c] # "unsent" /\ event[c] \in AccountEvents
  BY DEF ProcessFails, Fail, Move
<1>1. ConsumerTypeOK'
  <2>1. failures' \in [AccountEvents -> Nat]
    BY <1>0, FailCounts DEF ProcessFails, Fail, Move, ConsumerTypeOK
  <2>2. at' \in [Copies -> Place] /\ \A d \in Copies : at'[d] # "unsent" => at[d] # "unsent"
    BY <1>0 DEF ProcessFails, Fail, Move
  <2> QED BY <2>1, <2>2 DEF ProcessFails, Fail, Move
<1>2. ClaimsAreHeld'
  BY <1>0, <1>1 DEF ProcessFails, Fail, Move, ClaimsAreHeld
<1>3. OneHandler'
  BY <1>0, <1>1 DEF ProcessFails, Fail, Move, OneHandler, ClaimsAreHeld
<1>4. RetriesWereFailures' /\ DeadLettersWereRetried'
  <2>1. \A d \in Copies : at'[d] = IF d = c THEN "failed" ELSE at[d]
    BY DEF ProcessFails, Fail, Move, ConsumerTypeOK
  <2>2. failures'[event[c]] = failures[event[c]] + 1 /\ \A e \in AccountEvents : failures'[e] >= failures[e]
    BY <1>0, FailCounts DEF ProcessFails, Fail, Move, ConsumerTypeOK
  <2>3. event' = event /\ retries' = retries
    BY DEF ProcessFails, Fail, Move
  <2>4. retries[c] <= failures[event[c]]
    BY <1>0 DEF RetriesWereFailures
  <2>5. retries[c] \in Nat /\ failures[event[c]] \in Nat
    BY <1>0 DEF ConsumerTypeOK
  <2>6. retries'[c] < failures'[event'[c]]
    BY <2>2, <2>3, <2>4, <2>5
  <2>7. retries'[c] <= failures'[event'[c]]
    BY <2>2, <2>3, <2>4, <2>5
  <2> QED BY <1>1, <2>1, <2>2, <2>3, <2>6, <2>7, CountersKept
<1>5. ProcessedOnce'
  BY <1>0, <1>1 DEF ProcessFails, Fail, Move, ProcessedOnce, OneHandler, ClaimsAreHeld
<1>7. KeepsEvents
  BY <1>0, <1>1 DEF ProcessFails, Fail, Move, KeepsEvents, Answered, Kept, Copy, ClaimsAreHeld
<1> QED BY <1>1, <1>2, <1>3, <1>4, <1>5, <1>7

\* Saving the outcome preserves the consumer's invariant and drops nothing.
LEMMA SaveKeeps ==
  ASSUME NEW c \in Copies, ConsumerInv, Save(c)
  PROVE  ConsumerInv' /\ KeepsEvents
<1> USE CopiesAssumption, RetriesAssumption DEF ConsumerInv, ConsumerTypeOK, Place, InBroker, Handled, NoEvent
<1>0. at[c] # "unsent" /\ event[c] \in AccountEvents
  BY DEF Save, Move
<1>1. ConsumerTypeOK'
  BY <1>0 DEF Save, Move
<1>2. ClaimsAreHeld'
  BY <1>0, <1>1 DEF Save, Move, ClaimsAreHeld
<1>3. OneHandler'
  BY <1>0, <1>1 DEF Save, Move, OneHandler, ClaimsAreHeld
<1>4. RetriesWereFailures'
  BY <1>0, <1>1 DEF Save, Move, RetriesWereFailures
<1>5. ProcessedOnce'
  BY <1>0, <1>1 DEF Save, Move, ProcessedOnce, OneHandler, ClaimsAreHeld
<1>6. DeadLettersWereRetried'
  BY <1>0, <1>1 DEF Save, Move, DeadLettersWereRetried, RetriesWereFailures
<1>7. KeepsEvents
  BY <1>0, <1>1 DEF Save, Move, KeepsEvents, Answered, Kept, Copy, ClaimsAreHeld
<1> QED BY <1>1, <1>2, <1>3, <1>4, <1>5, <1>6, <1>7

\* A rejected save() preserves the consumer's invariant and drops nothing.
LEMMA SaveFailsKeeps ==
  ASSUME NEW c \in Copies, ConsumerInv, SaveFails(c)
  PROVE  ConsumerInv' /\ KeepsEvents
<1> USE CopiesAssumption, RetriesAssumption DEF ConsumerInv, ConsumerTypeOK, Place, InBroker, Handled, NoEvent
<1>0. at[c] # "unsent" /\ event[c] \in AccountEvents
  BY DEF SaveFails, Fail, Move
<1>1. ConsumerTypeOK'
  <2>1. failures' \in [AccountEvents -> Nat]
    BY <1>0, FailCounts DEF SaveFails, Fail, Move, ConsumerTypeOK
  <2>2. at' \in [Copies -> Place] /\ \A d \in Copies : at'[d] # "unsent" => at[d] # "unsent"
    BY <1>0 DEF SaveFails, Fail, Move
  <2> QED BY <2>1, <2>2 DEF SaveFails, Fail, Move
<1>2. ClaimsAreHeld'
  BY <1>0, <1>1 DEF SaveFails, Fail, Move, ClaimsAreHeld
<1>3. OneHandler'
  BY <1>0, <1>1 DEF SaveFails, Fail, Move, OneHandler, ClaimsAreHeld
<1>4. RetriesWereFailures' /\ DeadLettersWereRetried'
  <2>1. \A d \in Copies : at'[d] = IF d = c THEN "failed" ELSE at[d]
    BY DEF SaveFails, Fail, Move, ConsumerTypeOK
  <2>2. failures'[event[c]] = failures[event[c]] + 1 /\ \A e \in AccountEvents : failures'[e] >= failures[e]
    BY <1>0, FailCounts DEF SaveFails, Fail, Move, ConsumerTypeOK
  <2>3. event' = event /\ retries' = retries
    BY DEF SaveFails, Fail, Move
  <2>4. retries[c] <= failures[event[c]]
    BY <1>0 DEF RetriesWereFailures
  <2>5. retries[c] \in Nat /\ failures[event[c]] \in Nat
    BY <1>0 DEF ConsumerTypeOK
  <2>6. retries'[c] < failures'[event'[c]]
    BY <2>2, <2>3, <2>4, <2>5
  <2>7. retries'[c] <= failures'[event'[c]]
    BY <2>2, <2>3, <2>4, <2>5
  <2> QED BY <1>1, <2>1, <2>2, <2>3, <2>6, <2>7, CountersKept
<1>5. ProcessedOnce'
  BY <1>0, <1>1 DEF SaveFails, Fail, Move, ProcessedOnce, OneHandler, ClaimsAreHeld
<1>7. KeepsEvents
  BY <1>0, <1>1 DEF SaveFails, Fail, Move, KeepsEvents, Answered, Kept, Copy, ClaimsAreHeld
<1> QED BY <1>1, <1>2, <1>3, <1>4, <1>5, <1>7

\* Acking a processed copy preserves the consumer's invariant and drops nothing.
LEMMA AckKeeps ==
  ASSUME NEW c \in Copies, ConsumerInv, Ack(c)
  PROVE  ConsumerInv' /\ KeepsEvents
<1> USE CopiesAssumption, RetriesAssumption DEF ConsumerInv, ConsumerTypeOK, Place, InBroker, Handled, NoEvent
<1>0. at[c] # "unsent" /\ event[c] \in AccountEvents
  BY DEF Ack, Move
<1>1. ConsumerTypeOK'
  BY <1>0 DEF Ack, Move
<1>2. ClaimsAreHeld'
  BY <1>0, <1>1 DEF Ack, Move, ClaimsAreHeld
<1>3. OneHandler'
  BY <1>0, <1>1 DEF Ack, Move, OneHandler, ClaimsAreHeld
<1>4. RetriesWereFailures'
  BY <1>0, <1>1 DEF Ack, Move, RetriesWereFailures
<1>5. ProcessedOnce'
  BY <1>0, <1>1 DEF Ack, Move, ProcessedOnce, OneHandler, ClaimsAreHeld
<1>6. DeadLettersWereRetried'
  BY <1>0, <1>1 DEF Ack, Move, DeadLettersWereRetried, RetriesWereFailures
<1>7. KeepsEvents
  BY <1>0, <1>1 DEF Ack, Move, KeepsEvents, Answered, Kept, Copy, ClaimsAreHeld
<1> QED BY <1>1, <1>2, <1>3, <1>4, <1>5, <1>6, <1>7

\* An ack() that throws preserves the consumer's invariant and drops nothing.
LEMMA AckThrowsKeeps ==
  ASSUME NEW c \in Copies, ConsumerInv, AckThrows(c)
  PROVE  ConsumerInv' /\ KeepsEvents
<1> USE CopiesAssumption, RetriesAssumption DEF ConsumerInv, ConsumerTypeOK, Place, InBroker, Handled, NoEvent
<1>0. at[c] # "unsent" /\ event[c] \in AccountEvents
  BY DEF AckThrows, Fail, Move
<1>1. ConsumerTypeOK'
  <2>1. failures' \in [AccountEvents -> Nat]
    BY <1>0, FailCounts DEF AckThrows, Fail, Move, ConsumerTypeOK
  <2>2. at' \in [Copies -> Place] /\ \A d \in Copies : at'[d] # "unsent" => at[d] # "unsent"
    BY <1>0 DEF AckThrows, Fail, Move
  <2> QED BY <2>1, <2>2 DEF AckThrows, Fail, Move
<1>2. ClaimsAreHeld'
  BY <1>0, <1>1 DEF AckThrows, Fail, Move, ClaimsAreHeld
<1>3. OneHandler'
  BY <1>0, <1>1 DEF AckThrows, Fail, Move, OneHandler, ClaimsAreHeld
<1>4. RetriesWereFailures' /\ DeadLettersWereRetried'
  <2>1. \A d \in Copies : at'[d] = IF d = c THEN "failed" ELSE at[d]
    BY DEF AckThrows, Fail, Move, ConsumerTypeOK
  <2>2. failures'[event[c]] = failures[event[c]] + 1 /\ \A e \in AccountEvents : failures'[e] >= failures[e]
    BY <1>0, FailCounts DEF AckThrows, Fail, Move, ConsumerTypeOK
  <2>3. event' = event /\ retries' = retries
    BY DEF AckThrows, Fail, Move
  <2>4. retries[c] <= failures[event[c]]
    BY <1>0 DEF RetriesWereFailures
  <2>5. retries[c] \in Nat /\ failures[event[c]] \in Nat
    BY <1>0 DEF ConsumerTypeOK
  <2>6. retries'[c] < failures'[event'[c]]
    BY <2>2, <2>3, <2>4, <2>5
  <2>7. retries'[c] <= failures'[event'[c]]
    BY <2>2, <2>3, <2>4, <2>5
  <2> QED BY <1>1, <2>1, <2>2, <2>3, <2>6, <2>7, CountersKept
<1>5. ProcessedOnce'
  BY <1>0, <1>1 DEF AckThrows, Fail, Move, ProcessedOnce, OneHandler, ClaimsAreHeld
<1>7. KeepsEvents
  BY <1>0, <1>1 DEF AckThrows, Fail, Move, KeepsEvents, Answered, Kept, Copy, ClaimsAreHeld
<1> QED BY <1>1, <1>2, <1>3, <1>4, <1>5, <1>7

\* Releasing the claim preserves the consumer's invariant and drops nothing.
LEMMA ReleaseClaimKeeps ==
  ASSUME NEW c \in Copies, ConsumerInv, ReleaseClaim(c)
  PROVE  ConsumerInv' /\ KeepsEvents
<1> USE CopiesAssumption, RetriesAssumption DEF ConsumerInv, ConsumerTypeOK, Place, InBroker, Handled, NoEvent
<1>0. at[c] # "unsent" /\ event[c] \in AccountEvents
  BY DEF ReleaseClaim, Move, Drop
<1>1. ConsumerTypeOK'
  BY <1>0 DEF ReleaseClaim, Move, Drop
<1>2. ClaimsAreHeld'
  BY <1>0, <1>1 DEF ReleaseClaim, Move, Drop, ClaimsAreHeld
<1>3. OneHandler'
  BY <1>0, <1>1 DEF ReleaseClaim, Move, Drop, OneHandler, ClaimsAreHeld
<1>4. RetriesWereFailures'
  BY <1>0, <1>1 DEF ReleaseClaim, Move, Drop, RetriesWereFailures
<1>5. ProcessedOnce'
  BY <1>0, <1>1 DEF ReleaseClaim, Move, Drop, ProcessedOnce, OneHandler, ClaimsAreHeld
<1>6. DeadLettersWereRetried'
  BY <1>0, <1>1 DEF ReleaseClaim, Move, Drop, DeadLettersWereRetried, RetriesWereFailures
<1>7. KeepsEvents
  BY <1>0, <1>1 DEF ReleaseClaim, Move, Drop, KeepsEvents, Answered, Kept, Copy, ClaimsAreHeld
<1> QED BY <1>1, <1>2, <1>3, <1>4, <1>5, <1>6, <1>7

\* Sending a copy to its retry or to the DLQ preserves the consumer's invariant and drops nothing.
LEMMA HandleFailureKeeps ==
  ASSUME NEW c \in Copies, ConsumerInv, HandleFailure(c)
  PROVE  ConsumerInv' /\ KeepsEvents
<1> USE CopiesAssumption, RetriesAssumption DEF ConsumerInv, ConsumerTypeOK, Place, InBroker, Handled, NoEvent
<1>0. at[c] # "unsent" /\ event[c] \in AccountEvents
  BY DEF HandleFailure, Move, NextPlace
<1>1. ConsumerTypeOK'
  BY <1>0 DEF HandleFailure, Move, NextPlace
<1>a. /\ retries'[c] = retries[c] + 1 /\ retries[c] + 1 \in Nat
      /\ \A d \in Copies \ {c} : retries'[d] = retries[d] /\ at'[d] = at[d]
      /\ at'[c] \in {"retry", "dlq"} /\ (at'[c] = "dlq" => retries[c] + 1 > MaxRetries)
      /\ event' = event /\ failures' = failures
  <2>1. retries \in [Copies -> Nat] /\ retries' = [retries EXCEPT ![c] = retries[c] + 1]
    BY DEF HandleFailure, ConsumerTypeOK
  <2>2. retries[c] + 1 \in Nat
    BY <2>1
  <2> QED BY <1>0, <2>1, <2>2 DEF HandleFailure, Move, NextPlace, ConsumerTypeOK
<1>b. retries[c] < failures[event[c]]
  BY <1>0 DEF RetriesWereFailures, HandleFailure, Move
<1>2. ClaimsAreHeld'
  BY <1>0, <1>1 DEF HandleFailure, Move, NextPlace, ClaimsAreHeld
<1>3. OneHandler'
  BY <1>0, <1>1 DEF HandleFailure, Move, NextPlace, OneHandler, ClaimsAreHeld
<1>4. RetriesWereFailures' /\ DeadLettersWereRetried'
  <2>1. retries[c] \in Nat /\ failures[event[c]] \in Nat
    BY <1>0 DEF ConsumerTypeOK
  <2>2. retries[c] + 1 <= failures[event[c]]
    BY <1>b, <2>1
  <2>3. retries'[c] <= failures'[event'[c]]
    BY <1>a, <2>2
  <2>4. at'[c] = "dlq" => failures'[event'[c]] > MaxRetries
    BY <1>a, <2>1, <2>2, RetriesAssumption
  <2>5. \A e \in AccountEvents : failures'[e] >= failures[e]
    BY <1>a DEF ConsumerTypeOK
  <2> QED BY <1>1, <1>a, <2>3, <2>4, <2>5, CountersKept
<1>5. ProcessedOnce'
  BY <1>0, <1>1 DEF HandleFailure, Move, NextPlace, ProcessedOnce, OneHandler, ClaimsAreHeld
<1>7. KeepsEvents
  BY <1>0, <1>1 DEF HandleFailure, Move, NextPlace, KeepsEvents, Answered, Kept, Copy, ClaimsAreHeld
<1> QED BY <1>1, <1>2, <1>3, <1>4, <1>5, <1>7

\* A send on a closed channel preserves the consumer's invariant and drops nothing.
LEMMA HandleFailureThrowsKeeps ==
  ASSUME NEW c \in Copies, ConsumerInv, HandleFailureThrows(c)
  PROVE  ConsumerInv' /\ KeepsEvents
<1> USE CopiesAssumption, RetriesAssumption DEF ConsumerInv, ConsumerTypeOK, Place, InBroker, Handled, NoEvent
<1>0. at[c] # "unsent" /\ event[c] \in AccountEvents
  BY DEF HandleFailureThrows, Restart, Requeued, Unacked, Orphans
<1>1. ConsumerTypeOK'
  BY <1>0 DEF HandleFailureThrows, Restart, Requeued, Unacked, Orphans
<1>2. ClaimsAreHeld'
  BY <1>0, <1>1 DEF HandleFailureThrows, Restart, Requeued, Unacked, Orphans, ClaimsAreHeld
<1>3. OneHandler'
  BY <1>0, <1>1 DEF HandleFailureThrows, Restart, Requeued, Unacked, Orphans, OneHandler, ClaimsAreHeld
<1>4. RetriesWereFailures'
  BY <1>0, <1>1 DEF HandleFailureThrows, Restart, Requeued, Unacked, Orphans, RetriesWereFailures
<1>5. ProcessedOnce'
  BY <1>0, <1>1 DEF HandleFailureThrows, Restart, Requeued, Unacked, Orphans, ProcessedOnce, OneHandler, ClaimsAreHeld
<1>6. DeadLettersWereRetried'
  BY <1>0, <1>1 DEF HandleFailureThrows, Restart, Requeued, Unacked, Orphans, DeadLettersWereRetried, RetriesWereFailures
<1>7. KeepsEvents
  BY <1>0, <1>1 DEF HandleFailureThrows, Restart, Requeued, Unacked, Orphans, KeepsEvents, Answered, Kept, Copy, ClaimsAreHeld
<1> QED BY <1>1, <1>2, <1>3, <1>4, <1>5, <1>6, <1>7

\* The return of a retry preserves the consumer's invariant and drops nothing.
LEMMA RetryExpiresKeeps ==
  ASSUME NEW c \in Copies, ConsumerInv, RetryExpires(c)
  PROVE  ConsumerInv' /\ KeepsEvents
<1> USE CopiesAssumption, RetriesAssumption DEF ConsumerInv, ConsumerTypeOK, Place, InBroker, Handled, NoEvent
<1>0. at[c] # "unsent" /\ event[c] \in AccountEvents
  BY DEF RetryExpires, Move
<1>1. ConsumerTypeOK'
  BY <1>0 DEF RetryExpires, Move
<1>2. ClaimsAreHeld'
  BY <1>0, <1>1 DEF RetryExpires, Move, ClaimsAreHeld
<1>3. OneHandler'
  BY <1>0, <1>1 DEF RetryExpires, Move, OneHandler, ClaimsAreHeld
<1>4. RetriesWereFailures'
  BY <1>0, <1>1 DEF RetryExpires, Move, RetriesWereFailures
<1>5. ProcessedOnce'
  BY <1>0, <1>1 DEF RetryExpires, Move, ProcessedOnce, OneHandler, ClaimsAreHeld
<1>6. DeadLettersWereRetried'
  BY <1>0, <1>1 DEF RetryExpires, Move, DeadLettersWereRetried, RetriesWereFailures
<1>7. KeepsEvents
  BY <1>0, <1>1 DEF RetryExpires, Move, KeepsEvents, Answered, Kept, Copy, ClaimsAreHeld
<1> QED BY <1>1, <1>2, <1>3, <1>4, <1>5, <1>6, <1>7

\* A crash of the worker preserves the consumer's invariant and drops nothing.
LEMMA ConsumerCrashKeeps ==
  ASSUME ConsumerInv, ConsumerCrash
  PROVE  ConsumerInv' /\ KeepsEvents
<1> USE CopiesAssumption, RetriesAssumption DEF ConsumerInv, ConsumerTypeOK, Place, InBroker, Handled, NoEvent
<1>1. ConsumerTypeOK'
  BY DEF ConsumerCrash, Restart, Requeued, Unacked, Orphans
<1>2. ClaimsAreHeld'
  BY <1>1 DEF ConsumerCrash, Restart, Requeued, Unacked, Orphans, ClaimsAreHeld
<1>3. OneHandler'
  BY <1>1 DEF ConsumerCrash, Restart, Requeued, Unacked, Orphans, OneHandler, ClaimsAreHeld
<1>4. RetriesWereFailures'
  BY <1>1 DEF ConsumerCrash, Restart, Requeued, Unacked, Orphans, RetriesWereFailures
<1>5. ProcessedOnce'
  BY <1>1 DEF ConsumerCrash, Restart, Requeued, Unacked, Orphans, ProcessedOnce, OneHandler, ClaimsAreHeld
<1>6. DeadLettersWereRetried'
  BY <1>1 DEF ConsumerCrash, Restart, Requeued, Unacked, Orphans, DeadLettersWereRetried, RetriesWereFailures
<1>7. KeepsEvents
  BY <1>1 DEF ConsumerCrash, Restart, Requeued, Unacked, Orphans, KeepsEvents, Answered, Kept, Copy, ClaimsAreHeld
<1> QED BY <1>1, <1>2, <1>3, <1>4, <1>5, <1>6, <1>7

\* A crash between the next copy and the ack preserves the consumer's invariant and drops nothing.
LEMMA CrashUnackedKeeps ==
  ASSUME NEW c \in Copies, NEW next \in Copies, ConsumerInv, CrashUnacked(c, next)
  PROVE  ConsumerInv' /\ KeepsEvents
<1> USE CopiesAssumption, RetriesAssumption DEF ConsumerInv, ConsumerTypeOK, Place, InBroker, Handled, NoEvent
<1>0. at[c] # "unsent" /\ event[c] \in AccountEvents
  BY DEF CrashUnacked, Requeued, Unacked, Orphans, NextPlace, Fresh
<1>a. /\ next # c /\ at[next] = "unsent"
      /\ \A d \in Copies \ {next} : /\ event'[d] = event[d] /\ retries'[d] = retries[d]
                                    /\ at'[d] = IF at[d] \in Handled THEN "queue" ELSE at[d]
      /\ event'[next] = event[c] /\ retries'[next] = retries[c] + 1 /\ retries[c] + 1 \in Nat
      /\ at'[next] \in {"retry", "dlq"} /\ (at'[next] = "dlq" => retries[c] + 1 > MaxRetries)
      /\ failures' = failures
  <2>1. retries \in [Copies -> Nat] /\ retries' = [retries EXCEPT ![next] = retries[c] + 1]
    BY DEF CrashUnacked, ConsumerTypeOK
  <2>2. retries[c] + 1 \in Nat
    BY <2>1
  <2> QED BY <1>0, <2>1, <2>2 DEF CrashUnacked, Requeued, Unacked, NextPlace, Fresh, ConsumerTypeOK
<1>b. retries[c] < failures[event[c]]
  BY <1>0 DEF RetriesWereFailures, CrashUnacked
<1>c. retries' \in [Copies -> Nat] /\ event' \in [Copies -> AccountEvents \cup {NoEvent}] /\ at' \in [Copies -> Place]
  BY <1>0, <1>a DEF CrashUnacked, Requeued, Unacked, NextPlace, ConsumerTypeOK, Place, InBroker, Handled
<1>1. ConsumerTypeOK'
  <2>1. \A d \in Copies : at'[d] = "unsent" => retries'[d] = 0
    BY <1>a DEF ConsumerTypeOK, Handled
  <2>2. \A d \in Copies : at'[d] # "unsent" => event'[d] \in AccountEvents
    BY <1>0, <1>a DEF ConsumerTypeOK, Handled
  <2>3. deaf' \in BOOLEAN /\ orphaned' \subseteq AccountEvents
    BY DEF CrashUnacked, Orphans, ConsumerTypeOK
  <2> QED BY <1>c, <2>1, <2>2, <2>3 DEF CrashUnacked, ConsumerTypeOK
<1>2. ClaimsAreHeld'
  BY <1>0, <1>1 DEF CrashUnacked, Requeued, Unacked, Orphans, NextPlace, Fresh, ClaimsAreHeld
<1>3. OneHandler'
  BY <1>0, <1>1 DEF CrashUnacked, Requeued, Unacked, Orphans, NextPlace, Fresh, OneHandler, ClaimsAreHeld
<1>4. RetriesWereFailures' /\ DeadLettersWereRetried'
  <2>1. retries[c] \in Nat /\ failures[event[c]] \in Nat
    BY <1>0 DEF ConsumerTypeOK
  <2>2. retries[c] + 1 <= failures[event[c]]
    BY <1>b, <2>1
  <2>3. retries'[next] <= failures'[event'[next]]
    BY <1>a, <2>2
  <2>4. at'[next] = "dlq" => failures'[event'[next]] > MaxRetries
    BY <1>a, <2>1, <2>2, RetriesAssumption
  <2>5. \A e \in AccountEvents : failures'[e] >= failures[e]
    BY <1>a DEF ConsumerTypeOK
  <2> QED BY <1>1, <1>a, <2>3, <2>4, <2>5, CountersKept DEF Handled
<1>5. ProcessedOnce'
  BY <1>0, <1>1 DEF CrashUnacked, Requeued, Unacked, Orphans, NextPlace, Fresh, ProcessedOnce, OneHandler, ClaimsAreHeld
<1>7. KeepsEvents
  BY <1>0, <1>1 DEF CrashUnacked, Requeued, Unacked, Orphans, NextPlace, Fresh, KeepsEvents, Answered, Kept, Copy, ClaimsAreHeld
<1> QED BY <1>1, <1>2, <1>3, <1>4, <1>5, <1>7

\* A claim without an answer preserves the consumer's invariant and drops nothing.
LEMMA ClaimUnansweredKeeps ==
  ASSUME NEW c \in Copies, ConsumerInv, ClaimUnanswered(c)
  PROVE  ConsumerInv' /\ KeepsEvents
<1> USE CopiesAssumption, RetriesAssumption DEF ConsumerInv, ConsumerTypeOK, Place, InBroker, Handled, NoEvent
<1>0. at[c] # "unsent" /\ event[c] \in AccountEvents
  BY DEF ClaimUnanswered, Requeued, Unacked, Orphans
<1>1. ConsumerTypeOK'
  BY <1>0 DEF ClaimUnanswered, Requeued, Unacked, Orphans
<1>2. ClaimsAreHeld'
  BY <1>0, <1>1 DEF ClaimUnanswered, Requeued, Unacked, Orphans, ClaimsAreHeld
<1>3. OneHandler'
  BY <1>0, <1>1 DEF ClaimUnanswered, Requeued, Unacked, Orphans, OneHandler, ClaimsAreHeld
<1>4. RetriesWereFailures'
  BY <1>0, <1>1 DEF ClaimUnanswered, Requeued, Unacked, Orphans, RetriesWereFailures
<1>5. ProcessedOnce'
  BY <1>0, <1>1 DEF ClaimUnanswered, Requeued, Unacked, Orphans, ProcessedOnce, OneHandler, ClaimsAreHeld
<1>6. DeadLettersWereRetried'
  BY <1>0, <1>1 DEF ClaimUnanswered, Requeued, Unacked, Orphans, DeadLettersWereRetried, RetriesWereFailures
<1>7. KeepsEvents
  BY <1>0, <1>1 DEF ClaimUnanswered, Requeued, Unacked, Orphans, KeepsEvents, Answered, Kept, Copy, ClaimsAreHeld
<1> QED BY <1>1, <1>2, <1>3, <1>4, <1>5, <1>6, <1>7

\* A closed channel preserves the consumer's invariant and drops nothing.
LEMMA ChannelClosedKeeps ==
  ASSUME ConsumerInv, ChannelClosed
  PROVE  ConsumerInv' /\ KeepsEvents
<1> USE CopiesAssumption, RetriesAssumption DEF ConsumerInv, ConsumerTypeOK, Place, InBroker, Handled, NoEvent
<1>1. ConsumerTypeOK'
  BY DEF ChannelClosed, messageVars
<1>2. ClaimsAreHeld'
  BY <1>1 DEF ChannelClosed, messageVars, ClaimsAreHeld
<1>3. OneHandler'
  BY <1>1 DEF ChannelClosed, messageVars, OneHandler, ClaimsAreHeld
<1>4. RetriesWereFailures'
  BY <1>1 DEF ChannelClosed, messageVars, RetriesWereFailures
<1>5. ProcessedOnce'
  BY <1>1 DEF ChannelClosed, messageVars, ProcessedOnce, OneHandler, ClaimsAreHeld
<1>6. DeadLettersWereRetried'
  BY <1>1 DEF ChannelClosed, messageVars, DeadLettersWereRetried, RetriesWereFailures
<1>7. KeepsEvents
  BY <1>1 DEF ChannelClosed, messageVars, KeepsEvents, Answered, Kept, Copy, ClaimsAreHeld
<1> QED BY <1>1, <1>2, <1>3, <1>4, <1>5, <1>6, <1>7

\* The expiry of an abandoned claim preserves the consumer's invariant and drops nothing.
LEMMA ClaimExpiresKeeps ==
  ASSUME NEW e \in AccountEvents, ConsumerInv, ClaimExpires(e)
  PROVE  ConsumerInv' /\ KeepsEvents
<1> USE CopiesAssumption, RetriesAssumption DEF ConsumerInv, ConsumerTypeOK, Place, InBroker, Handled, NoEvent
<1>1. ConsumerTypeOK'
  BY DEF ClaimExpires, Expire, Drop, messageVars, Holders
<1>2. ClaimsAreHeld'
  BY <1>1 DEF ClaimExpires, Expire, Drop, messageVars, Holders, ClaimsAreHeld
<1>3. OneHandler'
  BY <1>1 DEF ClaimExpires, Expire, Drop, messageVars, Holders, OneHandler, ClaimsAreHeld
<1>4. RetriesWereFailures'
  BY <1>1 DEF ClaimExpires, Expire, Drop, messageVars, Holders, RetriesWereFailures
<1>5. ProcessedOnce'
  BY <1>1 DEF ClaimExpires, Expire, Drop, messageVars, Holders, ProcessedOnce, OneHandler, ClaimsAreHeld
<1>6. DeadLettersWereRetried'
  BY <1>1 DEF ClaimExpires, Expire, Drop, messageVars, Holders, DeadLettersWereRetried, RetriesWereFailures
<1>7. KeepsEvents
  BY <1>1 DEF ClaimExpires, Expire, Drop, messageVars, Holders, KeepsEvents, Answered, Kept, Copy, ClaimsAreHeld
<1> QED BY <1>1, <1>2, <1>3, <1>4, <1>5, <1>6, <1>7

\* The expiry of a claim in use preserves the consumer's invariant and drops nothing.
LEMMA ClaimExpiresEarlyKeeps ==
  ASSUME NEW e \in AccountEvents, ConsumerInv, ClaimExpiresEarly(e)
  PROVE  ConsumerInv' /\ KeepsEvents
<1> USE CopiesAssumption, RetriesAssumption DEF ConsumerInv, ConsumerTypeOK, Place, InBroker, Handled, NoEvent
<1>1. ConsumerTypeOK'
  BY DEF ClaimExpiresEarly, Expire, Drop, messageVars, Holders
<1>2. ClaimsAreHeld'
  BY <1>1 DEF ClaimExpiresEarly, Expire, Drop, messageVars, Holders, ClaimsAreHeld
<1>3. OneHandler'
  BY <1>1 DEF ClaimExpiresEarly, Expire, Drop, messageVars, Holders, OneHandler, ClaimsAreHeld
<1>4. RetriesWereFailures'
  BY <1>1 DEF ClaimExpiresEarly, Expire, Drop, messageVars, Holders, RetriesWereFailures
<1>5. ProcessedOnce'
  BY <1>1 DEF ClaimExpiresEarly, Expire, Drop, messageVars, Holders, ProcessedOnce, OneHandler, ClaimsAreHeld
<1>6. DeadLettersWereRetried'
  BY <1>1 DEF ClaimExpiresEarly, Expire, Drop, messageVars, Holders, DeadLettersWereRetried, RetriesWereFailures
<1>7. KeepsEvents
  BY <1>1 DEF ClaimExpiresEarly, Expire, Drop, messageVars, Holders, KeepsEvents, Answered, Kept, Copy, ClaimsAreHeld
<1> QED BY <1>1, <1>2, <1>3, <1>4, <1>5, <1>6, <1>7

\* The expiry of a saved outcome preserves the consumer's invariant and drops nothing.
LEMMA ResponseExpiresKeeps ==
  ASSUME NEW e \in AccountEvents, ConsumerInv, ResponseExpires(e)
  PROVE  ConsumerInv' /\ KeepsEvents
<1> USE CopiesAssumption, RetriesAssumption DEF ConsumerInv, ConsumerTypeOK, Place, InBroker, Handled, NoEvent
<1>1. ConsumerTypeOK'
  BY DEF ResponseExpires, Expire, Drop, messageVars
<1>2. ClaimsAreHeld'
  BY <1>1 DEF ResponseExpires, Expire, Drop, messageVars, ClaimsAreHeld
<1>3. OneHandler'
  BY <1>1 DEF ResponseExpires, Expire, Drop, messageVars, OneHandler, ClaimsAreHeld
<1>4. RetriesWereFailures'
  BY <1>1 DEF ResponseExpires, Expire, Drop, messageVars, RetriesWereFailures
<1>5. ProcessedOnce'
  BY <1>1 DEF ResponseExpires, Expire, Drop, messageVars, ProcessedOnce, OneHandler, ClaimsAreHeld
<1>6. DeadLettersWereRetried'
  BY <1>1 DEF ResponseExpires, Expire, Drop, messageVars, DeadLettersWereRetried, RetriesWereFailures
<1>7. KeepsEvents
  BY <1>1 DEF ResponseExpires, Expire, Drop, messageVars, KeepsEvents, Answered, Kept, Copy, ClaimsAreHeld
<1> QED BY <1>1, <1>2, <1>3, <1>4, <1>5, <1>6, <1>7

\* A message sent by the relay preserves the consumer's invariant and drops nothing.
LEMMA PublishKeeps ==
  ASSUME NEW c \in Copies, NEW e \in AccountEvents, ConsumerInv, Publish(c, e)
  PROVE  ConsumerInv' /\ KeepsEvents
<1> USE CopiesAssumption, RetriesAssumption DEF ConsumerInv, ConsumerTypeOK, Place, InBroker, Handled, NoEvent
<1>1. ConsumerTypeOK'
  BY DEF Publish, Fresh
<1>2. ClaimsAreHeld'
  BY <1>1 DEF Publish, Fresh, ClaimsAreHeld
<1>3. OneHandler'
  BY <1>1 DEF Publish, Fresh, OneHandler, ClaimsAreHeld
<1>4. RetriesWereFailures' /\ DeadLettersWereRetried'
  <2>1. retries'[c] = 0 /\ at'[c] = "queue" /\ event'[c] = e
    BY DEF Publish, Fresh, ConsumerTypeOK
  <2>2. failures' = failures /\ \A f \in AccountEvents : failures[f] \in Nat
    BY DEF Publish, ConsumerTypeOK
  <2>3. retries'[c] <= failures'[event'[c]] /\ \A f \in AccountEvents : failures'[f] >= failures[f]
    BY <2>1, <2>2
  <2>4. \A d \in Copies \ {c} : at'[d] = at[d] /\ event'[d] = event[d] /\ retries'[d] = retries[d]
    BY DEF Publish, Fresh, ConsumerTypeOK
  <2> QED BY <1>1, <2>1, <2>3, <2>4, CountersKept
<1>5. ProcessedOnce'
  BY <1>1 DEF Publish, Fresh, ProcessedOnce, OneHandler, ClaimsAreHeld
<1>7. KeepsEvents
  BY <1>1 DEF Publish, Fresh, KeepsEvents, Answered, Kept, Copy, ClaimsAreHeld
<1> QED BY <1>1, <1>2, <1>3, <1>4, <1>5, <1>7

-----------------------------------------------------------------------------
(* The relays and the indexer *)

\* Every step of a relay, and a committed row, keep the outbox well formed.
LEMMA RelayKeepsType ==
  ASSUME OutboxTypeOK, NEW b \in Brokers,
         \/ Poll(b) \/ PollNothing(b) \/ RelayCrash(b)
         \/ \E e \in Events : \/ Record(e) \/ SendAccepted(b, e) \/ SendRejected(b, e)
                              \/ MarkPublished(b, e) \/ MarkFails(b, e)
  PROVE  OutboxTypeOK'
<1>1. ASSUME NEW e \in Events, Record(e) PROVE OutboxTypeOK'
  BY <1>1 DEF Record, OutboxTypeOK
<1>2. CASE Poll(b)
  <2>1. Oldest(Unpublished(b)) \subseteq Unpublished(b)
    BY DEF Oldest
  <2> QED BY <1>2, <2>1 DEF Poll, OutboxTypeOK, Unpublished
<1>3. CASE PollNothing(b)
  BY <1>3 DEF PollNothing, relayVars, OutboxTypeOK
<1>4. ASSUME NEW e \in Events, SendAccepted(b, e) PROVE OutboxTypeOK'
  BY <1>4 DEF SendAccepted, OutboxTypeOK
<1>5. ASSUME NEW e \in Events, SendRejected(b, e) PROVE OutboxTypeOK'
  BY <1>5 DEF SendRejected, Advance, OutboxTypeOK
<1>6. ASSUME NEW e \in Events, MarkPublished(b, e) PROVE OutboxTypeOK'
  BY <1>6 DEF MarkPublished, Advance, Current, OutboxTypeOK
<1>7. ASSUME NEW e \in Events, MarkFails(b, e) PROVE OutboxTypeOK'
  BY <1>7 DEF MarkFails, Advance, OutboxTypeOK
<1>8. CASE RelayCrash(b)
  BY <1>8 DEF RelayCrash, OutboxTypeOK
<1> QED BY <1>1, <1>2, <1>3, <1>4, <1>5, <1>6, <1>7, <1>8

\* No step of a relay but an accepted send promises a row.
LEMMA OnlySendsPromise ==
  ASSUME OutboxTypeOK, NEW b \in Brokers,
         \/ Poll(b) \/ PollNothing(b) \/ RelayCrash(b)
         \/ \E e \in Events : \/ Record(e) \/ SendRejected(b, e)
                              \/ MarkPublished(b, e) \/ MarkFails(b, e)
  PROVE  \A f \in recorded' : Promised(f)' => f \in recorded /\ Promised(f)
<1> USE EventsAssumption
<1>0. \A f \in recorded : BrokerOf[f] \in Brokers
  BY DEF OutboxTypeOK
<1>1. ASSUME NEW e \in Events, Record(e)
      PROVE  \A f \in recorded' : Promised(f)' => f \in recorded /\ Promised(f)
  BY <1>1 DEF Record, OutboxTypeOK, Promised, Current
<1>2. CASE Poll(b)
  BY <1>0, <1>2 DEF Poll, OutboxTypeOK, Promised, Current
<1>3. CASE PollNothing(b)
  BY <1>3 DEF PollNothing, relayVars, OutboxTypeOK, Promised, Current
<1>4. ASSUME NEW e \in Events, SendRejected(b, e)
      PROVE  \A f \in recorded' : Promised(f)' => f \in recorded /\ Promised(f)
  BY <1>0, <1>4 DEF SendRejected, Advance, OutboxTypeOK, Promised, Current
<1>5. ASSUME NEW e \in Events, MarkPublished(b, e)
      PROVE  \A f \in recorded' : Promised(f)' => f \in recorded /\ Promised(f)
  <2>1. BrokerOf[e] = b
    BY <1>5 DEF MarkPublished, Current, OutboxTypeOK
  <2> QED BY <1>0, <1>5, <2>1 DEF MarkPublished, Advance, OutboxTypeOK, Promised, Current
<1>6. ASSUME NEW e \in Events, MarkFails(b, e)
      PROVE  \A f \in recorded' : Promised(f)' => f \in recorded /\ Promised(f)
  BY <1>0, <1>6 DEF MarkFails, Advance, OutboxTypeOK, Promised, Current
<1>7. CASE RelayCrash(b)
  BY <1>0, <1>7 DEF RelayCrash, OutboxTypeOK, Promised, Current
<1> QED BY <1>1, <1>2, <1>3, <1>4, <1>5, <1>6, <1>7

\* An accepted send promises the row it sent and no other.
LEMMA SendPromisesOne ==
  ASSUME OutboxTypeOK, NEW b \in Brokers, NEW e \in Events, SendAccepted(b, e)
  PROVE  /\ BrokerOf[e] = b
         /\ recorded' = recorded
         /\ \A f \in recorded : Promised(f)' => f = e \/ Promised(f)
<1> USE EventsAssumption
<1>1. BrokerOf[e] = b
  BY DEF SendAccepted, Current, OutboxTypeOK
<1>2. recorded' = recorded /\ published' = published /\ batch' = batch /\ e \in batch[b]
  BY DEF SendAccepted, Current
<1>3. ASSUME NEW f \in recorded, Promised(f)', f # e
      PROVE  Promised(f)
  <2>1. CASE f \in published
    BY <2>1 DEF Promised
  <2>2. CASE f \notin published
    <3>1. stage'[BrokerOf[f]] = "marking" /\ Current(BrokerOf[f], f)
      BY <1>2, <1>3, <2>2 DEF Promised, Current
    <3>2. BrokerOf[f] # b
      <4>1. f \in Nat /\ e \in Nat
        BY DEF OutboxTypeOK
      <4> QED BY <1>2, <1>3, <3>1, <4>1 DEF SendAccepted, Current
    <3>3. stage'[BrokerOf[f]] = stage[BrokerOf[f]]
      BY <3>2 DEF SendAccepted, OutboxTypeOK
    <3> QED BY <3>1, <3>3 DEF Promised
  <2> QED BY <2>1, <2>2
<1> QED BY <1>1, <1>2, <1>3

\* What was sent stays kept where a step newly promises only what it sends.
LEMMA SentCarriesOver ==
  ASSUME SentIsKept, KeepsEvents, Sent \subseteq Sent', lost \subseteq lost',
         \A f \in recorded' : Promised(f)' =>
           \/ f \in recorded /\ Promised(f)
           \/ /\ f \in RemittanceEvents => f \in Sent'
              /\ f \in AccountEvents => Answered(f)' \/ f \in lost'
  PROVE  SentIsKept'
<1> SUFFICES ASSUME NEW f \in recorded', Promised(f)'
             PROVE  /\ f \in RemittanceEvents => f \in Sent'
                    /\ f \in AccountEvents => Answered(f)' \/ f \in lost'
  BY DEF SentIsKept, Promised, Answered
<1>1. CASE f \in recorded /\ Promised(f)
  <2>1. /\ f \in RemittanceEvents => f \in Sent
        /\ f \in AccountEvents => Answered(f) \/ f \in lost
    BY <1>1 DEF SentIsKept, Promised, Answered
  <2> QED BY <2>1 DEF KeepsEvents
<1>2. CASE ~(f \in recorded /\ Promised(f))
  BY <1>2
<1> QED BY <1>1, <1>2

\* The indexer's part of IInv.
IndexerInv == IndexerTypeOK /\ SearchMissesAreKnown

\* A message sent to Kafka stays there and is not yet passed by the group.
LEMMA SendKeepsIndexer ==
  ASSUME IndexerInv, NEW e \in RemittanceEvents, Send(e)
  PROVE  IndexerInv' /\ Sent' = Sent \cup {e}
<1>1. log \in Seq(RemittanceEvents) /\ log' = Append(log, e)
  BY DEF IndexerInv, IndexerTypeOK, Send
<1>2. /\ log' \in Seq(RemittanceEvents)
      /\ Len(log) \in Nat /\ Len(log') = Len(log) + 1 /\ log'[Len(log) + 1] = e
      /\ \A i \in 1..Len(log) : log'[i] = log[i]
  BY <1>1
<1>3. IndexerTypeOK'
  BY <1>2 DEF IndexerInv, IndexerTypeOK, Send, Stopped, NoOffset
<1>4. SearchMissesAreKnown'
  BY <1>2, <1>3 DEF IndexerInv, SearchMissesAreKnown, IndexerTypeOK, Send, Stopped, NoOffset
<1>5. Sent' = Sent \cup {e}
  BY <1>2 DEF Sent
<1> QED BY <1>3, <1>4, <1>5 DEF IndexerInv

\* No step of the indexer passes a message that is not a known miss.
LEMMA IndexerKeeps ==
  ASSUME IndexerInv,
         \/ Subscribe \/ CommitOffset \/ IndexerCrash
         \/ \E e \in RemittanceEvents : IndexNext(e) \/ IndexFails(e)
  PROVE  IndexerInv' /\ Sent' = Sent
<1>1. IndexerTypeOK /\ SearchMissesAreKnown
  BY DEF IndexerInv
<1>2. log \in Seq(RemittanceEvents) /\ Len(log) \in Nat /\ Sent \subseteq RemittanceEvents
  BY <1>1 DEF IndexerTypeOK, Sent
<1>3. log' = log /\ Sent' = Sent
  BY DEF Subscribe, IndexNext, IndexFails, CommitOffset, IndexerCrash, Sent
<1>4. CASE Subscribe
  BY <1>1, <1>2, <1>3, <1>4
     DEF Subscribe, IndexerInv, IndexerTypeOK, SearchMissesAreKnown, Sent, Stopped, NoOffset
<1>5. ASSUME NEW e \in RemittanceEvents, IndexNext(e) PROVE IndexerInv'
  BY <1>1, <1>2, <1>3, <1>5
     DEF IndexNext, NextMessage, IndexerInv, IndexerTypeOK, SearchMissesAreKnown, Stopped, NoOffset
<1>6. ASSUME NEW e \in RemittanceEvents, IndexFails(e) PROVE IndexerInv'
  BY <1>1, <1>2, <1>3, <1>6
     DEF IndexFails, NextMessage, IndexerInv, IndexerTypeOK, SearchMissesAreKnown, Stopped, NoOffset
<1>7. CASE CommitOffset
  BY <1>1, <1>2, <1>3, <1>7
     DEF CommitOffset, IndexerInv, IndexerTypeOK, SearchMissesAreKnown, Stopped, NoOffset
<1>8. CASE IndexerCrash
  BY <1>1, <1>2, <1>3, <1>8
     DEF IndexerCrash, IndexerInv, IndexerTypeOK, SearchMissesAreKnown, Stopped, NoOffset
<1> QED BY <1>3, <1>4, <1>5, <1>6, <1>7, <1>8

-----------------------------------------------------------------------------
(* The composition *)

\* A step that leaves the consumer alone keeps its invariant.
LEMMA ConsumerUntouched ==
  ASSUME ConsumerInv, UNCHANGED consumerVars
  PROVE  ConsumerInv' /\ KeepsEvents
BY DEF consumerVars, ConsumerInv, ConsumerTypeOK, ClaimsAreHeld, OneHandler, RetriesWereFailures,
       ProcessedOnce, DeadLettersWereRetried, KeepsEvents, Answered, Kept, Copy

\* What the worker does with a copy, in any order and with any fault, keeps
\* the consumer's invariant and gives up no event.
LEMMA WorkerKeeps ==
  ASSUME ConsumerInv,
         (\E c \in Copies : Handle(c)) \/ ExpireClaims \/ ConsumerFault \/ BrokerRestart
  PROVE  ConsumerInv' /\ KeepsEvents
<1>1. ASSUME NEW c \in Copies, Handle(c) PROVE ConsumerInv' /\ KeepsEvents
  BY <1>1, ClaimKeeps, SkipDuplicateKeeps, ProcessKeeps, ProcessFailsKeeps, SaveKeeps, AckKeeps,
     AckThrowsKeeps, ReleaseClaimKeeps, HandleFailureKeeps, HandleFailureThrowsKeeps,
     RetryExpiresKeeps DEF Handle
<1>2. CASE ExpireClaims
  BY <1>2, ClaimExpiresKeeps DEF ExpireClaims
<1>3. CASE ConsumerFault
  BY <1>3, ConsumerCrashKeeps, CrashUnackedKeeps, ClaimUnansweredKeeps, SaveFailsKeeps,
     ClaimExpiresEarlyKeeps, ResponseExpiresKeeps DEF ConsumerFault
<1>4. CASE BrokerRestart
  BY <1>4, ChannelClosedKeeps, ConsumerUntouched DEF BrokerRestart
<1> QED BY <1>1, <1>2, <1>3, <1>4

\* A step that leaves the indexer alone keeps its invariant.
LEMMA IndexerStays ==
  ASSUME IndexerInv, UNCHANGED indexerVars
  PROVE  IndexerInv' /\ Sent' = Sent
BY DEF indexerVars, IndexerInv, IndexerTypeOK, SearchMissesAreKnown, Sent

\* Sending an account event, or failing to, keeps the invariant.
LEMMA SendToQueueKeeps ==
  ASSUME IInv, NEW e \in Events,
         SendToQueue(e) \/ SendToQueueLost(e) \/ SendOnDeadChannel(e) \/ SendToQueueFails(e)
  PROVE  ConsumerInv' /\ IndexerInv' /\ OutboxTypeOK' /\ SentIsKept' /\ lost' \subseteq AccountEvents
<1>0. OutboxTypeOK /\ IndexerInv /\ ConsumerInv /\ SentIsKept /\ lost \subseteq AccountEvents
  BY DEF IInv, TypeOK, IndexerInv, ConsumerInv
<1>1. IndexerInv' /\ Sent' = Sent
  BY <1>0, IndexerStays DEF SendToQueue, SendToQueueLost, SendOnDeadChannel, SendToQueueFails
<1>2. CASE SendToQueue(e) \/ SendToQueueLost(e)
  <2>1. SendAccepted("rabbitmq", e)
    BY <1>2 DEF SendToQueue, SendToQueueLost
  <2>2. /\ BrokerOf[e] = "rabbitmq" /\ recorded' = recorded
        /\ \A f \in recorded : Promised(f)' => f = e \/ Promised(f)
    BY <1>0, <2>1, SendPromisesOne DEF Brokers
  <2>3. e \in AccountEvents /\ e \notin RemittanceEvents
    BY <2>2, BrokersAssumption
  <2>4. OutboxTypeOK'
    BY <1>0, <2>1, RelayKeepsType DEF Brokers
  <2>5. ConsumerInv' /\ KeepsEvents
    BY <1>0, <1>2, <2>3, PublishKeeps, ConsumerUntouched DEF SendToQueue, SendToQueueLost
  <2>6. Answered(e)' \/ e \in lost'
    <3>1. ASSUME NEW c \in Copies, Publish(c, e) PROVE Kept(e)'
      BY <1>0, <3>1 DEF Publish, Kept, Copy, ConsumerInv, ConsumerTypeOK
    <3>2. CASE SendToQueue(e)
      BY <3>1, <3>2 DEF SendToQueue, Answered
    <3>3. CASE SendToQueueLost(e)
      BY <3>3 DEF SendToQueueLost
    <3> QED BY <1>2, <3>2, <3>3
  <2>7. lost \subseteq lost' /\ lost' \subseteq AccountEvents
    BY <1>0, <1>2, <2>3 DEF SendToQueue, SendToQueueLost
  <2>8. SentIsKept'
    BY <1>0, <1>1, <2>2, <2>3, <2>5, <2>6, <2>7, SentCarriesOver
  <2> QED BY <1>1, <2>4, <2>5, <2>7, <2>8
<1>3. CASE SendOnDeadChannel(e) \/ SendToQueueFails(e)
  <2>1. SendRejected("rabbitmq", e) /\ UNCHANGED consumerVars /\ lost' = lost
    BY <1>3 DEF SendOnDeadChannel, SendToQueueFails
  <2>2. OutboxTypeOK'
    BY <1>0, <2>1, RelayKeepsType DEF Brokers
  <2>3. \A f \in recorded' : Promised(f)' => f \in recorded /\ Promised(f)
    BY <1>0, <2>1, OnlySendsPromise DEF Brokers
  <2>4. ConsumerInv' /\ KeepsEvents
    BY <1>0, <2>1, ConsumerUntouched
  <2>5. SentIsKept'
    BY <1>0, <1>1, <2>1, <2>3, <2>4, SentCarriesOver
  <2> QED BY <1>0, <1>1, <2>1, <2>2, <2>4, <2>5
<1> QED BY <1>2, <1>3

\* Sending a remittance event, or failing to, keeps the invariant.
LEMMA SendToKafkaKeeps ==
  ASSUME IInv, NEW e \in Events, SendToKafka(e) \/ SendToKafkaFails(e)
  PROVE  ConsumerInv' /\ IndexerInv' /\ OutboxTypeOK' /\ SentIsKept' /\ lost' \subseteq AccountEvents
<1>0. OutboxTypeOK /\ IndexerInv /\ ConsumerInv /\ SentIsKept /\ lost \subseteq AccountEvents
  BY DEF IInv, TypeOK, IndexerInv, ConsumerInv
<1>1. ConsumerInv' /\ KeepsEvents /\ lost' = lost
  BY <1>0, ConsumerUntouched DEF SendToKafka, SendToKafkaFails
<1>2. e \in RemittanceEvents /\ e \notin AccountEvents
  <2>1. Current("kafka", e)
    BY DEF SendToKafka, SendToKafkaFails, SendAccepted, SendRejected
  <2>2. BrokerOf[e] = "kafka"
    BY <1>0, <2>1 DEF Current, OutboxTypeOK, Brokers
  <2> QED BY <2>2, BrokersAssumption
<1>3. CASE SendToKafka(e)
  <2>1. OutboxTypeOK'
    BY <1>0, <1>3, RelayKeepsType DEF SendToKafka, Brokers
  <2>2. recorded' = recorded /\ \A f \in recorded : Promised(f)' => f = e \/ Promised(f)
    BY <1>0, <1>3, SendPromisesOne DEF SendToKafka, Brokers
  <2>3. IndexerInv' /\ Sent' = Sent \cup {e}
    BY <1>0, <1>2, <1>3, SendKeepsIndexer DEF SendToKafka
  <2>4. SentIsKept'
    BY <1>0, <1>1, <1>2, <2>2, <2>3, SentCarriesOver
  <2> QED BY <1>0, <1>1, <2>1, <2>3, <2>4
<1>4. CASE SendToKafkaFails(e)
  <2>1. OutboxTypeOK'
    BY <1>0, <1>4, RelayKeepsType DEF SendToKafkaFails, Brokers
  <2>2. \A f \in recorded' : Promised(f)' => f \in recorded /\ Promised(f)
    BY <1>0, <1>4, OnlySendsPromise DEF SendToKafkaFails, Brokers
  <2>3. IndexerInv' /\ Sent \subseteq Sent'
    BY <1>0, <1>2, <1>4, SendKeepsIndexer, IndexerStays DEF SendToKafkaFails
  <2>4. SentIsKept'
    BY <1>0, <1>1, <2>2, <2>3, SentCarriesOver
  <2> QED BY <1>0, <1>1, <2>1, <2>3, <2>4
<1> QED BY <1>3, <1>4

\* Polling, marking, crashing and committing a row keep the invariant.
LEMMA RelayKeeps ==
  ASSUME IInv, NEW b \in Brokers, RecordEvent \/ Relay(b) \/ RelayFault(b)
  PROVE  ConsumerInv' /\ IndexerInv' /\ OutboxTypeOK' /\ SentIsKept' /\ lost' \subseteq AccountEvents
<1>0. OutboxTypeOK /\ IndexerInv /\ ConsumerInv /\ SentIsKept /\ lost \subseteq AccountEvents
  BY DEF IInv, TypeOK, IndexerInv, ConsumerInv
<1>1. ConsumerInv' /\ KeepsEvents /\ IndexerInv' /\ Sent' = Sent /\ lost' = lost
  BY <1>0, ConsumerUntouched, IndexerStays DEF RecordEvent, Relay, RelayFault
<1>2. \/ Poll(b) \/ PollNothing(b) \/ RelayCrash(b)
      \/ \E e \in Events : Record(e) \/ MarkPublished(b, e) \/ MarkFails(b, e)
  BY DEF RecordEvent, Relay, RelayFault
<1>3. OutboxTypeOK'
  BY <1>0, <1>2, RelayKeepsType
<1>4. \A f \in recorded' : Promised(f)' => f \in recorded /\ Promised(f)
  BY <1>0, <1>2, OnlySendsPromise
<1>5. SentIsKept'
  BY <1>0, <1>1, <1>4, SentCarriesOver
<1> QED BY <1>0, <1>1, <1>3, <1>5

\* The consumers' steps leave the outbox alone and keep the invariant.
LEMMA ConsumersKeep ==
  ASSUME IInv,
         \/ \E c \in Copies : Handle(c)
         \/ ExpireClaims \/ ConsumerFault \/ BrokerRestart
         \/ IndexMessages \/ CommitOffsets \/ IndexerFault
         \/ UNCHANGED vars
  PROVE  ConsumerInv' /\ IndexerInv' /\ OutboxTypeOK' /\ SentIsKept' /\ lost' \subseteq AccountEvents
<1>0. OutboxTypeOK /\ IndexerInv /\ ConsumerInv /\ SentIsKept /\ lost \subseteq AccountEvents
  BY DEF IInv, TypeOK, IndexerInv, ConsumerInv
<1>1. /\ recorded' = recorded /\ published' = published /\ batch' = batch /\ stage' = stage
      /\ channel' \in {channel, "dead"} /\ lost' = lost
  BY DEF Handle, ExpireClaims, ConsumerFault, BrokerRestart, IndexMessages, CommitOffsets,
         IndexerFault, relayVars, vars
<1>2. OutboxTypeOK'
  BY <1>0, <1>1 DEF OutboxTypeOK
<1>3. \A f \in recorded' : Promised(f)' => f \in recorded /\ Promised(f)
  BY <1>1 DEF Promised, Current
<1>4. CASE (\E c \in Copies : Handle(c)) \/ ExpireClaims \/ ConsumerFault \/ BrokerRestart
  <2>1. ConsumerInv' /\ KeepsEvents
    BY <1>0, <1>4, WorkerKeeps
  <2>2. IndexerInv' /\ Sent' = Sent
    BY <1>0, <1>4, IndexerStays DEF Handle, ExpireClaims, ConsumerFault, BrokerRestart
  <2> QED BY <1>0, <1>1, <1>2, <1>3, <2>1, <2>2, SentCarriesOver
<1>5. CASE IndexMessages \/ CommitOffsets \/ IndexerFault \/ UNCHANGED vars
  <2>1. ConsumerInv' /\ KeepsEvents
    BY <1>0, <1>5, ConsumerUntouched DEF IndexMessages, CommitOffsets, IndexerFault, vars
  <2>2. \/ Subscribe \/ CommitOffset \/ IndexerCrash \/ UNCHANGED indexerVars
        \/ \E e \in RemittanceEvents : IndexNext(e) \/ IndexFails(e)
    BY <1>5 DEF IndexMessages, CommitOffsets, IndexerFault, vars
  <2>3. IndexerInv' /\ Sent' = Sent
    BY <1>0, <2>2, IndexerKeeps, IndexerStays
  <2> QED BY <1>0, <1>1, <1>2, <1>3, <2>1, <2>3, SentCarriesOver
<1> QED BY <1>4, <1>5

-----------------------------------------------------------------------------
(* The journey of an event *)

\* What a step may do to the abstract state, unless nothing.
Travels == [Journey!Next]_<<recorded, HandedOver, published, effects, indexed, forgotten>>

\* An entry is forgotten only of an event that was handed over.
LEMMA DropForgets ==
  ASSUME JourneyInOrder, ConsumerTypeOK, NEW e \in AccountEvents, Drop(e)
  PROVE  forgotten' = forgotten \/ (e \in HandedOver /\ forgotten' = forgotten \cup {e})
<1>1. CASE effects[e] > 0
  BY <1>1 DEF Drop, JourneyInOrder
<1>2. ASSUME NEW c \in Copies, at[c] = "processing", event[c] = e
      PROVE  e \in HandedOver
  BY <1>2 DEF HandedOver, Messaged, Copy
<1> QED BY <1>1, <1>2 DEF Drop

\* What a step of the consumer's side may do: act on an event, forget one.
Acts ==
  \E c \in Copies :
    /\ at[c] = "processing"
    /\ effects' = [effects EXCEPT ![event[c]] = @ + 1] /\ forgotten' = forgotten

Forgets ==
  \E e \in AccountEvents \cap HandedOver :
    effects' = effects /\ forgotten' = forgotten \cup {e}

\* The consumer's side sends no event it was not sent, whatever happens to the
\* copies.
LEMMA WorkerJourney ==
  ASSUME ConsumerTypeOK, JourneyInOrder,
         (\E c \in Copies : Handle(c)) \/ ExpireClaims \/ ConsumerFault \/ BrokerRestart
  PROVE  /\ Messaged' = Messaged
         /\ Acts \/ Forgets \/ UNCHANGED <<effects, forgotten>>
<1> DEFINE Goal == /\ Messaged' = Messaged
                   /\ Acts \/ Forgets \/ UNCHANGED <<effects, forgotten>>
<1>1. /\ at \in [Copies -> Place]
      /\ \A c \in Copies : at[c] # "unsent" => event[c] \in AccountEvents
  BY DEF ConsumerTypeOK
<1>2. ASSUME event' = event, \A c \in Copies : at'[c] = "unsent" <=> at[c] = "unsent"
      PROVE  Messaged' = Messaged
  BY <1>2 DEF Messaged, Copy
<1>3. \A c \in Copies : Requeued[c] = "unsent" <=> at[c] = "unsent"
  BY DEF Requeued, Unacked, Handled
<1>4. ASSUME NEW e \in AccountEvents, Drop(e), effects' = effects
      PROVE  Forgets \/ UNCHANGED <<effects, forgotten>>
  BY <1>4, DropForgets DEF Forgets
<1>5. ASSUME NEW c \in Copies,
             Claim(c) \/ SkipDuplicate(c) \/ ProcessFails(c) \/ Save(c) \/ SaveFails(c)
               \/ Ack(c) \/ AckThrows(c) \/ HandleFailure(c) \/ RetryExpires(c)
      PROVE  Goal
  <2>1. event' = event /\ UNCHANGED <<effects, forgotten>>
    BY <1>5 DEF Claim, SkipDuplicate, ProcessFails, Save, SaveFails, Ack, AckThrows,
                HandleFailure, RetryExpires, Fail
  <2>2. \E here, there \in Place \ {"unsent"} : Move(c, here, there)
    BY <1>5 DEF Claim, SkipDuplicate, ProcessFails, Save, SaveFails, Ack, AckThrows,
                HandleFailure, RetryExpires, Fail, NextPlace, Place, InBroker, Handled
  <2>3. \A d \in Copies : at'[d] = "unsent" <=> at[d] = "unsent"
    BY <1>1, <2>2 DEF Move
  <2> QED BY <1>2, <2>1, <2>3
<1>6. ASSUME NEW c \in Copies, Process(c) PROVE Goal
  <2>1. event' = event /\ \A d \in Copies : at'[d] = "unsent" <=> at[d] = "unsent"
    BY <1>1, <1>6 DEF Process, Move
  <2>2. Acts
    BY <1>6 DEF Process, Move, Acts
  <2> QED BY <1>2, <2>1, <2>2
<1>7. ASSUME NEW c \in Copies, ReleaseClaim(c) PROVE Goal
  <2>1. event' = event /\ \A d \in Copies : at'[d] = "unsent" <=> at[d] = "unsent"
    BY <1>1, <1>7 DEF ReleaseClaim, Move
  <2>2. event[c] \in AccountEvents /\ effects' = effects
    BY <1>1, <1>7 DEF ReleaseClaim, Move
  <2> QED BY <1>2, <1>4, <1>7, <2>1, <2>2 DEF ReleaseClaim
<1>8. ASSUME ConsumerCrash \/ ChannelClosed \/ UNCHANGED consumerVars
             \/ \E c \in Copies : ClaimUnanswered(c) \/ HandleFailureThrows(c)
      PROVE  Goal
  <2>1. event' = event /\ UNCHANGED <<effects, forgotten>>
    BY <1>8 DEF ConsumerCrash, ChannelClosed, consumerVars, messageVars, ClaimUnanswered,
                HandleFailureThrows, Restart
  <2>2. at' = at \/ at' = Requeued
    BY <1>8 DEF ConsumerCrash, ChannelClosed, consumerVars, messageVars, ClaimUnanswered,
                HandleFailureThrows
  <2> QED BY <1>2, <1>3, <2>1, <2>2
<1>9. ASSUME NEW c \in Copies, NEW next \in Copies, CrashUnacked(c, next) PROVE Goal
  <2>1. /\ event' = [event EXCEPT ![next] = event[c]]
        /\ at' = [Requeued EXCEPT ![next] = NextPlace(c)]
        /\ at[c] = "released" /\ at[next] = "unsent" /\ UNCHANGED <<effects, forgotten>>
    BY <1>9 DEF CrashUnacked, Fresh
  <2>2. \A d \in Copies \ {next} : event'[d] = event[d] /\ (at'[d] = "unsent" <=> at[d] = "unsent")
    BY <1>3, <2>1 DEF ConsumerTypeOK, Requeued
  <2>3. event'[next] = event[c] /\ at'[next] # "unsent" /\ c # next
    BY <2>1 DEF ConsumerTypeOK, Requeued, NextPlace
  <2>4. Messaged' = Messaged
    BY <2>1, <2>2, <2>3 DEF Messaged, Copy
  <2> QED BY <2>1, <2>4
<1>10. ASSUME NEW e \in AccountEvents, ClaimExpires(e) \/ ClaimExpiresEarly(e) \/ ResponseExpires(e)
       PROVE  Goal
  <2>1. Drop(e) /\ UNCHANGED <<at, event, effects>>
    BY <1>10 DEF ClaimExpires, ClaimExpiresEarly, ResponseExpires, Expire, messageVars
  <2> QED BY <1>2, <1>4, <2>1
<1> HIDE DEF Goal
<1> QED BY <1>5, <1>6, <1>7, <1>8, <1>9, <1>10
        DEF Handle, ExpireClaims, ConsumerFault, BrokerRestart, Goal

\* Every step of the consumer's side is one of the journey, or none.
LEMMA WorkerTravels ==
  ASSUME IInv, (\E c \in Copies : Handle(c)) \/ ExpireClaims \/ ConsumerFault \/ BrokerRestart
  PROVE  Travels
<1>1. ConsumerTypeOK /\ JourneyInOrder /\ OneHandler
  BY DEF IInv, TypeOK
<1>2. UNCHANGED <<recorded, published, lost>> /\ UNCHANGED indexerVars
  BY DEF Handle, ExpireClaims, ConsumerFault, BrokerRestart, relayVars
<1>3. UNCHANGED indexed /\ Sent' = Sent
  BY <1>2 DEF indexerVars, Sent
<1>4. HandedOver' = HandedOver
  BY <1>1, <1>2, <1>3, WorkerJourney DEF HandedOver
<1>5. CASE UNCHANGED <<effects, forgotten>>
  BY <1>2, <1>3, <1>4, <1>5 DEF Travels
<1>6. CASE Acts
  <2>1. PICK c \in Copies : /\ at[c] = "processing" /\ forgotten' = forgotten
                            /\ effects' = [effects EXCEPT ![event[c]] = @ + 1]
    BY <1>6 DEF Acts
  <2>2. event[c] \in AccountEvents /\ event[c] \in HandedOver
    BY <1>1, <2>1 DEF ConsumerTypeOK, HandedOver, Messaged, Copy
  <2>3. effects[event[c]] = 0 \/ event[c] \in forgotten
    BY <1>1, <2>1, <2>2 DEF OneHandler
  <2>4. Journey!Act(event[c])
    BY <1>2, <1>3, <1>4, <2>1, <2>2, <2>3 DEF Journey!Act
  <2> QED BY <2>2, <2>4 DEF Travels, Journey!Next
<1>7. CASE Forgets
  <2>1. PICK e \in AccountEvents \cap HandedOver :
          effects' = effects /\ forgotten' = forgotten \cup {e}
    BY <1>7 DEF Forgets
  <2>2. Journey!Forget(e)
    BY <1>2, <1>3, <1>4, <2>1 DEF Journey!Forget
  <2> QED BY <2>2 DEF Travels, Journey!Next
<1> QED BY <1>1, <1>5, <1>6, <1>7, WorkerJourney

\* The handed-over events are the account's and the remittances'.
LEMMA KindsOfEvents ==
  ASSUME IInv
  PROVE  /\ Events = AccountEvents \cup RemittanceEvents
         /\ HandedOver \subseteq Events /\ recorded \subseteq Events
<1>1. Events = AccountEvents \cup RemittanceEvents
  BY BrokersAssumption, EventsAssumption DEF Brokers
<1>2. Sent \subseteq RemittanceEvents
  BY DEF IInv, TypeOK, IndexerTypeOK, Sent
<1> QED BY <1>1, <1>2 DEF IInv, TypeOK, OutboxTypeOK, HandedOver, Messaged

\* A sent row was committed; sending takes its event on.
LEMMA SendTravels ==
  ASSUME IInv, NEW e \in Events,
         \/ SendToQueue(e) \/ SendToQueueLost(e) \/ SendOnDeadChannel(e) \/ SendToQueueFails(e)
         \/ SendToKafka(e) \/ SendToKafkaFails(e)
  PROVE  Travels /\ (HandedOver' = HandedOver \cup {e} \/ HandedOver' = HandedOver)
         /\ (SendToQueue(e) \/ SendToQueueLost(e) \/ SendToKafka(e) => e \in HandedOver')
<1>1. PICK b \in Brokers : SendAccepted(b, e) \/ SendRejected(b, e)
  BY DEF SendToQueue, SendToQueueLost, SendOnDeadChannel, SendToQueueFails, SendToKafka,
         SendToKafkaFails, Brokers
<1>2. e \in recorded /\ UNCHANGED <<recorded, published>>
  BY <1>1 DEF SendAccepted, SendRejected, Current, IInv, TypeOK, OutboxTypeOK
<1>3. UNCHANGED <<effects, forgotten, indexed>>
  BY DEF SendToQueue, SendToQueueLost, SendOnDeadChannel, SendToQueueFails, SendToKafka,
         SendToKafkaFails, Publish, Send, consumerVars, indexerVars
<1>4. ConsumerTypeOK /\ IndexerInv
  BY DEF IInv, TypeOK, IndexerInv
<1>5. CASE SendToQueue(e) \/ SendToQueueLost(e)
  <2>1. e \in AccountEvents
    BY <1>5, BrokersAssumption
       DEF SendToQueue, SendToQueueLost, SendAccepted, Current, IInv, TypeOK, OutboxTypeOK, Brokers
  <2>2. CASE SendToQueue(e)
    <3>1. PICK c \in Copies : Publish(c, e)
      BY <2>2 DEF SendToQueue
    <3>2. /\ at[c] = "unsent" /\ at'[c] = "queue" /\ event'[c] = e
          /\ \A d \in Copies \ {c} : at'[d] = at[d] /\ event'[d] = event[d]
      BY <1>4, <3>1 DEF Publish, Fresh, ConsumerTypeOK
    <3>3. Messaged' = Messaged \cup {e}
      BY <2>1, <3>2 DEF Messaged, Copy
    <3>4. lost' = lost /\ Sent' = Sent
      BY <2>2 DEF SendToQueue, indexerVars, Sent
    <3> QED BY <3>3, <3>4, <1>2, <1>3, KindsOfEvents
            DEF HandedOver, Travels, Journey!Next, Journey!Send
  <2>3. CASE SendToQueueLost(e)
    <3>1. lost' = lost \cup {e} /\ Sent' = Sent /\ Messaged' = Messaged
      BY <2>3 DEF SendToQueueLost, consumerVars, indexerVars, Sent, Messaged, Copy
    <3> QED BY <3>1, <1>2, <1>3, KindsOfEvents
            DEF HandedOver, Travels, Journey!Next, Journey!Send
  <2>4. ~(SendToKafka(e)) \/ e \in HandedOver'
    BY <1>5, <2>2, <2>3
  <2> QED BY <1>5, <2>2, <2>3, <2>4
<1>6. CASE SendToKafka(e) \/ (SendToKafkaFails(e) /\ Send(e))
  <2>1. e \in RemittanceEvents
    BY <1>6, BrokersAssumption
       DEF SendToKafka, SendToKafkaFails, SendAccepted, SendRejected, Current, IInv, TypeOK,
           OutboxTypeOK, Brokers
  <2>2. Sent' = Sent \cup {e}
    BY <1>4, <1>6, <2>1, SendKeepsIndexer DEF SendToKafka
  <2>3. lost' = lost /\ Messaged' = Messaged
    BY <1>6 DEF SendToKafka, SendToKafkaFails, consumerVars, Messaged, Copy
  <2> QED BY <2>2, <2>3, <1>2, <1>3, KindsOfEvents
          DEF HandedOver, Travels, Journey!Next, Journey!Send
<1>7. CASE SendOnDeadChannel(e) \/ SendToQueueFails(e) \/ (SendToKafkaFails(e) /\ UNCHANGED indexerVars)
  <2>1. lost' = lost /\ Messaged' = Messaged /\ Sent' = Sent
    BY <1>7 DEF SendOnDeadChannel, SendToQueueFails, SendToKafkaFails, consumerVars, indexerVars,
                Messaged, Copy, Sent
  <2>2. ~(SendToQueue(e) \/ SendToQueueLost(e) \/ SendToKafka(e)) \/ e \in HandedOver'
    BY <1>5, <1>6
  <2> QED BY <2>1, <2>2, <1>2, <1>3 DEF HandedOver, Travels
<1> QED BY <1>5, <1>6, <1>7 DEF SendToKafkaFails

\* The relays and the indexer take an event one step on at a time.
LEMMA OthersTravel ==
  ASSUME IInv,
         \/ RecordEvent \/ \E b \in Brokers : Relay(b) \/ RelayFault(b)
         \/ IndexMessages \/ CommitOffsets \/ IndexerFault
         \/ UNCHANGED vars
  PROVE  Travels /\ HandedOver' = HandedOver
<1>1. IndexerInv /\ OutboxTypeOK /\ JourneyInOrder
  BY DEF IInv, TypeOK, IndexerInv
<1>2. UNCHANGED consumerVars /\ lost' = lost
  BY DEF RecordEvent, Relay, RelayFault, IndexMessages, CommitOffsets, IndexerFault, vars
<1>3. UNCHANGED <<effects, forgotten>> /\ Messaged' = Messaged
  BY <1>2 DEF consumerVars, Messaged, Copy
<1>4. CASE RecordEvent \/ \E b \in Brokers : Relay(b) \/ RelayFault(b)
  <2>1. Sent' = Sent /\ indexed' = indexed
    BY <1>4 DEF RecordEvent, Relay, RelayFault, indexerVars, Sent
  <2>2. HandedOver' = HandedOver
    BY <1>2, <1>3, <2>1 DEF HandedOver
  <2>3. ASSUME NEW e \in Events, Record(e) PROVE Travels
    BY <1>3, <2>1, <2>2, <2>3, KindsOfEvents
       DEF Record, Travels, Journey!Next, Journey!Record
  <2>4. ASSUME NEW b \in Brokers, NEW e \in Events, MarkPublished(b, e) PROVE Travels
    <3>1. e \in recorded /\ Promised(e)
      BY <1>1, <2>4 DEF MarkPublished, Current, OutboxTypeOK, Promised
    <3>2. e \in HandedOver
      BY <1>1, <3>1 DEF JourneyInOrder
    <3>3. Journey!Publish(e)
      BY <1>3, <2>1, <2>2, <2>4, <3>2 DEF MarkPublished, Journey!Publish
    <3> QED BY <3>3, KindsOfEvents DEF Travels, Journey!Next
  <2>5. ASSUME NEW b \in Brokers,
               Poll(b) \/ PollNothing(b) \/ RelayCrash(b) \/ \E e \in Events : MarkFails(b, e)
        PROVE  Travels
    BY <1>3, <2>1, <2>2, <2>5 DEF Poll, PollNothing, RelayCrash, MarkFails, relayVars, Travels
  <2> QED BY <1>4, <2>2, <2>3, <2>4, <2>5 DEF RecordEvent, Relay, RelayFault
<1>5. CASE IndexMessages \/ CommitOffsets \/ IndexerFault \/ UNCHANGED vars
  <2>1. UNCHANGED <<recorded, published>>
    BY <1>5 DEF IndexMessages, CommitOffsets, IndexerFault, relayVars, vars
  <2>2. \/ Subscribe \/ CommitOffset \/ IndexerCrash \/ UNCHANGED indexerVars
        \/ \E e \in RemittanceEvents : IndexNext(e) \/ IndexFails(e)
    BY <1>5 DEF IndexMessages, CommitOffsets, IndexerFault, vars
  <2>3. Sent' = Sent
    BY <1>1, <2>2, IndexerKeeps, IndexerStays
  <2>4. HandedOver' = HandedOver
    BY <1>2, <1>3, <2>3 DEF HandedOver
  <2>5. ASSUME NEW e \in RemittanceEvents, IndexNext(e) PROVE Travels
    <3>1. e \in Sent /\ indexed' = indexed \cup {e}
      BY <1>1, <2>5 DEF IndexNext, NextMessage, Sent, IndexerInv, IndexerTypeOK, Stopped
    <3>2. Journey!Index(e)
      BY <1>3, <2>1, <2>4, <3>1 DEF HandedOver, Journey!Index
    <3> QED BY <3>2 DEF Travels, Journey!Next
  <2>6. ASSUME indexed' = indexed PROVE Travels
    BY <1>3, <2>1, <2>4, <2>6 DEF Travels
  <2>7. indexed' = indexed \/ \E e \in RemittanceEvents : IndexNext(e)
    BY <2>2 DEF Subscribe, CommitOffset, IndexerCrash, IndexFails, indexerVars
  <2> QED BY <2>4, <2>5, <2>6, <2>7
<1> QED BY <1>4, <1>5

\* Every step takes one event one step on, or none.
LEMMA NextTravels == ASSUME IInv, [Next]_vars PROVE Travels
BY WorkerTravels, SendTravels, OthersTravel DEF Next, SendNext, SendFault, Brokers

\* What is promised was handed over.
LEMMA JourneyStep == ASSUME IInv, [Next]_vars PROVE JourneyInOrder'
<1>1. JourneyInOrder /\ OutboxTypeOK /\ ConsumerTypeOK
  BY DEF IInv, TypeOK
<1>2. \A f \in recorded' : Promised(f)' => f \in HandedOver'
  <2>1. ASSUME \A f \in recorded' : Promised(f)' => f \in recorded /\ Promised(f),
               HandedOver \subseteq HandedOver'
        PROVE  \A f \in recorded' : Promised(f)' => f \in HandedOver'
    BY <1>1, <2>1 DEF JourneyInOrder
  <2>2. CASE (\E c \in Copies : Handle(c)) \/ ExpireClaims \/ ConsumerFault \/ BrokerRestart
    <3>1. UNCHANGED <<recorded, published, batch, stage>>
      BY <2>2 DEF Handle, ExpireClaims, ConsumerFault, BrokerRestart, relayVars
    <3>2. UNCHANGED lost /\ Sent' = Sent
      BY <2>2 DEF Handle, ExpireClaims, ConsumerFault, BrokerRestart, indexerVars, Sent
    <3>3. HandedOver' = HandedOver
      BY <1>1, <2>2, <3>2, WorkerJourney DEF HandedOver
    <3> QED BY <2>1, <3>1, <3>3 DEF Promised, Current
  <2>3. CASE IndexMessages \/ CommitOffsets \/ IndexerFault \/ UNCHANGED vars
    <3>1. UNCHANGED <<recorded, published, batch, stage>>
      BY <2>3 DEF IndexMessages, CommitOffsets, IndexerFault, relayVars, vars
    <3>2. HandedOver' = HandedOver
      BY <2>3, OthersTravel
    <3> QED BY <2>1, <3>1, <3>2 DEF Promised, Current
  <2>4. ASSUME NEW b \in Brokers, RecordEvent \/ Relay(b) \/ RelayFault(b)
        PROVE  \A f \in recorded' : Promised(f)' => f \in HandedOver'
    <3>1. \/ Poll(b) \/ PollNothing(b) \/ RelayCrash(b)
          \/ \E e \in Events : Record(e) \/ MarkPublished(b, e) \/ MarkFails(b, e)
      BY <2>4 DEF RecordEvent, Relay, RelayFault
    <3>2. \A f \in recorded' : Promised(f)' => f \in recorded /\ Promised(f)
      BY <1>1, <3>1, OnlySendsPromise
    <3>3. HandedOver' = HandedOver
      BY <2>4, OthersTravel
    <3> QED BY <2>1, <3>2, <3>3
  <2>5. ASSUME NEW e \in Events, SendToQueue(e) \/ SendToQueueLost(e) \/ SendToKafka(e)
        PROVE  \A f \in recorded' : Promised(f)' => f \in HandedOver'
    <3>1. recorded' = recorded /\ \A f \in recorded : Promised(f)' => f = e \/ Promised(f)
      BY <1>1, <2>5, SendPromisesOne DEF SendToQueue, SendToQueueLost, SendToKafka, Brokers
    <3>2. e \in HandedOver' /\ HandedOver \subseteq HandedOver'
      BY <2>5, SendTravels
    <3> QED BY <1>1, <3>1, <3>2 DEF JourneyInOrder
  <2>6. ASSUME NEW e \in Events, SendOnDeadChannel(e) \/ SendToQueueFails(e) \/ SendToKafkaFails(e)
        PROVE  \A f \in recorded' : Promised(f)' => f \in HandedOver'
    <3>1. \A f \in recorded' : Promised(f)' => f \in recorded /\ Promised(f)
      BY <1>1, <2>6, OnlySendsPromise
         DEF SendOnDeadChannel, SendToQueueFails, SendToKafkaFails, Brokers
    <3>2. HandedOver \subseteq HandedOver'
      BY <2>6, SendTravels
    <3> QED BY <2>1, <3>1, <3>2
  <2> QED BY <2>2, <2>3, <2>4, <2>5, <2>6 DEF Next, SendNext, SendFault, Brokers
<1>3. HandedOver' \subseteq recorded' /\ \A e \in AccountEvents : effects'[e] > 0 => e \in HandedOver'
  <2>1. HandedOver \subseteq recorded /\ \A e \in AccountEvents : effects[e] > 0 => e \in HandedOver
    BY <1>1 DEF JourneyInOrder
  <2>2. \A e \in AccountEvents : effects[e] \in Nat
    BY <1>1 DEF ConsumerTypeOK
  <2>3. effects \in [AccountEvents -> Nat]
    BY <1>1 DEF ConsumerTypeOK
  <2> QED BY <2>1, <2>2, <2>3, NextTravels
          DEF Travels, Journey!Next, Journey!Record, Journey!Send, Journey!Publish, Journey!Act,
              Journey!Index, Journey!Forget
<1> QED BY <1>2, <1>3 DEF JourneyInOrder

-----------------------------------------------------------------------------
\* IInv holds in every state: what the relays promised is kept, claims are
\* held, one handler runs, and failures cover the retries.
THEOREM InvariantHolds == Spec => []IInv
<1>1. Init => IInv
  <2> SUFFICES ASSUME Init PROVE IInv
    OBVIOUS
  <2> USE DEF Init
  <2>1. OutboxTypeOK /\ SentIsKept /\ JourneyInOrder
    <3>1. HandedOver = {} /\ \A e \in AccountEvents : effects[e] = 0
      BY DEF ConsumerInit, IndexerInit, HandedOver, Messaged, Copy, Sent
    <3> QED BY <3>1 DEF OutboxInit, OutboxTypeOK, SentIsKept, JourneyInOrder
  <2>2. ConsumerTypeOK
    BY DEF ConsumerInit, ConsumerTypeOK, Place
  <2>3. ClaimsAreHeld /\ OneHandler /\ ProcessedOnce
    BY DEF ConsumerInit, ClaimsAreHeld, OneHandler, ProcessedOnce
  <2>4. RetriesWereFailures /\ DeadLettersWereRetried
    BY DEF ConsumerInit, RetriesWereFailures, DeadLettersWereRetried
  <2>5. IndexerTypeOK /\ SearchMissesAreKnown
    BY DEF IndexerInit, IndexerTypeOK, SearchMissesAreKnown, Stopped, NoOffset
  <2>6. TypeOK
    BY <2>1, <2>2, <2>5, FaultsAssumption DEF TypeOK
  <2> QED BY <2>1, <2>3, <2>4, <2>5, <2>6 DEF IInv
<1>2. IInv /\ [Next]_vars => IInv'
  <2> SUFFICES ASSUME IInv, [Next]_vars PROVE IInv'
    OBVIOUS
  <2>1. ConsumerInv' /\ IndexerInv' /\ OutboxTypeOK' /\ SentIsKept' /\ lost' \subseteq AccountEvents
    <3>1. CASE \/ \E c \in Copies : Handle(c)
               \/ ExpireClaims \/ ConsumerFault \/ BrokerRestart
               \/ IndexMessages \/ CommitOffsets \/ IndexerFault
               \/ UNCHANGED vars
      BY <3>1, ConsumersKeep
    <3>2. CASE RecordEvent \/ \E b \in Brokers : Relay(b) \/ RelayFault(b)
      BY <3>2, RelayKeeps DEF Brokers
    <3>3. CASE SendFault \/ \E b \in Brokers : SendNext(b)
      BY <3>3, SendToQueueKeeps, SendToKafkaKeeps DEF SendFault, SendNext
    <3> QED BY <3>1, <3>2, <3>3 DEF Next
  <2>2. inputs' \in 0..MaxInputs
    <3>1. inputs \in 0..MaxInputs
      BY DEF IInv, TypeOK
    <3>2. inputs' = inputs \/ Input
      BY DEF Next, vars, RecordEvent, Relay, SendNext, RelayFault, SendFault, Handle, ExpireClaims,
             ConsumerFault, BrokerRestart, IndexMessages, CommitOffsets, IndexerFault, Fault,
             SendToQueue, SendToQueueLost, SendOnDeadChannel, SendToQueueFails, SendToKafka,
             SendToKafkaFails
    <3> QED BY <3>1, <3>2, FaultsAssumption DEF Input
  <2> QED BY <2>1, <2>2, JourneyStep DEF IInv, TypeOK, ConsumerInv, IndexerInv
<1> QED BY <1>1, <1>2, PTL DEF Spec

\* In no execution is an account event dropped between its outbox row and its
\* effect but for the two known ways, nor a remittance marked but not in Kafka.
THEOREM NothingIsDropped == Spec => []NothingDropped
<1>1. IInv => NothingDropped
  BY BrokersAssumption DEF IInv, TypeOK, OutboxTypeOK, SentIsKept, Promised, NothingDropped
<1> QED BY <1>1, InvariantHolds, PTL

\* In no execution is an event processed twice while its entry lives.
THEOREM EventsAreProcessedOnce == Spec => []ProcessedOnce
<1>1. IInv => ProcessedOnce
  BY DEF IInv
<1> QED BY <1>1, InvariantHolds, PTL

\* In no execution does an event reach the DLQ before its retries are used up.
THEOREM DeadLettersUsedTheirRetries == Spec => []DeadLettersWereRetried
<1>1. IInv => DeadLettersWereRetried
  BY DEF IInv
<1> QED BY <1>1, InvariantHolds, PTL

\* In no execution does the indexer's group pass a message that was neither
\* indexed nor a known miss.
THEOREM SearchMissesAreAlwaysKnown == Spec => []SearchMissesAreKnown
<1>1. IInv => SearchMissesAreKnown
  BY DEF IInv
<1> QED BY <1>1, InvariantHolds, PTL

\* Relays, brokers, consumer and indexer take every event on its journey and
\* on no other, whatever fails: the model implements EventJourney.
THEOREM JourneyImplemented == Spec => ImplementsJourney
<1>1. Init => Journey!Init
  BY DEF Init, OutboxInit, ConsumerInit, IndexerInit, HandedOver, Messaged, Copy, Sent, Journey!Init
<1>2. IInv /\ [Next]_vars => [Journey!Next]_(Journey!journey)
  BY NextTravels DEF Travels, Journey!journey
<1> QED BY <1>1, <1>2, InvariantHolds, PTL DEF Spec, ImplementsJourney, Journey!Spec

-----------------------------------------------------------------------------
(* Which faults break which promise *)

\* Without the faults that lose a message or end the worker, an event that was
\* marked published is never dropped.
THEOREM OthersNeverDrop ==
  ASSUME Faults \cap Dropping = {}
  PROVE  Spec => []NeverDropped
<1> DEFINE Calm == lost = {} /\ orphaned = {} /\ ~deaf
<1>1. Init => Calm
  BY DEF Init, ConsumerInit
<1>2. Calm /\ [Next]_vars => Calm'
  <2> SUFFICES ASSUME Calm, [Next]_vars PROVE Calm'
    OBVIOUS
  <2>1. /\ ~Fault("sendLost") /\ ~Fault("consumerCrash")
        /\ ~Fault("claimUnanswered") /\ ~Fault("brokerRestart")
    BY DEF Fault, Dropping, EndsTheWorker
  <2>2. ASSUME NEW c \in Copies, Handle(c) PROVE Calm'
    BY <2>2 DEF Handle, Claim, SkipDuplicate, Process, ProcessFails, Save, Ack, AckThrows, ReleaseClaim,
                HandleFailure, HandleFailureThrows, RetryExpires, Fail
  <2>3. CASE ExpireClaims
    BY <2>3 DEF ExpireClaims, ClaimExpires, Expire
  <2>4. CASE ConsumerFault
    BY <2>1, <2>4 DEF ConsumerFault, SaveFails, Fail, ClaimExpiresEarly, ResponseExpires, Expire
  <2>5. CASE SendFault \/ \E b \in Brokers : SendNext(b)
    BY <2>1, <2>5 DEF SendFault, SendNext, SendToQueue, SendToQueueLost, SendOnDeadChannel,
         SendToQueueFails, SendToKafka, SendToKafkaFails, Publish, consumerVars
  <2>6. CASE \/ RecordEvent \/ \E b \in Brokers : Relay(b) \/ RelayFault(b)
             \/ IndexMessages \/ CommitOffsets \/ IndexerFault \/ UNCHANGED vars
    BY <2>6 DEF RecordEvent, Relay, RelayFault, IndexMessages, CommitOffsets, IndexerFault, vars,
                consumerVars
  <2> QED BY <2>1, <2>2, <2>3, <2>4, <2>5, <2>6 DEF Next, BrokerRestart
<1>3. Calm /\ NothingDropped => NeverDropped
  BY DEF NothingDropped, NeverDropped
<1> HIDE DEF Calm
<1> QED BY <1>1, <1>2, <1>3, NothingIsDropped, PTL DEF Spec

\* While the worker is not ended and Redis forgets nothing, a claim is there
\* exactly while one copy holds it, whatever the copies do.
LEMMA HandlersStep ==
  ASSUME IInv, ClaimsFollowHandlers, NEW c \in Copies, Handle(c)
  PROVE  ClaimsFollowHandlers'
<1> SUFFICES ASSUME NEW f, f = event[c] PROVE ClaimsFollowHandlers'
  OBVIOUS
<1>1. /\ at \in [Copies -> Place] /\ store \in [AccountEvents -> {"none", "inFlight", "done"}]
      /\ effects \in [AccountEvents -> Nat]
      /\ at[c] # "unsent" => f \in AccountEvents
  BY DEF IInv, TypeOK, ConsumerTypeOK
<1>2. ~deaf /\ forgotten = {} /\ event' = event /\ ~deaf'
  BY DEF ClaimsFollowHandlers, Handle, Claim, SkipDuplicate, Process, ProcessFails, Save, Ack,
         AckThrows, ReleaseClaim, HandleFailure, HandleFailureThrows, RetryExpires, Fail
<1> DEFINE Follows(e) ==
             /\ store[e] = "inFlight" <=> Holders(e) # {}
             /\ \A a, b \in Holders(e) : a = b
             /\ \A a \in Holders(e) : at[a] = "failed" => effects[e] = 0
<1>3. \A e \in AccountEvents : Follows(e)
  BY DEF ClaimsFollowHandlers
<1>4. ASSUME UNCHANGED <<store, forgotten>>,
             \A a \in Copies : /\ at'[a] \in {"processing", "saving", "failed"}
                                <=> at[a] \in {"processing", "saving", "failed"}
                               /\ at'[a] = "failed" => effects'[event[a]] = 0
      PROVE  ClaimsFollowHandlers'
  <2>1. \A e \in AccountEvents : Holders(e)' = Holders(e)
    BY <1>2, <1>4 DEF Holders
  <2> QED BY <1>2, <1>3, <1>4, <2>1 DEF ClaimsFollowHandlers, Holders
<1>5. CASE SkipDuplicate(c) \/ Ack(c) \/ HandleFailure(c) \/ RetryExpires(c)
  <2>1. UNCHANGED <<store, forgotten, effects>>
    BY <1>5 DEF SkipDuplicate, Ack, HandleFailure, RetryExpires
  <2>2. /\ \A a \in Copies \ {c} : at'[a] = at[a]
        /\ at[c] \notin {"processing", "saving", "failed"}
        /\ at'[c] \notin {"processing", "saving", "failed"}
    BY <1>1, <1>5 DEF SkipDuplicate, Ack, HandleFailure, RetryExpires, Move, NextPlace
  <2>3. \A a \in Copies : at[a] = "failed" => effects[event[a]] = 0
    <3>1. \A a \in Copies : at[a] = "failed" => event[a] \in AccountEvents
      BY DEF IInv, TypeOK, ConsumerTypeOK
    <3> QED BY <1>3, <3>1 DEF Holders
  <2> QED BY <1>4, <2>1, <2>2, <2>3
<1>6. CASE Claim(c)
  <2>1. /\ at[c] = "queue" /\ store[f] = "none" /\ at' = [at EXCEPT ![c] = "processing"]
        /\ store' = [store EXCEPT ![f] = "inFlight"] /\ UNCHANGED <<forgotten, effects>>
    BY <1>6 DEF Claim, Move
  <2>2. Holders(f) = {} /\ f \in AccountEvents
    BY <1>1, <1>3, <2>1
  <2>3. Holders(f)' = {c}
    BY <1>1, <1>2, <2>1, <2>2 DEF Holders
  <2>4. \A e \in AccountEvents \ {f} : Holders(e)' = Holders(e) /\ store'[e] = store[e]
    BY <1>1, <1>2, <2>1 DEF Holders
  <2>5. \A e \in AccountEvents, a \in Copies : a # c => at'[a] = at[a]
    BY <1>1, <2>1
  <2>6. at'[c] = "processing" /\ store'[f] = "inFlight"
    BY <1>1, <2>1, <2>2
  <2>7. \A e \in AccountEvents : Follows(e)'
    <3>1. Follows(f)'
      BY <2>3, <2>6
    <3>2. ASSUME NEW e \in AccountEvents \ {f} PROVE Follows(e)'
      <4>1. c \notin Holders(e)
        BY DEF Holders
      <4>2. \A a \in Holders(e) : at'[a] = at[a]
        BY <2>5, <4>1 DEF Holders
      <4> QED BY <1>3, <2>1, <2>4, <4>2
    <3> QED BY <3>1, <3>2
  <2> QED BY <1>2, <2>1, <2>7 DEF ClaimsFollowHandlers
<1>7. CASE Process(c) \/ ProcessFails(c)
  <2>1. /\ at[c] = "processing" /\ UNCHANGED <<store, forgotten>>
        /\ at'[c] \in {"saving", "failed"} /\ \A a \in Copies \ {c} : at'[a] = at[a]
    BY <1>1, <1>7 DEF Process, ProcessFails, Fail, Move
  <2>2. f \in AccountEvents /\ effects[f] = 0 /\ c \in Holders(f)
    BY <1>1, <1>2, <2>1 DEF IInv, OneHandler, Holders
  <2>3. /\ at'[c] = "failed" => effects' = effects
        /\ \A e \in AccountEvents : e # f => effects'[e] = effects[e]
    BY <1>1, <1>7, <2>2 DEF Process, ProcessFails, Fail, Move
  <2>4. \A a \in Copies : at'[a] = "failed" => effects'[event[a]] = 0
    <3>1. ASSUME NEW a \in Copies \ {c}, at'[a] = "failed" PROVE effects'[event[a]] = 0
      <4>1. at[a] = "failed" /\ event[a] \in AccountEvents /\ a \in Holders(event[a])
        BY <2>1, <3>1 DEF IInv, TypeOK, ConsumerTypeOK, Holders
      <4>2. event[a] # f
        BY <1>3, <2>2, <3>1, <4>1
      <4> QED BY <1>3, <2>3, <4>1, <4>2
    <3>2. ASSUME at'[c] = "failed" PROVE effects'[event[c]] = 0
      BY <2>2, <2>3, <3>2
    <3> QED BY <3>1, <3>2
  <2> QED BY <1>4, <2>1, <2>4
<1>8. CASE Save(c) \/ ReleaseClaim(c)
  <2>1. /\ at[c] \in {"saving", "failed"} /\ effects' = effects
        /\ at'[c] \notin {"processing", "saving", "failed"}
        /\ \A a \in Copies \ {c} : at'[a] = at[a]
    BY <1>1, <1>8 DEF Save, ReleaseClaim, Move
  <2>2. f \in AccountEvents /\ c \in Holders(f) /\ store[f] = "inFlight" /\ Holders(f) = {c}
    <3>1. f \in AccountEvents /\ c \in Holders(f)
      BY <1>1, <2>1 DEF Holders
    <3> QED BY <1>3, <3>1
  <2>3. store'[f] # "inFlight" /\ \A e \in AccountEvents \ {f} : store'[e] = store[e]
    BY <1>1, <1>8, <2>2 DEF Save, ReleaseClaim, Drop
  <2>4. forgotten' = forgotten
    <3>1. CASE ReleaseClaim(c)
      <4>1. at[c] = "failed" /\ effects[f] = 0
        BY <1>3, <2>2, <3>1 DEF ReleaseClaim, Move
      <4>2. ~\E a \in Copies : at[a] = "processing" /\ event[a] = f
        BY <2>2, <4>1 DEF Holders
      <4> QED BY <3>1, <4>1, <4>2 DEF ReleaseClaim, Drop
    <3> QED BY <1>8, <3>1 DEF Save
  <2>5. Holders(f)' = {}
    <3>1. \A a \in Copies \ {c} : a \notin Holders(f)
      BY <2>2
    <3> QED BY <1>2, <2>1, <3>1 DEF Holders
  <2>6. \A e \in AccountEvents \ {f} : Holders(e)' = Holders(e) /\ c \notin Holders(e)
    BY <1>2, <2>1 DEF Holders
  <2>7. \A e \in AccountEvents : Follows(e)'
    <3>1. Follows(f)'
      BY <2>3, <2>5
    <3>2. ASSUME NEW e \in AccountEvents \ {f} PROVE Follows(e)'
      <4>1. \A a \in Holders(e) : at'[a] = at[a]
        BY <2>1, <2>6 DEF Holders
      <4> QED BY <1>3, <2>1, <2>3, <2>6, <4>1
    <3> QED BY <3>1, <3>2
  <2> QED BY <1>2, <2>4, <2>7 DEF ClaimsFollowHandlers
<1> QED BY <1>2, <1>5, <1>6, <1>7, <1>8 DEF Handle, AckThrows, HandleFailureThrows

\* Without the faults that end the worker or empty Redis early, no event is
\* acted on twice, however often relays and broker repeat its message.
THEOREM OthersNeverRepeat ==
  ASSUME Faults \cap Forgetting = {}
  PROVE  Spec => []NeverTwice
<1>1. Init => ClaimsFollowHandlers
  BY DEF Init, ConsumerInit, ClaimsFollowHandlers, Holders
<1>2. IInv /\ ClaimsFollowHandlers /\ [Next]_vars => ClaimsFollowHandlers'
  <2> SUFFICES ASSUME IInv, ClaimsFollowHandlers, [Next]_vars PROVE ClaimsFollowHandlers'
    OBVIOUS
  <2>1. ~ConsumerFault /\ ~BrokerRestart
    BY DEF ConsumerFault, BrokerRestart, Fault, Forgetting, EndsTheWorker
  <2>2. ~ExpireClaims
    BY DEF ExpireClaims, ClaimExpires, Expire, ClaimsFollowHandlers
  <2>3. ASSUME UNCHANGED consumerVars PROVE ClaimsFollowHandlers'
    BY <2>3 DEF consumerVars, ClaimsFollowHandlers, Holders
  <2>4. ASSUME NEW c \in Copies, NEW e, Publish(c, e) PROVE ClaimsFollowHandlers'
    <3>1. at[c] = "unsent" /\ at' = [at EXCEPT ![c] = "queue"] /\ event' = [event EXCEPT ![c] = e]
          /\ UNCHANGED <<store, deaf, effects, forgotten>>
      BY <2>4 DEF Publish, Fresh
    <3>2. at \in [Copies -> Place] /\ \A a \in Copies \ {c} : event'[a] = event[a]
      BY <3>1 DEF IInv, TypeOK, ConsumerTypeOK
    <3>3. \A f \in AccountEvents : Holders(f)' = Holders(f) /\ c \notin Holders(f)
      BY <3>1, <3>2 DEF Holders
    <3>4. \A f \in AccountEvents : \A a \in Holders(f) : at'[a] = at[a]
      BY <3>1, <3>2, <3>3 DEF Holders
    <3> QED BY <3>1, <3>3, <3>4 DEF ClaimsFollowHandlers
  <2>5. ASSUME NEW c \in Copies, Handle(c) PROVE ClaimsFollowHandlers'
    BY <2>5, HandlersStep
  <2>6. CASE SendFault \/ \E b \in Brokers : SendNext(b)
    BY <2>3, <2>4, <2>6 DEF SendFault, SendNext, SendToQueue, SendToQueueLost, SendOnDeadChannel,
         SendToQueueFails, SendToKafka, SendToKafkaFails
  <2>7. CASE \/ RecordEvent \/ \E b \in Brokers : Relay(b) \/ RelayFault(b)
             \/ IndexMessages \/ CommitOffsets \/ IndexerFault \/ UNCHANGED vars
    BY <2>3, <2>7 DEF RecordEvent, Relay, RelayFault, IndexMessages, CommitOffsets, IndexerFault,
                      vars
  <2> QED BY <2>1, <2>2, <2>5, <2>6, <2>7 DEF Next
<1>3. ClaimsFollowHandlers /\ ProcessedOnce => NeverTwice
  BY DEF ClaimsFollowHandlers, ProcessedOnce, NeverTwice
<1> QED BY <1>1, <1>2, <1>3, InvariantHolds, EventsAreProcessedOnce, PTL DEF Spec

=============================================================================
