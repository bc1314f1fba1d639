------------------------ MODULE AccountCreatedConsumer ------------------------
(***************************************************************************)
(* The account.created consumer, its queue, retry queue and DLQ, and the   *)
(* Redis entries it deduplicates with.                                     *)
(*                                                                         *)
(* A copy is one message in RabbitMQ.  The consumer sets no prefetch, so   *)
(* the copies in the queue are handled concurrently, each by its own       *)
(* handleMessage.  Every event keeps its messageId across redeliveries and *)
(* retries; the retry count travels with the copy.                         *)
(*                                                                         *)
(* A rejected claim, lookup or release is an unhandled rejection of        *)
(* `void handleMessage(...)`, which ends the worker: it is a Restart.      *)
(* effects, failures, orphaned and forgotten are history variables.        *)
(***************************************************************************)
EXTENDS Integers

CONSTANTS
  AccountEvents,   \* the account.created rows of the outbox
  Copies,          \* bounds how many messages are ever sent
  MaxRetries       \* RABBITMQ_MAX_RETRIES

NoEvent == -1

ASSUME CopiesAssumption == Copies \subseteq Nat /\ AccountEvents \subseteq Nat
ASSUME RetriesAssumption == MaxRetries \in Nat

VARIABLES
  at, event, retries,   \* the copies: where each is, its messageId and header
  store,                \* Redis
  deaf,                 \* the consumer's channel was closed under it
  effects,              \* how often an event's onProcessed ran to its end
  failures,             \* how often handling it failed
  orphaned,             \* events whose claim outlived its handler, unprocessed
  forgotten             \* events whose entry went while it still mattered

consumerVars == <<at, event, retries, store, deaf, effects, failures, orphaned, forgotten>>
messageVars == <<at, event, retries>>

InBroker == {"queue", "retry", "dlq"}
Handled == {"processing", "saving", "saved", "failed", "released"}
Place == InBroker \cup Handled \cup {"unsent", "acked"}

ConsumerInit ==
  /\ at = [c \in Copies |-> "unsent"]
  /\ event = [c \in Copies |-> NoEvent]
  /\ retries = [c \in Copies |-> 0]
  /\ store = [e \in AccountEvents |-> "none"]
  /\ deaf = FALSE
  /\ effects = [e \in AccountEvents |-> 0]
  /\ failures = [e \in AccountEvents |-> 0]
  /\ orphaned = {} /\ forgotten = {}

Move(c, here, there) == at[c] = here /\ at' = [at EXCEPT ![c] = there]

\* The next message a sender creates.
Fresh(c) == at[c] = "unsent" /\ \A d \in Copies : at[d] = "unsent" => c <= d

\* sendToQueue on the work queue, with messageId e.
Publish(c, e) ==
  /\ Fresh(c)
  /\ at' = [at EXCEPT ![c] = "queue"]
  /\ event' = [event EXCEPT ![c] = e]
  /\ UNCHANGED <<retries, store, deaf, effects, failures, orphaned, forgotten>>

-----------------------------------------------------------------------------
(* handleMessage and processAndAck *)

\* Mistake: every delivery is processed.
Claim_Always(c) ==
  /\ ~deaf
  /\ Move(c, "queue", "processing")
  /\ store' = [store EXCEPT ![event[c]] = "inFlight"]
  /\ UNCHANGED <<event, retries, deaf, effects, failures, orphaned, forgotten>>

Claim(c) ==
  /\ ~deaf
  /\ Move(c, "queue", "processing")
  /\ store[event[c]] = "none"
  /\ store' = [store EXCEPT ![event[c]] = "inFlight"]
  /\ UNCHANGED <<event, retries, deaf, effects, failures, orphaned, forgotten>>

\* claim() is refused: whatever findByKey then says, the copy is acked.
SkipDuplicate(c) ==
  /\ ~deaf
  /\ Move(c, "queue", "acked")
  /\ store[event[c]] # "none"
  /\ UNCHANGED <<event, retries, store, deaf, effects, failures, orphaned, forgotten>>

Process(c) ==
  /\ Move(c, "processing", "saving")
  /\ effects' = [effects EXCEPT ![event[c]] = @ + 1]
  /\ UNCHANGED <<event, retries, store, deaf, failures, orphaned, forgotten>>

Fail(c, here) ==
  /\ Move(c, here, "failed")
  /\ failures' = [failures EXCEPT ![event[c]] = @ + 1]
  /\ UNCHANGED <<event, retries, deaf, effects, orphaned, forgotten>>

ProcessFails(c) == Fail(c, "processing") /\ UNCHANGED store

Save(c) ==
  /\ Move(c, "saving", "saved")
  /\ store' = [store EXCEPT ![event[c]] = "done"]
  /\ UNCHANGED <<event, retries, deaf, effects, failures, orphaned, forgotten>>

\* save() rejects, written or not.
SaveFails(c) ==
  /\ Fail(c, "saving")
  /\ store' \in {store, [store EXCEPT ![event[c]] = "done"]}

Ack(c) ==
  /\ ~deaf
  /\ Move(c, "saved", "acked")
  /\ UNCHANGED <<event, retries, store, deaf, effects, failures, orphaned, forgotten>>

\* ack() on a closed channel throws, inside the try.
AckThrows(c) == deaf /\ Fail(c, "saved") /\ UNCHANGED store

\* An entry that goes is forgotten when its event was processed or still may be.
Drop(e) ==
  /\ store' = [store EXCEPT ![e] = "none"]
  /\ forgotten' =
       IF effects[e] > 0 \/ \E c \in Copies : at[c] = "processing" /\ event[c] = e
       THEN forgotten \cup {e} ELSE forgotten

\* Mistake: the claim is kept for the retry.
ReleaseClaim_Kept(c) ==
  /\ Move(c, "failed", "released")
  /\ UNCHANGED <<event, retries, store, deaf, effects, failures, orphaned, forgotten>>

\* release(): deletes the entry if it is still IN_FLIGHT.
ReleaseClaim(c) ==
  /\ Move(c, "failed", "released")
  /\ \/ store[event[c]] = "inFlight" /\ Drop(event[c])
     \/ store[event[c]] # "inFlight" /\ UNCHANGED <<store, forgotten>>
  /\ UNCHANGED <<event, retries, deaf, effects, failures, orphaned>>

-----------------------------------------------------------------------------
(* handleFailure: sends the next copy and acks this one in one synchronous  *)
(* step, so the two are one copy that moves.                                *)

\* Mistake: the last retry is not granted.
NextPlace_OffByOne(c) == IF retries[c] + 1 >= MaxRetries THEN "dlq" ELSE "retry"

NextPlace(c) == IF retries[c] + 1 > MaxRetries THEN "dlq" ELSE "retry"

HandleFailure(c) ==
  /\ ~deaf
  /\ Move(c, "released", NextPlace(c))
  /\ retries' = [retries EXCEPT ![c] = @ + 1]
  /\ UNCHANGED <<event, store, deaf, effects, failures, orphaned, forgotten>>

\* Mistake: the dead-letter arguments are on the DLQ, not on the retry queue.
RetryExpires_WrongQueue(c) ==
  /\ Move(c, "dlq", "queue")
  /\ UNCHANGED <<event, retries, store, deaf, effects, failures, orphaned, forgotten>>

\* The copy's TTL ends and RabbitMQ dead-letters it back to the work queue.
RetryExpires(c) ==
  /\ Move(c, "retry", "queue")
  /\ UNCHANGED <<event, retries, store, deaf, effects, failures, orphaned, forgotten>>

-----------------------------------------------------------------------------
(* What goes wrong *)

Unacked(c) == at[c] \in Handled

Requeued == [c \in Copies |-> IF Unacked(c) THEN "queue" ELSE at[c]]

Orphans(entries) == {e \in AccountEvents : entries[e] = "inFlight" /\ effects[e] = 0}

\* The worker dies and starts again: RabbitMQ redelivers what was not acked,
\* Redis keeps the claims.
Restart ==
  /\ deaf' = FALSE
  /\ orphaned' = orphaned \cup Orphans(store)
  /\ UNCHANGED <<event, retries, store, effects, failures, forgotten>>

ConsumerCrash ==
  /\ deaf \/ \E c \in Copies : Unacked(c)
  /\ at' = Requeued
  /\ Restart

\* claim() is applied, its answer lost.
ClaimUnanswered(c) ==
  /\ ~deaf
  /\ at[c] = "queue" /\ store[event[c]] = "none"
  /\ at' = Requeued
  /\ store' = [store EXCEPT ![event[c]] = "inFlight"]
  /\ orphaned' = orphaned \cup Orphans(store')
  /\ deaf' = FALSE
  /\ UNCHANGED <<event, retries, effects, failures, forgotten>>

\* The connection breaks with the next copy sent and this one not acked.
CrashUnacked(c, next) ==
  /\ ~deaf
  /\ at[c] = "released" /\ Fresh(next)
  /\ at' = [Requeued EXCEPT ![next] = NextPlace(c)]
  /\ event' = [event EXCEPT ![next] = event[c]]
  /\ retries' = [retries EXCEPT ![next] = retries[c] + 1]
  /\ deaf' = FALSE
  /\ orphaned' = orphaned \cup Orphans(store)
  /\ UNCHANGED <<store, effects, failures, forgotten>>

\* sendToQueue on a closed channel throws in the catch: unhandled rejection.
HandleFailureThrows(c) ==
  /\ deaf
  /\ at[c] = "released"
  /\ at' = Requeued
  /\ Restart

\* The broker closes the connection gracefully; nobody listens to "close".
ChannelClosed ==
  /\ ~deaf
  /\ deaf' = TRUE
  /\ UNCHANGED <<messageVars, store, effects, failures, orphaned, forgotten>>

Holders(e) == {c \in Copies : event[c] = e /\ at[c] \in {"processing", "saving", "failed"}}

Expire(e, kind) ==
  /\ store[e] = kind
  /\ Drop(e)
  /\ UNCHANGED <<messageVars, deaf, effects, failures, orphaned>>

\* CLAIM_TTL_SECONDS after a handler left its claim behind.
ClaimExpires(e) == Holders(e) = {} /\ Expire(e, "inFlight")

\* CLAIM_TTL_SECONDS pass while a handler still runs.
ClaimExpiresEarly(e) == Holders(e) # {} /\ Expire(e, "inFlight")

\* RESPONSE_TTL_SECONDS have passed.
ResponseExpires(e) == Expire(e, "done")

ConsumerTypeOK ==
  /\ at \in [Copies -> Place]
  /\ event \in [Copies -> AccountEvents \cup {NoEvent}]
  /\ \A c \in Copies : at[c] # "unsent" => event[c] \in AccountEvents
  /\ retries \in [Copies -> Nat] /\ \A c \in Copies : at[c] = "unsent" => retries[c] = 0
  /\ store \in [AccountEvents -> {"none", "inFlight", "done"}]
  /\ deaf \in BOOLEAN
  /\ effects \in [AccountEvents -> Nat]
  /\ failures \in [AccountEvents -> Nat]
  /\ orphaned \subseteq AccountEvents
  /\ forgotten \subseteq AccountEvents

=============================================================================
