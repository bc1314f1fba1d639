---------------------------- MODULE EventDelivery ----------------------------
(***************************************************************************)
(* From a committed outbox row to its effect: the relays, RabbitMQ with    *)
(* the account.created consumer, Kafka with the remittance indexer.  The   *)
(* processes share nothing but the table and the brokers; each may stop    *)
(* between any two of its steps.                                           *)
(***************************************************************************)
EXTENDS OutboxRelays, AccountCreatedConsumer, RemittanceIndexer

CONSTANTS
  Faults,        \* what may go wrong, out of FaultKinds
  MaxInputs      \* bounds what the environment does: rows and faults together

FaultKinds ==
  { "sendFails", "sendLost", "markFails", "relayCrash",
    "consumerCrash", "claimUnanswered", "saveFails", "slow", "day",
    "brokerRestart", "indexFails", "indexerCrash" }

ASSUME FaultsAssumption == Faults \subseteq FaultKinds /\ MaxInputs \in Nat
ASSUME BrokersAssumption ==
  /\ AccountEvents = {e \in Events : BrokerOf[e] = "rabbitmq"}
  /\ RemittanceEvents = {e \in Events : BrokerOf[e] = "kafka"}

VARIABLES
  lost,          \* history: account events RabbitMQ lost after sendToQueue
  inputs         \* rows committed and faults so far; bounds the model

vars == <<relayVars, consumerVars, indexerVars, lost, inputs>>

Init == OutboxInit /\ ConsumerInit /\ IndexerInit /\ lost = {} /\ inputs = 0

Input == inputs < MaxInputs /\ inputs' = inputs + 1

Fault(kind) == kind \in Faults /\ Input

-----------------------------------------------------------------------------
(* The relays: what sending means depends on the broker *)

\* sendToQueue returns as soon as the message is buffered; the relay asks for
\* no confirmation.
SendToQueue(e) ==
  /\ channel = "open"
  /\ SendAccepted("rabbitmq", e)
  /\ \E c \in Copies : Publish(c, e)
  /\ UNCHANGED <<indexerVars, lost, inputs>>

SendToQueueLost(e) ==
  /\ Fault("sendLost")
  /\ channel = "open"
  /\ SendAccepted("rabbitmq", e)
  /\ lost' = lost \cup {e}
  /\ UNCHANGED <<consumerVars, indexerVars>>

\* assertQueue throws on the memoised channel once it is closed.
SendOnDeadChannel(e) ==
  /\ channel = "dead"
  /\ SendRejected("rabbitmq", e)
  /\ UNCHANGED <<consumerVars, indexerVars, lost, inputs>>

\* assertQueue rejects.
SendToQueueFails(e) ==
  /\ Fault("sendFails")
  /\ SendRejected("rabbitmq", e)
  /\ UNCHANGED <<consumerVars, indexerVars, lost>>

\* producer.send resolves once Kafka has the message.
SendToKafka(e) ==
  /\ SendAccepted("kafka", e)
  /\ Send(e)
  /\ UNCHANGED <<consumerVars, lost, inputs>>

\* producer.send rejects, with the message written or not.
SendToKafkaFails(e) ==
  /\ Fault("sendFails")
  /\ SendRejected("kafka", e)
  /\ Send(e) \/ UNCHANGED indexerVars
  /\ UNCHANGED <<consumerVars, lost>>

Relay(b) ==
  /\ \/ Poll(b) \/ PollNothing(b)
     \/ \E e \in Events : MarkPublished(b, e)
  /\ UNCHANGED <<consumerVars, indexerVars, lost, inputs>>

RelayFault(b) ==
  /\ \/ Fault("markFails") /\ \E e \in Events : MarkFails(b, e) \/ MarkPublished(b, e)
     \/ Fault("relayCrash") /\ RelayCrash(b)
  /\ UNCHANGED <<consumerVars, indexerVars, lost>>

SendNext(b) ==
  \E e \in Events :
    \/ b = "rabbitmq" /\ (SendToQueue(e) \/ SendOnDeadChannel(e))
    \/ b = "kafka" /\ SendToKafka(e)

SendFault ==
  \E e \in Events : SendToQueueLost(e) \/ SendToQueueFails(e) \/ SendToKafkaFails(e)

RecordEvent ==
  /\ Input
  /\ \E e \in Events : Record(e)
  /\ UNCHANGED <<consumerVars, indexerVars, lost>>

-----------------------------------------------------------------------------
(* The consumers *)

\* What the worker does with one copy, and RabbitMQ with its TTL.
Handle(c) ==
  /\ \/ Claim(c) \/ SkipDuplicate(c)
     \/ Process(c) \/ ProcessFails(c)
     \/ Save(c) \/ Ack(c) \/ AckThrows(c)
     \/ ReleaseClaim(c) \/ HandleFailure(c) \/ HandleFailureThrows(c)
     \/ RetryExpires(c)
  /\ UNCHANGED <<relayVars, indexerVars, lost, inputs>>

ExpireClaims ==
  /\ \E e \in AccountEvents : ClaimExpires(e)
  /\ UNCHANGED <<relayVars, indexerVars, lost, inputs>>

ConsumerFault ==
  /\ \/ Fault("consumerCrash") /\ ConsumerCrash
     \/ Fault("consumerCrash") /\ \E c, next \in Copies : CrashUnacked(c, next)
     \/ Fault("claimUnanswered") /\ \E c \in Copies : ClaimUnanswered(c)
     \/ Fault("saveFails") /\ \E c \in Copies : SaveFails(c)
     \/ Fault("slow") /\ \E e \in AccountEvents : ClaimExpiresEarly(e)
     \/ Fault("day") /\ \E e \in AccountEvents : ResponseExpires(e)
  /\ UNCHANGED <<relayVars, indexerVars, lost>>

\* RabbitMQ closes its connections and comes back; its queues are durable.
BrokerRestart ==
  /\ Fault("brokerRestart")
  /\ ChannelClosed \/ (deaf /\ UNCHANGED consumerVars)
  /\ channel' = IF channel = "open" THEN "dead" ELSE channel
  /\ UNCHANGED <<recorded, published, batch, stage, indexerVars, lost>>

IndexMessages ==
  /\ Subscribe \/ \E e \in RemittanceEvents : IndexNext(e)
  /\ UNCHANGED <<relayVars, consumerVars, lost, inputs>>

CommitOffsets == CommitOffset /\ UNCHANGED <<relayVars, consumerVars, lost, inputs>>

IndexerFault ==
  /\ \/ Fault("indexFails") /\ \E e \in RemittanceEvents : IndexFails(e)
     \/ Fault("indexerCrash") /\ IndexerCrash
  /\ UNCHANGED <<relayVars, consumerVars, lost>>

-----------------------------------------------------------------------------
Next ==
  \/ RecordEvent
  \/ \E b \in Brokers : Relay(b) \/ SendNext(b) \/ RelayFault(b)
  \/ SendFault
  \/ \E c \in Copies : Handle(c)
  \/ ExpireClaims
  \/ ConsumerFault
  \/ BrokerRestart
  \/ IndexMessages \/ CommitOffsets \/ IndexerFault

Spec == Init /\ [][Next]_vars

\* The workers run (Docker restarts them), Redis and RabbitMQ honour their
\* TTLs.  Nobody owes a sign-up, an offset commit or a fault.
FairSpec ==
  /\ Spec
  /\ \A b \in Brokers : WF_vars(Relay(b)) /\ WF_vars(SendNext(b))
  /\ \A c \in Copies : WF_vars(Handle(c))
  /\ WF_vars(ExpireClaims)
  /\ WF_vars(IndexMessages)

-----------------------------------------------------------------------------
(* Properties *)

Copy(c, e) == event[c] = e /\ at[c] # "unsent"

\* An account event that was sent is still in RabbitMQ or in the worker's
\* hands, in the DLQ, or was processed.
Kept(e) == effects[e] > 0 \/ \E c \in Copies : Copy(c, e) /\ at[c] # "acked"

\* A row is marked published only when its broker has the event, and RabbitMQ
\* and the consumer between them then keep it until it is processed or dead-
\* lettered.  The two ways out are known: a message the relay did not wait to
\* see confirmed, and a claim that outlives the handler that made it.
NothingDropped ==
  /\ \A e \in published \cap RemittanceEvents : e \in Sent
  /\ \A e \in published \cap AccountEvents : Kept(e) \/ e \in lost \/ e \in orphaned

\* Duplicates, redeliveries and retries process an event once as long as its
\* entry in Redis lives while it matters.
ProcessedOnce == \A e \in AccountEvents \ forgotten : effects[e] <= 1

\* A copy reaches the DLQ only after its event failed once and then on every
\* retry it was granted, whatever crashes and redeliveries came between.
DeadLettersWereRetried ==
  \A c \in Copies : at[c] = "dlq" => failures[event[c]] > MaxRetries

\* Every message the indexer's group is past was indexed, failed to index, or
\* was sent before the group had an offset; no crash skips one otherwise.
SearchMissesAreKnown ==
  \A i \in 1..Len(log) :
    (i <= position \/ i <= offset) => log[i] \in indexed \cup missed \cup skipped

\* The ADR's promise about the outbox: a crash or an outage delays an account
\* event, it never drops it.
NeverDropped == \A e \in published \cap AccountEvents : Kept(e)

\* The faults that break it: a send nobody confirmed, and what ends the worker
\* while Redis holds a claim for it.
EndsTheWorker == {"consumerCrash", "claimUnanswered", "brokerRestart"}
Dropping == EndsTheWorker \cup {"sendLost"}

\* A duplicate delivery does not repeat the side effect (docs/resilience.md).
NeverTwice == \A e \in AccountEvents : effects[e] <= 1

\* The faults that break it: they take an entry from Redis, or leave a claim to
\* its TTL, after the effect.
Forgetting == EndsTheWorker \cup {"saveFails", "slow", "day"}

\* What was handed to a broker, whatever became of it there.
Messaged == {e \in AccountEvents : \E c \in Copies : Copy(c, e)}
HandedOver == Messaged \cup lost \cup Sent

Journey == INSTANCE EventJourney WITH sent <- HandedOver

\* Relays, brokers, consumer and indexer together take every event on its
\* journey and on no other: nothing is sent that was not committed, marked or
\* acted on that was not sent, or acted on twice with its entry in Redis, and
\* nothing is taken back.
ImplementsJourney == Journey!Spec

Settled(e) ==
  \/ effects[e] > 0
  \/ \E c \in Copies : Copy(c, e) /\ at[c] = "dlq"
  \/ e \in lost \cup orphaned

\* Every account event ends processed or in the DLQ, however often it is
\* retried, unless it was dropped or a process sits on a dead channel.
AccountEventsSettle ==
  \A e \in AccountEvents :
    e \in recorded ~> Settled(e) \/ channel = "dead" \/ deaf

\* Every committed remittance reaches search, or is a known miss.
RemittancesReachSearch ==
  \A e \in RemittanceEvents : e \in recorded ~> e \in indexed \cup missed \cup skipped

-----------------------------------------------------------------------------
(* The inductive invariant *)

TypeOK ==
  /\ OutboxTypeOK /\ ConsumerTypeOK /\ IndexerTypeOK
  /\ lost \subseteq AccountEvents
  /\ inputs \in 0..MaxInputs

\* The row is promised: marked published, or about to be.
Promised(e) == e \in published \/ (stage[BrokerOf[e]] = "marking" /\ Current(BrokerOf[e], e))

\* What a relay has sent, the broker has.
SentIsKept ==
  \A e \in recorded :
    Promised(e) =>
      /\ e \in RemittanceEvents => e \in Sent
      /\ e \in AccountEvents => Kept(e) \/ e \in lost \/ e \in orphaned

\* Rows are committed, then handed over, then promised or acted on.
JourneyInOrder ==
  /\ HandedOver \subseteq recorded
  /\ \A e \in recorded : Promised(e) => e \in HandedOver
  /\ \A e \in AccountEvents : effects[e] > 0 => e \in HandedOver

\* A claim on an event that was not processed is somebody's, or orphaned.
ClaimsAreHeld ==
  \A e \in AccountEvents :
    /\ store[e] = "done" => effects[e] > 0
    /\ store[e] = "inFlight" /\ effects[e] = 0 /\ e \notin orphaned =>
         \E c \in Copies : event[c] = e /\ at[c] \in {"processing", "failed"}
    /\ \A c \in Copies : event[c] = e /\ at[c] \in {"saving", "saved"} => effects[e] > 0

\* While the entry lives, it admits one handler before the effect, none after.
OneHandler ==
  \A e \in AccountEvents \ forgotten :
    /\ effects[e] > 0 => store[e] # "none"
    /\ \A c \in Copies : event[c] = e /\ at[c] = "processing" =>
         /\ store[e] = "inFlight" /\ effects[e] = 0
         /\ \A d \in Copies : event[d] = e /\ at[d] = "processing" => d = c

\* A copy's retries are failures that happened; one more is on its way from
\* the moment a handler fails.
RetriesWereFailures ==
  \A c \in Copies :
    at[c] # "unsent" =>
      /\ retries[c] <= failures[event[c]]
      /\ at[c] \in {"failed", "released"} => retries[c] < failures[event[c]]

IInv ==
  /\ TypeOK
  /\ SentIsKept /\ JourneyInOrder
  /\ ClaimsAreHeld
  /\ OneHandler
  /\ RetriesWereFailures
  /\ ProcessedOnce
  /\ DeadLettersWereRetried
  /\ SearchMissesAreKnown

\* Without the faults that end the worker early, a claim is in Redis exactly
\* while one copy holds it, and it goes before the effect or stays for good.
ClaimsFollowHandlers ==
  /\ ~deaf /\ forgotten = {}
  /\ \A e \in AccountEvents :
       /\ store[e] = "inFlight" <=> Holders(e) # {}
       /\ \A c, d \in Holders(e) : c = d
       /\ \A c \in Holders(e) : at[c] = "failed" => effects[e] = 0

=============================================================================
