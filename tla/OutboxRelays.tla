----------------------------- MODULE OutboxRelays -----------------------------
(***************************************************************************)
(* The outbox table and the two processes that relay it.                   *)
(*                                                                         *)
(* A row is committed with the business rows it announces.  A relay reads  *)
(* the oldest unpublished rows of its broker, and for each sends it and    *)
(* then marks it published: two systems, two steps.  A row whose step      *)
(* rejects is left for the next poll.  What a broker does with a message   *)
(* is the business of the module that composes this one.                   *)
(***************************************************************************)
EXTENDS Integers, FiniteSets

CONSTANTS
  Events,        \* the outbox rows, numbered by created_at
  BrokerOf,      \* the broker column
  BatchSize      \* rows a poll reads (50 in the code)

Brokers == {"rabbitmq", "kafka"}

ASSUME EventsAssumption == Events \subseteq Nat /\ BrokerOf \in [Events -> Brokers]
ASSUME BatchAssumption == BatchSize \in Nat \ {0}

VARIABLES
  recorded,      \* rows whose transaction committed
  published,     \* rows with published_at set
  batch,         \* rows a relay has read and not gone through
  stage,         \* what a relay awaits
  channel        \* the RabbitMQ relay's memoised channel

relayVars == <<recorded, published, batch, stage, channel>>

OutboxInit ==
  /\ recorded = {} /\ published = {}
  /\ batch = [b \in Brokers |-> {}]
  /\ stage = [b \in Brokers |-> "polling"]
  /\ channel = "none"

\* OutboxRepository.add, once the transaction around it commits.
Record(e) ==
  /\ e \notin recorded
  /\ recorded' = recorded \cup {e}
  /\ UNCHANGED <<published, batch, stage, channel>>

Unpublished(b) == {e \in recorded \ published : BrokerOf[e] = b}

\* findUnpublished: the oldest rows, at most BatchSize of them.
Oldest(rows) == {e \in rows : Cardinality({f \in rows : f < e}) < BatchSize}

\* A tick of the relay.  It connects first if it never did; a tick that cannot
\* reach Postgres or the broker changes nothing.
Poll(b) ==
  /\ stage[b] = "polling"
  /\ Unpublished(b) # {}
  /\ batch' = [batch EXCEPT ![b] = Oldest(Unpublished(b))]
  /\ stage' = [stage EXCEPT ![b] = "sending"]
  /\ channel' = IF b = "rabbitmq" /\ channel = "none" THEN "open" ELSE channel
  /\ UNCHANGED <<recorded, published>>

PollNothing(b) ==
  /\ stage[b] = "polling"
  /\ Unpublished(b) = {}
  /\ UNCHANGED relayVars

\* The row the loop over the batch is at.
Current(b, e) == e \in batch[b] /\ \A f \in batch[b] : e <= f

Advance(b, e) ==
  /\ batch' = [batch EXCEPT ![b] = @ \ {e}]
  /\ stage' = [stage EXCEPT ![b] = IF batch[b] = {e} THEN "polling" ELSE "sending"]

SendAccepted(b, e) ==
  /\ stage[b] = "sending" /\ Current(b, e)
  /\ stage' = [stage EXCEPT ![b] = "marking"]
  /\ UNCHANGED <<recorded, published, batch, channel>>

\* Mistake: a publisher that never throws, so that a failed send is marked.
SendRejected_Swallowed(b, e) ==
  /\ stage[b] = "sending" /\ Current(b, e)
  /\ stage' = [stage EXCEPT ![b] = "marking"]
  /\ UNCHANGED <<recorded, published, batch, channel>>

SendRejected(b, e) ==
  /\ stage[b] = "sending" /\ Current(b, e)
  /\ Advance(b, e)
  /\ UNCHANGED <<recorded, published, channel>>

MarkPublished(b, e) ==
  /\ stage[b] = "marking" /\ Current(b, e)
  /\ published' = published \cup {e}
  /\ Advance(b, e)
  /\ UNCHANGED <<recorded, channel>>

\* The UPDATE rejects: the row will be sent again.
MarkFails(b, e) ==
  /\ stage[b] = "marking" /\ Current(b, e)
  /\ Advance(b, e)
  /\ UNCHANGED <<recorded, published, channel>>

\* The process dies and Docker starts it again.
RelayCrash(b) ==
  /\ stage[b] # "polling"
  /\ batch' = [batch EXCEPT ![b] = {}]
  /\ stage' = [stage EXCEPT ![b] = "polling"]
  /\ channel' = IF b = "rabbitmq" THEN "none" ELSE channel
  /\ UNCHANGED <<recorded, published>>

OutboxTypeOK ==
  /\ recorded \subseteq Events
  /\ published \subseteq recorded
  /\ batch \in [Brokers -> SUBSET recorded]
  /\ \A b \in Brokers : \A e \in batch[b] : BrokerOf[e] = b
  /\ stage \in [Brokers -> {"polling", "sending", "marking"}]
  /\ channel \in {"none", "open", "dead"}

=============================================================================
