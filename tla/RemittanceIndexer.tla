-------------------------- MODULE RemittanceIndexer --------------------------
(***************************************************************************)
(* The remittance.completed topic, the consumer group that indexes it and  *)
(* the Elasticsearch index.  One partition: the log is a sequence, a       *)
(* position counts the messages before it.  missed and skipped are history *)
(* variables.                                                              *)
(***************************************************************************)
EXTENDS Integers, Sequences

CONSTANTS RemittanceEvents   \* the remittance.completed rows of the outbox

Stopped == -1
NoOffset == -1

VARIABLES
  log,         \* the topic
  position,    \* where the running consumer is, or Stopped
  offset,      \* what the group committed, or NoOffset
  indexed,     \* the documents, by remittance
  missed,      \* events whose index() failed
  skipped      \* events sent before the group had an offset to start from

indexerVars == <<log, position, offset, indexed, missed, skipped>>

IndexerInit ==
  /\ log = << >> /\ position = Stopped /\ offset = NoOffset
  /\ indexed = {} /\ missed = {} /\ skipped = {}

Send(e) ==
  /\ log' = Append(log, e)
  /\ UNCHANGED <<position, offset, indexed, missed, skipped>>

Sent == {log[i] : i \in 1..Len(log)}

\* Mistake: a restarted consumer starts from the end of the topic.
Subscribe_AtEnd ==
  /\ position = Stopped
  /\ position' = Len(log)
  /\ skipped' = IF offset = NoOffset THEN skipped \cup Sent ELSE skipped
  /\ UNCHANGED <<log, offset, indexed, missed>>

\* subscribe with fromBeginning: false, run: from the committed offset, or
\* from the end of the topic when there is none.
Subscribe ==
  /\ position = Stopped
  /\ position' = IF offset = NoOffset THEN Len(log) ELSE offset
  /\ skipped' = IF offset = NoOffset THEN skipped \cup Sent ELSE skipped
  /\ UNCHANGED <<log, offset, indexed, missed>>

NextMessage(e) ==
  /\ position # Stopped /\ position < Len(log)
  /\ e = log[position + 1]
  /\ position' = position + 1

\* index() writes the document under the remittance's id.
IndexNext(e) ==
  /\ NextMessage(e)
  /\ indexed' = indexed \cup {e}
  /\ UNCHANGED <<log, offset, missed, skipped>>

\* index() rejects; the catch logs it and the message counts as consumed.
IndexFails(e) ==
  /\ NextMessage(e)
  /\ missed' = missed \cup {e}
  /\ UNCHANGED <<log, offset, indexed, skipped>>

\* Mistake: offsets are committed as messages are fetched.
CommitOffset_OnFetch ==
  /\ position # Stopped
  /\ offset' = Len(log)
  /\ UNCHANGED <<log, position, indexed, missed, skipped>>

\* kafkajs commits what eachMessage has resolved.
CommitOffset ==
  /\ position # Stopped /\ offset # position
  /\ offset' = position
  /\ UNCHANGED <<log, position, indexed, missed, skipped>>

IndexerCrash ==
  /\ position # Stopped
  /\ position' = Stopped
  /\ UNCHANGED <<log, offset, indexed, missed, skipped>>

IndexerTypeOK ==
  /\ log \in Seq(RemittanceEvents)
  /\ position \in Nat \cup {Stopped} /\ position <= Len(log)
  /\ offset \in Nat \cup {NoOffset} /\ offset <= Len(log)
  /\ indexed \subseteq RemittanceEvents
  /\ missed \subseteq RemittanceEvents
  /\ skipped \subseteq RemittanceEvents

=============================================================================
