---------------------------- MODULE EventJourney ----------------------------
(***************************************************************************)
(* What the rest of the system may rely on, whatever happens to relays,    *)
(* brokers and consumers: an event starts with the commit that records it, *)
(* is sent after that, is marked or acted on after it was sent, and never  *)
(* goes back.  An account event is acted on once, unless the memory of it  *)
(* was lost; a remittance is indexed as often as it takes.                 *)
(***************************************************************************)
EXTENDS Integers

CONSTANTS AccountEvents, RemittanceEvents

VARIABLES
  recorded,      \* committed with the business rows
  sent,          \* handed to the broker at least once
  published,     \* never to be sent again
  effects,       \* how often each account event was acted on
  indexed,       \* the remittances search knows
  forgotten      \* account events that may be acted on again

journey == <<recorded, sent, published, effects, indexed, forgotten>>

Init ==
  /\ recorded = {} /\ sent = {} /\ published = {}
  /\ effects = [e \in AccountEvents |-> 0]
  /\ indexed = {} /\ forgotten = {}

Record(e) ==
  /\ e \notin recorded
  /\ recorded' = recorded \cup {e}
  /\ UNCHANGED <<sent, published, effects, indexed, forgotten>>

Send(e) ==
  /\ e \in recorded
  /\ sent' = sent \cup {e}
  /\ UNCHANGED <<recorded, published, effects, indexed, forgotten>>

Publish(e) ==
  /\ e \in sent
  /\ published' = published \cup {e}
  /\ UNCHANGED <<recorded, sent, effects, indexed, forgotten>>

Act(e) ==
  /\ e \in sent \cap AccountEvents
  /\ effects[e] = 0 \/ e \in forgotten
  /\ effects' = [effects EXCEPT ![e] = @ + 1]
  /\ UNCHANGED <<recorded, sent, published, indexed, forgotten>>

Index(e) ==
  /\ e \in sent \cap RemittanceEvents
  /\ indexed' = indexed \cup {e}
  /\ UNCHANGED <<recorded, sent, published, effects, forgotten>>

Forget(e) ==
  /\ e \in sent \cap AccountEvents
  /\ forgotten' = forgotten \cup {e}
  /\ UNCHANGED <<recorded, sent, published, effects, indexed>>

Next ==
  \E e \in AccountEvents \cup RemittanceEvents :
    Record(e) \/ Send(e) \/ Publish(e) \/ Act(e) \/ Index(e) \/ Forget(e)

Spec == Init /\ [][Next]_journey

=============================================================================
