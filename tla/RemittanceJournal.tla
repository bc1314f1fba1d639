-------------------------- MODULE RemittanceJournal --------------------------
(***************************************************************************)
(* What the rest of the system may rely on, whatever happens inside a      *)
(* remittance: the journal of settled remittances grows by one whole,      *)
(* balanced posting at a time, each request settles at most once, and its  *)
(* event is there from the moment it settles.  Nothing is ever taken back. *)
(***************************************************************************)
EXTENDS Integers

CONSTANTS
  Requests,
  Wallets,
  Postings     \* the balanced postings, each the net it adds to every wallet

VARIABLES ledger, remittances, outbox

Init ==
  /\ ledger = [w \in Wallets |-> 0]
  /\ remittances = {}
  /\ outbox = {}

Settle(r, posting) ==
  /\ r \notin remittances
  /\ remittances' = remittances \cup {r}
  /\ outbox' = outbox \cup {r}
  /\ ledger' = [w \in Wallets |-> ledger[w] + posting[w]]

Next == \E r \in Requests, posting \in Postings : Settle(r, posting)

Spec == Init /\ [][Next]_<<ledger, remittances, outbox>>

=============================================================================
