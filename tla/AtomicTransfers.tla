--------------------------- MODULE AtomicTransfers ---------------------------
(***************************************************************************)
(* What a reader of the use case expects of it: a remittance happens at    *)
(* one instant, moves what its posting says between wallets that can       *)
(* afford it, and books the same amounts in the ledger.                    *)
(***************************************************************************)
EXTENDS Integers

CONSTANTS
  Requests,
  Wallets,
  InitialBalance,
  Postings      \* the postings, each the net it adds to every wallet

VARIABLES balance, ledger, remittances

Init ==
  /\ balance = InitialBalance
  /\ ledger = [w \in Wallets |-> 0]
  /\ remittances = {}

Transfer(r, posting) ==
  /\ r \notin remittances
  /\ \A w \in Wallets : balance[w] + posting[w] >= 0
  /\ balance' = [w \in Wallets |-> balance[w] + posting[w]]
  /\ ledger' = [w \in Wallets |-> ledger[w] + posting[w]]
  /\ remittances' = remittances \cup {r}

Next == \E r \in Requests, posting \in Postings : Transfer(r, posting)

Spec == Init /\ [][Next]_<<balance, ledger, remittances>>

=============================================================================
