--------------------------- MODULE SendRemittance ---------------------------
(***************************************************************************)
(* SendRemittanceUseCase running against Postgres.                         *)
(*                                                                         *)
(* Each request is one POST /remittances in flight.  It takes a client     *)
(* from the pool, opens a READ COMMITTED transaction, reads the wallets    *)
(* one statement at a time without locking them, checks compliance,        *)
(* fetches the exchange rate, and only then writes: the ledger legs, the   *)
(* absolute balance of three or four wallets, the remittance row and the   *)
(* outbox row.  Between any two statements other requests run.             *)
(*                                                                         *)
(* A wallet row is its committed balance and, while a transaction that     *)
(* wrote it is open, one uncommitted balance guarded by the row lock.      *)
(* The ledger is append-only, so it is kept as the sum of each wallet's    *)
(* committed entries (credits minus debits).  version and overwritten are  *)
(* history variables: the code keeps neither.                              *)
(***************************************************************************)
EXTENDS Money, FiniteSets, Functions

CONSTANTS
  Requests,              \* the requests in flight; each is one remittance id
  NoRequest,
  Accounts,
  TREASURY_ACCOUNT_ID,
  Currencies,
  Wallets,               \* the open wallets, a set of <<account, currency>>
  InitialBalance,        \* the balance each wallet starts from
  Inputs,                \* the request bodies
  Quotes,                \* the rates the provider may quote for a pair
  Applicants,            \* the accounts that may submit KYC meanwhile
  PoolSize               \* clients of the pg pool (node-postgres: max 10)

Input == [sender : Accounts, recipient : Accounts,
          source : Currencies, destination : Currencies, amount : Nat \ {0}]

ASSUME RequestsAssumption == NoRequest \notin Requests
ASSUME AccountsAssumption == TREASURY_ACCOUNT_ID \in Accounts /\ Applicants \subseteq Accounts
ASSUME WalletsAssumption ==
  /\ Wallets \subseteq Accounts \X Currencies
  /\ IsFiniteSet(Wallets)
  /\ InitialBalance \in [Wallets -> Nat]
ASSUME InputsAssumption ==
  /\ Inputs \subseteq Input
  /\ Quotes \in [Currencies \X Currencies -> SUBSET Rate]
ASSUME PoolAssumption == PoolSize \in Nat \ {0}

UNVERIFIED_LIMIT_MINOR_UNITS == 100000

Role == {"source", "destination", "treasurySource", "treasuryDestination"}
Saving == {"saveSource", "saveDestination",
           "saveTreasurySource", "saveTreasuryDestination"}
Ended == {"completed", "failed"}
Phase == Saving \cup Ended \cup
  {"received", "findSource", "findDestination", "checkCompliance",
   "findTreasurySource", "findTreasuryDestination", "getRate", "postLedger",
   "saveRemittance", "addOutbox", "commit", "rollback"}
Insert == {"ledger", "remittance", "outbox"}
NeverRead == -1

VARIABLES
  \* the request, in the API process
  pc, input, seen, converted, checkedOut,
  \* its open transaction, in Postgres
  pending, dirty, lock,
  \* the committed tables
  balance, ledger, remittances, outbox, verified,
  \* history
  version, seenVersion, overwritten

request == <<pc, input, seen, converted, checkedOut, seenVersion>>
transaction == <<pending, dirty, lock>>
tables == <<balance, ledger, remittances, outbox, version, overwritten>>
vars == <<request, transaction, tables, verified>>

-----------------------------------------------------------------------------
(* What a request reads, computes and posts *)

IsSameCurrency(in) == in.source = in.destination

\* The wallet a role stands for: account and currency identify it (the
\* schema's UNIQUE constraint).  With one currency, both treasury roles are
\* the same wallet.
WalletOf(in, role) ==
  CASE role = "source"              -> <<in.sender, in.source>>
    [] role = "destination"         -> <<in.recipient, in.destination>>
    [] role = "treasurySource"      -> <<TREASURY_ACCOUNT_ID, in.source>>
    [] role = "treasuryDestination" -> <<TREASURY_ACCOUNT_ID, in.destination>>

\* The wallets the use case saves, each from its own read.
SavedRoles(in) ==
  IF IsSameCurrency(in) THEN Role \ {"treasuryDestination"} ELSE Role

\* What Wallet.credit and Wallet.debit add to the balance a role was read at.
Delta(in, conv, role) ==
  CASE role = "source"      -> -(in.amount + Fee(in.amount))
    [] role = "destination" -> conv
    [] role = "treasurySource" ->
         IF IsSameCurrency(in) THEN Fee(in.amount) ELSE in.amount + Fee(in.amount)
    [] role = "treasuryDestination" -> -conv

NewBalance(r, role) == seen[r][role] + Delta(input[r], converted[r], role)

Credit(wallet, money) == [wallet |-> wallet, net |-> money]
Debit(wallet, money) == [wallet |-> wallet, net |-> -money]
NoLeg(wallet) == [wallet |-> wallet, net |-> 0]

\* The legs of one posting.  The principal goes from wallet to wallet when the
\* currency is the same, through the two treasury wallets when it is not.
Legs(in, conv) ==
  LET W(role) == WalletOf(in, role) IN
  [ principalDebit  |-> Debit(W("source"), in.amount),
    feeDebit        |-> Debit(W("source"), Fee(in.amount)),
    feeRevenue      |-> Credit(W("treasurySource"), Fee(in.amount)),
    principalCredit |-> Credit(W("destination"), conv),
    sourceLeg       |-> IF IsSameCurrency(in) THEN NoLeg(W("treasurySource"))
                        ELSE Credit(W("treasurySource"), in.amount),
    destinationLeg  |-> IF IsSameCurrency(in) THEN NoLeg(W("treasuryDestination"))
                        ELSE Debit(W("treasuryDestination"), conv) ]

Sum6(legs, Amount(_)) ==
  Amount(legs.principalDebit) + Amount(legs.feeDebit) + Amount(legs.feeRevenue)
  + Amount(legs.principalCredit) + Amount(legs.sourceLeg) + Amount(legs.destinationLeg)

NetOfWallet(legs, w) ==
  LET Amount(leg) == IF leg.wallet = w THEN leg.net ELSE 0 IN Sum6(legs, Amount)

NetOfCurrency(legs, c) ==
  LET Amount(leg) == IF leg.wallet[2] = c THEN leg.net ELSE 0 IN Sum6(legs, Amount)

BalancedPerCurrency(legs) == \A c \in Currencies : NetOfCurrency(legs, c) = 0

\* InMemoryComplianceChecker.check
Approved(in) ==
  in.sender \in verified \/ in.amount <= UNVERIFIED_LIMIT_MINOR_UNITS

\* Mistake: the sender's debit is not checked.
CanPost_SenderUnchecked(r) ==
  LET in == input[r] IN
  /\ IsSameCurrency(in) \/ Covers(seen[r]["treasuryDestination"], converted[r])
  /\ BalancedPerCurrency(Legs(in, converted[r]))

\* The debits that may throw, and the ledger's own check.
CanPost(r) ==
  LET in == input[r] IN
  /\ Covers(seen[r]["source"], in.amount + Fee(in.amount))
  /\ IsSameCurrency(in) \/ Covers(seen[r]["treasuryDestination"], converted[r])
  /\ BalancedPerCurrency(Legs(in, converted[r]))

-----------------------------------------------------------------------------
Init ==
  /\ pc = [r \in Requests |-> "received"]
  /\ input \in [Requests -> Inputs]
  /\ seen = [r \in Requests |-> [role \in Role |-> 0]]
  /\ seenVersion = [r \in Requests |-> [role \in Role |-> NeverRead]]
  /\ converted = [r \in Requests |-> 0]
  /\ checkedOut = {}
  /\ pending = [r \in Requests |-> {}]
  /\ dirty = [w \in Wallets |-> 0]
  /\ lock = [w \in Wallets |-> NoRequest]
  /\ balance = InitialBalance
  /\ ledger = [w \in Wallets |-> 0]
  /\ version = [w \in Wallets |-> 0]
  /\ remittances = {} /\ outbox = {} /\ verified = {} /\ overwritten = {}

Goto(r, here, next) == pc[r] = here /\ pc' = [pc EXCEPT ![r] = next]

\* pool.connect() and BEGIN: waits while every client is checked out.
Begin(r) ==
  /\ Goto(r, "received", "findSource")
  /\ Cardinality(checkedOut) < PoolSize
  /\ checkedOut' = checkedOut \cup {r}
  /\ UNCHANGED <<input, seen, converted, seenVersion, transaction, tables, verified>>

\* findByAccountIdAndCurrency: a plain SELECT of the committed balance.
Find(r, role) ==
  LET w == WalletOf(input[r], role) IN
  /\ w \in Wallets
  /\ seen' = [seen EXCEPT ![r][role] = balance[w]]
  /\ seenVersion' = [seenVersion EXCEPT ![r][role] = version[w]]
  /\ UNCHANGED <<input, converted, checkedOut, transaction, tables, verified>>

FindSource(r) ==
  Goto(r, "findSource", "findDestination") /\ Find(r, "source")

FindDestination(r) ==
  Goto(r, "findDestination", "checkCompliance") /\ Find(r, "destination")

CheckCompliance(r) ==
  /\ Goto(r, "checkCompliance", "findTreasurySource")
  /\ Approved(input[r])
  /\ UNCHANGED <<input, seen, converted, checkedOut, seenVersion, transaction, tables,
                 verified>>

FindTreasurySource(r) ==
  /\ Goto(r, "findTreasurySource",
          IF IsSameCurrency(input[r]) THEN "getRate" ELSE "findTreasuryDestination")
  /\ Find(r, "treasurySource")

FindTreasuryDestination(r) ==
  Goto(r, "findTreasuryDestination", "getRate") /\ Find(r, "treasuryDestination")

\* A remittance in one currency converts nothing; otherwise the provider is
\* awaited with the transaction open.
GetRate(r) ==
  LET in == input[r] IN
  /\ Goto(r, "getRate", "postLedger")
  /\ \/ /\ IsSameCurrency(in)
        /\ converted' = [converted EXCEPT ![r] = in.amount]
     \/ /\ ~IsSameCurrency(in)
        /\ \E rate \in Quotes[in.source, in.destination] :
             converted' = [converted EXCEPT ![r] = Convert(in.amount, rate)]
  /\ UNCHANGED <<input, seen, checkedOut, seenVersion, transaction, tables, verified>>

\* Mistake: the legs are inserted through the pool, not the transaction's client.
PostLedger_OutsideTransaction(r) ==
  /\ Goto(r, "postLedger", "saveSource")
  /\ CanPost(r)
  /\ ledger' = [w \in Wallets |-> ledger[w] + NetOfWallet(Legs(input[r], converted[r]), w)]
  /\ UNCHANGED <<input, seen, converted, checkedOut, seenVersion, transaction, verified,
                 balance, remittances, outbox, version, overwritten>>

PostLedger(r) ==
  /\ Goto(r, "postLedger", "saveSource")
  /\ CanPost(r)
  /\ pending' = [pending EXCEPT ![r] = @ \cup {"ledger"}]
  /\ UNCHANGED <<input, seen, converted, checkedOut, seenVersion, dirty, lock, tables,
                 verified>>

\* PostgresWalletRepository.save: writes the absolute balance, and takes the
\* row lock or waits for the transaction that holds it.
Save(r, role) ==
  LET w == WalletOf(input[r], role) IN
  /\ lock[w] \in {r, NoRequest}
  /\ lock' = [lock EXCEPT ![w] = r]
  /\ dirty' = [dirty EXCEPT ![w] = NewBalance(r, role)]
  /\ UNCHANGED <<input, seen, converted, checkedOut, seenVersion, pending, tables,
                 verified>>

SaveSource(r) ==
  Goto(r, "saveSource", "saveDestination") /\ Save(r, "source")

\* Mistake: the recipient's credit is never saved.
SaveDestination_Forgotten(r) ==
  /\ Goto(r, "saveDestination", "saveTreasurySource")
  /\ UNCHANGED <<input, seen, converted, checkedOut, seenVersion, transaction, tables,
                 verified>>

SaveDestination(r) ==
  Goto(r, "saveDestination", "saveTreasurySource") /\ Save(r, "destination")

\* Mistake: the destination treasury is not saved after a conversion.
SaveTreasurySource_Last(r) ==
  /\ Goto(r, "saveTreasurySource", "saveRemittance")
  /\ Save(r, "treasurySource")

SaveTreasurySource(r) ==
  /\ Goto(r, "saveTreasurySource",
          IF IsSameCurrency(input[r]) THEN "saveRemittance" ELSE "saveTreasuryDestination")
  /\ Save(r, "treasurySource")

SaveTreasuryDestination(r) ==
  /\ Goto(r, "saveTreasuryDestination", "saveRemittance")
  /\ Save(r, "treasuryDestination")

InsertRow(r, row) ==
  /\ pending' = [pending EXCEPT ![r] = @ \cup {row}]
  /\ UNCHANGED <<input, seen, converted, checkedOut, seenVersion, dirty, lock, tables,
                 verified>>

\* Mistake: the remittance row is inserted through the pool.
SaveRemittance_OutsideTransaction(r) ==
  /\ Goto(r, "saveRemittance", "addOutbox")
  /\ remittances' = remittances \cup {r}
  /\ UNCHANGED <<input, seen, converted, checkedOut, seenVersion, transaction, verified,
                 balance, ledger, outbox, version, overwritten>>

\* Mistake: the remittance row is never inserted.
SaveRemittance_Forgotten(r) ==
  /\ Goto(r, "saveRemittance", "addOutbox")
  /\ UNCHANGED <<input, seen, converted, checkedOut, seenVersion, transaction, tables,
                 verified>>

SaveRemittance(r) ==
  Goto(r, "saveRemittance", "addOutbox") /\ InsertRow(r, "remittance")

\* Mistake: the event is inserted through the pool, as if published directly.
AddOutbox_OutsideTransaction(r) ==
  /\ Goto(r, "addOutbox", "commit")
  /\ outbox' = outbox \cup {r}
  /\ UNCHANGED <<input, seen, converted, checkedOut, seenVersion, transaction, verified,
                 balance, ledger, remittances, version, overwritten>>

AddOutbox(r) ==
  Goto(r, "addOutbox", "commit") /\ InsertRow(r, "outbox")

-----------------------------------------------------------------------------
(* How a transaction ends *)

Locked(r) == {w \in Wallets : lock[w] = r}

\* Mistake: the client goes back to the pool with the transaction still open.
EndTransaction_LeftOpen(r) ==
  /\ pending' = [pending EXCEPT ![r] = {}]
  /\ UNCHANGED <<lock, dirty>>

\* The transaction's writes and locks are gone, committed or not.
EndTransaction(r) ==
  /\ pending' = [pending EXCEPT ![r] = {}]
  /\ lock' = [w \in Wallets |-> IF lock[w] = r THEN NoRequest ELSE lock[w]]
  /\ dirty' = [w \in Wallets |-> IF lock[w] = r THEN 0 ELSE dirty[w]]

\* client.release() in runInTransaction's finally.
Release(r) == checkedOut' = checkedOut \ {r}

\* r wrote w from a balance that another commit had already replaced, or wrote
\* it twice, each time from its own read.
Overwrites(r, w) ==
  LET roles == {role \in SavedRoles(input[r]) : WalletOf(input[r], role) = w} IN
  \/ \E role \in roles : seenVersion[r][role] # version[w]
  \/ \E role1, role2 \in roles : role1 # role2

CommitRows(r) ==
  /\ balance' = [w \in Wallets |-> IF lock[w] = r THEN dirty[w] ELSE balance[w]]
  /\ version' = [w \in Wallets |-> IF lock[w] = r THEN version[w] + 1 ELSE version[w]]
  /\ overwritten' = overwritten \cup {w \in Locked(r) : Overwrites(r, w)}
  /\ ledger' = [w \in Wallets |->
       IF "ledger" \in pending[r]
       THEN ledger[w] + NetOfWallet(Legs(input[r], converted[r]), w)
       ELSE ledger[w]]
  /\ remittances' = IF "remittance" \in pending[r] THEN remittances \cup {r} ELSE remittances
  /\ outbox' = IF "outbox" \in pending[r] THEN outbox \cup {r} ELSE outbox
  /\ EndTransaction(r)

Commit(r) ==
  /\ Goto(r, "commit", "completed")
  /\ CommitRows(r)
  /\ Release(r)
  /\ UNCHANGED <<input, seen, converted, seenVersion, verified>>

\* The server commits and the connection dies before the answer arrives: the
\* use case sees COMMIT reject and reports an error.
CommitUnacknowledged(r) ==
  /\ Goto(r, "commit", "failed")
  /\ CommitRows(r)
  /\ Release(r)
  /\ UNCHANGED <<input, seen, converted, seenVersion, verified>>

\* A domain error thrown by doExecute: a wallet that does not exist, the
\* compliance check, insufficient funds, an unbalanced posting.
Refused(r) ==
  LET Missing(role) == WalletOf(input[r], role) \notin Wallets IN
  \/ pc[r] = "findSource" /\ Missing("source")
  \/ pc[r] = "findDestination" /\ Missing("destination")
  \/ pc[r] = "checkCompliance" /\ ~Approved(input[r])
  \/ pc[r] = "findTreasurySource" /\ Missing("treasurySource")
  \/ pc[r] = "findTreasuryDestination" /\ Missing("treasuryDestination")
  \/ pc[r] = "postLedger" /\ ~CanPost(r)

Refuse(r) ==
  /\ Refused(r)
  /\ pc' = [pc EXCEPT ![r] = "rollback"]
  /\ UNCHANGED <<input, seen, converted, checkedOut, seenVersion, transaction, tables,
                 verified>>

\* getRate rejects: no rate for the pair, or the provider could not be reached.
RateUnavailable(r) ==
  /\ Goto(r, "getRate", "rollback")
  /\ ~IsSameCurrency(input[r])
  /\ UNCHANGED <<input, seen, converted, checkedOut, seenVersion, transaction, tables,
                 verified>>

SavingRole ==
  [saveSource |-> "source", saveDestination |-> "destination",
   saveTreasurySource |-> "treasurySource",
   saveTreasuryDestination |-> "treasuryDestination"]

WaitsFor(r, s) ==
  /\ pc[r] \in Saving
  /\ r # s
  /\ lock[WalletOf(input[r], SavingRole[pc[r]])] = s

\* r is on a cycle of waiting transactions: everyone in ring waits for a
\* member of it and is waited for by one.
Deadlocked(r) ==
  \E ring \in SUBSET Requests :
    /\ r \in ring
    /\ \A s \in ring : \E t \in ring : WaitsFor(s, t)
    /\ \A t \in ring : \E s \in ring : WaitsFor(s, t)

\* Postgres aborts one transaction of the cycle; the statement rejects.
AbortDeadlocked(r) ==
  /\ Deadlocked(r)
  /\ pc' = [pc EXCEPT ![r] = "rollback"]
  /\ EndTransaction(r)
  /\ UNCHANGED <<input, seen, converted, checkedOut, seenVersion, tables, verified>>

\* Mistake: no finally, so a failed request keeps its client.
Rollback_LeaksClient(r) ==
  /\ Goto(r, "rollback", "failed")
  /\ EndTransaction(r)
  /\ UNCHANGED <<input, seen, converted, checkedOut, seenVersion, tables, verified>>

\* runInTransaction's catch and finally.
Rollback(r) ==
  /\ Goto(r, "rollback", "failed")
  /\ EndTransaction(r)
  /\ Release(r)
  /\ UNCHANGED <<input, seen, converted, seenVersion, tables, verified>>

\* The connection or the API process dies before COMMIT: Postgres aborts the
\* transaction.
LoseConnection(r) ==
  /\ pc[r] \notin Ended \cup {"received"}
  /\ pc' = [pc EXCEPT ![r] = "failed"]
  /\ EndTransaction(r)
  /\ Release(r)
  /\ UNCHANGED <<input, seen, converted, seenVersion, tables, verified>>

\* SubmitKycUseCase: the profile is upserted as VERIFIED, in a statement of
\* its own, while remittances of the account run.
SubmitKyc(a) ==
  /\ a \notin verified
  /\ verified' = verified \cup {a}
  /\ UNCHANGED <<request, transaction, tables>>

\* Every request was answered; nothing is left to do.
Idle ==
  /\ \A r \in Requests : pc[r] \in Ended
  /\ UNCHANGED vars

-----------------------------------------------------------------------------
\* What the event loop and Postgres do for r without outside help.
Progress(r) ==
  \/ Begin(r)
  \/ FindSource(r) \/ FindDestination(r)
  \/ CheckCompliance(r)
  \/ FindTreasurySource(r) \/ FindTreasuryDestination(r)
  \/ GetRate(r)
  \/ PostLedger(r)
  \/ SaveSource(r) \/ SaveDestination(r)
  \/ SaveTreasurySource(r) \/ SaveTreasuryDestination(r)
  \/ SaveRemittance(r)
  \/ AddOutbox(r)
  \/ Commit(r)
  \/ Refuse(r)
  \/ AbortDeadlocked(r)
  \/ Rollback(r)

Fault(r) == CommitUnacknowledged(r) \/ RateUnavailable(r) \/ LoseConnection(r)

Next ==
  \/ \E r \in Requests : Progress(r) \/ Fault(r)
  \/ \E a \in Applicants : SubmitKyc(a)
  \/ Idle

Spec == Init /\ [][Next]_vars

\* Postgres answers, a row lock is granted when it is free, and the exchange
\* rate call is bounded by its timeouts; faults are never owed.
FairSpec == Spec /\ \A r \in Requests : WF_vars(Progress(r))

-----------------------------------------------------------------------------
(* Properties *)

TypeOK ==
  /\ pc \in [Requests -> Phase]
  /\ input \in [Requests -> Inputs]
  /\ seen \in [Requests -> [Role -> Int]]
  /\ seenVersion \in [Requests -> [Role -> Int]]
  /\ converted \in [Requests -> Nat]
  /\ checkedOut \subseteq Requests
  /\ IsFiniteSet(checkedOut) /\ Cardinality(checkedOut) <= PoolSize
  /\ pending \in [Requests -> SUBSET Insert]
  /\ dirty \in [Wallets -> Int]
  /\ lock \in [Wallets -> Requests \cup {NoRequest}]
  /\ balance \in [Wallets -> Int]
  /\ ledger \in [Wallets -> Int]
  /\ version \in [Wallets -> Nat]
  /\ remittances \subseteq Requests
  /\ outbox \subseteq Requests
  /\ verified \subseteq Accounts
  /\ overwritten \subseteq Wallets

\* No interleaving takes a wallet below zero, even though every debit is
\* checked against a balance that may be stale when it is written.  (The
\* CHECK of the schema is not modelled: this holds without it.)
NonNegativeBalances == \A w \in Wallets : balance[w] >= 0

\* The lost update is the only way a wallet drifts from its ledger: as long
\* as no transaction wrote the wallet from a replaced read, or twice, its
\* balance is its opening balance plus its entries.
DriftOnlyFromOverwrites ==
  \A w \in Wallets \ overwritten : balance[w] = InitialBalance[w] + ledger[w]

\* The ledger holds the legs of the committed remittances, each posting whole
\* and once, and nothing of a request that was refused, rolled back or lost.
LedgerHoldsRemittances ==
  \A w \in Wallets :
    LET posted == [r \in Requests |-> NetOfWallet(Legs(input[r], converted[r]), w)]
    IN ledger[w] = SumFunctionOnSet(posted, remittances)

WalletsIn(c) == {w \in Wallets : w[2] = c}

\* Double entry: in every currency the ledger's entries, over all wallets and
\* the treasury's, add up to zero.  A conversion leaves one currency and
\* enters another, so no posting may rely on the other currency's legs.
LedgerIsBalanced == \A c \in Currencies : SumFunctionOnSet(ledger, WalletsIn(c)) = 0

\* Remittances move money and never make or destroy any: the balances of a
\* currency add up to what they opened with, unless a commit overwrote one.
MoneyIsConserved ==
  \A c \in Currencies :
    WalletsIn(c) \cap overwritten = {} =>
      SumFunctionOnSet(balance, WalletsIn(c)) = SumFunctionOnSet(InitialBalance, WalletsIn(c))

\* The committed remittances that wrote w, each with the role it had w in.
Uses(w) == {use \in remittances \X Role :
              /\ use[2] \in SavedRoles(input[use[1]])
              /\ WalletOf(input[use[1]], use[2]) = w}

\* What docs/invariants.md says of independent remittances, with the treasury
\* counted: a wallet is only ever overwritten when two committed remittances
\* share it, in whatever roles, or one has it in two.  No remittance that was
\* refused, rolled back or lost is to blame, and none that uses other wallets.
OverwritesAreShared ==
  \A w \in overwritten : \E use1, use2 \in Uses(w) : use1 # use2

\* A 201 is only sent for a remittance that is durable, with its event in the
\* outbox, and a request still running has left nothing for others to see.
RepliesAreTrue ==
  /\ outbox = remittances
  /\ \A r \in Requests :
       /\ pc[r] = "completed" => r \in remittances
       /\ pc[r] \notin Ended => r \notin remittances

\* An unverified sender never gets more than the limit through, although the
\* profile is read long before the commit.
LimitNeedsVerification ==
  \A r \in remittances :
    input[r].amount > UNVERIFIED_LIMIT_MINOR_UNITS => input[r].sender \in verified

\* Every request is answered: lock waits, deadlocks, the pool and faults
\* never leave one hanging.
EveryRequestEnds == \A r \in Requests : <>(pc[r] \in Ended)

\* The doc's rule that every wallet mutation has its ledger legs: a balance is
\* always the opening balance plus the wallet's entries.
BalanceIsLedger == \A w \in Wallets : balance[w] = InitialBalance[w] + ledger[w]

\* The doc's rule that remittances against different wallets are independent:
\* requests that share no customer wallet never lose each other's writes.
CustomerWallets(in) == {WalletOf(in, "source"), WalletOf(in, "destination")}
DisjointRemittancesAreIndependent ==
  (\A r, s \in Requests : r # s =>
      CustomerWallets(input[r]) \cap CustomerWallets(input[s]) = {})
  => overwritten = {}

-----------------------------------------------------------------------------
(* The abstract specifications it implements *)

ConvertedAmounts(in) ==
  IF IsSameCurrency(in) THEN {in.amount}
  ELSE {Convert(in.amount, rate) : rate \in Quotes[in.source, in.destination]}

Posting(in, conv) == [w \in Wallets |-> NetOfWallet(Legs(in, conv), w)]

BalancedPostings ==
  UNION {{Posting(in, conv) : conv \in
            {c \in ConvertedAmounts(in) : BalancedPerCurrency(Legs(in, c))}} : in \in Inputs}

Journal == INSTANCE RemittanceJournal WITH Postings <- BalancedPostings

\* Under every interleaving and fault the committed tables move as the
\* journal does: one whole balanced posting, remittance and event at a time.
ImplementsJournal == Journal!Spec

Atomic == INSTANCE AtomicTransfers WITH Postings <- BalancedPostings

\* Until a commit overwrites another's balance, every commit is one atomic
\* transfer between wallets that can afford it, whatever ran in between:
\* reading, deciding and writing absolute balances adds up.
ImplementsAtomicTransfers ==
  /\ Atomic!Init
  /\ [][Atomic!Next \/ overwritten' # {}]_<<balance, ledger, remittances>>

-----------------------------------------------------------------------------
(* The inductive invariant behind the properties above *)

Posted == Saving \cup {"saveRemittance", "addOutbox", "commit"}
Quoted == Posted \cup {"postLedger"}
Cleared == Quoted \cup {"findTreasurySource", "findTreasuryDestination", "getRate"}

\* A request past a check still satisfies it: what it decided on is its own
\* copy, and an account once verified stays so.
ChecksHold(r) ==
  /\ pc[r] \in Posted => CanPost(r)
  /\ pc[r] \in Quoted => converted[r] \in ConvertedAmounts(input[r])
  /\ pc[r] \in Cleared => Approved(input[r])
  /\ pc[r] = "saveTreasuryDestination" => ~IsSameCurrency(input[r])

\* A read that no commit has replaced since is the committed balance.
FreshRead(r, role) ==
  LET w == WalletOf(input[r], role) IN
  w \in Wallets =>
    /\ seenVersion[r][role] <= version[w]
    /\ seenVersion[r][role] = version[w] => seen[r][role] = balance[w]

\* The roles whose wallet r has written when it reaches its phase.
Written(r) ==
  CASE pc[r] = "saveDestination"         -> {"source"}
    [] pc[r] = "saveTreasurySource"      -> {"source", "destination"}
    [] pc[r] = "saveTreasuryDestination" -> {"source", "destination", "treasurySource"}
    [] pc[r] \in {"saveRemittance", "addOutbox", "commit"} -> SavedRoles(input[r])
    [] OTHER                             -> {}

\* Row locks are held by the transactions that wrote the row, on the rows of
\* their own remittance, and the row's uncommitted balance is the holder's.
WritesLocked(r) ==
  \A role \in Written(r) :
    WalletOf(input[r], role) \in Wallets => lock[WalletOf(input[r], role)] = r

LockedByWriter(w) ==
  lock[w] \in Requests =>
    \E role \in Written(lock[w]) :
      /\ WalletOf(input[lock[w]], role) = w
      /\ dirty[w] = NewBalance(lock[w], role)

\* The roles whose wallet r has found when it reaches its phase.
Found(r) ==
  CASE pc[r] = "findDestination"                         -> {"source"}
    [] pc[r] \in {"checkCompliance", "findTreasurySource"} -> {"source", "destination"}
    [] pc[r] = "findTreasuryDestination" -> {"source", "destination", "treasurySource"}
    [] pc[r] \in Quoted \cup {"getRate"}  -> Role
    [] OTHER                             -> {}

WalletsFound(r) == \A role \in Found(r) : WalletOf(input[r], role) \in Wallets

NothingNegative ==
  /\ \A w \in Wallets : balance[w] >= 0 /\ dirty[w] >= 0
  /\ \A r \in Requests, role \in Role : seen[r][role] >= 0

\* The rows a transaction has inserted when it reaches its phase.
InsertsMatchPhase(r) ==
  pending[r] = CASE pc[r] \in Saving \cup {"saveRemittance"} -> {"ledger"}
                 [] pc[r] = "addOutbox"                      -> {"ledger", "remittance"}
                 [] pc[r] = "commit"                         -> Insert
                 [] OTHER                                    -> {}

\* A read that a commit replaced was replaced by a remittance that uses the wallet.
ReplacedByUse(r) ==
  \A role \in Found(r) \cap SavedRoles(input[r]) :
    LET w == WalletOf(input[r], role) IN seenVersion[r][role] # version[w] => Uses(w) # {}

\* The parts that make each other inductive.
Core ==
  /\ TypeOK
  /\ \A r \in Requests :
       ChecksHold(r) /\ WalletsFound(r) /\ WritesLocked(r) /\ InsertsMatchPhase(r)
  /\ \A r \in Requests, role \in Role : FreshRead(r, role)
  /\ \A w \in Wallets : LockedByWriter(w)
  /\ NothingNegative

IInv ==
  /\ Core
  /\ RepliesAreTrue
  /\ LimitNeedsVerification
  /\ DriftOnlyFromOverwrites
  /\ \A r \in Requests : ReplacedByUse(r)
  /\ OverwritesAreShared
  /\ IsFiniteSet(remittances)
  /\ LedgerHoldsRemittances
  /\ LedgerIsBalanced

=============================================================================
