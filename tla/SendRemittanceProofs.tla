------------------------ MODULE SendRemittanceProofs ------------------------
(***************************************************************************)
(* Proofs about SendRemittance for every set of requests, wallets, bodies, *)
(* rates and every pool size.                                              *)
(***************************************************************************)
EXTENDS SendRemittance, FiniteSetTheorems, SumTheorems, TLAPS

(* Arithmetic and types of the helpers *)

\* Rounding half up a non-negative fraction gives a natural number.
LEMMA RoundHalfUpNat ==
  ASSUME NEW n \in Nat, NEW d \in Nat \ {0}
  PROVE  RoundHalfUp(n, d) \in Nat
<1> DEFINE num == 2 * n + d
           den == 2 * d
           q == num \div den
<1>1. num \in Nat /\ den \in Nat /\ den > 0
  OBVIOUS
<1>2. q \in Int /\ q * den <= num /\ num < (q + 1) * den
  <2> HIDE DEF num, den
  <2> QED BY <1>1 DEF q
<1>3. q >= 0
  <2> HIDE DEF q, num, den
  <2> SUFFICES ASSUME q + 1 <= 0 PROVE FALSE
    BY <1>2
  <2>1. (q + 1) * den <= 0
    BY <1>1, <1>2
  <2> QED BY <2>1, <1>1, <1>2
<1> QED BY <1>2, <1>3 DEF RoundHalfUp

\* The fee of a natural amount is a natural amount.
LEMMA FeeNat == ASSUME NEW amount \in Nat PROVE Fee(amount) \in Nat
  BY RoundHalfUpNat DEF Fee

\* A rate turns a natural amount into a natural amount.
LEMMA ConvertNat ==
  ASSUME NEW amount \in Nat, NEW rate \in Rate PROVE Convert(amount, rate) \in Nat
<1>1. rate.num \in Nat /\ rate.den \in Nat \ {0}
  BY DEF Rate
<1>2. amount * rate.num \in Nat
  BY <1>1
<1> QED BY <1>1, <1>2, RoundHalfUpNat DEF Convert

\* What a body holds.
LEMMA InputFields ==
  ASSUME NEW in \in Inputs
  PROVE  /\ in.amount \in Nat \ {0}
         /\ Fee(in.amount) \in Nat
         /\ in.source \in Currencies /\ in.destination \in Currencies
  BY InputsAssumption, FeeNat DEF Input

\* What a role adds to its wallet is an integer.
LEMMA DeltaInt ==
  ASSUME NEW in \in Inputs, NEW conv \in Nat, NEW role \in Role
  PROVE  Delta(in, conv, role) \in Int
  BY InputFields DEF Delta, Role

\* What a posting adds to a wallet is an integer.
LEMMA NetOfWalletInt ==
  ASSUME NEW in \in Inputs, NEW conv \in Nat, NEW w
  PROVE  NetOfWallet(Legs(in, conv), w) \in Int
  BY InputFields DEF NetOfWallet, Legs, Sum6, Credit, Debit, NoLeg

-----------------------------------------------------------------------------
(* Type correctness *)

\* Giving a client back keeps the checked-out set finite and within the pool.
LEMMA ReleaseType ==
  ASSUME TypeOK, NEW r \in Requests, Release(r)
  PROVE  /\ checkedOut' \subseteq Requests
         /\ IsFiniteSet(checkedOut') /\ Cardinality(checkedOut') <= PoolSize
<1>1. IsFiniteSet(checkedOut) /\ Cardinality(checkedOut) <= PoolSize
  BY DEF TypeOK
<1>2. checkedOut' = checkedOut \ {r} /\ checkedOut' \subseteq checkedOut
  BY DEF Release
<1>3. IsFiniteSet(checkedOut') /\ Cardinality(checkedOut') <= Cardinality(checkedOut)
  BY <1>1, <1>2, FS_Subset
<1>4. Cardinality(checkedOut) \in Nat /\ Cardinality(checkedOut') \in Nat
  BY <1>1, <1>3, FS_CardinalityType
<1> QED BY <1>1, <1>2, <1>3, <1>4, PoolAssumption DEF TypeOK

\* Ending a transaction keeps the locks, the uncommitted rows and the inserts typed.
LEMMA EndTransactionType ==
  ASSUME TypeOK, NEW r \in Requests, EndTransaction(r)
  PROVE  /\ pending' \in [Requests -> SUBSET Insert]
         /\ dirty' \in [Wallets -> Int]
         /\ lock' \in [Wallets -> Requests \cup {NoRequest}]
  BY DEF TypeOK, EndTransaction

\* The types hold at the start.
LEMMA TypeInit == Init => TypeOK
<1> SUFFICES ASSUME Init PROVE TypeOK
  OBVIOUS
<1>1. IsFiniteSet(checkedOut) /\ Cardinality(checkedOut) = 0
  BY FS_EmptySet DEF Init
<1>2. "received" \in Phase
  BY DEF Phase
<1> QED BY <1>1, <1>2, WalletsAssumption, PoolAssumption DEF Init, TypeOK, NeverRead, Role

\* Every action keeps the types.
LEMMA TypeStep == TypeOK /\ [Next]_vars => TypeOK'
<1> SUFFICES ASSUME TypeOK, [Next]_vars PROVE TypeOK'
  OBVIOUS
<1> USE DEF request, transaction, tables
<1>0. \A p \in {"findSource", "findDestination", "checkCompliance", "findTreasurySource",
                "findTreasuryDestination", "getRate", "postLedger", "saveSource",
                "saveDestination", "saveTreasurySource", "saveTreasuryDestination",
                "saveRemittance", "addOutbox", "commit", "rollback", "completed", "failed"} :
        p \in Phase
  BY DEF Phase, Saving, Ended
<1>1. ASSUME NEW r \in Requests, Begin(r) PROVE TypeOK'
  <2>1. checkedOut' = checkedOut \cup {r} /\ IsFiniteSet(checkedOut)
    BY <1>1 DEF Begin, TypeOK
  <2>2. IsFiniteSet(checkedOut') /\ Cardinality(checkedOut') <= PoolSize
    <3>1. CASE r \in checkedOut
      <4>1. checkedOut' = checkedOut
        BY <2>1, <3>1
      <4> QED BY <4>1 DEF TypeOK
    <3>2. CASE r \notin checkedOut
      <4>1. IsFiniteSet(checkedOut') /\ Cardinality(checkedOut') = Cardinality(checkedOut) + 1
        BY <2>1, <3>2, FS_AddElement
      <4> QED BY <1>1, <2>1, <4>1, FS_CardinalityType, PoolAssumption DEF Begin
    <3> QED BY <3>1, <3>2
  <2> QED BY <1>0, <1>1, <2>1, <2>2 DEF Begin, Goto, TypeOK
<1>2. ASSUME NEW r \in Requests, NEW role \in Role, Find(r, role),
             NEW p \in Phase, pc' = [pc EXCEPT ![r] = p]
      PROVE  TypeOK'
  BY <1>2 DEF Find, TypeOK
<1>3. ASSUME NEW r \in Requests, CheckCompliance(r) PROVE TypeOK'
  BY <1>0, <1>3 DEF CheckCompliance, Goto, TypeOK
<1>4. ASSUME NEW r \in Requests, GetRate(r) PROVE TypeOK'
  <2>1. input[r] \in Inputs /\ input[r].amount \in Nat
    BY InputFields DEF TypeOK
  <2>2. ASSUME NEW rate \in Quotes[input[r].source, input[r].destination]
        PROVE  Convert(input[r].amount, rate) \in Nat
    <3>1. rate \in Rate
      BY <2>1, InputFields, InputsAssumption
    <3> QED BY <2>1, <3>1, ConvertNat
  <2>3. converted' \in [Requests -> Nat]
    BY <1>4, <2>1, <2>2 DEF GetRate, TypeOK
  <2> QED BY <1>0, <1>4, <2>3 DEF GetRate, Goto, TypeOK
<1>5. ASSUME NEW r \in Requests, PostLedger(r) PROVE TypeOK'
  BY <1>0, <1>5 DEF PostLedger, Goto, TypeOK, Insert
<1>6. ASSUME NEW r \in Requests, NEW role \in Role, Save(r, role),
             NEW p \in Phase, pc' = [pc EXCEPT ![r] = p]
      PROVE  TypeOK'
  <2>1. NewBalance(r, role) \in Int
    BY DeltaInt DEF NewBalance, TypeOK
  <2> QED BY <1>6, <2>1 DEF Save, TypeOK
<1>7. ASSUME NEW r \in Requests, NEW row \in Insert, InsertRow(r, row),
             NEW p \in Phase, pc' = [pc EXCEPT ![r] = p]
      PROVE  TypeOK'
  BY <1>7 DEF InsertRow, TypeOK
<1>8. ASSUME NEW r \in Requests, Commit(r) \/ CommitUnacknowledged(r) PROVE TypeOK'
  <2>1. CommitRows(r) /\ EndTransaction(r) /\ Release(r)
    BY <1>8 DEF Commit, CommitUnacknowledged, CommitRows
  <2>2. \A w \in Wallets : NetOfWallet(Legs(input[r], converted[r]), w) \in Int
    BY NetOfWalletInt DEF TypeOK
  <2>3. /\ balance' \in [Wallets -> Int] /\ ledger' \in [Wallets -> Int]
        /\ version' \in [Wallets -> Nat]
    BY <2>1, <2>2 DEF CommitRows, TypeOK
  <2>4. remittances' \subseteq Requests /\ outbox' \subseteq Requests
        /\ overwritten' \subseteq Wallets
    BY <2>1 DEF CommitRows, TypeOK, Locked
  <2>5. /\ pending' \in [Requests -> SUBSET Insert]
        /\ dirty' \in [Wallets -> Int]
        /\ lock' \in [Wallets -> Requests \cup {NoRequest}]
    BY <2>1, EndTransactionType
  <2>6. /\ checkedOut' \subseteq Requests
        /\ IsFiniteSet(checkedOut') /\ Cardinality(checkedOut') <= PoolSize
    BY <2>1, ReleaseType
  <2>7. pc' \in [Requests -> Phase] /\ UNCHANGED <<input, seen, converted, seenVersion, verified>>
    BY <1>0, <1>8 DEF Commit, CommitUnacknowledged, Goto, TypeOK
  <2> QED BY <2>3, <2>4, <2>5, <2>6, <2>7 DEF TypeOK
<1>9. ASSUME NEW r \in Requests,
             Refuse(r) \/ RateUnavailable(r) \/ AbortDeadlocked(r) \/ Rollback(r)
             \/ LoseConnection(r)
      PROVE  TypeOK'
  <2>1. CASE Refuse(r) \/ RateUnavailable(r)
    BY <1>0, <2>1 DEF Refuse, RateUnavailable, Goto, TypeOK
  <2>2. CASE AbortDeadlocked(r)
    BY <1>0, <2>2, EndTransactionType DEF AbortDeadlocked, TypeOK
  <2>3. CASE Rollback(r) \/ LoseConnection(r)
    <3>1. EndTransaction(r) /\ Release(r) /\ pc' \in [Requests -> Phase]
          /\ UNCHANGED <<input, seen, converted, seenVersion, tables, verified>>
      BY <1>0, <2>3 DEF Rollback, LoseConnection, Goto, TypeOK
    <3>2. /\ pending' \in [Requests -> SUBSET Insert]
          /\ dirty' \in [Wallets -> Int]
          /\ lock' \in [Wallets -> Requests \cup {NoRequest}]
      BY <3>1, EndTransactionType
    <3>3. /\ checkedOut' \subseteq Requests
          /\ IsFiniteSet(checkedOut') /\ Cardinality(checkedOut') <= PoolSize
      BY <3>1, ReleaseType
    <3> QED BY <3>1, <3>2, <3>3 DEF TypeOK
  <2> QED BY <1>9, <2>1, <2>2, <2>3
<1>10. ASSUME NEW a \in Applicants, SubmitKyc(a) PROVE TypeOK'
  BY <1>10, AccountsAssumption DEF SubmitKyc, TypeOK
<1>11. ASSUME UNCHANGED vars PROVE TypeOK'
  BY <1>11 DEF vars, TypeOK
<1>12. ASSUME NEW r \in Requests, Progress(r) PROVE TypeOK'
  <2>1. CASE FindSource(r) \/ FindDestination(r) \/ FindTreasurySource(r)
             \/ FindTreasuryDestination(r)
    BY <1>0, <1>2, <2>1 DEF FindSource, FindDestination, FindTreasurySource,
       FindTreasuryDestination, Goto, Role
  <2>2. CASE SaveSource(r) \/ SaveDestination(r) \/ SaveTreasurySource(r)
             \/ SaveTreasuryDestination(r)
    BY <1>0, <1>6, <2>2 DEF SaveSource, SaveDestination, SaveTreasurySource,
       SaveTreasuryDestination, Goto, Role
  <2>3. CASE SaveRemittance(r) \/ AddOutbox(r)
    BY <1>0, <1>7, <2>3 DEF SaveRemittance, AddOutbox, Goto, Insert
  <2> QED BY <1>1, <1>3, <1>4, <1>5, <1>8, <1>9, <1>12, <2>1, <2>2, <2>3 DEF Progress
<1> QED BY <1>8, <1>9, <1>10, <1>11, <1>12 DEF Next, Fault, Idle

\* Every reachable state is well typed; in particular the pool never has more
\* than PoolSize clients checked out.
THEOREM TypeCorrect == Spec => []TypeOK
BY TypeInit, TypeStep, PTL DEF Spec

-----------------------------------------------------------------------------
(* How a step moves *)

\* The steps that neither save a wallet nor end the transaction.
Reads(r) ==
  \/ Begin(r) \/ CheckCompliance(r) \/ GetRate(r) \/ Refuse(r) \/ RateUnavailable(r)
  \/ FindSource(r) \/ FindDestination(r) \/ FindTreasurySource(r)
  \/ FindTreasuryDestination(r)

Inserts(r) == PostLedger(r) \/ SaveRemittance(r) \/ AddOutbox(r)

Saves(r) ==
  SaveSource(r) \/ SaveDestination(r) \/ SaveTreasurySource(r) \/ SaveTreasuryDestination(r)

Ends(r) ==
  Commit(r) \/ CommitUnacknowledged(r) \/ AbortDeadlocked(r) \/ Rollback(r) \/ LoseConnection(r)

\* Every step is of one of these kinds.
LEMMA StepKinds ==
  ASSUME NEW r \in Requests, Progress(r) \/ Fault(r)
  PROVE  Reads(r) \/ Inserts(r) \/ Saves(r) \/ Ends(r)
BY DEF Progress, Fault, Reads, Inserts, Saves, Ends

\* A step of r leaves the other requests' phases, reads and inserts alone, and
\* nothing but a resubmitted profile ever changes verified.
LEMMA OthersUntouched ==
  ASSUME TypeOK, NEW r \in Requests, Progress(r) \/ Fault(r), NEW q \in Requests, q # r
  PROVE  /\ pc'[q] = pc[q] /\ seen'[q] = seen[q] /\ seenVersion'[q] = seenVersion[q]
         /\ converted'[q] = converted[q] /\ pending'[q] = pending[q]
<1> USE DEF TypeOK, request, transaction, tables, Goto
<1>1. CASE Begin(r) \/ CheckCompliance(r) \/ GetRate(r) \/ Refuse(r) \/ RateUnavailable(r)
  BY <1>1 DEF Begin, CheckCompliance, GetRate, Refuse, RateUnavailable
<1>2. CASE FindSource(r) \/ FindDestination(r) \/ FindTreasurySource(r)
           \/ FindTreasuryDestination(r)
  BY <1>2 DEF FindSource, FindDestination, FindTreasurySource, FindTreasuryDestination, Find
<1>3. CASE PostLedger(r) \/ SaveRemittance(r) \/ AddOutbox(r)
  BY <1>3 DEF PostLedger, SaveRemittance, AddOutbox, InsertRow
<1>4. CASE SaveSource(r) \/ SaveDestination(r) \/ SaveTreasurySource(r)
           \/ SaveTreasuryDestination(r)
  BY <1>4 DEF SaveSource, SaveDestination, SaveTreasurySource, SaveTreasuryDestination, Save
<1>5. CASE Commit(r) \/ CommitUnacknowledged(r)
  BY <1>5 DEF Commit, CommitUnacknowledged, CommitRows, EndTransaction
<1>6. CASE AbortDeadlocked(r) \/ Rollback(r) \/ LoseConnection(r)
  BY <1>6 DEF AbortDeadlocked, Rollback, LoseConnection, EndTransaction
<1> QED BY <1>1, <1>2, <1>3, <1>4, <1>5, <1>6 DEF Progress, Fault

\* No step of a request changes a body or a verification.
LEMMA InputVerifiedFixed ==
  ASSUME NEW r \in Requests, Progress(r) \/ Fault(r)
  PROVE  UNCHANGED <<input, verified>>
<1> USE DEF request, transaction, tables
<1>1. CASE Begin(r) \/ CheckCompliance(r) \/ GetRate(r) \/ Refuse(r) \/ RateUnavailable(r)
           \/ PostLedger(r) \/ SaveRemittance(r) \/ AddOutbox(r)
  BY <1>1 DEF Begin, CheckCompliance, GetRate, Refuse, RateUnavailable, PostLedger,
     SaveRemittance, AddOutbox, InsertRow
<1>2. CASE FindSource(r) \/ FindDestination(r) \/ FindTreasurySource(r)
           \/ FindTreasuryDestination(r) \/ SaveSource(r) \/ SaveDestination(r)
           \/ SaveTreasurySource(r) \/ SaveTreasuryDestination(r)
  BY <1>2 DEF FindSource, FindDestination, FindTreasurySource, FindTreasuryDestination,
     Find, SaveSource, SaveDestination, SaveTreasurySource, SaveTreasuryDestination, Save
<1>3. CASE Commit(r) \/ CommitUnacknowledged(r) \/ AbortDeadlocked(r) \/ Rollback(r)
           \/ LoseConnection(r)
  BY <1>3 DEF Commit, CommitUnacknowledged, AbortDeadlocked, Rollback, LoseConnection
<1> QED BY <1>1, <1>2, <1>3 DEF Progress, Fault

\* Only a commit writes the committed tables.
LEMMA TablesFixed ==
  ASSUME NEW r \in Requests, Progress(r) \/ Fault(r), ~Commit(r), ~CommitUnacknowledged(r)
  PROVE  UNCHANGED tables
<1> USE DEF request, transaction, tables
<1>1. CASE Begin(r) \/ CheckCompliance(r) \/ GetRate(r) \/ Refuse(r) \/ RateUnavailable(r)
           \/ PostLedger(r) \/ SaveRemittance(r) \/ AddOutbox(r)
  BY <1>1 DEF Begin, CheckCompliance, GetRate, Refuse, RateUnavailable, PostLedger,
     SaveRemittance, AddOutbox, InsertRow
<1>2. CASE FindSource(r) \/ FindDestination(r) \/ FindTreasurySource(r)
           \/ FindTreasuryDestination(r) \/ SaveSource(r) \/ SaveDestination(r)
           \/ SaveTreasurySource(r) \/ SaveTreasuryDestination(r)
  BY <1>2 DEF FindSource, FindDestination, FindTreasurySource, FindTreasuryDestination,
     Find, SaveSource, SaveDestination, SaveTreasurySource, SaveTreasuryDestination, Save
<1>3. CASE AbortDeadlocked(r) \/ Rollback(r) \/ LoseConnection(r)
  BY <1>3 DEF AbortDeadlocked, Rollback, LoseConnection
<1> QED BY <1>1, <1>2, <1>3 DEF Progress, Fault

-----------------------------------------------------------------------------
(* The checks a request has passed still hold *)

\* CanPost and the converted amount depend only on the request's own copy.
LEMMA ChecksStable ==
  ASSUME NEW q \in Requests, ChecksHold(q), pc'[q] = pc[q], UNCHANGED input,
         seen'[q] = seen[q], converted'[q] = converted[q], verified \subseteq verified'
  PROVE  ChecksHold(q)'
BY DEF ChecksHold, CanPost, Approved, ConvertedAmounts

\* What a request has checked still holds after any step of any request.
LEMMA ChecksStep ==
  ASSUME TypeOK, NEW r \in Requests, ChecksHold(r), Progress(r) \/ Fault(r)
  PROVE  ChecksHold(r)'
<1>0. UNCHANGED <<input, verified>>
  BY InputVerifiedFixed
<1> USE DEF TypeOK, request, transaction, tables, Goto, Posted, Quoted, Cleared, Saving
<1>1. CASE Begin(r) \/ FindSource(r) \/ FindDestination(r) \/ Refuse(r) \/ RateUnavailable(r)
           \/ AbortDeadlocked(r) \/ Rollback(r) \/ LoseConnection(r) \/ Commit(r)
           \/ CommitUnacknowledged(r)
  <2>1. pc'[r] \notin Cleared
    BY <1>1 DEF Begin, FindSource, FindDestination, Refuse, RateUnavailable, AbortDeadlocked,
       Rollback, LoseConnection, Commit, CommitUnacknowledged
  <2> QED BY <2>1 DEF ChecksHold
<1>2. CASE CheckCompliance(r) \/ FindTreasurySource(r) \/ FindTreasuryDestination(r)
  <2>1. Approved(input[r])
    BY <1>2 DEF CheckCompliance, FindTreasurySource, FindTreasuryDestination, ChecksHold
  <2>2. Approved(input[r])'
    BY <1>0, <2>1 DEF Approved
  <2>3. pc'[r] \in {"findTreasurySource", "findTreasuryDestination", "getRate"}
    BY <1>2 DEF CheckCompliance, FindTreasurySource, FindTreasuryDestination
  <2> QED BY <2>2, <2>3 DEF ChecksHold
<1>3. CASE GetRate(r)
  <2>1. pc'[r] = "postLedger" /\ Approved(input[r])
    BY <1>3 DEF GetRate, ChecksHold
  <2>2. converted'[r] \in ConvertedAmounts(input[r])
    BY <1>3 DEF GetRate, ConvertedAmounts
  <2>3. ConvertedAmounts(input[r])' = ConvertedAmounts(input[r]) /\ Approved(input[r])'
    BY <1>0, <2>1 DEF ConvertedAmounts, Approved
  <2> QED BY <2>1, <2>2, <2>3 DEF ChecksHold
<1>4. CASE PostLedger(r) \/ SaveSource(r) \/ SaveDestination(r) \/ SaveTreasurySource(r)
           \/ SaveTreasuryDestination(r) \/ SaveRemittance(r) \/ AddOutbox(r)
  <2>1. seen' = seen /\ converted' = converted
    BY <1>4 DEF PostLedger, SaveSource, SaveDestination, SaveTreasurySource,
       SaveTreasuryDestination, SaveRemittance, AddOutbox, InsertRow, Save
  <2>2. CanPost(r) /\ converted[r] \in ConvertedAmounts(input[r]) /\ Approved(input[r])
    BY <1>4 DEF PostLedger, SaveSource, SaveDestination, SaveTreasurySource,
       SaveTreasuryDestination, SaveRemittance, AddOutbox, ChecksHold
  <2>3. CanPost(r)' /\ (converted[r] \in ConvertedAmounts(input[r]))' /\ Approved(input[r])'
    BY <1>0, <2>1, <2>2 DEF CanPost, ConvertedAmounts, Approved
  <2>4. pc'[r] = "saveTreasuryDestination" => ~IsSameCurrency(input'[r])
    BY <1>0, <1>4 DEF PostLedger, SaveSource, SaveDestination, SaveTreasurySource,
       SaveTreasuryDestination, SaveRemittance, AddOutbox
  <2> QED BY <2>3, <2>4 DEF ChecksHold
<1> QED BY <1>1, <1>2, <1>3, <1>4 DEF Progress, Fault

-----------------------------------------------------------------------------
(* The wallets a request has found *)

\* The wallets a request has found are still found after a step of its own.
LEMMA FoundStep ==
  ASSUME TypeOK, NEW r \in Requests, WalletsFound(r), Progress(r) \/ Fault(r)
  PROVE  WalletsFound(r)'
<1>0. UNCHANGED input
  BY InputVerifiedFixed
<1> USE DEF TypeOK, Goto, Found, Quoted, Posted, Saving, Role
<1> SUFFICES ASSUME NEW role \in Found(r)' PROVE WalletOf(input[r], role) \in Wallets
  BY <1>0 DEF WalletsFound
<1>1. CASE Begin(r) \/ Refuse(r) \/ RateUnavailable(r) \/ AbortDeadlocked(r) \/ Rollback(r)
           \/ LoseConnection(r) \/ Commit(r) \/ CommitUnacknowledged(r)
  <2>1. Found(r)' = {}
    BY <1>1 DEF Begin, Refuse, RateUnavailable, AbortDeadlocked, Rollback, LoseConnection,
       Commit, CommitUnacknowledged
  <2> QED BY <2>1
<1>2. CASE FindSource(r) \/ FindDestination(r)
  <2>1. CASE FindSource(r)
    BY <2>1 DEF FindSource, Find
  <2>2. CASE FindDestination(r)
    BY <2>2 DEF FindDestination, Find, WalletsFound
  <2> QED BY <1>2, <2>1, <2>2
<1>3. CASE FindTreasurySource(r)
  <2>1. /\ pc[r] = "findTreasurySource" /\ WalletOf(input[r], "treasurySource") \in Wallets
        /\ \A role2 \in {"source", "destination"} : WalletOf(input[r], role2) \in Wallets
    BY <1>3 DEF FindTreasurySource, Find, WalletsFound
  <2>2. CASE IsSameCurrency(input[r])
    <3>1. WalletOf(input[r], "treasuryDestination") = WalletOf(input[r], "treasurySource")
      BY <2>2 DEF IsSameCurrency, WalletOf
    <3> QED BY <2>1, <3>1
  <2>3. CASE ~IsSameCurrency(input[r])
    <3>1. Found(r)' = {"source", "destination", "treasurySource"}
      BY <1>3, <2>3 DEF FindTreasurySource
    <3> QED BY <2>1, <3>1
  <2> QED BY <2>2, <2>3
<1>4. CASE FindTreasuryDestination(r)
  BY <1>4 DEF FindTreasuryDestination, Find, WalletsFound
<1>5. CASE CheckCompliance(r) \/ GetRate(r) \/ Inserts(r) \/ Saves(r)
  <2>1. Found(r)' = Found(r)
    BY <1>5 DEF CheckCompliance, GetRate, Inserts, PostLedger, SaveRemittance, AddOutbox, Saves,
       SaveSource, SaveDestination, SaveTreasurySource, SaveTreasuryDestination
  <2> QED BY <2>1 DEF WalletsFound
<1> QED BY <1>1, <1>2, <1>3, <1>4, <1>5, StepKinds DEF Reads, Ends

-----------------------------------------------------------------------------
(* The rows a transaction has inserted *)

\* The inserts of an open transaction are those of its phase after any step.
LEMMA InsertsStep ==
  ASSUME TypeOK, NEW r \in Requests, InsertsMatchPhase(r), Progress(r) \/ Fault(r)
  PROVE  InsertsMatchPhase(r)'
<1> USE DEF TypeOK, request, transaction, tables, Goto, Saving, InsertsMatchPhase
<1>1. CASE Begin(r) \/ CheckCompliance(r) \/ GetRate(r) \/ Refuse(r) \/ RateUnavailable(r)
  BY <1>1 DEF Begin, CheckCompliance, GetRate, Refuse, Refused, RateUnavailable
<1>2. CASE FindSource(r) \/ FindDestination(r) \/ FindTreasurySource(r)
           \/ FindTreasuryDestination(r)
  BY <1>2 DEF FindSource, FindDestination, FindTreasurySource, FindTreasuryDestination, Find
<1>3. CASE PostLedger(r) \/ SaveRemittance(r) \/ AddOutbox(r)
  BY <1>3 DEF PostLedger, SaveRemittance, AddOutbox, InsertRow, Insert
<1>4. CASE SaveSource(r) \/ SaveDestination(r) \/ SaveTreasurySource(r)
           \/ SaveTreasuryDestination(r)
  BY <1>4 DEF SaveSource, SaveDestination, SaveTreasurySource, SaveTreasuryDestination, Save
<1>5. CASE Commit(r) \/ CommitUnacknowledged(r)
  BY <1>5 DEF Commit, CommitUnacknowledged, CommitRows, EndTransaction
<1>6. CASE AbortDeadlocked(r) \/ Rollback(r) \/ LoseConnection(r)
  BY <1>6 DEF AbortDeadlocked, Rollback, LoseConnection, EndTransaction
<1> QED BY <1>1, <1>2, <1>3, <1>4, <1>5, <1>6 DEF Progress, Fault

-----------------------------------------------------------------------------
(* A read that nobody replaced is the committed balance *)

\* A read either is the committed balance or is known to be replaced.
LEMMA FreshStep ==
  ASSUME Core, NEW r \in Requests, Progress(r) \/ Fault(r),
         NEW q \in Requests, NEW role \in Role
  PROVE  FreshRead(q, role)'
<1> DEFINE w == WalletOf(input[q], role)
<1>0. UNCHANGED input /\ FreshRead(q, role) /\ TypeOK /\ w' = w
  BY InputVerifiedFixed DEF Core, WalletOf
<1>1. CASE Commit(r) \/ CommitUnacknowledged(r)
  <2>1. UNCHANGED <<seen, seenVersion>> /\ CommitRows(r)
    BY <1>1 DEF Commit, CommitUnacknowledged
  <2>2. SUFFICES ASSUME w \in Wallets
                 PROVE  /\ seenVersion[q][role] <= version'[w]
                        /\ seenVersion[q][role] = version'[w] => seen[q][role] = balance'[w]
    BY <1>0, <2>1 DEF FreshRead
  <2>3. /\ seenVersion[q][role] \in Int /\ version[w] \in Nat
        /\ seenVersion[q][role] <= version[w]
        /\ seenVersion[q][role] = version[w] => seen[q][role] = balance[w]
    BY <1>0, <2>2 DEF FreshRead, TypeOK
  <2>4. CASE lock[w] = r
    <3>1. version'[w] = version[w] + 1
      BY <2>1, <2>2, <2>4 DEF CommitRows
    <3> QED BY <2>3, <3>1
  <2>5. CASE lock[w] # r
    <3>1. version'[w] = version[w] /\ balance'[w] = balance[w]
      BY <2>1, <2>2, <2>5 DEF CommitRows
    <3> QED BY <2>3, <3>1
  <2> QED BY <2>4, <2>5
<1>2. CASE ~Commit(r) /\ ~CommitUnacknowledged(r)
  <2>1. UNCHANGED <<balance, version>>
    BY <1>2, TablesFixed DEF tables
  <2>2. CASE seen'[q] = seen[q] /\ seenVersion'[q] = seenVersion[q]
    BY <1>0, <2>1, <2>2 DEF FreshRead
  <2>3. CASE ~(seen'[q] = seen[q] /\ seenVersion'[q] = seenVersion[q])
    <3>1. q = r
      BY <1>0, <2>3, OthersUntouched
    <3>2. PICK role2 \in Role : Find(r, role2)
      <4>1. CASE FindSource(r) \/ FindDestination(r) \/ FindTreasurySource(r)
                 \/ FindTreasuryDestination(r)
        BY <4>1 DEF FindSource, FindDestination, FindTreasurySource,
           FindTreasuryDestination, Role
      <4>2. CASE Begin(r) \/ CheckCompliance(r) \/ GetRate(r) \/ Refuse(r)
                 \/ RateUnavailable(r) \/ PostLedger(r) \/ SaveRemittance(r) \/ AddOutbox(r)
        BY <2>3, <3>1, <4>2 DEF Begin, CheckCompliance, GetRate, Refuse, RateUnavailable,
           PostLedger, SaveRemittance, AddOutbox, InsertRow
      <4>3. CASE SaveSource(r) \/ SaveDestination(r) \/ SaveTreasurySource(r)
                 \/ SaveTreasuryDestination(r) \/ AbortDeadlocked(r) \/ Rollback(r)
                 \/ LoseConnection(r)
        BY <2>3, <3>1, <4>3 DEF SaveSource, SaveDestination, SaveTreasurySource,
           SaveTreasuryDestination, Save, AbortDeadlocked, Rollback, LoseConnection
      <4> QED BY <1>2, <4>1, <4>2, <4>3 DEF Progress, Fault
    <3>3. CASE role = role2
      <4>1. seen'[q][role] = balance[w] /\ seenVersion'[q][role] = version[w]
        BY <1>0, <3>1, <3>2, <3>3 DEF Find, TypeOK
      <4>2. w \in Wallets => version[w] \in Nat
        BY <1>0 DEF TypeOK
      <4> QED BY <1>0, <2>1, <4>1, <4>2 DEF FreshRead
    <3>4. CASE role # role2
      <4>1. seen'[q][role] = seen[q][role] /\ seenVersion'[q][role] = seenVersion[q][role]
        BY <1>0, <3>1, <3>2, <3>4 DEF Find, TypeOK
      <4> QED BY <1>0, <2>1, <4>1 DEF FreshRead
    <3> QED BY <3>3, <3>4
  <2> QED BY <2>2, <2>3
<1> QED BY <1>1, <1>2

-----------------------------------------------------------------------------
(* Row locks *)

\* Rows are locked and written only by Save, and let go only by the end of the
\* transaction.
LEMMA LocksFixed ==
  ASSUME NEW r \in Requests,
         \/ Begin(r) \/ CheckCompliance(r) \/ GetRate(r) \/ Refuse(r) \/ RateUnavailable(r)
         \/ FindSource(r) \/ FindDestination(r) \/ FindTreasurySource(r)
         \/ FindTreasuryDestination(r) \/ PostLedger(r) \/ SaveRemittance(r) \/ AddOutbox(r)
  PROVE  UNCHANGED <<lock, dirty>>
<1> USE DEF request, transaction, tables
<1>1. CASE Begin(r) \/ CheckCompliance(r) \/ GetRate(r) \/ Refuse(r) \/ RateUnavailable(r)
  BY <1>1 DEF Begin, CheckCompliance, GetRate, Refuse, RateUnavailable
<1>2. CASE FindSource(r) \/ FindDestination(r) \/ FindTreasurySource(r)
           \/ FindTreasuryDestination(r)
  BY <1>2 DEF FindSource, FindDestination, FindTreasurySource, FindTreasuryDestination, Find
<1>3. CASE PostLedger(r) \/ SaveRemittance(r) \/ AddOutbox(r)
  BY <1>3 DEF PostLedger, SaveRemittance, AddOutbox, InsertRow
<1> QED BY <1>1, <1>2, <1>3

\* A step that ends a transaction ends it in Postgres and leaves nothing written.
LEMMA EndsTransaction ==
  ASSUME TypeOK, NEW r \in Requests,
         Commit(r) \/ CommitUnacknowledged(r) \/ AbortDeadlocked(r) \/ Rollback(r)
         \/ LoseConnection(r)
  PROVE  /\ EndTransaction(r) /\ Written(r)' = {}
         /\ UNCHANGED <<input, seen, converted>>
<1> USE DEF TypeOK, Goto, Written
<1>1. CASE Commit(r) \/ CommitUnacknowledged(r)
  BY <1>1 DEF Commit, CommitUnacknowledged, CommitRows
<1>2. CASE AbortDeadlocked(r) \/ Rollback(r) \/ LoseConnection(r)
  BY <1>2 DEF AbortDeadlocked, Rollback, LoseConnection
<1> QED BY <1>1, <1>2

\* Each Save is of a role the transaction had not written, and adds that role.
LEMMA SavesRole ==
  ASSUME TypeOK, NEW r \in Requests, ChecksHold(r),
         SaveSource(r) \/ SaveDestination(r) \/ SaveTreasurySource(r)
         \/ SaveTreasuryDestination(r)
  PROVE  \E role \in Role :
           /\ Save(r, role) /\ Written(r)' = Written(r) \cup {role}
           /\ pc[r] \in Posted
           /\ role = "treasuryDestination" => ~IsSameCurrency(input[r])
<1>0. input' = input /\ pc \in [Requests -> Phase]
  BY DEF SaveSource, SaveDestination, SaveTreasurySource, SaveTreasuryDestination, Save, TypeOK
<1> USE DEF Goto, Written, Role, Posted, Saving
<1>1. CASE SaveSource(r)
  BY <1>0, <1>1 DEF SaveSource
<1>2. CASE SaveDestination(r)
  BY <1>0, <1>2 DEF SaveDestination
<1>3. CASE SaveTreasurySource(r)
  <2>1. Save(r, "treasurySource") /\ pc[r] = "saveTreasurySource"
    BY <1>3 DEF SaveTreasurySource
  <2>2. CASE IsSameCurrency(input[r])
    <3>1. pc'[r] = "saveRemittance"
      BY <1>0, <1>3, <2>2 DEF SaveTreasurySource
    <3>2. Written(r)' = {"source", "destination", "treasurySource"}
      BY <1>0, <2>2, <3>1 DEF SavedRoles, IsSameCurrency
    <3> QED BY <2>1, <3>2
  <2>3. CASE ~IsSameCurrency(input[r])
    <3>1. pc'[r] = "saveTreasuryDestination"
      BY <1>0, <1>3, <2>3 DEF SaveTreasurySource
    <3> QED BY <2>1, <3>1
  <2> QED BY <2>2, <2>3
<1>4. CASE SaveTreasuryDestination(r)
  <2>1. Save(r, "treasuryDestination") /\ pc[r] = "saveTreasuryDestination"
        /\ pc'[r] = "saveRemittance"
    BY <1>0, <1>4 DEF SaveTreasuryDestination
  <2>2. ~IsSameCurrency(input[r])
    BY <2>1 DEF ChecksHold
  <2>3. Written(r)' = Role
    BY <1>0, <2>1, <2>2 DEF SavedRoles, IsSameCurrency
  <2> QED BY <2>1, <2>2, <2>3
<1> QED BY <1>1, <1>2, <1>3, <1>4

\* The steps before the first insert have written nothing.
LEMMA ReadsWriteNothing ==
  ASSUME TypeOK, NEW r \in Requests, Reads(r)
  PROVE  Written(r) = {} /\ Written(r)' = {}
<1> USE DEF TypeOK, Goto, Written, Reads
<1>1. CASE Begin(r) \/ CheckCompliance(r) \/ GetRate(r) \/ Refuse(r) \/ RateUnavailable(r)
  BY <1>1 DEF Begin, CheckCompliance, GetRate, Refuse, Refused, RateUnavailable
<1>2. CASE FindSource(r) \/ FindDestination(r) \/ FindTreasurySource(r)
           \/ FindTreasuryDestination(r)
  BY <1>2 DEF FindSource, FindDestination, FindTreasurySource, FindTreasuryDestination
<1> QED BY <1>1, <1>2

\* Inserting the remittance and the event takes no lock and writes no wallet.
LEMMA InsertsKeepWritten ==
  ASSUME TypeOK, NEW r \in Requests, Inserts(r)
  PROVE  Written(r)' = Written(r) /\ UNCHANGED <<seen, converted, input>>
<1> USE DEF TypeOK, Goto, Written
<1>1. CASE PostLedger(r)
  BY <1>1 DEF PostLedger
<1>2. CASE SaveRemittance(r) \/ AddOutbox(r)
  BY <1>2 DEF SaveRemittance, AddOutbox, InsertRow, SavedRoles, IsSameCurrency
<1> QED BY <1>1, <1>2 DEF Inserts

\* What a request that is not moving has written does not change.
LEMMA WrittenFixed ==
  ASSUME TypeOK, NEW r \in Requests, Progress(r) \/ Fault(r), NEW q \in Requests, q # r
  PROVE  /\ Written(q)' = Written(q)
         /\ \A role \in Role : NewBalance(q, role)' = NewBalance(q, role)
BY OthersUntouched, InputVerifiedFixed
   DEF Written, NewBalance, SavedRoles, Delta, IsSameCurrency

\* A wallet a request has saved stays locked by it until it ends.
LEMMA WritesLockedStep ==
  ASSUME Core, NEW r \in Requests, Progress(r) \/ Fault(r), NEW q \in Requests
  PROVE  WritesLocked(q)'
<1>0. TypeOK /\ ChecksHold(r) /\ WritesLocked(q) /\ UNCHANGED input
  BY InputVerifiedFixed DEF Core
<1> SUFFICES ASSUME NEW role \in Written(q)', WalletOf(input[q], role) \in Wallets
             PROVE  lock'[WalletOf(input[q], role)] = q
  BY <1>0 DEF WritesLocked, WalletOf
<1> DEFINE w == WalletOf(input[q], role)
<1>1. CASE Reads(r)
  <2>1. lock' = lock
    BY <1>1, LocksFixed DEF Reads
  <2>2. q # r
    BY <1>0, <1>1, ReadsWriteNothing
  <2> QED BY <1>0, <2>1, <2>2, WrittenFixed DEF WritesLocked
<1>2. CASE Inserts(r)
  <2>1. lock' = lock
    BY <1>2, LocksFixed DEF Inserts
  <2>2. Written(q)' = Written(q)
    BY <1>0, <1>2, InsertsKeepWritten, WrittenFixed
  <2> QED BY <1>0, <2>1, <2>2 DEF WritesLocked
<1>3. CASE Saves(r)
  <2>1. PICK role2 \in Role : Save(r, role2) /\ Written(r)' = Written(r) \cup {role2}
    BY <1>0, <1>3, SavesRole DEF Saves
  <2> DEFINE w2 == WalletOf(input[r], role2)
  <2>2. lock[w2] \in {r, NoRequest} /\ lock' = [lock EXCEPT ![w2] = r]
    BY <2>1 DEF Save
  <2>3. CASE q = r
    <3>1. CASE role \in Written(r)
      BY <1>0, <2>2, <2>3, <3>1 DEF WritesLocked, TypeOK
    <3>2. CASE role = role2
      BY <1>0, <2>2, <2>3, <3>2 DEF TypeOK
    <3> QED BY <2>1, <2>3, <3>1, <3>2
  <2>4. CASE q # r
    <3>1. lock[w] = q
      BY <1>0, <2>4, WrittenFixed DEF WritesLocked
    <3>2. w # w2
      BY <2>2, <2>4, <3>1, RequestsAssumption
    <3> QED BY <1>0, <2>2, <3>1, <3>2 DEF TypeOK
  <2> QED BY <2>3, <2>4
<1>4. CASE Ends(r)
  <2>1. EndTransaction(r) /\ Written(r)' = {}
    BY <1>0, <1>4, EndsTransaction DEF Ends
  <2>2. q # r
    BY <2>1
  <2>3. lock[w] = q
    BY <1>0, <2>2, WrittenFixed DEF WritesLocked
  <2> QED BY <2>1, <2>2, <2>3 DEF EndTransaction
<1> QED BY <1>1, <1>2, <1>3, <1>4, StepKinds

\* A lock stays with the transaction that wrote the row, with its value.
LEMMA LockedByWriterStep ==
  ASSUME Core, NEW r \in Requests, Progress(r) \/ Fault(r), NEW w \in Wallets
  PROVE  LockedByWriter(w)'
<1>0. TypeOK /\ ChecksHold(r) /\ LockedByWriter(w) /\ UNCHANGED input
  BY InputVerifiedFixed DEF Core
<1> SUFFICES ASSUME lock'[w] \in Requests
             PROVE  \E role \in Written(lock[w])' :
                      /\ WalletOf(input[lock'[w]], role) = w
                      /\ dirty'[w] = NewBalance(lock[w], role)'
  BY <1>0 DEF LockedByWriter, WalletOf
<1>r. \A q \in Requests : Written(q) \subseteq Role
  BY DEF Written, Role, SavedRoles
<1>1. CASE lock' [w] = lock[w] /\ dirty'[w] = dirty[w] /\ lock[w] # r
  <2> DEFINE q == lock[w]
  <2>1. PICK role \in Written(q) : WalletOf(input[q], role) = w /\ dirty[w] = NewBalance(q, role)
    BY <1>0, <1>1 DEF LockedByWriter
  <2>2. Written(q)' = Written(q) /\ NewBalance(q, role)' = NewBalance(q, role)
    BY <1>0, <1>1, <1>r, WrittenFixed
  <2> QED BY <1>1, <2>1, <2>2
<1>2. CASE Reads(r)
  <2>1. lock' = lock /\ dirty' = dirty
    BY <1>2, LocksFixed DEF Reads
  <2>2. lock[w] # r
    BY <1>0, <1>2, <2>1, ReadsWriteNothing DEF LockedByWriter
  <2> QED BY <1>1, <2>1, <2>2
<1>3. CASE Inserts(r)
  <2>1. lock' = lock /\ dirty' = dirty
    BY <1>3, LocksFixed DEF Inserts
  <2>2. CASE lock[w] = r
    <3>1. PICK role \in Written(r) : WalletOf(input[r], role) = w /\ dirty[w] = NewBalance(r, role)
      BY <1>0, <2>1, <2>2 DEF LockedByWriter
    <3>2. Written(r)' = Written(r) /\ NewBalance(r, role)' = NewBalance(r, role)
      BY <1>0, <1>3, InsertsKeepWritten DEF NewBalance, Delta, IsSameCurrency
    <3> QED BY <2>1, <2>2, <3>1, <3>2
  <2> QED BY <1>1, <2>1, <2>2
<1>4. CASE Saves(r)
  <2>1. PICK role2 \in Role : Save(r, role2) /\ Written(r)' = Written(r) \cup {role2}
    BY <1>0, <1>4, SavesRole DEF Saves
  <2> DEFINE w2 == WalletOf(input[r], role2)
  <2>2. /\ lock' = [lock EXCEPT ![w2] = r]
        /\ dirty' = [dirty EXCEPT ![w2] = NewBalance(r, role2)]
        /\ UNCHANGED <<input, seen, converted>>
    BY <2>1 DEF Save
  <2>3. \A role \in Role : NewBalance(r, role)' = NewBalance(r, role)
    BY <2>2 DEF NewBalance, Delta, IsSameCurrency
  <2>4. CASE w = w2
    <3>1. lock'[w] = r /\ dirty'[w] = NewBalance(r, role2)
      BY <1>0, <2>2, <2>4 DEF TypeOK
    <3> QED BY <1>0, <2>1, <2>3, <2>4, <3>1
  <2>5. CASE w # w2
    <3>1. lock'[w] = lock[w] /\ dirty'[w] = dirty[w]
      BY <1>0, <2>2, <2>5 DEF TypeOK
    <3>2. CASE lock[w] = r
      <4>1. PICK role \in Written(r) : WalletOf(input[r], role) = w /\ dirty[w] = NewBalance(r, role)
        BY <1>0, <3>1, <3>2 DEF LockedByWriter
      <4> QED BY <1>0, <1>r, <2>1, <2>3, <3>1, <3>2, <4>1
    <3> QED BY <1>1, <3>1, <3>2
  <2> QED BY <2>4, <2>5
<1>5. CASE Ends(r)
  <2>1. EndTransaction(r)
    BY <1>0, <1>5, EndsTransaction DEF Ends
  <2>2. lock[w] # r /\ lock'[w] = lock[w] /\ dirty'[w] = dirty[w]
    BY <2>1, RequestsAssumption DEF EndTransaction
  <2> QED BY <1>1, <2>2
<1> QED BY <1>2, <1>3, <1>4, <1>5, StepKinds

-----------------------------------------------------------------------------
(* Nothing goes negative *)

\* What a wallet is written at is never negative: a debit was covered by the
\* balance the request read, a credit adds.
LEMMA NewBalanceNat ==
  ASSUME TypeOK, NEW r \in Requests, CanPost(r), NEW role \in Role, seen[r][role] >= 0,
         role = "treasuryDestination" => ~IsSameCurrency(input[r])
  PROVE  NewBalance(r, role) >= 0
<1> DEFINE in == input[r]
<1>1. /\ in.amount \in Nat /\ Fee(in.amount) \in Nat /\ converted[r] \in Nat
      /\ seen[r][role] \in Int
  BY InputFields DEF TypeOK
<1>2. /\ seen[r]["source"] >= in.amount + Fee(in.amount)
      /\ IsSameCurrency(in) \/ seen[r]["treasuryDestination"] >= converted[r]
  BY DEF CanPost, Covers
<1>3. CASE role = "source"
  BY <1>1, <1>2, <1>3 DEF NewBalance, Delta
<1>4. CASE role = "destination"
  BY <1>1, <1>4 DEF NewBalance, Delta
<1>5. CASE role = "treasurySource"
  BY <1>1, <1>5 DEF NewBalance, Delta
<1>6. CASE role = "treasuryDestination"
  BY <1>1, <1>2, <1>6 DEF NewBalance, Delta
<1> QED BY <1>3, <1>4, <1>5, <1>6 DEF Role

\* No step reads, writes or commits a negative balance.
LEMMA NothingNegativeStep ==
  ASSUME Core, NEW r \in Requests, Progress(r) \/ Fault(r)
  PROVE  NothingNegative'
<1>0. TypeOK /\ ChecksHold(r) /\ NothingNegative
  BY DEF Core
<1>1. \A w \in Wallets : dirty'[w] >= 0
  <2>1. CASE Reads(r) \/ Inserts(r)
    <3>1. dirty' = dirty
      BY <2>1, LocksFixed DEF Reads, Inserts
    <3> QED BY <1>0, <3>1 DEF NothingNegative
  <2>2. CASE Saves(r)
    <3>1. PICK role \in Role : /\ Save(r, role) /\ pc[r] \in Posted
                               /\ role = "treasuryDestination" => ~IsSameCurrency(input[r])
      BY <1>0, <2>2, SavesRole DEF Saves
    <3>2. NewBalance(r, role) >= 0
      BY <1>0, <3>1, NewBalanceNat DEF ChecksHold, NothingNegative
    <3> QED BY <1>0, <3>1, <3>2 DEF Save, NothingNegative, TypeOK
  <2>3. CASE Ends(r)
    <3>1. EndTransaction(r)
      BY <1>0, <2>3, EndsTransaction DEF Ends
    <3> QED BY <1>0, <3>1 DEF EndTransaction, NothingNegative
  <2> QED BY <2>1, <2>2, <2>3, StepKinds
<1>2. \A w \in Wallets : balance'[w] >= 0
  <2>1. CASE Commit(r) \/ CommitUnacknowledged(r)
    BY <1>0, <2>1 DEF Commit, CommitUnacknowledged, CommitRows, NothingNegative
  <2>2. CASE ~Commit(r) /\ ~CommitUnacknowledged(r)
    BY <1>0, <2>2, TablesFixed DEF tables, NothingNegative
  <2> QED BY <2>1, <2>2
<1>3. \A q \in Requests, role \in Role : seen'[q][role] >= 0
  <2>1. CASE Find(r, "source") \/ Find(r, "destination") \/ Find(r, "treasurySource")
             \/ Find(r, "treasuryDestination")
    <3>1. PICK role2 \in Role : Find(r, role2)
      BY <2>1 DEF Role
    <3> DEFINE w == WalletOf(input[r], role2)
    <3>2. w \in Wallets /\ seen' = [seen EXCEPT ![r][role2] = balance[w]]
      BY <3>1 DEF Find
    <3>3. balance[w] >= 0
      BY <1>0, <3>2 DEF NothingNegative
    <3> HIDE DEF w
    <3> QED BY <1>0, <3>2, <3>3 DEF NothingNegative, TypeOK
  <2>2. CASE seen' = seen
    BY <1>0, <2>2 DEF NothingNegative
  <2>3. CASE Reads(r)
    BY <2>1, <2>2, <2>3 DEF Reads, FindSource, FindDestination, FindTreasurySource,
       FindTreasuryDestination, Begin, CheckCompliance, GetRate, Refuse, RateUnavailable
  <2>4. CASE Inserts(r)
    BY <1>0, <2>2, <2>4, InsertsKeepWritten
  <2>5. CASE Saves(r)
    BY <2>2, <2>5 DEF Saves, SaveSource, SaveDestination, SaveTreasurySource,
       SaveTreasuryDestination, Save
  <2>6. CASE Ends(r)
    BY <1>0, <2>2, <2>6, EndsTransaction DEF Ends
  <2> QED BY <2>3, <2>4, <2>5, <2>6, StepKinds
<1> QED BY <1>1, <1>2, <1>3 DEF NothingNegative

-----------------------------------------------------------------------------
(* The core of the invariant is inductive *)

\* The core invariant holds at the start.
LEMMA CoreInit == Init => Core
<1> SUFFICES ASSUME Init PROVE Core
  OBVIOUS
<1>1. TypeOK
  BY TypeInit
<1>2. ASSUME NEW r \in Requests
      PROVE  ChecksHold(r) /\ WalletsFound(r) /\ WritesLocked(r) /\ InsertsMatchPhase(r)
  BY DEF Init, ChecksHold, WalletsFound, Found, WritesLocked, Written, InsertsMatchPhase,
     Posted, Quoted, Cleared, Saving
<1>3. ASSUME NEW r \in Requests, NEW role \in Role PROVE FreshRead(r, role)
  BY DEF Init, FreshRead, NeverRead
<1>4. ASSUME NEW w \in Wallets PROVE LockedByWriter(w)
  BY RequestsAssumption DEF Init, LockedByWriter
<1>5. NothingNegative
  BY WalletsAssumption DEF Init, NothingNegative
<1> QED BY <1>1, <1>2, <1>3, <1>4, <1>5 DEF Core

\* The core invariant is inductive.
LEMMA CoreStep == Core /\ [Next]_vars => Core'
<1> SUFFICES ASSUME Core, [Next]_vars PROVE Core'
  OBVIOUS
<1>0. TypeOK'
  BY TypeStep DEF Core
<1>1. ASSUME NEW r \in Requests, Progress(r) \/ Fault(r) PROVE Core'
  <2>1. TypeOK /\ UNCHANGED <<input, verified>>
    BY <1>1, InputVerifiedFixed DEF Core
  <2>2. ASSUME NEW q \in Requests
        PROVE  ChecksHold(q)' /\ WalletsFound(q)' /\ InsertsMatchPhase(q)'
    <3>1. ChecksHold(q) /\ WalletsFound(q) /\ InsertsMatchPhase(q)
      BY DEF Core
    <3>2. CASE q = r
      BY <1>1, <2>1, <3>1, <3>2, ChecksStep, FoundStep, InsertsStep
    <3>3. CASE q # r
      <4>1. /\ pc'[q] = pc[q] /\ seen'[q] = seen[q] /\ converted'[q] = converted[q]
            /\ pending'[q] = pending[q]
        BY <1>1, <2>1, <3>3, OthersUntouched
      <4> QED BY <2>1, <3>1, <4>1, ChecksStable DEF InsertsMatchPhase, WalletsFound, Found
    <3> QED BY <3>2, <3>3
  <2> QED BY <1>0, <1>1, <2>2, WritesLockedStep, FreshStep, LockedByWriterStep,
             NothingNegativeStep DEF Core
<1>2. ASSUME UNCHANGED <<request, transaction, tables>>, verified \subseteq verified' PROVE Core'
  <2> USE <1>2 DEF request, transaction, tables, Core
  <2>1. ASSUME NEW q \in Requests PROVE ChecksHold(q)'
    BY ChecksStable
  <2>w. /\ \A q \in Requests : Written(q)' = Written(q)
        /\ \A q \in Requests, role \in Role : NewBalance(q, role)' = NewBalance(q, role)
    BY DEF Written, NewBalance, SavedRoles, IsSameCurrency, Delta
  <2>r. \A q \in Requests : Written(q) \subseteq Role
    BY DEF Written, Role, SavedRoles
  <2>2. ASSUME NEW q \in Requests
        PROVE  WalletsFound(q)' /\ WritesLocked(q)' /\ InsertsMatchPhase(q)'
    <3>1. WalletsFound(q) /\ WritesLocked(q) /\ InsertsMatchPhase(q)
      OBVIOUS
    <3>2. WritesLocked(q)'
      BY <2>w, <3>1 DEF WritesLocked, WalletOf
    <3>3. InsertsMatchPhase(q)'
      BY <3>1 DEF InsertsMatchPhase
    <3>4. WalletsFound(q)'
      BY <3>1 DEF WalletsFound, Found
    <3> QED BY <3>2, <3>3, <3>4
  <2>3. ASSUME NEW q \in Requests, NEW role \in Role PROVE FreshRead(q, role)'
    <3>1. FreshRead(q, role)
      OBVIOUS
    <3> QED BY <3>1 DEF FreshRead, WalletOf
  <2>4. ASSUME NEW w \in Wallets PROVE LockedByWriter(w)'
    <3>1. LockedByWriter(w) /\ lock' = lock /\ dirty' = dirty /\ input' = input
      OBVIOUS
    <3>2. SUFFICES ASSUME lock[w] \in Requests
                   PROVE  \E role \in Written(lock[w])' :
                            /\ WalletOf(input[lock[w]], role) = w
                            /\ dirty[w] = NewBalance(lock[w], role)'
      BY <3>1 DEF LockedByWriter, WalletOf
    <3>3. PICK role \in Written(lock[w]) : WalletOf(input[lock[w]], role) = w
                                          /\ dirty[w] = NewBalance(lock[w], role)
      BY <3>1, <3>2 DEF LockedByWriter
    <3> QED BY <2>w, <2>r, <3>2, <3>3
  <2>5. NothingNegative'
    BY DEF NothingNegative
  <2> QED BY <1>0, <2>1, <2>2, <2>3, <2>4, <2>5
<1> QED BY <1>1, <1>2 DEF Next, Idle, SubmitKyc, vars

\* The core invariant holds in every behaviour.
LEMMA CoreInvariant == Spec => []Core
BY CoreInit, CoreStep, PTL DEF Spec

\* No interleaving of remittances, deadlocks, rollbacks and lost connections
\* ever commits a negative balance.
THEOREM BalancesNeverNegative == Spec => []NonNegativeBalances
<1>1. Core => NonNegativeBalances
  BY DEF Core, NothingNegative, NonNegativeBalances
<1> QED BY <1>1, CoreInvariant, PTL

-----------------------------------------------------------------------------
(* Legs and wallet writes agree *)

\* The legs of a wallet that plays no saved role net to zero.
LEMMA NetOfOtherWallet ==
  ASSUME NEW in \in Inputs, NEW conv \in Nat, NEW w,
         \A role \in SavedRoles(in) : WalletOf(in, role) # w
  PROVE  NetOfWallet(Legs(in, conv), w) = 0
<1>1. /\ WalletOf(in, "source") # w /\ WalletOf(in, "destination") # w
      /\ WalletOf(in, "treasurySource") # w
      /\ IsSameCurrency(in) \/ WalletOf(in, "treasuryDestination") # w
  BY DEF SavedRoles, Role
<1> QED BY <1>1, InputFields DEF NetOfWallet, Legs, Sum6, Credit, Debit, NoLeg

\* The legs of a wallet that plays one saved role net to what that role's
\* debit or credit adds to its balance.
LEMMA NetOfRoleWallet ==
  ASSUME NEW in \in Inputs, NEW conv \in Nat, NEW role \in SavedRoles(in),
         \A role2 \in SavedRoles(in) : WalletOf(in, role2) = WalletOf(in, role) => role2 = role
  PROVE  NetOfWallet(Legs(in, conv), WalletOf(in, role)) = Delta(in, conv, role)
<1> DEFINE w == WalletOf(in, role)
           net == NetOfWallet(Legs(in, conv), w)
<1>0. /\ in.amount \in Nat /\ Fee(in.amount) \in Nat
      /\ -(in.amount) \in Int /\ -(Fee(in.amount)) \in Int /\ -conv \in Int
  BY InputFields
<1>1. net = (IF WalletOf(in, "source") = w THEN -(in.amount) ELSE 0)
          + (IF WalletOf(in, "source") = w THEN -(Fee(in.amount)) ELSE 0)
          + (IF WalletOf(in, "treasurySource") = w THEN Fee(in.amount) ELSE 0)
          + (IF WalletOf(in, "destination") = w THEN conv ELSE 0)
          + (IF ~IsSameCurrency(in) /\ WalletOf(in, "treasurySource") = w THEN in.amount ELSE 0)
          + (IF ~IsSameCurrency(in) /\ WalletOf(in, "treasuryDestination") = w THEN -conv ELSE 0)
  <2>1. CASE IsSameCurrency(in)
    BY <1>0, <2>1 DEF NetOfWallet, Legs, Sum6, Credit, Debit, NoLeg
  <2>2. CASE ~IsSameCurrency(in)
    BY <1>0, <2>2 DEF NetOfWallet, Legs, Sum6, Credit, Debit, NoLeg
  <2> QED BY <2>1, <2>2
<1>2. \A role2 \in SavedRoles(in) : WalletOf(in, role2) = w => role2 = role
  OBVIOUS
<1> HIDE DEF w, net
<1>3. WalletOf(in, role) = w
  BY DEF w
<1>4. SavedRoles(in) = IF IsSameCurrency(in)
                       THEN {"source", "destination", "treasurySource"}
                       ELSE {"source", "destination", "treasurySource", "treasuryDestination"}
  BY DEF SavedRoles, Role
<1>5. CASE role = "source"
  BY <1>0, <1>1, <1>2, <1>3, <1>4, <1>5 DEF Delta, w, net
<1>6. CASE role = "destination"
  BY <1>0, <1>1, <1>2, <1>3, <1>4, <1>6 DEF Delta, w, net
<1>7. CASE role = "treasurySource"
  BY <1>0, <1>1, <1>2, <1>3, <1>4, <1>7 DEF Delta, w, net
<1>8. CASE role = "treasuryDestination"
  BY <1>0, <1>1, <1>2, <1>3, <1>4, <1>8 DEF Delta, w, net
<1> QED BY <1>4, <1>5, <1>6, <1>7, <1>8

-----------------------------------------------------------------------------
(* The whole invariant *)

\* A commit that overwrites nothing moves a wallet by its own entries.
LEMMA DriftStep ==
  ASSUME Core, DriftOnlyFromOverwrites, NEW r \in Requests, Progress(r) \/ Fault(r)
  PROVE  DriftOnlyFromOverwrites'
<1>0. TypeOK /\ input[r] \in Inputs /\ converted[r] \in Nat
  BY DEF Core, TypeOK
<1>1. CASE ~Commit(r) /\ ~CommitUnacknowledged(r)
  BY <1>1, TablesFixed DEF tables, DriftOnlyFromOverwrites
<1>2. CASE Commit(r) \/ CommitUnacknowledged(r)
  <2>1. CommitRows(r) /\ pc[r] = "commit"
    BY <1>2 DEF Commit, CommitUnacknowledged, Goto
  <2>2. Written(r) = SavedRoles(input[r]) /\ "ledger" \in pending[r]
    BY <2>1 DEF Core, Written, InsertsMatchPhase, Insert, Saving
  <2>3. SavedRoles(input[r]) \subseteq Role
    BY DEF SavedRoles, Role
  <2> SUFFICES ASSUME NEW w \in Wallets, w \notin overwritten'
               PROVE  balance'[w] = InitialBalance[w] + ledger'[w]
    BY DEF DriftOnlyFromOverwrites
  <2> DEFINE net == NetOfWallet(Legs(input[r], converted[r]), w)
  <2>4. balance[w] = InitialBalance[w] + ledger[w]
    BY <2>1 DEF CommitRows, DriftOnlyFromOverwrites
  <2>5. ledger'[w] = ledger[w] + net
    BY <2>1, <2>2 DEF CommitRows
  <2>6. net \in Int /\ ledger[w] \in Int /\ balance[w] \in Int /\ InitialBalance[w] \in Int
    BY <1>0, NetOfWalletInt, WalletsAssumption DEF TypeOK
  <2>7. CASE lock[w] = r
    <3>1. PICK role \in Written(r) : WalletOf(input[r], role) = w
                                     /\ dirty[w] = NewBalance(r, role)
      BY <2>7 DEF Core, LockedByWriter
    <3>2. ~Overwrites(r, w)
      BY <2>1, <2>7 DEF CommitRows, Locked
    <3>3. /\ seenVersion[r][role] = version[w]
          /\ \A role2 \in SavedRoles(input[r]) : WalletOf(input[r], role2) = w => role2 = role
      BY <2>2, <3>1, <3>2 DEF Overwrites
    <3>4. seen[r][role] = balance[w]
      <4>1. FreshRead(r, role)
        BY <2>2, <2>3, <3>1 DEF Core
      <4> QED BY <3>1, <3>3, <4>1 DEF FreshRead
    <3>5. net = Delta(input[r], converted[r], role)
      BY <1>0, <2>2, <3>1, <3>3, NetOfRoleWallet
    <3>6. balance'[w] = balance[w] + net
      BY <2>1, <2>7, <3>1, <3>4, <3>5 DEF CommitRows, NewBalance
    <3> HIDE DEF net
    <3> QED BY <2>4, <2>5, <2>6, <3>6
  <2>8. CASE lock[w] # r
    <3>1. \A role \in SavedRoles(input[r]) : WalletOf(input[r], role) # w
      BY <2>2, <2>8 DEF Core, WritesLocked
    <3>2. net = 0
      BY <1>0, <3>1, NetOfOtherWallet
    <3>3. balance'[w] = balance[w]
      BY <2>1, <2>8 DEF CommitRows
    <3> HIDE DEF net
    <3> QED BY <2>4, <2>5, <2>6, <3>2, <3>3
  <2> QED BY <2>7, <2>8
<1> QED BY <1>1, <1>2

\* Only a commit makes a remittance and its event visible, together.
LEMMA RepliesStep ==
  ASSUME Core, RepliesAreTrue, NEW r \in Requests, Progress(r) \/ Fault(r)
  PROVE  RepliesAreTrue'
<1>0. TypeOK /\ InsertsMatchPhase(r)
  BY DEF Core
<1>1. \A q \in Requests : q # r => pc'[q] = pc[q]
  BY <1>0, OthersUntouched
<1>2. CASE Commit(r) \/ CommitUnacknowledged(r)
  <2>1. pc[r] = "commit" /\ CommitRows(r) /\ pc'[r] \in Ended
    BY <1>0, <1>2 DEF Commit, CommitUnacknowledged, Goto, TypeOK, Ended
  <2>2. pending[r] = Insert
    BY <1>0, <2>1 DEF InsertsMatchPhase, Saving
  <2>3. remittances' = remittances \cup {r} /\ outbox' = outbox \cup {r}
    BY <2>1, <2>2 DEF CommitRows, Insert
  <2> QED BY <1>1, <2>1, <2>3 DEF RepliesAreTrue
<1>3. CASE ~Commit(r) /\ ~CommitUnacknowledged(r)
  <2>1. UNCHANGED <<remittances, outbox>>
    BY <1>3, TablesFixed DEF tables
  <2>2. pc'[r] # "completed" /\ pc[r] \notin Ended
    <3> USE <1>0 DEF TypeOK, Goto, Ended
    <3>1. CASE Reads(r)
      BY <3>1 DEF Reads, Begin, CheckCompliance, GetRate, Refuse, Refused, RateUnavailable,
         FindSource, FindDestination, FindTreasurySource, FindTreasuryDestination
    <3>2. CASE Inserts(r) \/ Saves(r)
      BY <3>2 DEF Inserts, Saves, PostLedger, SaveRemittance, AddOutbox, SaveSource,
         SaveDestination, SaveTreasurySource, SaveTreasuryDestination
    <3>3. CASE AbortDeadlocked(r)
      <4>1. PICK s \in Requests : WaitsFor(r, s)
        BY <3>3 DEF AbortDeadlocked, Deadlocked
      <4> QED BY <3>3, <4>1 DEF AbortDeadlocked, WaitsFor, Saving
    <3>4. CASE Rollback(r) \/ LoseConnection(r)
      BY <3>4 DEF Rollback, LoseConnection
    <3> QED BY <1>3, <3>1, <3>2, <3>3, <3>4, StepKinds DEF Ends
  <2> QED BY <1>1, <2>1, <2>2 DEF RepliesAreTrue
<1> QED BY <1>2, <1>3

\* A remittance over the limit is committed only for a verified sender.
LEMMA LimitStep ==
  ASSUME Core, LimitNeedsVerification, NEW r \in Requests, Progress(r) \/ Fault(r)
  PROVE  LimitNeedsVerification'
<1>0. UNCHANGED <<input, verified>>
  BY InputVerifiedFixed
<1>1. CASE Commit(r) \/ CommitUnacknowledged(r)
  <2>1. pc[r] = "commit" /\ remittances' \subseteq remittances \cup {r}
    BY <1>1 DEF Commit, CommitUnacknowledged, Goto, CommitRows
  <2>2. Approved(input[r])
    BY <2>1 DEF Core, ChecksHold, Cleared, Quoted, Posted
  <2>3. input[r].amount \in Nat
    BY InputFields DEF Core, TypeOK
  <2> QED BY <1>0, <2>1, <2>2, <2>3
          DEF LimitNeedsVerification, Approved, UNVERIFIED_LIMIT_MINOR_UNITS
<1>2. CASE ~Commit(r) /\ ~CommitUnacknowledged(r)
  BY <1>0, <1>2, TablesFixed DEF tables, LimitNeedsVerification
<1> QED BY <1>1, <1>2

-----------------------------------------------------------------------------
(* What the ledger adds up to *)

\* Over the wallets of a currency a leg counts once, if it is in the currency.
LEMMA SumOfLeg ==
  ASSUME NEW c, NEW leg, leg.wallet \in Wallets, leg.net \in Int,
         NEW share, \A w \in WalletsIn(c) : share[w] = IF leg.wallet = w THEN leg.net ELSE 0
  PROVE  SumFunctionOnSet(share, WalletsIn(c)) = IF leg.wallet[2] = c THEN leg.net ELSE 0
<1>1. IsFiniteSet(WalletsIn(c))
  BY WalletsAssumption, FS_Subset DEF WalletsIn
<1>2. CASE leg.wallet[2] = c
  <2>1. leg.wallet \in WalletsIn(c)
    BY <1>2 DEF WalletsIn
  <2>2. share[leg.wallet] = leg.net /\ \A w \in WalletsIn(c) \ {leg.wallet} : share[w] = 0
    BY <2>1
  <2> QED BY <1>1, <1>2, <2>1, <2>2, SumOfLone
<1>3. CASE leg.wallet[2] # c
  <2>1. \A w \in WalletsIn(c) : share[w] = 0
    BY <1>3 DEF WalletsIn
  <2> QED BY <1>1, <1>3, <2>1, SumOfZeros
<1> QED BY <1>2, <1>3

\* The six legs of a posting between open wallets move whole amounts.
LEMMA LegsAreTyped ==
  ASSUME NEW in \in Inputs, NEW conv \in Nat,
         \A role \in Role : WalletOf(in, role) \in Wallets
  PROVE  LET legs == Legs(in, conv)
         IN \A leg \in {legs.principalDebit, legs.feeDebit, legs.feeRevenue,
                        legs.principalCredit, legs.sourceLeg, legs.destinationLeg} :
              leg.wallet \in Wallets /\ leg.net \in Int
<1>1. /\ in.amount \in Int /\ Fee(in.amount) \in Int /\ conv \in Int
      /\ -(in.amount) \in Int /\ -(Fee(in.amount)) \in Int /\ -conv \in Int
  BY InputFields
<1> QED BY <1>1 DEF Legs, Credit, Debit, NoLeg, Role

\* What a posting adds to the wallets of a currency is what its legs say.
LEMMA PostingSum ==
  ASSUME NEW in \in Inputs, NEW conv \in Nat, NEW c,
         \A role \in Role : WalletOf(in, role) \in Wallets,
         NEW net, \A w \in WalletsIn(c) : net[w] = NetOfWallet(Legs(in, conv), w)
  PROVE  SumFunctionOnSet(net, WalletsIn(c)) = NetOfCurrency(Legs(in, conv), c)
<1>1. PICK legs : legs = Legs(in, conv)
  OBVIOUS
<1> DEFINE Open(leg) == leg.wallet \in Wallets /\ leg.net \in Int
           Share(leg) == [w \in WalletsIn(c) |-> IF leg.wallet = w THEN leg.net ELSE 0]
           Total(f) == SumFunctionOnSet(f, WalletsIn(c))
           Plus(f, g) == [w \in WalletsIn(c) |-> f[w] + g[w]]
           Amount(leg) == IF leg.wallet[2] = c THEN leg.net ELSE 0
<1>2. /\ Open(legs.principalDebit) /\ Open(legs.feeDebit) /\ Open(legs.feeRevenue)
      /\ Open(legs.principalCredit) /\ Open(legs.sourceLeg) /\ Open(legs.destinationLeg)
  BY <1>1, LegsAreTyped
<1>3. IsFiniteSet(WalletsIn(c))
  BY WalletsAssumption, FS_Subset DEF WalletsIn
<1>4. ASSUME NEW leg, Open(leg) PROVE Total(Share(leg)) = Amount(leg)
  <2>1. PICK share : share = Share(leg)
    OBVIOUS
  <2>2. \A w \in WalletsIn(c) : share[w] = IF leg.wallet = w THEN leg.net ELSE 0
    BY <2>1
  <2>3. SumFunctionOnSet(share, WalletsIn(c)) = Amount(leg)
    BY <1>4, <2>2, SumOfLeg
  <2> QED BY <2>1, <2>3
<1>5. ASSUME NEW leg, Open(leg) PROVE Share(leg) \in [WalletsIn(c) -> Int]
  BY <1>5
<1>6. ASSUME NEW f \in [WalletsIn(c) -> Int], NEW g \in [WalletsIn(c) -> Int]
      PROVE  Plus(f, g) \in [WalletsIn(c) -> Int] /\ Total(Plus(f, g)) = Total(f) + Total(g)
  <2>1. PICK h : h = Plus(f, g)
    OBVIOUS
  <2>2. \A w \in WalletsIn(c) : f[w] \in Int /\ g[w] \in Int /\ h[w] = f[w] + g[w]
    BY <2>1
  <2>3. SumFunctionOnSet(h, WalletsIn(c)) = Total(f) + Total(g)
    BY <1>3, <2>2, SumOfSums
  <2> QED BY <2>1, <2>2, <2>3
<1> DEFINE two == Plus(Share(legs.principalDebit), Share(legs.feeDebit))
           three == Plus(two, Share(legs.feeRevenue))
           four == Plus(three, Share(legs.principalCredit))
           five == Plus(four, Share(legs.sourceLeg))
           six == Plus(five, Share(legs.destinationLeg))
<1>7. \A w \in WalletsIn(c) : net[w] = six[w]
  BY <1>1 DEF NetOfWallet, Sum6
<1> HIDE DEF Share, Plus, Total, Open, Amount
<1>8. two \in [WalletsIn(c) -> Int]
      /\ Total(two) = Amount(legs.principalDebit) + Amount(legs.feeDebit)
  BY <1>2, <1>4, <1>5, <1>6
<1> HIDE DEF two
<1>9. three \in [WalletsIn(c) -> Int] /\ Total(three) = Total(two) + Amount(legs.feeRevenue)
  BY <1>2, <1>4, <1>5, <1>6, <1>8
<1> HIDE DEF three
<1>10. four \in [WalletsIn(c) -> Int]
       /\ Total(four) = Total(three) + Amount(legs.principalCredit)
  BY <1>2, <1>4, <1>5, <1>6, <1>9
<1> HIDE DEF four
<1>11. five \in [WalletsIn(c) -> Int] /\ Total(five) = Total(four) + Amount(legs.sourceLeg)
  BY <1>2, <1>4, <1>5, <1>6, <1>10
<1> HIDE DEF five
<1>12. Total(six) = Total(five) + Amount(legs.destinationLeg)
  BY <1>2, <1>4, <1>5, <1>6, <1>11
<1> HIDE DEF six
<1>13. SumFunctionOnSet(net, WalletsIn(c)) = Total(six)
  BY <1>3, <1>7, SumOfEqual DEF Total
<1>14. NetOfCurrency(legs, c)
         = Amount(legs.principalDebit) + Amount(legs.feeDebit) + Amount(legs.feeRevenue)
           + Amount(legs.principalCredit) + Amount(legs.sourceLeg) + Amount(legs.destinationLeg)
  BY DEF NetOfCurrency, Sum6, Amount
<1> QED BY <1>1, <1>8, <1>9, <1>10, <1>11, <1>12, <1>13, <1>14

\* What a commit adds to the ledger: its own posting, whole, for the first time.
LEMMA CommitPosts ==
  ASSUME Core, RepliesAreTrue, NEW r \in Requests, Commit(r) \/ CommitUnacknowledged(r)
  PROVE  /\ r \notin remittances /\ remittances' = remittances \cup {r}
         /\ ledger' = [w \in Wallets |->
                         ledger[w] + NetOfWallet(Legs(input[r], converted[r]), w)]
         /\ UNCHANGED <<input, converted>>
         /\ BalancedPerCurrency(Legs(input[r], converted[r]))
         /\ \A role \in Role : WalletOf(input[r], role) \in Wallets
<1>1. pc[r] = "commit" /\ CommitRows(r) /\ UNCHANGED <<input, converted>>
  BY DEF Commit, CommitUnacknowledged, Goto
<1>2. pending[r] = Insert /\ CanPost(r)
  BY <1>1 DEF Core, InsertsMatchPhase, ChecksHold, Posted, Saving
<1>3. Found(r) = Role /\ WalletsFound(r)
  BY <1>1 DEF Core, Found, Quoted, Posted
<1> QED BY <1>1, <1>2, <1>3 DEF CommitRows, Insert, CanPost, WalletsFound, RepliesAreTrue, Ended

\* The ledger stays the sum of the committed postings.
LEMMA LedgerStep ==
  ASSUME Core, RepliesAreTrue, IsFiniteSet(remittances), LedgerHoldsRemittances,
         NEW r \in Requests, Progress(r) \/ Fault(r)
  PROVE  IsFiniteSet(remittances') /\ LedgerHoldsRemittances'
<1> DEFINE Postings(w) == [q \in Requests |-> NetOfWallet(Legs(input[q], converted[q]), w)]
<1>0. TypeOK /\ input' = input
  BY InputVerifiedFixed DEF Core
<1>1. \A q \in remittances : q \in Requests /\ pc[q] \in Ended
  BY <1>0 DEF RepliesAreTrue, TypeOK
<1>2. ASSUME NEW w, NEW q \in Requests PROVE Postings(w)[q] \in Int
  BY <1>0, NetOfWalletInt DEF TypeOK
<1>3. CASE Commit(r) \/ CommitUnacknowledged(r)
  <2>1. /\ r \notin remittances /\ remittances' = remittances \cup {r} /\ converted' = converted
        /\ \A w \in Wallets : ledger'[w] = ledger[w] + Postings(w)[r]
    BY <1>3, CommitPosts
  <2>2. IsFiniteSet(remittances')
    BY <2>1, FS_AddElement
  <2>3. ASSUME NEW w \in Wallets
        PROVE  ledger'[w] = SumFunctionOnSet(Postings(w), remittances')
    <3>1. PICK posted : posted = Postings(w)
      OBVIOUS
    <3>2. ledger[w] = SumFunctionOnSet(posted, remittances)
      BY <3>1 DEF LedgerHoldsRemittances
    <3>3. \A q \in remittances \cup {r} : posted[q] \in Int
      BY <1>1, <1>2, <3>1
    <3>4. SumFunctionOnSet(posted, remittances \cup {r})
            = posted[r] + SumFunctionOnSet(posted, remittances)
      BY <2>1, <3>3, SumOfOneMore
    <3>5. ledger[w] \in Int /\ ledger'[w] = ledger[w] + posted[r] /\ posted[r] \in Int
      BY <1>0, <2>1, <3>1, <3>3 DEF TypeOK
    <3> QED BY <2>1, <3>1, <3>2, <3>4, <3>5
  <2> QED BY <1>0, <2>1, <2>2, <2>3 DEF LedgerHoldsRemittances
<1>4. CASE ~Commit(r) /\ ~CommitUnacknowledged(r)
  <2>1. UNCHANGED <<ledger, remittances>>
    BY <1>4, TablesFixed DEF tables
  <2>2. \A q \in remittances : converted'[q] = converted[q]
    <3>1. CASE r \in remittances
      <4>1. pc[r] \in Ended
        BY <1>1, <3>1
      <4>2. ~GetRate(r)
        BY <4>1 DEF GetRate, Goto, Ended
      <4>3. converted' = converted
        <5>1. CASE Reads(r)
          BY <4>2, <5>1 DEF Reads, Begin, CheckCompliance, Refuse, RateUnavailable, FindSource,
             FindDestination, FindTreasurySource, FindTreasuryDestination, Find
        <5>2. CASE Inserts(r)
          BY <1>0, <5>2, InsertsKeepWritten
        <5>3. CASE Saves(r)
          BY <5>3 DEF Saves, SaveSource, SaveDestination, SaveTreasurySource,
             SaveTreasuryDestination, Save
        <5>4. CASE Ends(r)
          BY <1>0, <5>4, EndsTransaction DEF Ends
        <5> QED BY <5>1, <5>2, <5>3, <5>4, StepKinds
      <4> QED BY <4>3
    <3>2. CASE r \notin remittances
      BY <1>0, <1>1, <3>2, OthersUntouched
    <3> QED BY <3>1, <3>2
  <2>3. ASSUME NEW w \in Wallets
        PROVE  ledger'[w] = SumFunctionOnSet(Postings(w)', remittances')
    <3>1. PICK before, after : before = Postings(w) /\ after = Postings(w)'
      OBVIOUS
    <3>2. \A q \in remittances : before[q] = after[q]
      BY <1>0, <1>1, <2>2, <3>1
    <3>3. SumFunctionOnSet(before, remittances) = SumFunctionOnSet(after, remittances)
      BY <3>2, SumOfEqual
    <3> QED BY <2>1, <3>1, <3>3 DEF LedgerHoldsRemittances
  <2> QED BY <2>1, <2>3 DEF LedgerHoldsRemittances
<1> QED BY <1>3, <1>4

\* A commit adds to the ledger as much as it takes from it, in each currency.
LEMMA BalanceStep ==
  ASSUME Core, RepliesAreTrue, LedgerIsBalanced, NEW r \in Requests, Progress(r) \/ Fault(r)
  PROVE  LedgerIsBalanced'
<1>1. CASE Commit(r) \/ CommitUnacknowledged(r)
  <2> SUFFICES ASSUME NEW c \in Currencies PROVE SumFunctionOnSet(ledger', WalletsIn(c)) = 0
    BY DEF LedgerIsBalanced, WalletsIn
  <2>1. PICK net : net = [w \in Wallets |-> NetOfWallet(Legs(input[r], converted[r]), w)]
    OBVIOUS
  <2>2. IsFiniteSet(WalletsIn(c)) /\ WalletsIn(c) \subseteq Wallets
    BY WalletsAssumption, FS_Subset DEF WalletsIn
  <2>3. input[r] \in Inputs /\ converted[r] \in Nat /\ ledger \in [Wallets -> Int]
    BY DEF Core, TypeOK
  <2>4. SumFunctionOnSet(net, WalletsIn(c)) = 0
    <3>1. /\ \A role \in Role : WalletOf(input[r], role) \in Wallets
          /\ NetOfCurrency(Legs(input[r], converted[r]), c) = 0
      BY <1>1, CommitPosts DEF BalancedPerCurrency
    <3>2. \A w \in WalletsIn(c) : net[w] = NetOfWallet(Legs(input[r], converted[r]), w)
      BY <2>1, <2>2
    <3>3. SumFunctionOnSet(net, WalletsIn(c)) = NetOfCurrency(Legs(input[r], converted[r]), c)
      BY <2>3, <3>1, <3>2, PostingSum
    <3> QED BY <3>1, <3>3
  <2>5. \A w \in WalletsIn(c) :
          ledger[w] \in Int /\ net[w] \in Int /\ ledger'[w] = ledger[w] + net[w]
    BY <1>1, <2>1, <2>2, <2>3, CommitPosts, NetOfWalletInt
  <2>6. SumFunctionOnSet(ledger', WalletsIn(c))
          = SumFunctionOnSet(ledger, WalletsIn(c)) + SumFunctionOnSet(net, WalletsIn(c))
    BY <2>2, <2>5, SumOfSums
  <2> QED BY <2>4, <2>6 DEF LedgerIsBalanced
<1>2. CASE ~Commit(r) /\ ~CommitUnacknowledged(r)
  BY <1>2, TablesFixed DEF tables, LedgerIsBalanced, WalletsIn
<1> QED BY <1>1, <1>2

\* Before the first commit nothing was posted.
LEMMA LedgerInit ==
  ASSUME Init
  PROVE  IsFiniteSet(remittances) /\ LedgerHoldsRemittances /\ LedgerIsBalanced
<1>1. IsFiniteSet(remittances)
  BY FS_EmptySet DEF Init
<1>2. LedgerHoldsRemittances
  BY SumOfNothing DEF Init, LedgerHoldsRemittances
<1>3. LedgerIsBalanced
  <2> SUFFICES ASSUME NEW c \in Currencies PROVE SumFunctionOnSet(ledger, WalletsIn(c)) = 0
    BY DEF LedgerIsBalanced
  <2>1. IsFiniteSet(WalletsIn(c)) /\ \A w \in WalletsIn(c) : ledger[w] = 0
    BY WalletsAssumption, FS_Subset DEF WalletsIn, Init
  <2> QED BY <2>1, SumOfZeros
<1> QED BY <1>1, <1>2, <1>3

-----------------------------------------------------------------------------
(* Who overwrites whom *)

\* What a step of r that is no commit lets r know of the versions: nothing new,
\* or the current one of the wallet it reads.
LEMMA VersionsRead ==
  ASSUME TypeOK, NEW r \in Requests, Progress(r) \/ Fault(r),
         ~Commit(r), ~CommitUnacknowledged(r), NEW role \in Found(r)' \cap SavedRoles(input[r])
  PROVE  \/ role \in Found(r) /\ seenVersion'[r][role] = seenVersion[r][role]
         \/ seenVersion'[r][role] = version[WalletOf(input[r], role)]
<1> USE DEF TypeOK, Goto, Found, Quoted, Posted, Saving
<1>1. CASE Begin(r) \/ CheckCompliance(r) \/ GetRate(r) \/ Refuse(r) \/ RateUnavailable(r)
  BY <1>1 DEF Begin, CheckCompliance, GetRate, Refuse, RateUnavailable
<1>2. CASE FindSource(r)
  BY <1>2 DEF FindSource, Find, Role
<1>3. CASE FindDestination(r)
  BY <1>3 DEF FindDestination, Find, Role
<1>4. CASE FindTreasurySource(r)
  BY <1>4 DEF FindTreasurySource, Find, Role, SavedRoles
<1>5. CASE FindTreasuryDestination(r)
  BY <1>5 DEF FindTreasuryDestination, Find, Role
<1>6. CASE Inserts(r)
  BY <1>6 DEF Inserts, PostLedger, SaveRemittance, AddOutbox, InsertRow
<1>7. CASE Saves(r)
  BY <1>7 DEF Saves, SaveSource, SaveDestination, SaveTreasurySource,
     SaveTreasuryDestination, Save
<1>8. CASE AbortDeadlocked(r) \/ Rollback(r) \/ LoseConnection(r)
  BY <1>8 DEF AbortDeadlocked, Rollback, LoseConnection
<1> QED BY <1>1, <1>2, <1>3, <1>4, <1>5, <1>6, <1>7, <1>8, StepKinds DEF Reads, Ends

\* Remittances stay committed, with the wallets they use.
LEMMA UsesGrow ==
  ASSUME Core, NEW r \in Requests, Progress(r) \/ Fault(r), NEW w
  PROVE  Uses(w) \subseteq Uses(w)'
<1>1. UNCHANGED input
  BY InputVerifiedFixed
<1>2. remittances \subseteq remittances'
  <2>1. CASE Commit(r) \/ CommitUnacknowledged(r)
    BY <2>1 DEF Commit, CommitUnacknowledged, CommitRows
  <2>2. CASE ~Commit(r) /\ ~CommitUnacknowledged(r)
    BY <2>2, TablesFixed DEF tables
  <2> QED BY <2>1, <2>2
<1> QED BY <1>1, <1>2 DEF Uses, SavedRoles, IsSameCurrency, WalletOf

\* A remittance that commits uses the wallets of its saved roles.
LEMMA CommitUses ==
  ASSUME Core, RepliesAreTrue, NEW r \in Requests, Commit(r) \/ CommitUnacknowledged(r),
         NEW role \in SavedRoles(input[r])
  PROVE  <<r, role>> \in Uses(WalletOf(input[r], role))'
<1>1. r \in remittances' /\ input' = input
  BY CommitPosts
<1>2. role \in Role
  BY DEF SavedRoles
<1> QED BY <1>1, <1>2 DEF Uses, SavedRoles, IsSameCurrency, WalletOf

\* A commit replaces the reads of the wallets it uses, and no others.
LEMMA ReplacedStep ==
  ASSUME Core, RepliesAreTrue, NEW r \in Requests, Progress(r) \/ Fault(r),
         NEW q \in Requests, ReplacedByUse(q)
  PROVE  ReplacedByUse(q)'
<1>0. TypeOK /\ UNCHANGED input /\ SavedRoles(input[q])' = SavedRoles(input[q])
  BY InputVerifiedFixed DEF Core, SavedRoles, IsSameCurrency
<1> SUFFICES ASSUME NEW role \in Found(q)' \cap SavedRoles(input[q]),
                    NEW w, w = WalletOf(input[q], role), seenVersion'[q][role] # version'[w]
             PROVE  Uses(w)' # {}
  <2>1. \A role \in Role : WalletOf(input[q], role)' = WalletOf(input[q], role)
    BY <1>0 DEF WalletOf, Role
  <2>2. SavedRoles(input[q]) \subseteq Role
    BY DEF SavedRoles
  <2>3. ASSUME NEW role \in Found(q)' \cap SavedRoles(input[q]),
               seenVersion'[q][role] # version'[WalletOf(input[q], role)]
        PROVE  Uses(WalletOf(input[q], role))' # {}
    <3>1. PICK w : w = WalletOf(input[q], role)
      OBVIOUS
    <3>2. Uses(w)' # {}
      BY <2>3, <3>1
    <3>3. w = WalletOf(input[q], role)'
      BY <2>1, <2>2, <3>1
    <3> QED BY <3>2, <3>3 DEF Uses
  <2> QED BY <1>0, <2>1, <2>2, <2>3 DEF ReplacedByUse
<1>1. role \in Found(q) /\ seenVersion[q][role] # version[w] => Uses(w)' # {}
  <2>1. role \in Found(q) /\ seenVersion[q][role] # version[w] => Uses(w) # {}
    BY DEF ReplacedByUse
  <2>2. Uses(w) \subseteq Uses(w)'
    BY UsesGrow
  <2> QED BY <2>1, <2>2
<1>2. CASE Commit(r) \/ CommitUnacknowledged(r)
  <2>1. pc[r] = "commit" /\ CommitRows(r) /\ seenVersion' = seenVersion /\ pc'[r] \in Ended
    BY <1>0, <1>2 DEF Commit, CommitUnacknowledged, Goto, TypeOK, Ended
  <2>2. Found(r)' = {}
    BY <2>1 DEF Found, Ended, Quoted, Posted, Saving
  <2>3. q # r /\ pc'[q] = pc[q]
    BY <1>0, <2>2, OthersUntouched
  <2>4. role \in Found(q) /\ w \in Wallets
    <3>1. Found(q)' = Found(q)
      BY <2>3 DEF Found
    <3> QED BY <3>1 DEF Core, WalletsFound
  <2>5. CASE lock[w] = r
    <3>1. PICK role2 \in Written(r) : WalletOf(input[r], role2) = w
      BY <2>4, <2>5 DEF Core, LockedByWriter
    <3>2. role2 \in SavedRoles(input[r])
      BY <2>1, <3>1 DEF Written
    <3>3. <<r, role2>> \in Uses(WalletOf(input[r], role2))'
      BY <1>2, <3>2, CommitUses
    <3>4. <<r, role2>> \in Uses(w)'
      BY <1>0, <3>1, <3>3 DEF Uses, WalletOf
    <3> QED BY <3>4
  <2>6. CASE lock[w] # r
    <3>1. version'[w] = version[w]
      BY <2>1, <2>4, <2>6 DEF CommitRows
    <3> QED BY <1>1, <2>1, <2>4, <3>1
  <2> QED BY <2>5, <2>6
<1>3. CASE ~Commit(r) /\ ~CommitUnacknowledged(r)
  <2>1. version' = version
    BY <1>3, TablesFixed DEF tables
  <2>2. CASE q # r
    <3>1. pc'[q] = pc[q] /\ seenVersion'[q] = seenVersion[q]
      BY <1>0, <2>2, OthersUntouched
    <3>2. Found(q)' = Found(q)
      BY <3>1 DEF Found
    <3> QED BY <1>1, <2>1, <3>1, <3>2
  <2>3. CASE q = r
    BY <1>0, <1>1, <1>3, <2>1, <2>3, VersionsRead
  <2> QED BY <2>2, <2>3
<1> QED BY <1>2, <1>3

\* A commit overwrites a wallet it shares with a committed remittance, or has
\* in two roles.
LEMMA SharedStep ==
  ASSUME Core, RepliesAreTrue, \A q \in Requests : ReplacedByUse(q), OverwritesAreShared,
         NEW r \in Requests, Progress(r) \/ Fault(r)
  PROVE  OverwritesAreShared'
<1> SUFFICES ASSUME NEW w \in overwritten'
             PROVE  \E use1, use2 \in Uses(w)' : use1 # use2
  BY DEF OverwritesAreShared
<1>1. CASE w \in overwritten
  <2>1. PICK use1, use2 \in Uses(w) : use1 # use2
    BY <1>1 DEF OverwritesAreShared
  <2> QED BY <2>1, UsesGrow
<1>2. CASE w \notin overwritten
  <2>1. Commit(r) \/ CommitUnacknowledged(r)
    BY <1>2, TablesFixed DEF tables
  <2>2. pc[r] = "commit" /\ CommitRows(r)
    BY <2>1 DEF Commit, CommitUnacknowledged, Goto
  <2>3. Overwrites(r, w)
    BY <1>2, <2>2 DEF CommitRows
  <2>4. Found(r) = Role /\ SavedRoles(input[r]) \subseteq Role
    BY <2>2 DEF Found, Quoted, Posted, SavedRoles
  <2>5. \A role \in SavedRoles(input[r]) :
          WalletOf(input[r], role) = w => <<r, role>> \in Uses(w)'
    <3>1. input' = input
      BY InputVerifiedFixed
    <3> QED BY <2>1, <3>1, CommitUses DEF Uses, WalletOf
  <2>6. CASE \E role \in SavedRoles(input[r]) :
               WalletOf(input[r], role) = w /\ seenVersion[r][role] # version[w]
    <3>1. PICK role \in SavedRoles(input[r]) :
               WalletOf(input[r], role) = w /\ seenVersion[r][role] # version[w]
      BY <2>6
    <3>2. Uses(w) # {}
      BY <2>4, <3>1 DEF ReplacedByUse
    <3>3. PICK use \in Uses(w) : TRUE
      BY <3>2
    <3>4. use[1] # r
      <4>1. r \notin remittances
        BY <2>2 DEF RepliesAreTrue, Ended
      <4> QED BY <3>3, <4>1 DEF Uses
    <3>5. use \in Uses(w)' /\ use # <<r, role>>
      BY <3>3, <3>4, UsesGrow
    <3> QED BY <2>5, <3>1, <3>5
  <2>7. CASE \E role1, role2 \in SavedRoles(input[r]) :
               /\ WalletOf(input[r], role1) = w /\ WalletOf(input[r], role2) = w
               /\ role1 # role2
    <3>1. PICK role1, role2 \in SavedRoles(input[r]) :
               /\ WalletOf(input[r], role1) = w /\ WalletOf(input[r], role2) = w
               /\ role1 # role2
      BY <2>7
    <3> QED BY <2>5, <3>1
  <2> QED BY <2>3, <2>6, <2>7 DEF Overwrites
<1> QED BY <1>1, <1>2

-----------------------------------------------------------------------------
(* The whole invariant holds *)

\* Everything the invariant says holds in every reachable state.
THEOREM InvariantHolds == Spec => []IInv
<1>1. Init => IInv
  BY CoreInit, LedgerInit, WalletsAssumption
     DEF Init, IInv, RepliesAreTrue, LimitNeedsVerification, DriftOnlyFromOverwrites, Ended,
         ReplacedByUse, Found, Quoted, Posted, Saving, OverwritesAreShared
<1>2. IInv /\ [Next]_vars => IInv'
  <2> SUFFICES ASSUME IInv, [Next]_vars PROVE IInv'
    OBVIOUS
  <2>1. Core'
    BY CoreStep DEF IInv
  <2>2. ASSUME NEW r \in Requests, Progress(r) \/ Fault(r) PROVE IInv'
    BY <2>1, <2>2, RepliesStep, LimitStep, DriftStep, ReplacedStep, SharedStep, LedgerStep,
       BalanceStep DEF IInv
  <2>3. ASSUME UNCHANGED <<request, transaction, tables>>, verified \subseteq verified'
        PROVE  IInv'
    <3> USE <2>3 DEF IInv, request, transaction, tables
    <3>1. \A w : Uses(w)' = Uses(w)
      BY DEF Uses, SavedRoles, IsSameCurrency, WalletOf
    <3>2. ASSUME NEW r \in Requests PROVE ReplacedByUse(r)'
      <4>1. ReplacedByUse(r)
        OBVIOUS
      <4>2. Found(r)' = Found(r) /\ SavedRoles(input[r])' = SavedRoles(input[r])
        BY DEF Found, SavedRoles, IsSameCurrency
      <4> QED BY <3>1, <4>1, <4>2 DEF ReplacedByUse, WalletOf
    <3>3. OverwritesAreShared'
      BY <3>1 DEF OverwritesAreShared
    <3>4. RepliesAreTrue' /\ LimitNeedsVerification' /\ DriftOnlyFromOverwrites'
      BY DEF RepliesAreTrue, LimitNeedsVerification, DriftOnlyFromOverwrites
    <3>5. IsFiniteSet(remittances') /\ LedgerHoldsRemittances' /\ LedgerIsBalanced'
      BY DEF LedgerHoldsRemittances, LedgerIsBalanced, WalletsIn
    <3> QED BY <2>1, <3>2, <3>3, <3>4, <3>5
  <2> QED BY <2>2, <2>3 DEF Next, Idle, SubmitKyc, vars
<1> QED BY <1>1, <1>2, PTL DEF Spec

\* A wallet drifts from its ledger only through a write made from a replaced
\* read or made twice; every other wallet's balance is its opening balance
\* plus its entries, under every interleaving and fault.
THEOREM DriftNeedsOverwrite == Spec => []DriftOnlyFromOverwrites
BY InvariantHolds, PTL DEF IInv

\* A wallet is overwritten only where committed remittances share it, or one
\* uses it twice: remittances that share no wallet, the treasury's included,
\* leave every balance exact.
THEOREM OverwritesAlwaysShared == Spec => []OverwritesAreShared
BY InvariantHolds, PTL DEF IInv

\* A 201 stands for a committed remittance with its event, and what a running
\* request has written nobody sees.
THEOREM RepliesTrue == Spec => []RepliesAreTrue
BY InvariantHolds, PTL DEF IInv

\* The compliance limit holds of every committed remittance.
THEOREM LimitHolds == Spec => []LimitNeedsVerification
BY InvariantHolds, PTL DEF IInv

\* The ledger is the committed remittances' postings, each whole and once, and
\* nothing else.
THEOREM LedgerHolds == Spec => []LedgerHoldsRemittances
BY InvariantHolds, PTL DEF IInv

\* Over all wallets of a currency the ledger's entries always add up to zero.
THEOREM LedgerAlwaysBalanced == Spec => []LedgerIsBalanced
BY InvariantHolds, PTL DEF IInv

\* While no commit has overwritten a wallet of a currency, its wallets hold
\* together exactly what they opened with.
THEOREM MoneyAlwaysConserved == Spec => []MoneyIsConserved
<1>1. IInv => MoneyIsConserved
  <2> SUFFICES ASSUME IInv, NEW c \in Currencies, WalletsIn(c) \cap overwritten = {}
               PROVE  SumFunctionOnSet(balance, WalletsIn(c))
                        = SumFunctionOnSet(InitialBalance, WalletsIn(c))
    BY DEF MoneyIsConserved
  <2>1. IsFiniteSet(WalletsIn(c)) /\ WalletsIn(c) \subseteq Wallets
    BY WalletsAssumption, FS_Subset DEF WalletsIn
  <2>2. \A w \in WalletsIn(c) : /\ InitialBalance[w] \in Int /\ ledger[w] \in Int
                               /\ balance[w] = InitialBalance[w] + ledger[w]
    BY <2>1, WalletsAssumption DEF IInv, DriftOnlyFromOverwrites, Core, TypeOK
  <2>3. SumFunctionOnSet(balance, WalletsIn(c))
          = SumFunctionOnSet(InitialBalance, WalletsIn(c)) + SumFunctionOnSet(ledger, WalletsIn(c))
    BY <2>1, <2>2, SumOfSums
  <2>4. SumFunctionOnSet(ledger, WalletsIn(c)) = 0
    BY DEF IInv, LedgerIsBalanced
  <2>5. SumFunctionOnSet(InitialBalance, WalletsIn(c)) \in Int
    BY <2>1, <2>2, SumType
  <2> QED BY <2>3, <2>4, <2>5
<1> QED BY <1>1, InvariantHolds, PTL

\* The ledger's own check never refuses a remittance: whatever the body and
\* the rate, the legs of a posting add up to zero in every currency.
THEOREM EveryPostingBalances ==
  ASSUME NEW in \in Inputs, NEW conv \in ConvertedAmounts(in)
  PROVE  BalancedPerCurrency(Legs(in, conv))
<1> SUFFICES ASSUME NEW c \in Currencies PROVE NetOfCurrency(Legs(in, conv), c) = 0
  BY DEF BalancedPerCurrency
<1>1. in.amount \in Nat /\ Fee(in.amount) \in Nat
  BY InputFields
<1>2. WalletOf(in, "source")[2] = in.source /\ WalletOf(in, "treasurySource")[2] = in.source
      /\ WalletOf(in, "destination")[2] = in.destination
      /\ WalletOf(in, "treasuryDestination")[2] = in.destination
  BY DEF WalletOf
<1>3. CASE IsSameCurrency(in)
  <2>1. conv = in.amount /\ in.source = in.destination
    BY <1>3 DEF ConvertedAmounts, IsSameCurrency
  <2> QED BY <1>1, <1>2, <1>3, <2>1 DEF NetOfCurrency, Legs, Sum6, Credit, Debit, NoLeg
<1>4. CASE ~IsSameCurrency(in)
  <2>1. conv \in Nat
    <3>1. PICK rate \in Quotes[in.source, in.destination] : conv = Convert(in.amount, rate)
      BY <1>4 DEF ConvertedAmounts
    <3>2. rate \in Rate
      BY InputFields, InputsAssumption
    <3> QED BY <1>1, <3>1, <3>2, ConvertNat
  <2>2. in.source # in.destination
    BY <1>4 DEF IsSameCurrency
  <2> QED BY <1>1, <1>2, <1>4, <2>1, <2>2 DEF NetOfCurrency, Legs, Sum6, Credit, Debit, NoLeg
<1> QED BY <1>3, <1>4

-----------------------------------------------------------------------------
(* The committed tables implement the journal *)

\* A commit is one settlement of the journal.
LEMMA CommitSettles ==
  ASSUME IInv, NEW r \in Requests, Commit(r) \/ CommitUnacknowledged(r)
  PROVE  Journal!Next
<1> DEFINE posting == Posting(input[r], converted[r])
<1>1. pc[r] = "commit" /\ CommitRows(r)
  BY DEF Commit, CommitUnacknowledged, Goto
<1>2. /\ pending[r] = Insert /\ CanPost(r) /\ converted[r] \in ConvertedAmounts(input[r])
      /\ input[r] \in Inputs
  BY <1>1 DEF IInv, Core, TypeOK, InsertsMatchPhase, ChecksHold, Posted, Quoted, Saving
<1>3. posting \in BalancedPostings
  BY <1>2 DEF BalancedPostings, CanPost
<1>4. r \notin remittances /\ outbox = remittances
  BY <1>1 DEF IInv, RepliesAreTrue, Ended
<1>5. /\ remittances' = remittances \cup {r} /\ outbox' = outbox \cup {r}
      /\ ledger' = [w \in Wallets |-> ledger[w] + posting[w]]
  BY <1>1, <1>2 DEF CommitRows, Posting, Insert
<1>6. Journal!Settle(r, posting)
  BY <1>4, <1>5 DEF Journal!Settle
<1> QED BY <1>3, <1>6 DEF Journal!Next

\* Whatever requests interleave, deadlock, fail or lose their connection, the
\* ledger, the remittances and the outbox move as the journal's do.
THEOREM JournalImplemented == Spec => ImplementsJournal
<1>1. Init => Journal!Init
  BY DEF Init, Journal!Init
<1>2. IInv /\ [Next]_vars => [Journal!Next]_<<ledger, remittances, outbox>>
  <2> SUFFICES ASSUME IInv, [Next]_vars
               PROVE  Journal!Next \/ UNCHANGED <<ledger, remittances, outbox>>
    OBVIOUS
  <2>1. ASSUME NEW r \in Requests, Progress(r) \/ Fault(r)
        PROVE  Journal!Next \/ UNCHANGED <<ledger, remittances, outbox>>
    <3>1. CASE Commit(r) \/ CommitUnacknowledged(r)
      BY <3>1, CommitSettles
    <3>2. CASE ~Commit(r) /\ ~CommitUnacknowledged(r)
      BY <2>1, <3>2, TablesFixed DEF tables
    <3> QED BY <3>1, <3>2
  <2> QED BY <2>1 DEF Next, Idle, SubmitKyc, vars, tables
<1> QED BY <1>1, <1>2, InvariantHolds, PTL DEF Spec, ImplementsJournal, Journal!Spec

-----------------------------------------------------------------------------
(* Remittances as atomic transfers *)

\* A commit that leaves no wallet overwritten moves every balance as its
\* posting does: balance and ledger agreed before it and agree after it.
LEMMA CommitTransfers ==
  ASSUME IInv, IInv', NEW r \in Requests, Commit(r) \/ CommitUnacknowledged(r),
         overwritten' = {}
  PROVE  Atomic!Next
<1> DEFINE posting == Posting(input[r], converted[r])
<1>1. pc[r] = "commit" /\ CommitRows(r)
  BY DEF Commit, CommitUnacknowledged, Goto
<1>2. /\ pending[r] = Insert /\ CanPost(r) /\ converted[r] \in ConvertedAmounts(input[r])
      /\ input[r] \in Inputs /\ converted[r] \in Nat
  BY <1>1 DEF IInv, Core, TypeOK, InsertsMatchPhase, ChecksHold, Posted, Quoted, Saving
<1>3. posting \in BalancedPostings
  BY <1>2 DEF BalancedPostings, CanPost
<1>4. r \notin remittances
  BY <1>1 DEF IInv, RepliesAreTrue, Ended
<1>5. /\ remittances' = remittances \cup {r}
      /\ ledger' = [w \in Wallets |-> ledger[w] + posting[w]]
      /\ overwritten = {}
  BY <1>1, <1>2 DEF CommitRows, Posting, Insert
<1>6. \A w \in Wallets : posting[w] \in Int
  BY <1>2, NetOfWalletInt DEF Posting
<1>7. \A w \in Wallets : balance'[w] = balance[w] + posting[w] /\ balance'[w] >= 0
  <2> SUFFICES ASSUME NEW w \in Wallets
               PROVE  balance'[w] = balance[w] + posting[w] /\ balance'[w] >= 0
    OBVIOUS
  <2>1. balance[w] = InitialBalance[w] + ledger[w]
    BY <1>5 DEF IInv, DriftOnlyFromOverwrites
  <2>2. balance'[w] = InitialBalance[w] + ledger'[w] /\ balance'[w] >= 0
    BY DEF IInv, DriftOnlyFromOverwrites, Core, NothingNegative
  <2>3. InitialBalance[w] \in Int /\ ledger[w] \in Int /\ posting[w] \in Int
    BY <1>6, WalletsAssumption DEF IInv, Core, TypeOK
  <2>4. ledger'[w] = ledger[w] + posting[w]
    BY <1>5
  <2> QED BY <2>1, <2>2, <2>3, <2>4
<1>8. balance' = [w \in Wallets |-> balance[w] + posting[w]]
  BY <1>1, <1>7 DEF CommitRows
<1>9. Atomic!Transfer(r, posting)
  BY <1>4, <1>5, <1>7, <1>8 DEF Atomic!Transfer
<1> QED BY <1>3, <1>9 DEF Atomic!Next

\* Until a commit overwrites another's balance every remittance happens at one
\* instant, between wallets that can afford it, however long it has run on
\* reads of its own.
THEOREM AtomicTransfersImplemented == Spec => ImplementsAtomicTransfers
<1>1. Init => Atomic!Init
  BY DEF Init, Atomic!Init
<1>2. IInv /\ IInv' /\ [Next]_vars
        => [Atomic!Next \/ overwritten' # {}]_<<balance, ledger, remittances>>
  <2> SUFFICES ASSUME IInv, IInv', [Next]_vars, overwritten' = {}
               PROVE  Atomic!Next \/ UNCHANGED <<balance, ledger, remittances>>
    OBVIOUS
  <2>1. ASSUME NEW r \in Requests, Progress(r) \/ Fault(r)
        PROVE  Atomic!Next \/ UNCHANGED <<balance, ledger, remittances>>
    <3>1. CASE Commit(r) \/ CommitUnacknowledged(r)
      BY <3>1, CommitTransfers
    <3>2. CASE ~Commit(r) /\ ~CommitUnacknowledged(r)
      BY <2>1, <3>2, TablesFixed DEF tables
    <3> QED BY <3>1, <3>2
  <2> QED BY <2>1 DEF Next, Idle, SubmitKyc, vars, tables
<1> QED BY <1>1, <1>2, InvariantHolds, PTL DEF Spec, ImplementsAtomicTransfers

=============================================================================
