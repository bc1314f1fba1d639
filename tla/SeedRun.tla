------------------------------ MODULE SeedRun ------------------------------
(***************************************************************************)
(* npm run seed, beside another such run and beside the live application:  *)
(* the guard or the reset, the treasury snapshot, the dataset, one write   *)
(* transaction, and the validation that decides the exit code.             *)
(*                                                                         *)
(* The database holds the committed rows: the datasets by their seed (the  *)
(* seed decides every id), the treasury's wallets, which get new ids after *)
(* every truncation, what the ledger adds up to for them, and whether the  *)
(* application has opened an account.  Its holders send remittances; of    *)
(* those only the treasury's side is here, read and written back as the    *)
(* application does it.  Generation touches nothing but the run's memory,  *)
(* so other steps do not interleave with it.                               *)
(*                                                                         *)
(* missed, overwritten and a reading's overtaken rows are history: what    *)
(* others committed since a run looked or a remittance read, and whether a *)
(* treasury balance was written over one that had changed meanwhile.       *)
(***************************************************************************)
EXTENDS SeedDataset

CONSTANTS
  TREASURY_SEED_BALANCE,
  Remitters,             \* bound: who send a remittance each
  Payments,              \* what they send
  Configurations,        \* what the runs may be started with
  MayFail                \* whether inserts fail and runs crash

ASSUME RunAssumption ==
  /\ TREASURY_SEED_BALANCE \in Nat /\ MayFail \in BOOLEAN
  /\ Payments \in [Remitters -> [from : Currencies, to : Currencies,
                                 amount : Nat, converted : Nat]]
  /\ \A choice \in Configurations : \A s \in Runs : choice[s] \in Overrides

VARIABLES
  seeded,          \* the committed datasets
  treasury, tnet,  \* the treasury's balances and its entries
  present, truncations,
  stranger,        \* an account the application has opened
  ids,             \* the treasury ids each run has loaded
  locked,          \* the treasury rows each run's transaction has updated
  missed, overwritten,
  sent,            \* who have sent their remittance
  reading          \* what each open remittance has read of the treasury

database == <<seeded, treasury, tnet, present, truncations, stranger, overwritten,
              sent, reading>>
vars == <<generation, database, ids, locked, missed>>

CustomerWallets == Customers \X Currencies
Events == {"accounts", "treasury", "reset"}
AtSeedBalance == [cur \in Currencies |-> TREASURY_SEED_BALANCE]
Zero == [cur \in Currencies |-> 0]

\* The treasury rows a remittance has read, their balances, and those of them
\* that have changed since.
Unread == [rows |-> {}, balance |-> Zero, overtaken |-> {}]

Init ==
  /\ phase = [s \in Runs |-> "start"]
  /\ \E choice \in Configurations : config = [s \in Runs |-> ResolveSeedConfig(choice[s])]
  /\ draft = [s \in Runs |-> EmptyDraft]
  /\ seeded = [seed \in {} |-> Nothing]
  /\ treasury = AtSeedBalance /\ tnet = Zero
  /\ present = TRUE /\ truncations = 0
  /\ stranger = FALSE
  /\ ids = [s \in Runs |-> 0]
  /\ locked = [s \in Runs |-> {}]
  /\ missed = [s \in Runs |-> {}]
  /\ overwritten = FALSE
  /\ sent = {}
  /\ reading = [x \in Remitters |-> Unread]

Open(s) == phase[s] \in Writing

\* A commit changes treasury rows that others have read.
Overtake(x, rows) == [reading[x] EXCEPT !.overtaken = @ \cup (reading[x].rows \cap rows)]

-----------------------------------------------------------------------------
(* The application: somebody opens an account and remittances are sent *)

\* An account, and a wallet with an opening balance no entry accounts for.
OpenAccount ==
  /\ ~stranger
  /\ stranger' = TRUE
  /\ missed' = [s \in Runs |-> missed[s] \cup {"accounts"}]
  /\ UNCHANGED <<generation, seeded, treasury, tnet, present, truncations, overwritten,
                 sent, reading, ids, locked>>

TreasuryRows(x) == {Payments[x].from, Payments[x].to}

\* What a remittance does to the treasury: the fee, and across currencies the
\* principal in and the converted amount out.
Settlement(x) ==
  LET p == Payments[x] IN
  [cur \in Currencies |->
     IF p.from = p.to THEN (IF cur = p.from THEN Fee(p.amount) ELSE 0)
     ELSE (IF cur = p.from THEN p.amount + Fee(p.amount) ELSE 0)
          - (IF cur = p.to THEN p.converted ELSE 0)]

WithRow(x, cur) ==
  [rows |-> reading[x].rows \cup {cur},
   balance |-> [reading[x].balance EXCEPT ![cur] = treasury[cur]],
   overtaken |-> reading[x].overtaken]

\* getTreasuryWallet: a SELECT without a lock, the source currency's first.
ReadTreasury(x, cur) ==
  /\ present /\ stranger /\ x \notin sent
  /\ cur \in TreasuryRows(x) \ reading[x].rows
  /\ cur = Payments[x].from \/ Payments[x].from \in reading[x].rows
  /\ reading' = [reading EXCEPT ![x] = WithRow(x, cur)]
  /\ UNCHANGED <<generation, seeded, treasury, tnet, present, truncations, stranger,
                 overwritten, sent, ids, locked, missed>>

\* The balance that is saved: as it was read, and the change.
Saved(x, cur) == reading[x].balance[cur] + Settlement(x)[cur]

\* The entries, the wallets and the COMMIT.  The balances read must cover what
\* is taken; the upserts write them whatever the rows hold by now, and wait for
\* the rows that are locked.
Settle(x) ==
  /\ reading[x].rows = TreasuryRows(x)
  /\ \A cur \in TreasuryRows(x) : Saved(x, cur) >= 0
  /\ \A s \in Runs : locked[s] \cap TreasuryRows(x) = {}
  /\ treasury' = [cur \in Currencies |->
                    IF cur \in TreasuryRows(x) THEN Saved(x, cur) ELSE treasury[cur]]
  /\ tnet' = [cur \in Currencies |-> tnet[cur] + Settlement(x)[cur]]
  /\ overwritten' = (overwritten \/ reading[x].overtaken # {})
  /\ sent' = sent \cup {x}
  /\ reading' = [y \in Remitters |-> IF y = x THEN Unread ELSE Overtake(y, TreasuryRows(x))]
  /\ missed' = [s \in Runs |-> missed[s] \cup {"treasury"}]
  /\ UNCHANGED <<generation, seeded, present, truncations, stranger, ids, locked>>

\* No rate, no funds, a deadlock, a lost connection: it may be sent again.
RemittanceFails(x) ==
  /\ reading[x].rows # {}
  /\ reading' = [reading EXCEPT ![x] = Unread]
  /\ UNCHANGED <<generation, seeded, treasury, tnet, present, truncations, stranger,
                 overwritten, sent, ids, locked, missed>>

Application ==
  \/ OpenAccount
  \/ \E x \in Remitters :
       (\E cur \in Currencies : ReadTreasury(x, cur)) \/ Settle(x) \/ RemittanceFails(x)

-----------------------------------------------------------------------------
(* The guard, the reset, the snapshot *)

AnyAccount == DOMAIN seeded # {} \/ stranger

\* Mistake: only the accounts of other datasets are counted.
CheckClean_DatasetsOnly(s) ==
  /\ ~config[s].reset
  /\ Enter(s, "start", IF DOMAIN seeded # {} THEN "failed" ELSE "checked")
  /\ missed' = [missed EXCEPT ![s] = {}]
  /\ UNCHANGED <<config, draft, database, ids, locked>>

\* assertDatabaseIsClean.
CheckClean(s) ==
  /\ ~config[s].reset
  /\ Enter(s, "start", IF AnyAccount THEN "failed" ELSE "checked")
  /\ missed' = [missed EXCEPT ![s] = {}]
  /\ UNCHANGED <<config, draft, database, ids, locked>>

RefuseReset(s) ==
  /\ config[s].reset /\ config[s].production
  /\ Enter(s, "start", "failed")
  /\ UNCHANGED <<config, draft, database, ids, locked, missed>>

\* TRUNCATE commits by itself.  It waits for the transactions that have
\* read or written its tables.
Truncate(s) ==
  /\ config[s].reset /\ ~config[s].production
  /\ \A t \in Runs : ~Open(t)
  /\ \A x \in Remitters : reading[x].rows = {}
  /\ Enter(s, "start", "truncated")
  /\ seeded' = [seed \in {} |-> Nothing]
  /\ present' = FALSE /\ truncations' = truncations + 1
  /\ treasury' = Zero /\ tnet' = Zero
  /\ stranger' = FALSE /\ overwritten' = FALSE
  /\ missed' = [t \in Runs |-> IF t = s THEN {} ELSE missed[t] \cup {"reset"}]
  /\ UNCHANGED <<config, draft, ids, locked, sent, reading>>

\* Migration 002 again; ON CONFLICT DO NOTHING.
Migrate(s) ==
  /\ Enter(s, "truncated", "checked")
  /\ present' = TRUE
  /\ treasury' = IF present THEN treasury ELSE AtSeedBalance
  /\ UNCHANGED <<config, draft, seeded, tnet, truncations, stranger, overwritten,
                 ids, locked, missed, sent, reading>>

\* loadTreasuryWallets, and the copy generateDataset works on.
Load(s) ==
  /\ Enter(s, "checked", IF present THEN "loaded" ELSE "failed")
  /\ draft' = [draft EXCEPT ![s] = Snapshot(treasury)]
  /\ ids' = [ids EXCEPT ![s] = truncations]
  /\ missed' = [missed EXCEPT ![s] = @ \ {"treasury"}]
  /\ UNCHANGED <<config, database, locked>>

-----------------------------------------------------------------------------
(* writeSeedBatch *)

Stale(s) == ids[s] # truncations \/ ~present

\* Ends a run, and its transaction, without a trace.
Abandon(s, end) ==
  /\ phase' = [phase EXCEPT ![s] = end]
  /\ locked' = [locked EXCEPT ![s] = {}]
  /\ draft' = [draft EXCEPT ![s] = EmptyDraft]
  /\ UNCHANGED <<config, database, ids, missed>>

Rollback(s) == Abandon(s, "failed")

\* Users, accounts, KYC profiles and wallets.  The ids follow from the seed:
\* an insert waits for a transaction with the same ids, and fails once they
\* are committed.
InsertRows(s) ==
  /\ phase[s] = "generated"
  /\ \A t \in Runs : Open(t) => config[t].seed # config[s].seed
  /\ IF config[s].seed \in DOMAIN seeded
     THEN Rollback(s)
     ELSE /\ phase' = [phase EXCEPT ![s] = "inserted"]
          /\ UNCHANGED <<config, draft, database, ids, locked, missed>>

\* Each treasury wallet in turn, in the order of the snapshot's rows.  The row
\* stays locked until the transaction ends.
UpdateTreasury(s, cur) ==
  /\ phase[s] = "inserted" /\ ~Stale(s)
  /\ \A t \in Runs : cur \notin locked[t]
  /\ locked' = [locked EXCEPT ![s] = @ \cup {cur}]
  /\ UNCHANGED <<generation, database, ids, missed>>

\* Ledger entries, remittances, idempotency records.  Treasury ids that are
\* gone fail the foreign key; their updates matched no row.
InsertEntries(s) ==
  /\ phase[s] = "inserted"
  /\ Stale(s) \/ locked[s] = Currencies
  /\ IF Stale(s) /\ draft[s].touched # {}
     THEN Rollback(s)
     ELSE /\ phase' = [phase EXCEPT ![s] = "posted"]
          /\ UNCHANGED <<config, draft, database, ids, locked, missed>>

InsertFails(s) == MayFail /\ Open(s) /\ Rollback(s)

\* Two runs, or a run and a remittance across currencies, wait for each
\* other's treasury rows: PostgreSQL ends one.
DeadlockVictim(s) ==
  /\ phase[s] = "inserted" /\ ~Stale(s) /\ locked[s] # {}
  /\ \/ \E t \in Runs \ {s} :
          /\ phase[t] = "inserted" /\ locked[t] # {}
          /\ Currencies = locked[s] \cup locked[t]
     \/ \E x \in Remitters :
          /\ reading[x].rows = TreasuryRows(x) /\ Payments[x].to \in locked[s]
          /\ \A t \in Runs : Payments[x].from \notin locked[t]
  /\ Rollback(s)

\* The customers' wallets, and the entries, the treasury's among them.
DatasetRows(d) ==
  [balance |-> [w \in CustomerWallets |-> d.balance[w]], net |-> d.net]

\* Mistake: the treasury's balance is left out of the batch.
Committed_NoTreasury(s) ==
  /\ seeded' = [seed \in DOMAIN seeded \cup {config[s].seed} |->
                  IF seed = config[s].seed THEN DatasetRows(draft[s]) ELSE seeded[seed]]
  /\ tnet' = [cur \in Currencies |-> tnet[cur] + draft[s].net[TreasuryWallet(cur)]]
  /\ UNCHANGED <<treasury, overwritten, reading>>

\* What the transaction leaves behind.  The treasury's balances are written
\* as they came out of the snapshot, whatever they are by now.
Committed(s) ==
  /\ seeded' = [seed \in DOMAIN seeded \cup {config[s].seed} |->
                  IF seed = config[s].seed THEN DatasetRows(draft[s]) ELSE seeded[seed]]
  /\ tnet' = [cur \in Currencies |-> tnet[cur] + draft[s].net[TreasuryWallet(cur)]]
  /\ IF Stale(s) THEN UNCHANGED <<treasury, overwritten, reading>>
     ELSE /\ treasury' = [cur \in Currencies |-> draft[s].balance[TreasuryWallet(cur)]]
          /\ overwritten' = (overwritten \/ "treasury" \in missed[s])
          /\ reading' = [x \in Remitters |-> Overtake(x, Currencies)]

Commit(s) ==
  /\ Enter(s, "posted", "committed")
  /\ Committed(s)
  /\ locked' = [locked EXCEPT ![s] = {}]
  /\ missed' = [t \in Runs |->
                  IF t = s THEN missed[t] \ {"reset"} ELSE missed[t] \cup {"accounts", "treasury"}]
  /\ draft' = [draft EXCEPT ![s] = EmptyDraft]
  /\ UNCHANGED <<config, present, truncations, stranger, ids, sent>>

-----------------------------------------------------------------------------
(* Validation: separate queries, each on what is committed by then *)

\* checkDebitsEqualCredits and checkEveryPostingBalances; what the application
\* posts balances by itself.
DebitsEqualCredits == \A seed \in DOMAIN seeded : Balanced(seeded[seed].net)

\* The application opens wallets with a balance no entry accounts for.
WalletsMatchLedger ==
  /\ \A seed \in DOMAIN seeded : \A w \in CustomerWallets :
       seeded[seed].balance[w] = seeded[seed].net[w]
  /\ ~stranger

\* checkNoNegativeBalances, and checkTreasuryLiquidity where there is a treasury.
NobodyIsOverdrawn ==
  /\ present /\ \A cur \in Currencies : treasury[cur] >= 0
  /\ \A seed \in DOMAIN seeded : \A w \in CustomerWallets : seeded[seed].balance[w] >= 0

CheckLedger(s) ==
  /\ Enter(s, "committed",
           IF DebitsEqualCredits /\ WalletsMatchLedger THEN "validating" ELSE "failed")
  /\ UNCHANGED <<config, draft, database, ids, locked, missed>>

CheckBalances(s) ==
  /\ Enter(s, "validating", IF NobodyIsOverdrawn THEN "passed" ELSE "failed")
  /\ UNCHANGED <<config, draft, database, ids, locked, missed>>

-----------------------------------------------------------------------------
(* Faults *)

Crash(s) ==
  /\ MayFail /\ phase[s] \notin Ended
  /\ Abandon(s, "crashed")

Step(s) ==
  \/ CheckClean(s) \/ RefuseReset(s) \/ Truncate(s) \/ Migrate(s) \/ Load(s)
  \/ Generate(s) /\ UNCHANGED <<database, ids, locked, missed>>
  \/ InsertRows(s) \/ (\E cur \in Currencies : UpdateTreasury(s, cur)) \/ InsertEntries(s)
  \/ DeadlockVictim(s) \/ Commit(s)
  \/ CheckLedger(s) \/ CheckBalances(s)

\* No other run is in the middle of its generation.
Undisturbed(s) == \A t \in Runs \ {s} : phase[t] \notin Generating

Done == (\A s \in Runs : phase[s] \in Ended) /\ UNCHANGED vars

Next ==
  \/ \E s \in Runs : Undisturbed(s) /\ (Step(s) \/ InsertFails(s) \/ Crash(s))
  \/ (\A s \in Runs : phase[s] \notin Generating) /\ Application
  \/ Done

Spec == Init /\ [][Next]_vars

-----------------------------------------------------------------------------
(* Properties *)

TypeOK ==
  /\ GenerationTypeOK
  /\ seeded \in [DOMAIN seeded -> [balance : [CustomerWallets -> Int],
                                   net : [Wallets -> Int]]]
  /\ DOMAIN seeded \subseteq Nat
  /\ treasury \in [Currencies -> Int] /\ tnet \in [Currencies -> Int]
  /\ present \in BOOLEAN /\ truncations \in Nat
  /\ stranger \in BOOLEAN /\ overwritten \in BOOLEAN
  /\ ids \in [Runs -> Nat]
  /\ locked \in [Runs -> SUBSET Currencies]
  /\ missed \in [Runs -> SUBSET Events]
  /\ sent \subseteq Remitters
  /\ reading \in [Remitters -> [rows : SUBSET Currencies, balance : [Currencies -> Int],
                                overtaken : SUBSET Currencies]]

\* The treasury holds its first balance and what the ledger says since, until
\* a run or a remittance writes a balance over one that somebody else has
\* changed since it was read.  The validation does not look at it: wallets of
\* the treasury are left out.
TreasuryAddsUp ==
  present /\ ~overwritten =>
    \A cur \in Currencies : treasury[cur] = TREASURY_SEED_BALANCE + tnet[cur]

\* A run adds its dataset to a database with other accounts in it only when
\* they came after it had looked; a run that looks at them is refused.
CommitsAreExplained ==
  [][\A s \in Runs :
       phase[s] = "posted" /\ phase'[s] = "committed" /\ AnyAccount
         => "accounts" \in missed[s]]_vars

\* No draft takes a wallet below zero: scaling, the settlement cap, halving and
\* the funds check hold through rounding, however the draws fall.
DraftsAreCovered == \A s \in Runs : DraftIsCovered(draft[s])

\* What the generators write is never why a run's own validation fails: a run
\* fails it only because of an account the application has opened, or of
\* another run's reset.
ValidationBlamesOthers ==
  [][\A s \in Runs :
       phase[s] \in Validating /\ phase'[s] = "failed" => stranger \/ ~present]_vars

\* A run that passed has its whole dataset in the database, unless another has
\* reset it since the commit; it never passes without one.
PassedReportsAreTrue ==
  \A s \in Runs : phase[s] = "passed" =>
    config[s].seed \in DOMAIN seeded \/ "reset" \in missed[s]

-----------------------------------------------------------------------------
(* The inductive invariant *)

DraftsAreSound ==
  \A s \in Runs : /\ DraftAddsUp(draft[s]) /\ TouchedIsNamed(draft[s])
                 /\ DraftIsCovered(draft[s]) /\ Balanced(draft[s].net)

DatasetIsSound(rows) ==
  /\ \A w \in CustomerWallets : rows.balance[w] = rows.net[w] /\ rows.balance[w] >= 0
  /\ Balanced(rows.net)

DatasetsAreSound == \A seed \in DOMAIN seeded : DatasetIsSound(seeded[seed])

TreasuryIsCovered == \A cur \in Currencies : treasury[cur] >= 0

\* A snapshot is the treasury as it is, unless the run has missed a commit.
SnapshotsAreFresh ==
  \A s \in Runs :
    phase[s] \in Generating \cup {"generated"} \cup Writing /\ ~Stale(s)
      => "treasury" \in missed[s] \/ draft[s].start = treasury

\* So is what a remittance has read, and no TRUNCATE gets in before its end.
ReadingsAreFresh ==
  \A x \in Remitters :
    /\ reading[x].rows \subseteq TreasuryRows(x)
    /\ reading[x].rows # {} => present
    /\ \A cur \in reading[x].rows \ reading[x].overtaken :
         reading[x].balance[cur] = treasury[cur]

\* Accounts a run has not heard of came since it looked.
NewcomersAreMissed ==
  \A s \in Runs :
    phase[s] \in {"truncated", "checked", "generated"} \cup Generating \cup Writing /\ AnyAccount
      => "accounts" \in missed[s]

LocksAreExclusive ==
  /\ \A s \in Runs : locked[s] # {} => Open(s)
  /\ \A s, t \in Runs : s # t => locked[s] \cap locked[t] = {}
  /\ \A s \in Runs : phase[s] = "posted" => Stale(s) \/ locked[s] = Currencies

AbsentTreasury == ~present => tnet = Zero

CommittedIsThere ==
  \A s \in Runs : phase[s] \in Validating =>
    config[s].seed \in DOMAIN seeded \/ "reset" \in missed[s]

\* The treasury ids a run has loaded are there until the next truncation.
LoadedIdsExist ==
  \A s \in Runs :
    phase[s] \in Generating \cup {"generated"} \cup Writing =>
      ids[s] <= truncations /\ (ids[s] = truncations => present)

\* The entries of a run whose treasury is gone name no treasury wallet.
PostedNamesExist ==
  \A s \in Runs : phase[s] = "posted" => ~Stale(s) \/ draft[s].touched = {}

IInv ==
  /\ TypeOK
  /\ DraftsAreSound
  /\ DatasetsAreSound /\ TreasuryIsCovered
  /\ SnapshotsAreFresh /\ ReadingsAreFresh /\ LoadedIdsExist /\ PostedNamesExist
  /\ NewcomersAreMissed
  /\ LocksAreExclusive
  /\ AbsentTreasury
  /\ TreasuryAddsUp
  /\ CommittedIsThere
  /\ PassedReportsAreTrue

=============================================================================
