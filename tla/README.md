# Money across borders: TLA+ models and proofs

A verification project for the money-across-borders API: TLA+ modules
translated from its TypeScript and SQL, TLC configurations that check them on
small instances, and TLAPS proofs of what must hold on every instance. Paths
are relative to the repository root; `application/`, `domain/`, `infra/`,
`interfaces/` and `main/` are the directories of its `src/`.

## 1. The system

An Express API over Postgres, with Redis for idempotency, RabbitMQ and Kafka
fed from an outbox table, MongoDB for KYC dossiers and Elasticsearch for search.

| Component | State | Operations | Talks to |
|---|---|---|---|
| Send remittance (`send-remittance-use-case.ts`, `postgres-unit-of-work.ts`, `pg.ts`) | one transaction and one pool client per request | `execute` / `doExecute` | wallets, ledger, compliance, rates, outbox, all by awaited calls with the transaction open |
| Wallets (`wallet.ts`, `postgres-wallet-repository.ts`) | balance per (account, currency) | find, credit, debit, save (absolute upsert) | Postgres |
| Ledger (`ledger-service.ts`, `postgres-ledger-repository.ts`) | append-only entries | `postBalancedEntries` | Postgres |
| Money, fees, rates (`money-value-object.ts`, `exchange-rate-value-object.ts`, `flat-percentage-fee-calculator.ts`, rate providers) | none | arithmetic, `getRate` | an HTTP provider |
| Compliance and KYC (`in-memory-compliance-checker.ts`, `submit-kyc-use-case.ts`) | KYC profile, Mongo dossier | check, submit | Postgres, MongoDB |
| Idempotency (`idempotent-decorator.ts`, three repositories) | an IN_FLIGHT marker or a response per key | claim, findByKey, save, release | Redis (or Postgres, or memory) |
| Outbox and RabbitMQ relay | outbox rows; connection | add, `relayOnce` | Postgres, RabbitMQ |
| account.created consumer | dedupe claims; retry queue, DLQ | `handleMessage`, `processAndAck`, `handleFailure` | RabbitMQ, idempotency store |
| Kafka relay, indexer, search | outbox rows, offsets, index | `relayOnce`, `eachMessage`, search | Kafka, Elasticsearch |
| Accounts, users, wallets opening | rows under unique constraints | `CreateAccountUseCase`, `OpenWalletUseCase`, login | Postgres |
| Resilient HTTP client | attempts, circuit breaker | `request` | the rate provider |
| Shutdown and readiness | signal, timers, closers | drain, close, probe | everything the server opened |
| Concurrency lab | versioned and locked wallets | transfers under each isolation level | Postgres |
| Seed generator | a generated dataset | generate, validate | Postgres, MongoDB |

`PROJECT.json` lists each with its sources and status, and lists the hazards:
what is hard to test here, at the line where it bites.

### Hard behaviours and what makes each component correct

- **Send remittance.** Reads are plain SELECTs at READ COMMITTED; writes are
  absolute balances long afterwards. Hence lost updates, rows locked in role
  order (deadlock), a client held while an HTTP call runs (pool exhaustion) and
  an unknown outcome when the answer to COMMIT is lost. Correct means: the
  ledger, remittances and outbox move together or not at all, no balance is
  negative, a balance differs from its ledger only where a write overwrote
  another, replies are true, and every request ends.
- **Idempotency.** Claim, execution and save are three systems' steps. Correct
  means: one effect per key, answers agree, no key is unusable for ever.
- **Relays and consumers.** No publisher confirms, no claim of a row, dedupe by
  a claim that a crash can leave behind. Correct means: every committed event
  is delivered, processed at least once and observed once, or is in the DLQ.
- **Accounts, wallets, KYC.** Check-then-insert races decided by constraints; a
  profile in Postgres and its dossier in Mongo without a transaction over both.
  Correct means: each email and each (account, currency) has one owner, answers
  are true, a signup leaves all its rows or none, and the dossier is that of the
  profile.
- **HTTP client, shutdown.** Timers race answers. Callers of a half-open circuit
  wait for one trial with their transactions open, each under a client of the pool; requests beyond the
  pool's size queue without a timeout; a client may go away and leave its handler
  running; a drain races the force-exit timer. Correct means: a call has a longest
  duration, only the handler of a client that went away meets a closed pool or Redis,
  a clean exit cuts off no transaction, and the exit is forced only for one of five
  causes: a server that hangs, a query that a probe left behind, a connection kept
  alive, a call that waited for another's trial, a request that waited for a client.
- **Concurrency lab.** Five techniques on one row, which may run beside each other
  and beside production's own read-then-write. Correct means: which of them lose
  updates, beside which, is known.
- **Seed generator.** One long run between a snapshot of the treasury and a commit
  that writes it back. Correct means: no wallet is overdrawn by rounding or
  scaling, the treasury adds up, and a run never adds to a database it should have
  refused.

## 2. Modules

| Module | What it is |
|---|---|
| `Money` | fee, conversion, rounding |
| `SendRemittance` | the use case, unit of work, pool, row locks, tables |
| `RemittanceJournal` | abstract: whole balanced postings, each with its event |
| `AtomicTransfers` | abstract: each remittance happens at one instant |
| `SendRemittanceProofs` | its theorems |
| `IdempotentRequests` | the decorator and its store |
| `OnceOnly` | abstract: one execution per key, one answer |
| `IdempotentRequestsProofs` | its theorems |
| `OutboxRelays` | the outbox table and the relays of both brokers |
| `AccountCreatedConsumer` | work queue, retry queue, DLQ, dedupe entries, the consumer |
| `RemittanceIndexer` | the topic, the group's position and offset, the index |
| `EventDelivery` | the three composed: what sending means, faults, fairness |
| `EventJourney` | abstract: committed, sent, then marked or acted on, never back |
| `EventDeliveryProofs` | its theorems |
| `Onboarding` | signup, login, opening wallets, KYC submissions |
| `Registry` | abstract: a name is granted once, refusals are justified |
| `OnboardingProofs` | its theorems |
| `WalletTechniques` | the concurrency lab: every technique on one row |
| `WalletTechniquesProofs` | its theorems |
| `RateClient` | the resilient HTTP client: breaker, retries, timeouts |
| `Server` | connections, readiness probe and graceful shutdown around it |
| `ServerProofs` | lemmas of the client; theorems of both |
| `SeedOptions` | the seed's configuration and how targets scale it |
| `SeedDataset` | the generation of a dataset |
| `SeedRun` | guard, reset, snapshot, write transaction, validation |
| `SeedRunProofs` | its theorems |
| `SumTheorems` | what the models' sums over sets are, and induction over finite sets |
| `MC...` | instances of the module of that name for TLC |

A module that `EXTENDS` another shares its variables and adds to them: `Server` runs
`RateClient`'s calls, `SeedRun` commits `SeedDataset`'s drafts, `EventDelivery`
composes three modules.

### SendRemittance

`pc[r]` is the statement the request's promise waits on; each statement of
`doExecute` is one action, so other requests run between any two. `seen[r]` are
the balances the `Wallet` entities carry, `converted[r]` the amount the recipient
gets, `checkedOut` the pool's clients. A transaction's uncommitted work is
`pending` (rows inserted), `dirty` and `lock` (a wallet row's new balance and its
lock). `balance`, `ledger`, `remittances`, `outbox`, `verified` are the committed
tables. `version`, `seenVersion`, `overwritten` are history: the code keeps
nothing of the sort, and no guard reads them. `Uses(w)` are the committed
remittances that wrote a wallet, each with the role it had it in.

Abstractions: the ledger table is the sum of each wallet's entries; the KYC
profile is one bit; the pure computation between reads and writes is at
the statement that follows it (`PostLedger`: legs, debits and the balance check);
one remittance is one request, identified with its generated UUID. External
parts are Postgres' row locks and deadlock detector (`WaitsFor`, `Deadlocked`,
`AbortDeadlocked`); a detected deadlock may abort any member of the cycle. The
faults are a rejected rate call, a connection lost before COMMIT, and a COMMIT
that is applied without an answer. Rates are exact fractions: rounding of the
product is modelled, the error of an IEEE double is not. The schema's
`CHECK (balance_minor_units >= 0)` is left out on purpose: the balances are
shown non-negative without it.

### IdempotentRequests

`phase[a]` is where the decorator's `execute` is; `store[k]` the Redis entry.
`claim` and `findByKey` are separate round trips. The use case behind is reduced
to its visible step, committing, or to throwing. `ClaimsExpire` chooses between
Redis (EX 30, EX 86400) and the stores without expiry; `Faults` chooses what may
go wrong. The marker carries no owner in the code; the field `by` and the
variable `lost` are history.

### EventDelivery

Composes three modules that share no variable; each action of theirs leaves the
others' variables to `EventDelivery`.

`OutboxRelays`: a relay is `polling`, `sending` the row its loop is at, or
`marking` it; `batch[b]` is what is left of the rows it read. Rows are numbered
by `created_at` and may commit in any order. `channel` is the RabbitMQ relay's
memoised channel: `none`, `open`, or `dead` once the broker closed it, since
nothing clears `connectPromise`.

`AccountCreatedConsumer`: a copy is one message. `at[c]` is its queue, or the await
its `handleMessage` is at; there is no prefetch, so copies are handled
concurrently. `event[c]` is its messageId (the outbox row), `retries[c]` its
`x-retry-count`. `store[e]` is the event's Redis entry. `claim` and the
`findByKey` after a refused one are one step: both answers of `findByKey` lead
to the same ack. `handleFailure` sends the next copy and acks this one without
an await in between, so it moves the copy; `CrashUnacked` is a connection that breaks
between the two frames. A rejection of `void handleMessage(...)` is unhandled
and ends the Node process: it is a restart, which requeues what was not
acked and leaves the entries in Redis. `deaf` is a channel that was closed
gracefully: amqplib emits `close`, for which nobody listens, and later calls
throw. `effects`, `failures`, `orphaned`, `forgotten` and `lost` are history.

`RemittanceIndexer`: the topic has one partition. `position` is where the
consumer is, `offset` what the group committed; a group without an offset starts
at the end (`fromBeginning: false`).

External parts, modelled as the code relies on them: RabbitMQ's redelivery and
dead-lettering by TTL, amqplib's closed channels, kafkajs' offset commits.
Left out: messages without a messageId (no wired sender makes one), the length of
delays, more than one process per relay or consumer (Compose starts one of each),
and a broker that loses messages it stored.

### Onboarding

`phase[r]` is the statement a request waits on; `asks` is what arrives. A row is named
after the request that generates its id. `pending[s]` are the rows an open signup
transaction has inserted, `rows[s]` the committed ones. `findByEmail` and the insert
are separate steps; an insert of an email that an open transaction holds waits for
its end and fails if it committed, as a unique index does. Login reads the user and
then the account in two statements; its password check is an equality of
secrets. The comment at `login-use-case.ts:36-41` expects a user without an account
because there is "no unit-of-work across the two saves"; signup has one by
now, and `AnswersAreTrue` shows that the branch is not reached. `profiles` is Postgres,
`dossiers` Mongo, replaced by profile id after the upsert, where a failure is
logged and the customer still answered as verified. `tangled` marks accounts with
overlapping submissions, `unarchived` those whose last content Mongo never took:
two racing first submissions generate two profile ids, the upsert keeps one of
them, and the loser's dossier stays under an id no profile has, although
`mongo-kyc-dossier-repository.ts:20-22` expects one dossier per account.

### WalletTechniques

`mix` gives each writer a technique and a delta. Autocommitted statements are
single steps that need the row's lock to be free; transactions hold `lock` and
`dirty` from their first write, or from `SELECT ... FOR UPDATE`. A snapshot's write
fails when the row was committed to since its read (`SerializationFailure`); a
version check that matches no row is a `conflict`, which its caller retries.
`readCommitted` is the plain read-then-write of the isolation test, and what
`PostgresWalletRepository.save` does in production. `revision`, `total`,
`applied`, `stale` are history. The `version` column is bumped by the
optimistic repository only: `LostUpdatesAreExplained` says what follows from it.

### RateClient and Server

Time is discrete and does not pass over a timer that is due, so "in time" is a
matter of counting ticks; `age` counts those of a call. A call is `entering` the
breaker, `waiting` for a trial, `attempting`, in `backoff`, or `ended`. Jitter is
a choice. The breaker is cockatiel's, modelled as `resilient-http-client.ts` uses
it: the half-open circuit admits one trial, whoever comes meanwhile awaits it and
then executes anew. `Remaining[k]` is the longest time from attempt k on, given
as a constant and defined by `RemainingAssumption`; `CallBound` is its first value.

`Server` puts requests on connections: a request claims its key in Redis, waits for
a client of the pool (`connecting`), works in its transaction, may ask for a rate
meanwhile, gives the client back, saves and answers. The pool is pg's with its
defaults: `PoolSize` clients (10), no timeout for those who queue, and a client is
held for the whole transaction, the rate call included
(`postgres-unit-of-work.ts:11`). pg-pool serves its queue in order; the model lets
any of those who wait be next, which includes that order.

A client that goes away in the middle of a request (`Abort`) closes its socket and
nobody tells the handler, which runs on as one of the `gone`. `server.close()` waits for
sockets, so it does not wait for them: `pool.end()` and `quit()` may follow while such a
handler runs. From the moment they are called they refuse what comes later; who is
queued for a client at that moment is never served, and who has one is waited
for. The comment at `server.ts:194-195`, that nothing in flight loses its database,
is thus true of requests whose client is still there; the errors of the others are those
that `docs/known-issues.md:63-67` names.

A probe is a `SELECT 1` with a timeout, which needs a client as well; a probe that
times out leaves its query in the pool (`query`, `Leaked`), and `pool.end()` waits for
it. `closing` is the step shutdown is at, `force` what
is left of its timer; signals after the first are ignored. `hung` servers no longer answer;
`closeFails` is a step whose `close()` rejects, after which the next one runs all the same.
`delayed` is history. The process may end between any two steps of a request by a
forced exit; what that means for its rows and its key is in
`SendRemittance` and `IdempotentRequests`, as lost connections and crashes.

### SeedOptions, SeedDataset, SeedRun

`draft[s]` is the dataset a run builds in memory: `balance` is what it will write to
the wallets and `net` what its entries add up to, kept apart as in the code. Random
draws are choices: who is verified, who holds which currencies, what each wallet
asks for, who sends how much to whom. Funding scales what is asked to 60 % of
the treasury; a conversion is capped by 90 % of the destination treasury, with the
fee still that of the amount drawn; a top-up takes at most half. Generation touches only
the run's own memory, so nothing else is interleaved with it.

The database of `SeedRun` is the committed one: datasets by seed (the seed
decides every id, so two runs of one seed collide on primary keys), the treasury
with ids that change with each truncation (`gen_random_uuid()`), its entries, and
accounts of the application.

The application's remittances are what else moves the treasury. A remittance reads the
treasury's rows with a plain SELECT (`ReadTreasury`,
`send-remittance-use-case.ts:87-90`) and saves absolute balances later (`Settle`,
`:189-196`): its fee, and across currencies the principal out of one treasury wallet
and into another. `reading` holds what an open remittance has read, with the rows
that somebody else has written since (`overtaken`); `sent` the remittances that
committed. Two things are abstracted. From its first save to its COMMIT a
remittance is one step here: what its statements do to each other, one by one, is the
subject of `SendRemittance`, and a deadlock between it and a run ends one of them
(`DeadlockVictim`, `RemittanceFails`). And only strangers remit, to each other:
remittances of seeded customers after their run are left out. TRUNCATE waits for open
remittances, whose SELECTs hold the table.

What the model shows of the code:

- The treasury balances are written as absolute values, by runs from the snapshot
  and by remittances from what they read: what somebody else committed meanwhile is
  overwritten, and the validation leaves treasury wallets out. A run erases a fee, a
  remittance erases a run's funding, and two remittances lose one of their fees.
  `overwritten` names exactly this in `TreasuryAddsUp`.
- `--reset` truncates in a statement that commits by itself. A crash before the
  migration leaves no treasury, and the next plain run passes the clean check and
  fails when it loads the treasury. Another run's ids are gone: its `UPDATE`
  matches no row and its entries fail the foreign key.
- Two plain runs with different seeds may both pass the clean check and both
  commit, although `docs/seed.md:83-86` has the second one refused.
  `CommitsAreExplained` says that this takes a commit after the check.

## 3. Runs

| Run | Instance | What it shows |
|---|---|---|
| `remittance` | 2 requests, 8 bodies: same-currency, converted, self, to the treasury, over the limit, missing wallets; one KYC submission; all faults | the invariants of the tables, the inductive invariant (which has the ledger's balance per currency in it), who can overwrite whom, refinement of the journal, and of atomic transfers until a balance is overwritten |
| `remittance_live` | 3 requests that cross each other between two currencies, pool of 2, an underfunded sender | every request ends, with rate calls held under a client while others queue for it; drift with three parties |
| `remittance_self` | 1 request | **violation**: a self-transfer makes money the ledger lacks |
| `remittance_disjoint` | 2 requests, 4 customers | **violation**: the shared treasury wallet loses an update |
| `idempotency` | 3 attempts, 2 keys, every fault | duplicates need a lost claim; answers agree; no key stays claimed; `OnceOnly` is implemented until a claim is lost |
| `idempotency_save_fails` | 2 attempts | **violation**: a rejected save lets a retry run again |
| `event_delivery` | 1 account event, 2 remittance events, 1 retry, all 12 kinds of fault | events are lost, duplicated, dead-lettered or unsearchable only in the ways named; all settle; `EventJourney` is implemented; the inductive invariant |
| `event_delivery_dropped` | 1 event, 1 consumer | **violation**: a crash after the claim drops the event |
| `onboarding` | 3 signups for one or two emails and a login; 2 openings of one or of two wallets; 3 submissions for one account or 2 for two; lost connections, Mongo failures | one owner per name, true answers, dossiers, all answered; `Registry` is implemented |
| `lab` | 3 writers, all 125 mixes of the techniques, debits that need the others' credits or are not covered | which techniques lose updates, beside which; everyone ends |
| `server` | 2 connections, pool of 1, clients that go away, 2 attempts, threshold 1, one hung server, all 6 kinds of fault | calls end in time, only handlers of clients that went away meet a closed pool or Redis, forced exits have a cause, the process ends |
| `seed` | 2 runs with 4 pairs of configurations (a full run beside a refused reset in production; a small one beside the same seed, another seed with a contention pool, or a reset), 2 customers, 2 currencies, 2 remittances of the application, one of them across currencies | the treasury adds up, wallets are covered, validation blames no run for its own data, refusals happen |

Bounds. Each of the behaviours asked about needs at most two parties (a lost
update, a lock cycle, a duplicate) or three (a waiter beside a cycle; a
duplicate, its original and an observer), and the instances have that many. Balances are such that one
payment passes and a second one does not; amounts include the limit plus one.
Nothing in the models counts without bound: each request is sent once, and a
retry is a further attempt. Two requests over 8 bodies already need every lock
order and every stale read; the proofs below remove the bounds.

Onboarding's scenarios are the overlaps that share something: three signups for one
email have a winner, one that waits and one that finds the row; three
submissions have two that overlap and one that comes after. The lab's third writer
is there to come between the read and the write of the second while the first is under way.
`server` scales the configured times down in their order (attempt < call <
shutdown timeout < call after a trial; reset timeout > call), which is all its
properties depend on, as the proofs show; with a threshold of one the circuit
opens, half-opens and closes within two calls, and a connection makes any number
of requests. A pool of one (10 in the code) makes the second of two requests queue,
behind a rate call too. `MAX_HUNG` bounds how many servers hang, `Probers` which
connections carry probes. `seed` has one remittance per
customer and one percentage, enough for a conversion the treasury cannot afford;
one pair of customers' rounding is not all rounding, and larger draws are
not explored. Both its runs start once. `Remitters` bounds the application's
remittances: each is sent until it has committed once; two of them overtake each other and
a run in every order. The full run (two customers, two wallets) is paired with a run
that is refused and so meets the remittances alone; the pairs that both write are
small ones, for the sake of the number of states.

Deadlock is checked except in `remittance_live`. There it is off because
`EveryRequestEnds` is stronger: a state where a request waits and nothing can
happen is a counterexample to it. `Idle` is the stutter of a system whose
requests are all answered.

Fairness. `WF(Progress(r))`: Node's event loop resumes a promise whose I/O is
done, Postgres answers, grants a free row lock and aborts a member of a lock
cycle (`deadlock_timeout`), and the rate call has timeouts. A request that waits
for a client is only weakly fair too: pg's queue is first-in first-out, and
with finitely many requests weak fairness suffices. Faults are never owed. In
`IdempotentRequests` `WF(ClaimExpires(k))` is Redis' own expiry. In
`EventDelivery` the relays poll for ever, and Docker restarts a worker that dies
(`restart: unless-stopped`); a copy in the hands of the worker, in its queue or under
its TTL moves on (`WF(Handle(c))`), the indexer subscribes and reads. Offset
commits, new rows and faults are never owed. In `Onboarding` statements are
answered and an insert that waits for an email goes on when its holder ends. In
`WalletTechniques` free locks are granted and callers retry conflicts; a retry ends
because a conflict is another's committed write. In `Server` time passes, statements of
servers that are not hung are answered, a client of the pool that is free goes to one who
waits for it, and due timers fire; a hung server stays so, one who queues for a client of
a pool that is ending waits for ever,
and `ShutdownEnds` holds all the same by the force-exit timer. `SeedRun` states no
liveness: a run may crash at any point and nothing restarts it.
`AccountEventsSettle` excuses a
process on a dead channel: nothing in the code ends that state.

### Findings

- `remittance_self`: `sender = recipient` in one currency is not refused. Both
  roles read the same row and both write it: the second write wins and the
  account gains the amount for free.
- `remittance_disjoint`: `docs/invariants.md` says remittances over different
  wallets are independent; they all share a treasury row. `OverwritesAreShared` is what holds
  instead: a wallet is overwritten only where two committed remittances share it,
  the treasury's rows included, or one has it in two roles.
- `idempotency_save_fails`: `save()` is inside the decorator's `try`; its
  rejection releases the claim of an execution that has committed.

- `event_delivery_dropped`: the ADR on the outbox promises that a crash delays
  an account event and never drops it. A redelivery of an event whose claim the
  crash left in Redis is acked at `account-created-consumer.ts:122`; when the claim
  expires there is no copy left.

`event_delivery` shows what else its excuses stand for: a message that is not
confirmed before its row is marked (`lost`), a relay or consumer that stays on a
dead channel, an index call that fails (`missed`), and messages sent before the
group first committed an offset (`skipped`). An effect happens twice only when a
save that failed after it had its claim released, or when an entry expired while
copies were left (`forgotten`).

`DuplicatesNeedLostClaim` names the other ways to a duplicate: a crash between
commit and save followed by the 30 s expiry, an execution slower than the
expiry, the loss of an answer to COMMIT, a response older than a day. The same
run's states include the slow attempt whose release deletes its successor's
marker.

## 4. Proofs

Assumptions are the named ASSUMEs of the modules and, in
`EventDeliveryProofs` and `IdempotentRequestsProofs`, those that some theorems state:
nothing is assumed about how many requests, accounts, bodies, rates, events or
keys there are, and of the wallets only that they are finitely many.

**SendRemittance.** `IInv` is inductive. `NonNegativeBalances` alone is not: a
commit writes `dirty`, so `dirty` has to be non-negative, which holds because it is
`NewBalance` of the lock's holder (`LockedByWriter`), whose reads were non-negative
and whose debits were checked at `PostLedger` and never change afterwards
(`ChecksHold`). `DriftOnlyFromOverwrites` needs in addition that a read whose
version is current equals the balance (`FreshRead`) and that a writer holds the
locks of everything it wrote (`WritesLocked`). `RepliesAreTrue` needs the rows a
phase has inserted (`InsertsMatchPhase`). From it: `TypeCorrect`,
`BalancesNeverNegative`, `DriftNeedsOverwrite`, `RepliesTrue`, `LimitHolds`, and
`JournalImplemented`: initial states map to initial states, the two committing
actions to `Settle` and every other action to a stutter. `AtomicTransfersImplemented`
follows from it: while nothing is overwritten balance and ledger agree before and
after a commit, so the balances move as the ledger does.

`OverwritesAlwaysShared` says who does the overwriting. A read that is no longer
current was replaced by a commit, and a commit replaces only the rows it has
locked, which its own roles name (`LockedByWriter`); so a stale read of a wallet
means a committed remittance that uses it (`ReplacedByUse`), and it is not the reader,
who is still running. Together with `DriftNeedsOverwrite`: the balance of a
wallet that only one remittance uses, in one role, is exact.

`LedgerHolds` is about a sum over the committed remittances: a commit adds its
posting once, to a set it was not in, and no request changes what it converted
once it has ended. `LedgerAlwaysBalanced` adds up the other way, over the wallets of
a currency: each leg counts at its one wallet, so a posting's share of the
currency is what the ledger's own check compares with zero (`PostingSum`), and a
conversion has to balance in both currencies. `MoneyAlwaysConserved` follows for every
currency none of whose wallets was overwritten. `EveryPostingBalances` says that
the ledger's check never refuses what the use case posts, for any body and rate.

**IdempotentRequests.** `IInv` says of every key whose claim was not lost that
the store's entry names the only attempt executing or committed (`ClaimInForce`).
From it `DuplicatesNeedLoss` and `AnswersAgree` under all faults, and
`OnceWithoutExpiry`: if claims do not expire and neither a commit goes
unanswered nor a save fails, a key has at most one effect (`AtMostOneEffect`),
crashes at any point included. That is the Postgres store's case. `OnceOnlyImplemented`
maps each step to the promise: a commit finds its key without effect, a save and a
replay answer with the key's one effect, and only an attempt that was not
answered yet can be (`Unanswered`).

**EventDelivery.** `NothingDropped` speaks of marked rows, and is inductive only
with the rows about to be marked (`SentIsKept`). What a relay sent must stay
kept whatever the worker does, which is shown once per action as `KeepsEvents`:
the only step that gives up a copy unprocessed is the ack of a duplicate, and an
entry without effect belongs to another copy or is orphaned (`ClaimsAreHeld`).
`ProcessedOnce` needs that an entry in force admits one handler (`OneHandler`),
`DeadLettersWereRetried` that a copy's retry count never exceeds its event's
failures and lags them while a failure is being handled (`RetriesWereFailures`).
`SearchMissesAreKnown` is inductive with types. From `IInv`: `NothingIsDropped`,
`EventsAreProcessedOnce`, `DeadLettersUsedTheirRetries`,
`SearchMissesAreAlwaysKnown`, for any number of events, copies, retries and
faults.

`JourneyImplemented` maps every step to one of `EventJourney` or a stutter. What was
`sent` there is what was handed over: to a copy, to RabbitMQ which lost it, or to
the topic. A copy never becomes unsent again, so it only grows; a row is promised
only after it was handed over, and only what was handed over has effects
(`JourneyInOrder`). A second effect is a step of the journey only for events that may be
acted on again, which is `OneHandler` once more.

Two theorems say which faults the broken promises need. `OthersNeverDrop`: without the
faults in `Dropping` (a worker that ends while it holds a claim, a message that
was not confirmed) no account event is dropped, whatever else fails; the finding's
crash is one of them. It follows from `NothingIsDropped`, since nothing is lost or
orphaned then. `OthersNeverRepeat`: without those in `Forgetting` no event is processed
twice, although relays crash, rows are sent again and handlers fail. It rests on
`ClaimsFollowHandlers`: a marker is in Redis exactly while one copy holds it, and a
handler that fails has had no effect. Both are theorems without a run: the run's
instance has every fault, and `event_delivery_dropped` shows that one in `Dropping` is enough.

**Onboarding.** `AnswersAreTrue` is inductive with what an open signup has inserted
(`SignupsMatchPhases`), one holder per email over committed and open rows
(`OneHolder`), and what a login knows of the user it found. From it
`AnswersAlwaysTrue`, `SignupsAlwaysWhole`, and `RegistryImplemented`: a commit or an
insert registers the name, a refusal meets a name that is owned, everything else
stutters; `OneHolder` makes the registry's owner unique. `DossiersFollowProfiles` needs
`KycInv`: ids stay with their accounts (`IdsAreOwn`), and as long as an account's
submissions do not overlap, the one under way knows the profile as it is (`InOrder`).

**WalletTechniques.** `BalanceAddsUp` needs that a write is computed from what was
read (`WritesAreComputed`) and that a read of the newest revision is the row
(`FreshReadsAreTheRow`). `LostUpdatesAreExplained` needs that a locked or
snapshot read stays fresh while its lock is held (`LockedReadsAreFresh`), and that
equal versions of different revisions mean an unversioned write
(`SameVersionIsExplained`). Both hold for any number of writers and any mix.

**RateClient, Server.** `CallsEndInTime` is shown by a budget: at every step what
a call has used, its timer, and what its remaining attempts may take stay within
`CallBound`, plus one `CallBound` if it waited (`Budget`). That nobody waits twice
is the hard part: the trial is the oldest of those that wait for it
(`TrialLeads`), and when it ends the circuit is closed, or open with its rest ahead
(`WaitersSettle`), because a call takes less than the reset timeout
(`ResetAssumption`). Forced exits are two clocks compared: while requests drain, and
while the pool does, under which handlers of clients that went away may still work, what
is left of the force timer covers what is left of every call and probe (`Drains`, with
`DrainAssumption`), hence time is left when nothing hindered the shutdown (`TimeIsLeft`).
A request that queues for a client has all of its call ahead of it, so the claim holds
until time passes over the queue, which `delayed` records: n waves of calls may take n times
`CallBound`, and the timeout covers one. `DependenciesOutliveRequests` needs that a
socket stays open until its handler responds or its client goes, and, for the clean exit,
that `pool.end()` waits for every client checked out and hands out no more
(`PoolIsDrained`).
The relations between the timeouts are assumptions with names, and the
configured defaults satisfy them. `PowersAssumption` says that a backoff is a natural number,
since the provers know nothing of powers.

**SeedRun.** `TreasuryAddsUp` rests on the drafts: a draft's balances are its start
plus its entries (part of `DraftsAreSound`), through every scaled funding, remittance and top-up,
because both sides of a posting move alike. A snapshot is the treasury as it is, or
the run has missed a commit (`SnapshotsAreFresh`); what a remittance has read is the
row as it is, or the row was overtaken (`ReadingsAreFresh`), so a balance that is
saved over an unchanged row moves it by what the entries say; the row locks keep it so between the
updates and the commit (`LocksAreExclusive`); ids that are stale change nothing
(`LoadedIdsExist`, `PostedNamesExist`). `CommitsAlwaysExplained` follows from
`NewcomersAreMissed`.

`DraftsAlwaysCovered`: no customer wallet of a draft is ever below zero, and neither is a
treasury's. Funding grants each wallet a rounded share of a budget, and what is
granted stays within it because shares are rounded down (`GrantedWithinBudget`, by
the sum's monotonicity); a conversion is cut to what the destination treasury
affords, and the amount cut back and converted again does not exceed it although both
steps round (`AffordableConversion`); the treasury a run starts from is covered because
what others commit is (`TreasuryIsCovered`). The entries of a draft balance per
currency posting by posting (`SameLegsBalance`, `CrossLegsBalance`), so
`ValidationOnlyBlamesOthers`: a run fails its validation only when the application has
opened an account (whose opening balance no entry explains) or another's reset has
taken the treasury, never for its own data.

**SumTheorems.** The models add up with `SumFunctionOnSet` of the community
modules, a recursive function on the subsets of a set. An induction theorem that takes
a predicate is of no use to the provers, so the induction is on sets: a set of
naturals with 0 and every successor has them all, because its complement would have a
least member (`NaturalSetInduction`), and from it `FiniteSetInduction` over the subsets
of a finite set. With them: the function exists (`TableExists`), the order in which
it takes elements does not matter (`SumTakeOut`), and sums are typed, monotone and
additive. Nothing is assumed; the `CHOOSE` in the library's definition is shown to have a witness.

Only model-checked: liveness (`EveryRequestEnds`, `NoWedgedKey`,
`AccountEventsSettle`, `RemittancesReachSearch`, `EveryRequestIsAnswered`,
`EveryWriterEnds`, `ShutdownEnds`), which is out of the prover's reach. Every
safety property of the passing runs is a theorem.

## 5. Not modelled

- Routes, request validation, Swagger, logging, metrics and tracing: stateless
  mappings and reports. JWTs are the account they name.
- Adapters that no factory wires, and in-memory test doubles.
- `findById` reads and the mapping of entities to rows: data.
- `buildApp`'s boot order: its checks run before anything else does.
- User status: always active in the code, so the inactive branch has no state.
- RabbitMQ messages without a messageId, which no wired sender makes; a broker
  that loses what it stored; several processes per relay.
- IEEE doubles: rates, percentages and jitter are exact fractions; the rounding to
  minor units is modelled.
- Remittances that seeded customers send after their run: they would move customer
  wallets that the model takes from the drafts. What they do to the treasury is what the
  strangers' remittances do.
- Of the seed: names, timestamps, the idempotency demo rows, the request file of the
  contention pool, the text of the report, and checks of the validation that hold
  of every draft the model can build. `outbox_events` is not truncated by a
  reset and nothing here reads it.

## 6. What is left

1. `SendRemittance` behind `IdempotentRequests`, with the commit as the effect and
   `Server`'s forced exit as the crash: today each has the other's visible steps
   as faults of its own.
2. The seed's scaling against larger draws, with rounding of doubles as a choice.
