-------------------------- MODULE WalletTechniques --------------------------
(***************************************************************************)
(* The concurrency lab: one row of wallets, written by the techniques of   *)
(* WalletLockRepository, WalletOptimisticRepository and                    *)
(* runInIsolatedTransaction, alone or mixed.  "readCommitted" is the plain *)
(* read-then-write of the isolation test, which is also what production's  *)
(* PostgresWalletRepository.save does to the row.                          *)
(*                                                                         *)
(* atomic and optimistic writes are single autocommitted statements; the   *)
(* others hold the row lock from their first write (FOR UPDATE: from their *)
(* read) to the end of their transaction.  A statement that needs the lock *)
(* waits for it and then sees the newest committed row.                    *)
(*                                                                         *)
(* revision counts the row's committed writes; it, applied, total and      *)
(* stale are history.                                                      *)
(***************************************************************************)
EXTENDS Integers

CONSTANTS
  Writers,          \* each changes the balance once, by its delta
  NoWriter,
  Mixes,            \* the technique and delta of each writer
  InitialBalance

Technique == {"atomic", "pessimistic", "optimistic", "readCommitted", "snapshot"}

ASSUME WritersAssumption == NoWriter \notin Writers
ASSUME MixesAssumption ==
  Mixes \subseteq [technique : [Writers -> Technique], delta : [Writers -> Int]]
ASSUME BalanceAssumption == InitialBalance \in Nat

Ended == {"applied", "refused", "failed"}
Phase == Ended \cup {"start", "read", "written", "conflict"}

VARIABLES
  mix,
  phase, seen,                \* the writers: where each is, what it read
  balance, version,           \* the committed row
  lock, dirty,                \* its lock and uncommitted balance
  revision, total, applied, stale

row == <<balance, version, revision, total, applied, stale>>
vars == <<mix, phase, seen, row, lock, dirty>>

Snapshot == [balance : Nat, version : Nat, revision : Nat]

Init ==
  /\ mix \in Mixes
  /\ phase = [w \in Writers |-> "start"]
  /\ seen = [w \in Writers |-> [balance |-> 0, version |-> 0, revision |-> 0]]
  /\ balance = InitialBalance /\ version = 0
  /\ lock = NoWriter /\ dirty = 0
  /\ revision = 0 /\ total = 0 /\ applied = {} /\ stale = {}

Goto(w, here, next) == phase[w] = here /\ phase' = [phase EXCEPT ![w] = next]
Uses(w, techniques) == mix.technique[w] \in techniques
Computed(w) == seen[w].balance + mix.delta[w]

\* A write of w becomes visible: what it puts in the row, whether it bumps the
\* version, and whether it was computed from a row that others have replaced.
Apply(w, newBalance, bump, isStale) ==
  /\ balance' = newBalance
  /\ version' = version + bump
  /\ revision' = revision + 1
  /\ total' = total + mix.delta[w]
  /\ applied' = applied \cup {w}
  /\ stale' = IF isStale THEN stale \cup {w} ELSE stale

-----------------------------------------------------------------------------
(* Autocommitted statements *)

\* debitAtomic, creditAtomic: the WHERE clause and the new balance are
\* evaluated on the row the statement locked.
AtomicUpdate(w) ==
  /\ Uses(w, {"atomic"})
  /\ lock = NoWriter
  /\ balance + mix.delta[w] >= 0
  /\ Goto(w, "start", "applied")
  /\ Apply(w, balance + mix.delta[w], 0, FALSE)
  /\ UNCHANGED <<mix, seen, lock, dirty>>

\* No row matched.
AtomicRefused(w) ==
  /\ Uses(w, {"atomic"})
  /\ lock = NoWriter
  /\ balance + mix.delta[w] < 0
  /\ Goto(w, "start", "refused")
  /\ UNCHANGED <<mix, seen, row, lock, dirty>>

\* Mistake: the version is not part of the WHERE clause.
UpdateOptimistic_Unchecked(w) ==
  /\ Uses(w, {"optimistic"})
  /\ lock = NoWriter
  /\ Computed(w) >= 0
  /\ Goto(w, "read", "applied")
  /\ Apply(w, Computed(w), 1, seen[w].revision # revision)
  /\ UNCHANGED <<mix, seen, lock, dirty>>

\* updateBalanceOptimistic
UpdateOptimistic(w) ==
  /\ Uses(w, {"optimistic"})
  /\ lock = NoWriter
  /\ version = seen[w].version
  /\ Computed(w) >= 0
  /\ Goto(w, "read", "applied")
  /\ Apply(w, Computed(w), 1, seen[w].revision # revision)
  /\ UNCHANGED <<mix, seen, lock, dirty>>

\* Mistake: the row count is ignored.
VersionConflict_Ignored(w) ==
  /\ Uses(w, {"optimistic"})
  /\ lock = NoWriter
  /\ version # seen[w].version
  /\ Goto(w, "read", "applied")
  /\ Apply(w, balance, 0, FALSE)
  /\ UNCHANGED <<mix, seen, lock, dirty>>

VersionConflict(w) ==
  /\ Uses(w, {"optimistic"})
  /\ lock = NoWriter
  /\ version # seen[w].version
  /\ Goto(w, "read", "conflict")
  /\ UNCHANGED <<mix, seen, row, lock, dirty>>

-----------------------------------------------------------------------------
(* Reads and transactions *)

Read(w) ==
  /\ Goto(w, "start", "read")
  /\ seen' = [seen EXCEPT ![w] =
                [balance |-> balance, version |-> version, revision |-> revision]]
  /\ UNCHANGED <<mix, row, dirty>>

\* A plain SELECT; under REPEATABLE READ and SERIALIZABLE it fixes the snapshot.
Select(w) ==
  /\ Uses(w, {"optimistic", "readCommitted", "snapshot"})
  /\ Read(w)
  /\ UNCHANGED lock

\* Mistake: the SELECT has no FOR UPDATE.
SelectForUpdate_Unlocked(w) ==
  /\ Uses(w, {"pessimistic"})
  /\ Read(w)
  /\ UNCHANGED lock

\* findByIdForUpdate waits for the lock.
SelectForUpdate(w) ==
  /\ Uses(w, {"pessimistic"})
  /\ lock = NoWriter
  /\ Read(w)
  /\ lock' = w

\* setBalance, or the isolation test's UPDATE.  A snapshot that is no longer
\* the newest row gets 40001 instead.
Write(w) ==
  /\ Uses(w, {"pessimistic", "readCommitted", "snapshot"})
  /\ lock \in {w, NoWriter}
  /\ Uses(w, {"snapshot"}) => seen[w].revision = revision
  /\ Computed(w) >= 0
  /\ Goto(w, "read", "written")
  /\ lock' = w
  /\ dirty' = Computed(w)
  /\ UNCHANGED <<mix, seen, row>>

Unlock(w) ==
  /\ lock' = IF lock = w THEN NoWriter ELSE lock
  /\ dirty' = IF lock = w THEN 0 ELSE dirty

SerializationFailure(w) ==
  /\ Uses(w, {"snapshot"})
  /\ lock = NoWriter
  /\ seen[w].revision # revision
  /\ Goto(w, "read", "conflict")
  /\ UNCHANGED <<mix, seen, row, lock, dirty>>

\* CHECK (balance_minor_units >= 0)
CheckViolation(w) ==
  /\ lock \in {w, NoWriter}
  /\ Computed(w) < 0
  /\ Goto(w, "read", "refused")
  /\ Unlock(w)
  /\ UNCHANGED <<mix, seen, row>>

Commit(w) ==
  /\ Goto(w, "written", "applied")
  /\ Apply(w, dirty, 0, seen[w].revision # revision)
  /\ Unlock(w)
  /\ UNCHANGED <<mix, seen>>

\* Mistake: runInIsolatedTransaction without its catch.
Rollback_Forgotten(w) ==
  /\ \/ Goto(w, "read", "failed")
     \/ Goto(w, "written", "failed")
  /\ UNCHANGED <<mix, seen, row, lock, dirty>>

\* work() throws and the transaction is rolled back, or its connection dies.
Rollback(w) ==
  /\ \/ Goto(w, "read", "failed")
     \/ Goto(w, "written", "failed")
  /\ Unlock(w)
  /\ UNCHANGED <<mix, seen, row>>

\* The caller reads again and retries.
Retry(w) ==
  /\ Goto(w, "conflict", "start")
  /\ UNCHANGED <<mix, seen, row, lock, dirty>>

Idle ==
  /\ \A w \in Writers : phase[w] \in Ended
  /\ UNCHANGED vars

Progress(w) ==
  \/ AtomicUpdate(w) \/ AtomicRefused(w)
  \/ Select(w) \/ UpdateOptimistic(w) \/ VersionConflict(w)
  \/ SelectForUpdate(w) \/ Write(w) \/ SerializationFailure(w)
  \/ CheckViolation(w) \/ Commit(w)
  \/ Retry(w)

Next == Idle \/ \E w \in Writers : Progress(w) \/ Rollback(w)

Spec == Init /\ [][Next]_vars

\* Locks are granted when free, and callers retry; rollbacks are not owed.
FairSpec == Spec /\ \A w \in Writers : WF_vars(Progress(w))

-----------------------------------------------------------------------------
(* Properties *)

TypeOK ==
  /\ mix \in Mixes
  /\ phase \in [Writers -> Phase]
  /\ seen \in [Writers -> Snapshot]
  /\ balance \in Nat /\ version \in Nat /\ revision \in Nat /\ dirty \in Nat
  /\ lock \in Writers \cup {NoWriter}
  /\ total \in Int
  /\ applied \subseteq Writers /\ stale \subseteq applied

\* Until a stale balance is written, the row is the sum of the writes that
\* were reported as applied, however the techniques are mixed.
BalanceAddsUp == stale = {} => balance = InitialBalance + total

Unversioned == {w \in applied : mix.technique[w] # "optimistic"}

\* A lost update has a known culprit: a plain read-then-write, or a version
\* check that runs beside a technique that does not bump the version.
\* Locks, atomic updates and snapshots never lose one, whatever runs beside
\* them.
LostUpdatesAreExplained ==
  \A w \in stale :
    \/ Uses(w, {"readCommitted"})
    \/ Uses(w, {"optimistic"}) /\ Unversioned # {}

\* Every writer ends: a conflict means somebody else's write went through, so
\* retrying is not forever, and every lock is given back.
EveryWriterEnds == <>(\A w \in Writers : phase[w] \in Ended)

-----------------------------------------------------------------------------
(* The inductive invariant *)

Holding(w) ==
  \/ phase[w] = "written"
  \/ phase[w] = "read" /\ Uses(w, {"pessimistic"})

\* The lock is its holder's, from the first write or a read FOR UPDATE.
LocksAreHeld == \A w \in Writers : Holding(w) <=> lock = w

WritesAreComputed ==
  \A w \in Writers :
    /\ phase[w] = "read" => ~Uses(w, {"atomic"})
    /\ phase[w] = "written" =>
         /\ dirty = Computed(w)
         /\ Uses(w, {"pessimistic", "readCommitted", "snapshot"})

ReadsArePast ==
  \A w \in Writers : seen[w].revision <= revision /\ seen[w].version <= version

\* A read of the newest revision is the row.
FreshReadsAreTheRow ==
  \A w \in Writers :
    phase[w] \in {"read", "written"} /\ seen[w].revision = revision =>
      seen[w].balance = balance /\ seen[w].version = version

\* Under its lock a read stays so.
LockedReadsAreFresh ==
  \A w \in Writers :
    lock = w /\ Uses(w, {"pessimistic", "snapshot"}) => seen[w].revision = revision

\* Equal versions of different revisions: an unversioned write came between.
SameVersionIsExplained ==
  \A w \in Writers :
    /\ phase[w] = "read" /\ Uses(w, {"optimistic"})
    /\ seen[w].revision # revision /\ seen[w].version = version
    => Unversioned # {}

IInv ==
  /\ TypeOK
  /\ LocksAreHeld /\ WritesAreComputed
  /\ ReadsArePast /\ FreshReadsAreTheRow /\ LockedReadsAreFresh
  /\ SameVersionIsExplained
  /\ BalanceAddsUp
  /\ LostUpdatesAreExplained

=============================================================================
