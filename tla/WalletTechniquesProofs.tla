----------------------- MODULE WalletTechniquesProofs -----------------------
(***************************************************************************)
(* For any number of writers, any mix of the techniques and any amounts:   *)
(* which techniques can lose an update, and that the row adds up until one *)
(* is lost.                                                                *)
(*                                                                         *)
(* The argument counts revisions.  A read of the newest revision is the    *)
(* row (FreshReadsAreTheRow), so a write computed from it adds the delta;  *)
(* a write computed from an older one is stale by definition.  What each   *)
(* technique does about it decides who can be stale: under a lock a read   *)
(* stays the newest (LockedReadsAreFresh), a snapshot is refused, and a    *)
(* version that has not moved while the revision has is the work of a      *)
(* writer that does not bump it (SameVersionIsExplained).                  *)
(***************************************************************************)
EXTENDS WalletTechniques, TLAPS

-----------------------------------------------------------------------------
(* Types *)

\* Every writer has a technique and an amount.
LEMMA MixType ==
  ASSUME TypeOK
  PROVE  mix.technique \in [Writers -> Technique] /\ mix.delta \in [Writers -> Int]
BY MixesAssumption DEF TypeOK

\* A balance computed from what was read is a number.
LEMMA ComputedType == ASSUME TypeOK, NEW w \in Writers PROVE Computed(w) \in Int
<1>1. seen[w].balance \in Nat
  BY DEF TypeOK, Snapshot
<1>2. mix.delta[w] \in Int
  BY MixType
<1> QED BY <1>1, <1>2 DEF Computed

Steps(w) == Progress(w) \/ Rollback(w)

\* A step is a step of one writer, or changes nothing.
LEMMA StepKinds ==
  ASSUME [Next]_vars
  PROVE  (\E w \in Writers : Steps(w)) \/ UNCHANGED vars
BY DEF Next, Idle, Steps

\* The types hold at the start.
LEMMA TypeInit == Init => TypeOK
BY BalanceAssumption DEF Init, TypeOK, Phase, Ended, Snapshot

\* Every action keeps the types.
LEMMA TypeStep == TypeOK /\ [Next]_vars => TypeOK'
<1> SUFFICES ASSUME TypeOK, [Next]_vars PROVE TypeOK'
  OBVIOUS
<1> USE DEF TypeOK, Phase, Ended, Goto
<1>1. ASSUME NEW w \in Writers, Steps(w) PROVE TypeOK'
  <2>0. Computed(w) \in Int /\ mix.delta[w] \in Int
    BY ComputedType, MixType
  <2>1. CASE AtomicUpdate(w) \/ UpdateOptimistic(w)
    BY <2>0, <2>1 DEF AtomicUpdate, UpdateOptimistic, Apply
  <2>2. CASE Commit(w)
    BY <2>0, <2>2 DEF Commit, Apply, Unlock
  <2>3. CASE Select(w) \/ SelectForUpdate(w)
    BY <2>3 DEF Select, SelectForUpdate, Read, Snapshot, row
  <2>4. CASE Write(w)
    BY <2>0, <2>4 DEF Write, row
  <2>5. CASE CheckViolation(w) \/ Rollback(w)
    BY <2>5 DEF CheckViolation, Rollback, Unlock, row
  <2>6. CASE AtomicRefused(w) \/ VersionConflict(w) \/ SerializationFailure(w) \/ Retry(w)
    BY <2>6 DEF AtomicRefused, VersionConflict, SerializationFailure, Retry, row
  <2> QED BY <1>1, <2>1, <2>2, <2>3, <2>4, <2>5, <2>6 DEF Steps, Progress
<1>2. CASE UNCHANGED vars
  BY <1>2 DEF vars, row
<1> QED BY <1>1, <1>2, StepKinds

\* Type correctness, whatever is mixed: the balance and the uncommitted
\* balance are never negative, as the CHECK constraint has it.
THEOREM TypeCorrect == Spec => []TypeOK
BY TypeInit, TypeStep, PTL DEF Spec

-----------------------------------------------------------------------------
(* Who holds the lock, and what a read is worth *)

\* Locks belong to those who wrote or read FOR UPDATE, and to nobody else.
LEMMA LockStep == ASSUME IInv, [Next]_vars PROVE LocksAreHeld'
<1> USE DEF IInv, TypeOK, LocksAreHeld, WritesAreComputed, Holding, Goto, Uses
<1>1. ASSUME NEW w \in Writers, Steps(w) PROVE LocksAreHeld'
  <2>1. CASE AtomicUpdate(w) \/ UpdateOptimistic(w)
    BY <2>1 DEF AtomicUpdate, UpdateOptimistic
  <2>2. CASE Commit(w) \/ CheckViolation(w) \/ Rollback(w)
    BY <2>2, WritersAssumption DEF Commit, CheckViolation, Rollback, Unlock
  <2>3. CASE Select(w) \/ SelectForUpdate(w)
    BY <2>3, WritersAssumption DEF Select, SelectForUpdate, Read
  <2>4. CASE Write(w)
    BY <2>4, WritersAssumption DEF Write
  <2>5. CASE AtomicRefused(w) \/ VersionConflict(w) \/ SerializationFailure(w) \/ Retry(w)
    BY <2>5 DEF AtomicRefused, VersionConflict, SerializationFailure, Retry
  <2> QED BY <1>1, <2>1, <2>2, <2>3, <2>4, <2>5 DEF Steps, Progress
<1>2. CASE UNCHANGED vars
  BY <1>2 DEF vars
<1> QED BY <1>1, <1>2, StepKinds

\* What is written and not yet committed was computed from the writer's read.
LEMMA WriteStep == ASSUME IInv, [Next]_vars PROVE WritesAreComputed'
<1> USE DEF IInv, TypeOK, LocksAreHeld, WritesAreComputed, Holding, Goto, Uses, Computed
<1>1. ASSUME NEW w \in Writers, Steps(w) PROVE WritesAreComputed'
  <2>1. CASE AtomicUpdate(w) \/ UpdateOptimistic(w)
    BY <2>1 DEF AtomicUpdate, UpdateOptimistic
  <2>2. CASE Commit(w) \/ CheckViolation(w) \/ Rollback(w)
    BY <2>2, WritersAssumption DEF Commit, CheckViolation, Rollback, Unlock
  <2>3. CASE Select(w) \/ SelectForUpdate(w)
    BY <2>3, WritersAssumption DEF Select, SelectForUpdate, Read
  <2>4. CASE Write(w)
    BY <2>4, WritersAssumption DEF Write
  <2>5. CASE AtomicRefused(w) \/ VersionConflict(w) \/ SerializationFailure(w) \/ Retry(w)
    BY <2>5 DEF AtomicRefused, VersionConflict, SerializationFailure, Retry
  <2> QED BY <1>1, <2>1, <2>2, <2>3, <2>4, <2>5 DEF Steps, Progress
<1>2. CASE UNCHANGED vars
  BY <1>2 DEF vars
<1> QED BY <1>1, <1>2, StepKinds

Reads == ReadsArePast /\ FreshReadsAreTheRow /\ LockedReadsAreFresh

\* No read is of the future, a read of the newest revision is the row, and a
\* lock keeps it so: a revision is only added by whoever may write.
LEMMA ReadStep == ASSUME IInv, [Next]_vars PROVE Reads'
<1> USE DEF IInv, TypeOK, Reads, ReadsArePast, FreshReadsAreTheRow, LockedReadsAreFresh,
        Snapshot, Goto
<1>1. ASSUME NEW w \in Writers, Steps(w) PROVE Reads'
  <2>1. CASE AtomicUpdate(w) \/ UpdateOptimistic(w)
    BY <2>1, WritersAssumption DEF AtomicUpdate, UpdateOptimistic, Apply, Uses
  <2>2. CASE Commit(w)
    BY <2>2, WritersAssumption DEF Commit, Apply, Unlock, Uses, LocksAreHeld, Holding
  <2>3. CASE Select(w) \/ SelectForUpdate(w)
    BY <2>3 DEF Select, SelectForUpdate, Read, row, Uses
  <2>4. CASE Write(w)
    BY <2>4, WritersAssumption DEF Write, row, Uses, LocksAreHeld, Holding
  <2>5. CASE CheckViolation(w) \/ Rollback(w)
    BY <2>5, WritersAssumption DEF CheckViolation, Rollback, Unlock, row, Uses
  <2>6. CASE AtomicRefused(w) \/ VersionConflict(w) \/ SerializationFailure(w) \/ Retry(w)
    BY <2>6 DEF AtomicRefused, VersionConflict, SerializationFailure, Retry, row, Uses
  <2> QED BY <1>1, <2>1, <2>2, <2>3, <2>4, <2>5, <2>6 DEF Steps, Progress
<1>2. CASE UNCHANGED vars
  BY <1>2 DEF vars, row, Uses
<1> QED BY <1>1, <1>2, StepKinds

-----------------------------------------------------------------------------
(* Lost updates *)

\* Techniques do not change, and nobody who has applied a write is forgotten.
LEMMA HistoryGrows ==
  ASSUME TypeOK, [Next]_vars
  PROVE  mix' = mix /\ applied \subseteq applied' /\ Unversioned \subseteq Unversioned'
<1>1. mix' = mix /\ applied \subseteq applied'
  <2>1. ASSUME NEW w \in Writers, Steps(w) PROVE mix' = mix /\ applied \subseteq applied'
    BY <2>1 DEF Steps, Progress, AtomicUpdate, UpdateOptimistic, Commit, Apply, Select,
         SelectForUpdate, Read, Write, CheckViolation, Rollback, AtomicRefused,
         VersionConflict, SerializationFailure, Retry, row
  <2> QED BY <2>1, StepKinds DEF vars, row
<1> QED BY <1>1 DEF Unversioned

\* A revision without a new version is the write of an unversioned technique.
LEMMA VersionStep == ASSUME IInv, [Next]_vars PROVE SameVersionIsExplained'
<1> USE DEF IInv, TypeOK, SameVersionIsExplained, Snapshot, Goto, Uses
<1>0. Unversioned \subseteq Unversioned'
  BY HistoryGrows
<1>1. ASSUME NEW w \in Writers, Steps(w) PROVE SameVersionIsExplained'
  <2>1. CASE AtomicUpdate(w) \/ Commit(w)
    <3>1. mix.technique[w] # "optimistic"
      BY <2>1 DEF AtomicUpdate, Commit, WritesAreComputed
    <3>2. w \in Unversioned'
      BY <2>1, <3>1 DEF AtomicUpdate, Commit, Apply, Unversioned
    <3> QED BY <3>2
  <2>2. CASE UpdateOptimistic(w)
    BY <2>2 DEF UpdateOptimistic, Apply, ReadsArePast
  <2>3. CASE Select(w) \/ SelectForUpdate(w)
    BY <1>0, <2>3 DEF Select, SelectForUpdate, Read, row
  <2>4. CASE Write(w) \/ CheckViolation(w) \/ Rollback(w)
    BY <1>0, <2>4 DEF Write, CheckViolation, Rollback, row
  <2>5. CASE AtomicRefused(w) \/ VersionConflict(w) \/ SerializationFailure(w) \/ Retry(w)
    BY <1>0, <2>5 DEF AtomicRefused, VersionConflict, SerializationFailure, Retry, row
  <2> QED BY <1>1, <2>1, <2>2, <2>3, <2>4, <2>5 DEF Steps, Progress
<1>2. CASE UNCHANGED vars
  BY <1>0, <1>2 DEF vars, row
<1> QED BY <1>1, <1>2, StepKinds

\* A write that is not stale adds its delta to the row.
LEMMA BalanceStep == ASSUME IInv, [Next]_vars PROVE BalanceAddsUp'
<1> USE DEF IInv, TypeOK, BalanceAddsUp, Goto
<1>1. ASSUME NEW w \in Writers, Steps(w) PROVE BalanceAddsUp'
  <2>0. mix.delta[w] \in Int /\ InitialBalance \in Int
    BY MixType, BalanceAssumption
  <2>1. CASE AtomicUpdate(w)
    BY <2>0, <2>1 DEF AtomicUpdate, Apply
  <2>2. CASE UpdateOptimistic(w)
    <3>1. seen[w].revision = revision => Computed(w) = balance + mix.delta[w]
      BY <2>2 DEF UpdateOptimistic, FreshReadsAreTheRow, Computed
    <3> QED BY <2>0, <2>2, <3>1 DEF UpdateOptimistic, Apply
  <2>3. CASE Commit(w)
    <3>1. seen[w].revision = revision => dirty = balance + mix.delta[w]
      BY <2>3 DEF Commit, FreshReadsAreTheRow, WritesAreComputed, Computed
    <3>2. Apply(w, dirty, 0, seen[w].revision # revision)
      BY <2>3 DEF Commit
    <3>3. stale' = {} => stale = {} /\ seen[w].revision = revision
      BY <3>2 DEF Apply
    <3>4. balance' = dirty /\ total' = total + mix.delta[w]
      BY <3>2 DEF Apply
    <3> QED BY <2>0, <3>1, <3>3, <3>4
  <2>4. CASE Select(w) \/ SelectForUpdate(w) \/ Write(w) \/ CheckViolation(w) \/ Rollback(w)
    BY <2>4 DEF Select, SelectForUpdate, Read, Write, CheckViolation, Rollback, row
  <2>5. CASE AtomicRefused(w) \/ VersionConflict(w) \/ SerializationFailure(w) \/ Retry(w)
    BY <2>5 DEF AtomicRefused, VersionConflict, SerializationFailure, Retry, row
  <2> QED BY <1>1, <2>1, <2>2, <2>3, <2>4, <2>5 DEF Steps, Progress
<1>2. CASE UNCHANGED vars
  BY <1>2 DEF vars, row
<1> QED BY <1>1, <1>2, StepKinds

\* Only a plain read-then-write, or a version check beside an unversioned
\* technique, becomes stale.
LEMMA StaleStep == ASSUME IInv, [Next]_vars PROVE LostUpdatesAreExplained'
<1> USE DEF IInv, TypeOK, LostUpdatesAreExplained, Goto, Uses
<1>0. mix' = mix /\ Unversioned \subseteq Unversioned'
  BY HistoryGrows
<1>1. ASSUME NEW w \in Writers, Steps(w) PROVE LostUpdatesAreExplained'
  <2>1. CASE AtomicUpdate(w)
    BY <1>0, <2>1 DEF AtomicUpdate, Apply
  <2>2. CASE UpdateOptimistic(w)
    <3>1. seen[w].revision # revision => Unversioned # {}
      BY <2>2 DEF UpdateOptimistic, SameVersionIsExplained
    <3> QED BY <1>0, <2>2, <3>1 DEF UpdateOptimistic, Apply
  <2>3. CASE Commit(w)
    <3>1. lock = w /\ mix.technique[w] \in {"pessimistic", "readCommitted", "snapshot"}
      BY <2>3 DEF Commit, LocksAreHeld, Holding, WritesAreComputed
    <3>2. seen[w].revision # revision => mix.technique[w] = "readCommitted"
      BY <3>1 DEF LockedReadsAreFresh
    <3> QED BY <1>0, <2>3, <3>2 DEF Commit, Apply
  <2>4. CASE Select(w) \/ SelectForUpdate(w) \/ Write(w) \/ CheckViolation(w) \/ Rollback(w)
    BY <1>0, <2>4 DEF Select, SelectForUpdate, Read, Write, CheckViolation, Rollback, row
  <2>5. CASE AtomicRefused(w) \/ VersionConflict(w) \/ SerializationFailure(w) \/ Retry(w)
    BY <1>0, <2>5 DEF AtomicRefused, VersionConflict, SerializationFailure, Retry, row
  <2> QED BY <1>1, <2>1, <2>2, <2>3, <2>4, <2>5 DEF Steps, Progress
<1>2. CASE UNCHANGED vars
  BY <1>0, <1>2 DEF vars, row
<1> QED BY <1>1, <1>2, StepKinds

\* The invariant holds at the start: nobody has read or written.
LEMMA InvInit == Init => IInv
<1> SUFFICES ASSUME Init PROVE IInv
  OBVIOUS
<1>1. TypeOK
  BY TypeInit
<1>2. LocksAreHeld /\ WritesAreComputed
  BY WritersAssumption DEF Init, LocksAreHeld, WritesAreComputed, Holding
<1>3. Reads
  BY WritersAssumption DEF Init, Reads, ReadsArePast, FreshReadsAreTheRow, LockedReadsAreFresh
<1>4. SameVersionIsExplained /\ BalanceAddsUp /\ LostUpdatesAreExplained
  BY BalanceAssumption DEF Init, SameVersionIsExplained, BalanceAddsUp, LostUpdatesAreExplained
<1> QED BY <1>1, <1>2, <1>3, <1>4 DEF IInv, Reads

\* Every step keeps the invariant.
LEMMA InvStep == IInv /\ [Next]_vars => IInv'
<1> SUFFICES ASSUME IInv, [Next]_vars PROVE IInv'
  OBVIOUS
<1>1. TypeOK'
  BY TypeStep DEF IInv
<1> QED BY <1>1, LockStep, WriteStep, ReadStep, VersionStep, BalanceStep, StaleStep
        DEF IInv, Reads

\* The inductive invariant: locks, computed writes, fresh reads and versions,
\* for every mix of the techniques.
THEOREM InvariantHolds == Spec => []IInv
BY InvInit, InvStep, PTL DEF Spec

\* No mix of techniques, interleaving or rollback makes the row differ from
\* the sum of the applied writes, as long as no stale balance is written.
THEOREM BalanceAlwaysAddsUp == Spec => []BalanceAddsUp
<1>1. IInv => BalanceAddsUp
  BY DEF IInv
<1> QED BY <1>1, InvariantHolds, PTL

\* Row locks, atomic updates and snapshots never lose an update; a version
\* check loses one only beside a technique that does not bump the version.
THEOREM LostUpdatesAlwaysExplained == Spec => []LostUpdatesAreExplained
<1>1. IInv => LostUpdatesAreExplained
  BY DEF IInv
<1> QED BY <1>1, InvariantHolds, PTL

=============================================================================
