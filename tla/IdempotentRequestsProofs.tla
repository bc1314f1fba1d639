---------------------- MODULE IdempotentRequestsProofs ----------------------
(***************************************************************************)
(* For any number of attempts and keys, and whatever faults are allowed:   *)
(* the operation behind a key happens twice only after the key's claim was *)
(* lost, and answers agree until then.                                     *)
(*                                                                         *)
(* The argument is ClaimInForce: as long as a key's claim is not lost, the *)
(* store's entry names the only attempt that is executing or has had the   *)
(* effect.  A claim needs an empty entry, so then nobody executes and      *)
(* nothing was committed; an entry that is dropped while its attempt       *)
(* executes or has committed makes the claim lost.                         *)
(***************************************************************************)
EXTENDS IdempotentRequests, TLAPS

-----------------------------------------------------------------------------
(* Types *)

\* The two kinds of entry the code writes are entries, and not the empty one.
LEMMA EntryType ==
  ASSUME NEW a \in Attempts, NEW kind \in {"inFlight", "response"}
  PROVE  Entry(kind, a) \in Entries /\ Entry(kind, a) # NoEntry
BY DEF Entry, Entries, NoEntry

\* The types hold at the start.
LEMMA TypeInit == Init => TypeOK
BY DEF Init, TypeOK, Phase, Running, Over, Entries, NoEntry

\* Dropping an entry keeps the store and the history typed.
LEMMA DropType ==
  ASSUME TypeOK, NEW k \in Keys, Drop(k)
  PROVE  store' \in [Keys -> Entries] /\ lost' \subseteq Keys
BY DEF Drop, TypeOK, Entries

\* Every action keeps the types.
LEMMA TypeStep == TypeOK /\ [Next]_vars => TypeOK'
<1> SUFFICES ASSUME TypeOK, [Next]_vars PROVE TypeOK'
  OBVIOUS
<1> USE DEF TypeOK, Phase, Running, Over
<1>1. ASSUME NEW a \in Attempts, Progress(a) PROVE TypeOK'
  <2>1. CASE Claim(a)
    BY <2>1, EntryType DEF Claim, Goto, SetInFlight
  <2>2. CASE ClaimRefused(a) \/ Conflict(a) \/ Commit(a) \/ Throw(a)
    BY <2>2 DEF ClaimRefused, Conflict, Commit, Throw, Goto
  <2>3. CASE Replay(a)
    <3>1. store[key[a]].by \in Attempts
      BY <2>3 DEF Replay, Entries, NoEntry, Entry
    <3> QED BY <2>3, <3>1 DEF Replay, Goto
  <2>4. CASE Save(a)
    BY <2>4, EntryType DEF Save, Goto
  <2>5. CASE Release(a)
    <3>1. key[a] \in Keys
      OBVIOUS
    <3>2. store' \in [Keys -> Entries] /\ lost' \subseteq Keys
      BY <2>5, <3>1, DropType DEF Release, DeleteIfInFlight
    <3> QED BY <2>5, <3>2 DEF Release, Goto
  <2> QED BY <1>1, <2>1, <2>2, <2>3, <2>4, <2>5 DEF Progress
<1>2. ASSUME NEW a \in Attempts, Fault(a) PROVE TypeOK'
  <2>1. CASE ClaimUnanswered(a)
    BY <2>1, EntryType DEF ClaimUnanswered, Goto, SetInFlight
  <2>2. CASE SaveFails(a)
    BY <2>2, EntryType DEF SaveFails, Goto
  <2>3. CASE ReleaseFails(a) \/ Crash(a)
    BY <2>3 DEF ReleaseFails, Crash, Goto
  <2> QED BY <1>2, <2>1, <2>2, <2>3 DEF Fault
<1>3. ASSUME NEW k \in Keys, ClaimExpires(k) \/ ResponseExpires(k) PROVE TypeOK'
  <2>1. store' \in [Keys -> Entries] /\ lost' \subseteq Keys
    BY <1>3, DropType DEF ClaimExpires, ResponseExpires
  <2> QED BY <1>3, <2>1 DEF ClaimExpires, ResponseExpires
<1>4. CASE Idle \/ UNCHANGED vars
  BY <1>4 DEF Idle, vars
<1> QED BY <1>1, <1>2, <1>3, <1>4 DEF Next

\* Type correctness: phases, keys, replies, entries and the history keep
\* their types whatever is interleaved or fails.
THEOREM TypeCorrect == Spec => []TypeOK
BY TypeInit, TypeStep, PTL DEF Spec

-----------------------------------------------------------------------------
(* The claim *)

Steps(a) ==
  \/ Claim(a) \/ ClaimRefused(a) \/ Replay(a) \/ Conflict(a)
  \/ Commit(a) \/ Throw(a) \/ Save(a) \/ Release(a)
  \/ ClaimUnanswered(a) \/ SaveFails(a) \/ ReleaseFails(a) \/ Crash(a)

\* A step is a step of one attempt, an expiry, or changes nothing.
LEMMA StepKinds ==
  ASSUME [Next]_vars
  PROVE  \/ \E a \in Attempts : Steps(a)
         \/ \E k \in Keys : ClaimExpires(k) \/ ResponseExpires(k)
         \/ UNCHANGED vars
BY DEF Next, Progress, Fault, Idle, Steps

\* No step gives a key to another attempt, takes an effect back or finds a lost
\* claim again.
LEMMA HistoryGrows ==
  ASSUME TypeOK, [Next]_vars
  PROVE  key' = key /\ committed \subseteq committed' /\ lost \subseteq lost'
<1>1. ASSUME NEW a \in Attempts, Steps(a)
      PROVE  key' = key /\ committed \subseteq committed' /\ lost \subseteq lost'
  BY <1>1 DEF Steps, Claim, ClaimRefused, Replay, Conflict, Commit, Throw, Save, Release,
       ClaimUnanswered, SaveFails, ReleaseFails, Crash, DeleteIfInFlight, Drop
<1>2. ASSUME NEW k \in Keys, ClaimExpires(k) \/ ResponseExpires(k)
      PROVE  key' = key /\ committed \subseteq committed' /\ lost \subseteq lost'
  BY <1>2 DEF ClaimExpires, ResponseExpires, Drop
<1> QED BY <1>1, <1>2, StepKinds DEF vars

\* An entry dropped without a loss leaves nobody executing and nothing done.
LEMMA DropInForce ==
  ASSUME TypeOK, NEW k \in Keys, Drop(k), k \notin lost', ClaimInForce(k)
  PROVE  /\ \A a \in Attempts : key[a] = k => phase[a] # "executing"
         /\ Effects(k) = {}
<1>1. k \notin lost
  BY DEF Drop
<1>2. store[k].by \notin committed /\ phase[store[k].by] # "executing"
  BY DEF Drop, TypeOK
<1>3. ASSUME NEW a \in Attempts, key[a] = k, phase[a] = "executing" PROVE FALSE
  <2>1. store[k] = Entry("inFlight", a)
    BY <1>3 DEF ClaimInForce
  <2>2. store[k].by = a
    BY <2>1 DEF Entry
  <2> QED BY <1>2, <1>3, <2>2
<1>4. ASSUME NEW a \in Effects(k) PROVE FALSE
  BY <1>2, <1>4 DEF ClaimInForce, Effects
<1> QED BY <1>3, <1>4

\* The phases know whether the effect has been had.
LEMMA PhaseStep ==
  ASSUME TypeOK, \A b \in Attempts : PhaseMatchesEffect(b), [Next]_vars, NEW b \in Attempts
  PROVE  PhaseMatchesEffect(b)'
<1> USE DEF TypeOK, PhaseMatchesEffect
<1>1. ASSUME NEW a \in Attempts, Steps(a) PROVE PhaseMatchesEffect(b)'
  <2>1. CASE Claim(a) \/ ClaimRefused(a) \/ Replay(a) \/ Conflict(a) \/ ClaimUnanswered(a)
    BY <2>1 DEF Claim, ClaimRefused, Replay, Conflict, ClaimUnanswered, Goto
  <2>2. CASE Commit(a) \/ Throw(a)
    BY <2>2 DEF Commit, Throw, Goto
  <2>3. CASE Save(a) \/ SaveFails(a) \/ Release(a) \/ ReleaseFails(a) \/ Crash(a)
    BY <2>3 DEF Save, SaveFails, Release, ReleaseFails, Crash, Goto
  <2> QED BY <1>1, <2>1, <2>2, <2>3 DEF Steps
<1>2. ASSUME NEW k \in Keys, ClaimExpires(k) \/ ResponseExpires(k)
      PROVE  PhaseMatchesEffect(b)'
  BY <1>2 DEF ClaimExpires, ResponseExpires
<1> QED BY <1>1, <1>2, StepKinds DEF vars

\* A claim in force stays in force until it is lost.
LEMMA ClaimStep ==
  ASSUME IInv, [Next]_vars, NEW k \in Keys, k \notin lost'
  PROVE  ClaimInForce(k)'
<1>1. TypeOK /\ k \notin lost /\ ClaimInForce(k) /\ key' = key
  BY HistoryGrows DEF IInv
<1>2. \A a \in Attempts : PhaseMatchesEffect(a)
  BY DEF IInv
<1> DEFINE Named(b) ==
      /\ key[b] = k /\ phase'[b] = "executing" => store'[k] = Entry("inFlight", b)
      /\ b \in committed' /\ key[b] = k => store'[k] # NoEntry /\ store'[k].by = b
<1> SUFFICES ASSUME NEW b \in Attempts PROVE Named(b)
  BY <1>1, TypeStep DEF ClaimInForce, Effects, IInv, TypeOK
<1>3. /\ key[b] = k /\ phase[b] = "executing" => store[k] = Entry("inFlight", b)
      /\ b \in committed /\ key[b] = k => store[k] # NoEntry /\ store[k].by = b
  BY <1>1 DEF ClaimInForce, Effects
<1>4. ASSUME NEW a \in Attempts, Steps(a) PROVE Named(b)
  <2>1. CASE Claim(a)
    <3>1. store[key[a]] = NoEntry /\ store' = [store EXCEPT ![key[a]] = Entry("inFlight", a)]
          /\ committed' = committed /\ phase' = [phase EXCEPT ![a] = "executing"]
      BY <2>1 DEF Claim, Goto, SetInFlight
    <3> QED BY <1>1, <1>2, <1>3, <3>1 DEF TypeOK, PhaseMatchesEffect, Entry, NoEntry
  <2>2. CASE ClaimUnanswered(a)
    <3>1. store[key[a]] = NoEntry /\ store' = [store EXCEPT ![key[a]] = Entry("inFlight", a)]
          /\ committed' = committed /\ phase' = [phase EXCEPT ![a] = "failed"]
      BY <2>2 DEF ClaimUnanswered, Goto, SetInFlight
    <3> QED BY <1>1, <1>3, <3>1 DEF TypeOK, Entry, NoEntry
  <2>3. CASE Commit(a) \/ Throw(a)
    BY <1>1, <1>3, <2>3 DEF Commit, Throw, Goto, TypeOK, Entry, NoEntry
  <2>4. CASE Save(a) \/ SaveFails(a)
    <3>1. a \in committed /\ phase[a] = "saving"
      BY <1>2, <2>4 DEF Save, SaveFails, Goto, PhaseMatchesEffect
    <3>2. key[a] = k => store[k].by = a /\ store[k] # NoEntry
      BY <1>1, <3>1 DEF ClaimInForce, Effects
    <3> QED BY <1>1, <1>3, <2>4, <3>1, <3>2 DEF Save, SaveFails, Goto, TypeOK, Entry, NoEntry
  <2>5. CASE Release(a)
    <3>1. Drop(key[a]) \/ store' = store
      BY <2>5 DEF Release, DeleteIfInFlight
    <3>2. CASE store' = store
      BY <1>1, <1>3, <2>5, <3>2 DEF Release, Goto, TypeOK
    <3>3. CASE Drop(key[a])
      <4>1. CASE key[a] = k
        BY <1>1, <2>5, <3>3, <4>1, DropInForce DEF Release, Goto, TypeOK, Effects
      <4>2. CASE key[a] # k
        BY <1>1, <1>3, <2>5, <3>3, <4>2 DEF Release, Goto, TypeOK, Drop
      <4> QED BY <4>1, <4>2
    <3> QED BY <3>1, <3>2, <3>3
  <2>6. CASE ClaimRefused(a) \/ Replay(a) \/ Conflict(a) \/ ReleaseFails(a) \/ Crash(a)
    BY <1>1, <1>3, <2>6 DEF ClaimRefused, Replay, Conflict, ReleaseFails, Crash, Goto, TypeOK
  <2> QED BY <1>4, <2>1, <2>2, <2>3, <2>4, <2>5, <2>6 DEF Steps
<1>5. ASSUME NEW j \in Keys, ClaimExpires(j) \/ ResponseExpires(j) PROVE Named(b)
  <2>1. Drop(j) /\ phase' = phase /\ committed' = committed
    BY <1>5 DEF ClaimExpires, ResponseExpires
  <2>2. CASE j = k
    BY <1>1, <2>1, <2>2, DropInForce DEF Effects
  <2>3. CASE j # k
    BY <1>1, <1>3, <2>1, <2>3 DEF Drop, TypeOK
  <2> QED BY <2>2, <2>3
<1> QED BY <1>3, <1>4, <1>5, StepKinds DEF vars

\* What the store and the answers name: attempts of the key, and for a response
\* one whose effect is committed.
Names ==
  /\ \A k \in Keys : store[k] # NoEntry => key[store[k].by] = k
  /\ \A k \in Keys : store[k].kind = "response" => store[k].by \in committed
  /\ \A a \in Attempts : reply[a] # NoAttempt => reply[a] \in Effects(key[a])

\* Every step keeps what entries and answers name.
LEMMA NamesStep == IInv /\ [Next]_vars => Names'
<1> SUFFICES ASSUME IInv, [Next]_vars PROVE Names'
  OBVIOUS
<1>1. TypeOK /\ key' = key /\ committed \subseteq committed'
  BY HistoryGrows DEF IInv
<1>2. \A a \in Attempts : PhaseMatchesEffect(a)
  BY DEF IInv
<1>3. Names
  BY DEF IInv, Names
<1> USE DEF TypeOK
<1>4. ASSUME NEW a \in Attempts, Steps(a) PROVE Names'
  <2>1. CASE Claim(a) \/ ClaimUnanswered(a)
    BY <1>1, <1>3, <2>1
    DEF Claim, ClaimUnanswered, SetInFlight, Names, Effects, Entry, NoEntry
  <2>2. CASE Save(a) \/ SaveFails(a)
    <3>1. a \in committed
      BY <1>2, <2>2 DEF Save, SaveFails, Goto, PhaseMatchesEffect
    <3> QED BY <1>1, <1>3, <2>2, <3>1 DEF Save, SaveFails, Names, Effects, Entry, NoEntry
  <2>3. CASE Replay(a)
    <3>1. store[key[a]] # NoEntry /\ store[key[a]].by \in Effects(key[a])
      BY <1>1, <1>3, <2>3 DEF Replay, Names, Effects, NoEntry, Entry
    <3> QED BY <1>1, <1>3, <2>3, <3>1 DEF Replay, Names, Effects
  <2>4. CASE Release(a)
    BY <1>1, <1>3, <2>4
    DEF Release, DeleteIfInFlight, Drop, Names, Effects, Entry, NoEntry
  <2>5. CASE \/ ClaimRefused(a) \/ Conflict(a) \/ Commit(a) \/ Throw(a)
             \/ ReleaseFails(a) \/ Crash(a)
    BY <1>1, <1>3, <2>5
    DEF ClaimRefused, Conflict, Commit, Throw, ReleaseFails, Crash, Names, Effects
  <2> QED BY <1>4, <2>1, <2>2, <2>3, <2>4, <2>5 DEF Steps
<1>5. ASSUME NEW k \in Keys, ClaimExpires(k) \/ ResponseExpires(k) PROVE Names'
  BY <1>1, <1>3, <1>5
  DEF ClaimExpires, ResponseExpires, Drop, Names, Effects, Entry, NoEntry
<1> QED BY <1>3, <1>4, <1>5, StepKinds DEF vars, Names, Effects

\* The invariant holds at the start.
LEMMA InvInit == Init => IInv
<1> SUFFICES ASSUME Init PROVE IInv
  OBVIOUS
<1>1. TypeOK
  BY TypeInit
<1> QED BY <1>1 DEF Init, IInv, ClaimInForce, PhaseMatchesEffect, Effects, NoEntry, Entry

\* The invariant is inductive.
LEMMA InvStep == IInv /\ [Next]_vars => IInv'
<1> SUFFICES ASSUME IInv, [Next]_vars PROVE IInv'
  OBVIOUS
<1>1. TypeOK' /\ Names'
  BY TypeStep, NamesStep DEF IInv
<1>2. \A a \in Attempts : PhaseMatchesEffect(a)'
  BY PhaseStep DEF IInv
<1>3. \A k \in Keys \ lost' : ClaimInForce(k)'
  BY ClaimStep
<1> QED BY <1>1, <1>2, <1>3 DEF IInv, Names

\* The inductive invariant: the entry of a claim that is in force names the one
\* attempt that may have the effect, through every interleaving and fault.
THEOREM InvariantHolds == Spec => []IInv
BY InvInit, InvStep, PTL DEF Spec

\* A key's operation happens twice only after its claim or response was dropped
\* while its attempt was still executing or had committed.
THEOREM DuplicatesNeedLoss == Spec => []DuplicatesNeedLostClaim
<1>1. IInv => DuplicatesNeedLostClaim
  BY DEF IInv, ClaimInForce, DuplicatesNeedLostClaim
<1> QED BY <1>1, InvariantHolds, PTL

\* Every successful answer is the result of a committed execution of its own
\* key, and the answers of a key whose claim was not lost are the same.
THEOREM AnswersAgree == Spec => []RepliesAgree
<1>1. IInv => RepliesAgree
  BY DEF IInv, TypeOK, ClaimInForce, RepliesAgree
<1> QED BY <1>1, InvariantHolds, PTL

-----------------------------------------------------------------------------
(* A store whose claims do not expire *)

\* The failures that release the claim of an execution that has committed.
Uncertain == {"commitUnanswered", "saveFails"}

\* Every running attempt holds its key's claim, a failing one has done nothing,
\* and so no claim is ever lost.
ClaimHeld ==
  /\ \A a \in Attempts : phase[a] \in Running => store[key[a]] = Entry("inFlight", a)
  /\ \A a \in Attempts : phase[a] = "releasing" => a \notin committed
  /\ lost = {}

\* Nothing runs and nothing is lost at the start.
LEMMA ClaimHeldInit == Init => ClaimHeld
BY DEF Init, ClaimHeld, Running

\* ClaimHeld is inductive on top of IInv.
LEMMA ClaimHeldStep ==
  ASSUME ~ClaimsExpire, Faults \cap Uncertain = {}, IInv, ClaimHeld, [Next]_vars
  PROVE  ClaimHeld'
<1>1. TypeOK /\ \A a \in Attempts : PhaseMatchesEffect(a)
  BY DEF IInv
<1>2. "saveFails" \notin Faults /\ "commitUnanswered" \notin Faults
  BY DEF Uncertain
<1>0. \A b \in Attempts : phase[b] \in Running =>
        store[key[b]].kind = "inFlight" /\ store[key[b]].by = b
  <2>1. \A b \in Attempts :
          Entry("inFlight", b).kind = "inFlight" /\ Entry("inFlight", b).by = b
    BY DEF Entry
  <2>2. \A b \in Attempts : phase[b] \in Running => store[key[b]] = Entry("inFlight", b)
    BY DEF ClaimHeld
  <2> QED BY <2>1, <2>2
<1> USE DEF TypeOK, ClaimHeld, Running
<1>3. ASSUME NEW a \in Attempts, Steps(a) PROVE ClaimHeld'
  <2>1. CASE Claim(a) \/ ClaimUnanswered(a)
    <3>1. store[key[a]] = NoEntry
          /\ store' = [store EXCEPT ![key[a]] = Entry("inFlight", a)]
      BY <2>1 DEF Claim, ClaimUnanswered, SetInFlight
    <3>2. \A b \in Attempts : phase[b] \in Running => key[b] # key[a]
      <4>1. store[key[a]].kind = "none"
        BY <3>1 DEF Entry, NoEntry
      <4> QED BY <1>0, <4>1
    <3> QED BY <1>1, <2>1, <3>1, <3>2 DEF Claim, ClaimUnanswered, Goto
  <2>2. CASE Save(a)
    <3>1. \A b \in Attempts : b # a /\ phase[b] \in Running => key[b] # key[a]
      BY <1>0, <2>2 DEF Save, Goto
    <3> QED BY <1>1, <2>2, <3>1 DEF Save, Goto
  <2>3. CASE Release(a)
    <3>1. store[key[a]] = Entry("inFlight", a) /\ a \notin committed
      BY <2>3 DEF Release, Goto
    <3>2. store[key[a]].kind = "inFlight" /\ store[key[a]].by = a
      BY <3>1 DEF Entry
    <3>3. Drop(key[a]) /\ phase[a] = "releasing"
      BY <2>3, <3>2 DEF Release, DeleteIfInFlight, Goto
    <3>4. store' = [store EXCEPT ![key[a]] = NoEntry] /\ lost' = lost
      BY <1>1, <3>1, <3>2, <3>3 DEF Drop
    <3>5. \A b \in Attempts : b # a /\ phase[b] \in Running => key[b] # key[a]
      BY <1>0, <3>2
    <3> QED BY <1>1, <2>3, <3>4, <3>5 DEF Release, Goto
  <2>4. CASE SaveFails(a)
    BY <1>2, <2>4 DEF SaveFails
  <2>5. CASE Commit(a) \/ Throw(a)
    BY <1>1, <1>2, <2>5 DEF Commit, Throw, Goto, PhaseMatchesEffect
  <2>6. CASE ClaimRefused(a) \/ Replay(a) \/ Conflict(a) \/ ReleaseFails(a) \/ Crash(a)
    BY <1>1, <2>6 DEF ClaimRefused, Replay, Conflict, ReleaseFails, Crash, Goto
  <2> QED BY <1>3, <2>1, <2>2, <2>3, <2>4, <2>5, <2>6 DEF Steps
<1>4. ASSUME NEW k \in Keys, ClaimExpires(k) \/ ResponseExpires(k) PROVE FALSE
  BY <1>4 DEF ClaimExpires, ResponseExpires
<1> QED BY <1>3, <1>4, StepKinds DEF vars

\* With a store that forgets nothing (Postgres, in-memory), and as long as a
\* commit is answered and a save succeeds, one key has at most one effect: a
\* crash at any point, a lost claim answer or a failed release cannot double it.
THEOREM OnceWithoutExpiry ==
  ASSUME ~ClaimsExpire, Faults \cap Uncertain = {}
  PROVE  Spec => []AtMostOneEffect
<1>1. IInv /\ ClaimHeld => AtMostOneEffect
  BY DEF IInv, ClaimInForce, ClaimHeld, AtMostOneEffect
<1>2. IInv /\ ClaimHeld /\ [Next]_vars => ClaimHeld'
  BY ClaimHeldStep
<1> QED BY <1>1, <1>2, ClaimHeldInit, InvariantHolds, PTL DEF Spec

-----------------------------------------------------------------------------
(* The promise: one execution per key, and one answer *)

\* Only who was answered carries a reply.
Unanswered == \A a \in Attempts : phase[a] # "answered" => reply[a] = NoAttempt

\* Replies are set by the two steps that answer.
LEMMA UnansweredStep == TypeOK /\ Unanswered /\ [Next]_vars => Unanswered'
<1> SUFFICES ASSUME TypeOK, Unanswered, [Next]_vars PROVE Unanswered'
  OBVIOUS
<1> USE DEF TypeOK, Unanswered
<1>1. ASSUME NEW a \in Attempts, Steps(a) PROVE Unanswered'
  <2>1. CASE Claim(a) \/ ClaimRefused(a) \/ Replay(a) \/ Conflict(a) \/ ClaimUnanswered(a)
    BY <2>1 DEF Claim, ClaimRefused, Replay, Conflict, ClaimUnanswered, Goto
  <2>2. CASE Commit(a) \/ Throw(a) \/ Save(a) \/ SaveFails(a)
    BY <2>2 DEF Commit, Throw, Save, SaveFails, Goto
  <2>3. CASE Release(a) \/ ReleaseFails(a) \/ Crash(a)
    BY <2>3 DEF Release, ReleaseFails, Crash, Goto
  <2> QED BY <1>1, <2>1, <2>2, <2>3 DEF Steps
<1>2. ASSUME NEW k \in Keys, ClaimExpires(k) \/ ResponseExpires(k) PROVE Unanswered'
  BY <1>2 DEF ClaimExpires, ResponseExpires
<1> QED BY <1>1, <1>2, StepKinds DEF vars

\* What a key's operation was done by, when its claim is in force.
LEMMA DoneInForce ==
  ASSUME IInv, lost = {}, NEW k \in Keys
  PROVE  /\ Effects(k) = {} => Done[k] = NoAttempt
         /\ \A a \in Effects(k) : Done[k] = a
<1>1. ClaimInForce(k) /\ Effects(k) \subseteq Attempts
  BY DEF IInv, TypeOK, Effects
<1>2. \A a, b \in Effects(k) : a = b
  BY <1>1 DEF ClaimInForce
<1> QED BY <1>1, <1>2 DEF Done

\* A commit performs its key's operation, for the first time.
LEMMA CommitPerforms ==
  ASSUME IInv, lost = {}, NEW a \in Attempts, phase[a] = "executing",
         committed' = committed \cup {a}, key' = key, reply' = reply
  PROVE  Promise!Perform(a, key[a])
<1>1. TypeOK /\ a \notin committed /\ ClaimInForce(key[a])
  BY DEF IInv, TypeOK, PhaseMatchesEffect
<1>2. Effects(key[a]) = {}
  <2>1. store[key[a]] = Entry("inFlight", a)
    BY <1>1 DEF ClaimInForce
  <2>2. store[key[a]].by = a
    BY <2>1 DEF Entry
  <2> QED BY <1>1, <2>2 DEF ClaimInForce, Effects
<1>3. Done[key[a]] = NoAttempt
  BY <1>1, <1>2, DoneInForce DEF TypeOK
<1>4. \A k \in Keys : Effects(k)' = IF k = key[a] THEN {a} ELSE Effects(k)
  BY <1>1, <1>2 DEF Effects
<1>5. Done' = [Done EXCEPT ![key[a]] = a]
  <2>1. Done \in [Keys -> Attempts \cup {NoAttempt}]
    BY DEF Done, Effects
  <2>2. Done' = [k \in Keys |-> IF Effects(k)' = {} THEN NoAttempt
                               ELSE CHOOSE b \in Attempts : b \in Effects(k)']
    BY DEF Done
  <2>3. ASSUME NEW k \in Keys PROVE Done'[k] = IF k = key[a] THEN a ELSE Done[k]
    <3>1. CASE k = key[a]
      <4>1. \A b \in Attempts : b \in Effects(k)' <=> b = a
        BY <1>4, <3>1
      <4> QED BY <2>2, <3>1, <4>1
    <3>2. CASE k # key[a]
      <4>1. Effects(k)' = Effects(k)
        BY <1>4, <3>2
      <4>2. CASE Effects(k) = {}
        BY <2>2, <3>2, <4>1, <4>2, DoneInForce
      <4>3. CASE Effects(k) # {}
        <5>1. PICK b \in Effects(k) : TRUE
          BY <4>3
        <5>2. Done[k] = b /\ \A c \in Effects(k) : c = b
          BY <5>1, DoneInForce
        <5>3. b \in Attempts /\ \A c \in Attempts : c \in Effects(k)' <=> c = b
          BY <1>1, <4>1, <5>1, <5>2 DEF Effects, TypeOK
        <5>4. Done'[k] = b
          BY <2>2, <4>1, <4>3, <5>3
        <5> QED BY <3>2, <5>2, <5>4
      <4> QED BY <4>2, <4>3
    <3> QED BY <3>1, <3>2
  <2> QED BY <2>1, <2>2, <2>3
<1> QED BY <1>3, <1>5 DEF Promise!Perform

\* A step that leaves the effects alone and answers with the key's one.
LEMMA ReplyAnswers ==
  ASSUME IInv, Unanswered, lost = {}, NEW a \in Attempts, phase[a] # "answered",
         NEW b \in Effects(key[a]), reply' = [reply EXCEPT ![a] = b],
         committed' = committed, key' = key
  PROVE  Promise!Answer(a, key[a])
<1>1. key[a] \in Keys /\ b # NoAttempt /\ reply[a] = NoAttempt
  BY AttemptsAssumption DEF IInv, TypeOK, Effects, Unanswered
<1>2. Done[key[a]] = b
  BY <1>1, DoneInForce
<1>3. Done' = Done
  BY DEF Done, Effects
<1> QED BY <1>1, <1>2, <1>3 DEF Promise!Answer

\* Until a claim is lost every step is one of the promise, or a stutter.
LEMMA PromiseStep ==
  ASSUME IInv, Unanswered, [Next]_vars, lost' = {}
  PROVE  [Promise!Next]_<<Done, reply>>
<1>1. TypeOK /\ lost = {}
  BY HistoryGrows DEF IInv
<1>2. ASSUME committed' = committed, key' = key, reply' = reply
      PROVE  UNCHANGED <<Done, reply>>
  BY <1>2 DEF Done, Effects
<1>3. ASSUME NEW a \in Attempts, Steps(a) PROVE [Promise!Next]_<<Done, reply>>
  <2>1. key[a] \in Keys
    BY <1>1 DEF TypeOK
  <2>2. CASE Commit(a) \/ Throw(a)
    <3>1. CASE committed' = committed
      BY <1>2, <2>2, <3>1 DEF Commit, Throw
    <3>2. CASE committed' = committed \cup {a}
      BY <1>1, <2>1, <2>2, <3>2, CommitPerforms DEF Commit, Throw, Goto, Promise!Next
    <3> QED BY <2>2, <3>1, <3>2 DEF Commit, Throw
  <2>3. CASE Save(a)
    <3>1. a \in Effects(key[a])
      BY <2>3 DEF IInv, PhaseMatchesEffect, Save, Goto, Effects
    <3> QED BY <1>1, <2>1, <2>3, <3>1, ReplyAnswers DEF Save, Goto, Promise!Next
  <2>4. CASE Replay(a)
    <3>1. store[key[a]].by \in Effects(key[a])
      <4>1. store[key[a]] # NoEntry
        BY <2>4 DEF Replay, NoEntry, Entry
      <4> QED BY <1>1, <2>1, <2>4, <4>1 DEF IInv, TypeOK, Replay, Effects
    <3> QED BY <1>1, <2>1, <2>4, <3>1, ReplyAnswers DEF Replay, Goto, Promise!Next
  <2>5. CASE Claim(a) \/ ClaimRefused(a) \/ Conflict(a) \/ ClaimUnanswered(a)
    BY <1>2, <2>5 DEF Claim, ClaimRefused, Conflict, ClaimUnanswered
  <2>6. CASE SaveFails(a) \/ Release(a) \/ ReleaseFails(a) \/ Crash(a)
    BY <1>2, <2>6 DEF SaveFails, Release, ReleaseFails, Crash
  <2> QED BY <1>3, <2>2, <2>3, <2>4, <2>5, <2>6 DEF Steps
<1>4. ASSUME NEW k \in Keys, ClaimExpires(k) \/ ResponseExpires(k)
      PROVE  UNCHANGED <<Done, reply>>
  BY <1>2, <1>4 DEF ClaimExpires, ResponseExpires
<1>5. CASE UNCHANGED vars
  BY <1>2, <1>5 DEF vars
<1> QED BY <1>3, <1>4, <1>5, StepKinds

\* Under every fault each step performs a key's operation for the first time,
\* answers with the one that did, or changes neither, until a claim is lost.
THEOREM OnceOnlyImplemented == Spec => ImplementsOnceOnly
<1>1. Init => Promise!Init /\ Unanswered
  <2> SUFFICES ASSUME Init PROVE Promise!Init /\ Unanswered
    OBVIOUS
  <2>1. \A k \in Keys : Effects(k) = {}
    BY DEF Init, Effects
  <2> QED BY <2>1 DEF Init, Done, Promise!Init, Unanswered
<1>2. IInv /\ Unanswered /\ [Next]_vars => Unanswered'
  BY UnansweredStep DEF IInv
<1>3. IInv /\ Unanswered /\ [Next]_vars => [Promise!Next \/ lost' # {}]_<<Done, reply>>
  BY PromiseStep
<1> QED BY <1>1, <1>2, <1>3, InvariantHolds, PTL DEF Spec, ImplementsOnceOnly

=============================================================================
