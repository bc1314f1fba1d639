------------------------- MODULE IdempotentRequests -------------------------
(***************************************************************************)
(* IdempotentDecorator over RedisIdempotencyRepository.                    *)
(*                                                                         *)
(* An attempt is one HTTP request with an Idempotency-Key; a retry of the  *)
(* client is another attempt with the same key.  The decorator claims the  *)
(* key (SET NX EX 30), runs the use case, saves the response (SET EX 24h)  *)
(* and on any error releases the claim (delete if still IN_FLIGHT).  The   *)
(* use case is its one visible step, the commit, and may instead refuse.   *)
(*                                                                         *)
(* A stored marker carries no owner.  The field "by" and the variable      *)
(* lost are history: no action of the code reads them.                     *)
(***************************************************************************)
EXTENDS Integers

CONSTANTS
  Attempts,
  Keys,
  NoAttempt,
  ClaimsExpire,   \* TRUE for Redis; FALSE for the Postgres and in-memory stores
  Faults          \* what may go wrong, out of FaultKinds

FaultKinds ==
  { "slow",             \* an execution outlives CLAIM_TTL_SECONDS
    "crash",            \* the process dies before its commit
    "crashAfterCommit", \* the process dies between its commit and its save
    "claimUnanswered",  \* Redis applies the claim, the answer is lost
    "commitUnanswered", \* Postgres commits, the answer is lost
    "saveFails",        \* save() rejects
    "releaseFails",     \* release() rejects
    "day" }             \* a response outlives RESPONSE_TTL_SECONDS

ASSUME AttemptsAssumption == NoAttempt \notin Attempts
ASSUME FaultsAssumption == ClaimsExpire \in BOOLEAN /\ Faults \subseteq FaultKinds

VARIABLES
  phase, key, reply,   \* the attempts
  store,               \* Redis: one entry per key
  committed,           \* Postgres: the attempts whose effect is committed
  lost                 \* history: keys whose claim went while it still mattered

vars == <<phase, key, reply, store, committed, lost>>

Running == {"executing", "saving", "releasing"}
Over == {"answered", "conflict", "failed", "dead"}
Phase == Running \cup Over \cup {"received", "lookup"}

Entry(kind, a) == [kind |-> kind, by |-> a]
NoEntry == Entry("none", NoAttempt)
Entries == {NoEntry} \cup [kind : {"inFlight", "response"}, by : Attempts]

Goto(a, here, next) == phase[a] = here /\ phase' = [phase EXCEPT ![a] = next]

Init ==
  /\ phase = [a \in Attempts |-> "received"]
  /\ key \in [Attempts -> Keys]
  /\ reply = [a \in Attempts |-> NoAttempt]
  /\ store = [k \in Keys |-> NoEntry]
  /\ committed = {}
  /\ lost = {}

-----------------------------------------------------------------------------
(* The repository *)

\* Mistake: SET without NX.
SetInFlight_Overwrites(a) ==
  store' = [store EXCEPT ![key[a]] = Entry("inFlight", a)]

\* SET key IN_FLIGHT NX EX 30
SetInFlight(a) ==
  /\ store[key[a]] = NoEntry
  /\ store' = [store EXCEPT ![key[a]] = Entry("inFlight", a)]

\* An entry that is gone is lost when its attempt has had its effect or still may.
Drop(k) ==
  LET holder == store[k].by IN
  /\ store' = [store EXCEPT ![k] = NoEntry]
  /\ lost' = IF holder \in committed \/ phase[holder] = "executing"
             THEN lost \cup {k} ELSE lost

\* DEL only if the value is IN_FLIGHT, in one script.
DeleteIfInFlight(k) ==
  \/ store[k].kind = "inFlight" /\ Drop(k)
  \/ store[k].kind # "inFlight" /\ UNCHANGED <<store, lost>>

-----------------------------------------------------------------------------
(* IdempotentDecorator.execute *)

Claim(a) ==
  /\ Goto(a, "received", "executing")
  /\ SetInFlight(a)
  /\ UNCHANGED <<key, reply, committed, lost>>

\* Mistake: the answer of claim() is ignored.
ClaimRefused_Ignored(a) ==
  /\ Goto(a, "received", "executing")
  /\ store[key[a]] # NoEntry
  /\ UNCHANGED <<key, reply, store, committed, lost>>

ClaimRefused(a) ==
  /\ Goto(a, "received", "lookup")
  /\ store[key[a]] # NoEntry
  /\ UNCHANGED <<key, reply, store, committed, lost>>

\* claim() is awaited outside the try: nothing releases what it left.
ClaimUnanswered(a) ==
  /\ "claimUnanswered" \in Faults
  /\ Goto(a, "received", "failed")
  /\ SetInFlight(a)
  /\ UNCHANGED <<key, reply, committed, lost>>

\* Mistake: the IN_FLIGHT marker is taken for a response.
Replay_Marker(a) ==
  /\ Goto(a, "lookup", "answered")
  /\ store[key[a]] # NoEntry
  /\ reply' = [reply EXCEPT ![a] = store[key[a]].by]
  /\ UNCHANGED <<key, store, committed, lost>>

\* findByKey is a second round trip: the entry may have changed since claim().
Replay(a) ==
  /\ Goto(a, "lookup", "answered")
  /\ store[key[a]].kind = "response"
  /\ reply' = [reply EXCEPT ![a] = store[key[a]].by]
  /\ UNCHANGED <<key, store, committed, lost>>

Conflict(a) ==
  /\ Goto(a, "lookup", "conflict")
  /\ store[key[a]].kind # "response"
  /\ UNCHANGED <<key, reply, store, committed, lost>>

Commit(a) ==
  /\ Goto(a, "executing", "saving")
  /\ committed' = committed \cup {a}
  /\ UNCHANGED <<key, reply, store, lost>>

\* The use case throws: nothing was committed, or the answer to COMMIT was lost.
Throw(a) ==
  /\ Goto(a, "executing", "releasing")
  /\ \/ committed' = committed
     \/ "commitUnanswered" \in Faults /\ committed' = committed \cup {a}
  /\ UNCHANGED <<key, reply, store, lost>>

Save(a) ==
  /\ Goto(a, "saving", "answered")
  /\ store' = [store EXCEPT ![key[a]] = Entry("response", a)]
  /\ reply' = [reply EXCEPT ![a] = a]
  /\ UNCHANGED <<key, committed, lost>>

\* save() is inside the try: when it rejects, written or not, the claim of an
\* execution that committed is released.
SaveFails(a) ==
  /\ "saveFails" \in Faults
  /\ Goto(a, "saving", "releasing")
  /\ store' \in {store, [store EXCEPT ![key[a]] = Entry("response", a)]}
  /\ UNCHANGED <<key, reply, committed, lost>>

Release(a) ==
  /\ Goto(a, "releasing", "failed")
  /\ DeleteIfInFlight(key[a])
  /\ UNCHANGED <<key, reply, committed>>

ReleaseFails(a) ==
  /\ "releaseFails" \in Faults
  /\ Goto(a, "releasing", "failed")
  /\ UNCHANGED <<key, reply, store, committed, lost>>

-----------------------------------------------------------------------------
(* The environment *)

Crash(a) ==
  /\ \/ "crash" \in Faults /\ phase[a] = "executing"
     \/ "crashAfterCommit" \in Faults /\ phase[a] \in {"saving", "releasing"}
  /\ phase' = [phase EXCEPT ![a] = "dead"]
  /\ UNCHANGED <<key, reply, store, committed, lost>>

\* Mistake: the marker is set without EX; only responses expire.
ClaimExpires_NoTtl(k) ==
  /\ ClaimsExpire
  /\ store[k].kind = "response"
  /\ Drop(k)
  /\ UNCHANGED <<phase, key, reply, committed>>

\* CLAIM_TTL_SECONDS have passed; the attempt that claimed is over, unless an
\* execution may take that long.
ClaimExpires(k) ==
  /\ ClaimsExpire
  /\ store[k].kind = "inFlight"
  /\ phase[store[k].by] \in Over \/ "slow" \in Faults
  /\ Drop(k)
  /\ UNCHANGED <<phase, key, reply, committed>>

\* RESPONSE_TTL_SECONDS have passed.
ResponseExpires(k) ==
  /\ ClaimsExpire /\ "day" \in Faults
  /\ store[k].kind = "response"
  /\ Drop(k)
  /\ UNCHANGED <<phase, key, reply, committed>>

Idle ==
  /\ \A a \in Attempts : phase[a] \in Over
  /\ UNCHANGED vars

Progress(a) ==
  \/ Claim(a) \/ ClaimRefused(a) \/ Replay(a) \/ Conflict(a)
  \/ Commit(a) \/ Throw(a) \/ Save(a) \/ Release(a)

Fault(a) == ClaimUnanswered(a) \/ SaveFails(a) \/ ReleaseFails(a) \/ Crash(a)

Next ==
  \/ \E a \in Attempts : Progress(a) \/ Fault(a)
  \/ \E k \in Keys : ClaimExpires(k) \/ ResponseExpires(k)
  \/ Idle

Spec == Init /\ [][Next]_vars

\* Attempts keep running until they end, and Redis expires what is due.
FairSpec ==
  /\ Spec
  /\ \A a \in Attempts : WF_vars(Progress(a))
  /\ \A k \in Keys : WF_vars(ClaimExpires(k))

-----------------------------------------------------------------------------
(* Properties *)

TypeOK ==
  /\ phase \in [Attempts -> Phase]
  /\ key \in [Attempts -> Keys]
  /\ reply \in [Attempts -> Attempts \cup {NoAttempt}]
  /\ store \in [Keys -> Entries]
  /\ committed \subseteq Attempts
  /\ lost \subseteq Keys

Effects(k) == {a \in committed : key[a] = k}

\* The operation behind a key takes effect twice only if the key's claim or
\* response went while it still mattered: until then the store serialises
\* every attempt, however they interleave, crash or fail.
DuplicatesNeedLostClaim ==
  \A k \in Keys \ lost : \A a, b \in Effects(k) : a = b

\* Every successful answer is the result of a committed execution of its own
\* key, and while the claim is not lost all answers of a key are the same.
RepliesAgree ==
  \A a, b \in Attempts :
    /\ reply[a] # NoAttempt => reply[a] \in Effects(key[a])
    /\ (reply[a] # NoAttempt /\ reply[b] # NoAttempt
        /\ key[a] = key[b] /\ key[a] \notin lost) => reply[a] = reply[b]

\* The documented guarantee: one key, at most one effect.
AtMostOneEffect == \A k \in Keys : \A a, b \in Effects(k) : a = b

\* A claim never wedges its key: a crash, a lost answer or a failed release
\* heals by the TTL.
NoWedgedKey ==
  \A k \in Keys : store[k].kind = "inFlight" ~> store[k].kind # "inFlight"

\* The attempt whose effect a key has, if any.
Done == [k \in Keys |->
  IF Effects(k) = {} THEN NoAttempt ELSE CHOOSE a \in Attempts : a \in Effects(k)]

Promise == INSTANCE OnceOnly WITH done <- Done

\* Under every fault the store keeps the client's promise, until a claim goes
\* while it still matters.
ImplementsOnceOnly ==
  Promise!Init /\ [][Promise!Next \/ lost' # {}]_<<Done, reply>>

-----------------------------------------------------------------------------
(* The inductive invariant *)

\* A key's claim is in force: the entry names the one attempt that may have,
\* or has had, the effect.
ClaimInForce(k) ==
  /\ \A a \in Attempts :
       key[a] = k /\ phase[a] = "executing" => store[k] = Entry("inFlight", a)
  /\ \A a \in Effects(k) : store[k] # NoEntry /\ store[k].by = a

PhaseMatchesEffect(a) ==
  /\ phase[a] \in {"received", "lookup", "executing"} => a \notin committed
  /\ phase[a] = "saving" => a \in committed

IInv ==
  /\ TypeOK
  /\ \A k \in Keys \ lost : ClaimInForce(k)
  /\ \A a \in Attempts : PhaseMatchesEffect(a)
  /\ \A k \in Keys : store[k] # NoEntry => key[store[k].by] = k
  /\ \A k \in Keys : store[k].kind = "response" => store[k].by \in committed
  /\ \A a \in Attempts : reply[a] # NoAttempt => reply[a] \in Effects(key[a])

=============================================================================
