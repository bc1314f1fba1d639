----------------------------- MODULE Onboarding -----------------------------
(***************************************************************************)
(* How a customer comes into the system: signup, login, opening a wallet   *)
(* and submitting KYC, each an HTTP request served concurrently.           *)
(*                                                                         *)
(* A signup is one transaction (user, account, account.created row).  The  *)
(* other requests are single statements: opening a wallet checks and then  *)
(* inserts, a submission reads the profile, upserts it in Postgres and     *)
(* then replaces the dossier in Mongo.  Identifiers are generated by the   *)
(* request that creates the row, so the row is named after the request:    *)
(* the account of signup s is s, the profile a submission would create is  *)
(* the submission.                                                         *)
(*                                                                         *)
(* tangled and unarchived are history: the code keeps neither.             *)
(***************************************************************************)
CONSTANTS
  SignUps, Logins, Openings, Submissions,   \* the requests
  Emails,
  Currencies,
  Nobody,
  Scenarios     \* which requests arrive, and what each asks for

Requests == SignUps \cup Logins \cup Openings \cup Submissions
Slots == SignUps \X Currencies
Row == {"user", "account", "event"}

Scenario ==
  [ arriving : SUBSET Requests,
    email    : [SignUps \cup Logins -> Emails],
    secret   : [Logins -> SignUps \cup {Nobody}],  \* whose password it sends
    slot     : [Openings -> Slots],
    account  : [Submissions -> SignUps] ]

ASSUME NobodyAssumption == Nobody \notin Requests
ASSUME ScenariosAssumption == Scenarios \subseteq Scenario
ASSUME KindsAssumption ==
  /\ SignUps \cap (Logins \cup Openings \cup Submissions) = {}
  /\ Logins \cap (Openings \cup Submissions) = {}
  /\ Openings \cap Submissions = {}
ASSUME NamesAssumption == Emails \cap Slots = {}

Answered == {"created", "conflict", "failed", "token", "unauthorized",
             "noAccount", "verified"}
Phase == Answered \cup
  {"absent", "received", "saveUser", "saveAccount", "addEvent", "commit",
   "compare", "findAccount", "insertWallet", "saveProfile", "archive"}

VARIABLES
  asks,                  \* the scenario
  phase, chosen,         \* the requests: where each is, the row it works on
  pending,               \* rows inserted by an open signup transaction
  rows,                  \* Postgres: the committed rows of each signup
  wallets,               \* Postgres: the opening each wallet came from
  profiles,              \* Postgres: id and content of each account's profile
  dossiers,              \* Mongo: the content filed under each profile id
  tangled, unarchived    \* history

signup == <<pending, rows>>
kyc == <<profiles, dossiers, tangled, unarchived>>
vars == <<asks, phase, chosen, signup, wallets, kyc>>

NoProfile == [id |-> Nobody, content |-> Nobody]

Init ==
  /\ asks \in Scenarios
  /\ phase = [r \in Requests |-> IF r \in asks.arriving THEN "received" ELSE "absent"]
  /\ chosen = [r \in Requests |-> Nobody]
  /\ pending = [s \in SignUps |-> {}]
  /\ rows = [s \in SignUps |-> {}]
  /\ wallets = [slot \in Slots |-> Nobody]
  /\ profiles = [a \in SignUps |-> NoProfile]
  /\ dossiers = [k \in Submissions |-> Nobody]
  /\ tangled = {} /\ unarchived = {}

Goto(r, here, next) == phase[r] = here /\ phase' = [phase EXCEPT ![r] = next]

UserRow(email) == {s \in SignUps : "user" \in rows[s] /\ asks.email[s] = email}
AccountExists(a) == "account" \in rows[a]

-----------------------------------------------------------------------------
(* CreateAccountUseCase *)

\* findByEmail, and hashing the password.
CheckEmail(s) ==
  /\ Goto(s, "received", "saveUser")
  /\ UserRow(asks.email[s]) = {}
  /\ UNCHANGED <<asks, chosen, signup, wallets, kyc>>

EmailTaken(s) ==
  /\ Goto(s, "received", "conflict")
  /\ UserRow(asks.email[s]) # {}
  /\ UNCHANGED <<asks, chosen, signup, wallets, kyc>>

Insert(s, row) ==
  /\ pending' = [pending EXCEPT ![s] = @ \cup {row}]
  /\ UNCHANGED <<asks, chosen, rows, wallets, kyc>>

\* Mistake: no unique index on users.email.
SaveUser_NotUnique(s) ==
  /\ Goto(s, "saveUser", "saveAccount")
  /\ Insert(s, "user")

\* Mistake: the user is inserted through the pool, outside the transaction.
SaveUser_OutsideTransaction(s) ==
  /\ Goto(s, "saveUser", "saveAccount")
  /\ UserRow(asks.email[s]) = {}
  /\ rows' = [rows EXCEPT ![s] = @ \cup {"user"}]
  /\ UNCHANGED <<asks, chosen, pending, wallets, kyc>>

\* The insert waits while another open transaction holds the email, and is
\* refused once that one commits.
SaveUser(s) ==
  /\ Goto(s, "saveUser", "saveAccount")
  /\ UserRow(asks.email[s]) = {}
  /\ \A t \in SignUps : "user" \in pending[t] => asks.email[t] # asks.email[s]
  /\ Insert(s, "user")

\* 23505: the transaction rolls back and the controller answers 409.
UniqueViolation(s) ==
  /\ Goto(s, "saveUser", "conflict")
  /\ UserRow(asks.email[s]) # {}
  /\ UNCHANGED <<asks, chosen, signup, wallets, kyc>>

SaveAccount(s) == Goto(s, "saveAccount", "addEvent") /\ Insert(s, "account")

AddEvent(s) == Goto(s, "addEvent", "commit") /\ Insert(s, "event")

\* Mistake: the connection goes back with its transaction open.
EndTransaction_LeftOpen(s, committed) ==
  /\ rows' = [rows EXCEPT ![s] = @ \cup committed]
  /\ UNCHANGED <<asks, chosen, pending, wallets, kyc>>

EndTransaction(s, committed) ==
  /\ rows' = [rows EXCEPT ![s] = @ \cup committed]
  /\ pending' = [pending EXCEPT ![s] = {}]
  /\ UNCHANGED <<asks, chosen, wallets, kyc>>

Commit(s) == Goto(s, "commit", "created") /\ EndTransaction(s, pending[s])

CommitUnanswered(s) == Goto(s, "commit", "failed") /\ EndTransaction(s, pending[s])

\* The connection dies before COMMIT: Postgres rolls back.
LoseConnection(s) ==
  /\ phase[s] \in {"received", "saveUser", "saveAccount", "addEvent", "commit"}
  /\ phase' = [phase EXCEPT ![s] = "failed"]
  /\ EndTransaction(s, {})

-----------------------------------------------------------------------------
(* LoginUseCase: two reads that no transaction joins *)

FindUser(l) ==
  /\ Goto(l, "received", "compare")
  /\ \E s \in UserRow(asks.email[l]) : chosen' = [chosen EXCEPT ![l] = s]
  /\ UNCHANGED <<asks, signup, wallets, kyc>>

ComparePassword(l) ==
  /\ Goto(l, "compare", "findAccount")
  /\ asks.secret[l] = chosen[l]
  /\ UNCHANGED <<asks, chosen, signup, wallets, kyc>>

InvalidCredentials(l) ==
  /\ \/ Goto(l, "received", "unauthorized") /\ UserRow(asks.email[l]) = {}
     \/ Goto(l, "compare", "unauthorized") /\ asks.secret[l] # chosen[l]
  /\ UNCHANGED <<asks, chosen, signup, wallets, kyc>>

\* A user without an account is an error of its own.
GenerateToken(l) ==
  /\ Goto(l, "findAccount", IF AccountExists(chosen[l]) THEN "token" ELSE "noAccount")
  /\ UNCHANGED <<asks, chosen, signup, wallets, kyc>>

-----------------------------------------------------------------------------
(* OpenWalletUseCase: check, then insert *)

FindWallet(o) ==
  /\ Goto(o, "received", IF wallets[asks.slot[o]] # Nobody THEN "conflict" ELSE "insertWallet")
  /\ UNCHANGED <<asks, chosen, signup, wallets, kyc>>

\* Mistake: the insert upserts on (account, currency), as save() does on id.
InsertWallet_Upsert(o) ==
  /\ Goto(o, "insertWallet", "created")
  /\ AccountExists(asks.slot[o][1])
  /\ wallets' = [wallets EXCEPT ![asks.slot[o]] = o]
  /\ UNCHANGED <<asks, chosen, signup, kyc>>

\* The answer may be lost after the row is there.
InsertWallet(o) ==
  /\ Goto(o, "insertWallet", "created") \/ Goto(o, "insertWallet", "failed")
  /\ wallets[asks.slot[o]] = Nobody
  /\ AccountExists(asks.slot[o][1])
  /\ wallets' = [wallets EXCEPT ![asks.slot[o]] = o]
  /\ UNCHANGED <<asks, chosen, signup, kyc>>

\* UNIQUE (account_id, currency); the foreign key to accounts, or no answer.
InsertRefused(o) ==
  /\ \/ Goto(o, "insertWallet", "conflict") /\ wallets[asks.slot[o]] # Nobody
     \/ Goto(o, "insertWallet", "failed")
  /\ UNCHANGED <<asks, chosen, signup, wallets, kyc>>

-----------------------------------------------------------------------------
(* SubmitKycUseCase: read, upsert in Postgres, replace in Mongo *)

Underway(a) ==
  {k \in Submissions : asks.account[k] = a /\ phase[k] \in {"saveProfile", "archive"}}

\* Mistake: a resubmission gets a fresh id.
FindProfile_FreshId(k) ==
  LET a == asks.account[k] IN
  /\ Goto(k, "received", "saveProfile")
  /\ chosen' = [chosen EXCEPT ![k] = k]
  /\ tangled' = IF Underway(a) = {} THEN tangled ELSE tangled \cup {a}
  /\ UNCHANGED <<asks, signup, wallets, profiles, dossiers, unarchived>>

\* A resubmission keeps the id of the profile it finds.
FindProfile(k) ==
  LET a == asks.account[k] IN
  /\ Goto(k, "received", "saveProfile")
  /\ chosen' = [chosen EXCEPT ![k] = IF profiles[a] = NoProfile THEN k ELSE profiles[a].id]
  /\ tangled' = IF Underway(a) = {} THEN tangled ELSE tangled \cup {a}
  /\ UNCHANGED <<asks, signup, wallets, profiles, dossiers, unarchived>>

\* On conflict the row keeps its id and takes the new content.
Upsert(k, a) ==
  /\ AccountExists(a)
  /\ profiles' = [profiles EXCEPT ![a] =
       [id |-> IF @ = NoProfile THEN chosen[k] ELSE @.id, content |-> k]]
  /\ unarchived' = unarchived \cup {a}

SaveProfile(k) ==
  /\ Goto(k, "saveProfile", "archive")
  /\ Upsert(k, asks.account[k])
  /\ UNCHANGED <<asks, chosen, signup, wallets, dossiers, tangled>>

\* The foreign key, or Postgres does not answer: with or without the row.
SaveProfileFails(k) ==
  /\ Goto(k, "saveProfile", "failed")
  /\ Upsert(k, asks.account[k]) \/ UNCHANGED <<profiles, unarchived>>
  /\ UNCHANGED <<asks, chosen, signup, wallets, dossiers, tangled>>

Archive(k) ==
  LET a == asks.account[k] IN
  /\ Goto(k, "archive", "verified")
  /\ dossiers' = [dossiers EXCEPT ![chosen[k]] = k]
  /\ unarchived' = unarchived \ {a}
  /\ UNCHANGED <<asks, chosen, signup, wallets, profiles, tangled>>

\* Mongo does not answer: logged, and the customer is answered as verified all
\* the same.  Or the process dies here.
ArchiveFails(k) ==
  /\ Goto(k, "archive", "verified") \/ Goto(k, "archive", "failed")
  /\ dossiers' \in {dossiers, [dossiers EXCEPT ![chosen[k]] = k]}
  /\ UNCHANGED <<asks, chosen, signup, wallets, profiles, tangled, unarchived>>

-----------------------------------------------------------------------------
Idle ==
  /\ \A r \in Requests : phase[r] \in Answered \cup {"absent"}
  /\ UNCHANGED vars

SignUp(s) ==
  \/ CheckEmail(s) \/ EmailTaken(s) \/ SaveUser(s) \/ UniqueViolation(s)
  \/ SaveAccount(s) \/ AddEvent(s) \/ Commit(s)

Login(l) ==
  FindUser(l) \/ ComparePassword(l) \/ InvalidCredentials(l) \/ GenerateToken(l)

OpenWallet(o) == FindWallet(o) \/ InsertWallet(o) \/ InsertRefused(o)

SubmitKyc(k) ==
  FindProfile(k) \/ SaveProfile(k) \/ SaveProfileFails(k) \/ Archive(k) \/ ArchiveFails(k)

Next ==
  \/ \E s \in SignUps : SignUp(s) \/ CommitUnanswered(s) \/ LoseConnection(s)
  \/ \E l \in Logins : Login(l)
  \/ \E o \in Openings : OpenWallet(o)
  \/ \E k \in Submissions : SubmitKyc(k)
  \/ Idle

Spec == Init /\ [][Next]_vars

\* Statements are answered; an insert that waits for another's email goes on
\* when that one ends.
FairSpec ==
  /\ Spec
  /\ \A s \in SignUps : WF_vars(SignUp(s))
  /\ \A l \in Logins : WF_vars(Login(l))
  /\ \A o \in Openings : WF_vars(OpenWallet(o))
  /\ \A k \in Submissions : WF_vars(SubmitKyc(k))

-----------------------------------------------------------------------------
(* Properties *)

TypeOK ==
  /\ asks \in Scenarios
  /\ phase \in [Requests -> Phase]
  /\ chosen \in [Requests -> SignUps \cup Submissions \cup {Nobody}]
  /\ \A k \in Submissions : chosen[k] \in Submissions \cup {Nobody}
  /\ pending \in [SignUps -> SUBSET Row]
  /\ rows \in [SignUps -> SUBSET Row]
  /\ wallets \in [Slots -> Openings \cup {Nobody}]
  /\ profiles \in [SignUps -> [id : Submissions \cup {Nobody}, content : Submissions \cup {Nobody}]]
  /\ dossiers \in [Submissions -> Submissions \cup {Nobody}]
  /\ tangled \subseteq SignUps
  /\ unarchived \subseteq SignUps

\* No email is locked out: a user never exists without its account and its
\* account.created row, whatever fails and whoever races.
SignupsAreWhole == \A s \in SignUps : rows[s] \in {{}, Row}

\* What a caller is told is so: 201 means the row is the caller's own, a token
\* names the account of whoever knows the password, and no login meets a user
\* without an account.
AnswersAreTrue ==
  /\ \A s \in SignUps : phase[s] = "created" => rows[s] = Row
  /\ \A o \in Openings : phase[o] = "created" => wallets[asks.slot[o]] = o
  /\ \A l \in Logins :
       /\ phase[l] # "noAccount"
       /\ phase[l] = "token" => asks.secret[l] \in UserRow(asks.email[l])
                                /\ AccountExists(asks.secret[l])

\* Once nothing is underway and Mongo took the last content, an account's only
\* dossier is filed under its profile's id and holds its profile's content,
\* unless two submissions of the account overlapped.
DossierFollowsProfile ==
  \A a \in SignUps \ (tangled \cup unarchived) :
    Underway(a) = {} /\ profiles[a] # NoProfile =>
      /\ dossiers[profiles[a].id] = profiles[a].content
      /\ \A id \in Submissions \ {profiles[a].id} :
           dossiers[id] # Nobody => asks.account[dossiers[id]] # a

\* Every request gets its answer: waiting for another signup's email ends.
EveryRequestIsAnswered ==
  <>(\A r \in asks.arriving : phase[r] \in Answered)

-----------------------------------------------------------------------------
(* The abstract specification it implements *)

Claimants == SignUps \cup Openings
Names == Emails \cup Slots

OwnerOf(name) ==
  IF name \in Emails
  THEN IF UserRow(name) = {} THEN Nobody ELSE CHOOSE s \in UserRow(name) : TRUE
  ELSE wallets[name]

Wanted == [r \in Claimants |-> IF r \in SignUps THEN asks.email[r] ELSE asks.slot[r]]
Owners == [name \in Names |-> OwnerOf(name)]
Told == [r \in Claimants |->
           IF phase[r] \in {"created", "conflict", "failed"} THEN phase[r] ELSE "none"]

Unique == INSTANCE Registry WITH
  Requests <- Claimants, Keys <- Names,
  wants <- Wanted, owner <- Owners, answer <- Told

\* Emails and (account, currency) slots are registries: check-then-insert
\* with a unique constraint behind it gives each name one owner, and every
\* refusal is justified.
ImplementsRegistry == Unique!Spec

-----------------------------------------------------------------------------
(* The inductive invariant *)

\* The rows an open signup has inserted when it reaches its phase.
Inserted(s) ==
  CASE phase[s] = "saveAccount" -> {"user"}
    [] phase[s] = "addEvent"    -> {"user", "account"}
    [] phase[s] = "commit"      -> Row
    [] OTHER                    -> {}

\* One transaction or row per email.
OneHolder ==
  \A s, t \in SignUps :
    /\ "user" \in pending[s] \cup rows[s]
    /\ "user" \in pending[t] \cup rows[t]
    /\ asks.email[s] = asks.email[t]
    => s = t

SignupsMatchPhases ==
  \A s \in SignUps :
    /\ pending[s] = Inserted(s)
    /\ rows[s] = Row => phase[s] \in {"created", "failed"}

LoginsMatchPhases ==
  \A l \in Logins :
    /\ phase[l] \in {"compare", "findAccount"} => chosen[l] \in UserRow(asks.email[l])
    /\ phase[l] = "findAccount" => asks.secret[l] = chosen[l]

IInv ==
  /\ TypeOK
  /\ SignupsMatchPhases
  /\ SignupsAreWhole
  /\ OneHolder
  /\ LoginsMatchPhases
  /\ AnswersAreTrue

=============================================================================
