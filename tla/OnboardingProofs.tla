-------------------------- MODULE OnboardingProofs --------------------------
(***************************************************************************)
(* For any number of requests of every kind and whatever they ask for:     *)
(* answers are true, signups are whole, and emails and wallet slots are    *)
(* registries with one owner per name.                                     *)
(*                                                                         *)
(* The argument is OneHolder: of all the signups for an email, at most one *)
(* has its user row, committed or in an open transaction.  The insert      *)
(* waits for the open ones and is refused by a committed one, so the check *)
(* that came before it, and may be stale, does not matter.                 *)
(***************************************************************************)
EXTENDS Onboarding, TLAPS

-----------------------------------------------------------------------------
(* Types *)

\* What the requests ask for has its type.
LEMMA AsksType ==
  ASSUME asks \in Scenarios
  PROVE  /\ asks.arriving \subseteq Requests
         /\ asks.email \in [SignUps \cup Logins -> Emails]
         /\ asks.secret \in [Logins -> SignUps \cup {Nobody}]
         /\ asks.slot \in [Openings -> Slots]
         /\ asks.account \in [Submissions -> SignUps]
BY ScenariosAssumption DEF Scenario

\* The kinds of a request are disjoint, and Nobody is none of them.
LEMMA Kinds ==
  /\ \A s \in SignUps : s \notin Logins /\ s \notin Openings /\ s \notin Submissions
  /\ \A l \in Logins : l \notin Openings /\ l \notin Submissions
  /\ \A o \in Openings : o \notin Submissions
  /\ \A r \in SignUps \cup Logins \cup Openings \cup Submissions : r \in Requests /\ r # Nobody
BY KindsAssumption, NobodyAssumption DEF Requests

Sign(s) == SignUp(s) \/ CommitUnanswered(s) \/ LoseConnection(s)

\* The types hold at the start.
LEMMA TypeInit == Init => TypeOK
BY DEF Init, TypeOK, Phase, Answered, NoProfile, Requests

\* A signup moves only itself and its own rows, and takes none back.
LEMMA SignStep ==
  ASSUME TypeOK, NEW s \in SignUps, Sign(s)
  PROVE  /\ phase' \in [Requests -> Phase]
         /\ pending' \in [SignUps -> SUBSET Row] /\ rows' \in [SignUps -> SUBSET Row]
         /\ \A r \in Requests \ {s} : phase'[r] = phase[r]
         /\ \A t \in SignUps \ {s} : pending'[t] = pending[t] /\ rows'[t] = rows[t]
         /\ rows[s] \subseteq rows'[s]
         /\ UNCHANGED <<asks, chosen, wallets, profiles, dossiers, tangled, unarchived>>
<1> USE DEF TypeOK, Phase, Answered, Goto, Row, kyc
<1>1. CASE CheckEmail(s) \/ EmailTaken(s) \/ UniqueViolation(s)
  BY <1>1 DEF CheckEmail, EmailTaken, UniqueViolation, signup
<1>2. CASE SaveUser(s) \/ SaveAccount(s) \/ AddEvent(s)
  <2>1. PICK row \in Row : Insert(s, row)
    BY <1>2 DEF SaveUser, SaveAccount, AddEvent
  <2>2. pending' \in [SignUps -> SUBSET Row]
        /\ \A t \in SignUps \ {s} : pending'[t] = pending[t]
    BY <2>1 DEF Insert
  <2>3. phase' \in [Requests -> Phase] /\ \A r \in Requests \ {s} : phase'[r] = phase[r]
    BY <1>2 DEF SaveUser, SaveAccount, AddEvent
  <2> QED BY <2>1, <2>2, <2>3 DEF Insert
<1>3. CASE Commit(s) \/ CommitUnanswered(s)
  <2>1. EndTransaction(s, pending[s])
    BY <1>3 DEF Commit, CommitUnanswered
  <2>2. /\ pending' \in [SignUps -> SUBSET Row] /\ rows' \in [SignUps -> SUBSET Row]
        /\ \A t \in SignUps \ {s} : pending'[t] = pending[t] /\ rows'[t] = rows[t]
        /\ rows[s] \subseteq rows'[s]
    BY <2>1 DEF EndTransaction
  <2>3. phase' \in [Requests -> Phase] /\ \A r \in Requests \ {s} : phase'[r] = phase[r]
    BY <1>3 DEF Commit, CommitUnanswered
  <2> QED BY <2>1, <2>2, <2>3 DEF EndTransaction
<1>4. CASE LoseConnection(s)
  BY <1>4 DEF LoseConnection, EndTransaction
<1> QED BY <1>1, <1>2, <1>3, <1>4 DEF Sign, SignUp

Other(r) ==
  \/ r \in Logins /\ Login(r)
  \/ r \in Openings /\ OpenWallet(r)
  \/ r \in Submissions /\ SubmitKyc(r)

\* The other requests leave the signups alone.
LEMMA OtherStep ==
  ASSUME TypeOK, NEW r, Other(r)
  PROVE  /\ phase' \in [Requests -> Phase]
         /\ \A q \in Requests \ {r} : phase'[q] = phase[q]
         /\ \A q \in SignUps : phase'[q] = phase[q]
         /\ UNCHANGED <<asks, pending, rows>>
<1> USE Kinds DEF TypeOK, Phase, Answered, Goto
<1>1. CASE r \in Logins /\ Login(r)
  BY <1>1 DEF Login, FindUser, ComparePassword, InvalidCredentials, GenerateToken, signup
<1>2. CASE r \in Openings /\ OpenWallet(r)
  BY <1>2 DEF OpenWallet, FindWallet, InsertWallet, InsertRefused, signup
<1>3. CASE r \in Submissions /\ SubmitKyc(r)
  BY <1>3 DEF SubmitKyc, FindProfile, SaveProfile, SaveProfileFails, Archive, ArchiveFails,
     signup
<1> QED BY <1>1, <1>2, <1>3 DEF Other

\* A step is one request's, or changes nothing.
LEMMA StepKinds ==
  ASSUME [Next]_vars
  PROVE  \/ \E s \in SignUps : Sign(s)
         \/ \E r \in Requests : Other(r)
         \/ UNCHANGED vars
BY DEF Next, Idle, Sign, Other, Requests

\* Every action keeps the types.
LEMMA TypeStep == TypeOK /\ [Next]_vars => TypeOK'
<1> SUFFICES ASSUME TypeOK, [Next]_vars PROVE TypeOK'
  OBVIOUS
<1>1. ASSUME NEW s \in SignUps, Sign(s) PROVE TypeOK'
  BY <1>1, SignStep DEF TypeOK
<1>2. ASSUME NEW r \in Requests, Other(r) PROVE TypeOK'
  <2>0. phase' \in [Requests -> Phase] /\ UNCHANGED <<asks, pending, rows>>
    BY <1>2, OtherStep
  <2>1. CASE r \in Logins /\ Login(r)
    <3>1. /\ chosen' \in [Requests -> SignUps \cup Submissions \cup {Nobody}]
          /\ \A k \in Submissions : chosen'[k] = chosen[k]
      BY <2>1, Kinds
         DEF Login, FindUser, ComparePassword, InvalidCredentials, GenerateToken, TypeOK, UserRow
    <3>2. UNCHANGED <<wallets, profiles, dossiers, tangled, unarchived>>
      BY <2>1 DEF Login, FindUser, ComparePassword, InvalidCredentials, GenerateToken, kyc
    <3> QED BY <2>0, <3>1, <3>2 DEF TypeOK
  <2>2. CASE r \in Openings /\ OpenWallet(r)
    <3>1. wallets' \in [Slots -> Openings \cup {Nobody}]
      BY <2>2 DEF OpenWallet, FindWallet, InsertWallet, InsertRefused, TypeOK
    <3>2. UNCHANGED <<chosen, profiles, dossiers, tangled, unarchived>>
      BY <2>2 DEF OpenWallet, FindWallet, InsertWallet, InsertRefused, kyc
    <3> QED BY <2>0, <3>1, <3>2 DEF TypeOK
  <2>3. CASE r \in Submissions /\ SubmitKyc(r)
    <3>0. asks.account[r] \in SignUps /\ r \in Requests
      BY <2>3, AsksType DEF TypeOK
    <3>1. CASE FindProfile(r)
      <4>1. chosen'[r] \in Submissions \cup {Nobody} /\ tangled' \subseteq SignUps
        BY <2>3, <3>0, <3>1 DEF FindProfile, TypeOK
      <4>2. /\ \A q \in Requests \ {r} : chosen'[q] = chosen[q]
            /\ chosen' = [q \in Requests |-> chosen'[q]]
        BY <3>1 DEF FindProfile, TypeOK
      <4>3. chosen' \in [Requests -> SignUps \cup Submissions \cup {Nobody}]
        BY <4>1, <4>2 DEF TypeOK
      <4>4. \A k \in Submissions : chosen'[k] \in Submissions \cup {Nobody}
        BY <4>1, <4>2, Kinds DEF TypeOK
      <4>5. UNCHANGED <<wallets, profiles, dossiers, unarchived>>
        BY <3>1 DEF FindProfile
      <4> QED BY <2>0, <4>1, <4>3, <4>4, <4>5 DEF TypeOK
    <3>2. CASE SaveProfile(r) \/ SaveProfileFails(r)
      <4>1. chosen[r] \in Submissions \cup {Nobody}
        BY <2>3 DEF TypeOK
      <4> QED BY <2>0, <2>3, <3>0, <3>2, <4>1
              DEF SaveProfile, SaveProfileFails, Upsert, TypeOK
    <3>3. CASE Archive(r) \/ ArchiveFails(r)
      BY <2>0, <2>3, <3>3 DEF Archive, ArchiveFails, TypeOK
    <3> QED BY <2>3, <3>1, <3>2, <3>3 DEF SubmitKyc
  <2> QED BY <1>2, <2>1, <2>2, <2>3 DEF Other
<1>3. CASE UNCHANGED vars
  BY <1>3 DEF TypeOK, vars, signup, kyc
<1> QED BY <1>1, <1>2, <1>3, StepKinds

\* Type correctness for any requests.
THEOREM TypeCorrect == Spec => []TypeOK
BY TypeInit, TypeStep, PTL DEF Spec

\* Rows stay, and nobody changes what was asked for.
LEMMA RowsGrow ==
  ASSUME TypeOK, [Next]_vars
  PROVE  asks' = asks /\ \A s \in SignUps : rows[s] \subseteq rows'[s]
<1>1. ASSUME NEW s \in SignUps, Sign(s)
      PROVE  asks' = asks /\ \A t \in SignUps : rows[t] \subseteq rows'[t]
  BY <1>1, SignStep
<1>2. ASSUME NEW r \in Requests, Other(r)
      PROVE  asks' = asks /\ \A t \in SignUps : rows[t] \subseteq rows'[t]
  BY <1>2, OtherStep
<1> QED BY <1>1, <1>2, StepKinds DEF vars, signup

\* What a login found stays found.
LEMMA UserRowsGrow ==
  ASSUME TypeOK, [Next]_vars, NEW email
  PROVE  UserRow(email) \subseteq UserRow(email)'
BY RowsGrow DEF UserRow

-----------------------------------------------------------------------------
(* Signups *)

\* The rows of an open transaction follow its phase, and a committed signup
\* has ended and is whole.
LEMMA SignupStep == ASSUME IInv, [Next]_vars PROVE SignupsMatchPhases' /\ SignupsAreWhole'
<1> USE DEF IInv, SignupsMatchPhases, SignupsAreWhole
<1>0. TypeOK
  OBVIOUS
<1>1. ASSUME NEW s \in SignUps, Sign(s) PROVE SignupsMatchPhases' /\ SignupsAreWhole'
  <2>1. \A t \in SignUps \ {s} :
          pending'[t] = pending[t] /\ rows'[t] = rows[t] /\ phase'[t] = phase[t]
    BY <1>0, <1>1, SignStep, Kinds
  <2>2. /\ pending'[s] = Inserted(s)' /\ rows'[s] \in {{}, Row}
        /\ rows'[s] = Row => phase'[s] \in {"created", "failed"}
    <3>0. s \in Requests
      BY Kinds
    <3> USE <1>0, <3>0 DEF TypeOK, Inserted, Goto, Row
    <3>1. CASE CheckEmail(s) \/ EmailTaken(s) \/ UniqueViolation(s)
      BY <3>1 DEF CheckEmail, EmailTaken, UniqueViolation, signup
    <3>2. CASE SaveUser(s)
      BY <3>2 DEF SaveUser, Insert
    <3>5. CASE SaveAccount(s)
      BY <3>5 DEF SaveAccount, Insert
    <3>6. CASE AddEvent(s)
      BY <3>6 DEF AddEvent, Insert
    <3>3. CASE Commit(s) \/ CommitUnanswered(s)
      <4>1. EndTransaction(s, pending[s]) /\ phase[s] = "commit"
            /\ phase'[s] \in {"created", "failed"}
        BY <3>3 DEF Commit, CommitUnanswered
      <4>2. pending[s] = Row
        BY <4>1
      <4>3. rows'[s] = Row /\ pending'[s] = {}
        BY <4>1, <4>2 DEF EndTransaction
      <4> QED BY <4>1, <4>3
    <3>4. CASE LoseConnection(s)
      BY <3>4 DEF LoseConnection, EndTransaction
    <3> QED BY <1>1, <3>1, <3>2, <3>3, <3>4, <3>5, <3>6 DEF Sign, SignUp
  <2> QED BY <2>1, <2>2 DEF Inserted
<1>2. ASSUME NEW r \in Requests, Other(r) PROVE SignupsMatchPhases' /\ SignupsAreWhole'
  BY <1>0, <1>2, OtherStep DEF Inserted
<1>3. CASE UNCHANGED vars
  BY <1>3 DEF vars, signup, Inserted
<1> QED BY <1>1, <1>2, <1>3, StepKinds

Holds(s) == "user" \in pending[s] \cup rows[s]

\* The insert of a user row is the only step that makes a holder, and it finds
\* no other.
LEMMA HolderStep == ASSUME IInv, [Next]_vars PROVE OneHolder'
<1>0. TypeOK /\ OneHolder /\ asks' = asks
  BY RowsGrow DEF IInv
<1>1. ASSUME NEW s \in SignUps, Sign(s) PROVE OneHolder'
  <2>1. CASE SaveUser(s)
    <3>1. \A t \in SignUps \ {s} : Holds(t)' => Holds(t) /\ asks.email[t] # asks.email[s]
      BY <1>0, <1>1, <2>1, SignStep DEF SaveUser, UserRow, Holds
    <3> QED BY <1>0, <3>1 DEF OneHolder, Holds
  <2>2. CASE ~SaveUser(s)
    <3>1. Holds(s)' => Holds(s)
      <4> USE <1>0 DEF TypeOK, Holds
      <4>1. CASE CheckEmail(s) \/ EmailTaken(s) \/ UniqueViolation(s)
        BY <4>1 DEF CheckEmail, EmailTaken, UniqueViolation, signup
      <4>2. CASE SaveAccount(s) \/ AddEvent(s)
        BY <4>2 DEF SaveAccount, AddEvent, Insert
      <4>3. CASE Commit(s) \/ CommitUnanswered(s) \/ LoseConnection(s)
        BY <4>3 DEF Commit, CommitUnanswered, LoseConnection, EndTransaction
      <4> QED BY <1>1, <2>2, <4>1, <4>2, <4>3 DEF Sign, SignUp
    <3>2. \A t \in SignUps \ {s} : Holds(t)' <=> Holds(t)
      BY <1>0, <1>1, SignStep DEF Holds
    <3> QED BY <1>0, <3>1, <3>2 DEF OneHolder, Holds
  <2> QED BY <2>1, <2>2
<1>2. ASSUME NEW r \in Requests, Other(r) PROVE OneHolder'
  BY <1>0, <1>2, OtherStep DEF OneHolder
<1> QED BY <1>0, <1>1, <1>2, StepKinds DEF vars, signup, OneHolder

-----------------------------------------------------------------------------
(* Logins and answers *)

LoginMatches(l) ==
  /\ phase[l] \in {"compare", "findAccount"} => chosen[l] \in UserRow(asks.email[l])
  /\ phase[l] = "findAccount" => asks.secret[l] = chosen[l]

\* A login works on a user it found, with that user's password.
LEMMA LoginStep == ASSUME IInv, [Next]_vars PROVE LoginsMatchPhases'
<1>0. TypeOK /\ (\A l \in Logins : LoginMatches(l)) /\ asks' = asks
      /\ \A l \in Logins : UserRow(asks.email[l]) \subseteq UserRow(asks.email[l])'
  BY RowsGrow, UserRowsGrow DEF IInv, LoginsMatchPhases, LoginMatches
<1>1. ASSUME NEW l \in Logins, phase'[l] = phase[l], chosen'[l] = chosen[l]
      PROVE  LoginMatches(l)'
  BY <1>0, <1>1 DEF LoginMatches
<1>2. ASSUME NEW l \in Logins, Login(l)
      PROVE  LoginMatches(l)'
  <2>0. l \in Requests /\ phase \in [Requests -> Phase] /\ l \in DOMAIN chosen
    BY <1>0, Kinds DEF TypeOK
  <2>1. CASE FindUser(l)
    <3>1. phase'[l] = "compare" /\ chosen'[l] \in UserRow(asks.email[l])
      BY <2>0, <2>1 DEF FindUser, Goto
    <3> QED BY <1>0, <3>1 DEF LoginMatches
  <2>2. CASE ComparePassword(l)
    <3>1. /\ phase[l] = "compare" /\ phase'[l] = "findAccount"
          /\ chosen' = chosen /\ asks.secret[l] = chosen[l]
      BY <2>0, <2>2 DEF ComparePassword, Goto
    <3>2. chosen[l] \in UserRow(asks.email[l])
      BY <1>0, <3>1 DEF LoginMatches
    <3> QED BY <1>0, <3>1, <3>2 DEF LoginMatches
  <2>3. CASE InvalidCredentials(l) \/ GenerateToken(l)
    BY <2>0, <2>3 DEF InvalidCredentials, GenerateToken, Goto, LoginMatches
  <2> QED BY <1>2, <2>1, <2>2, <2>3 DEF Login
<1>3. ASSUME NEW l \in Logins, ~Login(l) PROVE phase'[l] = phase[l] /\ chosen'[l] = chosen[l]
  <2>1. ASSUME NEW s \in SignUps, Sign(s) PROVE phase'[l] = phase[l] /\ chosen'[l] = chosen[l]
    BY <1>0, <2>1, SignStep, Kinds
  <2>2. ASSUME NEW r \in Requests, Other(r)
        PROVE  phase'[l] = phase[l] /\ chosen'[l] = chosen[l]
    <3>1. r # l
      BY <1>3, <2>2, Kinds DEF Other
    <3>2. phase'[l] = phase[l]
      BY <1>0, <2>2, <3>1, OtherStep, Kinds
    <3>3. chosen'[l] = chosen[l]
      <4>1. CASE chosen' = chosen
        BY <4>1
      <4>2. CASE r \in Logins /\ FindUser(r)
        BY <3>1, <4>2 DEF FindUser
      <4>3. CASE r \in Submissions /\ FindProfile(r)
        BY <1>0, <3>1, <4>3, Kinds DEF FindProfile, TypeOK
      <4> QED BY <2>2, <4>1, <4>2, <4>3 DEF Other, Login, ComparePassword, InvalidCredentials,
              GenerateToken, OpenWallet, FindWallet, InsertWallet, InsertRefused, SubmitKyc,
              SaveProfile, SaveProfileFails, Archive, ArchiveFails
    <3> QED BY <3>2, <3>3
  <2> QED BY <2>1, <2>2, StepKinds DEF vars
<1> QED BY <1>1, <1>2, <1>3 DEF LoginsMatchPhases, LoginMatches

\* A wallet is inserted into an empty slot, and stays.
LEMMA WalletsStay ==
  ASSUME TypeOK, [Next]_vars
  PROVE  \A slot \in Slots : wallets[slot] # Nobody => wallets'[slot] = wallets[slot]
<1>1. ASSUME NEW s \in SignUps, Sign(s) PROVE wallets' = wallets
  BY <1>1, SignStep
<1>2. ASSUME NEW r \in Requests, Other(r), ~(r \in Openings /\ OpenWallet(r))
      PROVE  wallets' = wallets
  BY <1>2 DEF Other, Login, FindUser, ComparePassword, InvalidCredentials, GenerateToken,
     SubmitKyc, FindProfile, SaveProfile, SaveProfileFails, Archive, ArchiveFails
<1>3. ASSUME NEW o \in Openings, OpenWallet(o)
      PROVE  \A slot \in Slots : wallets[slot] # Nobody => wallets'[slot] = wallets[slot]
  BY <1>3 DEF OpenWallet, FindWallet, InsertWallet, InsertRefused, TypeOK
<1> QED BY <1>1, <1>2, <1>3, StepKinds DEF vars

\* Only its own steps move a request.
LEMMA PhaseFrame ==
  ASSUME TypeOK, [Next]_vars, NEW r \in Requests,
         ~(r \in SignUps /\ Sign(r)), ~Other(r)
  PROVE  phase'[r] = phase[r]
<1>1. ASSUME NEW s \in SignUps, Sign(s) PROVE phase'[r] = phase[r]
  BY <1>1, SignStep
<1>2. ASSUME NEW q \in Requests, Other(q) PROVE phase'[r] = phase[r]
  BY <1>2, OtherStep
<1> QED BY <1>1, <1>2, StepKinds DEF vars

\* An answer is true when it is given, and stays so.
LEMMA AnswerStep == ASSUME IInv, [Next]_vars PROVE AnswersAreTrue'
<1>0. TypeOK /\ AnswersAreTrue /\ asks' = asks /\ SignupsMatchPhases /\ SignupsAreWhole
  BY RowsGrow DEF IInv
<1>1. ASSUME NEW s \in SignUps PROVE phase'[s] = "created" => rows'[s] = Row
  <2>0. s \in Requests /\ rows[s] \subseteq rows'[s] /\ rows'[s] \in {{}, Row}
    BY <1>0, RowsGrow, SignupStep, Kinds DEF SignupsAreWhole
  <2>1. CASE ~Sign(s)
    <3>1. phase'[s] = phase[s]
      BY <1>0, <2>0, <2>1, PhaseFrame, Kinds DEF Other
    <3> QED BY <1>0, <2>0, <3>1 DEF AnswersAreTrue, Row
  <2>2. CASE Sign(s) /\ ~Commit(s)
    <3>1. phase'[s] # "created"
      BY <1>0, <2>0, <2>2 DEF Sign, SignUp, CheckEmail, EmailTaken, UniqueViolation, SaveUser,
         SaveAccount, AddEvent, CommitUnanswered, LoseConnection, Goto, TypeOK
    <3> QED BY <3>1
  <2>3. CASE Commit(s)
    <3>1. pending[s] = Row
      BY <1>0, <2>3 DEF Commit, Goto, SignupsMatchPhases, Inserted
    <3> QED BY <1>0, <2>0, <2>3, <3>1 DEF Commit, EndTransaction, TypeOK, Row
  <2> QED BY <2>1, <2>2, <2>3
<1>2. ASSUME NEW o \in Openings PROVE phase'[o] = "created" => wallets'[asks.slot[o]] = o
  <2>0. asks.slot[o] \in Slots /\ o # Nobody /\ o \in Requests /\ o \notin SignUps
    BY <1>0, Kinds, AsksType DEF TypeOK
  <2>1. CASE ~OpenWallet(o)
    <3>1. phase'[o] = phase[o]
      BY <1>0, <2>0, <2>1, PhaseFrame, Kinds DEF Other
    <3> QED BY <1>0, <2>0, <3>1, WalletsStay DEF AnswersAreTrue
  <2>2. CASE OpenWallet(o)
    BY <1>0, <2>0, <2>2 DEF OpenWallet, FindWallet, InsertWallet, InsertRefused, Goto, TypeOK
  <2> QED BY <2>1, <2>2
<1>3. ASSUME NEW l \in Logins
      PROVE  /\ phase'[l] # "noAccount"
             /\ phase'[l] = "token" => /\ asks.secret[l] \in UserRow(asks.email[l])'
                                       /\ AccountExists(asks.secret[l])'
  <2>0. l \in Requests /\ l \notin SignUps
    BY Kinds
  <2>1. /\ UserRow(asks.email[l]) \subseteq UserRow(asks.email[l])'
        /\ \A s \in UserRow(asks.email[l]) : AccountExists(s) => AccountExists(s)'
    BY <1>0, RowsGrow, UserRowsGrow DEF UserRow, AccountExists
  <2>2. CASE ~Login(l)
    <3>1. phase'[l] = phase[l]
      BY <1>0, <2>0, <2>2, PhaseFrame, Kinds DEF Other
    <3> QED BY <1>0, <2>1, <3>1 DEF AnswersAreTrue
  <2>3. CASE FindUser(l) \/ ComparePassword(l) \/ InvalidCredentials(l)
    BY <1>0, <2>0, <2>3 DEF FindUser, ComparePassword, InvalidCredentials, Goto, TypeOK
  <2>4. CASE GenerateToken(l)
    <3>1. chosen[l] \in UserRow(asks.email[l]) /\ asks.secret[l] = chosen[l]
      BY <2>4 DEF GenerateToken, Goto, IInv, LoginsMatchPhases
    <3>2. AccountExists(chosen[l])
      BY <1>0, <3>1 DEF UserRow, SignupsAreWhole, AccountExists, Row
    <3>3. phase'[l] = "token"
      BY <1>0, <2>0, <2>4, <3>2 DEF GenerateToken, Goto, TypeOK
    <3> QED BY <1>0, <2>1, <3>1, <3>2, <3>3
  <2> QED BY <2>2, <2>3, <2>4 DEF Login
<1> QED BY <1>0, <1>1, <1>2, <1>3 DEF AnswersAreTrue

\* The invariant holds at the start: nothing is inserted or answered.
LEMMA InvInit == Init => IInv
<1> SUFFICES ASSUME Init PROVE IInv
  OBVIOUS
<1>1. \A r \in Requests : phase[r] \in {"received", "absent"}
  BY DEF Init
<1>2. \A s \in SignUps : pending[s] = {} /\ rows[s] = {}
  BY DEF Init
<1>3. SignupsMatchPhases /\ SignupsAreWhole /\ OneHolder
  BY <1>1, <1>2, Kinds DEF SignupsMatchPhases, SignupsAreWhole, OneHolder, Inserted, Row
<1>4. LoginsMatchPhases /\ AnswersAreTrue
  BY <1>1, Kinds DEF LoginsMatchPhases, AnswersAreTrue
<1> QED BY <1>3, <1>4, TypeInit DEF IInv

\* Every step keeps the invariant.
LEMMA InvStep == IInv /\ [Next]_vars => IInv'
<1> SUFFICES ASSUME IInv, [Next]_vars PROVE IInv'
  OBVIOUS
<1>1. TypeOK'
  BY TypeStep DEF IInv
<1> QED BY <1>1, SignupStep, HolderStep, LoginStep, AnswerStep DEF IInv

\* The inductive invariant: one holder per email, whole signups and logins
\* that know whom they found, for any requests.
THEOREM InvariantHolds == Spec => []IInv
BY InvInit, InvStep, PTL DEF Spec

\* A 201 means the row is the caller's own, a token is for the account of
\* whoever knows the password, and no login meets a user without an account.
THEOREM AnswersAlwaysTrue == Spec => []AnswersAreTrue
<1>1. IInv => AnswersAreTrue
  BY DEF IInv
<1> QED BY <1>1, InvariantHolds, PTL

\* A signup leaves its user, account and event, or nothing, whatever fails.
THEOREM SignupsAlwaysWhole == Spec => []SignupsAreWhole
<1>1. IInv => SignupsAreWhole
  BY DEF IInv
<1> QED BY <1>1, InvariantHolds, PTL

-----------------------------------------------------------------------------
(* Emails and wallet slots implement the registry *)

\* What the claimants want are names, each of one kind.
LEMMA WantedType ==
  ASSUME TypeOK
  PROVE  /\ \A s \in SignUps : Wanted[s] = asks.email[s] /\ Wanted[s] \in Emails
         /\ \A o \in Openings : /\ Wanted[o] = asks.slot[o] /\ Wanted[o] \in Slots
                                /\ Wanted[o] \notin Emails
         /\ Wanted \in [Claimants -> Names]
<1>1. asks.email \in [SignUps \cup Logins -> Emails] /\ asks.slot \in [Openings -> Slots]
  BY AsksType DEF TypeOK
<1>2. \A s \in SignUps : Wanted[s] = asks.email[s] /\ Wanted[s] \in Emails
  BY <1>1 DEF Wanted, Claimants
<1>3. \A o \in Openings : /\ Wanted[o] = asks.slot[o] /\ Wanted[o] \in Slots
                          /\ Wanted[o] \notin Emails
  BY <1>1, Kinds, NamesAssumption DEF Wanted, Claimants
<1>4. \A r \in Claimants : Wanted[r] \in Names
  BY <1>2, <1>3 DEF Claimants, Names
<1> QED BY <1>2, <1>3, <1>4 DEF Wanted

\* A name is owned by the only signup for it, or by its wallet's opening.
LEMMA OwnersAre ==
  ASSUME OneHolder
  PROVE  /\ \A email \in Emails : UserRow(email) = {} => Owners[email] = Nobody
         /\ \A email \in Emails : \A s \in UserRow(email) : Owners[email] = s
         /\ \A slot \in Slots : Owners[slot] = wallets[slot]
<1>1. ASSUME NEW email \in Emails PROVE Owners[email] = OwnerOf(email)
  BY DEF Owners, Names
<1>2. ASSUME NEW email \in Emails, NEW s \in UserRow(email) PROVE Owners[email] = s
  <2>1. \A t \in UserRow(email) : t = s
    BY DEF OneHolder, UserRow
  <2>2. (CHOOSE t \in UserRow(email) : TRUE) \in UserRow(email)
    OBVIOUS
  <2> QED BY <1>1, <2>1, <2>2 DEF OwnerOf
<1>3. \A slot \in Slots : Owners[slot] = wallets[slot]
  BY NamesAssumption DEF Owners, Names, OwnerOf
<1> QED BY <1>1, <1>2, <1>3 DEF OwnerOf

\* A step that keeps the user rows and the wallets keeps the owners.
LEMMA OwnersKept ==
  ASSUME asks' = asks, wallets' = wallets,
         \A s \in SignUps : "user" \in rows'[s] <=> "user" \in rows[s]
  PROVE  Owners' = Owners
<1>1. ASSUME NEW name \in Names PROVE OwnerOf(name)' = OwnerOf(name)
  <2>1. UserRow(name)' = UserRow(name)
    BY DEF UserRow
  <2> QED BY <2>1 DEF OwnerOf
<1> QED BY <1>1 DEF Owners

Words == {"created", "conflict", "failed"}

\* A step of one claimant tells nobody else anything.
LEMMA Tells ==
  ASSUME TypeOK, asks' = asks, NEW r \in Claimants,
         \A q \in Claimants \ {r} : phase'[q] = phase[q]
  PROVE  /\ Wanted' = Wanted
         /\ Told' = [Told EXCEPT ![r] = IF phase'[r] \in Words THEN phase'[r] ELSE "none"]
         /\ phase[r] \notin Words => Told[r] = "none"
         /\ phase[r] \notin Words /\ phase'[r] \notin Words => Told' = Told
BY DEF Wanted, Told, Words

\* A signup claims its email with its commit, and is refused or fails without.
LEMMA SignRegisters ==
  ASSUME IInv, IInv', [Next]_vars, NEW s \in SignUps, Sign(s)
  PROVE  Unique!Next \/ UNCHANGED <<Wanted, Owners, Told>>
<1>0. /\ TypeOK /\ OneHolder /\ OneHolder' /\ asks' = asks /\ wallets' = wallets
      /\ s \in Requests /\ s \in Claimants /\ s # Nobody /\ Claimants \subseteq Requests
      /\ \A r \in Requests \ {s} : phase'[r] = phase[r]
      /\ \A t \in SignUps \ {s} : rows'[t] = rows[t]
  BY SignStep, Kinds DEF IInv, Claimants, Requests
<1>1. /\ Wanted' = Wanted
      /\ Told' = [Told EXCEPT ![s] = IF phase'[s] \in Words THEN phase'[s] ELSE "none"]
      /\ phase[s] \notin Words => Told[s] = "none"
      /\ phase[s] \notin Words /\ phase'[s] \notin Words => Told' = Told
  BY <1>0, Tells
<1>2. Wanted[s] = asks.email[s] /\ Wanted[s] \in Emails
  BY <1>0, WantedType
<1>3. CASE CheckEmail(s) \/ SaveUser(s) \/ SaveAccount(s) \/ AddEvent(s)
  <2>1. rows' = rows /\ phase[s] \notin Words /\ phase'[s] \notin Words
    BY <1>0, <1>3 DEF CheckEmail, SaveUser, SaveAccount, AddEvent, Insert, signup, Goto, Words,
       TypeOK
  <2> QED BY <1>0, <1>1, <2>1, OwnersKept
<1>4. CASE EmailTaken(s) \/ UniqueViolation(s)
  <2>1. /\ rows' = rows /\ phase[s] \notin Words /\ phase'[s] = "conflict"
        /\ UserRow(asks.email[s]) # {}
    BY <1>0, <1>4 DEF EmailTaken, UniqueViolation, signup, Goto, Words, TypeOK
  <2>2. Owners' = Owners
    BY <1>0, <2>1, OwnersKept
  <2>3. Owners[Wanted[s]] # Nobody
    BY <1>0, <1>2, <2>1, OwnersAre, Kinds DEF UserRow
  <2> QED BY <1>0, <1>1, <2>1, <2>2, <2>3 DEF Unique!Next, Unique!Refuse, Unique!Tell, Words
<1>5. CASE LoseConnection(s)
  <2>1. /\ rows'[s] = rows[s] /\ phase[s] \notin Words /\ phase'[s] = "failed"
    BY <1>0, <1>5 DEF LoseConnection, EndTransaction, Words, TypeOK
  <2>2. Owners' = Owners
    BY <1>0, <2>1, OwnersKept
  <2> QED BY <1>0, <1>1, <2>1, <2>2 DEF Unique!Next, Unique!Fail, Unique!Tell, Words
<1>6. CASE Commit(s) \/ CommitUnanswered(s)
  <2>1. /\ phase[s] = "commit" /\ phase'[s] \in {"created", "failed"}
        /\ rows'[s] = rows[s] \cup pending[s]
    BY <1>0, <1>6 DEF Commit, CommitUnanswered, EndTransaction, Goto, TypeOK
  <2>2. pending[s] = Row /\ rows[s] = {}
    BY <2>1 DEF IInv, SignupsMatchPhases, SignupsAreWhole, Inserted
  <2>3. UserRow(asks.email[s]) = {}
    BY <1>0, <2>2 DEF UserRow, OneHolder, Row
  <2>4. Owners[Wanted[s]] = Nobody
    BY <1>0, <1>2, <2>3, OwnersAre
  <2>5. s \in UserRow(asks.email[s])'
    BY <1>0, <2>1, <2>2 DEF UserRow, Row
  <2>6. ASSUME NEW name \in Names, name = asks.email[s] PROVE OwnerOf(name)' = s
    <3>1. \A t \in UserRow(asks.email[s])' : t = s
      BY <1>0, <2>5 DEF OneHolder, UserRow
    <3>2. (CHOOSE t \in UserRow(asks.email[s])' : TRUE) \in UserRow(asks.email[s])'
      BY <2>5
    <3> QED BY <1>0, <1>2, <2>5, <2>6, <3>1, <3>2 DEF OwnerOf
  <2>7. ASSUME NEW name \in Names, name # asks.email[s] PROVE OwnerOf(name)' = OwnerOf(name)
    <3>1. UserRow(name)' = UserRow(name)
      BY <1>0, <2>2, <2>7 DEF UserRow
    <3> QED BY <1>0, <3>1 DEF OwnerOf
  <2>8. Owners' = [Owners EXCEPT ![Wanted[s]] = s]
    <3>1. \A name \in Names : OwnerOf(name)' = IF name = Wanted[s] THEN s ELSE OwnerOf(name)
      BY <1>2, <2>6, <2>7
    <3> QED BY <1>2, <3>1 DEF Owners
  <2> QED BY <1>0, <1>1, <2>1, <2>4, <2>8
          DEF Unique!Next, Unique!Register, Unique!Tell, Words
<1> QED BY <1>3, <1>4, <1>5, <1>6 DEF Sign, SignUp

\* An opening claims its slot with its insert.
LEMMA OpeningRegisters ==
  ASSUME IInv, [Next]_vars, NEW o \in Openings, OpenWallet(o)
  PROVE  Unique!Next \/ UNCHANGED <<Wanted, Owners, Told>>
<1>0. /\ TypeOK /\ OneHolder /\ o \in Requests /\ o \in Claimants
      /\ Claimants \subseteq Requests /\ Other(o)
  BY Kinds DEF IInv, Claimants, Requests, Other
<1>1. /\ asks' = asks /\ rows' = rows
      /\ \A r \in Requests \ {o} : phase'[r] = phase[r]
  BY <1>0, OtherStep
<1>2. /\ Wanted' = Wanted
      /\ Told' = [Told EXCEPT ![o] = IF phase'[o] \in Words THEN phase'[o] ELSE "none"]
      /\ phase[o] \notin Words => Told[o] = "none"
      /\ phase[o] \notin Words /\ phase'[o] \notin Words => Told' = Told
  BY <1>0, <1>1, Tells
<1>3. /\ Wanted[o] = asks.slot[o] /\ Wanted[o] \in Slots /\ Wanted[o] \notin Emails
      /\ Owners[Wanted[o]] = wallets[asks.slot[o]]
  BY <1>0, WantedType, OwnersAre
<1>4. CASE InsertWallet(o)
  <2>1. /\ phase[o] \notin Words /\ phase'[o] \in {"created", "failed"}
        /\ wallets[asks.slot[o]] = Nobody /\ wallets' = [wallets EXCEPT ![asks.slot[o]] = o]
    BY <1>0, <1>4 DEF InsertWallet, Goto, Words, TypeOK
  <2>2. ASSUME NEW name \in Names, name = asks.slot[o] PROVE OwnerOf(name)' = o
    BY <1>0, <1>1, <1>3, <2>1, <2>2 DEF OwnerOf, TypeOK
  <2>3. ASSUME NEW name \in Names, name # asks.slot[o] PROVE OwnerOf(name)' = OwnerOf(name)
    <3>1. UserRow(name)' = UserRow(name)
      BY <1>1 DEF UserRow
    <3>2. name \notin Emails => wallets'[name] = wallets[name]
      BY <1>0, <2>1, <2>3 DEF Names, TypeOK
    <3> QED BY <3>1, <3>2 DEF OwnerOf
  <2>4. Owners' = [Owners EXCEPT ![Wanted[o]] = o]
    <3>1. \A name \in Names : OwnerOf(name)' = IF name = Wanted[o] THEN o ELSE OwnerOf(name)
      BY <1>3, <2>2, <2>3
    <3> QED BY <1>3, <3>1 DEF Owners
  <2> QED BY <1>0, <1>2, <1>3, <2>1, <2>4
          DEF Unique!Next, Unique!Register, Unique!Tell, Words
<1>5. CASE FindWallet(o) \/ InsertRefused(o)
  <2>1. /\ wallets' = wallets /\ phase[o] \notin Words
        /\ phase'[o] \in {"conflict", "failed", "insertWallet"}
        /\ phase'[o] = "conflict" => wallets[asks.slot[o]] # Nobody
    BY <1>0, <1>5 DEF FindWallet, InsertRefused, Goto, Words, TypeOK
  <2>2. Owners' = Owners
    BY <1>1, <2>1, OwnersKept
  <2>3. CASE phase'[o] = "conflict"
    BY <1>0, <1>2, <1>3, <2>1, <2>2, <2>3 DEF Unique!Next, Unique!Refuse, Unique!Tell, Words
  <2>4. CASE phase'[o] = "failed"
    BY <1>0, <1>2, <2>1, <2>2, <2>4 DEF Unique!Next, Unique!Fail, Unique!Tell, Words
  <2>5. CASE phase'[o] = "insertWallet"
    BY <1>2, <2>1, <2>2, <2>5 DEF Words
  <2> QED BY <2>1, <2>3, <2>4, <2>5
<1> QED BY <1>4, <1>5 DEF OpenWallet

\* Logins and submissions claim nothing.
LEMMA OthersRegisterNothing ==
  ASSUME TypeOK, NEW r \in Requests, Other(r), r \notin Openings
  PROVE  UNCHANGED <<Wanted, Owners, Told>>
<1>1. /\ asks' = asks /\ rows' = rows /\ wallets' = wallets
      /\ \A q \in Claimants : phase'[q] = phase[q]
  <2>1. wallets' = wallets
    BY DEF Other, Login, FindUser, ComparePassword, InvalidCredentials, GenerateToken,
       SubmitKyc, FindProfile, SaveProfile, SaveProfileFails, Archive, ArchiveFails
  <2>2. \A q \in Claimants : q \in Requests /\ (q \in SignUps \/ q # r)
    BY DEF Claimants, Requests
  <2> QED BY <2>1, <2>2, OtherStep
<1> QED BY <1>1, OwnersKept DEF Wanted, Told

\* Initially nobody owns anything and nobody has been told anything.
LEMMA RegistryInit == Init => Unique!Init
<1> SUFFICES ASSUME Init PROVE Unique!Init
  OBVIOUS
<1>1. TypeOK
  BY TypeInit
<1>2. \A email : UserRow(email) = {}
  BY DEF Init, UserRow
<1>3. \A name \in Names : OwnerOf(name) = Nobody
  BY <1>2 DEF Init, OwnerOf, Names
<1>4. \A r \in Claimants : phase[r] \in {"received", "absent"}
  BY DEF Init, Claimants, Requests
<1>5. Wanted \in [Claimants -> Names]
  BY <1>1, WantedType
<1>6. Owners = Unique!Unowned
  BY <1>3 DEF Owners, Unique!Unowned
<1>7. Told = [r \in Claimants |-> "none"]
  BY <1>4 DEF Told
<1> QED BY <1>5, <1>6, <1>7 DEF Unique!Init

\* Check-then-insert with a unique constraint behind it gives every email and
\* every (account, currency) one owner, and every refusal is justified, for
\* any requests and however they race.
THEOREM RegistryImplemented == Spec => ImplementsRegistry
<1>1. IInv /\ IInv' /\ [Next]_vars => [Unique!Next]_<<Wanted, Owners, Told>>
  <2> SUFFICES ASSUME IInv, IInv', [Next]_vars
               PROVE  Unique!Next \/ UNCHANGED <<Wanted, Owners, Told>>
    OBVIOUS
  <2>1. ASSUME NEW s \in SignUps, Sign(s)
        PROVE  Unique!Next \/ UNCHANGED <<Wanted, Owners, Told>>
    BY <2>1, SignRegisters
  <2>2. ASSUME NEW r \in Requests, Other(r)
        PROVE  Unique!Next \/ UNCHANGED <<Wanted, Owners, Told>>
    <3>1. CASE r \in Openings
      BY <2>2, <3>1, OpeningRegisters, Kinds DEF Other
    <3>2. CASE r \notin Openings
      BY <2>2, <3>2, OthersRegisterNothing DEF IInv
    <3> QED BY <3>1, <3>2
  <2>3. CASE UNCHANGED vars
    BY <2>3, OwnersKept DEF vars, signup, Wanted, Told
  <2> QED BY <2>1, <2>2, <2>3, StepKinds
<1> QED BY <1>1, RegistryInit, InvariantHolds, PTL DEF Spec, ImplementsRegistry, Unique!Spec

-----------------------------------------------------------------------------
(* Dossiers and profiles *)

\* Profiles and dossiers are filed under ids of their own account.
IdsAreOwn ==
  /\ \A a \in SignUps : profiles[a] # NoProfile =>
       /\ profiles[a].id \in Submissions /\ profiles[a].content \in Submissions
       /\ asks.account[profiles[a].id] = a
  /\ \A k \in Submissions : phase[k] \in {"saveProfile", "archive"} =>
       chosen[k] \in Submissions /\ asks.account[chosen[k]] = asks.account[k]
  /\ \A id \in Submissions : dossiers[id] # Nobody =>
       asks.account[dossiers[id]] = asks.account[id]

\* An account whose submissions never overlapped: what the one under way knows
\* of the profile is so, and all its dossiers are one, under the profile's id.
InOrder(a) ==
  /\ \A k, l \in Underway(a) : k = l
  /\ \A k \in Underway(a) :
       IF phase[k] = "saveProfile"
       THEN chosen[k] = IF profiles[a] = NoProfile THEN k ELSE profiles[a].id
       ELSE profiles[a] = [id |-> chosen[k], content |-> k] /\ a \in unarchived
  /\ \A id \in Submissions :
       dossiers[id] # Nobody /\ asks.account[dossiers[id]] = a =>
         profiles[a] # NoProfile /\ id = profiles[a].id
  /\ profiles[a] # NoProfile /\ a \notin unarchived =>
       dossiers[profiles[a].id] = profiles[a].content

KycInv == IdsAreOwn /\ \A a \in SignUps \ tangled : InOrder(a)

\* A step that is not a submission's, or moves no profile, leaves it all alone.
LEMMA KycUntouched ==
  ASSUME KycInv, UNCHANGED <<asks, profiles, dossiers, tangled, unarchived>>,
         \A k \in Submissions : phase'[k] = phase[k] /\ chosen'[k] = chosen[k]
  PROVE  KycInv'
<1>1. IdsAreOwn'
  BY DEF KycInv, IdsAreOwn
<1>2. \A a \in SignUps : Underway(a)' = Underway(a)
  BY DEF Underway
<1>3. ASSUME NEW a \in SignUps \ tangled PROVE InOrder(a)'
  <2>1. InOrder(a) /\ Underway(a) \subseteq Submissions
    BY DEF KycInv, Underway
  <2> QED BY <1>2, <2>1 DEF InOrder
<1> QED BY <1>1, <1>2, <1>3 DEF KycInv

\* What a step of submission k leaves alone, and who is under way after it.
LEMMA SubmissionStep ==
  ASSUME TypeOK, NEW k \in Submissions, SubmitKyc(k)
  PROVE  /\ asks' = asks /\ asks.account \in [Submissions -> SignUps]
         /\ \A l \in Submissions \ {k} : phase'[l] = phase[l] /\ chosen'[l] = chosen[l]
         /\ \A a \in SignUps : a # asks.account[k] =>
              /\ Underway(a)' = Underway(a) /\ k \notin Underway(a)
              /\ profiles'[a] = profiles[a]
              /\ a \in unarchived' <=> a \in unarchived
              /\ a \in tangled' <=> a \in tangled
<1>1. asks' = asks /\ asks.account \in [Submissions -> SignUps]
  BY AsksType
     DEF TypeOK, SubmitKyc, FindProfile, SaveProfile, SaveProfileFails, Archive, ArchiveFails
<1>2. \A l \in Submissions \ {k} : phase'[l] = phase[l] /\ chosen'[l] = chosen[l]
  BY Kinds DEF TypeOK, Goto,
     SubmitKyc, FindProfile, SaveProfile, SaveProfileFails, Archive, ArchiveFails
<1>3. ASSUME NEW a \in SignUps, a # asks.account[k]
      PROVE  /\ profiles'[a] = profiles[a]
             /\ a \in unarchived' <=> a \in unarchived
             /\ a \in tangled' <=> a \in tangled
  BY <1>3 DEF TypeOK, Upsert,
     SubmitKyc, FindProfile, SaveProfile, SaveProfileFails, Archive, ArchiveFails
<1>4. ASSUME NEW a \in SignUps, a # asks.account[k]
      PROVE  Underway(a)' = Underway(a) /\ k \notin Underway(a)
  BY <1>1, <1>2, <1>4 DEF Underway
<1> QED BY <1>1, <1>2, <1>3, <1>4

\* Ids stay with their accounts.
LEMMA IdsStep ==
  ASSUME TypeOK, IdsAreOwn, NEW k \in Submissions, SubmitKyc(k)
  PROVE  IdsAreOwn'
<1> DEFINE a == asks.account[k]
<1>0. k \in Requests /\ a \in SignUps /\ a # Nobody
  BY SubmissionStep, Kinds
<1>1. CASE FindProfile(k)
  <2>1. /\ phase'[k] = "saveProfile" /\ phase' = [phase EXCEPT ![k] = "saveProfile"]
        /\ chosen'[k] = IF profiles[a] = NoProfile THEN k ELSE profiles[a].id
        /\ UNCHANGED <<asks, profiles, dossiers>>
    BY <1>0, <1>1 DEF FindProfile, Goto, TypeOK
  <2>2. chosen'[k] \in Submissions /\ asks.account[chosen'[k]] = a
    BY <1>0, <2>1 DEF IdsAreOwn
  <2> QED BY <2>1, <2>2, SubmissionStep DEF IdsAreOwn
<1>2. CASE SaveProfile(k) \/ SaveProfileFails(k)
  <2>1. chosen' = chosen /\ phase[k] = "saveProfile" /\ UNCHANGED <<asks, dossiers>>
    BY <1>2 DEF SaveProfile, SaveProfileFails, Goto
  <2>2. chosen[k] \in Submissions /\ asks.account[chosen[k]] = a
    BY <2>1 DEF IdsAreOwn
  <2>3. ASSUME profiles'[a] # NoProfile
        PROVE  /\ profiles'[a].id \in Submissions /\ profiles'[a].content \in Submissions
               /\ asks.account[profiles'[a].id] = a
    <3>1. CASE profiles' = profiles
      BY <1>0, <2>3, <3>1 DEF IdsAreOwn
    <3>2. CASE Upsert(k, a)
      <4>1. profiles'[a] = [id |-> IF profiles[a] = NoProfile THEN chosen[k] ELSE profiles[a].id,
                            content |-> k]
        BY <1>0, <3>2 DEF Upsert, TypeOK
      <4> QED BY <1>0, <2>2, <4>1 DEF IdsAreOwn
    <3> QED BY <1>2, <3>1, <3>2 DEF SaveProfile, SaveProfileFails
  <2> QED BY <2>1, <2>2, <2>3, SubmissionStep DEF IdsAreOwn
<1>3. CASE Archive(k) \/ ArchiveFails(k)
  <2>1. /\ chosen' = chosen /\ phase[k] = "archive" /\ UNCHANGED <<asks, profiles>>
        /\ dossiers' \in {dossiers, [dossiers EXCEPT ![chosen[k]] = k]}
    BY <1>3 DEF Archive, ArchiveFails, Goto
  <2>2. chosen[k] \in Submissions /\ asks.account[chosen[k]] = a
    BY <2>1 DEF IdsAreOwn
  <2>3. \A id \in Submissions : dossiers'[id] # Nobody =>
          asks.account[dossiers'[id]] = asks.account[id]
    BY <2>1, <2>2 DEF IdsAreOwn, TypeOK
  <2>4. phase'[k] \in {"verified", "failed"}
    BY <1>0, <1>3 DEF Archive, ArchiveFails, Goto, TypeOK
  <2> QED BY <2>1, <2>2, <2>3, <2>4, SubmissionStep DEF IdsAreOwn
<1> QED BY <1>1, <1>2, <1>3 DEF SubmitKyc

\* A submission leaves the accounts of others in order: it writes no dossier
\* under an id of theirs, and none that names them.
LEMMA OthersInOrder ==
  ASSUME TypeOK, IdsAreOwn, NEW k \in Submissions, SubmitKyc(k),
         NEW a \in SignUps, a # asks.account[k], InOrder(a)
  PROVE  InOrder(a)'
<1>1. /\ Underway(a)' = Underway(a) /\ k \notin Underway(a)
      /\ profiles'[a] = profiles[a] /\ asks' = asks
      /\ a \in unarchived' <=> a \in unarchived
  BY SubmissionStep
<1>2. \A l \in Underway(a) : phase'[l] = phase[l] /\ chosen'[l] = chosen[l]
  BY <1>1, SubmissionStep DEF Underway
<1>3. \A id \in Submissions :
        \/ dossiers'[id] = dossiers[id]
        \/ /\ dossiers'[id] # Nobody /\ asks.account[dossiers'[id]] # a
           /\ asks.account[id] # a
  <2>1. CASE Archive(k) \/ ArchiveFails(k)
    <3>1. phase[k] = "archive" /\ dossiers' \in {dossiers, [dossiers EXCEPT ![chosen[k]] = k]}
      BY <2>1 DEF Archive, ArchiveFails, Goto
    <3>2. asks.account[chosen[k]] = asks.account[k]
      BY <3>1 DEF IdsAreOwn
    <3> QED BY <3>1, <3>2, Kinds DEF TypeOK
  <2>2. CASE ~Archive(k) /\ ~ArchiveFails(k)
    BY <2>2 DEF SubmitKyc, FindProfile, SaveProfile, SaveProfileFails
  <2> QED BY <2>1, <2>2
<1>4. \A id \in Submissions :
        dossiers'[id] # Nobody /\ asks.account[dossiers'[id]] = a =>
          profiles[a] # NoProfile /\ id = profiles[a].id
  BY <1>3 DEF InOrder
<1>5. profiles[a] # NoProfile /\ a \notin unarchived =>
        dossiers'[profiles[a].id] = profiles[a].content
  BY <1>3 DEF InOrder, IdsAreOwn
<1> QED BY <1>1, <1>2, <1>4, <1>5 DEF InOrder

\* A submission of an account with no other under way leaves it in order.
LEMMA OwnInOrder ==
  ASSUME TypeOK, IdsAreOwn, NEW k \in Submissions, SubmitKyc(k),
         NEW a, a = asks.account[k], InOrder(a), a \notin tangled'
  PROVE  InOrder(a)'
<1>0. k \in Requests /\ a \in SignUps /\ asks' = asks
  BY SubmissionStep, Kinds
<1>1. CASE FindProfile(k)
  <2>1. /\ Underway(a) = {} /\ phase'[k] = "saveProfile"
        /\ chosen'[k] = IF profiles[a] = NoProfile THEN k ELSE profiles[a].id
        /\ UNCHANGED <<profiles, dossiers, unarchived>>
    BY <1>0, <1>1 DEF FindProfile, Goto, TypeOK
  <2>2. Underway(a)' = {k}
    BY <1>0, <2>1, SubmissionStep DEF Underway
  <2> QED BY <1>0, <2>1, <2>2 DEF InOrder
<1>2. CASE SaveProfile(k) \/ SaveProfileFails(k)
  <2>1. /\ phase[k] = "saveProfile" /\ k \in Underway(a) /\ UNCHANGED <<chosen, dossiers>>
    BY <1>0, <1>2 DEF SaveProfile, SaveProfileFails, Goto, Underway
  <2>2. Underway(a) = {k} /\ chosen[k] = IF profiles[a] = NoProfile THEN k ELSE profiles[a].id
    BY <2>1 DEF InOrder
  <2>3. Underway(a)' \subseteq {k} /\ (k \in Underway(a)' => SaveProfile(k) /\ phase'[k] = "archive")
    BY <1>0, <1>2, <2>2, SubmissionStep
       DEF Underway, SaveProfile, SaveProfileFails, Goto, TypeOK
  <2>4. CASE Upsert(k, a)
    <3>1. profiles'[a] = [id |-> chosen[k], content |-> k] /\ a \in unarchived'
      BY <1>0, <2>2, <2>4 DEF Upsert, TypeOK
    <3>2. profiles'[a] # NoProfile /\ profiles'[a].id = chosen[k]
      BY <3>1, Kinds DEF NoProfile
    <3>3. \A id \in Submissions :
            dossiers[id] # Nobody /\ asks.account[dossiers[id]] = a => id = chosen[k]
      BY <2>2 DEF InOrder
    <3>4. \A l \in Underway(a)' : l = k /\ phase'[l] # "saveProfile"
      BY <2>3
    <3> QED BY <1>0, <2>1, <3>1, <3>2, <3>3, <3>4 DEF InOrder
  <2>5. CASE SaveProfileFails(k) /\ UNCHANGED <<profiles, unarchived>>
    <3>1. Underway(a)' = {}
      BY <1>0, <2>3, <2>5 DEF SaveProfileFails, Goto, TypeOK
    <3> QED BY <1>0, <2>1, <2>5, <3>1 DEF InOrder
  <2> QED BY <1>2, <2>4, <2>5 DEF SaveProfile, SaveProfileFails
<1>3. CASE Archive(k) \/ ArchiveFails(k)
  <2>1. /\ phase[k] = "archive" /\ k \in Underway(a) /\ UNCHANGED profiles
    BY <1>0, <1>3 DEF Archive, ArchiveFails, Goto, Underway
  <2>2. Underway(a) = {k} /\ profiles[a] = [id |-> chosen[k], content |-> k]
    BY <2>1 DEF InOrder
  <2>3. Underway(a)' = {}
    <3>1. phase'[k] \in {"verified", "failed"}
      BY <1>0, <1>3 DEF Archive, ArchiveFails, Goto, TypeOK
    <3> QED BY <1>0, <2>2, <3>1, SubmissionStep DEF Underway
  <2>4. profiles[a] # NoProfile /\ profiles[a].id = chosen[k] /\ profiles[a].content = k
    BY <2>2, Kinds DEF NoProfile
  <2>5. chosen[k] \in Submissions
    BY <2>1 DEF IdsAreOwn
  <2>6. CASE Archive(k)
    <3>1. dossiers' = [dossiers EXCEPT ![chosen[k]] = k]
      BY <2>6 DEF Archive
    <3> QED BY <1>0, <2>1, <2>3, <2>4, <2>5, <3>1 DEF InOrder, TypeOK
  <2>7. CASE ArchiveFails(k)
    <3>1. dossiers' \in {dossiers, [dossiers EXCEPT ![chosen[k]] = k]} /\ unarchived' = unarchived
      BY <2>7 DEF ArchiveFails
    <3>2. a \in unarchived
      BY <2>1, <2>7 DEF InOrder
    <3> QED BY <1>0, <2>1, <2>3, <2>4, <2>5, <3>1, <3>2 DEF InOrder, TypeOK
  <2> QED BY <1>3, <2>6, <2>7
<1> QED BY <1>1, <1>2, <1>3 DEF SubmitKyc

\* KycInv is inductive on top of the types.
LEMMA KycStep == TypeOK /\ KycInv /\ [Next]_vars => KycInv'
<1> SUFFICES ASSUME TypeOK, KycInv, [Next]_vars PROVE KycInv'
  OBVIOUS
<1>1. ASSUME NEW s \in SignUps, Sign(s) PROVE KycInv'
  BY <1>1, SignStep, Kinds, KycUntouched DEF Requests
<1>2. ASSUME NEW r \in Requests, Other(r) PROVE KycInv'
  <2>1. CASE r \in Logins /\ Login(r)
    <3>1. /\ UNCHANGED <<profiles, dossiers, tangled, unarchived>>
          /\ \A k \in Submissions : chosen'[k] = chosen[k]
      BY <2>1, Kinds
         DEF Login, FindUser, ComparePassword, InvalidCredentials, GenerateToken, TypeOK, kyc
    <3> QED BY <1>2, <2>1, <3>1, OtherStep, Kinds, KycUntouched DEF Requests
  <2>2. CASE r \in Openings /\ OpenWallet(r)
    <3>1. UNCHANGED <<chosen, profiles, dossiers, tangled, unarchived>>
      BY <2>2 DEF OpenWallet, FindWallet, InsertWallet, InsertRefused, kyc
    <3> QED BY <1>2, <2>2, <3>1, OtherStep, Kinds, KycUntouched DEF Requests
  <2>3. CASE r \in Submissions /\ SubmitKyc(r)
    <3>1. IdsAreOwn'
      BY <2>3, IdsStep DEF KycInv
    <3>2. ASSUME NEW a \in SignUps \ tangled' PROVE InOrder(a)'
      <4>1. a \notin tangled
        BY <2>3 DEF SubmitKyc, FindProfile, SaveProfile, SaveProfileFails, Archive, ArchiveFails
      <4> QED BY <2>3, <4>1, OthersInOrder, OwnInOrder DEF KycInv
    <3> QED BY <3>1, <3>2 DEF KycInv
  <2> QED BY <1>2, <2>1, <2>2, <2>3 DEF Other
<1>3. CASE UNCHANGED vars
  BY <1>3, KycUntouched DEF vars, kyc
<1> QED BY <1>1, <1>2, <1>3, StepKinds

\* Where submissions never overlapped and Mongo took the last content, the
\* account's only dossier is under its profile's id and holds its content, for
\* any submissions and whatever else of them fails.
THEOREM DossiersFollowProfiles == Spec => []DossierFollowsProfile
<1>1. Init => KycInv
  <2> SUFFICES ASSUME Init PROVE KycInv
    OBVIOUS
  <2>1. \A k \in Submissions : phase[k] \in {"received", "absent"} /\ dossiers[k] = Nobody
    BY Kinds DEF Init
  <2>2. \A a \in SignUps : Underway(a) = {}
    BY <2>1 DEF Underway
  <2> QED BY <2>1, <2>2 DEF Init, KycInv, IdsAreOwn, InOrder
<1>2. TypeOK /\ KycInv => DossierFollowsProfile
  BY DEF KycInv, InOrder, DossierFollowsProfile
<1> QED BY <1>1, <1>2, KycStep, TypeCorrect, PTL DEF Spec

=============================================================================
