------------------------------ MODULE Registry ------------------------------
(***************************************************************************)
(* What a request that claims a unique name is promised: the name has one  *)
(* owner for good, a refusal means somebody owns it, and a request that    *)
(* was told it succeeded is the owner.                                     *)
(***************************************************************************)
CONSTANTS Requests, Keys, Nobody

VARIABLES
  wants,     \* the key each request is about
  owner,     \* the request each key belongs to
  answer     \* what each request was told

Unowned == [k \in Keys |-> Nobody]

Init ==
  /\ wants \in [Requests -> Keys]
  /\ owner = Unowned
  /\ answer = [r \in Requests |-> "none"]

Tell(r, words) ==
  /\ answer[r] = "none"
  /\ \E word \in words : answer' = [answer EXCEPT ![r] = word]
  /\ UNCHANGED wants

\* The claim stands even when the answer is lost.
Register(r) ==
  /\ owner[wants[r]] = Nobody
  /\ owner' = [owner EXCEPT ![wants[r]] = r]
  /\ Tell(r, {"created", "failed"})

Refuse(r) ==
  /\ owner[wants[r]] # Nobody
  /\ Tell(r, {"conflict"})
  /\ UNCHANGED owner

Fail(r) == Tell(r, {"failed"}) /\ UNCHANGED owner

Next == \E r \in Requests : Register(r) \/ Refuse(r) \/ Fail(r)

Spec == Init /\ [][Next]_<<wants, owner, answer>>

=============================================================================
