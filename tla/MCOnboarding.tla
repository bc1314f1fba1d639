---------------------------- MODULE MCOnboarding ----------------------------
(* Small instances of Onboarding. *)
EXTENDS Onboarding

CONSTANTS s1, s2, s3, l1, o1, o2, k1, k2, k3, ann, ben, usd

Base ==
  [ arriving |-> {},
    email    |-> [r \in {s1, s2, s3, l1} |-> IF r = s3 THEN ben ELSE ann],
    secret   |-> [l \in {l1} |-> s1],
    slot     |-> [o \in {o1, o2} |-> <<s1, usd>>],
    account  |-> [k \in {k1, k2, k3} |-> s1] ]

\* Three signups, two of them or all for one email, and a login.
SigningUp ==
  { [Base EXCEPT !.arriving = {s1, s2, s3, l1}, !.email = e] :
      e \in {Base.email, [Base.email EXCEPT ![s3] = ann]} }

\* Two openings of one wallet, before or after its account is there, and of
\* wallets that have nothing in common.
Opening ==
  { [Base EXCEPT !.arriving = {s1, s2, o1, o2}, !.slot[o2] = <<s, usd>>] : s \in {s1, s2} }

\* Three submissions for one account, or two for two.
Submitting ==
  { [Base EXCEPT !.arriving = {s1, k1, k2, k3}],
    [Base EXCEPT !.arriving = {s1, s3, k1, k3}, !.account[k3] = s3] }

MCScenarios == SigningUp \cup Opening \cup Submitting

=============================================================================
