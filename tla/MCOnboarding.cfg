SPECIFICATION FairSpec
CONSTANTS
  s1 = s1
  s2 = s2
  s3 = s3
  l1 = l1
  o1 = o1
  o2 = o2
  k1 = k1
  k2 = k2
  k3 = k3
  ann = ann
  ben = ben
  usd = usd
  SignUps = {s1, s2, s3}
  Logins = {l1}
  Openings = {o1, o2}
  Submissions = {k1, k2, k3}
  Emails = {ann, ben}
  Currencies = {usd}
  Nobody = Nobody
  Scenarios <- MCScenarios
INVARIANTS
  IInv
  AnswersAreTrue
  DossierFollowsProfile
PROPERTIES
  ImplementsRegistry
  EveryRequestIsAnswered
