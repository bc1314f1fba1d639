SPECIFICATION FairSpec
CONSTANTS
  Attempts = {a1, a2, a3}
  Keys = {k1, k2}
  NoAttempt = NoAttempt
  ClaimsExpire = TRUE
  Faults <- AllFaults
INVARIANTS
  DuplicatesNeedLostClaim
  RepliesAgree
  IInv
PROPERTIES
  NoWedgedKey
  ImplementsOnceOnly
