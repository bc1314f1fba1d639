SPECIFICATION Spec
CONSTANTS
  Attempts = {a1, a2}
  Keys = {k1}
  NoAttempt = NoAttempt
  ClaimsExpire = TRUE
  Faults <- SaveFaults
INVARIANTS
  AtMostOneEffect
