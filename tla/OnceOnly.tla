------------------------------ MODULE OnceOnly ------------------------------
(***************************************************************************)
(* What a client that sends an Idempotency-Key is promised: the operation  *)
(* behind a key happens at most once, and every successful answer for the  *)
(* key is the answer of that one execution.                                *)
(***************************************************************************)
CONSTANTS
  Attempts,     \* the HTTP requests
  Keys,
  NoAttempt

VARIABLES
  done,         \* the attempt that performed the key's operation
  reply         \* the attempt whose result a successful answer carries

Init ==
  /\ done = [k \in Keys |-> NoAttempt]
  /\ reply = [a \in Attempts |-> NoAttempt]

Perform(a, k) ==
  /\ done[k] = NoAttempt
  /\ done' = [done EXCEPT ![k] = a]
  /\ UNCHANGED reply

Answer(a, k) ==
  /\ done[k] # NoAttempt
  /\ reply[a] = NoAttempt
  /\ reply' = [reply EXCEPT ![a] = done[k]]
  /\ UNCHANGED done

Next == \E a \in Attempts, k \in Keys : Perform(a, k) \/ Answer(a, k)

Spec == Init /\ [][Next]_<<done, reply>>

=============================================================================
