------------------------ MODULE MCIdempotentRequests ------------------------
(* Small instances of IdempotentRequests. *)
EXTENDS IdempotentRequests

AllFaults == FaultKinds
SaveFaults == {"saveFails"}

=============================================================================
