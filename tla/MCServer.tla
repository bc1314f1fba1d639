------------------------------ MODULE MCServer ------------------------------
(* A small instance of Server: the configured times scaled down, in the same *)
(* order: a call < the shutdown timeout < a call that waits for a trial.     *)
EXTENDS Server

AllFaults == FaultKinds
MCRemaining == <<3, 1>>

=============================================================================
