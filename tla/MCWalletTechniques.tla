------------------------- MODULE MCWalletTechniques -------------------------
(* Small instances of WalletTechniques. *)
EXTENDS WalletTechniques

CONSTANTS w1, w2, w3

\* Every mix of techniques; the third writer's debit may need the others'
\* credits, or not be covered at all.
MCMixes ==
  [ technique : [Writers -> Technique],
    delta : {[w \in Writers |-> CASE w = w1 -> 1 [] w = w2 -> 2 [] OTHER -> d] :
               d \in {-1, -3, -9}} ]

=============================================================================
