----------------------------- MODULE MCSeedRun -----------------------------
(* Two runs of the seed, and two remittances of the application, on two     *)
(* customers and two currencies.                                            *)
EXTENDS SeedRun

CONSTANTS r1, r2, c1, c2, x1, x2, BRL, USD

MCRates == [pair \in Currencies \X Currencies |->
              CASE pair = <<BRL, USD>> -> {[num |-> 1, den |-> 5]}
                [] pair = <<USD, BRL>> -> {[num |-> 5, den |-> 1]}
                [] OTHER -> {}]

MCWallets == [min |-> 1, max |-> 2]
MCCounts == [heavy |-> [min |-> 1, max |-> 1], normal |-> [min |-> 1, max |-> 1],
             low |-> [min |-> 0, max |-> 0]]
MCActivity == [heavy |-> 1, normal |-> 1, low |-> 1]

\* One within a currency, one across: both update the same treasury wallet.
MCPayments == [x \in Remitters |->
                 [from |-> BRL, to |-> IF x = x1 THEN BRL ELSE USD, amount |-> 100, converted |-> 20]]

Plain == [seed |-> 1, scenario |-> "normal", reset |-> FALSE, production |-> FALSE,
          customers |-> {c1, c2}, walletsTarget |-> 2, remittancesTarget |-> 0]
Small == [Plain EXCEPT !.customers = {c1}, !.walletsTarget = 1]
Other == [Small EXCEPT !.seed = 2]
Pool == [Other EXCEPT !.scenario = "high-contention"]
Reset == [Other EXCEPT !.reset = TRUE]
Production == [Reset EXCEPT !.production = TRUE]

\* The first run is a full one beside a run that is refused, and a small one
\* beside each of the others.
MCConfigurations ==
  {[s \in Runs |-> IF s = r1 THEN Plain ELSE Production]}
  \cup {[s \in Runs |-> IF s = r1 THEN Small ELSE second] : second \in {Small, Pool, Reset}}

=============================================================================
