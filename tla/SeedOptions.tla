---------------------------- MODULE SeedOptions ----------------------------
(***************************************************************************)
(* The seed's configuration: the defaults, what the command line overrides *)
(* of them, and how a target for the number of wallets or of remittances   *)
(* scales the ranges they are drawn from.                                  *)
(***************************************************************************)
EXTENDS Money, FiniteSets

CONSTANTS
  Customers, Currencies,
  ActiveCurrencies,            \* those of a positive weight
  DEFAULT_WALLETS,             \* [min, max] per customer
  DEFAULT_COUNTS,              \* [min, max] remittances sent, by profile
  ACTIVITY                     \* the weight of each profile

Profiles == {"heavy", "normal", "low"}
Scenarios == {"normal", "high-contention"}
Ranges == {r \in [min : Nat, max : Nat] : r.min <= r.max}

\* What validateConfig demands.
ASSUME OptionsAssumption ==
  /\ IsFiniteSet(Customers) /\ Customers # {}
  /\ ActiveCurrencies \subseteq Currencies
  /\ IsFiniteSet(Currencies) /\ ActiveCurrencies # {}
ASSUME DefaultsAssumption ==
  /\ DEFAULT_WALLETS \in Ranges /\ DEFAULT_WALLETS.min > 0
  /\ DEFAULT_COUNTS \in [Profiles -> Ranges]
  /\ ACTIVITY \in [Profiles -> Nat] /\ \E p \in Profiles : ACTIVITY[p] > 0

\* A target is absent when it is 0: the command line takes positive ones only.
Overrides ==
  [seed : Nat, scenario : Scenarios, reset : BOOLEAN, production : BOOLEAN,
   customers : SUBSET Customers \ {{}},
   walletsTarget : Nat, remittancesTarget : Nat]

Larger(a, b) == IF a > b THEN a ELSE b
Smaller(a, b) == IF a < b THEN a ELSE b
Clamp(value, min, max) == Smaller(Larger(value, min), max)

\* Math.round(n * target / expected), where nothing expected leaves n alone.
Rescale(n, target, expected) ==
  IF expected > 0 THEN RoundHalfUp(n * target, expected) ELSE n

ScaleWalletsTarget(customers, target) ==
  LET expected == Cardinality(customers) * (DEFAULT_WALLETS.min + DEFAULT_WALLETS.max)
      active == Cardinality(ActiveCurrencies)
      min == Clamp(Rescale(DEFAULT_WALLETS.min, 2 * target, expected), 1, active)
  IN [min |-> min,
      max |-> Clamp(Rescale(DEFAULT_WALLETS.max, 2 * target, expected), min, active)]

\* Twice the remittances the defaults promise, times the total weight.
ExpectedRemittances(customers) ==
  LET ofProfile(p) == ACTIVITY[p] * (DEFAULT_COUNTS[p].min + DEFAULT_COUNTS[p].max)
  IN Cardinality(customers) * (ofProfile("heavy") + ofProfile("normal") + ofProfile("low"))

TotalActivity == ACTIVITY["heavy"] + ACTIVITY["normal"] + ACTIVITY["low"]

ScaleRemittancesTarget(customers, target) ==
  LET scaled(n) == Rescale(n, 2 * TotalActivity * target, ExpectedRemittances(customers))
      min(p) == Larger(0, scaled(DEFAULT_COUNTS[p].min))
  IN [p \in Profiles |-> [min |-> min(p), max |-> Larger(min(p), scaled(DEFAULT_COUNTS[p].max))]]

ResolveSeedConfig(o) ==
  [seed |-> o.seed, scenario |-> o.scenario,
   reset |-> o.reset, production |-> o.production, customers |-> o.customers,
   walletsPerCustomer |->
     IF o.walletsTarget = 0 THEN DEFAULT_WALLETS ELSE ScaleWalletsTarget(o.customers, o.walletsTarget),
   remittanceCountByProfile |->
     IF o.remittancesTarget = 0 THEN DEFAULT_COUNTS ELSE ScaleRemittancesTarget(o.customers, o.remittancesTarget)]

SeedConfig ==
  [seed : Nat, scenario : Scenarios, reset : BOOLEAN, production : BOOLEAN,
   customers : SUBSET Customers \ {{}},
   walletsPerCustomer : Ranges, remittanceCountByProfile : [Profiles -> Ranges]]

=============================================================================
