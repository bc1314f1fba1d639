---------------------------- MODULE SeedDataset ----------------------------
(***************************************************************************)
(* generateDataset: each seed run builds a whole dataset in memory, from   *)
(* the treasury balances it has loaded: customers and their KYC status,    *)
(* wallets, opening balances out of the treasury, remittances, and the     *)
(* shared pool's top-ups.                                                  *)
(*                                                                         *)
(* The ledger entries and the balances are built side by side: balance is  *)
(* what the run will write to the wallets, net is what the entries it will *)
(* write add up to.  Random draws are choices.  Fractions are exact, where *)
(* the code multiplies doubles.                                            *)
(***************************************************************************)
EXTENDS SeedOptions, Functions

CONSTANTS
  Runs, Treasury,
  BalanceRequests,       \* what a wallet's tier may ask for
  SendPercents,          \* out of SEND_FRACTION_RANGE
  Rates,                 \* of each pair of currencies, jitter included
  UNVERIFIED_LIMIT, MIN_REMITTANCE_AMOUNT,
  SharedCustomers, TOP_UP_TARGET

Accounts == Customers \cup {Treasury}
Wallets == Accounts \X Currencies
TreasuryWallet(cur) == <<Treasury, cur>>

ASSUME DatasetAssumption ==
  /\ Treasury \notin Customers
  /\ BalanceRequests \subseteq Nat /\ SendPercents \subseteq 1..35
  /\ Rates \in [Currencies \X Currencies -> SUBSET Rate]
  /\ UNVERIFIED_LIMIT \in Nat /\ MIN_REMITTANCE_AMOUNT \in Nat /\ TOP_UP_TARGET \in Nat
  /\ SharedCustomers \subseteq Customers

VARIABLES
  phase,      \* how far each run is
  config,
  draft       \* the dataset each run is building

generation == <<phase, config, draft>>

\* In the order of the run.
Loading == {"start", "truncated", "checked"}
Generating == {"loaded", "funding", "remitting", "toppingUp"}
Writing == {"inserted", "posted"}
Validating == {"committed", "validating"}
Ended == {"passed", "failed", "crashed"}
Phase == Loading \cup Generating \cup {"generated"} \cup Writing \cup Validating \cup Ended

Nothing == [w \in Wallets |-> 0]

Draft ==
  [start : [Currencies -> Int],          \* the treasury as it was loaded
   verified : SUBSET Customers,
   wallets : SUBSET (Customers \X Currencies),
   left : [Customers -> Nat],            \* remittances yet to be sent
   pending : SUBSET Wallets,             \* wallets yet to be topped up
   funded : SUBSET Currencies,
   touched : SUBSET Currencies,          \* treasury wallets the entries name
   balance : [Wallets -> Int],
   net : [Wallets -> Int]]

EmptyDraft ==
  [start |-> [cur \in Currencies |-> 0], verified |-> {}, wallets |-> {},
   left |-> [c \in Customers |-> 0], pending |-> {}, funded |-> {}, touched |-> {},
   balance |-> Nothing, net |-> Nothing]

Snapshot(treasury) ==
  [EmptyDraft EXCEPT
     !.start = treasury,
     !.balance = [w \in Wallets |-> IF w[1] = Treasury THEN treasury[w[2]] ELSE 0]]

Enter(s, here, next) == phase[s] = here /\ phase' = [phase EXCEPT ![s] = next]

-----------------------------------------------------------------------------
(* Postings *)

Total(f) == SumFunction(f)

Leg(w, wallet, amount) == IF w = wallet THEN amount ELSE 0

\* assertBalancedPerCurrency.
Balanced(legs) ==
  \A cur \in Currencies : Total([a \in Accounts |-> legs[<<a, cur>>]]) = 0

\* Records the entries of a posting beside what it does to the balances.
Post(d, legs, change, touched) ==
  [d EXCEPT !.net = [w \in Wallets |-> @[w] + legs[w]],
            !.balance = [w \in Wallets |-> @[w] + change[w]],
            !.touched = @ \cup touched]

-----------------------------------------------------------------------------
(* Customers, KYC, wallets *)

\* Who is verified; pending and rejected customers are alike from here on.
KycChoices(customers) == SUBSET customers

\* Distinct currencies for each customer, between min and max of them.
HoldingChoices(customers, range) ==
  LET active == Cardinality(ActiveCurrencies)
      max == Smaller(range.max, active)
      min == Smaller(range.min, max)
  IN [customers -> {held \in SUBSET ActiveCurrencies : Cardinality(held) \in min..max}]

\* How many remittances each customer sends, by the profile it is given.
CountChoices(customers, counts) ==
  [customers -> UNION {counts[p].min..counts[p].max : p \in Profiles}]

Populate(s) ==
  /\ Enter(s, "loaded", "funding")
  /\ LET customers == config[s].customers IN
     \E verified \in KycChoices(customers),
        holds \in HoldingChoices(customers, config[s].walletsPerCustomer),
        left \in CountChoices(customers, config[s].remittanceCountByProfile) :
       draft' = [draft EXCEPT
                   ![s].verified = verified,
                   ![s].wallets = {w \in customers \X Currencies : w[2] \in holds[w[1]]},
                   ![s].left = [c \in Customers |-> IF c \in customers THEN left[c] ELSE 0]]
  /\ UNCHANGED config

-----------------------------------------------------------------------------
(* Opening balances *)

\* FUNDING_SAFETY_FACTOR of the treasury's balance, 60 %.
FundingBudget(balance) == (balance * 6) \div 10

\* Everyone is scaled down alike when the total exceeds the budget.
Granted(amount, total, budget) ==
  IF total > budget /\ total > 0 THEN (amount * budget) \div total ELSE amount

\* One currency's wallets: what they ask for, scaled to the budget, from the
\* treasury of that currency.
Fund(s, cur) ==
  LET d == draft[s]
      ours == {w \in d.wallets : w[2] = cur}
      budget == FundingBudget(d.balance[TreasuryWallet(cur)])
  IN
  /\ phase[s] = "funding" /\ cur \notin d.funded
  /\ \E asked \in [ours -> BalanceRequests] :
       LET total == Total(asked)
           granted(w) == IF w \in ours THEN Granted(asked[w], total, budget) ELSE 0
           given == Total([w \in ours |-> granted(w)])
           legs == [w \in Wallets |-> granted(w) + Leg(w, TreasuryWallet(cur), -given)]
       IN
       /\ Balanced(legs)
       /\ draft' = [draft EXCEPT
                      ![s] = [Post(d, legs, legs, IF given > 0 THEN {cur} ELSE {})
                                EXCEPT !.funded = @ \cup {cur}]]
  /\ UNCHANGED <<phase, config>>

Funded(s) ==
  /\ draft[s].funded = Currencies
  /\ Enter(s, "funding", "remitting")
  /\ UNCHANGED <<config, draft>>

-----------------------------------------------------------------------------
(* Remittances *)

Sent(d, c) == [d EXCEPT !.left[c] = @ - 1]

\* A rejected or failed remittance is a row without legs; a recipient who is
\* not found, or a sender too low on funds, leaves nothing at all.
Skip(s, c) ==
  /\ phase[s] = "remitting" /\ draft[s].left[c] > 0
  /\ draft' = [draft EXCEPT ![s] = Sent(@, c)]
  /\ UNCHANGED <<phase, config>>

\* A share of the balance, at most the unverified limit without KYC.
SendAmount(d, source, percent) ==
  LET share == (d.balance[source] * percent) \div 100
  IN IF source[1] \in d.verified THEN share ELSE Smaller(share, UNVERIFIED_LIMIT)

\* Principal from wallet to wallet, the fee to the treasury.
SameLegs(source, destination, amount, fee) ==
  [w \in Wallets |->
     Leg(w, source, -amount) + Leg(w, destination, amount)
     + Leg(w, source, -fee) + Leg(w, TreasuryWallet(source[2]), fee)]

\* Mistake: the sender is debited the principal alone.
SameChange_FeeForgotten(source, destination, amount, fee) ==
  [w \in Wallets |->
     Leg(w, source, -amount) + Leg(w, destination, amount)
     + Leg(w, TreasuryWallet(source[2]), fee)]

SameChange(source, destination, amount, fee) ==
  [w \in Wallets |->
     Leg(w, source, -(amount + fee)) + Leg(w, destination, amount)
     + Leg(w, TreasuryWallet(source[2]), fee)]

\* The principal changes currency by way of both treasuries.
CrossLegs(source, destination, amount, fee, converted) ==
  LET from == TreasuryWallet(source[2])
      to == TreasuryWallet(destination[2])
  IN [w \in Wallets |->
        Leg(w, source, -amount) + Leg(w, from, amount)
        + Leg(w, source, -fee) + Leg(w, from, fee)
        + Leg(w, to, -converted) + Leg(w, destination, converted)]

\* Mistake: the source treasury is credited with the principal alone.
CrossChange_FeeForgotten(source, destination, amount, fee, converted) ==
  [w \in Wallets |->
     Leg(w, source, -(amount + fee)) + Leg(w, destination, converted)
     + Leg(w, TreasuryWallet(source[2]), amount)
     + Leg(w, TreasuryWallet(destination[2]), -converted)]

CrossChange(source, destination, amount, fee, converted) ==
  [w \in Wallets |->
     Leg(w, source, -(amount + fee)) + Leg(w, destination, converted)
     + Leg(w, TreasuryWallet(source[2]), amount + fee)
     + Leg(w, TreasuryWallet(destination[2]), -converted)]

\* TREASURY_LEG_SAFETY of the destination treasury's balance, 90 %.
MaxAffordable(balance) == (balance * 9) \div 10

\* Mistake: the leg is not held to what the treasury can afford.
Affordable_Unchecked(amount, converted, max) == amount

\* What is sent of an amount whose conversion the treasury cannot afford.
Affordable(amount, converted, max) ==
  IF converted > max THEN (amount * max) \div converted ELSE amount

\* A draw the code turns into a completed remittance: funds for amount and
\* fee, on a wallet of the sender, to a wallet of somebody else.
Sendable(d, source, destination, amount) ==
  /\ destination[1] # source[1]
  /\ amount >= MIN_REMITTANCE_AMOUNT
  /\ amount + Fee(amount) <= d.balance[source]

RemitSame(s, c) ==
  LET d == draft[s] IN
  /\ phase[s] = "remitting" /\ d.left[c] > 0
  /\ \E source, destination \in d.wallets, percent \in SendPercents :
       LET amount == SendAmount(d, source, percent)
           legs == SameLegs(source, destination, amount, Fee(amount))
           change == SameChange(source, destination, amount, Fee(amount))
       IN
       /\ source[1] = c /\ source[2] = destination[2]
       /\ Sendable(d, source, destination, amount)
       /\ Balanced(legs)
       /\ draft' = [draft EXCEPT ![s] = Post(Sent(d, c), legs, change, {source[2]})]
  /\ UNCHANGED <<phase, config>>

\* The fee is that of the amount drawn, also when less is sent.
SendAcross(s, c, source, destination, percent, rate) ==
  LET d == draft[s]
      drawn == SendAmount(d, source, percent)
      max == MaxAffordable(d.balance[TreasuryWallet(destination[2])])
      wanted == Convert(drawn, rate)
      amount == Affordable(drawn, wanted, max)
      converted == Convert(amount, rate)
      legs == CrossLegs(source, destination, amount, Fee(drawn), converted)
      change == CrossChange(source, destination, amount, Fee(drawn), converted)
  IN
  /\ Sendable(d, source, destination, drawn)
  /\ wanted > max => max > 0
  /\ amount >= MIN_REMITTANCE_AMOUNT
  /\ Balanced(legs)
  /\ draft' = [draft EXCEPT ![s] = Post(Sent(d, c), legs, change, {source[2], destination[2]})]

RemitAcross(s, c) ==
  /\ phase[s] = "remitting" /\ draft[s].left[c] > 0
  /\ \E source, destination \in draft[s].wallets, percent \in SendPercents :
       /\ source[1] = c /\ source[2] # destination[2]
       /\ \E rate \in Rates[<<source[2], destination[2]>>] :
            SendAcross(s, c, source, destination, percent, rate)
  /\ UNCHANGED <<phase, config>>

\* What the rest of the run needs.
Dataset(d) == [d EXCEPT !.verified = {}, !.wallets = {}]

\* All are sent; the shared pool is topped up in one scenario only.
Remitted(s) ==
  /\ \A c \in Customers : draft[s].left[c] = 0
  /\ IF config[s].scenario = "high-contention"
     THEN /\ Enter(s, "remitting", "toppingUp")
          /\ draft' = [draft EXCEPT
                         ![s].pending = {w \in draft[s].wallets : w[1] \in SharedCustomers}]
     ELSE /\ Enter(s, "remitting", "generated")
          /\ draft' = [draft EXCEPT ![s] = Dataset(@)]
  /\ UNCHANGED config

-----------------------------------------------------------------------------
(* The shared pool *)

\* At most half of what the treasury has left.
TopUpAmount(balance) == Smaller(TOP_UP_TARGET, balance \div 2)

TopUp(s, w) ==
  LET d == draft[s]
      amount == TopUpAmount(d.balance[TreasuryWallet(w[2])])
      legs == [v \in Wallets |-> Leg(v, w, amount) + Leg(v, TreasuryWallet(w[2]), -amount)]
  IN
  /\ phase[s] = "toppingUp" /\ w \in d.pending
  /\ draft' = [draft EXCEPT
                 ![s] = [IF amount > 0 THEN Post(d, legs, legs, {w[2]}) ELSE d
                           EXCEPT !.pending = @ \ {w}]]
  /\ UNCHANGED <<phase, config>>

ToppedUp(s) ==
  /\ draft[s].pending = {}
  /\ Enter(s, "toppingUp", "generated")
  /\ draft' = [draft EXCEPT ![s] = Dataset(@)]
  /\ UNCHANGED config

Generate(s) ==
  \/ Populate(s)
  \/ \E cur \in Currencies : Fund(s, cur)
  \/ Funded(s)
  \/ \E c \in Customers : Skip(s, c) \/ RemitSame(s, c) \/ RemitAcross(s, c)
  \/ Remitted(s)
  \/ \E w \in Customers \X Currencies : TopUp(s, w)
  \/ ToppedUp(s)

-----------------------------------------------------------------------------
(* What a dataset promises *)

GenerationTypeOK ==
  /\ phase \in [Runs -> Phase]
  /\ config \in [Runs -> SeedConfig]
  /\ draft \in [Runs -> Draft]

\* The balances a run writes are what its entries add up to: from zero for a
\* customer's wallet, from the balance it loaded for a treasury wallet.
DraftAddsUp(d) ==
  /\ \A w \in Customers \X Currencies : d.balance[w] = d.net[w]
  /\ \A cur \in Currencies :
       d.balance[TreasuryWallet(cur)] = d.start[cur] + d.net[TreasuryWallet(cur)]

\* An untouched treasury wallet is written back as it was loaded.
TouchedIsNamed(d) ==
  \A cur \in Currencies \ d.touched : d.net[TreasuryWallet(cur)] = 0

\* Scaling, the settlement cap and halving keep every wallet from going
\* below zero, however the draws fall.
DraftIsCovered(d) == \A w \in Wallets : d.balance[w] >= 0

=============================================================================
