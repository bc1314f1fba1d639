--------------------------- MODULE SeedRunProofs ---------------------------
(***************************************************************************)
(* For any runs, remittances, customers, configurations, draws and faults: *)
(* the treasury adds up until a stale balance is written over it, a run    *)
(* knows of no account it adds its dataset to, and a run that passed has   *)
(* its dataset in the database.                                            *)
(*                                                                         *)
(* The argument follows one draft.  Every posting changes the balances as  *)
(* its entries say (DraftsAreSound), so what a run writes to the treasury  *)
(* is what it loaded and its entries; what it loaded is the treasury as it *)
(* is, unless the run has missed a commit (SnapshotsAreFresh).  What a     *)
(* remittance has read is held to its row, and to those overtaken since    *)
(* (ReadingsAreFresh): no TRUNCATE comes between its reads and its end, so *)
(* the treasury it settles with is there.  A run whose treasury was        *)
(* truncated in between writes none of it, and commits only if no entry    *)
(* names it (PostedNamesExist).                                            *)
(*                                                                         *)
(* No posting takes a wallet below zero either: what is granted is at most *)
(* the funding budget (GrantedWithinBudget, a sum over the wallets), a     *)
(* settlement is at most what the treasury can afford, twice rounded       *)
(* (AffordableConversion), and the rest is the funds check.  And every     *)
(* posting's legs add up to zero in each currency, so the entries of a     *)
(* dataset do.  With both, a run's validation cannot fail because of it.   *)
(***************************************************************************)
EXTENDS SeedRun, FiniteSetTheorems, SumTheorems, TLAPS

-----------------------------------------------------------------------------
(* The configuration *)

\* A rescaled number is a whole number.
LEMMA RescaleType ==
  ASSUME NEW n \in Nat, NEW target \in Nat, NEW expected \in Int
  PROVE  Rescale(n, target, expected) \in Int
<1>1. n * target \in Int
  OBVIOUS
<1>2. ASSUME expected > 0 PROVE (2 * (n * target) + expected) \div (2 * expected) \in Int
  BY <1>1, <1>2
<1> QED BY <1>1, <1>2 DEF Rescale, RoundHalfUp

\* Whatever is overridden, the ranges are ranges: scaling never puts a minimum
\* above its maximum.
LEMMA ConfigType == ASSUME NEW o \in Overrides PROVE ResolveSeedConfig(o) \in SeedConfig
<1>1. /\ DEFAULT_WALLETS.min \in Nat /\ DEFAULT_WALLETS.max \in Nat /\ DEFAULT_WALLETS \in Ranges
      /\ \A p \in Profiles : /\ DEFAULT_COUNTS[p].min \in Nat /\ DEFAULT_COUNTS[p].max \in Nat
                             /\ ACTIVITY[p] \in Nat
      /\ DEFAULT_COUNTS \in [Profiles -> Ranges]
  BY DefaultsAssumption DEF Ranges
<1>2. Cardinality(ActiveCurrencies) \in Nat /\ Cardinality(ActiveCurrencies) >= 1
  <2>1. IsFiniteSet(ActiveCurrencies)
    BY OptionsAssumption, FS_Subset
  <2> QED BY <2>1, OptionsAssumption, FS_CardinalityType, FS_EmptySet
<1>3. Cardinality(o.customers) \in Nat /\ o.customers \in SUBSET Customers \ {{}}
  <2>1. IsFiniteSet(o.customers) /\ o.customers \in SUBSET Customers \ {{}}
    BY OptionsAssumption, FS_Subset DEF Overrides
  <2> QED BY <2>1, FS_CardinalityType
<1>4. o.walletsTarget \in Nat /\ o.remittancesTarget \in Nat
  BY DEF Overrides
<1>5. ScaleWalletsTarget(o.customers, o.walletsTarget) \in Ranges
  <2> DEFINE expected == Cardinality(o.customers) * (DEFAULT_WALLETS.min + DEFAULT_WALLETS.max)
             scaled(n) == Rescale(n, 2 * o.walletsTarget, expected)
  <2>1. expected \in Int /\ 2 * o.walletsTarget \in Nat
    BY <1>1, <1>3, <1>4
  <2>2. scaled(DEFAULT_WALLETS.min) \in Int /\ scaled(DEFAULT_WALLETS.max) \in Int
    BY <1>1, <2>1, RescaleType
  <2> HIDE DEF scaled, expected
  <2> QED BY <1>2, <2>2 DEF ScaleWalletsTarget, Clamp, Smaller, Larger, Ranges, scaled, expected
<1>6. ScaleRemittancesTarget(o.customers, o.remittancesTarget) \in [Profiles -> Ranges]
  <2> DEFINE scaled(n) == Rescale(n, 2 * TotalActivity * o.remittancesTarget,
                                  ExpectedRemittances(o.customers))
  <2>1. TotalActivity \in Nat
    BY <1>1 DEF TotalActivity, Profiles
  <2>2. 2 * TotalActivity * o.remittancesTarget \in Nat
    BY <1>4, <2>1
  <2>3. ExpectedRemittances(o.customers) \in Int
    <3>1. \A p \in Profiles : ACTIVITY[p] * (DEFAULT_COUNTS[p].min + DEFAULT_COUNTS[p].max) \in Int
      BY <1>1
    <3> QED BY <1>3, <3>1 DEF ExpectedRemittances, Profiles
  <2>4. \A p \in Profiles : /\ scaled(DEFAULT_COUNTS[p].min) \in Int
                            /\ scaled(DEFAULT_COUNTS[p].max) \in Int
    BY <1>1, <2>2, <2>3, RescaleType
  <2> HIDE DEF scaled
  <2>5. \A p \in Profiles :
          [min |-> Larger(0, scaled(DEFAULT_COUNTS[p].min)),
           max |-> Larger(Larger(0, scaled(DEFAULT_COUNTS[p].min)), scaled(DEFAULT_COUNTS[p].max))]
          \in Ranges
    BY <2>4 DEF Larger, Ranges
  <2> QED BY <2>5 DEF ScaleRemittancesTarget, scaled
<1> QED BY <1>1, <1>3, <1>5, <1>6 DEF ResolveSeedConfig, SeedConfig, Overrides

-----------------------------------------------------------------------------
(* Whole amounts *)

\* What a quotient of natural numbers is.
LEMMA Quotient ==
  ASSUME NEW n \in Nat, NEW d \in Nat \ {0}
  PROVE  n \div d \in Nat /\ (n \div d) * d <= n /\ n < (n \div d + 1) * d
<1> DEFINE q == n \div d
<1>1. q \in Int /\ q * d <= n /\ n < (q + 1) * d
  OBVIOUS
<1>2. q >= 0
  <2> HIDE DEF q
  <2> SUFFICES ASSUME q + 1 <= 0 PROVE FALSE
    BY <1>1
  <2>1. (q + 1) * d <= 0
    BY <1>1, <2>1
  <2> QED BY <1>1, <2>1
<1> QED BY <1>1, <1>2

\* A rounded product of natural numbers is one.
LEMMA Rounded ==
  ASSUME NEW n \in Nat, NEW d \in Nat \ {0}
  PROVE  /\ RoundHalfUp(n, d) \in Nat
         /\ RoundHalfUp(n, d) * (2 * d) <= 2 * n + d
         /\ 2 * n + d < (RoundHalfUp(n, d) + 1) * (2 * d)
<1>1. 2 * n + d \in Nat /\ 2 * d \in Nat \ {0}
  OBVIOUS
<1> QED BY <1>1, Quotient DEF RoundHalfUp

\* Holding the amount of a conversion to what the treasury can afford holds the
\* converted amount to it as well, although both are rounded.
LEMMA AffordableConversion ==
  ASSUME NEW drawn \in Nat, NEW rate \in Rate, NEW max \in Nat,
         NEW wanted, wanted = Convert(drawn, rate), wanted > max => max > 0,
         NEW amount, amount = Affordable(drawn, wanted, max)
  PROVE  /\ amount \in Nat /\ amount <= drawn
         /\ Convert(amount, rate) \in Nat /\ Convert(amount, rate) <= max
<1>1. PICK num, den \in Nat \ {0} : num = rate.num /\ den = rate.den
  BY DEF Rate
<1>2. \A n \in Nat : /\ n * num \in Nat
                     /\ Convert(n, rate) \in Nat
                     /\ Convert(n, rate) * (2 * den) <= 2 * (n * num) + den
                     /\ 2 * (n * num) + den < (Convert(n, rate) + 1) * (2 * den)
  <2> SUFFICES ASSUME NEW n \in Nat
               PROVE  /\ n * num \in Nat
                      /\ Convert(n, rate) \in Nat
                      /\ Convert(n, rate) * (2 * den) <= 2 * (n * num) + den
                      /\ 2 * (n * num) + den < (Convert(n, rate) + 1) * (2 * den)
    OBVIOUS
  <2>1. n * num \in Nat /\ Convert(n, rate) = RoundHalfUp(n * num, den)
    BY <1>1 DEF Convert
  <2> QED BY <2>1, Rounded
<1>3. CASE wanted <= max
  <2>1. amount = drawn
    BY <1>2, <1>3 DEF Affordable
  <2> QED BY <1>2, <1>3, <2>1
<1>4. CASE wanted > max
  <2>1. wanted \in Nat \ {0} /\ drawn * max \in Nat /\ amount = (drawn * max) \div wanted
    BY <1>2, <1>4 DEF Affordable
  <2>2. amount \in Nat /\ amount * wanted <= drawn * max
    BY <2>1, Quotient
  <2>3. amount <= drawn
    <3> SUFFICES ASSUME amount >= drawn + 1 PROVE FALSE
      BY <2>2
    <3>1. amount * wanted >= (drawn + 1) * wanted
      BY <2>1, <2>2
    <3>2. (drawn + 1) * wanted = drawn * wanted + wanted
      BY <2>1
    <3>3. drawn * wanted >= drawn * max
      BY <1>4, <2>1
    <3>4. drawn * wanted \in Int /\ amount * wanted \in Int
      BY <2>1, <2>2
    <3> QED BY <2>1, <2>2, <3>1, <3>2, <3>3, <3>4
  <2> DEFINE converted == Convert(amount, rate)
  <2>4. converted \in Nat /\ converted * (2 * den) <= 2 * (amount * num) + den
    BY <1>2, <2>2
  <2>5. 2 * (drawn * num) <= (2 * den) * wanted + den
    BY <1>2, <2>1
  <2> HIDE DEF converted
  <2>6. converted <= max
    <3> SUFFICES ASSUME converted >= max + 1 PROVE FALSE
      BY <2>4
    <3>1. (max + 1) * (2 * den) <= 2 * (amount * num) + den
      <4>1. (max + 1) * (2 * den) <= converted * (2 * den)
        BY <2>4
      <4> QED BY <2>2, <2>4, <4>1
    <3>2. (2 * den) * max + den <= 2 * (amount * num)
      BY <2>2, <3>1
    <3> DEFINE a == amount * num
               x == (2 * den) * max + den
    <3>3. a \in Nat /\ x \in Nat /\ x <= 2 * a
      BY <2>2, <3>2
    <3> HIDE DEF a, x
    <3>4. x * wanted <= (2 * a) * wanted
      BY <2>1, <3>3
    <3>5. (2 * a) * wanted = (2 * num) * (amount * wanted)
      BY <2>1, <2>2 DEF a
    <3>6. (2 * num) * (amount * wanted) <= (2 * num) * (drawn * max)
      <4> DEFINE y == amount * wanted
                 z == drawn * max
      <4>1. y \in Nat /\ z \in Nat /\ y <= z
        BY <2>1, <2>2
      <4> HIDE DEF y, z
      <4>2. (2 * num) * y <= (2 * num) * z
        BY <4>1
      <4> QED BY <4>2 DEF y, z
    <3>7. (2 * num) * (drawn * max) = (2 * (drawn * num)) * max
      OBVIOUS
    <3>8. (2 * (drawn * num)) * max <= ((2 * den) * wanted + den) * max
      <4> DEFINE y == 2 * (drawn * num)
                 z == (2 * den) * wanted + den
      <4>1. y \in Nat /\ z \in Nat /\ y <= z
        BY <2>1, <2>5
      <4> HIDE DEF y, z
      <4>2. y * max <= z * max
        BY <4>1
      <4> QED BY <4>2 DEF y, z
    <3>9. x * wanted = (2 * den) * (max * wanted) + den * wanted
      BY <2>1 DEF x
    <3>10. ((2 * den) * wanted + den) * max = (2 * den) * (max * wanted) + den * max
      BY <2>1
    <3>11. /\ x * wanted \in Int /\ (2 * a) * wanted \in Int /\ max * wanted \in Int
           /\ (2 * num) * (drawn * max) \in Int /\ (2 * num) * (amount * wanted) \in Int
           /\ (2 * (drawn * num)) * max \in Int /\ ((2 * den) * wanted + den) * max \in Int
      BY <2>1, <2>2, <3>3
    <3>12. x * wanted <= ((2 * den) * wanted + den) * max
      BY <3>4, <3>5, <3>6, <3>7, <3>8, <3>11
    <3>13. den * wanted <= den * max
      <4> DEFINE y == (2 * den) * (max * wanted)
      <4>1. y \in Int
        BY <3>11
      <4> HIDE DEF y
      <4>2. y + den * wanted <= y + den * max
        BY <3>9, <3>10, <3>12 DEF y
      <4> QED BY <2>1, <4>1, <4>2
    <3>14. den * wanted >= den * (max + 1)
      BY <1>4, <2>1
    <3>15. den * (max + 1) = den * max + den
      OBVIOUS
    <3> QED BY <2>1, <3>13, <3>14, <3>15
  <2> QED BY <2>2, <2>3, <2>4, <2>6 DEF converted
<1> QED BY <1>2, <1>3, <1>4

\* What is granted is at most the budget, however the requests are rounded.
LEMMA GrantedWithinBudget ==
  ASSUME NEW S, IsFiniteSet(S), NEW asked \in [S -> Nat], NEW budget \in Nat,
         NEW granted, granted = [w \in S |-> Granted(asked[w], Total(asked), budget)]
  PROVE  granted \in [S -> Nat] /\ Total(granted) \in Nat /\ Total(granted) <= budget
<1>1. PICK total : total = Total(asked)
  OBVIOUS
<1>2. /\ total = SumFunctionOnSet(asked, S) /\ Total(granted) = SumFunctionOnSet(granted, S)
      /\ total \in Nat
  BY <1>1, SumOfNaturals DEF Total, SumFunction
<1>3. CASE ~(total > budget /\ total > 0)
  <2>1. \A w \in S : granted[w] = asked[w]
    BY <1>1, <1>3 DEF Granted
  <2>2. Total(granted) = total
    BY <1>2, <2>1, SumOfEqual
  <2> QED BY <1>2, <1>3, <2>1, <2>2
<1>4. CASE total > budget /\ total > 0
  <2>1. ASSUME NEW w \in S
        PROVE  granted[w] \in Nat /\ granted[w] * total <= asked[w] * budget
    <3>1. granted[w] = (asked[w] * budget) \div total
      BY <1>1, <1>4 DEF Granted
    <3>2. asked[w] * budget \in Nat
      OBVIOUS
    <3> QED BY <1>2, <1>4, <3>1, <3>2, Quotient
  <2> DEFINE Good == {A \in SUBSET S :
                        SumFunctionOnSet(granted, A) * total <= SumFunctionOnSet(asked, A) * budget}
  <2>2. {} \in Good
    BY <1>2, SumOfNothing
  <2>3. ASSUME NEW A \in SUBSET S, NEW w \in S, A \in Good, w \notin A
        PROVE  A \cup {w} \in Good
    <3>1. IsFiniteSet(A)
      BY FS_Subset
    <3>2. /\ \A v \in A \cup {w} : granted[v] \in Int /\ asked[v] \in Int
          /\ \A v \in A : granted[v] \in Nat /\ asked[v] \in Nat
      BY <2>1
    <3>3. PICK g, r \in Nat : g = SumFunctionOnSet(granted, A) /\ r = SumFunctionOnSet(asked, A)
      BY <3>1, <3>2, SumOfNaturals
    <3>4. SumFunctionOnSet(granted, A \cup {w}) = granted[w] + g
      BY <2>3, <3>1, <3>2, <3>3, SumOfOneMore
    <3>5. SumFunctionOnSet(asked, A \cup {w}) = asked[w] + r
      BY <2>3, <3>1, <3>2, <3>3, SumOfOneMore
    <3>6. g * total <= r * budget
      BY <2>3, <3>3
    <3>7. (granted[w] + g) * total <= (asked[w] + r) * budget
      <4>1. granted[w] \in Nat /\ asked[w] \in Nat /\ granted[w] * total <= asked[w] * budget
        BY <2>1
      <4>2. /\ (granted[w] + g) * total = granted[w] * total + g * total
            /\ (asked[w] + r) * budget = asked[w] * budget + r * budget
        BY <1>2, <4>1
      <4>3. /\ granted[w] * total \in Int /\ g * total \in Int
            /\ asked[w] * budget \in Int /\ r * budget \in Int
        BY <1>2, <4>1
      <4> QED BY <3>6, <4>1, <4>2, <4>3
    <3> QED BY <3>4, <3>5, <3>7
  <2> HIDE DEF Good
  <2>4. S \in Good
    BY <2>2, <2>3, FiniteSetInduction
  <2>5. PICK given \in Nat : given = Total(granted)
    BY <1>2, <2>1, SumOfNaturals
  <2>6. given * total <= total * budget
    BY <1>2, <2>4, <2>5 DEF Good
  <2>7. given <= budget
    <3> SUFFICES ASSUME given >= budget + 1 PROVE FALSE
      BY <2>5
    <3>1. given * total >= (budget + 1) * total
      BY <1>2
    <3>2. (budget + 1) * total = total * budget + total
      BY <1>2
    <3> QED BY <1>2, <1>4, <2>6, <3>1, <3>2
  <2>8. granted \in [S -> Nat]
    BY <2>1
  <2> QED BY <2>5, <2>7, <2>8
<1> QED BY <1>3, <1>4

-----------------------------------------------------------------------------
(* Balanced entries *)

LEMMA FiniteSets ==
  /\ IsFiniteSet(Accounts)
  /\ IsFiniteSet(Customers \X Currencies)
<1>1. IsFiniteSet(Customers) /\ IsFiniteSet(Currencies)
  BY OptionsAssumption
<1> QED BY <1>1, FS_AddElement, FS_Product DEF Accounts

\* Entry by entry sums of balanced entries are balanced.
LEMMA BalancedSum ==
  ASSUME NEW f \in [Wallets -> Int], NEW g \in [Wallets -> Int], NEW h,
         Balanced(f), Balanced(g), \A w \in Wallets : h[w] = f[w] + g[w]
  PROVE  Balanced(h)
<1> SUFFICES ASSUME NEW cur \in Currencies
             PROVE  Total([a \in Accounts |-> h[<<a, cur>>]]) = 0
  BY DEF Balanced
<1> DEFINE F == [a \in Accounts |-> f[<<a, cur>>]]
           G == [a \in Accounts |-> g[<<a, cur>>]]
           H == [a \in Accounts |-> h[<<a, cur>>]]
<1>1. /\ Total(F) = SumFunctionOnSet(F, Accounts) /\ Total(G) = SumFunctionOnSet(G, Accounts)
      /\ Total(H) = SumFunctionOnSet(H, Accounts)
  BY DEF Total, SumFunction
<1>2. \A a \in Accounts : F[a] \in Int /\ G[a] \in Int /\ H[a] = F[a] + G[a]
  BY DEF Wallets
<1>3. Total(F) = 0 /\ Total(G) = 0
  BY DEF Balanced
<1>4. SumFunctionOnSet(H, Accounts) = SumFunctionOnSet(F, Accounts) + SumFunctionOnSet(G, Accounts)
  <2> HIDE DEF F, G, H
  <2> QED BY <1>2, FiniteSets, SumOfSums
<1>5. SumFunctionOnSet(F, Accounts) = 0 /\ SumFunctionOnSet(G, Accounts) = 0
  BY <1>1, <1>3, Zenon
<1>6. SumFunctionOnSet(H, Accounts) = 0
  <2> HIDE DEF F, G, H
  <2> QED BY <1>4, <1>5
<1> QED BY <1>1, <1>6, Zenon

\* The accounts' shares of one leg in a currency, and of several.
LegAcross(cur, wallet, amount) == [a \in Accounts |-> Leg(<<a, cur>>, wallet, amount)]

Plus(f, g) == [a \in Accounts |-> f[a] + g[a]]

LEMMA LegTotal ==
  ASSUME NEW cur \in Currencies, NEW wallet \in Wallets, NEW amount \in Int
  PROVE  /\ LegAcross(cur, wallet, amount) \in [Accounts -> Int]
         /\ Total(LegAcross(cur, wallet, amount)) = IF wallet[2] = cur THEN amount ELSE 0
<1> DEFINE f == LegAcross(cur, wallet, amount)
<1>1. f \in [Accounts -> Int] /\ Total(f) = SumFunctionOnSet(f, Accounts)
  BY DEF LegAcross, Leg, Total, SumFunction
<1>2. CASE wallet[2] = cur
  <2>1. /\ wallet[1] \in Accounts /\ f[wallet[1]] = amount
        /\ \A a \in Accounts \ {wallet[1]} : f[a] = 0
    BY <1>2 DEF LegAcross, Leg, Wallets
  <2> QED BY <1>1, <1>2, <2>1, FiniteSets, SumOfLone
<1>3. CASE wallet[2] # cur
  <2>1. \A a \in Accounts : f[a] = 0
    BY <1>3 DEF LegAcross, Leg
  <2> QED BY <1>1, <1>3, <2>1, FiniteSets, SumOfZeros
<1> QED BY <1>2, <1>3

LEMMA PlusTotal ==
  ASSUME NEW f \in [Accounts -> Int], NEW g \in [Accounts -> Int]
  PROVE  Plus(f, g) \in [Accounts -> Int] /\ Total(Plus(f, g)) = Total(f) + Total(g)
<1> DEFINE h == Plus(f, g)
<1>1. h \in [Accounts -> Int] /\ \A a \in Accounts : f[a] \in Int /\ g[a] \in Int /\ h[a] = f[a] + g[a]
  BY DEF Plus
<1>2. /\ Total(f) = SumFunctionOnSet(f, Accounts) /\ Total(g) = SumFunctionOnSet(g, Accounts)
      /\ Total(h) = SumFunctionOnSet(h, Accounts)
  BY <1>1 DEF Total, SumFunction
<1> HIDE DEF h
<1>3. SumFunctionOnSet(h, Accounts) = SumFunctionOnSet(f, Accounts) + SumFunctionOnSet(g, Accounts)
  BY <1>1, FiniteSets, SumOfSums
<1> QED BY <1>1, <1>2, <1>3 DEF h

\* The seed's own check never throws: the legs of a remittance within a
\* currency add up to zero, whatever the amount and the fee.
THEOREM SameLegsBalance ==
  ASSUME NEW source \in Wallets, NEW destination \in Wallets, source[2] = destination[2],
         NEW amount \in Int, NEW fee \in Int
  PROVE  Balanced(SameLegs(source, destination, amount, fee))
<1> SUFFICES ASSUME NEW cur \in Currencies
             PROVE  Total([a \in Accounts |->
                             SameLegs(source, destination, amount, fee)[<<a, cur>>]]) = 0
  BY DEF Balanced
<1> DEFINE to == TreasuryWallet(source[2])
           l1 == LegAcross(cur, source, -amount)
           l2 == LegAcross(cur, destination, amount)
           l3 == LegAcross(cur, source, -fee)
           l4 == LegAcross(cur, to, fee)
           legs == [a \in Accounts |-> SameLegs(source, destination, amount, fee)[<<a, cur>>]]
           of(w, n) == IF w[2] = cur THEN n ELSE 0
<1>1. to \in Wallets /\ to[2] = source[2]
  BY DEF Wallets, Accounts, TreasuryWallet
<1>2. legs = Plus(Plus(Plus(l1, l2), l3), l4)
  BY DEF SameLegs, Plus, LegAcross, Wallets
<1>3. /\ l1 \in [Accounts -> Int] /\ Total(l1) = of(source, -amount)
      /\ l2 \in [Accounts -> Int] /\ Total(l2) = of(destination, amount)
      /\ l3 \in [Accounts -> Int] /\ Total(l3) = of(source, -fee)
      /\ l4 \in [Accounts -> Int] /\ Total(l4) = of(to, fee)
  BY <1>1, LegTotal
<1> HIDE DEF l1, l2, l3, l4, legs, of
<1>4. Total(legs) = of(source, -amount) + of(destination, amount) + of(source, -fee) + of(to, fee)
  BY <1>2, <1>3, PlusTotal
<1>5. Total(legs) = 0
  BY <1>1, <1>4 DEF of
<1> QED BY <1>5 DEF legs

\* Nor does it for one across currencies: each currency's legs add up to zero
\* by themselves.
THEOREM CrossLegsBalance ==
  ASSUME NEW source \in Wallets, NEW destination \in Wallets,
         NEW amount \in Int, NEW fee \in Int, NEW converted \in Int
  PROVE  Balanced(CrossLegs(source, destination, amount, fee, converted))
<1> SUFFICES ASSUME NEW cur \in Currencies
             PROVE  Total([a \in Accounts |->
                      CrossLegs(source, destination, amount, fee, converted)[<<a, cur>>]]) = 0
  BY DEF Balanced
<1> DEFINE from == TreasuryWallet(source[2])
           to == TreasuryWallet(destination[2])
           l1 == LegAcross(cur, source, -amount)
           l2 == LegAcross(cur, from, amount)
           l3 == LegAcross(cur, source, -fee)
           l4 == LegAcross(cur, from, fee)
           l5 == LegAcross(cur, to, -converted)
           l6 == LegAcross(cur, destination, converted)
           legs == [a \in Accounts |->
                      CrossLegs(source, destination, amount, fee, converted)[<<a, cur>>]]
           of(w, n) == IF w[2] = cur THEN n ELSE 0
<1>1. /\ from \in Wallets /\ from[2] = source[2]
      /\ to \in Wallets /\ to[2] = destination[2]
  BY DEF Wallets, Accounts, TreasuryWallet
<1>2. legs = Plus(Plus(Plus(Plus(Plus(l1, l2), l3), l4), l5), l6)
  BY DEF CrossLegs, Plus, LegAcross, Wallets
<1>3. /\ l1 \in [Accounts -> Int] /\ Total(l1) = of(source, -amount)
      /\ l2 \in [Accounts -> Int] /\ Total(l2) = of(from, amount)
      /\ l3 \in [Accounts -> Int] /\ Total(l3) = of(source, -fee)
      /\ l4 \in [Accounts -> Int] /\ Total(l4) = of(from, fee)
      /\ l5 \in [Accounts -> Int] /\ Total(l5) = of(to, -converted)
      /\ l6 \in [Accounts -> Int] /\ Total(l6) = of(destination, converted)
  BY <1>1, LegTotal
<1> HIDE DEF l1, l2, l3, l4, l5, l6, legs, of
<1>4. Total(legs) = of(source, -amount) + of(from, amount) + of(source, -fee) + of(from, fee)
                    + of(to, -converted) + of(destination, converted)
  BY <1>2, <1>3, PlusTotal
<1>5. Total(legs) = 0
  BY <1>1, <1>4 DEF of
<1> QED BY <1>5 DEF legs

\* Moving an amount from the treasury to a customer's wallet is balanced.
LEMMA MoveBalances ==
  ASSUME NEW w \in Wallets, NEW amount \in Int
  PROVE  Balanced([v \in Wallets |-> Leg(v, w, amount) + Leg(v, TreasuryWallet(w[2]), -amount)])
<1> DEFINE from == TreasuryWallet(w[2])
           moved == [v \in Wallets |-> Leg(v, w, amount) + Leg(v, from, -amount)]
<1> SUFFICES ASSUME NEW cur \in Currencies
             PROVE  Total([a \in Accounts |-> moved[<<a, cur>>]]) = 0
  BY DEF Balanced
<1> DEFINE l1 == LegAcross(cur, w, amount)
           l2 == LegAcross(cur, from, -amount)
           legs == [a \in Accounts |-> moved[<<a, cur>>]]
<1>1. from \in Wallets /\ from[2] = w[2]
  BY DEF Wallets, Accounts, TreasuryWallet
<1>2. legs = Plus(l1, l2)
  BY DEF Plus, LegAcross, Wallets
<1>3. /\ l1 \in [Accounts -> Int] /\ Total(l1) = IF w[2] = cur THEN amount ELSE 0
      /\ l2 \in [Accounts -> Int] /\ Total(l2) = IF from[2] = cur THEN -amount ELSE 0
  BY <1>1, LegTotal
<1> HIDE DEF l1, l2, legs
<1>4. Total(legs) = 0
  BY <1>1, <1>2, <1>3, PlusTotal
<1> QED BY <1>4 DEF legs

\* No entries are balanced entries.
LEMMA NothingBalances == Balanced(Nothing)
<1> SUFFICES ASSUME NEW cur \in Currencies
             PROVE  Total([a \in Accounts |-> Nothing[<<a, cur>>]]) = 0
  BY DEF Balanced
<1> DEFINE f == [a \in Accounts |-> Nothing[<<a, cur>>]]
<1>1. Total(f) = SumFunctionOnSet(f, Accounts) /\ \A a \in Accounts : f[a] = 0
  BY DEF Total, SumFunction, Nothing, Wallets
<1> HIDE DEF f
<1>2. Total(f) = 0
  BY <1>1, FiniteSets, SumOfZeros
<1> QED BY <1>2 DEF f

-----------------------------------------------------------------------------
(* Drafts *)

DraftOK(d) ==
  /\ d \in Draft
  /\ DraftAddsUp(d) /\ TouchedIsNamed(d) /\ DraftIsCovered(d) /\ Balanced(d.net)

\* A balanced posting whose entries say what it does to the balances, which
\* names the treasury wallets it moves, and which every wallet can bear.
LEMMA PostOK ==
  ASSUME NEW d, DraftOK(d),
         NEW legs \in [Wallets -> Int], NEW change \in [Wallets -> Int],
         NEW touched \in SUBSET Currencies,
         \A w \in Wallets : change[w] = legs[w],
         \A cur \in Currencies \ touched : legs[TreasuryWallet(cur)] = 0,
         Balanced(legs), \A w \in Wallets : d.balance[w] + change[w] >= 0
  PROVE  DraftOK(Post(d, legs, change, touched)) /\ Post(d, legs, change, touched).start = d.start
<1> DEFINE e == Post(d, legs, change, touched)
<1>1. d \in Draft /\ DraftAddsUp(d) /\ TouchedIsNamed(d) /\ Balanced(d.net)
  BY DEF DraftOK
<1>2. /\ e.start = d.start /\ e.verified = d.verified /\ e.wallets = d.wallets
      /\ e.left = d.left /\ e.pending = d.pending /\ e.funded = d.funded
      /\ e.touched = d.touched \cup touched
      /\ e.net = [w \in Wallets |-> d.net[w] + legs[w]]
      /\ e.balance = [w \in Wallets |-> d.balance[w] + change[w]]
  BY <1>1 DEF Post, Draft
<1>8. e = [d EXCEPT !.net = e.net, !.balance = e.balance, !.touched = e.touched]
  BY <1>2 DEF Post
<1> HIDE DEF e
<1>3. \A w \in Wallets : d.net[w] \in Int /\ d.balance[w] \in Int
  BY <1>1 DEF Draft
<1>4. /\ \A c \in Customers : \A cur \in Currencies : <<c, cur>> \in Wallets
      /\ \A cur \in Currencies : TreasuryWallet(cur) \in Wallets
  BY DEF Wallets, Accounts, TreasuryWallet
<1>5. \A cur \in Currencies : d.start[cur] \in Int
  BY <1>1 DEF Draft
<1>9. e \in Draft
  <2>1. e.net \in [Wallets -> Int] /\ e.balance \in [Wallets -> Int]
    BY <1>2, <1>3
  <2>2. e.touched \in SUBSET Currencies
    BY <1>1, <1>2 DEF Draft
  <2> QED BY <1>1, <1>8, <2>1, <2>2 DEF Draft
<1>6. DraftAddsUp(e)
  BY <1>1, <1>2, <1>3, <1>4, <1>5 DEF DraftAddsUp
<1>7. TouchedIsNamed(e)
  BY <1>1, <1>2, <1>3, <1>4 DEF TouchedIsNamed
<1>10. DraftIsCovered(e)
  BY <1>2 DEF DraftIsCovered
<1>11. Balanced(e.net)
  <2>1. d.net \in [Wallets -> Int] /\ \A w \in Wallets : e.net[w] = d.net[w] + legs[w]
    BY <1>1, <1>2 DEF Draft
  <2> QED BY <1>1, <2>1, BalancedSum
<1> QED BY <1>2, <1>6, <1>7, <1>9, <1>10, <1>11 DEF DraftOK, e

\* What does not concern the balances and the entries may change.
LEMMA SameBooks ==
  ASSUME NEW d, DraftOK(d), NEW e \in Draft,
         e.start = d.start, e.balance = d.balance, e.net = d.net, e.touched = d.touched
  PROVE  DraftOK(e)
BY DEF DraftOK, DraftAddsUp, TouchedIsNamed, DraftIsCovered

\* A customer's wallet is a wallet, and not the treasury's.
LEMMA WalletKinds ==
  /\ \A w \in Customers \X Currencies :
       /\ w \in Wallets /\ w[2] \in Currencies
       /\ \A cur \in Currencies : TreasuryWallet(cur) # w
  /\ \A cur \in Currencies : TreasuryWallet(cur) \in Wallets /\ TreasuryWallet(cur)[2] = cur
BY DatasetAssumption DEF Wallets, Accounts, TreasuryWallet

\* The balances of a remittance in one currency move as its four entries say.
LEMMA SameIsPosted ==
  ASSUME NEW source \in Customers \X Currencies, NEW destination \in Customers \X Currencies,
         NEW amount \in Int, NEW fee \in Int
  PROVE  /\ SameLegs(source, destination, amount, fee) \in [Wallets -> Int]
         /\ SameChange(source, destination, amount, fee) \in [Wallets -> Int]
         /\ \A w \in Wallets : SameChange(source, destination, amount, fee)[w]
                                 = SameLegs(source, destination, amount, fee)[w]
         /\ \A cur \in Currencies \ {source[2]} :
              SameLegs(source, destination, amount, fee)[TreasuryWallet(cur)] = 0
<1>1. \A w \in Wallets :
        /\ SameLegs(source, destination, amount, fee)[w]
             = Leg(w, source, -amount) + Leg(w, destination, amount)
               + Leg(w, source, -fee) + Leg(w, TreasuryWallet(source[2]), fee)
        /\ SameChange(source, destination, amount, fee)[w]
             = Leg(w, source, -(amount + fee)) + Leg(w, destination, amount)
               + Leg(w, TreasuryWallet(source[2]), fee)
  BY DEF SameLegs, SameChange
<1>2. \A w \in Wallets : SameChange(source, destination, amount, fee)[w]
                           = SameLegs(source, destination, amount, fee)[w]
  BY <1>1 DEF Leg
<1>3. ASSUME NEW cur \in Currencies \ {source[2]}
      PROVE  SameLegs(source, destination, amount, fee)[TreasuryWallet(cur)] = 0
  <2>1. TreasuryWallet(cur) # TreasuryWallet(source[2])
    BY WalletKinds
  <2> QED BY <1>1, <2>1, WalletKinds DEF Leg
<1> QED BY <1>2, <1>3 DEF SameLegs, SameChange, Leg

\* So do those of a remittance across currencies, with its six.
LEMMA CrossIsPosted ==
  ASSUME NEW source \in Customers \X Currencies, NEW destination \in Customers \X Currencies,
         NEW amount \in Int, NEW fee \in Int, NEW converted \in Int
  PROVE  /\ CrossLegs(source, destination, amount, fee, converted) \in [Wallets -> Int]
         /\ CrossChange(source, destination, amount, fee, converted) \in [Wallets -> Int]
         /\ \A w \in Wallets : CrossChange(source, destination, amount, fee, converted)[w]
                                 = CrossLegs(source, destination, amount, fee, converted)[w]
         /\ \A cur \in Currencies \ {source[2], destination[2]} :
              CrossLegs(source, destination, amount, fee, converted)[TreasuryWallet(cur)] = 0
<1> DEFINE from == TreasuryWallet(source[2])
           to == TreasuryWallet(destination[2])
<1>1. \A w \in Wallets :
        /\ CrossLegs(source, destination, amount, fee, converted)[w]
             = Leg(w, source, -amount) + Leg(w, from, amount)
               + Leg(w, source, -fee) + Leg(w, from, fee)
               + Leg(w, to, -converted) + Leg(w, destination, converted)
        /\ CrossChange(source, destination, amount, fee, converted)[w]
             = Leg(w, source, -(amount + fee)) + Leg(w, destination, converted)
               + Leg(w, from, amount + fee) + Leg(w, to, -converted)
  BY DEF CrossLegs, CrossChange
<1>2. \A w \in Wallets : CrossChange(source, destination, amount, fee, converted)[w]
                           = CrossLegs(source, destination, amount, fee, converted)[w]
  BY <1>1 DEF Leg
<1>3. ASSUME NEW cur \in Currencies \ {source[2], destination[2]}
      PROVE  CrossLegs(source, destination, amount, fee, converted)[TreasuryWallet(cur)] = 0
  <2>1. TreasuryWallet(cur) # from /\ TreasuryWallet(cur) # to
    BY WalletKinds
  <2> QED BY <1>1, <2>1, WalletKinds DEF Leg
<1> QED BY <1>2, <1>3 DEF CrossLegs, CrossChange, Leg

\* A remittance the sender can pay for leaves no wallet below zero.
LEMMA SameIsCovered ==
  ASSUME NEW d, DraftOK(d),
         NEW source \in Customers \X Currencies, NEW destination \in Customers \X Currencies,
         source # destination, NEW amount \in Nat, NEW fee \in Nat,
         amount + fee <= d.balance[source]
  PROVE  \A w \in Wallets : d.balance[w] + SameChange(source, destination, amount, fee)[w] >= 0
<1> SUFFICES ASSUME NEW w \in Wallets
             PROVE  d.balance[w] + SameChange(source, destination, amount, fee)[w] >= 0
  OBVIOUS
<1>1. d.balance[w] \in Int /\ d.balance[w] >= 0
  BY DEF DraftOK, Draft, DraftIsCovered
<1>2. TreasuryWallet(source[2]) # source /\ TreasuryWallet(source[2]) # destination
  BY WalletKinds
<1>3. SameChange(source, destination, amount, fee)[w]
        = Leg(w, source, -(amount + fee)) + Leg(w, destination, amount)
          + Leg(w, TreasuryWallet(source[2]), fee)
  BY DEF SameChange
<1>4. CASE w = source
  BY <1>1, <1>2, <1>3, <1>4 DEF Leg
<1>5. CASE w # source
  BY <1>1, <1>2, <1>3, <1>5 DEF Leg
<1> QED BY <1>4, <1>5

\* Nor does one across currencies whose settlement the treasury can afford.
LEMMA CrossIsCovered ==
  ASSUME NEW d, DraftOK(d),
         NEW source \in Customers \X Currencies, NEW destination \in Customers \X Currencies,
         source[2] # destination[2],
         NEW amount \in Nat, NEW fee \in Nat, NEW converted \in Nat,
         amount + fee <= d.balance[source],
         converted <= d.balance[TreasuryWallet(destination[2])]
  PROVE  \A w \in Wallets :
           d.balance[w] + CrossChange(source, destination, amount, fee, converted)[w] >= 0
<1> SUFFICES ASSUME NEW w \in Wallets
             PROVE  d.balance[w] + CrossChange(source, destination, amount, fee, converted)[w] >= 0
  OBVIOUS
<1> DEFINE from == TreasuryWallet(source[2])
           to == TreasuryWallet(destination[2])
<1>1. d.balance[w] \in Int /\ d.balance[w] >= 0
  BY DEF DraftOK, Draft, DraftIsCovered
<1>2. /\ from # source /\ from # destination /\ to # source /\ to # destination
      /\ from # to /\ source # destination
  BY WalletKinds
<1>3. CrossChange(source, destination, amount, fee, converted)[w]
        = Leg(w, source, -(amount + fee)) + Leg(w, destination, converted)
          + Leg(w, from, amount + fee) + Leg(w, to, -converted)
  BY DEF CrossChange
<1>4. CASE w = source
  BY <1>1, <1>2, <1>3, <1>4 DEF Leg
<1>5. CASE w = to
  BY <1>1, <1>2, <1>3, <1>5 DEF Leg
<1>6. CASE w # source /\ w # to
  BY <1>1, <1>2, <1>3, <1>6 DEF Leg
<1> QED BY <1>4, <1>5, <1>6

-----------------------------------------------------------------------------
(* Generation *)

\* What a generating step leaves: a sound draft, from the same snapshot.
Keeps(s, d) ==
  DraftOK(d) /\ d.start = draft[s].start /\ draft' = [draft EXCEPT ![s] = d]

\* A posting is kept.
LEMMA KeepsPosting ==
  ASSUME NEW s, NEW d, DraftOK(d), d.start = draft[s].start,
         NEW legs \in [Wallets -> Int], NEW change \in [Wallets -> Int],
         NEW touched \in SUBSET Currencies,
         \A w \in Wallets : change[w] = legs[w],
         \A cur \in Currencies \ touched : legs[TreasuryWallet(cur)] = 0,
         Balanced(legs), \A w \in Wallets : d.balance[w] + change[w] >= 0,
         draft' = [draft EXCEPT ![s] = Post(d, legs, change, touched)]
  PROVE  \E e : Keeps(s, e)
<1>1. DraftOK(Post(d, legs, change, touched)) /\ Post(d, legs, change, touched).start = d.start
  BY PostOK
<1>2. Keeps(s, Post(d, legs, change, touched))
  BY <1>1 DEF Keeps
<1> QED BY <1>2

\* Customers, wallets and counts.
LEMMA PopulateKeeps ==
  ASSUME GenerationTypeOK, NEW s \in Runs, DraftOK(draft[s]), Populate(s)
  PROVE  \E e : Keeps(s, e)
<1>1. PICK verified \in KycChoices(config[s].customers),
           holds \in HoldingChoices(config[s].customers, config[s].walletsPerCustomer),
           left \in CountChoices(config[s].customers, config[s].remittanceCountByProfile) :
        draft' = [draft EXCEPT
                   ![s].verified = verified,
                   ![s].wallets = {w \in config[s].customers \X Currencies : w[2] \in holds[w[1]]},
                   ![s].left = [c \in Customers |-> IF c \in config[s].customers THEN left[c] ELSE 0]]
  BY DEF Populate
<1> DEFINE W == {w \in config[s].customers \X Currencies : w[2] \in holds[w[1]]}
           L == [c \in Customers |-> IF c \in config[s].customers THEN left[c] ELSE 0]
           e == [draft[s] EXCEPT !.verified = verified, !.wallets = W, !.left = L]
<1>2. /\ config[s].customers \subseteq Customers
      /\ config[s].remittanceCountByProfile \in [Profiles -> Ranges]
  BY DEF GenerationTypeOK, SeedConfig
<1>3. L \in [Customers -> Nat]
  <2>1. \A c \in config[s].customers :
          \E p \in Profiles : left[c] \in config[s].remittanceCountByProfile[p].min
                                            ..config[s].remittanceCountByProfile[p].max
    BY <1>1 DEF CountChoices
  <2>2. \A p \in Profiles : /\ config[s].remittanceCountByProfile[p].min \in Nat
                            /\ config[s].remittanceCountByProfile[p].max \in Nat
    BY <1>2 DEF Ranges
  <2> QED BY <2>1, <2>2
<1>4. draft[s] \in Draft
  BY DEF DraftOK
<1>5. e \in Draft /\ e.start = draft[s].start /\ e.balance = draft[s].balance
      /\ e.net = draft[s].net /\ e.touched = draft[s].touched
  <2>1. verified \in SUBSET Customers /\ W \in SUBSET (Customers \X Currencies)
    BY <1>2 DEF KycChoices
  <2> DEFINE f == [draft[s] EXCEPT !.verified = verified]
             g == [f EXCEPT !.wallets = W]
  <2> HIDE DEF L, W
  <2>2. f \in Draft /\ f.start = draft[s].start /\ f.balance = draft[s].balance
        /\ f.net = draft[s].net /\ f.touched = draft[s].touched
    BY <1>4, <2>1 DEF Draft
  <2> HIDE DEF f
  <2>3. g \in Draft /\ g.start = f.start /\ g.balance = f.balance
        /\ g.net = f.net /\ g.touched = f.touched
    BY <2>1, <2>2 DEF Draft
  <2> HIDE DEF g
  <2>4. [g EXCEPT !.left = L] \in Draft /\ [g EXCEPT !.left = L].start = g.start
        /\ [g EXCEPT !.left = L].balance = g.balance
        /\ [g EXCEPT !.left = L].net = g.net /\ [g EXCEPT !.left = L].touched = g.touched
    BY <1>3, <2>3 DEF Draft
  <2>5. e = [g EXCEPT !.left = L]
    BY DEF f, g
  <2> QED BY <2>2, <2>3, <2>4, <2>5
<1>6. draft' = [draft EXCEPT ![s] = e]
  BY <1>1
<1> HIDE DEF e
<1>7. Keeps(s, e)
  BY <1>5, <1>6, SameBooks DEF Keeps
<1> QED BY <1>7

\* Opening balances.
LEMMA FundKeeps ==
  ASSUME NEW s \in Runs, NEW cur \in Currencies, DraftOK(draft[s]), Fund(s, cur)
  PROVE  \E e : Keeps(s, e)
<1> DEFINE d == draft[s]
           ours == {w \in d.wallets : w[2] = cur}
           budget == FundingBudget(d.balance[TreasuryWallet(cur)])
           total(asked) == Total(asked)
           granted(asked, w) == IF w \in ours THEN Granted(asked[w], total(asked), budget) ELSE 0
           given(asked) == Total([w \in ours |-> granted(asked, w)])
           legs(asked) == [w \in Wallets |->
                             granted(asked, w) + Leg(w, TreasuryWallet(cur), -given(asked))]
           touched(asked) == IF given(asked) > 0 THEN {cur} ELSE {}
<1>1. PICK asked \in [ours -> BalanceRequests] :
        /\ Balanced(legs(asked))
        /\ draft' = [draft EXCEPT ![s] = [Post(d, legs(asked), legs(asked), touched(asked))
                                            EXCEPT !.funded = @ \cup {cur}]]
  BY DEF Fund
<1> DEFINE held == d.balance[TreasuryWallet(cur)]
<1>2. d \in Draft /\ held \in Nat /\ budget \in Nat /\ budget <= held
  <2>1. d \in Draft /\ TreasuryWallet(cur) \in Wallets
    BY WalletKinds DEF DraftOK
  <2>2. held \in Nat
    BY <2>1 DEF Draft, DraftOK, DraftIsCovered
  <2> HIDE DEF held
  <2>3. (held * 6) \div 10 \in Nat /\ (held * 6) \div 10 <= held
    BY <2>2
  <2> QED BY <2>1, <2>2, <2>3 DEF FundingBudget, held
<1>3. ours \subseteq Customers \X Currencies
  BY <1>2 DEF Draft
<1> DEFINE shares == [w \in ours |-> Granted(asked[w], Total(asked), budget)]
<1>4. /\ shares \in [ours -> Nat] /\ given(asked) \in Nat /\ given(asked) <= held
  <2>1. IsFiniteSet(ours)
    BY <1>3, FiniteSets, FS_Subset
  <2>2. asked \in [ours -> Nat]
    BY <1>1, DatasetAssumption
  <2>3. shares \in [ours -> Nat] /\ Total(shares) \in Nat /\ Total(shares) <= budget
    <3> HIDE DEF ours, budget
    <3> QED BY <1>2, <2>1, <2>2, GrantedWithinBudget
  <2>4. shares = [w \in ours |-> granted(asked, w)]
    OBVIOUS
  <2> HIDE DEF shares, held, budget
  <2> QED BY <1>2, <2>3, <2>4
<1> DEFINE g == [w \in Wallets |-> granted(asked, w)]
           n == given(asked)
           L == [w \in Wallets |-> g[w] + Leg(w, TreasuryWallet(cur), -n)]
<1>5. L = legs(asked)
  OBVIOUS
<1>6. g \in [Wallets -> Nat] /\ n \in Nat /\ n <= held
  <2>1. \A w \in Wallets : g[w] = IF w \in ours THEN shares[w] ELSE 0
    OBVIOUS
  <2> HIDE DEF shares, g, ours
  <2>2. \A w \in Wallets : g[w] \in Nat
    BY <1>4, <2>1
  <2>3. g \in [Wallets -> Nat]
    BY <2>2 DEF g
  <2> QED BY <1>4, <2>3
<1>7. \A other \in Currencies : g[TreasuryWallet(other)] = 0
  BY <1>3, WalletKinds
<1> HIDE DEF g, n, shares, held
<1>8. L \in [Wallets -> Int]
  BY <1>6 DEF Leg
<1>9. \A other \in Currencies \ touched(asked) : L[TreasuryWallet(other)] = 0
  <2>1. ASSUME NEW other \in Currencies \ touched(asked) PROVE L[TreasuryWallet(other)] = 0
    <3>1. L[TreasuryWallet(other)] = Leg(TreasuryWallet(other), TreasuryWallet(cur), -n)
      BY <1>6, <1>7, WalletKinds DEF Leg
    <3>2. CASE other # cur
      BY <3>1, <3>2, WalletKinds DEF Leg
    <3>3. CASE other = cur
      <4>1. ~(n > 0)
        BY <3>3 DEF n
      <4> QED BY <1>6, <3>1, <4>1 DEF Leg
    <3> QED BY <3>2, <3>3
  <2> QED BY <2>1
<1>15. \A w \in Wallets : d.balance[w] + L[w] >= 0
  <2> SUFFICES ASSUME NEW w \in Wallets PROVE d.balance[w] + L[w] >= 0
    OBVIOUS
  <2>1. d.balance[w] \in Int /\ d.balance[w] >= 0 /\ g[w] \in Nat
    BY <1>2, <1>6 DEF Draft, DraftOK, DraftIsCovered
  <2>2. CASE w = TreasuryWallet(cur)
    <3>1. L[w] = -n /\ d.balance[w] = held
      BY <1>6, <1>7, <2>2 DEF Leg, held
    <3> QED BY <1>2, <1>6, <3>1
  <2>3. CASE w # TreasuryWallet(cur)
    <3>1. L[w] = g[w]
      BY <1>6, <2>1, <2>3 DEF Leg
    <3> QED BY <2>1, <3>1
  <2> QED BY <2>2, <2>3
<1>16. Balanced(L)
  BY <1>1, <1>5
<1> DEFINE t == touched(asked)
<1>10. t \in SUBSET Currencies
  OBVIOUS
<1> HIDE DEF t, L
<1> DEFINE e == Post(d, L, L, t)
           f == [e EXCEPT !.funded = @ \cup {cur}]
<1>11. DraftOK(e) /\ e.start = d.start
  BY <1>8, <1>9, <1>10, <1>15, <1>16, PostOK DEF t
<1> HIDE DEF e
<1>12. f \in Draft /\ f.start = e.start /\ f.balance = e.balance /\ f.net = e.net
       /\ f.touched = e.touched
  BY <1>11 DEF DraftOK, Draft
<1>13. DraftOK(f) /\ f.start = draft[s].start
  <2> HIDE DEF f
  <2> QED BY <1>11, <1>12, SameBooks
<1>14. draft' = [draft EXCEPT ![s] = f]
  BY <1>1, <1>5 DEF e, t
<1> HIDE DEF f
<1> QED BY <1>13, <1>14 DEF Keeps

\* Remittances that leave no entries, and a count that goes down.
LEMMA SentKeeps ==
  ASSUME NEW c \in Customers, NEW d, DraftOK(d), d.left[c] > 0
  PROVE  DraftOK(Sent(d, c)) /\ Sent(d, c).start = d.start /\ Sent(d, c).balance = d.balance
<1>1. d \in Draft /\ d.left \in [Customers -> Nat]
  BY DEF DraftOK, Draft
<1>2. [d.left EXCEPT ![c] = @ - 1] \in [Customers -> Nat]
  BY <1>1
<1>3. Sent(d, c) = [d EXCEPT !.left = [d.left EXCEPT ![c] = @ - 1]]
  BY DEF Sent
<1>4. /\ Sent(d, c) \in Draft /\ Sent(d, c).start = d.start /\ Sent(d, c).net = d.net
      /\ Sent(d, c).balance = d.balance /\ Sent(d, c).touched = d.touched
  BY <1>1, <1>2, <1>3 DEF Draft
<1> QED BY <1>4, SameBooks

\* What is sent is a whole number of minor units, and so is its fee.
LEMMA AmountType ==
  ASSUME NEW d, DraftOK(d), NEW source \in Customers \X Currencies, NEW percent \in SendPercents
  PROVE  SendAmount(d, source, percent) \in Int
<1>1. d.balance[source] \in Int /\ percent \in Int
  BY WalletKinds, DatasetAssumption DEF DraftOK, Draft
<1>2. d.balance[source] * percent \in Int
  BY <1>1
<1> QED BY <1>2, DatasetAssumption DEF SendAmount, Smaller

LEMMA FeeType == ASSUME NEW amount \in Nat PROVE Fee(amount) \in Nat
BY Rounded DEF Fee

\* A remittance within one currency.
LEMMA RemitSameKeeps ==
  ASSUME NEW s \in Runs, NEW c \in Customers, DraftOK(draft[s]), RemitSame(s, c)
  PROVE  \E e : Keeps(s, e)
<1> DEFINE d == draft[s]
           amount(source, percent) == SendAmount(d, source, percent)
<1>1. PICK source \in d.wallets, destination \in d.wallets, percent \in SendPercents :
        /\ draft' = [draft EXCEPT ![s] = Post(Sent(d, c),
                    SameLegs(source, destination, amount(source, percent), Fee(amount(source, percent))),
                    SameChange(source, destination, amount(source, percent), Fee(amount(source, percent))),
                    {source[2]})]
        /\ Sendable(d, source, destination, amount(source, percent))
        /\ source[2] = destination[2]
  BY DEF RemitSame
<1> DEFINE a == amount(source, percent)
           fee == Fee(a)
           legs == SameLegs(source, destination, a, fee)
           change == SameChange(source, destination, a, fee)
           t == {source[2]}
           e == Sent(d, c)
<1>2. source \in Customers \X Currencies /\ destination \in Customers \X Currencies
  BY DEF DraftOK, Draft
<1>3. a \in Nat /\ fee \in Nat /\ a + fee <= d.balance[source] /\ source # destination
  <2>1. a \in Int
    BY <1>2, AmountType
  <2>2. a \in Nat /\ a + fee <= d.balance[source] /\ source # destination
    BY <1>1, <2>1, DatasetAssumption DEF Sendable
  <2> QED BY <2>2, FeeType
<1>4. d.left[c] > 0
  BY DEF RemitSame
<1>5. DraftOK(e) /\ e.start = draft[s].start /\ e.balance = d.balance
  BY <1>4, SentKeeps
<1>6. t \in SUBSET Currencies
  BY <1>2
<1> HIDE DEF a, fee
<1>9. \A w \in Wallets : e.balance[w] + change[w] >= 0
  <2>1. \A w \in Wallets : d.balance[w] + change[w] >= 0
    BY <1>2, <1>3, SameIsCovered
  <2> QED BY <1>5, <2>1
<1>10. Balanced(legs)
  BY <1>1, <1>2, <1>3, WalletKinds, SameLegsBalance
<1>7. /\ legs \in [Wallets -> Int] /\ change \in [Wallets -> Int]
      /\ \A w \in Wallets : change[w] = legs[w]
      /\ \A cur \in Currencies \ t : legs[TreasuryWallet(cur)] = 0
  <2> USE <1>2, <1>3
  <2>1. legs \in [Wallets -> Int]
    BY SameIsPosted
  <2>2. change \in [Wallets -> Int]
    BY SameIsPosted
  <2>3. \A w \in Wallets : change[w] = legs[w]
    BY SameIsPosted
  <2>4. \A cur \in Currencies \ t : legs[TreasuryWallet(cur)] = 0
    BY SameIsPosted
  <2> QED BY <2>1, <2>2, <2>3, <2>4
<1>8. draft' = [draft EXCEPT ![s] = Post(e, legs, change, t)]
  BY <1>1 DEF a, fee
<1> HIDE DEF e, legs, change, t
<1> QED BY <1>5, <1>6, <1>7, <1>8, <1>9, <1>10, KeepsPosting

\* A remittance across currencies.
LEMMA RemitAcrossKeeps ==
  ASSUME NEW s \in Runs, NEW c \in Customers, DraftOK(draft[s]), RemitAcross(s, c)
  PROVE  \E e : Keeps(s, e)
<1> DEFINE d == draft[s]
           e == Sent(d, c)
<1>1. PICK source \in d.wallets, destination \in d.wallets, percent \in SendPercents :
        /\ source[2] # destination[2]
        /\ \E rate \in Rates[<<source[2], destination[2]>>] :
             SendAcross(s, c, source, destination, percent, rate)
  BY DEF RemitAcross
<1>2. PICK rate \in Rates[<<source[2], destination[2]>>] :
        SendAcross(s, c, source, destination, percent, rate)
  BY <1>1
<1> DEFINE b == SendAmount(d, source, percent)
           m == MaxAffordable(d.balance[TreasuryWallet(destination[2])])
           v == Convert(b, rate)
           a == Affordable(b, v, m)
           n == Convert(a, rate)
           fee == Fee(b)
           legs == CrossLegs(source, destination, a, fee, n)
           change == CrossChange(source, destination, a, fee, n)
           t == {source[2], destination[2]}
<1>3. source \in Customers \X Currencies /\ destination \in Customers \X Currencies
  BY DEF DraftOK, Draft
<1>4. rate \in Rate
  <2> DEFINE p == <<source[2], destination[2]>>
  <2>1. p \in Currencies \X Currencies
    BY <1>3
  <2>2. rate \in Rates[p]
    BY <1>2
  <2> HIDE DEF p
  <2> QED BY <2>1, <2>2, DatasetAssumption
<1>5. b \in Nat /\ fee \in Nat /\ b + fee <= d.balance[source]
  <2>1. b \in Int
    BY <1>3, AmountType
  <2>2. b \in Nat /\ b + fee <= d.balance[source]
    BY <1>2, <2>1, DatasetAssumption DEF SendAcross, Sendable
  <2> QED BY <2>2, FeeType
<1>7. m \in Nat /\ m <= d.balance[TreasuryWallet(destination[2])]
  <2> DEFINE w == TreasuryWallet(destination[2])
  <2>1. w \in Wallets
    BY <1>3, WalletKinds
  <2> HIDE DEF w
  <2>2. d.balance[w] \in Nat
    BY <2>1 DEF DraftOK, Draft, DraftIsCovered
  <2>3. (d.balance[w] * 9) \div 10 \in Nat /\ (d.balance[w] * 9) \div 10 <= d.balance[w]
    BY <2>2
  <2> QED BY <2>3 DEF MaxAffordable, w
<1>8. /\ v > m => m > 0
      /\ draft' = [draft EXCEPT ![s] = Post(e, legs, change, t)]
  BY <1>2 DEF SendAcross
<1>9. d.left[c] > 0
  BY DEF RemitAcross
<1>10. DraftOK(e) /\ e.start = draft[s].start /\ e.balance = d.balance
  BY <1>9, SentKeeps
<1>11. a \in Nat /\ a <= b /\ n \in Nat /\ n <= m
  <2> HIDE DEF b, m
  <2> QED BY <1>4, <1>5, <1>7, <1>8, AffordableConversion
<1>12. \A w \in Wallets : e.balance[w] + change[w] >= 0
  <2>1. d.balance[source] \in Int /\ d.balance[TreasuryWallet(destination[2])] \in Int
    BY <1>3, WalletKinds DEF DraftOK, Draft
  <2> HIDE DEF b, m, fee, a, n
  <2>2. a + fee <= d.balance[source] /\ n <= d.balance[TreasuryWallet(destination[2])]
    BY <1>5, <1>7, <1>11, <2>1
  <2>3. \A w \in Wallets : d.balance[w] + change[w] >= 0
    BY <1>1, <1>3, <1>5, <1>11, <2>2, CrossIsCovered
  <2> QED BY <1>10, <2>3
<1>15. Balanced(legs)
  <2> HIDE DEF b, fee, a, n
  <2> QED BY <1>3, <1>5, <1>11, WalletKinds, CrossLegsBalance
<1> HIDE DEF b, m, v, d, fee, a
<1>13. t \in SUBSET Currencies
  BY <1>3
<1> HIDE DEF n
<1>14. /\ legs \in [Wallets -> Int] /\ change \in [Wallets -> Int]
       /\ \A w \in Wallets : change[w] = legs[w]
       /\ \A cur \in Currencies \ t : legs[TreasuryWallet(cur)] = 0
  <2> USE <1>3, <1>5, <1>11
  <2>1. legs \in [Wallets -> Int]
    BY CrossIsPosted
  <2>2. change \in [Wallets -> Int]
    BY CrossIsPosted
  <2>3. \A w \in Wallets : change[w] = legs[w]
    BY CrossIsPosted
  <2>4. \A cur \in Currencies \ t : legs[TreasuryWallet(cur)] = 0
    BY CrossIsPosted
  <2> QED BY <2>1, <2>2, <2>3, <2>4
<1> HIDE DEF e, legs, change, t
<1> QED BY <1>8, <1>10, <1>12, <1>13, <1>14, <1>15, KeepsPosting

\* The pool's top-ups.
LEMMA TopUpKeeps ==
  ASSUME NEW s \in Runs, NEW w \in Customers \X Currencies, DraftOK(draft[s]), TopUp(s, w)
  PROVE  \E e : Keeps(s, e)
<1> DEFINE d == draft[s]
           a == TopUpAmount(d.balance[TreasuryWallet(w[2])])
           legs == [v \in Wallets |-> Leg(v, w, a) + Leg(v, TreasuryWallet(w[2]), -a)]
           e == IF a > 0 THEN Post(d, legs, legs, {w[2]}) ELSE d
           f == [e EXCEPT !.pending = @ \ {w}]
<1>1. draft' = [draft EXCEPT ![s] = f]
  BY DEF TopUp
<1>2. a \in Nat /\ a <= d.balance[TreasuryWallet(w[2])]
  <2>1. d.balance[TreasuryWallet(w[2])] \in Nat
    BY WalletKinds DEF DraftOK, Draft, DraftIsCovered
  <2> QED BY <2>1, DatasetAssumption DEF TopUpAmount, Smaller
<1> HIDE DEF a
<1>10. Balanced(legs)
  BY <1>2, WalletKinds, MoveBalances
<1>11. \A v \in Wallets : d.balance[v] + legs[v] >= 0
  <2> SUFFICES ASSUME NEW v \in Wallets PROVE d.balance[v] + legs[v] >= 0
    OBVIOUS
  <2>1. d.balance[v] \in Int /\ d.balance[v] >= 0
    BY DEF DraftOK, Draft, DraftIsCovered
  <2>2. TreasuryWallet(w[2]) # w
    BY WalletKinds
  <2>3. CASE v = TreasuryWallet(w[2])
    BY <1>2, <2>1, <2>2, <2>3 DEF Leg
  <2>4. CASE v # TreasuryWallet(w[2])
    BY <1>2, <2>1, <2>4 DEF Leg
  <2> QED BY <2>3, <2>4
<1>3. legs \in [Wallets -> Int]
  BY <1>2 DEF Leg
<1>4. \A cur \in Currencies \ {w[2]} : legs[TreasuryWallet(cur)] = 0
  <2>1. ASSUME NEW cur \in Currencies \ {w[2]} PROVE legs[TreasuryWallet(cur)] = 0
    <3>1. TreasuryWallet(cur) # TreasuryWallet(w[2])
      BY WalletKinds
    <3> QED BY <3>1, WalletKinds DEF Leg
  <2> QED BY <2>1
<1>5. {w[2]} \in SUBSET Currencies
  OBVIOUS
<1> HIDE DEF legs
<1>6. DraftOK(Post(d, legs, legs, {w[2]})) /\ Post(d, legs, legs, {w[2]}).start = d.start
  BY <1>3, <1>4, <1>5, <1>10, <1>11, PostOK
<1>7. DraftOK(e) /\ e.start = d.start
  BY <1>6
<1> HIDE DEF e
<1>8. f \in Draft /\ f.start = e.start /\ f.balance = e.balance /\ f.net = e.net
      /\ f.touched = e.touched
  BY <1>7 DEF DraftOK, Draft
<1> HIDE DEF f
<1>9. DraftOK(f) /\ f.start = draft[s].start
  BY <1>7, <1>8, SameBooks
<1> QED BY <1>1, <1>9 DEF Keeps

\* What is dropped or added at the end of a stage.
LEMMA StageKeeps ==
  ASSUME NEW s \in Runs, DraftOK(draft[s]), Remitted(s) \/ ToppedUp(s)
  PROVE  \E e : Keeps(s, e)
<1> DEFINE d == draft[s]
           f == [d EXCEPT !.pending = {w \in d.wallets : w[1] \in SharedCustomers}]
<1>1. d \in Draft
  BY DEF DraftOK
<1>2. DraftOK(Dataset(d)) /\ Dataset(d).start = d.start
  <2>1. /\ Dataset(d) \in Draft /\ Dataset(d).start = d.start /\ Dataset(d).net = d.net
        /\ Dataset(d).balance = d.balance /\ Dataset(d).touched = d.touched
    BY <1>1 DEF Dataset, Draft
  <2> QED BY <2>1, SameBooks
<1>3. DraftOK(f) /\ f.start = d.start
  <2> DEFINE p == {w \in d.wallets : w[1] \in SharedCustomers}
  <2>1. p \in SUBSET Wallets
    BY <1>1, WalletKinds DEF Draft
  <2> HIDE DEF p
  <2>2. LET g == [d EXCEPT !.pending = p] IN
        /\ g \in Draft /\ g.start = d.start /\ g.net = d.net
        /\ g.balance = d.balance /\ g.touched = d.touched
    BY <1>1, <2>1 DEF Draft
  <2> QED BY <2>2, SameBooks DEF p
<1>4. draft' = [draft EXCEPT ![s] = Dataset(d)] \/ draft' = [draft EXCEPT ![s] = f]
  BY DEF Remitted, ToppedUp
<1> HIDE DEF d, f
<1> QED BY <1>2, <1>3, <1>4 DEF Keeps, d

\* Generation moves the run that does it, keeps its draft sound and its
\* snapshot as it was loaded.
LEMMA GenerateStep ==
  ASSUME GenerationTypeOK, NEW s \in Runs, DraftOK(draft[s]), Generate(s)
  PROVE  /\ phase[s] \in Generating
         /\ \E p \in Generating \cup {"generated"} : phase' = [phase EXCEPT ![s] = p]
         /\ config' = config
         /\ \E e : Keeps(s, e)
<1>1. phase = [phase EXCEPT ![s] = phase[s]]
  BY DEF GenerationTypeOK
<1> DEFINE Stays == phase[s] \in Generating /\ phase' = phase
           Moves == /\ phase[s] \in Generating
                    /\ \E p \in Generating \cup {"generated"} : phase' = [phase EXCEPT ![s] = p]
<1>2. Stays => Moves
  BY <1>1
<1>3. CASE Populate(s)
  BY <1>3, PopulateKeeps DEF Populate, Enter, Generating
<1>4. CASE \E cur \in Currencies : Fund(s, cur)
  <2>1. Stays /\ config' = config
    BY <1>4 DEF Fund, Generating
  <2>2. \E e : Keeps(s, e)
    BY <1>4, FundKeeps
  <2> QED BY <1>2, <2>1, <2>2
<1>5. CASE Funded(s)
  <2>1. Keeps(s, draft[s])
    BY <1>5 DEF Funded, Keeps, GenerationTypeOK
  <2>2. Moves /\ config' = config
    BY <1>5 DEF Funded, Enter, Generating
  <2>3. \E e : Keeps(s, e)
    BY <2>1
  <2> QED BY <2>2, <2>3
<1>6. CASE \E c \in Customers : Skip(s, c)
  <2>1. PICK c \in Customers : Skip(s, c)
    BY <1>6
  <2>2. Keeps(s, Sent(draft[s], c))
    BY <2>1, SentKeeps DEF Skip, Keeps
  <2>3. Stays /\ config' = config
    BY <2>1 DEF Skip, Generating
  <2>4. \E e : Keeps(s, e)
    BY <2>2
  <2> QED BY <1>2, <2>3, <2>4
<1>7. CASE \E c \in Customers : RemitSame(s, c)
  <2>1. Stays /\ config' = config
    BY <1>7 DEF RemitSame, Generating
  <2>2. \E e : Keeps(s, e)
    BY <1>7, RemitSameKeeps
  <2> QED BY <1>2, <2>1, <2>2
<1>8. CASE \E c \in Customers : RemitAcross(s, c)
  <2>1. Stays /\ config' = config
    BY <1>8 DEF RemitAcross, Generating
  <2>2. \E e : Keeps(s, e)
    BY <1>8, RemitAcrossKeeps
  <2> QED BY <1>2, <2>1, <2>2
<1>9. CASE Remitted(s) \/ ToppedUp(s)
  <2>1. Moves /\ config' = config
    BY <1>9 DEF Remitted, ToppedUp, Enter, Generating
  <2>2. \E e : Keeps(s, e)
    BY <1>9, StageKeeps
  <2> QED BY <2>1, <2>2
<1>10. CASE \E w \in Customers \X Currencies : TopUp(s, w)
  <2>1. Stays /\ config' = config
    BY <1>10 DEF TopUp, Generating
  <2>2. \E e : Keeps(s, e)
    BY <1>10, TopUpKeeps
  <2> QED BY <1>2, <2>1, <2>2
<1> QED BY <1>3, <1>4, <1>5, <1>6, <1>7, <1>8, <1>9, <1>10 DEF Generate

-----------------------------------------------------------------------------
(* The steps of a run, by what they do *)

\* Looks at the database, or gives up before it has written anything.
Looks(s) == CheckClean(s) \/ RefuseReset(s) \/ CheckLedger(s) \/ CheckBalances(s)

Generates(s) == Generate(s) /\ UNCHANGED <<database, ids, locked, missed>>

Inserts(s) ==
  /\ Enter(s, "generated", "inserted")
  /\ UNCHANGED <<config, draft, database, ids, locked, missed>>

Posts(s) ==
  /\ Enter(s, "inserted", "posted")
  /\ Stale(s) \/ locked[s] = Currencies
  /\ ~Stale(s) \/ draft[s].touched = {}
  /\ UNCHANGED <<config, draft, database, ids, locked, missed>>

Ends(s) == phase[s] \notin Ended /\ (Abandon(s, "failed") \/ Abandon(s, "crashed"))

RunStep(s) ==
  \/ Looks(s) \/ Truncate(s) \/ Migrate(s) \/ Load(s) \/ Generates(s) \/ Inserts(s)
  \/ (\E cur \in Currencies : UpdateTreasury(s, cur)) \/ Posts(s) \/ Ends(s) \/ Commit(s)

LEMMA GeneratesStep ==
  ASSUME TypeOK, DraftsAreSound, NEW s \in Runs, Generates(s)
  PROVE  /\ phase[s] \in Generating
         /\ \E p \in Generating \cup {"generated"} : phase' = [phase EXCEPT ![s] = p]
         /\ config' = config
         /\ \E e : Keeps(s, e)
<1>1. GenerationTypeOK /\ DraftOK(draft[s]) /\ Generate(s)
  BY DEF TypeOK, GenerationTypeOK, DraftsAreSound, DraftOK, Generates
<1> QED BY <1>1, GenerateStep

LEMMA StepCases ==
  ASSUME NEW s \in Runs, Step(s) \/ InsertFails(s) \/ Crash(s)
  PROVE  RunStep(s)
<1>1. CASE InsertRows(s)
  <2>1. Inserts(s) \/ Ends(s)
    BY <1>1 DEF InsertRows, Inserts, Ends, Ended, Rollback, Enter
  <2> QED BY <2>1 DEF RunStep
<1>2. CASE InsertEntries(s)
  <2>1. Posts(s) \/ Ends(s)
    BY <1>2 DEF InsertEntries, Posts, Ends, Ended, Rollback, Enter
  <2> QED BY <2>1 DEF RunStep
<1>3. CASE DeadlockVictim(s) \/ InsertFails(s) \/ Crash(s)
  <2>1. Ends(s)
    BY <1>3 DEF DeadlockVictim, InsertFails, Crash, Open, Writing, Ends, Ended, Rollback
  <2> QED BY <2>1 DEF RunStep
<1> QED BY <1>1, <1>2, <1>3 DEF Step, RunStep, Looks, Generates

LEMMA NextCases ==
  ASSUME [Next]_vars
  PROVE  \/ \E s \in Runs : RunStep(s)
         \/ Application
         \/ UNCHANGED vars
  BY StepCases DEF Next, Done

\* What the application leaves alone, and what it lets the runs miss.
LEMMA ApplicationKeeps ==
  ASSUME TypeOK, Application
  PROVE  /\ UNCHANGED <<phase, config, draft, seeded, present, truncations, ids, locked>>
         /\ missed' \in [Runs -> SUBSET Events]
         /\ \A r \in Runs : missed[r] \subseteq missed'[r]
         /\ stranger' \in BOOLEAN
         /\ UNCHANGED stranger \/ \A r \in Runs : "accounts" \in missed'[r]
         /\ \/ UNCHANGED <<treasury, tnet, overwritten>>
            \/ \E x \in Remitters : Settle(x)
<1> USE DEF TypeOK, Events, generation
<1>1. CASE OpenAccount
  BY <1>1 DEF OpenAccount
<1>2. CASE \E x \in Remitters : (\E cur \in Currencies : ReadTreasury(x, cur)) \/ RemittanceFails(x)
  BY <1>2 DEF ReadTreasury, RemittanceFails
<1>3. CASE \E x \in Remitters : Settle(x)
  BY <1>3 DEF Settle
<1> QED BY <1>1, <1>2, <1>3 DEF Application

\* What a remittance does to the treasury is a number in every currency.
LEMMA SettlementType ==
  ASSUME NEW x \in Remitters
  PROVE  /\ Settlement(x) \in [Currencies -> Int]
         /\ TreasuryRows(x) \subseteq Currencies
         /\ \A cur \in Currencies \ TreasuryRows(x) : Settlement(x)[cur] = 0
<1>1. /\ Payments[x].from \in Currencies /\ Payments[x].to \in Currencies
      /\ Payments[x].amount \in Nat /\ Payments[x].converted \in Nat
  BY RunAssumption
<1>2. Fee(Payments[x].amount) \in Nat
  BY <1>1, FeeType
<1> QED BY <1>1, <1>2 DEF Settlement, TreasuryRows

Reading ==
  [rows : SUBSET Currencies, balance : [Currencies -> Int], overtaken : SUBSET Currencies]

LEMMA ReadingType ==
  ASSUME TypeOK
  PROVE  /\ Unread \in Reading
         /\ \A x \in Remitters :
              /\ reading[x].rows \in SUBSET Currencies
              /\ reading[x].balance \in [Currencies -> Int]
              /\ reading[x].overtaken \in SUBSET Currencies
              /\ \A rows : Overtake(x, rows) \in Reading
              /\ \A cur \in Currencies : WithRow(x, cur) \in Reading
<1>1. \A x \in Remitters :
        /\ reading[x] \in Reading
        /\ reading[x].rows \in SUBSET Currencies
        /\ reading[x].balance \in [Currencies -> Int]
        /\ reading[x].overtaken \in SUBSET Currencies
  BY DEF TypeOK, Reading
<1>2. Unread \in Reading
  BY DEF Unread, Zero, Reading
<1>3. ASSUME NEW x \in Remitters, NEW rows PROVE Overtake(x, rows) \in Reading
  BY <1>1, <1>3 DEF Overtake, Reading
<1>4. ASSUME NEW x \in Remitters, NEW cur \in Currencies PROVE WithRow(x, cur) \in Reading
  <2>1. [reading[x].balance EXCEPT ![cur] = treasury[cur]] \in [Currencies -> Int]
    BY <1>1, <1>4 DEF TypeOK
  <2> QED BY <1>1, <1>4, <2>1 DEF WithRow, Reading
<1> QED BY <1>1, <1>2, <1>3, <1>4

\* A settlement is the change its entries name, and saved over what was read.
LEMMA SettleStep ==
  ASSUME TypeOK, ReadingsAreFresh, NEW x \in Remitters, Settle(x)
  PROVE  /\ present
         /\ treasury' \in [Currencies -> Int] /\ tnet' \in [Currencies -> Int]
         /\ overwritten' = (overwritten \/ reading[x].overtaken # {})
         /\ \A cur \in Currencies :
              /\ tnet'[cur] = tnet[cur] + Settlement(x)[cur]
              /\ treasury'[cur] = treasury[cur] \/ treasury'[cur] >= 0
              /\ reading[x].overtaken = {} => treasury'[cur] = treasury[cur] + Settlement(x)[cur]
<1>1. /\ reading[x].rows = TreasuryRows(x)
      /\ \A cur \in TreasuryRows(x) : Saved(x, cur) >= 0
      /\ treasury' = [cur \in Currencies |->
                        IF cur \in TreasuryRows(x) THEN Saved(x, cur) ELSE treasury[cur]]
      /\ tnet' = [cur \in Currencies |-> tnet[cur] + Settlement(x)[cur]]
  BY DEF Settle
<1>2. overwritten' = (overwritten \/ reading[x].overtaken # {})
  BY DEF Settle
<1>3. present
  BY <1>1 DEF ReadingsAreFresh, TreasuryRows
<1>4. reading[x].balance \in [Currencies -> Int]
  BY DEF TypeOK
<1>5. \A cur \in Currencies : Settlement(x)[cur] \in Int /\ Saved(x, cur) \in Int
  BY <1>4, SettlementType DEF Saved
<1>6. treasury' \in [Currencies -> Int] /\ tnet' \in [Currencies -> Int]
  BY <1>1, <1>5 DEF TypeOK
<1>7. ASSUME NEW cur \in Currencies
      PROVE  /\ tnet'[cur] = tnet[cur] + Settlement(x)[cur]
             /\ treasury'[cur] = treasury[cur] \/ treasury'[cur] >= 0
  BY <1>1, <1>7
<1>8. ASSUME NEW cur \in Currencies, reading[x].overtaken = {}
      PROVE  treasury'[cur] = treasury[cur] + Settlement(x)[cur]
  <2>1. CASE cur \in TreasuryRows(x)
    <3>1. reading[x].balance[cur] = treasury[cur]
      BY <1>1, <1>8, <2>1 DEF ReadingsAreFresh
    <3> QED BY <1>1, <2>1, <3>1 DEF Saved
  <2>2. CASE cur \notin TreasuryRows(x)
    <3>1. Settlement(x)[cur] = 0 /\ treasury'[cur] = treasury[cur] /\ treasury[cur] \in Int
      BY <1>1, <2>2, SettlementType DEF TypeOK
    <3> QED BY <3>1
  <2> QED BY <2>1, <2>2
<1> QED BY <1>2, <1>3, <1>6, <1>7, <1>8

-----------------------------------------------------------------------------
(* The invariant holds at first *)

LEMMA EmptyOK == DraftOK(EmptyDraft) /\ EmptyDraft.start = Zero
<1>1. EmptyDraft \in Draft
  BY DEF EmptyDraft, Draft, Nothing
<1>2. /\ EmptyDraft.balance = Nothing /\ EmptyDraft.net = Nothing
      /\ EmptyDraft.start = [cur \in Currencies |-> 0]
  BY DEF EmptyDraft
<1>3. \A w \in Wallets : Nothing[w] = 0
  BY DEF Nothing
<1>4. DraftAddsUp(EmptyDraft) /\ TouchedIsNamed(EmptyDraft)
  BY <1>2, <1>3, WalletKinds DEF DraftAddsUp, TouchedIsNamed
<1>5. DraftIsCovered(EmptyDraft) /\ Balanced(EmptyDraft.net)
  BY <1>2, <1>3, NothingBalances DEF DraftIsCovered
<1> QED BY <1>1, <1>2, <1>4, <1>5 DEF DraftOK, Zero

LEMMA SnapshotOK ==
  ASSUME NEW t \in [Currencies -> Int], \A cur \in Currencies : t[cur] >= 0
  PROVE  DraftOK(Snapshot(t)) /\ Snapshot(t).start = t
<1> DEFINE b == [w \in Wallets |-> IF w[1] = Treasury THEN t[w[2]] ELSE 0]
           d == [EmptyDraft EXCEPT !.start = t, !.balance = b]
<1>1. b \in [Wallets -> Int]
  BY DEF Wallets, Accounts
<1>2. /\ \A w \in Customers \X Currencies : b[w] = 0
      /\ \A cur \in Currencies : b[TreasuryWallet(cur)] = t[cur]
  BY DatasetAssumption DEF Wallets, Accounts, TreasuryWallet
<1>9. \A w \in Wallets : b[w] >= 0
  BY <1>1 DEF Wallets, Accounts
<1> HIDE DEF b
<1>3. EmptyDraft \in Draft /\ EmptyDraft.net = Nothing
  BY EmptyOK DEF DraftOK, EmptyDraft
<1>4. d \in Draft
  BY <1>1, <1>3 DEF Draft
<1>5. d.start = t /\ d.balance = b /\ d.net = Nothing
  BY <1>3 DEF Draft
<1>6. Snapshot(t) = d
  BY DEF Snapshot, b
<1> HIDE DEF d
<1>7. \A w \in Wallets : Nothing[w] = 0
  BY DEF Nothing
<1>8. DraftAddsUp(d) /\ TouchedIsNamed(d)
  BY <1>2, <1>5, <1>7, WalletKinds DEF DraftAddsUp, TouchedIsNamed
<1>10. DraftIsCovered(d) /\ Balanced(d.net)
  BY <1>5, <1>9, NothingBalances DEF DraftIsCovered
<1> QED BY <1>4, <1>5, <1>6, <1>8, <1>10 DEF DraftOK

LEMMA InitIInv == ASSUME Init PROVE IInv
<1>1. config \in [Runs -> SeedConfig]
  <2>1. PICK choice \in Configurations : config = [s \in Runs |-> ResolveSeedConfig(choice[s])]
    BY DEF Init
  <2>2. \A s \in Runs : choice[s] \in Overrides
    BY RunAssumption
  <2> QED BY <2>1, <2>2, ConfigType
<1>2. phase \in [Runs -> Phase] /\ \A s \in Runs : phase[s] = "start"
  BY DEF Init, Phase, Loading
<1>3. draft \in [Runs -> Draft] /\ \A s \in Runs : draft[s] = EmptyDraft
  BY EmptyOK DEF Init, DraftOK
<1>4. TypeOK
  <2>1. AtSeedBalance \in [Currencies -> Int] /\ Zero \in [Currencies -> Int]
    BY RunAssumption DEF AtSeedBalance, Zero
  <2>2. Unread \in [rows : SUBSET Currencies, balance : [Currencies -> Int],
                    overtaken : SUBSET Currencies]
    BY DEF Unread, Zero
  <2> QED BY <1>1, <1>2, <1>3, <2>1, <2>2 DEF Init, TypeOK, GenerationTypeOK
<1>5. DraftsAreSound
  BY <1>3, EmptyOK DEF DraftsAreSound, DraftOK
<1>6. DatasetsAreSound /\ AbsentTreasury /\ TreasuryIsCovered
  BY RunAssumption DEF Init, DatasetsAreSound, AbsentTreasury, TreasuryIsCovered, AtSeedBalance
<1>7. /\ SnapshotsAreFresh /\ LoadedIdsExist /\ PostedNamesExist /\ NewcomersAreMissed
      /\ CommittedIsThere /\ PassedReportsAreTrue
  BY <1>2 DEF SnapshotsAreFresh, LoadedIdsExist, PostedNamesExist, NewcomersAreMissed,
              CommittedIsThere, PassedReportsAreTrue, Generating, Writing, Validating
<1>8. LocksAreExclusive
  BY <1>2 DEF Init, LocksAreExclusive
<1>9. TreasuryAddsUp
  BY RunAssumption DEF Init, TreasuryAddsUp, AtSeedBalance, Zero
<1>10. ReadingsAreFresh
  BY DEF Init, ReadingsAreFresh, Unread
<1> QED BY <1>4, <1>5, <1>6, <1>7, <1>8, <1>9, <1>10 DEF IInv

-----------------------------------------------------------------------------
(* Every step keeps it *)

\* What each run's draft becomes.
LEMMA DraftsStep ==
  ASSUME TypeOK, DraftsAreSound, TreasuryIsCovered, [Next]_vars
  PROVE  draft' \in [Runs -> Draft] /\ DraftsAreSound'
<1>1. draft \in [Runs -> Draft] /\ \A s \in Runs : DraftOK(draft[s])
  BY DEF TypeOK, GenerationTypeOK, DraftsAreSound, DraftOK
<1>2. ASSUME NEW s \in Runs, NEW e, DraftOK(e), draft' = [draft EXCEPT ![s] = e]
      PROVE  draft' \in [Runs -> Draft] /\ \A r \in Runs : DraftOK(draft'[r])
  BY <1>1, <1>2 DEF DraftOK
<1>3. ASSUME draft' = draft
      PROVE  draft' \in [Runs -> Draft] /\ \A r \in Runs : DraftOK(draft'[r])
  BY <1>1, <1>3
<1>4. ASSUME NEW s \in Runs, RunStep(s)
      PROVE  draft' = draft \/ \E e : DraftOK(e) /\ draft' = [draft EXCEPT ![s] = e]
  <2>1. CASE Looks(s) \/ Truncate(s) \/ Migrate(s) \/ Inserts(s) \/ Posts(s)
               \/ \E cur \in Currencies : UpdateTreasury(s, cur)
    BY <2>1 DEF Looks, CheckClean, RefuseReset, CheckLedger, CheckBalances, Truncate, Migrate,
                Inserts, Posts, UpdateTreasury, generation
  <2>2. CASE Load(s)
    BY <2>2, SnapshotOK DEF Load, TypeOK, TreasuryIsCovered
  <2>3. CASE Generates(s)
    BY <2>3, GeneratesStep DEF Keeps
  <2>4. CASE Ends(s) \/ Commit(s)
    BY <2>4, EmptyOK DEF Ends, Abandon, Commit
  <2> QED BY <1>4, <2>1, <2>2, <2>3, <2>4 DEF RunStep
<1>5. CASE \E s \in Runs : RunStep(s)
  <2>1. draft' \in [Runs -> Draft] /\ \A r \in Runs : DraftOK(draft'[r])
    BY <1>2, <1>3, <1>4, <1>5
  <2> QED BY <2>1 DEF DraftsAreSound, DraftOK
<1>6. CASE UNCHANGED vars \/ Application
  <2>1. draft' = draft
    BY <1>6, ApplicationKeeps DEF vars, generation
  <2> QED BY <1>1, <2>1 DEF DraftsAreSound
<1> QED BY <1>5, <1>6, NextCases

\* What changes in a run's phase.
LEMMA PhaseStep ==
  ASSUME TypeOK, DraftsAreSound, NEW s \in Runs, RunStep(s)
  PROVE  \E p \in Phase : phase' = [phase EXCEPT ![s] = p]
<1> USE DEF Phase, Loading, Generating, Writing, Validating, Ended
<1>1. CASE Looks(s) \/ Truncate(s) \/ Migrate(s) \/ Load(s) \/ Inserts(s) \/ Posts(s)
  BY <1>1 DEF Looks, CheckClean, RefuseReset, CheckLedger, CheckBalances, Truncate, Migrate,
              Load, Inserts, Posts, Enter
<1>2. CASE Generates(s)
  BY <1>2, GeneratesStep
<1>3. CASE \E cur \in Currencies : UpdateTreasury(s, cur)
  <2>1. phase' = phase /\ phase[s] \in Phase /\ phase = [phase EXCEPT ![s] = phase[s]]
    BY <1>3 DEF UpdateTreasury, generation, TypeOK, GenerationTypeOK
  <2> QED BY <2>1
<1>4. CASE Ends(s) \/ Commit(s)
  BY <1>4 DEF Ends, Abandon, Commit, Enter
<1> QED BY <1>1, <1>2, <1>3, <1>4 DEF RunStep

\* What a commit writes.
LEMMA CommittedType ==
  ASSUME TypeOK, NEW s \in Runs, Committed(s)
  PROVE  /\ seeded' \in [DOMAIN seeded' -> [balance : [CustomerWallets -> Int],
                                            net : [Wallets -> Int]]]
         /\ DOMAIN seeded' \subseteq Nat
         /\ treasury' \in [Currencies -> Int] /\ tnet' \in [Currencies -> Int]
         /\ overwritten' \in BOOLEAN
         /\ reading' \in [Remitters -> Reading]
<1>1. draft[s].balance \in [Wallets -> Int] /\ draft[s].net \in [Wallets -> Int]
  BY DEF TypeOK, GenerationTypeOK, Draft
<1>2. config[s].seed \in Nat
  BY DEF TypeOK, GenerationTypeOK, SeedConfig
<1> DEFINE Row == [balance : [CustomerWallets -> Int], net : [Wallets -> Int]]
<1>3. DatasetRows(draft[s]) \in Row
  BY <1>1, WalletKinds DEF DatasetRows, CustomerWallets
<1>4. \A seed \in DOMAIN seeded : seeded[seed] \in Row
  BY DEF TypeOK
<1> HIDE DEF Row
<1>5. /\ DOMAIN seeded' = DOMAIN seeded \cup {config[s].seed}
      /\ \A seed \in DOMAIN seeded' : seeded'[seed] \in Row
      /\ seeded' = [seed \in DOMAIN seeded' |-> seeded'[seed]]
  BY <1>3, <1>4 DEF Committed
<1>6. seeded' \in [DOMAIN seeded' -> Row]
  BY <1>5
<1>7. tnet' \in [Currencies -> Int]
  BY <1>1, WalletKinds DEF Committed, TypeOK
<1>9. reading \in [Remitters -> Reading]
  BY DEF TypeOK, Reading
<1>8. /\ treasury' \in [Currencies -> Int] /\ overwritten' \in BOOLEAN
      /\ reading' \in [Remitters -> Reading]
  <2>1. CASE Stale(s)
    BY <1>9, <2>1 DEF Committed, TypeOK
  <2>2. CASE ~Stale(s)
    <3>1. treasury' \in [Currencies -> Int]
      BY <1>1, <2>2, WalletKinds DEF Committed
    <3>2. overwritten' = (overwritten \/ "treasury" \in missed[s])
      BY <2>2 DEF Committed
    <3>3. reading' = [x \in Remitters |-> Overtake(x, Currencies)]
      BY <2>2 DEF Committed
    <3>4. reading' \in [Remitters -> Reading]
      BY <3>3, ReadingType
    <3> QED BY <3>1, <3>2, <3>4 DEF TypeOK
  <2> QED BY <2>1, <2>2
<1> QED BY <1>2, <1>5, <1>6, <1>7, <1>8 DEF TypeOK, Row

LEMMA TypeStep ==
  ASSUME TypeOK, DraftsAreSound, TreasuryIsCovered, ReadingsAreFresh, [Next]_vars
  PROVE  TypeOK'
<1>1. draft' \in [Runs -> Draft]
  BY DraftsStep
<1> DEFINE Rest ==
      /\ seeded' \in [DOMAIN seeded' -> [balance : [CustomerWallets -> Int],
                                         net : [Wallets -> Int]]]
      /\ DOMAIN seeded' \subseteq Nat
      /\ treasury' \in [Currencies -> Int] /\ tnet' \in [Currencies -> Int]
      /\ present' \in BOOLEAN /\ truncations' \in Nat
      /\ stranger' \in BOOLEAN /\ overwritten' \in BOOLEAN
      /\ ids' \in [Runs -> Nat]
      /\ locked' \in [Runs -> SUBSET Currencies]
      /\ missed' \in [Runs -> SUBSET Events]
      /\ config' = config
      /\ sent' \subseteq Remitters
      /\ reading' \in [Remitters -> Reading]
<1>10. reading \in [Remitters -> Reading]
  BY DEF TypeOK, Reading
<1>2. ASSUME NEW s \in Runs, RunStep(s) PROVE Rest
  <2>1. CASE Looks(s)
    <3>1. UNCHANGED <<config, database, ids, locked>> /\ missed' \in [Runs -> SUBSET Events]
      BY <2>1 DEF Looks, CheckClean, RefuseReset, CheckLedger, CheckBalances, TypeOK
    <3> QED BY <1>10, <3>1 DEF TypeOK, database
  <2>2. CASE Truncate(s)
    <3>1. missed' \in [Runs -> SUBSET Events]
      BY <2>2 DEF Truncate, TypeOK, Events
    <3>2. DOMAIN seeded' = {}
      BY <2>2 DEF Truncate
    <3>3. seeded' \in [DOMAIN seeded' -> [balance : [CustomerWallets -> Int],
                                          net : [Wallets -> Int]]]
      BY <2>2, <3>2 DEF Truncate
    <3>4. treasury' \in [Currencies -> Int] /\ tnet' \in [Currencies -> Int]
      BY <2>2 DEF Truncate, Zero
    <3>5. present' \in BOOLEAN /\ stranger' \in BOOLEAN /\ overwritten' \in BOOLEAN
      BY <2>2 DEF Truncate
    <3>6. truncations' \in Nat
      BY <2>2 DEF Truncate, TypeOK
    <3>7. ids' \in [Runs -> Nat] /\ locked' \in [Runs -> SUBSET Currencies] /\ config' = config
      BY <2>2 DEF Truncate, TypeOK
    <3>8. sent' \subseteq Remitters /\ reading' \in [Remitters -> Reading]
      BY <1>10, <2>2 DEF Truncate, TypeOK
    <3> QED BY <3>1, <3>2, <3>3, <3>4, <3>5, <3>6, <3>7, <3>8
  <2>3. CASE Migrate(s)
    <3>1. AtSeedBalance \in [Currencies -> Int]
      BY RunAssumption DEF AtSeedBalance
    <3> QED BY <1>10, <2>3, <3>1 DEF Migrate, TypeOK
  <2>4. CASE Load(s)
    BY <1>10, <2>4 DEF Load, TypeOK, database
  <2>5. CASE Generates(s)
    <3>1. config' = config
      BY <2>5, GeneratesStep
    <3> QED BY <1>10, <2>5, <3>1 DEF Generates, TypeOK, database
  <2>6. CASE Inserts(s) \/ Posts(s)
    BY <1>10, <2>6 DEF Inserts, Posts, TypeOK, database
  <2>7. CASE \E cur \in Currencies : UpdateTreasury(s, cur)
    BY <1>10, <2>7 DEF UpdateTreasury, TypeOK, database, generation
  <2>8. CASE Ends(s)
    BY <1>10, <2>8 DEF Ends, Abandon, TypeOK, database
  <2>9. CASE Commit(s)
    <3>1. missed' \in [Runs -> SUBSET Events]
      BY <2>9 DEF Commit, TypeOK, Events
    <3> QED BY <1>10, <2>9, <3>1, CommittedType DEF Commit, TypeOK
  <2> QED BY <1>2, <2>1, <2>2, <2>3, <2>4, <2>5, <2>6, <2>7, <2>8, <2>9 DEF RunStep
<1>3. ASSUME Application PROVE Rest
  <2>1. /\ treasury' \in [Currencies -> Int] /\ tnet' \in [Currencies -> Int]
        /\ overwritten' \in BOOLEAN
    BY <1>3, ApplicationKeeps, SettleStep DEF TypeOK
  <2>2. sent' \subseteq Remitters
    BY <1>3 DEF Application, OpenAccount, ReadTreasury, Settle, RemittanceFails, TypeOK
  <2>3. reading' \in [Remitters -> Reading]
    <3>1. CASE OpenAccount
      BY <1>10, <3>1 DEF OpenAccount
    <3>2. ASSUME NEW x \in Remitters, NEW cur \in Currencies, ReadTreasury(x, cur)
          PROVE  reading' \in [Remitters -> Reading]
      BY <1>10, <3>2, ReadingType DEF ReadTreasury
    <3>3. ASSUME NEW x \in Remitters, Settle(x) PROVE reading' \in [Remitters -> Reading]
      BY <3>3, ReadingType DEF Settle
    <3>4. ASSUME NEW x \in Remitters, RemittanceFails(x) PROVE reading' \in [Remitters -> Reading]
      BY <1>10, <3>4, ReadingType DEF RemittanceFails
    <3> QED BY <1>3, <3>1, <3>2, <3>3, <3>4 DEF Application
  <2> QED BY <1>3, <2>1, <2>2, <2>3, ApplicationKeeps DEF TypeOK
<1>4. UNCHANGED vars => Rest
  BY <1>10 DEF vars, generation, database, TypeOK
<1>5. Rest
  BY <1>2, <1>3, <1>4, NextCases
<1>6. phase' \in [Runs -> Phase]
  <2>1. CASE \E s \in Runs : RunStep(s)
    BY <2>1, PhaseStep DEF TypeOK, GenerationTypeOK
  <2>2. CASE UNCHANGED vars \/ Application
    BY <2>2, ApplicationKeeps DEF vars, generation, TypeOK, GenerationTypeOK
  <2> QED BY <2>1, <2>2, NextCases
<1>7. config' \in [Runs -> SeedConfig]
  BY <1>5 DEF TypeOK, GenerationTypeOK
<1> QED BY <1>1, <1>5, <1>6, <1>7 DEF TypeOK, GenerationTypeOK, Reading

\* What a run leaves of the history, the datasets and the treasury, when it
\* neither truncates, migrates nor commits.
LEMMA QuietStep ==
  ASSUME TypeOK, DraftsAreSound, NEW s \in Runs,
         Looks(s) \/ Load(s) \/ Generates(s) \/ Inserts(s) \/ Posts(s) \/ Ends(s)
           \/ \E cur \in Currencies : UpdateTreasury(s, cur)
  PROVE  UNCHANGED <<database, config>>
<1>1. CASE Generates(s)
  BY <1>1, GeneratesStep DEF Generates
<1>2. CASE ~Generates(s)
  BY <1>2 DEF Looks, CheckClean, RefuseReset, CheckLedger, CheckBalances, Load, Inserts,
              Posts, Ends, Abandon, UpdateTreasury, generation
<1> QED BY <1>1, <1>2

\* The rows of every committed dataset add up.
LEMMA DatasetsStep ==
  ASSUME TypeOK, DraftsAreSound, DatasetsAreSound, [Next]_vars
  PROVE  DatasetsAreSound'
<1>1. ASSUME seeded' = seeded PROVE DatasetsAreSound'
  BY <1>1 DEF DatasetsAreSound
<1>2. ASSUME NEW s \in Runs, RunStep(s) PROVE DatasetsAreSound'
  <2>1. CASE Truncate(s)
    BY <2>1 DEF Truncate, DatasetsAreSound
  <2>2. CASE Commit(s)
    <3>1. DatasetIsSound(DatasetRows(draft[s]))
      <4>1. /\ \A w \in CustomerWallets : /\ draft[s].balance[w] = draft[s].net[w]
                                         /\ draft[s].balance[w] >= 0
            /\ Balanced(draft[s].net)
        BY WalletKinds DEF DraftsAreSound, DraftAddsUp, DraftIsCovered, CustomerWallets
      <4> QED BY <4>1 DEF DatasetIsSound, DatasetRows
    <3>2. /\ DOMAIN seeded' = DOMAIN seeded \cup {config[s].seed}
          /\ \A seed \in DOMAIN seeded' :
               seeded'[seed] = IF seed = config[s].seed THEN DatasetRows(draft[s]) ELSE seeded[seed]
      BY <2>2 DEF Commit, Committed
    <3> QED BY <3>1, <3>2 DEF DatasetsAreSound
  <2>3. CASE Migrate(s)
    BY <2>3, <1>1 DEF Migrate
  <2>4. CASE ~(Truncate(s) \/ Commit(s) \/ Migrate(s))
    BY <1>2, <2>4, <1>1, QuietStep DEF RunStep, database
  <2> QED BY <2>1, <2>2, <2>3, <2>4
<1> QED BY <1>1, <1>2, NextCases, ApplicationKeeps DEF vars, database

\* The ids a run has loaded stay there until a truncation.
LEMMA LoadedIdsStep ==
  ASSUME TypeOK, DraftsAreSound, LoadedIdsExist, [Next]_vars
  PROVE  LoadedIdsExist'
<1> USE DEF Generating, Writing, Enter
<1>1. \A r \in Runs : ids[r] \in Nat
  BY DEF TypeOK
<1>2. truncations \in Nat /\ phase \in [Runs -> Phase]
  BY DEF TypeOK, GenerationTypeOK
<1>3. ASSUME NEW s \in Runs, RunStep(s) PROVE LoadedIdsExist'
  <2>1. CASE Truncate(s)
    BY <1>1, <1>2, <2>1 DEF Truncate, LoadedIdsExist
  <2>2. CASE Migrate(s)
    BY <1>2, <2>2 DEF Migrate, LoadedIdsExist
  <2>3. CASE Load(s)
    BY <1>1, <1>2, <2>3 DEF Load, LoadedIdsExist, database, TypeOK
  <2>4. CASE Commit(s)
    BY <1>2, <2>4 DEF Commit, LoadedIdsExist
  <2>5. CASE Looks(s)
    BY <1>2, <2>5 DEF Looks, CheckClean, RefuseReset, CheckLedger, CheckBalances, database,
                      LoadedIdsExist
  <2>6. CASE Generates(s)
    <3>1. phase[s] \in Generating /\ \E p : phase' = [phase EXCEPT ![s] = p]
      BY <2>6, GeneratesStep
    <3>2. UNCHANGED <<ids, truncations, present>>
      BY <2>6 DEF Generates, database
    <3> QED BY <1>2, <3>1, <3>2 DEF LoadedIdsExist
  <2>7. CASE Inserts(s) \/ Posts(s)
    BY <1>2, <2>7 DEF Inserts, Posts, database, LoadedIdsExist
  <2>8. CASE Ends(s)
    BY <1>2, <2>8 DEF Ends, Abandon, database, LoadedIdsExist
  <2>9. CASE \E cur \in Currencies : UpdateTreasury(s, cur)
    BY <2>9 DEF UpdateTreasury, generation, database, LoadedIdsExist
  <2> QED BY <1>3, <2>1, <2>2, <2>3, <2>4, <2>5, <2>6, <2>7, <2>8, <2>9 DEF RunStep
<1>4. CASE UNCHANGED vars \/ Application
  BY <1>4, ApplicationKeeps DEF vars, generation, database, LoadedIdsExist
<1> QED BY <1>3, <1>4, NextCases

\* A snapshot is fresh until somebody commits.
LEMMA SnapshotsStep ==
  ASSUME TypeOK, DraftsAreSound, TreasuryIsCovered, LoadedIdsExist, SnapshotsAreFresh,
         [Next]_vars
  PROVE  SnapshotsAreFresh'
<1> USE DEF Generating, Writing, Enter
<1>1. \A r \in Runs : ids[r] \in Nat
  BY DEF TypeOK
<1>2. truncations \in Nat /\ phase \in [Runs -> Phase] /\ draft \in [Runs -> Draft]
  BY DEF TypeOK, GenerationTypeOK
<1>3. ASSUME NEW s \in Runs, RunStep(s) PROVE SnapshotsAreFresh'
  <2>1. CASE Truncate(s)
    <3>1. \A r \in Runs : phase'[r] \in Generating \cup {"generated"} \cup Writing =>
            ids'[r] # truncations'
      BY <1>1, <1>2, <2>1 DEF Truncate, LoadedIdsExist
    <3> QED BY <3>1 DEF SnapshotsAreFresh, Stale
  <2>2. CASE Migrate(s)
    <3>1. \A r \in Runs : /\ phase'[r] \in Generating \cup {"generated"} \cup Writing => phase'[r] = phase[r]
                          /\ ids'[r] = ids[r] /\ draft'[r] = draft[r] /\ missed'[r] = missed[r]
      BY <1>2, <2>2 DEF Migrate
    <3>2. truncations' = truncations /\ (present => treasury' = treasury)
      BY <2>2 DEF Migrate
    <3> QED BY <3>1, <3>2 DEF SnapshotsAreFresh, LoadedIdsExist, Stale
  <2>3. CASE Load(s)
    <3>1. draft'[s].start = treasury /\ treasury' = treasury
      BY <1>2, <2>3, SnapshotOK DEF Load, TypeOK, TreasuryIsCovered, database
    <3>2. \A r \in Runs \ {s} : /\ phase'[r] = phase[r] /\ ids'[r] = ids[r] /\ draft'[r] = draft[r]
                                /\ missed'[r] = missed[r]
      BY <2>3 DEF Load, TypeOK, GenerationTypeOK
    <3>3. truncations' = truncations /\ present' = present
      BY <2>3 DEF Load, database
    <3> QED BY <3>1, <3>2, <3>3 DEF SnapshotsAreFresh, Stale
  <2>4. CASE Commit(s)
    <3>1. \A r \in Runs \ {s} : "treasury" \in missed'[r]
      BY <2>4 DEF Commit
    <3>2. phase'[s] = "committed"
      BY <1>2, <2>4 DEF Commit
    <3> QED BY <3>1, <3>2 DEF SnapshotsAreFresh
  <2>5. CASE Looks(s)
    <3>1. /\ phase'[s] \in {"failed", "checked", "validating", "passed"}
          /\ \A r \in Runs \ {s} : phase'[r] = phase[r] /\ missed'[r] = missed[r]
          /\ UNCHANGED <<draft, ids, database>>
      BY <1>2, <2>5 DEF Looks, CheckClean, RefuseReset, CheckLedger, CheckBalances, TypeOK
    <3> QED BY <3>1 DEF SnapshotsAreFresh, Stale, database
  <2>6. CASE Generates(s)
    <3>1. phase[s] \in Generating /\ \E p : phase' = [phase EXCEPT ![s] = p]
      BY <2>6, GeneratesStep
    <3>2. UNCHANGED <<ids, truncations, present, missed, treasury>>
      BY <2>6 DEF Generates, database
    <3>3. \A r \in Runs : draft'[r].start = draft[r].start
      BY <1>2, <2>6, GeneratesStep DEF Keeps
    <3> QED BY <1>2, <3>1, <3>2, <3>3 DEF SnapshotsAreFresh, Stale
  <2>7. CASE Inserts(s) \/ Posts(s)
    BY <1>2, <2>7 DEF Inserts, Posts, database, SnapshotsAreFresh, Stale
  <2>8. CASE Ends(s)
    BY <1>2, <2>8 DEF Ends, Abandon, database, SnapshotsAreFresh, Stale
  <2>9. CASE \E cur \in Currencies : UpdateTreasury(s, cur)
    BY <2>9 DEF UpdateTreasury, generation, database, SnapshotsAreFresh, Stale
  <2> QED BY <1>3, <2>1, <2>2, <2>3, <2>4, <2>5, <2>6, <2>7, <2>8, <2>9 DEF RunStep
<1>4. CASE Application
  <2>1. CASE \E x \in Remitters : Settle(x)
    <3>1. \A r \in Runs : "treasury" \in missed'[r]
      BY <2>1 DEF Settle
    <3> QED BY <3>1 DEF SnapshotsAreFresh
  <2>2. CASE UNCHANGED treasury
    BY <1>4, <2>2, ApplicationKeeps DEF SnapshotsAreFresh, Stale
  <2> QED BY <1>4, <2>1, <2>2, ApplicationKeeps
<1>5. CASE UNCHANGED vars
  BY <1>5 DEF vars, generation, database, SnapshotsAreFresh, Stale
<1> QED BY <1>3, <1>4, <1>5, NextCases

\* What a remittance has read is what is there, but for the rows overtaken.
LEMMA ReadingsStep ==
  ASSUME TypeOK, DraftsAreSound, ReadingsAreFresh, [Next]_vars
  PROVE  ReadingsAreFresh'
<1>1. \A x \in Remitters : /\ reading[x].rows \subseteq TreasuryRows(x)
                          /\ reading[x].rows # {} => present
  BY DEF ReadingsAreFresh
<1>11. \A x \in Remitters : /\ reading[x].rows \in SUBSET Currencies
                           /\ reading[x].balance \in [Currencies -> Int]
  BY ReadingType
<1>2. ASSUME UNCHANGED <<reading, present>>,
             treasury' = treasury \/ \A x \in Remitters : reading[x].rows = {}
      PROVE  ReadingsAreFresh'
  BY <1>2 DEF ReadingsAreFresh
<1>3. ASSUME NEW x \in Remitters, NEW rows
      PROVE  /\ Overtake(x, rows).rows = reading[x].rows
             /\ Overtake(x, rows).balance = reading[x].balance
             /\ Overtake(x, rows).overtaken = reading[x].overtaken \cup (reading[x].rows \cap rows)
  BY <1>3 DEF Overtake, TypeOK
<1>4. Unread.rows = {}
  BY DEF Unread
<1>5. ASSUME NEW s \in Runs, RunStep(s) PROVE ReadingsAreFresh'
  <2>1. CASE Truncate(s)
    BY <2>1 DEF Truncate, ReadingsAreFresh
  <2>2. CASE Migrate(s)
    <3>1. CASE present
      BY <1>2, <2>2, <3>1 DEF Migrate
    <3>2. CASE ~present
      <4>1. reading' = reading
        BY <2>2 DEF Migrate
      <4>2. ASSUME NEW x \in Remitters PROVE reading[x].rows = {}
        <5>1. reading[x].rows # {} => present
          BY DEF ReadingsAreFresh
        <5> QED BY <3>2, <5>1
      <4> QED BY <4>1, <4>2 DEF ReadingsAreFresh
    <3> QED BY <3>1, <3>2
  <2>3. CASE Commit(s) /\ Stale(s)
    BY <1>2, <2>3 DEF Commit, Committed
  <2>4. CASE Commit(s) /\ ~Stale(s)
    <3>1. reading' = [x \in Remitters |-> Overtake(x, Currencies)] /\ present' = present
      BY <2>4 DEF Commit, Committed
    <3>2. \A x \in Remitters : /\ reading'[x].rows = reading[x].rows
                              /\ reading[x].rows \subseteq reading'[x].overtaken
      BY <1>3, <1>11, <3>1
    <3> QED BY <1>1, <3>1, <3>2 DEF ReadingsAreFresh
  <2>5. CASE ~(Truncate(s) \/ Commit(s) \/ Migrate(s))
    BY <1>2, <1>5, <2>5, QuietStep DEF RunStep, database
  <2> QED BY <2>1, <2>2, <2>3, <2>4, <2>5
<1>6. CASE OpenAccount
  BY <1>2, <1>6 DEF OpenAccount
<1>7. ASSUME NEW x \in Remitters, NEW cur \in Currencies, ReadTreasury(x, cur)
      PROVE  ReadingsAreFresh'
  <2>1. /\ present' /\ treasury' = treasury /\ cur \in TreasuryRows(x)
        /\ reading' = [reading EXCEPT ![x] = WithRow(x, cur)]
    BY <1>7 DEF ReadTreasury
  <2>2. /\ reading'[x] = WithRow(x, cur)
        /\ \A y \in Remitters \ {x} : reading'[y] = reading[y]
    BY <2>1 DEF TypeOK
  <2>3. /\ reading'[x].rows = reading[x].rows \cup {cur}
        /\ reading'[x].overtaken = reading[x].overtaken
        /\ reading'[x].balance = [reading[x].balance EXCEPT ![cur] = treasury[cur]]
    BY <2>2 DEF WithRow
  <2>4. \A other \in reading'[x].rows \ reading'[x].overtaken :
          reading'[x].balance[other] = treasury[other]
    BY <1>11, <2>3 DEF ReadingsAreFresh
  <2> QED BY <1>1, <2>1, <2>2, <2>3, <2>4 DEF ReadingsAreFresh
<1>8. ASSUME NEW x \in Remitters, Settle(x) PROVE ReadingsAreFresh'
  <2>1. /\ present' = present
        /\ reading' = [y \in Remitters |->
                         IF y = x THEN Unread ELSE Overtake(y, TreasuryRows(x))]
        /\ treasury' = [cur \in Currencies |->
                          IF cur \in TreasuryRows(x) THEN Saved(x, cur) ELSE treasury[cur]]
    BY <1>8 DEF Settle
  <2>2. reading'[x].rows = {}
    BY <1>4, <2>1
  <2>3. ASSUME NEW y \in Remitters, y # x
        PROVE  /\ reading'[y].rows = reading[y].rows
               /\ reading'[y].balance = reading[y].balance
               /\ reading'[y].overtaken
                    = reading[y].overtaken \cup (reading[y].rows \cap TreasuryRows(x))
    BY <1>3, <2>1, <2>3
  <2>4. \A y \in Remitters : reading[y].rows \subseteq Currencies
    BY <1>11
  <2>5. ASSUME NEW y \in Remitters, y # x, NEW cur \in reading'[y].rows \ reading'[y].overtaken
        PROVE  reading'[y].balance[cur] = treasury'[cur]
    <3>1. /\ cur \in reading[y].rows \ reading[y].overtaken
          /\ cur \in Currencies \ TreasuryRows(x)
      BY <2>3, <2>4, <2>5
    <3> QED BY <2>1, <2>3, <2>5, <3>1 DEF ReadingsAreFresh
  <2> QED BY <1>1, <2>1, <2>2, <2>3, <2>5 DEF ReadingsAreFresh
<1>9. ASSUME NEW x \in Remitters, RemittanceFails(x) PROVE ReadingsAreFresh'
  <2>1. /\ UNCHANGED <<present, treasury>> /\ reading'[x].rows = {}
        /\ \A y \in Remitters \ {x} : reading'[y] = reading[y]
    BY <1>4, <1>9 DEF RemittanceFails, TypeOK
  <2> QED BY <2>1 DEF ReadingsAreFresh
<1>10. CASE UNCHANGED vars
  BY <1>2, <1>10 DEF vars, database
<1> QED BY <1>5, <1>6, <1>7, <1>8, <1>9, <1>10, NextCases DEF Application

\* A run that has posted while its treasury is gone names no treasury wallet.
LEMMA PostedStep ==
  ASSUME TypeOK, DraftsAreSound, LoadedIdsExist, PostedNamesExist, [Next]_vars
  PROVE  PostedNamesExist'
<1> USE DEF Enter
<1>1. phase \in [Runs -> Phase] /\ draft \in [Runs -> Draft]
  BY DEF TypeOK, GenerationTypeOK
<1>2. ASSUME NEW s \in Runs, RunStep(s) PROVE PostedNamesExist'
  <2>1. CASE Truncate(s)
    <3>1. \A r \in Runs : phase'[r] # "posted"
      BY <1>1, <2>1 DEF Truncate, Open, Writing
    <3> QED BY <3>1 DEF PostedNamesExist
  <2>2. CASE Migrate(s)
    <3>1. \A r \in Runs : phase'[r] = "posted" => phase[r] = "posted" /\ (Stale(r)' <=> Stale(r))
      BY <1>1, <2>2 DEF Migrate, LoadedIdsExist, Stale, Writing
    <3> QED BY <2>2, <3>1 DEF PostedNamesExist, Migrate
  <2>3. CASE Load(s)
    <3>1. phase'[s] # "posted"
      BY <1>1, <2>3 DEF Load
    <3>2. \A r \in Runs \ {s} : phase'[r] = phase[r] /\ ids'[r] = ids[r] /\ draft'[r] = draft[r]
      BY <1>1, <2>3 DEF Load, TypeOK
    <3>3. truncations' = truncations /\ present' = present
      BY <2>3 DEF Load, database
    <3> QED BY <3>1, <3>2, <3>3 DEF PostedNamesExist, Stale
  <2>4. CASE Commit(s) \/ Ends(s)
    <3>1. phase'[s] # "posted"
      BY <1>1, <2>4 DEF Commit, Ends, Abandon
    <3>2. \A r \in Runs \ {s} : phase'[r] = phase[r] /\ draft'[r] = draft[r]
      BY <1>1, <2>4 DEF Commit, Ends, Abandon
    <3>3. UNCHANGED <<ids, truncations, present>>
      BY <2>4 DEF Commit, Ends, Abandon, database
    <3> QED BY <3>1, <3>2, <3>3 DEF PostedNamesExist, Stale
  <2>5. CASE Looks(s)
    BY <1>1, <2>5 DEF Looks, CheckClean, RefuseReset, CheckLedger, CheckBalances, database,
                      PostedNamesExist, Stale
  <2>6. CASE Generates(s)
    <3>1. phase'[s] # "posted" /\ \A r \in Runs \ {s} : phase'[r] = phase[r] /\ draft'[r] = draft[r]
      BY <1>1, <2>6, GeneratesStep DEF Keeps, Generating
    <3>2. UNCHANGED <<ids, truncations, present>>
      BY <2>6 DEF Generates, database
    <3> QED BY <3>1, <3>2 DEF PostedNamesExist, Stale
  <2>7. CASE Inserts(s) \/ Posts(s)
    BY <1>1, <2>7 DEF Inserts, Posts, database, PostedNamesExist, Stale
  <2>8. CASE \E cur \in Currencies : UpdateTreasury(s, cur)
    BY <2>8 DEF UpdateTreasury, generation, database, PostedNamesExist, Stale
  <2> QED BY <1>2, <2>1, <2>2, <2>3, <2>4, <2>5, <2>6, <2>7, <2>8 DEF RunStep
<1>3. CASE UNCHANGED vars \/ Application
  BY <1>3, ApplicationKeeps DEF vars, generation, database, PostedNamesExist, Stale
<1> QED BY <1>2, <1>3, NextCases

\* Whoever comes after a run has looked is noted.
LEMMA NewcomersStep ==
  ASSUME TypeOK, DraftsAreSound, NewcomersAreMissed, [Next]_vars
  PROVE  NewcomersAreMissed'
<1> USE DEF Enter, Generating, Writing
<1>1. phase \in [Runs -> Phase] /\ missed \in [Runs -> SUBSET Events]
  BY DEF TypeOK, GenerationTypeOK
<1>2. ASSUME NEW s \in Runs, RunStep(s) PROVE NewcomersAreMissed'
  <2>1. CASE Truncate(s)
    <3>1. ~AnyAccount'
      BY <2>1 DEF Truncate, AnyAccount
    <3> QED BY <3>1 DEF NewcomersAreMissed
  <2>2. CASE Migrate(s)
    <3>1. AnyAccount' = AnyAccount /\ missed' = missed
      BY <2>2 DEF Migrate, AnyAccount
    <3>2. phase[s] = "truncated" /\ \A r \in Runs \ {s} : phase'[r] = phase[r]
      BY <1>1, <2>2 DEF Migrate
    <3> QED BY <3>1, <3>2 DEF NewcomersAreMissed
  <2>3. CASE Load(s)
    <3>1. AnyAccount' = AnyAccount
      BY <2>3 DEF Load, AnyAccount, database
    <3>2. phase[s] = "checked" /\ \A r \in Runs \ {s} : phase'[r] = phase[r] /\ missed'[r] = missed[r]
      BY <1>1, <2>3 DEF Load
    <3>3. "accounts" \in missed[s] => "accounts" \in missed'[s]
      BY <1>1, <2>3 DEF Load
    <3> QED BY <3>1, <3>2, <3>3 DEF NewcomersAreMissed
  <2>4. CASE Commit(s)
    <3>1. \A r \in Runs \ {s} : "accounts" \in missed'[r]
      BY <2>4 DEF Commit
    <3>2. phase'[s] = "committed"
      BY <1>1, <2>4 DEF Commit
    <3> QED BY <3>1, <3>2 DEF NewcomersAreMissed
  <2>5. CASE CheckClean(s)
    <3>1. AnyAccount' = AnyAccount
      BY <2>5 DEF CheckClean, AnyAccount, database
    <3>2. phase'[s] = IF AnyAccount THEN "failed" ELSE "checked"
      BY <1>1, <2>5 DEF CheckClean
    <3>3. \A r \in Runs \ {s} : phase'[r] = phase[r] /\ missed'[r] = missed[r]
      BY <1>1, <2>5 DEF CheckClean
    <3> QED BY <3>1, <3>2, <3>3 DEF NewcomersAreMissed
  <2>6. CASE RefuseReset(s) \/ CheckLedger(s) \/ CheckBalances(s) \/ Ends(s)
    <3>1. AnyAccount' = AnyAccount /\ missed' = missed
      BY <2>6 DEF RefuseReset, CheckLedger, CheckBalances, Ends, Abandon, AnyAccount, database
    <3>2. /\ phase'[s] \in {"failed", "crashed", "validating", "passed"}
          /\ \A r \in Runs \ {s} : phase'[r] = phase[r]
      BY <1>1, <2>6 DEF RefuseReset, CheckLedger, CheckBalances, Ends, Abandon
    <3> QED BY <3>1, <3>2 DEF NewcomersAreMissed
  <2>7. CASE Generates(s)
    <3>1. phase[s] \in Generating /\ \A r \in Runs \ {s} : phase'[r] = phase[r]
      BY <1>1, <2>7, GeneratesStep
    <3>2. AnyAccount' = AnyAccount /\ missed' = missed
      BY <2>7 DEF Generates, AnyAccount, database
    <3> QED BY <3>1, <3>2 DEF NewcomersAreMissed
  <2>8. CASE Inserts(s) \/ Posts(s)
    BY <1>1, <2>8 DEF Inserts, Posts, database, NewcomersAreMissed, AnyAccount
  <2>9. CASE \E cur \in Currencies : UpdateTreasury(s, cur)
    BY <2>9 DEF UpdateTreasury, generation, database, NewcomersAreMissed, AnyAccount
  <2> QED BY <1>2, <2>1, <2>2, <2>3, <2>4, <2>5, <2>6, <2>7, <2>8, <2>9 DEF RunStep, Looks
<1>3. CASE Application
  BY <1>3, ApplicationKeeps DEF NewcomersAreMissed, AnyAccount
<1>4. CASE UNCHANGED vars
  BY <1>4 DEF vars, generation, database, NewcomersAreMissed, AnyAccount
<1> QED BY <1>2, <1>3, <1>4, NextCases

\* The treasury's rows are locked by one open transaction at a time.
LEMMA LocksStep ==
  ASSUME TypeOK, DraftsAreSound, LoadedIdsExist, LocksAreExclusive, [Next]_vars
  PROVE  LocksAreExclusive'
<1> USE DEF Enter, Generating, Writing, Open
<1>1. phase \in [Runs -> Phase] /\ locked \in [Runs -> SUBSET Currencies]
  BY DEF TypeOK, GenerationTypeOK
<1>2. ASSUME NEW s \in Runs, RunStep(s) PROVE LocksAreExclusive'
  <2>1. CASE Truncate(s)
    <3>1. \A r \in Runs : phase'[r] \notin Writing
      BY <1>1, <2>1 DEF Truncate
    <3>2. \A r \in Runs : locked'[r] = {}
      BY <2>1 DEF Truncate, LocksAreExclusive
    <3> QED BY <3>1, <3>2 DEF LocksAreExclusive
  <2>2. CASE Migrate(s)
    <3>1. \A r \in Runs : phase'[r] \in Writing <=> phase[r] \in Writing
      BY <1>1, <2>2 DEF Migrate
    <3>2. \A r \in Runs : phase'[r] = "posted" => phase[r] = "posted" /\ (Stale(r)' <=> Stale(r))
      BY <1>1, <2>2 DEF Migrate, LoadedIdsExist, Stale
    <3>3. locked' = locked
      BY <2>2 DEF Migrate
    <3> QED BY <3>1, <3>2, <3>3 DEF LocksAreExclusive
  <2>3. CASE Load(s)
    <3>1. phase[s] \notin Writing /\ phase'[s] \notin Writing
      BY <1>1, <2>3 DEF Load
    <3>2. \A r \in Runs \ {s} : phase'[r] = phase[r] /\ ids'[r] = ids[r]
      BY <1>1, <2>3 DEF Load, TypeOK
    <3>3. UNCHANGED <<truncations, present, locked>>
      BY <2>3 DEF Load, database
    <3> QED BY <3>1, <3>2, <3>3 DEF LocksAreExclusive, Stale
  <2>4. CASE Commit(s) \/ Ends(s)
    <3>1. locked'[s] = {} /\ phase'[s] \notin Writing
      BY <1>1, <2>4 DEF Commit, Ends, Abandon
    <3>2. \A r \in Runs \ {s} : phase'[r] = phase[r] /\ locked'[r] = locked[r]
      BY <1>1, <2>4 DEF Commit, Ends, Abandon
    <3>3. UNCHANGED <<ids, truncations, present>>
      BY <2>4 DEF Commit, Ends, Abandon, database
    <3> QED BY <3>1, <3>2, <3>3 DEF LocksAreExclusive, Stale
  <2>5. CASE Looks(s)
    <3>1. phase[s] \notin Writing /\ phase'[s] \notin Writing
      BY <1>1, <2>5 DEF Looks, CheckClean, RefuseReset, CheckLedger, CheckBalances
    <3>2. \A r \in Runs \ {s} : phase'[r] = phase[r]
      BY <1>1, <2>5 DEF Looks, CheckClean, RefuseReset, CheckLedger, CheckBalances
    <3>3. UNCHANGED <<ids, truncations, present, locked>>
      BY <2>5 DEF Looks, CheckClean, RefuseReset, CheckLedger, CheckBalances, database
    <3> QED BY <3>1, <3>2, <3>3 DEF LocksAreExclusive, Stale
  <2>6. CASE Generates(s)
    <3>1. phase[s] \notin Writing /\ phase'[s] \notin Writing
      BY <1>1, <2>6, GeneratesStep
    <3>2. \A r \in Runs \ {s} : phase'[r] = phase[r]
      BY <1>1, <2>6, GeneratesStep
    <3>3. UNCHANGED <<ids, truncations, present, locked>>
      BY <2>6 DEF Generates, database
    <3> QED BY <3>1, <3>2, <3>3 DEF LocksAreExclusive, Stale
  <2>7. CASE Inserts(s) \/ Posts(s)
    BY <1>1, <2>7 DEF Inserts, Posts, database, LocksAreExclusive, Stale
  <2>8. CASE \E cur \in Currencies : UpdateTreasury(s, cur)
    <3>1. PICK cur \in Currencies : UpdateTreasury(s, cur)
      BY <2>8
    <3>2. /\ locked'[s] = locked[s] \cup {cur}
          /\ \A r \in Runs \ {s} : locked'[r] = locked[r] /\ cur \notin locked[r]
      BY <1>1, <3>1 DEF UpdateTreasury
    <3>3. UNCHANGED <<phase, ids, truncations, present>> /\ phase[s] = "inserted"
      BY <3>1 DEF UpdateTreasury, generation, database
    <3> QED BY <3>2, <3>3 DEF LocksAreExclusive, Stale
  <2> QED BY <1>2, <2>1, <2>2, <2>3, <2>4, <2>5, <2>6, <2>7, <2>8 DEF RunStep
<1>3. CASE UNCHANGED vars \/ Application
  BY <1>3, ApplicationKeeps DEF vars, generation, database, LocksAreExclusive, Stale
<1> QED BY <1>2, <1>3, NextCases

\* What a commit does to the treasury: nothing, or what its entries say.
LEMMA CommitsTreasury ==
  ASSUME TypeOK, DraftsAreSound, PostedNamesExist, NEW s \in Runs, Commit(s)
  PROVE  /\ Stale(s) => tnet' = tnet /\ UNCHANGED <<treasury, overwritten>>
         /\ ~Stale(s) =>
              /\ \A cur \in Currencies : treasury'[cur] - tnet'[cur] = draft[s].start[cur] - tnet[cur]
              /\ overwritten' = (overwritten \/ "treasury" \in missed[s])
<1>1. draft[s] \in Draft /\ DraftAddsUp(draft[s]) /\ TouchedIsNamed(draft[s])
  BY DEF TypeOK, GenerationTypeOK, DraftsAreSound
<1>2. \A cur \in Currencies : draft[s].net[TreasuryWallet(cur)] \in Int
                              /\ draft[s].start[cur] \in Int /\ tnet[cur] \in Int
  BY <1>1, WalletKinds DEF Draft, TypeOK
<1>3. tnet' = [cur \in Currencies |-> tnet[cur] + draft[s].net[TreasuryWallet(cur)]]
  BY DEF Commit, Committed
<1>4. ASSUME Stale(s) PROVE tnet' = tnet /\ UNCHANGED <<treasury, overwritten>>
  <2>1. draft[s].touched = {}
    BY <1>4 DEF PostedNamesExist, Commit, Enter
  <2>2. \A cur \in Currencies : draft[s].net[TreasuryWallet(cur)] = 0
    BY <1>1, <2>1 DEF TouchedIsNamed
  <2>3. tnet' = tnet
    BY <1>2, <1>3, <2>2 DEF TypeOK
  <2> QED BY <1>4, <2>3 DEF Commit, Committed
<1>5. ASSUME ~Stale(s)
      PROVE  /\ \A cur \in Currencies : treasury'[cur] - tnet'[cur] = draft[s].start[cur] - tnet[cur]
             /\ overwritten' = (overwritten \/ "treasury" \in missed[s])
  <2>1. /\ treasury' = [cur \in Currencies |-> draft[s].balance[TreasuryWallet(cur)]]
        /\ overwritten' = (overwritten \/ "treasury" \in missed[s])
    BY <1>5 DEF Commit, Committed
  <2>2. \A cur \in Currencies :
          draft[s].balance[TreasuryWallet(cur)]
            = draft[s].start[cur] + draft[s].net[TreasuryWallet(cur)]
    BY <1>1 DEF DraftAddsUp
  <2>3. \A cur \in Currencies : treasury'[cur] - tnet'[cur] = draft[s].start[cur] - tnet[cur]
    BY <1>2, <1>3, <2>1, <2>2
  <2> QED BY <2>1, <2>3
<1> QED BY <1>4, <1>5

\* No entries are left of a treasury that is gone.
LEMMA AbsentStep ==
  ASSUME TypeOK, DraftsAreSound, PostedNamesExist, ReadingsAreFresh, AbsentTreasury, [Next]_vars
  PROVE  AbsentTreasury'
<1>1. ASSUME NEW s \in Runs, RunStep(s) PROVE AbsentTreasury'
  <2>1. CASE Truncate(s) \/ Migrate(s)
    BY <2>1 DEF Truncate, Migrate, AbsentTreasury
  <2>2. CASE Commit(s)
    BY <2>2, CommitsTreasury DEF Commit, Stale, AbsentTreasury
  <2>3. CASE ~(Truncate(s) \/ Commit(s) \/ Migrate(s))
    <3>1. UNCHANGED database
      BY <1>1, <2>3, QuietStep DEF RunStep
    <3> QED BY <3>1 DEF database, AbsentTreasury
  <2> QED BY <2>1, <2>2, <2>3
<1>2. CASE UNCHANGED vars
  BY <1>2 DEF vars, database, AbsentTreasury
<1>3. CASE Application
  BY <1>3, ApplicationKeeps, SettleStep DEF AbsentTreasury
<1> QED BY <1>1, <1>2, <1>3, NextCases

\* Nothing the treasury pays, or is overwritten with, takes it below zero.
LEMMA TreasuryCoveredStep ==
  ASSUME TypeOK, DraftsAreSound, TreasuryIsCovered, ReadingsAreFresh, [Next]_vars
  PROVE  TreasuryIsCovered'
<1>1. ASSUME treasury' = treasury PROVE TreasuryIsCovered'
  BY <1>1 DEF TreasuryIsCovered
<1>2. ASSUME NEW s \in Runs, RunStep(s) PROVE TreasuryIsCovered'
  <2>1. CASE Truncate(s)
    BY <2>1 DEF Truncate, Zero, TreasuryIsCovered
  <2>2. CASE Migrate(s)
    BY <2>2, RunAssumption DEF Migrate, AtSeedBalance, TreasuryIsCovered
  <2>3. CASE Commit(s)
    <3>1. \A cur \in Currencies : draft[s].balance[TreasuryWallet(cur)] >= 0
      BY WalletKinds DEF DraftsAreSound, DraftIsCovered
    <3> QED BY <1>1, <2>3, <3>1 DEF Commit, Committed, TreasuryIsCovered
  <2>4. CASE ~(Truncate(s) \/ Commit(s) \/ Migrate(s))
    BY <1>1, <1>2, <2>4, QuietStep DEF RunStep, database
  <2> QED BY <2>1, <2>2, <2>3, <2>4
<1>3. CASE Application
  <2>1. CASE \E x \in Remitters : Settle(x)
    <3>1. \A cur \in Currencies : treasury'[cur] = treasury[cur] \/ treasury'[cur] >= 0
      BY <2>1, SettleStep
    <3> QED BY <3>1 DEF TreasuryIsCovered
  <2> QED BY <1>1, <1>3, <2>1, ApplicationKeeps
<1> QED BY <1>1, <1>2, <1>3, NextCases DEF vars, database

\* The treasury adds up, unless a stale balance was written over it.
LEMMA TreasuryStep ==
  ASSUME IInv, [Next]_vars
  PROVE  TreasuryAddsUp'
<1> USE DEF IInv
<1>1. \A cur \in Currencies : treasury[cur] \in Int /\ tnet[cur] \in Int
  BY DEF TypeOK
<1>2. ASSUME NEW s \in Runs, RunStep(s) PROVE TreasuryAddsUp'
  <2>1. CASE Truncate(s)
    BY <2>1 DEF Truncate, TreasuryAddsUp
  <2>2. CASE Migrate(s)
    <3>1. CASE present
      BY <2>2, <3>1 DEF Migrate, TreasuryAddsUp
    <3>2. CASE ~present
      <4>1. \A cur \in Currencies : treasury'[cur] = TREASURY_SEED_BALANCE /\ tnet'[cur] = 0
        BY <2>2, <3>2 DEF Migrate, AtSeedBalance, AbsentTreasury, Zero
      <4> QED BY <4>1, RunAssumption DEF TreasuryAddsUp
    <3> QED BY <3>1, <3>2
  <2>3. CASE Commit(s)
    <3>1. present' = present
      BY <2>3 DEF Commit
    <3>2. CASE Stale(s)
      BY <2>3, <3>1, <3>2, CommitsTreasury DEF TreasuryAddsUp
    <3>3. CASE ~Stale(s)
      <4>1. SUFFICES ASSUME ~overwritten', NEW cur \in Currencies
                     PROVE  treasury'[cur] = TREASURY_SEED_BALANCE + tnet'[cur]
        BY DEF TreasuryAddsUp
      <4>2. ~overwritten /\ "treasury" \notin missed[s]
        BY <2>3, <3>3, <4>1, CommitsTreasury
      <4>3. phase[s] \in Writing
        BY <2>3 DEF Commit, Enter, Writing
      <4>4. draft[s].start = treasury
        BY <3>3, <4>2, <4>3 DEF SnapshotsAreFresh
      <4>5. treasury[cur] = TREASURY_SEED_BALANCE + tnet[cur]
        BY <3>3, <4>2 DEF Stale, TreasuryAddsUp
      <4>6. treasury'[cur] - tnet'[cur] = draft[s].start[cur] - tnet[cur]
        BY <2>3, <3>3, CommitsTreasury
      <4>7. treasury'[cur] \in Int /\ tnet'[cur] \in Int
        BY TypeStep DEF TypeOK
      <4> QED BY <1>1, <4>4, <4>5, <4>6, <4>7, RunAssumption
    <3> QED BY <3>2, <3>3
  <2>4. CASE ~(Truncate(s) \/ Commit(s) \/ Migrate(s))
    <3>1. UNCHANGED database
      BY <1>2, <2>4, QuietStep DEF RunStep
    <3> QED BY <3>1 DEF database, TreasuryAddsUp
  <2> QED BY <2>1, <2>2, <2>3, <2>4
<1>3. CASE Application
  <2>1. ASSUME NEW x \in Remitters, Settle(x) PROVE TreasuryAddsUp'
    <3>1. SUFFICES ASSUME ~overwritten', NEW cur \in Currencies
                   PROVE  treasury'[cur] = TREASURY_SEED_BALANCE + tnet'[cur]
      BY DEF TreasuryAddsUp
    <3>2. overwritten' = (overwritten \/ reading[x].overtaken # {})
      BY <2>1, SettleStep
    <3>3. ~overwritten /\ reading[x].overtaken = {}
      BY <3>1, <3>2
    <3>4. /\ present /\ tnet'[cur] = tnet[cur] + Settlement(x)[cur]
          /\ treasury'[cur] = treasury[cur] + Settlement(x)[cur]
      BY <2>1, <3>3, SettleStep
    <3>5. treasury[cur] = TREASURY_SEED_BALANCE + tnet[cur]
      BY <3>3, <3>4 DEF TreasuryAddsUp
    <3>6. Settlement(x)[cur] \in Int
      BY SettlementType
    <3> QED BY <1>1, <3>4, <3>5, <3>6, RunAssumption
  <2>2. CASE UNCHANGED <<treasury, tnet, overwritten>>
    BY <1>3, <2>2, ApplicationKeeps DEF TreasuryAddsUp
  <2> QED BY <1>3, <2>1, <2>2, ApplicationKeeps
<1>4. UNCHANGED vars => TreasuryAddsUp'
  BY DEF vars, database, TreasuryAddsUp
<1> QED BY <1>2, <1>3, <1>4, NextCases

\* A run that has committed has its dataset there, or has missed a reset.
LEMMA ReportsStep ==
  ASSUME TypeOK, DraftsAreSound, CommittedIsThere, PassedReportsAreTrue, [Next]_vars
  PROVE  CommittedIsThere' /\ PassedReportsAreTrue'
<1> USE DEF Enter, Validating
<1>1. /\ phase \in [Runs -> Phase] /\ missed \in [Runs -> SUBSET Events]
      /\ config \in [Runs -> SeedConfig]
  BY DEF TypeOK, GenerationTypeOK
<1> DEFINE There(r) == config[r].seed \in DOMAIN seeded \/ "reset" \in missed[r]
           ThereNow(r) == config'[r].seed \in DOMAIN seeded' \/ "reset" \in missed'[r]
           Claims(r) == phase[r] \in Validating \cup {"passed"}
           ClaimsNow(r) == phase'[r] \in Validating \cup {"passed"}
<1>2. \A r \in Runs : Claims(r) => There(r)
  BY DEF CommittedIsThere, PassedReportsAreTrue
<1>3. ASSUME \A r \in Runs : ClaimsNow(r) => ThereNow(r)
      PROVE  CommittedIsThere' /\ PassedReportsAreTrue'
  BY <1>3 DEF CommittedIsThere, PassedReportsAreTrue
<1>4. ASSUME NEW s \in Runs, RunStep(s) PROVE \A r \in Runs : ClaimsNow(r) => ThereNow(r)
  <2>1. CASE Truncate(s)
    <3>1. ~ClaimsNow(s) /\ \A r \in Runs \ {s} : "reset" \in missed'[r]
      BY <1>1, <2>1 DEF Truncate
    <3> QED BY <3>1
  <2>2. CASE Migrate(s)
    <3>1. ~ClaimsNow(s) /\ \A r \in Runs \ {s} : phase'[r] = phase[r]
      BY <1>1, <2>2 DEF Migrate
    <3>2. UNCHANGED <<config, seeded, missed>>
      BY <2>2 DEF Migrate
    <3> QED BY <1>2, <3>1, <3>2
  <2>3. CASE Commit(s)
    <3>1. UNCHANGED config /\ DOMAIN seeded' = DOMAIN seeded \cup {config[s].seed}
      BY <2>3 DEF Commit, Committed
    <3>2. \A r \in Runs \ {s} : phase'[r] = phase[r] /\ missed[r] \subseteq missed'[r]
      BY <1>1, <2>3 DEF Commit
    <3> QED BY <1>2, <3>1, <3>2
  <2>4. CASE Looks(s)
    <3>1. UNCHANGED <<config, seeded>> /\ \A r \in Runs \ {s} : phase'[r] = phase[r] /\ missed'[r] = missed[r]
      BY <1>1, <2>4 DEF Looks, CheckClean, RefuseReset, CheckLedger, CheckBalances, database
    <3>2. ClaimsNow(s) => Claims(s) /\ missed' = missed
      BY <1>1, <2>4 DEF Looks, CheckClean, RefuseReset, CheckLedger, CheckBalances
    <3> QED BY <1>2, <3>1, <3>2
  <2>5. CASE ~(Truncate(s) \/ Migrate(s) \/ Commit(s) \/ Looks(s))
    <3>1. UNCHANGED <<config, seeded>>
      BY <1>4, <2>5, QuietStep DEF RunStep, database
    <3>2. \A r \in Runs \ {s} : phase'[r] = phase[r] /\ missed'[r] = missed[r]
      <4>1. CASE Generates(s)
        BY <1>1, <4>1, GeneratesStep DEF Generates
      <4>2. CASE ~Generates(s)
        BY <1>1, <1>4, <2>5, <4>2 DEF RunStep, Load, Inserts, Posts, Ends, Abandon, UpdateTreasury,
                                       generation
      <4> QED BY <4>1, <4>2
    <3>3. ~ClaimsNow(s)
      <4>1. CASE Generates(s)
        BY <1>1, <4>1, GeneratesStep DEF Generating
      <4>2. CASE \E cur \in Currencies : UpdateTreasury(s, cur)
        BY <4>2 DEF UpdateTreasury, generation
      <4>3. CASE ~(Generates(s) \/ \E cur \in Currencies : UpdateTreasury(s, cur))
        BY <1>1, <1>4, <2>5, <4>3 DEF RunStep, Load, Inserts, Posts, Ends, Abandon
      <4> QED BY <4>1, <4>2, <4>3
    <3> QED BY <1>2, <3>1, <3>2, <3>3
  <2> QED BY <2>1, <2>2, <2>3, <2>4, <2>5
<1>5. CASE UNCHANGED vars
  BY <1>2, <1>3, <1>5 DEF vars, generation, database
<1>6. ASSUME Application PROVE \A r \in Runs : ClaimsNow(r) => ThereNow(r)
  BY <1>2, <1>6, ApplicationKeeps
<1> QED BY <1>3, <1>4, <1>5, <1>6, NextCases

-----------------------------------------------------------------------------
(* The theorems *)

LEMMA IInvStep == ASSUME IInv, [Next]_vars PROVE IInv'
<1>1. TypeOK' /\ DraftsAreSound' /\ DatasetsAreSound' /\ TreasuryIsCovered'
  BY TypeStep, DraftsStep, DatasetsStep, TreasuryCoveredStep DEF IInv
<1>2. SnapshotsAreFresh' /\ ReadingsAreFresh' /\ LoadedIdsExist' /\ PostedNamesExist'
  BY SnapshotsStep, ReadingsStep, LoadedIdsStep, PostedStep DEF IInv
<1>3. NewcomersAreMissed' /\ LocksAreExclusive' /\ AbsentTreasury'
  BY NewcomersStep, LocksStep, AbsentStep DEF IInv
<1>4. TreasuryAddsUp' /\ CommittedIsThere' /\ PassedReportsAreTrue'
  BY TreasuryStep, ReportsStep DEF IInv
<1> QED BY <1>1, <1>2, <1>3, <1>4 DEF IInv

\* The inductive invariant of the seed runs.
THEOREM InvariantHolds == Spec => []IInv
<1>1. Init => IInv
  BY InitIInv
<1>2. IInv /\ [Next]_vars => IInv'
  BY IInvStep
<1> QED BY <1>1, <1>2, PTL DEF Spec

\* Every variable keeps its type, whatever is configured, drawn or scaled.
THEOREM TypeCorrect == Spec => []TypeOK
<1>1. IInv => TypeOK
  BY DEF IInv
<1> QED BY <1>1, InvariantHolds, PTL

\* The treasury wallets hold their first balance and what the ledger says of
\* them, as long as neither a run nor a remittance has written a balance over
\* one that somebody else's commit had changed since it was read.
THEOREM TreasuryAlwaysAddsUp == Spec => []TreasuryAddsUp
<1>1. IInv => TreasuryAddsUp
  BY DEF IInv
<1> QED BY <1>1, InvariantHolds, PTL

\* No draft takes a wallet below zero, whatever is drawn, requested, rounded,
\* scaled down, held to the treasury's funds or halved.
THEOREM DraftsAlwaysCovered == Spec => []DraftsAreCovered
<1>1. IInv => DraftsAreCovered
  BY DEF IInv, DraftsAreSound, DraftsAreCovered
<1> QED BY <1>1, InvariantHolds, PTL

\* When a run's validation does not pass it is not its dataset that is wrong.
LEMMA BlameStep ==
  ASSUME IInv, Next, NEW s \in Runs, phase[s] \in Validating, phase'[s] = "failed"
  PROVE  stranger \/ ~present
<1> USE DEF Validating
<1>1. phase \in [Runs -> Phase] /\ TypeOK /\ DraftsAreSound
  BY DEF IInv, TypeOK, GenerationTypeOK
<1>2. DebitsEqualCredits /\ (WalletsMatchLedger \/ stranger) /\ (NobodyIsOverdrawn \/ ~present)
  BY DEF IInv, DatasetsAreSound, DatasetIsSound, TreasuryIsCovered, DebitsEqualCredits,
         WalletsMatchLedger, NobodyIsOverdrawn
<1>3. CASE CheckLedger(s)
  BY <1>1, <1>2, <1>3 DEF CheckLedger, Enter
<1>4. CASE CheckBalances(s)
  BY <1>1, <1>2, <1>4 DEF CheckBalances, Enter
<1>5. CASE Crash(s)
  BY <1>1, <1>5 DEF Crash, Abandon
<1>6. CASE UNCHANGED phase
  BY <1>6
<1>7. ~Generate(s)
  <2>1. GenerationTypeOK /\ DraftOK(draft[s])
    BY <1>1 DEF TypeOK, GenerationTypeOK, DraftsAreSound, DraftOK
  <2> QED BY <2>1, GenerateStep DEF Generating
<1>8. ~(\/ CheckClean(s) \/ RefuseReset(s) \/ Truncate(s) \/ Migrate(s) \/ Load(s)
        \/ InsertRows(s) \/ (\E cur \in Currencies : UpdateTreasury(s, cur))
        \/ InsertEntries(s) \/ DeadlockVictim(s) \/ Commit(s) \/ InsertFails(s))
  BY DEF CheckClean, RefuseReset, Truncate, Migrate, Load, InsertRows, UpdateTreasury,
         InsertEntries, DeadlockVictim, Commit, InsertFails, Open, Writing, Enter
<1>9. ASSUME NEW t \in Runs, t # s, Step(t) \/ InsertFails(t) \/ Crash(t) PROVE FALSE
  <2>1. RunStep(t)
    BY <1>9, StepCases
  <2>2. \E p : phase' = [phase EXCEPT ![t] = p]
    BY <1>1, <2>1, PhaseStep
  <2> QED BY <1>1, <1>9, <2>2
<1>10. Application => UNCHANGED phase
  BY <1>1, ApplicationKeeps
<1>11. Done => UNCHANGED phase
  BY DEF Done, vars, generation
<1> QED BY <1>3, <1>4, <1>5, <1>6, <1>7, <1>8, <1>9, <1>10, <1>11 DEF Next, Step

\* A run whose validation fails has an account of the application, or another
\* run's reset, to blame.
THEOREM ValidationOnlyBlamesOthers == Spec => ValidationBlamesOthers
<1>1. IInv /\ [Next]_vars =>
        [\A s \in Runs :
           phase[s] \in Validating /\ phase'[s] = "failed" => stranger \/ ~present]_vars
  BY BlameStep
<1> QED BY <1>1, InvariantHolds, PTL DEF Spec, ValidationBlamesOthers

\* A run that passed has its dataset in the database, or was reset since.
THEOREM PassedReportsTrue == Spec => []PassedReportsAreTrue
<1>1. IInv => PassedReportsAreTrue
  BY DEF IInv
<1> QED BY <1>1, InvariantHolds, PTL

\* Whatever a run finds beside its dataset when it commits came after it had
\* looked: assertDatabaseIsClean, or the reset, has seen to what was there.
THEOREM CommitsAlwaysExplained == Spec => CommitsAreExplained
<1>1. IInv /\ [Next]_vars =>
        [\A s \in Runs :
           phase[s] = "posted" /\ phase'[s] = "committed" /\ AnyAccount
             => "accounts" \in missed[s]]_vars
  BY DEF IInv, NewcomersAreMissed, Writing
<1> QED BY <1>1, InvariantHolds, PTL DEF Spec, CommitsAreExplained

=============================================================================
