-------------------------------- MODULE Money --------------------------------
(***************************************************************************)
(* The money arithmetic of the remittance use case: amounts are whole      *)
(* minor units, a fee and a conversion are products rounded half up, as    *)
(* Math.round does on a non-negative number.  A rate is a fraction         *)
(* [num, den]; the code multiplies by an IEEE double, which the models     *)
(* replace by the exact fraction.                                          *)
(***************************************************************************)
EXTENDS Integers

Rate == [num : Nat \ {0}, den : Nat \ {0}]

\* Math.round(n / d) of a non-negative n and a positive d.
RoundHalfUp(n, d) == (2 * n + d) \div (2 * d)

\* FlatPercentageFeeCalculator.calculate: 0.5% of the amount.
Fee(amount) == RoundHalfUp(5 * amount, 1000)

\* ExchangeRate.convert between two currencies of equal minor-unit exponent,
\* which is every pair of the registry (USD, BRL, EUR, GBP).
Convert(amount, rate) == RoundHalfUp(amount * rate.num, rate.den)

\* Wallet.debit throws InsufficientFundsError when this is FALSE.
Covers(balance, amount) == balance >= amount

=============================================================================
