-------------------------- MODULE MCSendRemittance --------------------------
(* Small instances of SendRemittance. *)
EXTENDS SendRemittance

CONSTANTS alice, bob, carol, dave, treasury, usd, brl

MCAccounts == {alice, bob, carol, dave, treasury}
MCCurrencies == {usd, brl}
MCWallets == (MCAccounts \X MCCurrencies) \ {<<alice, brl>>}

\* Bob can pay 100 plus the fee once, not twice; the BRL treasury can settle
\* one conversion of 100 USD, not two.
MCInitialBalance ==
  [w \in MCWallets |->
    CASE w = <<bob, usd>>      -> 150
      [] w = <<treasury, brl>> -> 900
      [] OTHER                 -> 250000]

\* Bob cannot pay until he has been paid.
PoorBob == [MCInitialBalance EXCEPT ![<<bob, brl>>] = 100]

\* 5.20 BRL per USD and back.
MCQuotes ==
  [pair \in MCCurrencies \X MCCurrencies |->
    CASE pair = <<usd, brl>> -> {[num |-> 52, den |-> 10]}
      [] pair = <<brl, usd>> -> {[num |-> 10, den |-> 52]}
      [] OTHER               -> {}]

Body(from, to, source, destination, amount) ==
  [sender |-> from, recipient |-> to,
   source |-> source, destination |-> destination, amount |-> amount]

AliceToBob == Body(alice, bob, usd, usd, 100)
BobToAlice == Body(bob, alice, usd, usd, 100)
AliceToBobBrl == Body(alice, bob, usd, brl, 100)
BobToAliceUsd == Body(bob, alice, brl, usd, 100)
AliceToHerself == Body(alice, alice, usd, usd, 100)
AliceToTreasury == Body(alice, treasury, usd, usd, 100)
OverTheLimit == Body(alice, bob, usd, usd, 100001)
NoSuchWallet == Body(alice, bob, brl, brl, 100)
NoSuchRecipient == Body(bob, alice, brl, brl, 100)
CarolToDave == Body(carol, dave, usd, usd, 100)

MixedInputs == {AliceToBob, BobToAlice, AliceToBobBrl, AliceToHerself,
                AliceToTreasury, OverTheLimit, NoSuchWallet, NoSuchRecipient}
CrossingInputs == {AliceToBobBrl, BobToAliceUsd}
SelfInputs == {AliceToHerself}
DisjointInputs == {AliceToBob, CarolToDave}

=============================================================================
