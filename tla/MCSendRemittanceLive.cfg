SPECIFICATION FairSpec
CONSTANTS
  alice = alice
  bob = bob
  carol = carol
  dave = dave
  treasury = treasury
  usd = usd
  brl = brl
  NoRequest = NoRequest
  Accounts <- MCAccounts
  TREASURY_ACCOUNT_ID = treasury
  Currencies <- MCCurrencies
  Wallets <- MCWallets
  InitialBalance <- PoorBob
  Quotes <- MCQuotes
  Requests = {r1, r2, r3}
  Inputs <- CrossingInputs
  PoolSize = 2
  Applicants = {}
INVARIANTS
  DriftOnlyFromOverwrites
PROPERTIES
  EveryRequestEnds
CHECK_DEADLOCK FALSE
