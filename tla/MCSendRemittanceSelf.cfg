SPECIFICATION Spec
CONSTANTS
  alice = alice
  bob = bob
  carol = carol
  dave = dave
  treasury = treasury
  usd = usd
  brl = brl
  NoRequest = NoRequest
  Accounts <- MCAccounts
  TREASURY_ACCOUNT_ID = treasury
  Currencies <- MCCurrencies
  Wallets <- MCWallets
  InitialBalance <- MCInitialBalance
  Quotes <- MCQuotes
  Requests = {r1}
  Inputs <- SelfInputs
  PoolSize = 1
  Applicants = {}
INVARIANTS
  BalanceIsLedger
