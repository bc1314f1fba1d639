SPECIFICATION Spec
CONSTANTS
  alice = alice
  bob = bob
  carol = carol
  dave = dave
  treasury = treasury
  usd = usd
  brl = brl
  NoRequest = NoRequest
  Accounts <- MCAccounts
  TREASURY_ACCOUNT_ID = treasury
  Currencies <- MCCurrencies
  Wallets <- MCWallets
  InitialBalance <- MCInitialBalance
  Quotes <- MCQuotes
  Requests = {r1, r2}
  Inputs <- MixedInputs
  PoolSize = 2
  Applicants = {alice}
INVARIANTS
  NonNegativeBalances
  LedgerHoldsRemittances
  OverwritesAreShared
  RepliesAreTrue
  IInv
PROPERTIES
  ImplementsJournal
  ImplementsAtomicTransfers
