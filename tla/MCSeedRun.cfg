SPECIFICATION Spec
CONSTANTS
  r1 = r1
  r2 = r2
  c1 = c1
  c2 = c2
  x1 = x1
  x2 = x2
  BRL = BRL
  USD = USD
  Runs = {r1, r2}
  Customers = {c1, c2}
  Currencies = {BRL, USD}
  ActiveCurrencies = {BRL, USD}
  Treasury = Treasury
  DEFAULT_WALLETS <- MCWallets
  DEFAULT_COUNTS <- MCCounts
  ACTIVITY <- MCActivity
  BalanceRequests = {900}
  SendPercents = {35}
  Rates <- MCRates
  UNVERIFIED_LIMIT = 150
  MIN_REMITTANCE_AMOUNT = 100
  SharedCustomers = {c1}
  TOP_UP_TARGET = 700
  TREASURY_SEED_BALANCE = 2000
  Remitters = {x1, x2}
  Payments <- MCPayments
  Configurations <- MCConfigurations
  MayFail = TRUE
INVARIANTS
  IInv
  TreasuryAddsUp
  DraftsAreCovered
PROPERTIES
  CommitsAreExplained
  ValidationBlamesOthers
