SPECIFICATION FairSpec
CONSTANTS
  Events = {1, 2, 3}
  BrokerOf <- OneAndTwo
  AccountEvents = {1}
  RemittanceEvents = {2, 3}
  BatchSize = 2
  Copies = {1, 2, 3}
  MaxRetries = 1
  Faults <- FaultKinds
  MaxInputs = 3
INVARIANTS
  NothingDropped
  DeadLettersWereRetried
  SearchMissesAreKnown
  IInv
PROPERTIES
  AccountEventsSettle
  RemittancesReachSearch
  ImplementsJourney
