SPECIFICATION FairSpec
CONSTANTS
  w1 = w1
  w2 = w2
  w3 = w3
  Writers = {w1, w2, w3}
  NoWriter = NoWriter
  InitialBalance = 2
  Mixes <- MCMixes
INVARIANTS
  IInv
  BalanceAddsUp
  LostUpdatesAreExplained
PROPERTIES
  EveryWriterEnds
