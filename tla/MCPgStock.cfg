SPECIFICATION FairSpec
CONSTANTS
  a1 = a1
  a2 = a2
  Articles = {a1, a2}
  Prices = {5, 7}
  Keep = Keep
  NoArticle = NoArticle
  NoOrder = NoOrder
  Checkouts = {c1, c2}
  Baskets <- MCBaskets
  Edits <- PartialEdits
  NewRows <- MCNewRows
INVARIANT TypeOK LocksProtect NoOversell ItemsRefer AnswerIsRight
PROPERTY ImplementsLedger CreateReturns
CHECK_DEADLOCK FALSE
