SPECIFICATION FairSpec
CONSTANTS
  Wallets = {w1, w2}
  Articles = {a1, a2}
  Quantities = {1}
  Half = 2
  NoLine = NoLine
  NoCart = NoCart
  ttl = 1
  MaxLag = 1
INVARIANT TypeOK ObservedExact
PROPERTY RecentSurvive AbandonedExpires ImplementsContents
CHECK_DEADLOCK FALSE
