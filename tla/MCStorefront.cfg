SPECIFICATION Spec
CONSTANTS
  w1 = w1
  r1 = r1
  r2 = r2
  Wallets = {w1}
  Articles = {a1, a2}
  Quantities = {1}
  Half = 4
  NoLine = NoLine
  Requests = {r1, r2}
  Clienteles <- MCClienteles
  MaxOrders = 3
  MaxAdded = 2
  MaxLost = 1
INVARIANT TypeOK  PendingPerRequest NoUnitTwice
PROPERTY ClearedIsOrdered
SYMMETRY ArticleSymmetry
CHECK_DEADLOCK FALSE
