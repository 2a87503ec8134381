SPECIFICATION Spec
CONSTANTS
  t1 = t1
  t2 = t2
  t3 = t3
  h1 = h1
  h2 = h2
  r1 = r1
  r2 = r2
  Orders = {1, 2, 3}
  Texts = {t1, t2, t3}
  HashOf <- Spellings
  Covers <- MCCovers
  NoText = NoText
  Requests = {r1, r2}
  Clienteles <- AnyoneOnly
  Free = Free
  Leafing <- MCLeafing
  PageSize = 1
PROPERTY OnlyPendingFails
CHECK_DEADLOCK FALSE
