SPECIFICATION Spec
CONSTANTS
  a1 = a1
  a2 = a2
  Articles = {a1, a2}
  Prices = {5, 7}
  Keep = Keep
  NoArticle = NoArticle
  NoOrder = NoOrder
  Unread = Unread
  Checkouts = {c1}
  Editors = {e1}
  Baskets <- MCBaskets
  Edits <- MCEdits
  NewRows <- MCNewRows
  Practices <- PricingOnly
  createMaxRetries = 2
PROPERTY UpdateMergesFields
CHECK_DEADLOCK FALSE
