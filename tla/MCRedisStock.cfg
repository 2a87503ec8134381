SPECIFICATION Spec
CONSTANTS
  a1 = a1
  a2 = a2
  Articles = {a1, a2}
  Prices = {5, 7}
  Keep = Keep
  NoArticle = NoArticle
  NoOrder = NoOrder
  Unread = Unread
  Checkouts = {c1, c2}
  Editors = {e1}
  Baskets <- MCBaskets
  Edits <- MCEdits
  NewRows <- MCNewRows
  Practices <- AllPractices
  createMaxRetries = 2
INVARIANT TypeOK AnswerIsRight Listed LostToRivals
PROPERTY PlacedAtomically ImplementsLedger
SYMMETRY Symmetry
CHECK_DEADLOCK FALSE
