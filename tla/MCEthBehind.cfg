SPECIFICATION Spec
CONSTANTS
  None = None
  walletAddr = shop
  Recipients = {shop, other, None}
  Values = {0, 1, 2, 3}
  Totals <- MCTotals
  Rates = {2, 3}
  weiPerEther = 4
  minConfirmations = 1
  Modulus = 16
  MaxHead = 6
  MaxReorg = 2
INVARIANT ConfirmedEnough
CHECK_DEADLOCK FALSE
