\* Once every attempt has been made nothing is left to do.
CHECK_DEADLOCK FALSE
SPECIFICATION Spec
CONSTANTS
  a1 = a1  a2 = a2  a3 = a3  a4 = a4  g1 = g1  g2 = g2  u1 = u1  u2 = u2
  w1 = w1  w2 = w2
  Workers = {w1, w2}
  Attempts = {a1, a2, a3, a4}
  Grocery = {a2, a3, a4}
  OnWallet = {a1, a2}
  WithCoupon = {a1, a2, a3, a4}
  Customer <- CustomerOf
  Goods = {g1, g2}
  Lines <- LinesOf
  MaxUnits = 3
  MaxRepeats = 1
  Price <- PriceOf
  MinOrder = 2
  PerUser = 1
  Value = 2
  Limits <- LimitsTried
  InStock <- TwoEach
  MaxEdits = 2
  MaxCrashes = 1
SYMMETRY Symmetry
INVARIANTS CouponLimits StockLimit NoChargeWithoutOrder PricedTogether
