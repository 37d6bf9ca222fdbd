SPECIFICATION Spec
CONSTANTS
  eur = eur
  usd = usd
  gbp = gbp
  skuA = skuA
  skuB = skuB
  None = None
  NumLines = 2
  Provider = {1, 2}
  Currency = {eur, usd, gbp}
  Sku = {skuA, skuB}
  Status <- SomeStatuses
  Order <- Reversed
  Required <- TwoEach
  Answers <- SomeAnswers
  Approvals <- SomeApprovals
  Targets = {eur}
  Rate <- Quotes
  MaxMoney = 5
CHECK_DEADLOCK FALSE
INVARIANT CountsAddUpToLineCount
