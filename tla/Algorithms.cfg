SPECIFICATION Algorithms
CONSTANTS
  None = None
  Nil = Nil
  Bad = Bad
  Requirement <- Requirements
  Offered <- PriceListsOffered
  Currency <- WellFormed
  Preference <- Preferences
  MaxInt = 25
  MaxMoney = 100
  Scale = 4
  LookupQuestions <- SomeLookupQuestions
  AlternativesQuestions <- SomeAlternativesQuestions
  MoneyQuestions <- SomeMoneyQuestions
  DemandsQuestions <- SomeDemandsQuestions
CHECK_DEADLOCK FALSE
INVARIANTS
  PlanIsOrderable
  NothingCheaperIsPassedOver
  PricedOnlyWhenSafe
  UnknownIsNotShortage
  NothingBetterIsPassedOver
  RecommendedIsSafeAndCheapest
  SilenceHasAReason
  PriceIsNeverMisread
  ConversionIsNearest
  RequiredQuantityIsExact
