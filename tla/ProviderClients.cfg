SPECIFICATION Spec
CONSTANTS
  Kind = {"mouser", "digikey", "ti", "farnell", "microchip"}
  MaxAttempts = 3
  NumKeys = 3
  MaxPages = 2
  Backoff <- MCBackoff
  DelayLimit = 4
  HttpTimeout = 1
  Lifetime <- MCLifetime
  Margin = 1
  MaxCalls = 2
  MaxTime = 4
  None = None
INVARIANTS
  RequestsAreBounded
  NoEarlyGiveUp
  DeadlineEndsTheCall
  PresentedTokenIsGood
  SpentKeyIsLeft
CHECK_DEADLOCK FALSE
