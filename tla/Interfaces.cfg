SPECIFICATION Interfaces
CONSTANTS
  Nil = Nil
  Demands = {1, 2}
  PageDemands = {2}
  MaxRecords = 3
  Approved = 2
  Stamps = {1, 2}
  ListLimit = 2
  PageLimit = 2
  MaxLookups = 3
  MaxTasks = 2
  MaxStarted = 4
CHECK_DEADLOCK FALSE
INVARIANT CandidatesClearNoReview
PROPERTIES
  OnlyWhatWasShownIsRevoked
  DecisionIsVisible
  WaitEnds
