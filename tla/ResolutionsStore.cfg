SPECIFICATION Spec
CONSTANTS
  c1 = c1
  c2 = c2
  c3 = c3
  h1 = h1
  h2 = h2
  q1 = q1
  q2 = q2
  q3 = q3
  d1 = d1
  d2 = d2
  None = None
  Client = {c1, c2}
  Handle = {h1, h2}
  HandleOf <- TwoProcesses
  Demand = {d1, d2}
  Request = {q1}
  DemandOf <- Demands
  MaxTime = 1
INVARIANTS
  TypeOK
  OneActivePerDemand
  AuditExplainsRecords
  SupersededBySuccessor
  AcknowledgedDecisionsStand
PROPERTIES
  DecisionsAreFinal
  RevokesWhatWasPreviewed
  ImplementsRegistry
