SPECIFICATION Instance
CONSTANTS
  s1 = s1
  p1 = p1
  p2 = p2
  k1 = k1
  k2 = k2
  good = good
  unsafe = unsafe
  error = error
  None = None
  Session = {s1}
  Pruner = {p1, p2}
  Key = {k1, k2}
  Answer = {good, unsafe, error}
  Sound = {good}
  Failed = {error}
  Policy = {"prefer", "refresh", "only", "offline", "off"}
  TTL = 1
  MaxTime = 2
  MaxLookups = 2
INVARIANTS
  PutNeverPoisons
  CachedAnswersAreSoundAndFresh
  CountersAccountForLookups
PROPERTY PrunesWhatWasPreviewed
SYMMETRY Interchangeable
