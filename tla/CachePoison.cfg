SPECIFICATION Instance
CONSTANTS
  s1 = s1
  p1 = p1
  p2 = p2
  k1 = k1
  k2 = k2
  good = good
  unsafe = unsafe
  error = error
  None = None
  Session = {s1}
  Pruner = {p1, p2}
  Key = {k1}
  Answer = {good}
  Sound = {good}
  Failed = {}
  Policy = {"prefer"}
  TTL = 1
  MaxTime = 1
  MaxLookups = 2
PROPERTY PoisonEndsAtExpiry
