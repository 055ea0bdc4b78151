SPECIFICATION Spec
CONSTANTS
  m1 = m1
  m2 = m2
  Models = {m1, m2}
  Sources = {s1, s2}
  Pairs = {p1, p2}
  Writers = {w1, w2}
  Walker = walker
  Others = {other}
  Rank <- MCRank
  StaleAfter = 0
  TTL = 1
  Timeout = 1
  PageSize = 1
  MaxClock <- MCClock
  MaxRows <- MCRows
  MaxRequests <- MCRequests
  MaxScrapes = 1
SYMMETRY Symmetric
INVARIANT EveryChangeListed
CHECK_DEADLOCK FALSE
