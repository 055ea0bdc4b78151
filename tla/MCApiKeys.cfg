SPECIFICATION Spec
CONSTANTS
  Identities = {"alice"}
  KeyIds = {k1, k2, k3}
  NoKey = NoKey
  Handlers = {h1, h2}
  Callers = {c1}
  Cooldown = 1
  UnkeyTTL = 2
  MaxDelay = 1
  MaxClock = 3
  MaxFaults = 1
  MaxLost = 1
INVARIANTS OneActiveKey LiveKeysAccounted ActiveKeyLive StaleAcceptanceBounded LockoutBounded
PROPERTIES HolderKeepsAKey
SYMMETRY KeySymmetry
CHECK_DEADLOCK FALSE
