CONSTANTS
  Keys = {k1, k2}
  Requests = {r1, r2, r3}
  Hooks = {h1, h2, h3, h4}
  MaxPerKey = 2
  MaxFaults = 2
  None = None
CHECK_DEADLOCK FALSE
SYMMETRY Symmetric
SPECIFICATION Spec
INVARIANTS WebhookCapHolds
