SPECIFICATION Spec
CONSTANTS
  Publishers = {p1, p2}
  Conns = {c1, c2}
  None = None
  Matching = {1, 2, 3}
  MaxConnsPerKey = 1
  ConnTTL = 2
  MaxBeat = 1
  BufferSize = 1
  ChannelSize = 1
  MaxEvents = 2
  MaxFaults = 1
SYMMETRY Symmetry
INVARIANTS OncePerConnection OnlyExcusedMissed CapHolds
