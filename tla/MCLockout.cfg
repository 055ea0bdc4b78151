SPECIFICATION FairSpec
CONSTANTS
  Publishers = {}
  Conns = {c1}
  None = None
  Matching = {}
  MaxConnsPerKey = 1
  ConnTTL = 2
  MaxBeat = 1
  BufferSize = 1
  ChannelSize = 1
  MaxEvents = 0
  MaxFaults = 1
PROPERTY LeakIsTemporary
