SPECIFICATION ISpec
CONSTANTS
  Digests = {d1}
  None = None
INVARIANTS JournalsAreFinished
