SPECIFICATION SafeSpec
CONSTANTS
  Sessions = {"s1", "s2"}
  NoSession = NoSession
  Bodies = {"b1", "b2"}
  MaxInvocations = 2
  Conns = {c1, c2}
  Pids = {1}
  MaxStart = 2
  Messages <- ReplayMessages
  MaxActive = 2
  Verification = FALSE
SYMMETRY Perms
CHECK_DEADLOCK FALSE
INVARIANTS SlotsMatchWorkers OneShot AllowIsBacked
PROPERTIES JoinedIsQuiet OneShotSpec
