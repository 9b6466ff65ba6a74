SPECIFICATION LSpec
CONSTANTS
  Sessions = {"s1"}
  NoSession = NoSession
  Bodies = {"b1"}
  MaxInvocations = 1
  Conns = {c1}
  Pids = {1}
  MaxStart = 1
  Messages <- MCMessages
  MaxActive = 1
  NotRead = NotRead
  Verification = FALSE
CHECK_DEADLOCK FALSE
INVARIANTS ObservationIsFinal ExitAfterJoin
PROPERTIES LauncherExits InterruptStops
