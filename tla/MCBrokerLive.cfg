SPECIFICATION Spec
CONSTANTS
  Sessions = {"s1"}
  NoSession = NoSession
  Bodies = {"b1"}
  MaxInvocations = 1
  Conns = {c1, c2}
  Pids = {1}
  MaxStart = 1
  Messages <- FewMessages
  MaxActive = 1
  Verification = TRUE
CHECK_DEADLOCK FALSE
INVARIANTS AuditChain IdentityFirst
PROPERTIES ShutdownReturns ConnectionsEnd StopIsFinal
