SPECIFICATION SafeSpec
CONSTANTS
  Sessions = {"s1"}
  NoSession = NoSession
  Bodies = {"b1"}
  MaxInvocations = 1
  Conns = {c1}
  Pids = {1}
  MaxStart = 1
  Messages <- GoodMessages
  MaxActive = 1
  Verification = FALSE

CHECK_DEADLOCK FALSE
PROPERTIES NoDecisionAfterExit
