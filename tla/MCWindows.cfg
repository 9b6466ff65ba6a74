SPECIFICATION WindowsSpec
CONSTANTS
    Clients = {c1, c2}
    Requests = {"r1"}
    MaxActive = 2
    Nobody = Nobody
    Main = main
    Others = {p1, p2, p3}
CHECK_DEADLOCK FALSE
INVARIANTS AnswersMatch NothingLeftOpen StopLeavesNone
PROPERTIES StopEndsService
