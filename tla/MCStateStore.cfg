SPECIFICATION FairSpec
CONSTANTS
    MaxCount = 3
    MaxLines = 10
    MaxObservations = 1
    Procs = {p1, p2}
    NoProc = NoProc
    Inputs <- Observed
    Clock = {1}
    Files <- AnyFile
    MaxRuns = 2
    MaxReplaced = 1
    MaxCrashes = 1
    PowerFails = TRUE
INVARIANTS AcknowledgedSurvives
PROPERTIES ImplementsRegister WaitsAreBounded
