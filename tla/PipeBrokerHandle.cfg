SPECIFICATION PSpec
CONSTANTS
    Clients = {c1, c2}
    Requests = {"r1", "r2"}
    MaxActive = 2
    Nobody = Nobody
CHECK_DEADLOCK FALSE
INVARIANTS WorkerOwnsPipe
