SPECIFICATION OutcomesSpec
CONSTANTS
    Conns = {c1, c2, c3}
    MaxTorn = 2
    MaxCount = 2
    MaxLines = 12
    MaxObservations = 2
    Ids = {1, 2, 3}
    Times = {0, 1}
    Sessions <- SessionCounts
    MaxAssets = 2
    MaxRecords = 2
    Manifests <- SomeManifests
    Inputs <- SomeInputs
    MaxCatalog = 2
SYMMETRY Symmetric
INVARIANTS ClaimsHappened RefusalIsVisible
INVARIANTS NewestAreKept FailuresStayVisible SelectionIsBest ValidatedIsUnambiguous
