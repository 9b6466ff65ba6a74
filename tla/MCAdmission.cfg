SPECIFICATION Spec
CONSTANTS
    v1 = v1
    v2 = v2
    altered = altered
    none = none
    NoFile = none
    Helpers = {"bwrap"}
    Contents = {v1, v2, altered}
    Version <- ReportedVersion
    Entries <- Certified
    Revoked = {}
    Hosts <- SomeHosts
    Verifiable = {"1"}
    Requests <- SomeRequests
    Arguments <- SomeArguments
    MaxChanges = 3
INVARIANTS AdmittedWhole RunsCertifiedBytes AuthorityIsExact OneReading
