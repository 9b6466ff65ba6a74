SPECIFICATION ISpec
CONSTANTS
  Digests = {d1, d2, d3}
  None = None
SYMMETRY Perms
INVARIANTS LinksAreRunnable RecoveryAccepts
PROPERTIES SuccessDelivers AtomicSpec
