\* One or two replicas, three names, one eviction, kubectl reliable or not.
SPECIFICATION Spec
CONSTANTS
  Pods = {p1, p2, p3}
  NoPod = NoPod
  Replicas = {1, 2}
  Counts = {0, 1, 2}
  MaxEvictions = 1
INVARIANTS TypeOK BlastRadius SuccessIsComplete LoneReplicaVerified
PROPERTIES InjectReturns
