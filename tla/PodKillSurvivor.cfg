\* Two replicas, one to delete, nobody else about.
SPECIFICATION Spec
CONSTANTS
  Pods = {p1, p2, p3}
  NoPod = NoPod
  Replicas = {2}
  Counts = {1}
  MaxEvictions = 0
INVARIANT HealedIsNew
