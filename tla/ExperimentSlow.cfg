\* As ExperimentRun.cfg, but the rollback may need longer than the safety bound.
SPECIFICATION Spec
CONSTANTS
  Callers = {}
  Durations = {0, 1, 4}
  MaxDuration = 6
  Grace = 2
  Lateness = 3
  Fallible = FALSE
  Outlives = TRUE
  Signals = FALSE
INVARIANT RunConfirmsRollback
