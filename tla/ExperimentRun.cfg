\* The command line: nobody but the timer and Run calls Recover, the rollback
\* succeeds and finishes within the safety bound.
SPECIFICATION Spec
CONSTANTS
  Callers = {}
  Durations = {0, 1, 4}
  MaxDuration = 6
  Grace = 2
  Lateness = 2
  Fallible = FALSE
  Outlives = TRUE
  Signals = FALSE
INVARIANTS TypeOK RunConfirmsRollback WindowKept EvidenceComplete FailedStartIsInert
PROPERTIES FaultEnds ImplementsRollback
