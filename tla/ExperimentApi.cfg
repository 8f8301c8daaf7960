\* The Go package as a library: two goroutines call Recover whenever they like,
\* the rollback may fail and may outlast the safety bound, a signal may end it all,
\* and the longest duration overflows when the safety bound is added to it.
SPECIFICATION Spec
CONSTANTS
  c1 = c1
  c2 = c2
  Callers <- TwoCallers
  Durations <- SignedDurations
  MaxDuration = 3
  Grace = 1
  Lateness = 2
  Fallible = TRUE
  Outlives = TRUE
  Signals = TRUE
INVARIANTS OneRollback
PROPERTIES RunReturns
