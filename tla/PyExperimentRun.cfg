\* All three entries, an effect outside the process, a rollback that may fail,
\* Ctrl-C up to twice, and a kill at any moment.
SPECIFICATION Spec
CONSTANTS
  Entries = {"cli", "run", "guard"}
  Outlives = TRUE
  Fallible = TRUE
  Signals = TRUE
  MaxInterrupts = 2
INVARIANTS TypeOK LeftBehindOnlyByGaps WindowKept EvidenceHonest
INVARIANTS DoubleRollbackOnlyInRace
