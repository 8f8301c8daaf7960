\* The command line with nobody touching the keyboard.
SPECIFICATION Spec
CONSTANTS
  Entries = {"cli"}
  Outlives = TRUE
  Fallible = FALSE
  Signals = FALSE
  MaxInterrupts = 0
INVARIANT NothingLeftBehind
