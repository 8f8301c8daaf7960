\* Every seed, with and without network faults, replayed in either language.
SPECIFICATION Safety
CONSTANTS
  Seeds <- MCSeeds
  Fresh <- MCFresh
  Seeded <- MCSeeded
  Advanced <- MCAdvanced
  Drawn <- MCDrawn
INVARIANTS Replayable
