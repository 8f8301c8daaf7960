\* Three processes besides the injector, which may be its ancestors or not yet
\* exist; one that starts meanwhile, any number of execs.
SPECIFICATION Safety
CONSTANTS
  Pids = {1, 2, 3, 4}
  Injector = 4
  MaxForks = 1
INVARIANTS AncestorsSpared StraysAreStale SuccessKills
