\* One k8s exec, either side killed anywhere, the stream lost anywhere, a
\* fault that outlives the agent, every form of the agent's flags.
SPECIFICATION PodSpec
CONSTANTS
  Callers = {}
  Durations = {0, 3}
  MaxDuration = 5
  Grace = 2
  Lateness = 2
  Fallible = FALSE
  Outlives = TRUE
  Signals = TRUE
  Modes = {"run", "dry", "refuse"}
  Forms = {"none", "pair", "joined"}
INVARIANTS PodTypeOK SuccessMeansRolledBack EvidenceReturned LostOnlyWithAgent
PROPERTIES DrainedFaultEnds
