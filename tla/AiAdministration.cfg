SPECIFICATION Spec
CONSTANTS
  Runs = {r1, r2}
  Probes = {p1}
  Models = {m1}
  NoProbe = NoProbe
  NoModel = NoModel
  MaxConnection = 2
  MaxModel = 2
  QueueCapacity = 1
  FailureLimit = 1
  RecoveryLimit = 2
  Outcomes = {"completed", "unavailable", "stopped"}
  ProbeResults = {"succeeded", "failed"}
  Disturbances = {"crash", "probe_crash", "database", "stall", "administrator"}
SYMMETRY Symmetry
INVARIANTS AttemptOwnsEntry SuspensionReachesRuns
PROPERTY AttemptsStartServing
