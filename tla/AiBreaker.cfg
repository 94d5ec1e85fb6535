SPECIFICATION Spec
CONSTANTS
  Runs = {r1, r2}
  Probes = {p1, p2}
  Models = {m1}
  NoProbe = NoProbe
  NoModel = NoModel
  MaxConnection = 2
  MaxModel = 2
  QueueCapacity = 1
  FailureLimit = 2
  RecoveryLimit = 1
  Outcomes = {"completed", "authentication_failed", "unavailable"}
  ProbeResults = {"succeeded", "failed"}
  Disturbances = {"crash", "probe_crash", "stall", "manual_probe"}
SYMMETRY Symmetry
INVARIANTS CapacityRespected OpenHasWayOut
PROPERTIES ImplementsBreaker
