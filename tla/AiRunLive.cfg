SPECIFICATION FairSpec
CONSTANTS
  Runs = {r1, r2}
  Probes = {p1, p2}
  Models = {m1}
  NoProbe = NoProbe
  NoModel = NoModel
  MaxConnection = 2
  MaxModel = 2
  QueueCapacity = 1
  FailureLimit = 1
  RecoveryLimit = 2
  Outcomes = {"completed", "unavailable", "authentication_failed"}
  ProbeResults = {"succeeded", "failed", "capability_mismatch"}
  Disturbances = {"crash"}
PROPERTIES OpenIsResolved WaitingIsServed EntriesLeave
