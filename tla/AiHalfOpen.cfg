SPECIFICATION FairSpec
CONSTANTS
  Runs = {r1}
  Probes = {p1, p2}
  Models = {m1}
  NoProbe = NoProbe
  NoModel = NoModel
  MaxConnection = 1
  MaxModel = 1
  QueueCapacity = 1
  FailureLimit = 1
  RecoveryLimit = 2
  Outcomes = {"unavailable"}
  ProbeResults = {"succeeded", "failed"}
  Disturbances = {"probe_crash"}
PROPERTIES HalfOpenIsReclaimed
