SPECIFICATION OperationsSpec
CONSTANTS
  Ops = {e1, e2}
  Actors = {alice}
  Nodes = {n1}
  ActiveLimit = 1
  StartLimit = 1
  PoolLimit = 1
  SpoolLimit = 1
  NoActor = NoActor
  NoNode = NoNode
  Window = 1
  Lifetime = 2
  FailStop = 3
  Recovery = 4
  Order <- MCOrder
  Absent = {"absent"}
  Runners = {w1, w2}
  WorkLimit = 2
  BatchSize = 1
  BacklogTarget = 0
  MaxRows = 2
  MaxDeaths = 1
  Persons = {p1, p2}
  Nobody = Nobody
  EvidenceLimit = 2
  MaxCaptures = 2
INVARIANTS OneWindow OnlyMissedStay
PROPERTIES EveryExportEnds TargetsDrain EvidenceLeaves
