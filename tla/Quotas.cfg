SPECIFICATION QuotasSpec
CONSTANTS
  Ops = {r1, r2}
  Actors = {alice, bob}
  Nodes = {k1, k2}
  ActiveLimit = 1
  StartLimit = 1
  PoolLimit = 1
  SpoolLimit = 1
  NoActor = NoActor
  NoNode = NoNode
  Window = 1
  Lifetime = 1
  FailStop = 2
  Recovery = 3
  Tokens = {k1, k2}
  Principals = {alice, bob}
  Dests = {d1}
  Rows = {row}
  Calls = {r1, r2}
  Quotas <- MCQuotaValues
  Sizes = {1}
  NodeLimit = 1
  Ttl = 1
  RateWindow = 1
  Grace = 0
  MaxTime = 1
  MaxChanges = 1
  NoSession = NoSession
  NoToken = NoToken
  NoDest = NoDest
  NoPrincipal = NoPrincipal
  HsaActors = {alice, bob}
  HsaTargets = {g1}
  Checks = {r1, r2}
  ActorLimit = 2
  PairLimit = 1
  TargetLimit = 1
  MaxWindow = 1
  Anyone = Anyone
INVARIANTS HoldsSlot RateRespected CountersExact SpoolKept ImportLimitsHold ReceiptExact HsaQuotaExact
PROPERTIES ImplementsSlots WritesAreCurrent
CHECK_DEADLOCK FALSE
SYMMETRY Symmetry
