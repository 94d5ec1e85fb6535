SPECIFICATION GovernanceSpec
CONSTANTS
  Slots = {s1}
  MaxAgreements = 2
  MaxRows = 2
  Statuses = {"included", "deviated"}
  MaxCases = 2
  MaxOpened = 2
  MaxDay = 2
  Admins = {a1}
  MaxVersion = 3
  MaxSecrets = 2
  MaxAttempts = 2
  MaxRevisions = 2
  Specs = {p1, p2}
  Officers = {o1}
  Servers = {n1}
  NoServer = NoServer
  MaxDays = 1
  MaxExports = 1
  MaxRuns = 1
SYMMETRY Symmetry
INVARIANTS OneContent NothingLeftOpen RenewalsAreCurrent TrustInForce ArchivedFirst
PROPERTIES HistoryStands ImplementsAgreedContent RetiresWhatWasShown
CHECK_DEADLOCK FALSE
