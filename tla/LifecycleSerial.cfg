SPECIFICATION SerialSpec
CONSTANTS
  Rows = {r1, r2, r3}
  Texts = {x1, x2}
  Tokens = {1, 2, 3}
  Editors = {e1, e2}
  Membership = {TRUE}
  Answers = {a1}
  Procs = {p1}
  MaxNum = 3
  None = None
SYMMETRY Symmetry
VIEW HistoryView
INVARIANTS TypeOK LifecycleDates PublishedWasReviewed LinksFollowPublication
PROPERTIES ArchivedFlagKept ImplementsWorkflow
