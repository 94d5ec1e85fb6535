SPECIFICATION Spec
CONSTANTS
  Rows = {r1, r2}
  Texts = {x1, x2}
  Tokens = {1, 2, 3}
  Editors = {e1, e2}
  Membership = {FALSE}
  Answers = {}
  Procs = {p1, p2}
  MaxNum = 2
  None = None
SYMMETRY Symmetry
VIEW View
INVARIANTS RequirementHasVersions TokenPinsForm
PROPERTY ContentFrozen
