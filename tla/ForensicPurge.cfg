SPECIFICATION ForensicSpec
CONSTANTS
  Persons = {p1, p2}
  Nobody = Nobody
  EvidenceLimit = 1
  MaxCaptures = 1
INVARIANT PurgedIsEmpty
