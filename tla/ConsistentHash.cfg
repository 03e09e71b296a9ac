CONSTANTS
  Elts = {a, b, c}
  MaxHash = 3
  ReplicaCounts = {0, 1, 2}
  MaxCount = 3
  Nobody = Nobody
  ErrEmptyCircle = ErrEmptyCircle
SPECIFICATION HashSpec
SYMMETRY Symmetry
INVARIANTS MembersOwnTheirPoints
PROPERTIES GetsNearest MovesFewNames
