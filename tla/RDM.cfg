SPECIFICATION Spec
CHECK_DEADLOCK FALSE
CONSTANTS
  Ports = {p1, p2}
  UIDs = {u1, u2}
  Discoveries = {d1, d2}
  Requests = {r1}
  MaxPatches = 1
INVARIANTS
  RunsAfterAll
  BestAnswerWins
  UIDTableExact
SYMMETRY Symmetry
