SPECIFICATION Spec
CONSTANTS
  Tasks = {t1, t2}
  Peers = {p}
  Messages = {m1, m2}
  MaxCalls = 3
SYMMETRY MCSymmetry
INVARIANT JoinReturns
CHECK_DEADLOCK FALSE
