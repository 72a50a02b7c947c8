SPECIFICATION Spec
CONSTANTS
  Tasks = {t1, t2, t3}
  Peers = {p}
  Messages = {m1, m2}
  MaxCalls = 4
SYMMETRY MCSymmetry
INVARIANTS TypeOK KnownNeverLost OneMap KnownIsFound ParticipantsExact SubscriptionsAgree MessagesComplete
CHECK_DEADLOCK FALSE
