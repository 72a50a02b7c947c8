SPECIFICATION Spec
CONSTANTS
  ann = ann
  ben = ben
  k1 = k1
  k2 = k2
  k3 = k3
  t1 = t1
  t2 = t2
  Clients = {ann, ben}
  Links = {k1, k2, k3}
  Owner <- MCOwner
  Callers = {t1, t2}
  Home <- MCHome
  MaxAdvertise = 0
  MaxCalls = 3
SYMMETRY MCSymmetry
INVARIANTS TypeOK AdvertisedAreConnected FreshAnswer
CHECK_DEADLOCK FALSE
