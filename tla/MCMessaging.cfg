SPECIFICATION LiveSpec
CONSTANTS
  hi = hi
  again = again
  c1 = c1
  c2 = c2
  Messages = {hi, again}
  Content <- MCContent
  Conns = {c1,c2}
INVARIANTS TypeOK InOrder ConnectedMatches
PROPERTIES KeepsPromise CallsEnd
CHECK_DEADLOCK FALSE
