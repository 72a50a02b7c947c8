CONSTANTS
  alice = alice
  bob = bob
  carol = carol
  whole = whole
  cut = cut
  Peers = {alice, bob, carol}
  Conns = {1}
  Files = {whole, cut}
  FileLen <- Lengths
  FileData <- Data
  Timeouts = {}
  Up <- StarUp
  MaxSends <- StarSends
  MaxCancels = 0
  MaxFaults = 0
  MaxRestarts = 0
SPECIFICATION Spec
INVARIANT WrittenIsPrefix
CHECK_DEADLOCK FALSE
