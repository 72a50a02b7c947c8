CONSTANTS
  alice = alice
  bob = bob
  carol = carol
  whole = whole
  cut = cut
  Peers = {alice, bob}
  Conns = {1}
  Files = {whole, cut}
  FileLen <- Lengths
  FileData <- Data
  Timeouts = {}
  Up <- PairUp
  MaxSends <- TwoSends
  MaxCancels = 0
  MaxFaults = 0
  MaxRestarts = 0
SPECIFICATION Spec
INVARIANT CancelRecvFinds
CHECK_DEADLOCK FALSE
