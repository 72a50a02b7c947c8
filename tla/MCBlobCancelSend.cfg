CONSTANTS
  alice = alice
  bob = bob
  carol = carol
  whole = whole
  cut = cut
  Peers = {alice, bob}
  Conns = {1}
  Files = {whole, cut}
  FileLen <- Lengths
  FileData <- Data
  Timeouts = {}
  Up <- PairUp
  MaxSends <- OneSend
  MaxCancels = 1
  MaxFaults = 0
  MaxRestarts = 0
SPECIFICATION Spec
PROPERTY CancelSendStops
CHECK_DEADLOCK FALSE
