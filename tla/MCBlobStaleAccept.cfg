CONSTANTS
  alice = alice
  bob = bob
  carol = carol
  whole = whole
  cut = cut
  Peers = {alice, bob}
  Conns = {1, 2}
  Files = {whole, cut}
  FileLen <- Lengths
  FileData <- Data
  Timeouts = {}
  Up <- PairUp
  MaxSends <- OneSend
  MaxCancels = 0
  MaxFaults = 1
  MaxRestarts = 1
SPECIFICATION Spec
INVARIANT AcceptedBeforeSent
CHECK_DEADLOCK FALSE
