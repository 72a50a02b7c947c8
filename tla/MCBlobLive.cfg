CONSTANTS
  alice = alice
  bob = bob
  carol = carol
  whole = whole
  cut = cut
  Peers = {alice, bob}
  Conns = {1}
  Files = {whole}
  FileLen <- Lengths
  FileData <- Data
  Timeouts = {"ongoing_send"}
  Up <- PairUp
  MaxSends <- OneSend
  MaxCancels = 0
  MaxFaults = 1
  MaxRestarts = 1
SPECIFICATION FairSpec
INVARIANT IdsConsistent
INVARIANT NoOrphanRecords
INVARIANT OneChunkInFlight
PROPERTY TransfersEnd
PROPERTY SendsExpire
CHECK_DEADLOCK FALSE
