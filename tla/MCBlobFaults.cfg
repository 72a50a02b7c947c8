CONSTANTS
  alice = alice
  bob = bob
  carol = carol
  whole = whole
  cut = cut
  Peers = {alice, bob}
  Conns = {1}
  Files = {whole}
  FileLen <- Lengths
  FileData <- Data
  Timeouts = {"pending_send", "pending_recv", "ongoing_send", "ongoing_recv"}
  Up <- PairUp
  MaxSends <- OneSend
  MaxCancels = 1
  MaxFaults = 1
  MaxRestarts = 0
SPECIFICATION Spec
INVARIANT TypeOK
INVARIANT NoOrphanRecords
INVARIANT OneChunkInFlight
INVARIANT AcceptedBeforeSent
INVARIANT AcceptHandledOnce
INVARIANT WrittenIsPrefix
CHECK_DEADLOCK FALSE
