SPECIFICATION LiveSpec
CONSTANTS
  ann = ann
  ben = ben
  remote = remote
  near = near
  far = far
  BufferSize = 4
  Capacity = 4
  Callers = {ann, ben}
  Does <- MCDoes
  Peers = {remote}
  Addrs = {near, far}
  MaxInputs = 3
  MaxSteps = 2
INVARIANTS TypeOK ListenersSurvive TableIsMirrored QueryResultsComplete
PROPERTIES Reliable CallsReturn BackpressureEnds MirrorCatchesUp
CHECK_DEADLOCK FALSE
