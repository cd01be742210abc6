SPECIFICATION Spec
CONSTANTS
  Handlers = {h1, h2}
  Main = main
  Retry = retry
  Recovery = recovery
  Nodes = {n1}
  NoNode = none
  Nobody = nobody
  Ops = {"unlock", "saveKey", "setKey", "disconnect", "exitNode"}
  MaxRequests = 2
SYMMETRY HandlerSymmetry
INVARIANTS OneLiveServer PublishedIsLive DisconnectIsFinal LockedMeansDown IInv
PROPERTY RecoveryWritesSavedChoice
