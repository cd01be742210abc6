SPECIFICATION BusyFairSpec
CONSTANTS
  Handlers = {h1, h2}
  Main = main
  Retry = retry
  Recovery = recovery
  Nodes = {n1}
  NoNode = none
  Nobody = nobody
  Ops = {"setKey", "disconnect"}
  MaxRequests = 2
PROPERTIES RequestsEnd ShutdownEnds
