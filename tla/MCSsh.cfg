SPECIFICATION Spec
CONSTANTS
  a4 = a4
  a6 = a6
  own4 = own4
  dns4 = dns4
  web = web
  node = node
  Requests = {t1, p1}
  Probes = {p1}
  Deadlined = {t1, p1}
  Terminals = {t1}
  Hosts = {web, node, a4}
  Names = {web, node}
  V4 <- MCV4
  V6 <- MCV6
  Self = {own4}
  DNSServer = dns4
  Zone <- MCZone
  Local = {node}
  Targets = {web}
  MaxChanges = 1
  MaxSessions = 2
CHECK_DEADLOCK FALSE
INVARIANTS ConnectionsFit ConnectionsAreOwned PendingOrConnected
PROPERTIES  DialsEnd TerminalsAnswer
