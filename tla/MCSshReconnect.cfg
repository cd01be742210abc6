SPECIFICATION Spec
CONSTANTS
  a4 = a4
  a6 = a6
  own4 = own4
  dns4 = dns4
  web = web
  node = node
  Requests = {t1}
  Probes = {}
  Deadlined = {t1}
  Terminals = {t1}
  Hosts = {web}
  Names = {web, node}
  V4 <- MCV4
  V6 <- MCV6
  Self = {own4}
  DNSServer = dns4
  Zone <- MCZone
  Local = {node}
  Targets = {web}
  MaxChanges = 1
  MaxSessions = 2
CHECK_DEADLOCK FALSE
INVARIANT AsksForPassword
