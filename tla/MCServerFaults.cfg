\* Clients that leave at any time, answers that do not fit, too few descriptors.
\* The process may end: nothing goes on then.
SPECIFICATION Spec
CONSTANTS
  Ports = {80, 81}
  Hosts = {"a", "b", ""}
  NoHost = ""
  Servers <- MCServers
  Requests = {"get", "large", "fatal"}
  Header <- MCHeader
  MaxHeader = 2
  MaxBody = 4
  SizeRange = 16
  NoHeader = NoHeader
  Conns = {"c1", "c2", "c3"}
  NoRequest = NoRequest
  NoResponse = NoResponse
  Null = Null
  MaxFd = 4
  RecvBuf = 3
  SndBuf = 2
  Taken = {81}
  PortOf <- MCPort
  Stream <- Short
  Cuts <- WholeCut
  Patient = {}
  Rude = {"c1", "c2", "c3"}
INVARIANTS SnapshotFresh OneSocketPerConnection StopsOnlyForCause
PROPERTIES KeepsPromise
CHECK_DEADLOCK FALSE
