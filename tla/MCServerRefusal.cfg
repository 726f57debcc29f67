\* A request is refused for its header.
SPECIFICATION Spec
CONSTANTS
  Ports = {80, 81}
  Hosts = {"a", "b", ""}
  NoHost = ""
  Servers <- MCServers
  Requests = {"get", "post", "chunks", "old", "minus"}
  Header <- MCHeader
  MaxHeader = 2
  MaxBody = 4
  SizeRange = 16
  NoHeader = NoHeader
  Conns = {"c1", "c2"}
  NoRequest = NoRequest
  NoResponse = NoResponse
  Null = Null
  MaxFd = 4
  RecvBuf = 8
  SndBuf = 2
  Taken = {}
  PortOf <- MCPort
  Stream <- OneByOne
  Cuts <- WholeCut
  Patient = {"c1", "c2"}
  Rude = {}
INVARIANT RefusalReported
