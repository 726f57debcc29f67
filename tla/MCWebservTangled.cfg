\* Clients that cut their text anywhere and send ahead; a small receive buffer.
\* The process may end: nothing goes on then.
SPECIFICATION WSpec
CONSTANTS
  Ports = {80, 81}
  Hosts = {"a", "b", ""}
  NoHost = ""
  Servers <- MCServers
  Requests = {"chunks", "minus"}
  Header <- ScriptHeader
  MaxHeader = 2
  MaxBody = 5
  SizeRange = 16
  NoHeader = NoHeader
  Conns = {"c1"}
  NoRequest = NoRequest
  NoResponse = NoResponse
  Null = Null
  MaxFd = 8
  RecvBuf = 3
  SndBuf = 2
  Taken = {}
  PortOf <- MCPort
  Stream <- Tangled
  Cuts <- AnyCut
  Patient = {}
  Rude = {}
  ScriptOf <- MCScriptOf
  PipeCap = 1
  BufSize = 3
  MaxRuns = 2
  NoText = NoText
INVARIANTS TypeOK RequestsReadAsSent AnswersInOrder ConfigOfAnswer ScriptGetsWhatWasSent
CHECK_DEADLOCK FALSE
