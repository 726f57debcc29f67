\* Two clients that keep to one request at a time, and cooperative scripts.
SPECIFICATION WFairSpec
CONSTANTS
  Ports = {80, 81}
  Hosts = {"a", "b", ""}
  NoHost = ""
  Servers <- MCServers
  Requests = {"post", "chunks"}
  Header <- ScriptHeader
  MaxHeader = 2
  MaxBody = 4
  SizeRange = 16
  NoHeader = NoHeader
  Conns = {"c1", "c2"}
  NoRequest = NoRequest
  NoResponse = NoResponse
  Null = Null
  MaxFd = 8
  RecvBuf = 8
  SndBuf = 2
  Taken = {}
  PortOf <- MCPort
  Stream <- ScriptStream
  Cuts <- FirstCut
  Patient = {"c1", "c2"}
  Rude = {}
  ScriptOf <- MCScriptOf
  PipeCap = 1
  BufSize = 3
  MaxRuns = 2
  NoText = NoText
INVARIANTS AnswersItsRequests KeepsRunning ScriptGetsWhatWasSent
PROPERTIES EveryRequestAnswered HungUpClientsSeeTheEnd KeepsPromiseInTheEnd ServerAsAssumed
