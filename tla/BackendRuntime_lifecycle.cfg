SPECIFICATION Spec
CONSTANTS
  d = d
  c = c
  p1 = p1
  p2 = p2
  Pids <- MCPids
  Callers <- MCCallers
  DaemonCallers <- MCDaemonCallers
  NoPid = NoPid
  Init1 = Init1
  NoFile = NoFile
SYMMETRY Symmetry
VIEW Locals
CONSTRAINT AtMostOneFault
INVARIANT
  TypeOK
  SingleBackend
  BackendIsRecorded
  ClearsOnlyTheDead
  SocketTellsTheTruth
  StopKnowsItsTarget
PROPERTY ImplementsBackendSlot
