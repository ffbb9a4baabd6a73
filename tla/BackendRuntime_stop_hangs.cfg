SPECIFICATION FairSpec
CONSTANTS
  d = d
  c = c
  p1 = p1
  p2 = p2
  Pids <- MCOnePid
  Callers <- MCCallers
  DaemonCallers <- MCDaemonCallers
  NoPid = NoPid
  Init1 = Init1
  NoFile = NoFile
PROPERTY StopTerminates
