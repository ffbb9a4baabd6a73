SPECIFICATION Spec
CONSTANTS
  loop = loop
  ctl = ctl
  a1 = a1
  a2 = a2
  a3 = a3
  Loop = loop
  Connections = {ctl}
  Accounts = {a1, a2, a3}
  First = a1
  NoAccount = NoAccount
  Configs <- MCConfigs
  Invalid = Invalid
  Edits <- MCEdits
INVARIANT
  TypeOK
  LastGoodPassed
  ChecksJudgedAsRun
  BackendHasCurrentAccount
  FailureRestores
PROPERTY
  DegradedKeepsRunning
CONSTRAINT AtMostOneFault
