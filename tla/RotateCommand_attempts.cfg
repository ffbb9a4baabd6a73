SPECIFICATION Spec
CONSTANTS
  c1 = c1
  c2 = c2
  a1 = a1
  a2 = a2
  a3 = a3
  Commands = {c1, c2}
  Accounts = {a1, a2, a3}
  Regions = {{"gemini", "chatgpt", "claude", "netflix", "youtube"}, {"gemini", "chatgpt"}}
  NoAccount = NoAccount
  Requests <- MCRequests
VIEW View
SYMMETRY Symmetry
CONSTRAINT Bound
INVARIANT TypeOK
PROPERTY
  FailureGoesBack
  SuccessIsTested
  LeavesAsFound
