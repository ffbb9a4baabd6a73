SPECIFICATION Spec
CONSTANTS
  r = r
  w = w
  main = main
  s1 = s1
  s2 = s2
  s3 = s3
  Readers = {r}
  Writers = {w}
  Owner = main
  Sessions = {s1, s2, s3}
  Nil = Nil
  MaxAttempts = 2
  EventsCap = 5
  PendingCap = 1
INVARIANT
  TypeOK
  NoSessionLeaks
  PanicsOnlyWhileClosing
  StartIsReported
  TrackerSettles
  OneLossIsSurvived
  NoHalfTunnel
CHECK_DEADLOCK FALSE
CONSTRAINT AtMostTwoFaults
SYMMETRY Symmetry
