SPECIFICATION Spec
SYMMETRY Symmetry
CONSTANTS
  v4a = v4a
  v4b = v4b
  v6a = v6a
  v6b = v6b
  c1 = c1
  c2 = c2
  Callers = {c1, c2}
  NoAddr = NoAddr
  NoCall = NoCall
  NoVerdict = NoVerdict
  HistorySize = 2
  Assignments <- MixedAssignments
INVARIANT TypeOK
INVARIANT OneEntryPerAssignment
INVARIANT QualifiedIsNovel
PROPERTY ReuseIsRefused
