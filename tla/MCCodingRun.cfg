CONSTANTS
  f1 = f1
  f2 = f2
  a = a
  b = b
  o1 = o1
  o2 = o2
  Absent = Absent
  Keep = Keep
  NoCommit = NoCommit
  Files = {f1, f2}
  Contents = {Absent, a, b}
  BaseTree <- MCBaseTree
  Ops = {o1, o2}
  Scopes <- MCScopes
  ContextFields = {"title", "diff"}
  MaxGhRetries = 1
  MaxIterations = 2
  MaxTampers = 1
SPECIFICATION Spec
SYMMETRY Symmetry
INVARIANTS
  AcceptedIsVerified
  RunRecordsHold
PROPERTIES
  CommitIsAccepted
  KeepsPromise
