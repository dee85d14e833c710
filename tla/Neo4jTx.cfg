SPECIFICATION Spec
CONSTANTS
  Threads = {t1, t2, t3}
  Stmts = {s1, s2}
  NoStmt = NoStmt
  MaxLost = 1
INVARIANTS
  TypeOK
  SessionClosedAfterEnd
  SessionLeaksOnlyOnError
  RollbackLeavesNothing
PROPERTY
  ImplementsContract
SYMMETRY
  Symmetry
