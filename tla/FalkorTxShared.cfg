SPECIFICATION Spec
CONSTANTS
  Threads = {t1, t2}
  Stmts = {s1, s2}
  NoStmt = NoStmt
  Free = Free
  MaxLost = 0
INVARIANT
  CommitRunsAccepted
