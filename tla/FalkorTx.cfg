SPECIFICATION FairSpec
CONSTANTS
  Threads = {t1, t2, t3}
  Stmts = {s1, s2}
  NoStmt = NoStmt
  Free = Free
  MaxLost = 1
INVARIANTS
  TypeOK
  OneStatement
  SentStatementIsStable
  OncePerGoroutine
PROPERTY
  CallsReturn
