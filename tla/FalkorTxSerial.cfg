SPECIFICATION SerialSpec
CONSTANTS
  Threads = {t1, t2, t3}
  Stmts = {s1, s2}
  NoStmt = NoStmt
  Free = Free
  MaxLost = 0
PROPERTY
  ImplementsContract
SYMMETRY
  Symmetry
