SPECIFICATION Spec
CONSTANTS
  movies = movies
  actors = actors
  v = v
  w = w
  Exists = Exists
  Types = {movies}
  Values = {v, w}
  Wheres <- MCWheres
  Inputs <- MCInputs
  Pages <- MCPages
  Searches <- MCSearches
  CypherCalls <- MCCypherCalls
  MaxRoots = 2
  MaxSelections = 3
CHECK_DEADLOCK FALSE
INVARIANTS
  ParametersUnique
