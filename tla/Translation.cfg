SPECIFICATION Spec
CONSTANTS
  movies = movies
  actors = actors
  v = v
  w = w
  Exists = Exists
  Types = {movies, actors}
  Values = {v, w}
  Wheres <- MCWheres
  Inputs <- MCInputs
  Pages <- MCPages
  Searches <- MCSearches
  CypherCalls <- MCCypherCalls
  MaxRoots = 2
  MaxSelections = 4
CHECK_DEADLOCK FALSE
INVARIANTS
  TypeOK
  ParametersKept
  VariablesDistinct
  AliasesDistinct
  PlainProjectionsBound
