SPECIFICATION Spec
CONSTANTS
  Labels <- MCLabels
  Props <- MCProps
  Values <- MCValues
  Null = Null
  Relationships <- MCRelationships
  Wheres <- MCWheres
  Callers = {c1}
  Nobody = Nobody
  Graphs <- MCGraphs
  Requests <- MCVariableRequests
  BatchSize = 2
  MaxRetries = 1
PROPERTIES
  OnlyMatchingChange
CHECK_DEADLOCK FALSE
