SPECIFICATION Spec
CONSTANTS
  Labels <- MCLabels
  Props <- MCProps
  Values <- MCValues
  Null = Null
  Relationships <- MCRelationships
  Wheres <- MCCutWheres
  Callers = {c1}
  Nobody = Nobody
  Graphs <- MCGraphs
  Requests <- MCCutRequests
  BatchSize = 2
  MaxRetries = 1
PROPERTIES
  OnlyMatchingChange
CHECK_DEADLOCK FALSE
