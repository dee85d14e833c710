SPECIFICATION Spec
CONSTANTS
  Labels <- MCLabels
  Props <- MCProps
  Values <- MCValues
  Null = Null
  Relationships <- MCRelationships
  Wheres <- MCWheres
  Callers = {c1, c2}
  Nobody = Nobody
  Graphs <- MCGraphs
  Requests <- MCRequests
  BatchSize = 2
  MaxRetries = 1
INVARIANTS
  TypeOK EdgesFitSchema MergedOnce ConnectedOnce MergeIsUpsert EveryItemAnswered ConnectFollowsMerge FiltersSelectMeaning
PROPERTIES
  OnlyMatchingChange
SYMMETRY CallersAlike
CHECK_DEADLOCK FALSE
