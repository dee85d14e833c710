SPECIFICATION Spec
CONSTANTS
  Capitalize <- MCCapitalize
  PluralLower <- MCPluralLower
  PluralCapitalized <- MCPluralCapitalized
  Documents <- MCDocuments
  Databases = {"neo4j", "falkordb"}
  Targets = {"", "falkordb", "mysql"}
  Programs = {p1, p2}
  MaxRuns = 2
  MaxEdits = 1
  MaxFailures = 1
INVARIANTS
  TypeOK BuiltFromOneRun OutputMatchesSchema IndexesComplete ClientStarts GoInputsAccepted
SYMMETRY ProgramsAlike
CHECK_DEADLOCK FALSE
