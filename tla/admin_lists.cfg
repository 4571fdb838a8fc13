SPECIFICATION ListsSpec
CONSTANTS
  o1 = o1
  Operators = {o1}
  RoleSets <- MCRoleSets
  Take = 1
  MaxRows = 3
  MaxFailures = 1
  MaxClicks = 3
INVARIANTS WalkIsComplete NoRowTwice DropIsExplained
CHECK_DEADLOCK FALSE
