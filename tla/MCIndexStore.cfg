CONSTANTS
  f1 = f1
  f2 = f2
  x = x
  y = y
  upperX = upperX
  Annotations = {"Getter", "Other"}
  Getter = "Getter"
  UpperFirst <- MCUpperFirst
  Files <- MCFiles
  Classes = {c1}
  Bodies <- MCBodies
  None = None
  MaxEdits = 2
  MaxWalks = 1
SPECIFICATION Spec
INVARIANTS TypeOK MembersHaveReferences ReturnedWasPersisted MembersAsDeclared GettersJustified LastGetterGenerated
CHECK_DEADLOCK FALSE
