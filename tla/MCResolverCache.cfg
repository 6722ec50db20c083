CONSTANTS
  r1 = r1
  ImportCells = {r1}
  ModuleCells = {m1}
  TypeCells = {y1}
  JdkCell = jdk
  RootLists <- MCRootLists
  Prewarms = {g1, g2}
  Serve = serve
  Values = {v1}
  Failure = failure
  Unsettled = unsettled
SPECIFICATION Spec
INVARIANTS TypeOK SingleFlight Agreement NoOrphanWait
PROPERTIES SettledIsFinal CallsReturn ImplementsOnceCells
