CONSTANTS
  jdk17 = jdk17
  jdk21 = jdk21
  jdkEmpty = jdkEmpty
  Servers = {s1, s2}
  Zips = {jdk17, jdk21, jdkEmpty}
  Size <- MCSize
  Nothing = Nothing
  MaxUpgrades = 1
  MaxRuns = 3
SPECIFICATION Spec
INVARIANTS TypeOK OwnIndexLoaded
PROPERTY BuildEnds
CHECK_DEADLOCK FALSE
