CONSTANTS
  f1 = f1
  f2 = f2
  f3 = f3
  x = x
  y = y
  Files <- MCFiles
  Path <- MCPath
  RootSets <- MCRootSets
  Folders <- MCFolders
  SkippedDirs = {"build"}
  Names = {x, y}
  Texts <- MCTexts
  None = None
  Unreadable = Unreadable
  MaxEdits = 2
SPECIFICATION Spec
INVARIANTS TypeOK RenamesWorkspace FailsWhole LocalRenameStaysInMethod
