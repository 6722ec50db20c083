CONSTANTS
  controller = controller
  user = user
  api = api
  Files <- MCFiles
  TextsOf <- MCTextsOf
  Workspaces <- MCWorkspaces
  Library <- MCLibrary
  Mappers <- MCMappers
  LastSegment <- MCLastSegment
  EndsIn <- MCEndsIn
  JavaLang = {"String"}
  Builtin = {"String", "boolean", "int", "void", "List"}
  AccessorName <- MCAccessorName
  NoTarget = NoTarget
  Labels <- MCLabels
  Details <- MCDetails
  StartsWith <- MCStartsWith
  Related <- MCRelated
  TargetScore <- MCTargetScore
  None = None
  MaxChanges = 1
  MaxEdits = 1
SPECIFICATION Spec
INVARIANTS TypeOK OwnImportsWin FeaturesAgree ImplementedWhereDeclared LocatedIsReferenced CompletionOrderStable
