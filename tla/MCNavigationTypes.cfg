CONSTANTS
  controller = controller
  user = user
  api = api
  Files <- MCFiles
  TextsOf <- MCGenericTextsOf
  Workspaces <- MCGenericWorkspaces
  Library <- MCLibrary
  Mappers <- MCMappers
  LastSegment <- MCLastSegment
  EndsIn <- MCEndsIn
  JavaLang = {"String"}
  Builtin = {"String", "boolean", "int", "void", "List"}
  AccessorName <- MCAccessorName
  NoTarget = NoTarget
  Labels <- MCLabels
  Details <- MCDetails
  StartsWith <- MCStartsWith
  Related <- MCRelated
  TargetScore <- MCTargetScore
  None = None
  MaxChanges = 0
  MaxEdits = 0
SPECIFICATION Spec
INVARIANT WorkspaceTypesFound
