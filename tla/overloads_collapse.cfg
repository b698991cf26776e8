SPECIFICATION PipelineSpec
CONSTANTS
  Natives <- NativeNames
  Inputs <- Classes
  Jars <- MCJars
  Unreadable = Unreadable
  Dollar = 1
  Suffix = 2
  Slash = 3
  Under = 9
  Filtered <- MCFiltered
  Excluded <- MCExcluded
  FieldWords = {2}
  MethodWords = {2, 3}
  Escaped_ <- MCEscaped
INVARIANTS Complete NoRedeclaration OwnMembers WellFormed
PROPERTY Ends
CHECK_DEADLOCK FALSE
