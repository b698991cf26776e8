SPECIFICATION Spec
CONSTANTS
  None = None
INVARIANTS WellApplied ChosenAsJava AppliedClear ExceptionTold SkipIsTold
CHECK_DEADLOCK FALSE
