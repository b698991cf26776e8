SPECIFICATION Spec
CONSTANTS
  Slash = 0
  Under = 3
  Word = 8
  Java <- MCJava
  JavaLang <- MCJavaLang
  Internals <- MCInternals
  Fundamental <- MCFundamental
  Jars <- MCJars
  None = None
  Object = 1
  HiddenSignatures = {3}
  InternalClasses = {2}
  Inits = {4}
  Keywords = {2}
  Escaped_ <- MCEscaped
INVARIANTS RotationDefined ParentsDeclared InOrder EveryMethodCallable FunctionsDistinct
CHECK_DEADLOCK FALSE
