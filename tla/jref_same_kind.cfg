CONSTANTS
  s1 = s1  s2 = s2  s3 = s3
  h1 = h1  h2 = h2  h3 = h3  h4 = h4
  o1 = o1  o2 = o2
  Slots <- Slots3
  Handles <- Handles4
  Objects <- Objects2
  Null = Null
  NoObject = NoObject
  RawKinds <- AllKinds
  Conversions <- SameKind
SYMMETRY Symm3
SPECIFICATION Spec
INVARIANTS TypeOK OneOwner NoDangling GlobalsOwned
PROPERTY Refinement
CHECK_DEADLOCK FALSE
