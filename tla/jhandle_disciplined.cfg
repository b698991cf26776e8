CONSTANTS
  s1 = s1  s2 = s2  s3 = s3
  h1 = h1  h2 = h2  h3 = h3
  o1 = o1  o2 = o2
  Slots <- Slots3
  Handles <- Handles3
  Objects <- Objects2
  Null = Null
  NoObject = NoObject
  RawKinds <- AllKinds
  MaxDepth = 3
  Liberties <- Disciplined
SYMMETRY Symm3
SPECIFICATION Spec
INVARIANTS NoDangling StrongOwned
PROPERTY Refinement
