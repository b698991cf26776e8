CONSTANTS
  s1 = s1  s2 = s2
  h1 = h1  h2 = h2
  o1 = o1
  Slots <- Slots2
  Handles <- Handles2
  Objects <- Objects1
  Null = Null
  NoObject = NoObject
  RawKinds <- LocalOnly
  MaxDepth = 1
  Liberties <- Disciplined
SPECIFICATION OldSpec
INVARIANT RaiiManaged
CHECK_DEADLOCK FALSE
