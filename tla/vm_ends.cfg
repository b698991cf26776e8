CONSTANTS
  k1 = k1  k2 = k2
  t1 = t1  t2 = t2
  r1 = r1  r2 = r2  r3 = r3  r4 = r4
  Classes <- Classes2
  Uses <- AnyUse
  Workers <- Workers2
  Main = t1
  Refs <- Refs4
  None = None
SYMMETRY Symm
SPECIFICATION ThreadsSpec
INVARIANTS NoNullCall NoDeadCall StaleOnlyByRace ClassRefsKept
PROPERTIES FoundClassStays OneThreadLike
CHECK_DEADLOCK FALSE
