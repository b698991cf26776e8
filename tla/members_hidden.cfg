CONSTANTS
  t1 = t1  t2 = t2
  NoId = NoId
  Threads <- Threads2
  Classes <- MCClasses
  Super <- MCSuper
  Ancestors <- MCAncestors
  Members <- MCMembers
  Table <- MCTable
  Getters <- MCGetters
  Ids <- MCIds
  Lookup <- MCLookup
  Sites <- MCSites
SPECIFICATION LookupSpec
INVARIANT OwnMember
