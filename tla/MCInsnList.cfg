CONSTANTS
  Instrs = {i1, i2, i3, i4}
  Null = Null
SPECIFICATION ListFairSpec
INVARIANTS
  LinksFollowOrder
  EnumerationOnTrack
  CrashOnlyOnTheLastOne
PROPERTY EnumerationEnds
CHECK_DEADLOCK FALSE
