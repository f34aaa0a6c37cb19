\* Any failures: what holds then, and what while relaunches succeed.
SPECIFICATION FairSpec
CONSTANTS
  s1 = s1  s2 = s2  b1 = b1  b2 = b2
  Singles = {s1, s2}
  Bulks = {b1, b2}
  Size = 2
  Reserved = 1
  Pages <- MCPages
  Faults = {"page", "newPage", "browser", "launch"}
  MaxFaults = 2
  NoPage = NoPage
CHECK_DEADLOCK FALSE
INVARIANTS
  TypeOK
  InFlightExact
  NoPageShared
  NoPageLost
PROPERTIES
  SinglesFirst
  EveryoneServed
