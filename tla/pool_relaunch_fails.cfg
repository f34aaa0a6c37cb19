SPECIFICATION FairSpec
CONSTANTS
  s1 = s1  s2 = s2  b1 = b1  b2 = b2
  Singles = {s1, s2}
  Bulks = {b1}
  Size = 2
  Reserved = 1
  Pages <- MCPages
  Faults = {"browser", "launch"}
  MaxFaults = 2
  NoPage = NoPage
CHECK_DEADLOCK FALSE
PROPERTIES
  SinglesServed
