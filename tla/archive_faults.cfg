SPECIFICATION FairSpec
CONSTANTS
  r1 = r1  r2 = r2  r3 = r3  p1 = p1  p2 = p2
  Requests = {r1, r2, r3}
  Procs = {p1, p2}
  Host <- TwoProcs
  TTL = 2
  WaitMax = 1
  Faults = {"s3", "upload", "redis", "resend", "crash"}
  MaxFaults = 3
CHECK_DEADLOCK FALSE
INVARIANTS
  TypeOK
PROPERTIES
  BuiltOnce
  Answered
