SPECIFICATION Spec
CONSTANTS
  r1 = r1  r2 = r2  r3 = r3  p1 = p1  p2 = p2
  Requests = {r1, r2, r3}
  Procs = {p1, p2}
  Host <- TwoProcs
  TTL = 5
  WaitMax = 1
  Faults = {"crash"}
  MaxFaults = 1
CHECK_DEADLOCK FALSE
PROPERTIES
  WaitersTakeOver
