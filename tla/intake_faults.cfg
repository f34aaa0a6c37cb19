SPECIFICATION Spec
CONSTANTS
  r1 = r1  r2 = r2  r3 = r3  r4 = r4  r5 = r5  k = k
  Requests = {r1, r2, r3, r4, r5}
  Invalid = {r5}
  NoKey = NoKey
  KeyOf <- KeyedAndNot
  Faults = {"postgres", "snapshot", "redis", "crash"}
  MaxFaults = 2
  NoJob = NoJob
CHECK_DEADLOCK FALSE
INVARIANTS
  TypeOK
  CreatorDrives
  ReplyTellsTheRow
  NeverServerError
PROPERTIES
  KeyCreatesOnce
