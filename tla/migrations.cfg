\* Two new replicas and an old one, one failure, one restart.
SPECIFICATION FairSpec
CONSTANTS
  r1 = r1  r2 = r2  r3 = r3
  Replicas = {r1, r2, r3}
  NumFiles = 2
  Image <- OldAndNew
  Drifts <- MCDrifts
  Retries = 2
  MaxFaults = 1
  MaxRestarts = 1
CHECK_DEADLOCK FALSE
INVARIANTS TypeOK ServingIsLocked ProofPasses
PROPERTIES MigratesInOrder SomeoneServes
