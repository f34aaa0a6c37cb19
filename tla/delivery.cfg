\* Two documents, one of them unrenderable, two slots, one failure: the API
\* or a worker dies, an upload fails, a lock is lost or a Redis command is sent
\* again.
SPECIFICATION DeliveryFairSpec
CONSTANTS
  d1 = d1  d2 = d2
  s1 = s1  s2 = s2  p1 = p1  p2 = p2
  Docs = {d1, d2}
  Unrenderable = {d2}
  Slots = {s1, s2}
  Procs = {p1, p2}
  Host <- TwoProcs
  MaxAttempts = 3
  MaxStalls = 1
  EnqueueAttempts = 3
  PromptApi = TRUE
  Faults = {"api", "lock", "artifact", "worker", "resend"}
  MaxFaults = 1
  NoDoc = NoDoc
  NoSlot = NoSlot
  Target = d1
  Retries = 1
CHECK_DEADLOCK FALSE
INVARIANTS DeliveryTypeOK FilesAreFrozen SealedAtRest RefusedMeansRedone
PROPERTY ClientFinishes
