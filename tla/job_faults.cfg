SPECIFICATION Spec
CONSTANTS
  d1 = d1  d2 = d2  d3 = d3
  s1 = s1  s2 = s2  p1 = p1  p2 = p2
  Docs = {d1, d2}
  Unrenderable = {d2}
  Slots = {s1, s2}
  Procs = {p1, p2}
  Host <- TwoProcs
  MaxAttempts = 2
  MaxStalls = 1
  EnqueueAttempts = 2
  PromptApi = FALSE
  Faults = {"api", "postgres", "snapshot", "artifact", "redis", "resend", "browser", "worker", "lock"}
  MaxFaults = 2
  NoDoc = NoDoc
  NoSlot = NoSlot
CHECK_DEADLOCK FALSE
INVARIANTS
  TypeOK
  ReadyWhenPromoted
  NothingRenderedUnlessPromoted
  RenderedRowHasArtifact
  AckedTaskIsAccounted
  CountsBackedByLedger
PROPERTY StatusNeverRegresses
