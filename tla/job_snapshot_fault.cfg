SPECIFICATION FairSpec
CONSTANTS
  d1 = d1  d2 = d2  d3 = d3
  s1 = s1  s2 = s2  p1 = p1  p2 = p2
  Docs = {d1, d2}
  Unrenderable = {}
  Slots = {s1, s2}
  Procs = {p1}
  Host <- OneProc
  MaxAttempts = 5
  MaxStalls = 1
  EnqueueAttempts = 3
  PromptApi = TRUE
  Faults = {"snapshot"}
  MaxFaults = 1
  NoDoc = NoDoc
  NoSlot = NoSlot
CHECK_DEADLOCK FALSE
PROPERTY EventuallyTerminal
