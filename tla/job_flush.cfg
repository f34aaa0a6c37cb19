\* Three documents, one of them unrenderable, two slots, one failed upload, and a flush.
SPECIFICATION FlushFairSpec
CONSTANTS
  d1 = d1  d2 = d2  d3 = d3
  s1 = s1  s2 = s2  p1 = p1  p2 = p2
  Docs = {d1, d2, d3}
  Unrenderable = {d3}
  Slots = {s1, s2}
  Procs = {p1}
  Host <- OneProc
  MaxAttempts = 3
  MaxStalls = 1
  EnqueueAttempts = 3
  PromptApi = TRUE
  Faults = {"artifact"}
  MaxFaults = 1
  NoDoc = NoDoc
  NoSlot = NoSlot
  FlushAt = 1
CHECK_DEADLOCK FALSE
INVARIANTS TerminalMatchesLedger PollTruthful RecoveredExactly
PROPERTY TerminalOrNothingRendered
