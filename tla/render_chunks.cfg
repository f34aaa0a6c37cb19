\* Every setting of the renderer, every document around a limit.
SPECIFICATION DocumentsSpec
CONSTANTS
  Undefined = Undefined
  Other = Other
  ListedCode = ListedCode
  Codes = {"USD", "EUR"}
  MAX_BULK_DOCUMENTS = 4
  MAX_DESC = 110
  LargeCount = 13
  LIMITS <- MCLimits
  Bodies <- MCBodies
  Counts <- MCCounts
  RowsPerPage <- MCRowsPerPage
  ChunkSizes <- MCChunkSizes
  Thresholds <- MCThresholds
CHECK_DEADLOCK FALSE
INVARIANTS
  TypeOK
  Equivalent
  EveryFaultNamed
  ContractDecides
  ColumnsHold
