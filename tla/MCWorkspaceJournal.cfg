SPECIFICATION JournalSpec
CONSTANTS
  c1 = c1
  c2 = c2
  Client = {c1, c2}
  Nobody = nobody
  JournalLimit = 3
  Platform <- MCPlatform
  MaxEdits = 6
  MaxFaults = 3
INVARIANTS MemoryIsTrue SavedIsKept
PROPERTY KeptSpec
CHECK_DEADLOCK FALSE
