\* One backend writes one record while one online checkpoint runs; the
\* checkpoint saves the undo log metadata after its redo pointer.
CONSTANTS
  BLCKSZ = 8
  UndoLogBlockHeaderSize = 2
  SizeofUndoLogOffset = 2
  UndoLogMaxSize = 16
  Procs = {1}
  Logs = {1, 2}
  DataSizes = {1, 2}
  FirstBlockId = 0
  MaxRecordSets = 1
  MaxInserts = 1
  PrepareEarly = FALSE
  MaxCheckpoints = 1
  CloseWithInsert = FALSE
  FullPageWrites = TRUE
  MaxDiscards = 0
  TypeHeaderSize <- MCTypeHeaderSize
SPECIFICATION RSpec
PROPERTY RecoveryCompletes
CHECK_DEADLOCK FALSE
