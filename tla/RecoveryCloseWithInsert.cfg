\* One backend, one record set of two records that it may close in the WAL record
\* of an insertion; no checkpoint.
CONSTANTS
  BLCKSZ = 8
  UndoLogBlockHeaderSize = 2
  SizeofUndoLogOffset = 2
  UndoLogMaxSize = 16
  Procs = {1}
  Logs = {1, 2}
  TypeHeaderSize <- MCTypeHeaderSize
  DataSizes = {1, 2}
  FirstBlockId = 0
  MaxRecordSets = 1
  MaxInserts = 2
  PrepareEarly = FALSE
  MaxCheckpoints = 0
  CloseWithInsert = TRUE
  FullPageWrites = TRUE
  MaxDiscards = 0

SPECIFICATION RSpec

PROPERTY RecoveryCompletes

CHECK_DEADLOCK FALSE
