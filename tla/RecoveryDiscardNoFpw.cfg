\* full_page_writes off: a second record set starts a chunk mid-page on a
\* log a first set has released, a checkpoint intervenes, and discard then
\* removes the page before the crash.
CONSTANTS
  BLCKSZ = 16
  UndoLogBlockHeaderSize = 2
  SizeofUndoLogOffset = 2
  UndoLogMaxSize = 32
  Procs = {1}
  Logs = {1}
  TypeHeaderSize <- MCTypeHeaderSize
  DataSizes = {1, 3}
  FirstBlockId = 0
  MaxRecordSets = 2
  MaxInserts = 2
  PrepareEarly = FALSE
  MaxCheckpoints = 1
  CloseWithInsert = FALSE
  FullPageWrites = FALSE
  MaxDiscards = 1

CONSTRAINT CheckpointQuiescent
SPECIFICATION RSpec

PROPERTY RecoveryCompletes

CHECK_DEADLOCK FALSE
