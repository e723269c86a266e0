\* Two backends, one record set of one record each, closed in a WAL record
\* of its own; a log one releases may go to the other; one checkpoint.
CONSTANTS
  BLCKSZ = 8
  UndoLogBlockHeaderSize = 2
  SizeofUndoLogOffset = 2
  UndoLogMaxSize = 16
  Procs = {1, 2}
  Logs = {1, 2}
  TypeHeaderSize <- MCTypeHeaderSize
  DataSizes = {1, 2}
  FirstBlockId = 0
  MaxRecordSets = 1
  MaxInserts = 1
  PrepareEarly = FALSE
  MaxCheckpoints = 1
  CloseWithInsert = FALSE
  FullPageWrites = TRUE
  MaxDiscards = 0

CONSTRAINT CheckpointQuiescent
SPECIFICATION RSpec



INVARIANT RecordsRecovered
INVARIANT InsertPointerCoversCommitted
INVARIANT ChunkSizesRecovered
PROPERTY RecoveryCompletes

CHECK_DEADLOCK FALSE
