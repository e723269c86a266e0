\* One backend, two record sets of up to two records in all, each closed in
\* a WAL record of its own; up to two checkpoints, which no insertion
\* straddles; discard may remove one page.
CONSTANTS
  BLCKSZ = 8
  UndoLogBlockHeaderSize = 2
  SizeofUndoLogOffset = 2
  UndoLogMaxSize = 16
  Procs = {1}
  Logs = {1, 2}
  TypeHeaderSize <- MCTypeHeaderSize
  DataSizes = {1, 2}
  FirstBlockId = 0
  MaxRecordSets = 2
  MaxInserts = 2
  PrepareEarly = FALSE
  MaxCheckpoints = 2
  CloseWithInsert = FALSE
  FullPageWrites = TRUE
  MaxDiscards = 1

CONSTRAINT CheckpointQuiescent
SPECIFICATION RSpec

INVARIANT InsertPointerCoversCommitted
INVARIANT ChunkSizesRecovered
PROPERTY RecoveryCompletes

CHECK_DEADLOCK FALSE
