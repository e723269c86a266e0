\* One backend, logs of one page, so that a record set soon needs a second chunk.
CONSTANTS
  BLCKSZ = 10
  UndoLogBlockHeaderSize = 2
  SizeofUndoLogOffset = 2
  UndoLogMaxSize = 10
  Procs = {1}
  Logs = {1, 2, 3}
  TypeHeaderSize <- MCTypeHeaderSize
  DataSizes = {1, 2}
  FirstBlockId = 0
  MaxRecordSets = 2
  MaxInserts = 3
  PrepareEarly = FALSE

SPECIFICATION Spec

INVARIANT ChunkChainLinked

CHECK_DEADLOCK FALSE
