\* One backend, one record set of two records, no checkpoint: replay from the start.
CONSTANTS
  BLCKSZ = 8
  UndoLogBlockHeaderSize = 2
  SizeofUndoLogOffset = 2
  UndoLogMaxSize = 16
  Procs = {1}
  Logs = {1, 2}
  TypeHeaderSize <- MCTypeHeaderSize
  DataSizes = {1, 2}
  FirstBlockId = 0
  MaxRecordSets = 1
  MaxInserts = 2
  PrepareEarly = FALSE
  MaxCheckpoints = 0
  CloseWithInsert = FALSE
  FullPageWrites = TRUE
  MaxDiscards = 0

INIT RInit
NEXT RNext

INVARIANT RecordsRecovered

CHECK_DEADLOCK FALSE
