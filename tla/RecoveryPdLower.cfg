\* Two backends each write a set of one record; the second set may reuse
\* the first one's log, so its chunk header lands on a page that already
\* holds undo and gets a full-page image after a checkpoint.
CONSTANTS
  BLCKSZ = 32
  UndoLogBlockHeaderSize = 2
  SizeofUndoLogOffset = 2
  UndoLogMaxSize = 32
  Procs = {1, 2}
  Logs = {1, 2}
  TypeHeaderSize <- MCTypeHeaderSize
  DataSizes = {1}
  FirstBlockId = 0
  MaxRecordSets = 1
  MaxInserts = 1
  PrepareEarly = FALSE
  MaxCheckpoints = 1
  CloseWithInsert = FALSE
  FullPageWrites = TRUE
  MaxDiscards = 0

CONSTRAINT CheckpointQuiescent
INIT RInit
NEXT RNext

INVARIANT RecordsRecovered

CHECK_DEADLOCK FALSE
