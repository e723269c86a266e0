\* One backend, three logs of three pages each.
CONSTANTS
  BLCKSZ = 8
  UndoLogBlockHeaderSize = 2
  SizeofUndoLogOffset = 2
  UndoLogMaxSize = 24
  Procs = {1}
  Logs = {1, 2, 3}
  TypeHeaderSize <- MCTypeHeaderSize
  DataSizes = {1, 2}
  FirstBlockId = 0
  MaxRecordSets = 2
  MaxInserts = 4
  PrepareEarly = FALSE

SPECIFICATION Spec

INVARIANTS
  TypeOK
  ChunkHeadersCorrect
  PhysicalRangeRespected
  ClosedBeforeReuse
  PreparedIndicesValid

CHECK_DEADLOCK FALSE
