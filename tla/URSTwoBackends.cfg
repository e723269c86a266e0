\* Two backends sharing two logs of three pages each, so that a log one
\* backend released takes the other's records after its own.
CONSTANTS
  BLCKSZ = 8
  UndoLogBlockHeaderSize = 2
  SizeofUndoLogOffset = 2
  UndoLogMaxSize = 24
  Procs = {1, 2}
  Logs = {1, 2}
  TypeHeaderSize <- MCTypeHeaderSize
  DataSizes = {1, 2}
  FirstBlockId = 0
  MaxRecordSets = 1
  MaxInserts = 2
  PrepareEarly = FALSE

SPECIFICATION Spec

INVARIANTS
  RecordsAtTheirPointers
  NoLogLeak

 

CHECK_DEADLOCK FALSE
