\* One backend, logs of two pages: the first allocation that crosses a page.
CONSTANTS
  BLCKSZ = 8
  UndoLogBlockHeaderSize = 2
  SizeofUndoLogOffset = 2
  UndoLogMaxSize = 16
  Procs = {1}
  Logs = {1, 2, 3}
  TypeHeaderSize <- MCTypeHeaderSize
  DataSizes = {1, 2}
  FirstBlockId = 0
  MaxRecordSets = 2
  MaxInserts = 3
  PrepareEarly = FALSE

SPECIFICATION Spec

INVARIANT PinsCoverRegion

CHECK_DEADLOCK FALSE
