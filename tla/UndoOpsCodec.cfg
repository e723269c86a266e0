\* Streams of up to three entries over page offsets that need both bytes.
CONSTANTS
  BLCKSZ = 512
  UndoLogBlockHeaderSize = 2
  SizeofUndoLogOffset = 2
  UndoLogMaxSize = 1024
  Payloads <- MCPayloads
  Offsets <- MCOffsets
  MaxOps = 3

SPECIFICATION Spec

INVARIANTS
  InsertsReplayed
  UpdatesReplayed

CHECK_DEADLOCK FALSE
