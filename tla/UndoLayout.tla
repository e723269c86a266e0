----------------------------- MODULE UndoLayout -----------------------------
(***************************************************************************)
(* Byte layout of undo logs and the WAL opcode stream of undorecordset.c. *)
(*                                                                         *)
(* An undo log is a run of cells numbered from 0; every BLCKSZ cells form *)
(* a page whose first UndoLogBlockHeaderSize cells are the page header.    *)
(* Of that header the model keeps two cells: pd_lsn (cell 0) and pd_lower *)
(* (cell 1).  A cell stands for one byte, except where a comment says it   *)
(* abstracts a wider field.  All operators here are pure.                  *)
(***************************************************************************)
EXTENDS Integers, Sequences

CONSTANTS
  BLCKSZ,                 \* cells per undo page
  UndoLogBlockHeaderSize, \* header cells at the start of every page
  SizeofUndoLogOffset,    \* cells of the chunk header's size field
  UndoLogMaxSize          \* cells an undo log may grow to

ASSUME /\ UndoLogBlockHeaderSize >= 2
       /\ BLCKSZ > UndoLogBlockHeaderSize + SizeofUndoLogOffset
       /\ BLCKSZ <= 32768
       /\ UndoLogMaxSize % BLCKSZ = 0

PdLsnOffset   == 0   \* page-header cell holding pd_lsn
PdLowerOffset == 1   \* page-header cell holding pd_lower

MinOf(a, b) == IF a < b THEN a ELSE b

BlockNum(off)   == off \div BLCKSZ
PageOffset(off) == off % BLCKSZ

(* Offsets past the largest insert position; the width of the offset part *)
(* of an UndoRecPtr.                                                       *)
UndoLogOffsetLimit == UndoLogMaxSize + BLCKSZ

(* MakeUndoRecPtr(logno, offset): the log number above the offset bits.   *)
MakeUndoRecPtr(logno, off) == logno * UndoLogOffsetLimit + off
InvalidUndoRecPtr == 0

(***************************************************************************)
(* Usable bytes: the cells that are not page headers, numbered from 0.     *)
(* UndoLogOffsetPlusUsableBytes steps over the headers of the pages it     *)
(* crosses; landing exactly on a page end yields the first usable cell of  *)
(* the next page, as append_bytes does.                                    *)
(***************************************************************************)
UsableBytesPerPage == BLCKSZ - UndoLogBlockHeaderSize

UsableIndex(off) ==
  BlockNum(off) * UsableBytesPerPage + PageOffset(off) - UndoLogBlockHeaderSize

OffsetOfUsable(i) ==
  (i \div UsableBytesPerPage) * BLCKSZ + UndoLogBlockHeaderSize
    + (i % UsableBytesPerPage)

UndoLogOffsetPlusUsableBytes(off, n) == OffsetOfUsable(UsableIndex(off) + n)

(* The offsets of the n usable cells starting at off, in order.           *)
UsableRun(off, n) == [i \in 1..n |-> OffsetOfUsable(UsableIndex(off) + i - 1)]

(***************************************************************************)
(* Integers stored little-endian in byte cells (the memcpy of an          *)
(* UndoLogOffset into a chunk header).                                     *)
(***************************************************************************)
EncodeLE(v, n) == [i \in 1..n |-> (v \div (256 ^ (i - 1))) % 256]

RECURSIVE DecodeLE(_)
DecodeLE(bytes) ==
  IF bytes = <<>> THEN 0
  ELSE bytes[1] + 256 * DecodeLE(SubSeq(bytes, 2, Len(bytes)))

(***************************************************************************)
(* UndoRecordSetChunkHeader: size, previous_chunk, type.  previous_chunk  *)
(* (an UndoRecPtr) and type each abstract into one cell.                   *)
(***************************************************************************)
UndoRecordSetChunkHeaderSize == SizeofUndoLogOffset + 2

ChunkHeaderBytes(size, previous_chunk, type) ==
  EncodeLE(size, SizeofUndoLogOffset) \o <<previous_chunk, type>>

(***************************************************************************)
(* The opcode stream attached to WAL buffer data.  An insert entry is a    *)
(* length byte below 0x80 and the bytes; an update entry is a 4-byte       *)
(* header (0x80 | offset high byte, offset low byte, size high, size low)  *)
(* and the bytes.                                                          *)
(***************************************************************************)
(* Mutant: the length byte counts itself.                                 *)
InsertOpCountingLength(bytes) == <<Len(bytes) + 1>> \o bytes

InsertOp(bytes) == <<Len(bytes)>> \o bytes

(* Mutant: the update flag is left out of the first byte.                 *)
write_update_ops_header_unflagged(offset, size) ==
  <<offset \div 256, offset % 256, size \div 256, size % 256>>

write_update_ops_header(offset, size) ==
  <<128 + offset \div 256, offset % 256, size \div 256, size % 256>>

UpdateOp(offset, bytes) == write_update_ops_header(offset, Len(bytes)) \o bytes

Rest(s, from) == SubSeq(s, from, Len(s))

(* The update entries UndoUpdateInRecovery applies: insert entries are    *)
(* skipped by their length byte, and an update whose header or bytes run  *)
(* past the stream end is reported as corrupt.                             *)
RECURSIVE UpdateEntries(_)
UpdateEntries(ops) ==
  IF ops = <<>> THEN [corrupt |-> FALSE, entries |-> <<>>]
  ELSE IF ops[1] < 128 THEN UpdateEntries(Rest(ops, ops[1] + 2))
  ELSE IF 4 >= Len(ops) THEN [corrupt |-> TRUE, entries |-> <<>>]
  ELSE LET offset == (ops[1] - 128) * 256 + ops[2]
           size   == ops[3] * 256 + ops[4]
           tail   == UpdateEntries(Rest(ops, 5 + size))
       IN IF 4 + size > Len(ops) THEN [corrupt |-> TRUE, entries |-> <<>>]
          ELSE [tail EXCEPT !.entries =
                  <<[offset |-> offset, bytes |-> SubSeq(ops, 5, 4 + size)]>> \o @]

(* The leading insert entries UndoInsertInRecovery replays: it stops at   *)
(* the first entry with the high bit set.                                  *)
RECURSIVE InsertEntries(_)
InsertEntries(ops) ==
  IF ops = <<>> \/ ops[1] >= 128 THEN [corrupt |-> FALSE, entries |-> <<>>]
  ELSE IF 1 + ops[1] > Len(ops) THEN [corrupt |-> TRUE, entries |-> <<>>]
  ELSE LET tail == InsertEntries(Rest(ops, ops[1] + 2))
       IN [tail EXCEPT !.entries = <<SubSeq(ops, 2, 1 + ops[1])>> \o @]

=============================================================================
