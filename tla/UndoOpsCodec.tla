---------------------------- MODULE UndoOpsCodec ----------------------------
(***************************************************************************)
(* The opcode stream that undorecordset.c attaches to a WAL block: insert  *)
(* entries written by UndoInsert for the chunk and type headers, update    *)
(* entries written by UndoMarkClosed for chunk sizes.  A writer appends    *)
(* entries in any order; the two recovery parsers, UndoInsertInRecovery's  *)
(* insert loop and UndoUpdateInRecovery's update loop, read the stream.    *)
(* The reference is the list of entries as they were written.             *)
(***************************************************************************)
EXTENDS UndoLayout, SequencesExt

CONSTANTS
  Payloads,  \* byte strings an entry may carry, each non-empty
  Offsets,   \* page offsets an update may target
  MaxOps     \* entries per stream (bound)

(* write_update_ops_header's assertions; an insert length stays below 0x80. *)
ASSUME /\ \A b \in Payloads : 0 < Len(b) /\ Len(b) < 128
       /\ \A off \in Offsets, b \in Payloads :
            UndoLogBlockHeaderSize <= off /\ off + Len(b) <= BLCKSZ

VARIABLES
  stream,    \* the bytes registered for the block
  written    \* the entries, in order: [kind, offset, bytes]

vars == <<stream, written>>

Init == stream = <<>> /\ written = <<>>

(* XLogRegisterBufData of an insert entry: a length byte and the bytes.   *)
AppendInsert(b) ==
  /\ Len(written) < MaxOps
  /\ stream' = stream \o InsertOp(b)
  /\ written' = Append(written, [kind |-> "insert", offset |-> 0, bytes |-> b])

(* XLogRegisterBufData of an update entry: the 4-byte header, the bytes.  *)
AppendUpdate(off, b) ==
  /\ Len(written) < MaxOps
  /\ stream' = stream \o UpdateOp(off, b)
  /\ written' = Append(written, [kind |-> "update", offset |-> off, bytes |-> b])

Next ==
  \/ \E b \in Payloads : AppendInsert(b)
  \/ \E off \in Offsets, b \in Payloads : AppendUpdate(off, b)

Spec == Init /\ [][Next]_vars

(* The insert entries written before the first update, in order.           *)
LeadingInserts(w) ==
  LET k == IF \E i \in DOMAIN w : w[i].kind = "update"
           THEN CHOOSE i \in DOMAIN w :
                  w[i].kind = "update" /\ \A j \in 1..(i - 1) : w[j].kind = "insert"
           ELSE Len(w) + 1
  IN [i \in 1..(k - 1) |-> w[i].bytes]

Updates(w) ==
  LET u == SelectSeq(w, LAMBDA e : e.kind = "update")
  IN [i \in DOMAIN u |-> [offset |-> u[i].offset, bytes |-> u[i].bytes]]

(* UndoInsertInRecovery replays exactly the header bytes UndoInsert       *)
(* attached before any size update, and never reads an update header as  *)
(* an insert length.                                                       *)
InsertsReplayed ==
  InsertEntries(stream) = [corrupt |-> FALSE, entries |-> LeadingInserts(written)]

(* UndoUpdateInRecovery steps over every insert entry by its length byte  *)
(* and applies every update, at its offset, with its bytes, in order, and *)
(* never reports a well-formed stream as corrupt.                          *)
UpdatesReplayed ==
  UpdateEntries(stream) = [corrupt |-> FALSE, entries |-> Updates(written)]

=============================================================================
