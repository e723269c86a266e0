---------------------------- MODULE UndoRecordSet ----------------------------
(***************************************************************************)
(* The forward path of undorecordset.c: backends create record sets,      *)
(* reserve space (reserve_physical_undo, UndoAllocate), write headers and  *)
(* data (UndoInsert, append_bytes), patch chunk sizes (UndoPrepareToMark-  *)
(* Closed, UndoMarkClosed), stamp pages (UndoPageSetLSN) and give buffers  *)
(* and logs back (UndoRelease, AtProcExit_UndoRecordSet).                  *)
(*                                                                         *)
(* Each backend owns at most one record set at a time.  Undo logs are      *)
(* shared: a backend takes one from the free list, and another backend     *)
(* discarding may move its physical end concurrently.  Each backend's      *)
(* calls form one caller-level WAL record at a time; the WAL itself is the *)
(* sequence of committed records.                                          *)
(***************************************************************************)
EXTENDS UndoLayout, FiniteSets, TLC

CONSTANTS
  Procs,          \* backends, positive integers
  Logs,           \* undo log numbers, positive integers
  TypeHeaderSize, \* urst_header_size: record-set type -> type header cells
  DataSizes,      \* sizes of caller records
  FirstBlockId,   \* first WAL block id the caller gives UndoInsert
  MaxRecordSets,  \* record sets each backend creates (bound)
  MaxInserts,     \* records each backend inserts (bound)
  PrepareEarly    \* whether a caller may call UndoPrepareToMarkClosed on a
                  \* set before its first UndoAllocate

ASSUME /\ Procs \subseteq Nat \ {0} /\ Logs \subseteq Nat \ {0}
       /\ DataSizes \subseteq Nat \ {0}
       /\ MaxInserts < 10

Types == DOMAIN TypeHeaderSize
NoSlot == 0        \* urs->slot == NULL
NoURS == [none |-> TRUE]
NoBuffer == -1     \* chunk_header_buffer_index of an absent buffer
NoRecord == [b \in {} |-> 0]   \* no block registered for the WAL record

VARIABLES
  meta,      \* meta[l]: UndoLogSlot: insert, end, full, on the free list
  undo,      \* undo[l][o]: cell o of log l as the buffer pool holds it
  urs,       \* urs[p]: the backend's UndoRecordSet, or NoURS
  caller,    \* caller[p]: the caller's progress through the protocol
  walRec,    \* walRec[p]: block id -> registered buffer and its data
  wal,       \* committed WAL records
  procState, \* "running", "hung", "exited", "panicked" or "crashed"
  records,   \* records[p]: every record p inserted: pointer, byte, length
  headers    \* <<log, offset>> of every chunk header written

vars == <<meta, undo, urs, caller, walRec, wal, procState, records, headers>>

urst_header_size(type) == TypeHeaderSize[type]

(* The type header UndoInsert writes: the buffer is zeroed, and           *)
(* urst_header, whose switch has no case, then writes nothing into it.    *)
urst_header(type) == [i \in 1..urst_header_size(type) |-> 0]

(* The byte of record k of backend p: distinct across records.             *)
DataByte(p, k) == 10 * p + k

(***************************************************************************)
(* The external undo log allocator (undolog.c, not in this repository).    *)
(***************************************************************************)
FreeLogs(m) == {l \in Logs : m[l].free}

UndoLogGetForPersistence(m, l) == [m EXCEPT ![l].free = FALSE]

(* UndoLogAdjustPhysicalRange(logno, 0, new_end): end grows to cover      *)
(* new_end in whole pages and never shrinks.                               *)
UndoLogAdjustPhysicalRange(m, l, newEnd) ==
  LET pages == (newEnd + BLCKSZ - 1) \div BLCKSZ
  IN [m EXCEPT ![l].end = IF pages * BLCKSZ > @ THEN pages * BLCKSZ ELSE @]

UndoLogMarkFull(m, l) == [m EXCEPT ![l].full = TRUE]

(* UndoLogPut: a log goes back on the free list unless it is full.         *)
UndoLogPut(m, l) == IF m[l].full THEN m ELSE [m EXCEPT ![l].free = TRUE]

(***************************************************************************)
(* reserve_physical_undo                                                   *)
(***************************************************************************)
ChunkHeaderNeed(u) ==
  IF u.needChunkHdr THEN UndoRecordSetChunkHeaderSize ELSE 0

TypeHeaderNeed(u) ==
  IF u.needTypeHdr THEN urst_header_size(u.type) ELSE 0

(* Start a new chunk on log l: the header goes at the log's insert point. *)
(* Mutant: the new chunk keeps the recent_end of the previous log.        *)
StartChunkKeepingRecentEnd(u, m, l) ==
  [u EXCEPT !.needChunkHdr = TRUE, !.slot = l,
            !.chunks = Append(@, [slot |-> l, hdr |-> m[l].insert,
                                  bidx |-> <<NoBuffer, NoBuffer>>])]

StartChunk(u, m, l) ==
  [u EXCEPT !.needChunkHdr = TRUE, !.recentEnd = 0, !.slot = l,
            !.chunks = Append(@, [slot |-> l, hdr |-> m[l].insert,
                                  bidx |-> <<NoBuffer, NoBuffer>>])]

(* Mutant: the size limit is checked against the offset limit instead.    *)
CanExtendToOffsetLimit(newInsert) == newInsert <= UndoLogOffsetLimit

CanExtendTo(newInsert) == newInsert <= UndoLogMaxSize

(* The outcomes of the reservation loop, one per choice of new logs: the  *)
(* record set, the log metadata and the UndoRecPtr of the first byte.     *)
RECURSIVE ReserveOutcomes(_, _, _)
ReserveOutcomes(u, m, d) ==
  IF u.slot # NoSlot
  THEN LET ins       == m[u.slot].insert
           newInsert == UndoLogOffsetPlusUsableBytes(
                          ins, d + ChunkHeaderNeed(u) + TypeHeaderNeed(u))
           u2        == [u EXCEPT !.recentEnd = m[u.slot].end]
           done(uu, mm) == {[u |-> uu, m |-> mm, begin |-> <<u.slot, ins>>]}
       IN IF newInsert <= u.recentEnd THEN done(u, m)
          ELSE IF newInsert <= u2.recentEnd THEN done(u2, m)
          ELSE IF CanExtendTo(newInsert)
               THEN done(u2, UndoLogAdjustPhysicalRange(m, u.slot, newInsert))
          ELSE ReserveOutcomes([u2 EXCEPT !.slot = NoSlot],
                               UndoLogMarkFull(m, u.slot), d)
  ELSE UNION {ReserveOutcomes(StartChunk(u, m, l),
                              UndoLogGetForPersistence(m, l), d)
                : l \in FreeLogs(m)}

(***************************************************************************)
(* UndoAllocate's pinning loop.  The loop computes block and offset from  *)
(* urp, which it never advances, so each pass pins the same block.         *)
(***************************************************************************)
RECURSIVE PinLoop(_, _, _)
PinLoop(tag, off, total) ==
  IF total = 0 THEN <<>>
  ELSE <<tag>> \o PinLoop(tag, off, total - MinOf(BLCKSZ - off, total))

(* PageInit of a zeroed undo page: all cells 0, pd_lower past the header. *)
PageInitCells(cells, blk) ==
  [o \in DOMAIN cells |->
     IF BlockNum(o) # blk THEN cells[o]
     ELSE IF PageOffset(o) = PdLowerOffset THEN UndoLogBlockHeaderSize
     ELSE 0]

HasDuplicate(s) == \E i, j \in DOMAIN s : i < j /\ s[i] = s[j]

(* The pointer UndoAllocate returns: past the headers it decided on.       *)
(* Mutant: the returned pointer does not skip the headers.                *)
AllocatedDataPtrAtBegin(begin, u) == begin

AllocatedDataPtr(begin, u) ==
  <<begin[1], UndoLogOffsetPlusUsableBytes(
                begin[2], ChunkHeaderNeed(u) + TypeHeaderNeed(u))>>

(***************************************************************************)
(* WAL registration (xloginsert.c).  Registering a block id again starts  *)
(* its data afresh.  Data for a block id nobody registered raises ERROR;  *)
(* the caller tests Registered and the record is left as it was.          *)
(***************************************************************************)
XLogRegisterBuffer(rec, id, tag, willInit) ==
  (id :> [tag |-> tag, willInit |-> willInit, data |-> <<>>]) @@ rec

Registered(rec, id) == id \in DOMAIN rec

XLogRegisterBufData(rec, id, bytes) ==
  IF id \in DOMAIN rec THEN [rec EXCEPT ![id].data = @ \o bytes] ELSE rec

(***************************************************************************)
(* append_bytes: write data through the insert state, one page at a time, *)
(* stamping pd_lower and registering each buffer on its first write.       *)
(***************************************************************************)
NextInsert(insert, n) ==
  IF PageOffset(insert) + n = BLCKSZ
  THEN insert + n + UndoLogBlockHeaderSize
  ELSE insert + n

RECURSIVE AppendBytes(_, _, _)
AppendBytes(st, data, inRecovery) ==
  IF data = <<>> THEN st
  ELSE
    LET tag   == st.buffers[st.bi + 1]
        off   == PageOffset(st.insert)
        n     == MinOf(BLCKSZ - off, Len(data))
        base  == tag[2] * BLCKSZ
        first == st.last # st.bi
        cells == [o \in DOMAIN st.undo[tag[1]] |->
                    IF o = base + PdLowerOffset THEN off
                    ELSE IF base + off <= o /\ o < base + off + n
                         THEN data[o - base - off + 1]
                    ELSE st.undo[tag[1]][o]]
        rec   == IF first /\ ~inRecovery
                 THEN XLogRegisterBuffer(st.blocks, st.firstBlockId + st.bi, tag,
                                         off = UndoLogBlockHeaderSize)
                 ELSE st.blocks
        next  == [st EXCEPT !.undo[tag[1]] = cells, !.blocks = rec,
                            !.last = st.bi,
                            !.insert = NextInsert(st.insert, n),
                            !.bi = IF off + n = BLCKSZ THEN @ + 1 ELSE @]
    IN AppendBytes(next, Rest(data, n + 1), inRecovery)

(***************************************************************************)
(* UndoPrepareToMarkClosed: pin the one or two buffers of every chunk     *)
(* header, reusing a buffer already held (find_or_read_buffer).           *)
(***************************************************************************)
(* Mutant: a newly read buffer's index is the count after the append.    *)
FindOrReadBufferPreIncrement(bufs, tag) ==
  IF \E i \in DOMAIN bufs : bufs[i] = tag
  THEN [bufs |-> bufs,
        idx  |-> (CHOOSE i \in DOMAIN bufs :
                    bufs[i] = tag /\ \A j \in 1..(i - 1) : bufs[j] # tag) - 1]
  ELSE [bufs |-> Append(bufs, tag), idx |-> Len(bufs) + 1]

FindOrReadBuffer(bufs, tag) ==
  IF \E i \in DOMAIN bufs : bufs[i] = tag
  THEN [bufs |-> bufs,
        idx  |-> (CHOOSE i \in DOMAIN bufs :
                    bufs[i] = tag /\ \A j \in 1..(i - 1) : bufs[j] # tag) - 1]
  ELSE [bufs |-> Append(bufs, tag), idx |-> Len(bufs)]

HeaderStraddles(hdr) == PageOffset(hdr) > BLCKSZ - SizeofUndoLogOffset

PrepareChunk(u, i) ==
  LET c  == u.chunks[i]
      r0 == FindOrReadBuffer(u.buffers, <<c.slot, BlockNum(c.hdr)>>)
      r1 == IF HeaderStraddles(c.hdr)
            THEN FindOrReadBuffer(r0.bufs, <<c.slot, BlockNum(c.hdr) + 1>>)
            ELSE [bufs |-> r0.bufs, idx |-> NoBuffer]
  IN [u EXCEPT !.buffers = r1.bufs, !.chunks[i].bidx = <<r0.idx, r1.idx>>]

RECURSIVE PrepareChunks(_, _)
PrepareChunks(u, i) ==
  IF i > Len(u.chunks) THEN u ELSE PrepareChunks(PrepareChunk(u, i), i + 1)

(***************************************************************************)
(* UndoMarkClosed: write each chunk's final size into its header, as many *)
(* bytes as fit on the header's page and the rest on the next page, and   *)
(* attach an update opcode for each page written.                          *)
(***************************************************************************)
(* Mutant: the size leaves out the chunk header itself.                   *)
ChunkSizeWithoutHeader(u, c) ==
  meta[c.slot].insert - c.hdr - UndoRecordSetChunkHeaderSize

ChunkSize(u, c) == meta[c.slot].insert - c.hdr

(* A shared-buffer handle for a page: what XLogRegisterBuffer is given as *)
(* a block id on the spill path.                                           *)
BufferHandle(tag) == tag[1] * (UndoLogMaxSize \div BLCKSZ) + tag[2] + 1

WriteCells(cells, at, bytes) ==
  [o \in DOMAIN cells |->
     IF at <= o /\ o < at + Len(bytes) THEN bytes[o - at + 1] ELSE cells[o]]

PageCells(cells, at, n) == [i \in 1..n |-> cells[at + i - 1]]

CloseChunk(st, u, c) ==
  LET bytes == EncodeLE(ChunkSize(u, c), SizeofUndoLogOffset)
      hoff  == PageOffset(c.hdr)
      k     == MinOf(BLCKSZ - hoff, SizeofUndoLogOffset)
      tag0  == u.buffers[c.bidx[1] + 1]
      id0   == FirstBlockId + c.bidx[1]
      undo0 == [st.undo EXCEPT ![tag0[1]] =
                  WriteCells(@, tag0[2] * BLCKSZ + hoff, SubSeq(bytes, 1, k))]
      rec0  == XLogRegisterBufData(
                 XLogRegisterBuffer(st.blocks, id0, tag0, FALSE), id0,
                 write_update_ops_header(hoff, k) \o SubSeq(bytes, 1, k))
      tag1  == u.buffers[c.bidx[2] + 1]
      id1   == FirstBlockId + c.bidx[2]
      undo1 == [undo0 EXCEPT ![tag1[1]] =
                  WriteCells(@, tag1[2] * BLCKSZ,
                             SubSeq(bytes, k + 1, SizeofUndoLogOffset))]
      reg1  == XLogRegisterBuffer(rec0, FirstBlockId + BufferHandle(tag1),
                                  tag1, FALSE)
      rec1  == XLogRegisterBufData(reg1, id1,
                 write_update_ops_header(hoff, k)
                   \o PageCells(undo1[tag1[1]], tag1[2] * BLCKSZ + hoff, k))
  IN IF k < SizeofUndoLogOffset
     THEN [undo |-> undo1, blocks |-> rec1, err |-> st.err \/ ~Registered(reg1, id1)]
     ELSE [undo |-> undo0, blocks |-> rec0, err |-> st.err]

RECURSIVE CloseChunks(_, _, _)
CloseChunks(st, u, i) ==
  IF i > Len(u.chunks) THEN st
  ELSE CloseChunks(CloseChunk(st, u, u.chunks[i]), u, i + 1)

(***************************************************************************)
(* UndoRelease: UndoLogPut every chunk's log.                              *)
(***************************************************************************)
(* Mutant: the loop over the chunks stops one short.                      *)
ReleaseLogsButLast(m, chunks) ==
  [l \in DOMAIN m |->
     IF \E i \in 1..(Len(chunks) - 1) : chunks[i].slot = l THEN UndoLogPut(m, l)[l]
     ELSE m[l]]

(* Mutant: an open record set is freed like a closed one.                 *)
ReleaseFreesAlways(u) == TRUE

ReleaseLogs(m, chunks) ==
  [l \in DOMAIN m |->
     IF \E i \in 1..Len(chunks) : chunks[i].slot = l THEN UndoLogPut(m, l)[l]
     ELSE m[l]]

ReleaseFrees(u) == u.closed

(***************************************************************************)
(* The specification                                                       *)
(***************************************************************************)
Init ==
  /\ meta = [l \in Logs |-> [insert |-> UndoLogBlockHeaderSize, end |-> 0,
                             full |-> FALSE, free |-> TRUE]]
  /\ undo = [l \in Logs |-> [o \in 0..(UndoLogMaxSize - 1) |-> 0]]
  /\ urs = [p \in Procs |-> NoURS]
  /\ caller = [p \in Procs |-> [alloc |-> 0, ptr |-> <<0, 0>>, nrec |-> 0,
                                prepared |-> FALSE, sets |-> 0]]
  /\ walRec = [p \in Procs |-> NoRecord]
  /\ wal = <<>>
  /\ procState = [p \in Procs |-> "running"]
  /\ records = [p \in Procs |-> <<>>]
  /\ headers = {}

Live(p) == procState[p] = "running" /\ urs[p] # NoURS

(* UndoCreate: a new, open record set with a type header pending.          *)
UndoCreate(p, type) ==
  /\ procState[p] = "running" /\ urs[p] = NoURS
  /\ caller[p].sets < MaxRecordSets
  /\ urs' = [urs EXCEPT ![p] =
               [type |-> type, chunks |-> <<>>, buffers |-> <<>>,
                previous_chunk |-> InvalidUndoRecPtr,
                needChunkHdr |-> FALSE, needTypeHdr |-> TRUE,
                slot |-> NoSlot, closed |-> FALSE, recentEnd |-> 0]]
  /\ caller' = [caller EXCEPT ![p].sets = @ + 1]
  /\ UNCHANGED <<meta, undo, walRec, wal, procState, records, headers>>

(* UndoAllocate: reserve space, pin the region, zero a fresh first page,  *)
(* then lock every pinned buffer.  Locking a buffer the backend already   *)
(* holds exclusively never returns: the backend hangs.                     *)
UndoAllocate(p, d) ==
  /\ Live(p) /\ ~urs[p].closed
  /\ caller[p].alloc = 0 /\ walRec[p] = NoRecord /\ urs[p].buffers = <<>>
  /\ caller[p].nrec < MaxInserts
  /\ \E r \in ReserveOutcomes(urs[p], meta, d) :
       LET l    == r.begin[1]
           off  == PageOffset(r.begin[2])
           blk  == BlockNum(r.begin[2])
           pins == PinLoop(<<l, blk>>, off,
                           d + ChunkHeaderNeed(r.u) + TypeHeaderNeed(r.u))
       IN /\ urs' = [urs EXCEPT ![p] = [r.u EXCEPT !.buffers = pins]]
          /\ meta' = r.m
          /\ undo' = IF off = UndoLogBlockHeaderSize
                     THEN [undo EXCEPT ![l] = PageInitCells(@, blk)]
                     ELSE undo
          /\ procState' = [procState EXCEPT ![p] =
                             IF HasDuplicate(pins) THEN "hung" ELSE "running"]
          /\ caller' = [caller EXCEPT ![p].alloc = d,
                                      ![p].ptr = AllocatedDataPtr(r.begin, r.u)]
  /\ UNCHANGED <<walRec, wal, records, headers>>

(* Attach an insert opcode for header bytes to the first block.            *)
WithInsertOp(st, bytes) ==
  [st EXCEPT !.blocks = XLogRegisterBufData(@, FirstBlockId, InsertOp(bytes))]

(* UndoInsert: chunk header, type header and data through append_bytes,   *)
(* then the shared insert pointer advances and the header flags clear.    *)
UndoInsert(p) ==
  /\ procState[p] = "running" /\ caller[p].alloc > 0
  /\ LET u    == urs[p]
         k    == caller[p].nrec + 1
         at   == meta[u.slot].insert
         chdr == ChunkHeaderBytes(0, u.previous_chunk, u.type)
         thdr == urst_header(u.type)
         st0  == [undo |-> undo, buffers |-> u.buffers, bi |-> 0, last |-> -1,
                  insert |-> at, blocks |-> walRec[p],
                  firstBlockId |-> FirstBlockId]
         st1  == IF u.needChunkHdr
                 THEN WithInsertOp(AppendBytes(st0, chdr, FALSE), chdr)
                 ELSE st0
         st2  == IF u.needTypeHdr
                 THEN WithInsertOp(AppendBytes(st1, thdr, FALSE), thdr)
                 ELSE st1
         st3  == AppendBytes(st2, [i \in 1..caller[p].alloc |-> DataByte(p, k)],
                             FALSE)
     IN /\ undo' = st3.undo
        /\ walRec' = [walRec EXCEPT ![p] = st3.blocks]
        /\ meta' = [meta EXCEPT ![u.slot].insert = st3.insert]
        /\ urs' = [urs EXCEPT ![p].needChunkHdr = FALSE,
                              ![p].needTypeHdr = FALSE]
        /\ records' = [records EXCEPT ![p] =
                         Append(@, [ptr |-> caller[p].ptr, byte |-> DataByte(p, k),
                                    len |-> caller[p].alloc])]
        /\ headers' = IF u.needChunkHdr THEN headers \cup {<<u.slot, at>>}
                      ELSE headers
  /\ caller' = [caller EXCEPT ![p].alloc = 0, ![p].nrec = @ + 1]
  /\ UNCHANGED <<wal, procState>>

(* UndoPrepareToMarkClosed, before the WAL record is begun: either just   *)
(* after UndoAllocate or with no buffers held.                             *)
UndoPrepareToMarkClosed(p) ==
  /\ Live(p) /\ ~urs[p].closed /\ ~caller[p].prepared
  /\ walRec[p] = NoRecord
  /\ caller[p].alloc > 0 \/ urs[p].buffers = <<>>
  /\ PrepareEarly \/ urs[p].chunks # <<>>
  /\ urs' = [urs EXCEPT ![p] = PrepareChunks(@, 1)]
  /\ caller' = [caller EXCEPT ![p].prepared = TRUE]
  /\ UNCHANGED <<meta, undo, walRec, wal, procState, records, headers>>

(* A chunk started after UndoPrepareToMarkClosed still has index -1, and *)
(* UndoMarkClosed reads urs->buffers[-1]: the word before the array, not  *)
(* a buffer of this set.  Whether the page pointer it yields faults or     *)
(* XLogRegisterBuffer then rejects block id first_block_id - 1 inside the *)
(* caller's critical section, the backend dies before the set is closed.  *)
(* So does a spill whose data goes to a block id it did not register.     *)
UndoMarkClosed(p) ==
  /\ Live(p) /\ ~urs[p].closed /\ caller[p].prepared /\ caller[p].alloc = 0
  /\ LET st == CloseChunks([undo |-> undo, blocks |-> walRec[p], err |-> FALSE],
                           urs[p], 1)
     IN IF \/ \E i \in DOMAIN urs[p].chunks : urs[p].chunks[i].bidx[1] = NoBuffer
           \/ st.err
        THEN /\ procState' = [procState EXCEPT ![p] = "crashed"]
             /\ UNCHANGED <<undo, walRec, urs>>
        ELSE /\ undo' = st.undo
             /\ walRec' = [walRec EXCEPT ![p] = st.blocks]
             /\ urs' = [urs EXCEPT ![p].closed = TRUE]
             /\ UNCHANGED procState
  /\ UNCHANGED <<meta, caller, wal, records, headers>>

(* The caller's XLogInsert followed by UndoPageSetLSN: the record is      *)
(* committed and every held page is stamped with its LSN.                  *)
UndoPageSetLSN(p) ==
  /\ Live(p) /\ walRec[p] # NoRecord /\ caller[p].alloc = 0
  /\ LET lsn  == Len(wal) + 1
         bufs == urs[p].buffers
     IN /\ wal' = Append(wal, [proc |-> p, lsn |-> lsn, blocks |-> walRec[p]])
        /\ undo' = [l \in Logs |->
                      [o \in DOMAIN undo[l] |->
                         IF /\ PageOffset(o) = PdLsnOffset
                            /\ \E i \in DOMAIN bufs : bufs[i] = <<l, BlockNum(o)>>
                         THEN lsn ELSE undo[l][o]]]
  /\ walRec' = [walRec EXCEPT ![p] = NoRecord]
  /\ UNCHANGED <<meta, urs, caller, procState, records, headers>>

(* UndoRelease: drop every buffer; a closed set also returns its logs and *)
(* leaves the list of live record sets.                                    *)
UndoRelease(p) ==
  /\ Live(p) /\ walRec[p] = NoRecord /\ caller[p].alloc = 0
  /\ IF ReleaseFrees(urs[p])
     THEN /\ meta' = ReleaseLogs(meta, urs[p].chunks)
          /\ urs' = [urs EXCEPT ![p] = NoURS]
     ELSE /\ urs' = [urs EXCEPT ![p].buffers = <<>>]
          /\ UNCHANGED meta
  /\ caller' = [caller EXCEPT ![p].prepared = FALSE]
  /\ UNCHANGED <<undo, walRec, wal, procState, records, headers>>

(* AtProcExit_UndoRecordSet: a record set still listed at exit PANICs.     *)
AtProcExit(p) ==
  /\ procState[p] = "running" /\ walRec[p] = NoRecord /\ caller[p].alloc = 0
  /\ IF urs[p] = NoURS THEN TRUE ELSE urs[p].buffers = <<>>
  /\ procState' = [procState EXCEPT ![p] =
                     IF urs[p] # NoURS THEN "panicked" ELSE "exited"]
  /\ UNCHANGED <<meta, undo, urs, caller, walRec, wal, records, headers>>

(* Another backend discarding advances the physical end of a log in use  *)
(* by a page.                                                              *)
DiscardAdvancesEnd(l) ==
  /\ ~meta[l].free
  /\ meta[l].end + BLCKSZ <= UndoLogMaxSize
  /\ meta' = [meta EXCEPT ![l].end = @ + BLCKSZ]
  /\ UNCHANGED <<undo, urs, caller, walRec, wal, procState, records, headers>>

Next ==
  \/ \E p \in Procs :
       \/ \E t \in Types : UndoCreate(p, t)
       \/ \E d \in DataSizes : UndoAllocate(p, d)
       \/ UndoInsert(p)
       \/ UndoPrepareToMarkClosed(p)
       \/ UndoMarkClosed(p)
       \/ UndoPageSetLSN(p)
       \/ UndoRelease(p)
       \/ AtProcExit(p)
  \/ \E l \in Logs : DiscardAdvancesEnd(l)

Spec == Init /\ [][Next]_vars

(***************************************************************************)
(* Properties                                                              *)
(***************************************************************************)
Tags == Logs \X (0..(UndoLogMaxSize \div BLCKSZ))

(* struct UndoRecordSetChunk: the chunk's log, its header's offset and the *)
(* indices in the buffer array of the header's page(s), -1 until a prepare *)
(* resolves them.  chunk_header_ops is kept in the WAL record (walRec).   *)
UndoRecordSetChunk ==
  LET BufferIndex == {NoBuffer} \cup 0..(Cardinality(Tags) - 1)
  IN [slot : Logs, hdr : 0..UndoLogMaxSize, bidx : BufferIndex \X BufferIndex]

(* struct UndoRecordSet: the fields the operations read and write.  The   *)
(* persistence, the array capacities, the pending header bytes and the    *)
(* list link have no counterpart; previous_chunk is an UndoRecPtr.        *)
UndoRecordSetStruct ==
  [type : Types, chunks : Seq(UndoRecordSetChunk), buffers : Seq(Tags),
   previous_chunk : {InvalidUndoRecPtr} \cup
                    {MakeUndoRecPtr(l, o) : l \in Logs, o \in 0..UndoLogMaxSize},
   needChunkHdr : BOOLEAN, needTypeHdr : BOOLEAN, slot : {NoSlot} \cup Logs,
   closed : BOOLEAN, recentEnd : 0..UndoLogMaxSize]

TypeOK ==
  /\ \A l \in Logs :
       /\ meta[l].insert \in UndoLogBlockHeaderSize..UndoLogMaxSize
       /\ meta[l].end \in 0..UndoLogMaxSize
       /\ meta[l].full \in BOOLEAN /\ meta[l].free \in BOOLEAN
  /\ \A p \in Procs :
       /\ procState[p] \in {"running", "hung", "exited", "panicked", "crashed"}
       /\ caller[p].alloc \in {0} \cup DataSizes
       /\ urs[p] \in {NoURS} \cup UndoRecordSetStruct
  /\ headers \subseteq Logs \X (0..UndoLogMaxSize)

(* The cells of a log read back from the usable run starting at off.      *)
ReadUsable(l, off, n) == [i \in 1..n |-> undo[l][UsableRun(off, n)[i]]]

(* The refinement mapping to UndoSpace: every record a backend inserted,  *)
(* at the usable cells from its pointer, with the bytes those cells hold   *)
(* now and the bytes the caller gave.                                      *)
SpaceOf ==
  {[log   |-> r.ptr[1],
    cells |-> UsableRun(r.ptr[2], r.len),
    data  |-> ReadUsable(r.ptr[1], r.ptr[2], r.len),
    given |-> [i \in 1..r.len |-> r.byte]] :
     r \in UNION {{records[p][j] : j \in DOMAIN records[p]} : p \in Procs}}

Space == INSTANCE UndoSpace WITH space <- SpaceOf

RecordsAtTheirPointers ==
  \A p \in Procs : \A j \in DOMAIN records[p] :
    LET r == records[p][j]
    IN ReadUsable(r.ptr[1], r.ptr[2], r.len) = [i \in 1..r.len |-> r.byte]

(* Every chunk header a live record set wrote reads back with its type,   *)
(* and with size 0 until UndoMarkClosed, after which the size is the      *)
(* distance from the header to its log's insert point (spec section 8).   *)
ChunkHeadersCorrect ==
  \A p \in Procs : urs[p] # NoURS =>
    \A i \in DOMAIN urs[p].chunks :
      LET c     == urs[p].chunks[i]
          cells == ReadUsable(c.slot, c.hdr, UndoRecordSetChunkHeaderSize)
      IN <<c.slot, c.hdr>> \in headers =>
           /\ DecodeLE(SubSeq(cells, 1, SizeofUndoLogOffset)) =
                IF urs[p].closed THEN meta[c.slot].insert - c.hdr ELSE 0
           /\ cells[SizeofUndoLogOffset + 2] = urs[p].type

(* Between UndoPrepareToMarkClosed and UndoMarkClosed, every chunk's      *)
(* chunk_header_buffer_index names a buffer the set still holds, and that  *)
(* buffer is the page of the chunk's header (and, for a header straddling *)
(* a page, the next page): no allocation, insertion or new chunk in        *)
(* between leaves an index stale or unset.                                 *)
PreparedIndicesValid ==
  \A p \in Procs : Live(p) /\ caller[p].prepared /\ ~urs[p].closed =>
    \A i \in DOMAIN urs[p].chunks :
      LET c    == urs[p].chunks[i]
          bufs == urs[p].buffers
          Names(k, blk) == k + 1 \in DOMAIN bufs /\ bufs[k + 1] = <<c.slot, blk>>
      IN /\ Names(c.bidx[1], BlockNum(c.hdr))
         /\ HeaderStraddles(c.hdr) => Names(c.bidx[2], BlockNum(c.hdr) + 1)

(* Every buffer a backend holds lies inside its log's physical range,     *)
(* whether reserve_physical_undo took the fast path on a cached            *)
(* recent_end, re-read end after a concurrent discard, or extended the    *)
(* log, and whichever log the record set has moved on to.                  *)
PhysicalRangeRespected ==
  \A p \in Procs : urs[p] # NoURS =>
    \A i \in DOMAIN urs[p].buffers :
      urs[p].buffers[i][2] * BLCKSZ < meta[urs[p].buffers[i][1]].end

(* A log belongs to at most one listed record set; a log on the free list *)
(* belongs to none; and a log that is neither free nor full always        *)
(* belongs to one, so UndoRelease never loses a log.                       *)
NoLogLeak ==
  \A l \in Logs :
    LET owners == {p \in Procs : urs[p] # NoURS /\
                     \E i \in DOMAIN urs[p].chunks : urs[p].chunks[i].slot = l}
    IN /\ Cardinality(owners) <= 1
       /\ meta[l].free => owners = {}
       /\ ~meta[l].free /\ ~meta[l].full => owners # {}

(* A log goes back on the free list only after every chunk header on it   *)
(* carries its final, non-zero size: UndoRelease of an unclosed set keeps *)
(* its logs.                                                               *)
ClosedBeforeReuse ==
  \A h \in headers :
    meta[h[1]].free =>
      DecodeLE(ReadUsable(h[1], h[2], SizeofUndoLogOffset)) > 0

(* Spec 4.4: the region UndoAllocate returns is pinned, page by page.     *)
PinsCoverRegion ==
  \A p \in Procs : caller[p].alloc > 0 =>
    \A i \in 1..caller[p].alloc :
      LET o == UsableRun(caller[p].ptr[2], caller[p].alloc)[i]
      IN \E j \in DOMAIN urs[p].buffers :
           urs[p].buffers[j] = <<caller[p].ptr[1], BlockNum(o)>>

(* Spec 3: each chunk but the first stores the UndoRecPtr of its          *)
(* predecessor's header.                                                   *)
ChunkChainLinked ==
  \A p \in Procs : urs[p] # NoURS =>
    \A i \in 2..Len(urs[p].chunks) :
      LET c    == urs[p].chunks[i]
          prev == urs[p].chunks[i - 1]
      IN <<c.slot, c.hdr>> \in headers =>
           ReadUsable(c.slot, c.hdr, UndoRecordSetChunkHeaderSize)
             [SizeofUndoLogOffset + 1] = MakeUndoRecPtr(prev.slot, prev.hdr)

=============================================================================
