---------------------------- MODULE UndoRecovery ----------------------------
(***************************************************************************)
(* Crash recovery of undo record sets.  The forward path of UndoRecordSet *)
(* runs against a buffer pool (undo) that is flushed page by page to disk *)
(* and by online checkpoints.  XLogInsert takes a full-page image of a    *)
(* registered page last changed before the checkpoint's redo pointer,     *)
(* unless the page was registered WILL_INIT.  A crash reloads the pages   *)
(* and the undo log metadata of the last completed checkpoint, and replay *)
(* then runs every WAL record from the redo pointer through              *)
(* UndoInsertInRecovery and UndoUpdateInRecovery.                          *)
(***************************************************************************)
EXTENDS UndoRecordSet, SequencesExt

CONSTANTS
  MaxCheckpoints,  \* checkpoints before the crash (bound)
  CloseWithInsert, \* whether a caller may close a set in the WAL record
                   \* of its last insert
  FullPageWrites,  \* the full_page_writes setting
  MaxDiscards      \* undo pages discard removes before the crash (bound)

NoImage == [has |-> FALSE, cells |-> <<>>]
NoData  == [none |-> TRUE]

VARIABLES
  disk,       \* disk[l][o]: cell o of log l as last written to disk
  redoPtr,    \* RedoRecPtr: the LSN at which the running checkpoint began
  ckptBusy,   \* a checkpoint has begun and not yet completed
  ckpt,       \* the last completed checkpoint: redo LSN and log metadata
  nCkpt,      \* checkpoints begun
  fpi,        \* fpi[i][b]: the page image record i carries for block b
  main,       \* main[i]: the caller's record inserted by record i, or NoData
  pending,    \* pending[p]: the record inserted into p's open WAL record
  committed,  \* records whose WAL record was inserted
  closing,    \* closing[p]: <<log, header, size>> for each chunk size p's
              \* open WAL record patches
  sizes,      \* the chunk sizes whose WAL record was inserted
  phase,      \* "normal", "replay", "done" or "failed"
  nextRec,    \* the LSN of the next record to replay
  gone,       \* undo pages whose file discard removed and replay has not
              \* created again
  discarded   \* every undo page discard removed

recVars == <<disk, redoPtr, ckptBusy, ckpt, nCkpt, fpi, main, pending,
             committed, closing, sizes, phase, nextRec, gone, discarded>>
allVars == <<vars, recVars>>

RInit ==
  /\ Init
  /\ disk = undo
  /\ redoPtr = 0
  /\ ckptBusy = FALSE
  /\ ckpt = [redo |-> 1, meta |-> meta]
  /\ nCkpt = 0
  /\ fpi = <<>> /\ main = <<>>
  /\ pending = [p \in Procs |-> NoData]
  /\ committed = {}
  /\ closing = [p \in Procs |-> {}]
  /\ sizes = {}
  /\ phase = "normal"
  /\ nextRec = 1
  /\ gone = {} /\ discarded = {}

PageBase(tag) == tag[2] * BLCKSZ
PageImage(cells, tag) == [o \in 0..(BLCKSZ - 1) |-> cells[PageBase(tag) + o]]
PageLSN(cells, tag) == cells[PageBase(tag) + PdLsnOffset]

(* A page is locked while a backend holds its buffer.                     *)
Locked(l, b) == \E p \in Procs : urs[p] # NoURS /\
                  \E i \in DOMAIN urs[p].buffers : urs[p].buffers[i] = <<l, b>>

(***************************************************************************)
(* The forward path.  XLogInsert (folded into UndoPageSetLSN) decides a   *)
(* full-page image per registered block: a block registered WILL_INIT     *)
(* never has one; any other has one if its page LSN is at or below the    *)
(* redo pointer, and none at all with full_page_writes off.               *)
(***************************************************************************)
(* Mutant: an image only for a page changed strictly before the redo     *)
(* pointer.                                                                *)
FullPageImagesBeforeRedo(rec) ==
  [b \in DOMAIN rec |->
     IF FullPageWrites /\ ~rec[b].willInit
        /\ PageLSN(undo[rec[b].tag[1]], rec[b].tag) < redoPtr
     THEN [has |-> TRUE, cells |-> PageImage(undo[rec[b].tag[1]], rec[b].tag)]
     ELSE NoImage]

FullPageImages(rec) ==
  [b \in DOMAIN rec |->
     IF FullPageWrites /\ ~rec[b].willInit
        /\ PageLSN(undo[rec[b].tag[1]], rec[b].tag) <= redoPtr
     THEN [has |-> TRUE, cells |-> PageImage(undo[rec[b].tag[1]], rec[b].tag)]
     ELSE NoImage]

RUndoInsert(p) ==
  /\ phase = "normal"
  /\ UndoInsert(p)
  /\ pending' = [pending EXCEPT ![p] = Last(records'[p])]
  /\ UNCHANGED <<disk, redoPtr, ckptBusy, ckpt, nCkpt, fpi, main, committed,
                 closing, sizes, phase, nextRec,
                 gone, discarded>>

RUndoMarkClosed(p) ==
  /\ phase = "normal"
  /\ CloseWithInsert \/ pending[p] = NoData
  /\ UndoMarkClosed(p)
  /\ closing' = [closing EXCEPT ![p] =
                   {<<c.slot, c.hdr, ChunkSize(urs[p], c)>> : c \in Range(urs[p].chunks)}]
  /\ UNCHANGED <<disk, redoPtr, ckptBusy, ckpt, nCkpt, fpi, main, pending,
                 committed, sizes, phase, nextRec,
                 gone, discarded>>

RXLogInsert(p) ==
  /\ phase = "normal"
  /\ UndoPageSetLSN(p)
  /\ fpi' = Append(fpi, FullPageImages(walRec[p]))
  /\ main' = Append(main, pending[p])
  /\ committed' = IF pending[p] = NoData THEN committed
                  ELSE committed \cup {pending[p]}
  /\ pending' = [pending EXCEPT ![p] = NoData]
  /\ sizes' = sizes \cup closing[p]
  /\ closing' = [closing EXCEPT ![p] = {}]
  /\ UNCHANGED <<disk, redoPtr, ckptBusy, ckpt, nCkpt, phase, nextRec, gone,
                 discarded>>

(* The forward actions that neither insert, close nor log.                *)
ROther ==
  /\ phase = "normal"
  /\ \/ \E p \in Procs :
          \/ \E t \in Types : UndoCreate(p, t)
          \/ \E d \in DataSizes : UndoAllocate(p, d)
          \/ UndoPrepareToMarkClosed(p)
          \/ UndoRelease(p)
          \/ AtProcExit(p)
     \/ \E l \in Logs : DiscardAdvancesEnd(l)
  /\ UNCHANGED recVars

(***************************************************************************)
(* The buffer pool and checkpoints (bufmgr.c, xlog.c, undolog.c).         *)
(***************************************************************************)
(* The background writer writes an unlocked page.                         *)
FlushPage(l, b) ==
  /\ phase = "normal" /\ ~Locked(l, b) /\ <<l, b>> \notin gone
  /\ PageImage(disk[l], <<l, b>>) # PageImage(undo[l], <<l, b>>)
  /\ disk' = [disk EXCEPT ![l] =
                [o \in DOMAIN @ |-> IF BlockNum(o) = b THEN undo[l][o] ELSE @[o]]]
  /\ UNCHANGED <<vars, redoPtr, ckptBusy, ckpt, nCkpt, fpi, main, pending,
                 committed, closing, sizes, phase, nextRec,
                 gone, discarded>>

CheckpointBegin ==
  /\ phase = "normal" /\ ~ckptBusy /\ nCkpt < MaxCheckpoints
  /\ redoPtr' = Len(wal) + 1
  /\ ckptBusy' = TRUE
  /\ nCkpt' = nCkpt + 1
  /\ UNCHANGED <<vars, disk, ckpt, fpi, main, pending, committed, closing,
                 sizes, phase, nextRec,
                 gone, discarded>>

(* The checkpoint writes every page, waiting for content locks, and saves *)
(* the undo log metadata as it is now: possibly past the redo pointer.    *)
CheckpointEnd ==
  /\ phase = "normal" /\ ckptBusy
  /\ \A l \in Logs, b \in 0..(UndoLogMaxSize \div BLCKSZ - 1) : ~Locked(l, b)
  /\ disk' = undo
  /\ ckpt' = [redo |-> redoPtr, meta |-> meta]
  /\ ckptBusy' = FALSE
  /\ UNCHANGED <<vars, redoPtr, nCkpt, fpi, main, pending, committed, closing,
                 sizes, phase, nextRec,
                 gone, discarded>>

(* UndoLogDiscard, once no record set still listed has a chunk on a page *)
(* wholly below the log's insert point, unlinks the page's segment file   *)
(* (one page per segment here) and drops its buffer; the discard point    *)
(* only advances, so pages go in order.                                    *)
DiscardPage(l, b) ==
  /\ phase = "normal" /\ Cardinality(discarded) < MaxDiscards
  /\ <<l, b>> \notin discarded
  /\ \A c \in 0..(b - 1) : <<l, c>> \in discarded
  /\ (b + 1) * BLCKSZ <= meta[l].insert
  /\ ~\E p \in Procs : urs[p] # NoURS /\
        \E i \in DOMAIN urs[p].chunks :
          urs[p].chunks[i].slot = l /\ urs[p].chunks[i].hdr < (b + 1) * BLCKSZ
  /\ gone' = gone \cup {<<l, b>>}
  /\ discarded' = discarded \cup {<<l, b>>}
  /\ UNCHANGED <<vars, disk, redoPtr, ckptBusy, ckpt, nCkpt, fpi, main, pending,
                 committed, closing, sizes, phase, nextRec>>

(* A crash loses the buffer pool and shared memory; startup reloads the   *)
(* last checkpoint's undo log metadata and replays from its redo pointer. *)
Crash ==
  /\ phase = "normal"
  /\ undo' = disk
  /\ meta' = ckpt.meta
  /\ phase' = IF ckpt.redo > Len(wal) THEN "done" ELSE "replay"
  /\ nextRec' = ckpt.redo
  /\ UNCHANGED <<urs, caller, walRec, wal, procState, records, headers, disk,
                 redoPtr, ckptBusy, ckpt, nCkpt, fpi, main, pending, committed,
                 closing, sizes, gone, discarded>>

(***************************************************************************)
(* Replay.  A replay state is [undo, meta, fail].                         *)
(***************************************************************************)
SetCells(cells, tag, f) ==
  [o \in DOMAIN cells |->
     IF BlockNum(o) = tag[2] THEN f[PageOffset(o)] ELSE cells[o]]

StampLSN(cells, tag, lsn) ==
  [cells EXCEPT ![PageBase(tag) + PdLsnOffset] = lsn]

(* XLogReadBufferForRedoExtended: restore an image and stamp its LSN;     *)
(* zero a page read with RBM_ZERO_AND_LOCK; both create an absent page.   *)
(* In RBM_NORMAL an absent page is BLK_NOTFOUND; otherwise compare LSNs.  *)
(* A WILL_INIT flag and the read mode must agree, or the startup process  *)
(* PANICs.                                                                 *)
ReadForRedo(cells, tag, image, willInit, zeroMode, lsn, absent) ==
  IF willInit # zeroMode THEN [cells |-> cells, action |-> "panic"]
  ELSE IF image.has
  THEN [cells |-> StampLSN(SetCells(cells, tag, image.cells), tag, lsn),
        action |-> "restored"]
  ELSE IF zeroMode
  THEN [cells |-> SetCells(cells, tag, [o \in 0..(BLCKSZ - 1) |-> 0]),
        action |-> "needs_redo"]
  ELSE IF absent THEN [cells |-> cells, action |-> "notfound"]
  ELSE IF PageLSN(cells, tag) >= lsn THEN [cells |-> cells, action |-> "done"]
  ELSE [cells |-> cells, action |-> "needs_redo"]

BlockIds(i) == SetToSortSeq(DOMAIN wal[i].blocks, <)

(* Mutant: the insert pointer advanced by the caller's data only.         *)
RecoveredInsertDataOnly(insert, headerSize, dataSize) ==
  UndoLogOffsetPlusUsableBytes(insert, dataSize)

(* slot->meta.insert advanced past the replayed headers and data.         *)
RecoveredInsert(insert, headerSize, dataSize) ==
  UndoLogOffsetPlusUsableBytes(insert, headerSize + dataSize)

(* Mutant: every block read in RBM_NORMAL.                                *)
ZeroAndLockNever(blk) == FALSE

(* The read mode for a block: RBM_ZERO_AND_LOCK when it was registered    *)
(* WILL_INIT.                                                              *)
ZeroAndLock(blk) == blk.willInit

(* UndoInsertInRecovery's loop over the registered blocks.  The slot is  *)
(* the first block's log: every later block is asserted to be in it, and  *)
(* it is that slot whose physical range each block extends.  Each block   *)
(* is read (zeroing and PageInit for WILL_INIT), and a first block        *)
(* restored from an image resynchronises the insert pointer from pd_lower. *)
RECURSIVE ReadInsertBlocks(_, _, _)
ReadInsertBlocks(st, i, k) ==
  IF k > Len(BlockIds(i)) THEN st
  ELSE
    LET blk  == wal[i].blocks[BlockIds(i)[k]]
        l    == blk.tag[1]
        slot == wal[i].blocks[BlockIds(i)[1]].tag[1]
        m1   == IF st.meta[slot].end < (blk.tag[2] + 1) * BLCKSZ
                THEN UndoLogAdjustPhysicalRange(st.meta, slot, (blk.tag[2] + 1) * BLCKSZ)
                ELSE st.meta
        r    == ReadForRedo(st.undo[l], blk.tag, fpi[i][BlockIds(i)[k]],
                            blk.willInit, ZeroAndLock(blk), i, blk.tag \in st.gone)
        init == IF ZeroAndLock(blk) THEN PageInitCells(r.cells, blk.tag[2]) ELSE r.cells
        pdl  == init[PageBase(blk.tag) + PdLowerOffset]
        cells == IF k = 1 /\ r.action = "restored" /\ pdl = 0
                 THEN [init EXCEPT ![PageBase(blk.tag) + PdLowerOffset] =
                                     UndoLogBlockHeaderSize]
                 ELSE init
        m2   == IF k = 1 /\ r.action = "restored"
                THEN [m1 EXCEPT ![l].insert = PageBase(blk.tag) +
                        (IF pdl = 0 THEN UndoLogBlockHeaderSize ELSE pdl)]
                ELSE m1
        astray == \/ k = 1 /\ r.action # "restored" /\
                     BlockNum(m1[l].insert) # blk.tag[2]
                  \/ l # slot
    IN ReadInsertBlocks([st EXCEPT !.undo[l] = cells, !.meta = m2,
                                   !.fail = @ \/ r.action = "panic" \/ astray,
                                   !.skip = @ \/ r.action = "notfound",
                                   !.gone = IF r.action \in {"restored", "needs_redo"}
                                            THEN @ \ {blk.tag} ELSE @],
                        i, k + 1)

(* UndoInsertInRecovery: replay the leading insert entries of the first  *)
(* block's data, then the caller's data, but only if that block carries   *)
(* data at all; stamp every block found and advance the insert pointer by *)
(* the headers and the caller's data.  A block not found sets skip, which *)
(* leaves the insert state uninitialised (begin_append is not called) but *)
(* not the header loop: appending through garbage pointers either faults  *)
(* or writes outside these pages.  The set of outcomes.                    *)
InsertInRecovery(st0, i, data) ==
  LET st    == ReadInsertBlocks([st0 EXCEPT !.skip = FALSE], i, 1)
      tags  == [k \in DOMAIN BlockIds(i) |-> wal[i].blocks[BlockIds(i)[k]].tag]
      l     == tags[1][1]
      ops   == wal[i].blocks[BlockIds(i)[1]].data
      ents  == InsertEntries(ops)
      hsize == FoldLeft(LAMBDA acc, e : acc + Len(e), 0, ents.entries)
      total == IF ops = <<>> \/ st.skip THEN 0 ELSE hsize + Len(data)
      ins   == st.meta[l].insert
      over  == total > 0 /\
               BlockNum(UndoLogOffsetPlusUsableBytes(ins, total - 1))
                 - BlockNum(ins) >= Len(tags)
      ast0  == [undo |-> st.undo, buffers |-> tags, bi |-> 0, last |-> -1,
                insert |-> ins, blocks |-> NoRecord, firstBlockId |-> -1]
      ast1  == FoldLeft(LAMBDA acc, e : AppendBytes(acc, e, TRUE), ast0,
                        ents.entries)
      ast2  == IF ops = <<>> THEN ast1 ELSE AppendBytes(ast1, data, TRUE)
      Done(cells) ==
        [st EXCEPT
           !.undo = FoldLeft(LAMBDA u, t : IF t \in st.gone THEN u
                                           ELSE [u EXCEPT ![t[1]] = StampLSN(@, t, i)],
                             cells, tags),
           !.meta[l].insert = RecoveredInsert(ins, IF ops = <<>> THEN 0 ELSE hsize,
                                              Len(data))]
      failed == [st EXCEPT !.fail = TRUE]
  IN IF st.fail \/ ents.corrupt THEN {failed}
     ELSE IF st.skip THEN IF ents.entries = <<>> THEN {Done(st.undo)}
                          ELSE {failed, Done(st.undo)}
     ELSE IF over THEN {failed}
     ELSE {Done(ast2.undo)}

(* UndoUpdateInRecovery: read every block in normal mode and, where redo  *)
(* is needed, apply its update entries and stamp the page.  A block not   *)
(* found leaves InvalidBuffer, which LockBuffer and ReleaseBuffer reject.  *)
RECURSIVE UpdateInRecovery(_, _, _)
UpdateInRecovery(st, i, k) ==
  IF k > Len(BlockIds(i)) THEN st
  ELSE
    LET blk  == wal[i].blocks[BlockIds(i)[k]]
        l    == blk.tag[1]
        r    == ReadForRedo(st.undo[l], blk.tag, fpi[i][BlockIds(i)[k]],
                            blk.willInit, FALSE, i, blk.tag \in st.gone)
        upd  == UpdateEntries(blk.data)
        applied == FoldLeft(LAMBDA c, e : WriteCells(c, PageBase(blk.tag) + e.offset,
                                                     e.bytes),
                            r.cells, upd.entries)
        cells == IF r.action = "needs_redo" THEN StampLSN(applied, blk.tag, i)
                 ELSE r.cells
        bad  == \/ r.action \in {"panic", "notfound"}
                \/ r.action = "needs_redo" /\ upd.corrupt
    IN UpdateInRecovery([st EXCEPT !.undo[l] = cells, !.fail = @ \/ bad,
                                   !.gone = IF r.action = "restored"
                                            THEN @ \ {blk.tag} ELSE @],
                        i, k + 1)

(* The record closes a set when some block carries an update entry.      *)
Closes(i) == \E b \in DOMAIN wal[i].blocks : UpdateEntries(wal[i].blocks[b].data).entries # <<>>

(* The caller's redo routine for record i: the undo insertion it carries *)
(* and the chunk-size updates it carries; each gives its set of outcomes. *)
InsertStep(st, i) ==
  IF main[i] = NoData THEN {st}
  ELSE InsertInRecovery(st, i, [k \in 1..main[i].len |-> main[i].byte])

UpdateStep(st, i) == IF Closes(i) THEN {UpdateInRecovery(st, i, 1)} ELSE {st}

(* The part of record i's redo that the caller's redo routine runs.      *)
RedoPart(st, i, part) ==
  IF part = "insert" THEN InsertStep(st, i) ELSE UpdateStep(st, i)

(* Replay of record nextRec: its insertion and its updates, in the order  *)
(* the caller's redo routine chooses.                                      *)
Replay ==
  /\ phase = "replay"
  /\ \E order \in {<<"insert", "update">>, <<"update", "insert">>} :
     \E st \in FoldLeft(LAMBDA acc, part :
                          UNION {RedoPart(a, nextRec, part) : a \in acc},
                        {[undo |-> undo, meta |-> meta, fail |-> FALSE,
                          gone |-> gone, skip |-> FALSE]}, order) :
       /\ undo' = st.undo
       /\ meta' = st.meta
       /\ gone' = st.gone
       /\ phase' = IF st.fail THEN "failed"
                   ELSE IF nextRec = Len(wal) THEN "done" ELSE "replay"
       /\ nextRec' = nextRec + 1
  /\ UNCHANGED <<urs, caller, walRec, wal, procState, records, headers, disk,
                 redoPtr, ckptBusy, ckpt, nCkpt, fpi, main, pending, committed,
                 closing, sizes, discarded>>

RNext ==
  \/ \E p \in Procs : RUndoInsert(p) \/ RUndoMarkClosed(p) \/ RXLogInsert(p)
  \/ ROther
  \/ \E l \in Logs, b \in 0..(UndoLogMaxSize \div BLCKSZ - 1) : FlushPage(l, b)
  \/ \E l \in Logs, b \in 0..(UndoLogMaxSize \div BLCKSZ - 1) : DiscardPage(l, b)
  \/ CheckpointBegin \/ CheckpointEnd \/ Crash
  \/ Replay

(* The startup process replays WAL to its end without waiting for anyone: *)
(* weak fairness of Replay.  Replay is enabled exactly when phase is      *)
(* "replay", and in that phase its steps are exactly the steps that       *)
(* advance nextRec, so the fairness is stated on that form, whose         *)
(* enabledness TLC decides without evaluating the replay itself.          *)
ReplayAdvances == phase = "replay" /\ nextRec' = nextRec + 1

RSpec == RInit /\ [][RNext]_allVars /\ WF_nextRec(ReplayAdvances)

(***************************************************************************)
(* Properties                                                              *)
(***************************************************************************)
(* The n usable cells from off in log l lie on pages discard never removed. *)
Kept(l, off, n) == \A o \in Range(UsableRun(off, n)) : <<l, BlockNum(o)>> \notin discarded

(* Once replay has finished, every record whose WAL record was inserted   *)
(* before the crash, and whose pages were not discarded, reads back,       *)
(* intact, at the pointer UndoAllocate gave.                               *)
RecordsRecovered ==
  phase = "done" =>
    \A r \in committed : Kept(r.ptr[1], r.ptr[2], r.len) =>
      ReadUsable(r.ptr[1], r.ptr[2], r.len) = [i \in 1..r.len |-> r.byte]

(* Once replay has finished, each log's insert pointer is at or past the  *)
(* end of every committed record on it, discarded or not, so the next    *)
(* UndoAllocate cannot hand out space over committed undo.                 *)
InsertPointerCoversCommitted ==
  phase = "done" =>
    \A r \in committed :
      meta[r.ptr[1]].insert >= UndoLogOffsetPlusUsableBytes(r.ptr[2], r.len - 1) + 1

(* Once replay has finished, every chunk header whose closing WAL record  *)
(* was inserted before the crash, on a page not discarded, holds the size *)
(* UndoMarkClosed wrote, whichever of the caller's redo routines ran      *)
(* first.                                                                  *)
ChunkSizesRecovered ==
  phase = "done" =>
    \A z \in sizes : Kept(z[1], z[2], SizeofUndoLogOffset) =>
      DecodeLE(ReadUsable(z[1], z[2], SizeofUndoLogOffset)) = z[3]

(* After a crash, replay of the WAL the forward path wrote always reaches *)
(* the end: no record is rejected as corrupt, no read PANICs, and a page  *)
(* discard removed is passed over as spec section 7 (f) says.             *)
RecoveryCompletes == phase = "replay" ~> phase = "done"

=============================================================================
