-------------------------- MODULE MC_UndoRecovery --------------------------
(* Model values for UndoRecovery: the record-set types of MC_UndoRecordSet. *)
EXTENDS UndoRecovery

URST_TRANSACTION == 1
URST_FOO         == 2

MCTypeHeaderSize == (URST_TRANSACTION :> 2) @@ (URST_FOO :> 1)

(* A state constraint for runs about full-page images: a checkpoint that  *)
(* is running sees no undo inserted, so the metadata it saves is never    *)
(* ahead of its redo pointer.                                              *)
CheckpointQuiescent ==
  ckptBusy => /\ Len(wal) < redoPtr
              /\ \A p \in Procs : pending[p] = NoData

=============================================================================
