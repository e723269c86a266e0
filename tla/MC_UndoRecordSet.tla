-------------------------- MODULE MC_UndoRecordSet --------------------------
(* Model values for UndoRecordSet: two record-set types whose type headers *)
(* stand for URST_TRANSACTION (42 bytes) and URST_FOO (8 bytes).          *)
EXTENDS UndoRecordSet

URST_TRANSACTION == 1
URST_FOO         == 2

MCTypeHeaderSize == (URST_TRANSACTION :> 2) @@ (URST_FOO :> 1)

=============================================================================
