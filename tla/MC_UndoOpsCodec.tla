--------------------------- MODULE MC_UndoOpsCodec ---------------------------
EXTENDS UndoOpsCodec

(* Payloads with a byte above 0x7f, and offsets needing the high byte.    *)
MCPayloads == {<<7>>, <<200, 0>>}
MCOffsets == {2, 300}
=============================================================================
