----------------------------- MODULE UndoSpace -----------------------------
(***************************************************************************)
(* What undo record sets promise their callers, without pages, headers,    *)
(* buffers or WAL: each undo log is append-only space.  A record is added  *)
(* once, with the bytes its caller gave, at cells past every record        *)
(* already in its log, and is never changed afterwards.                    *)
(***************************************************************************)
EXTENDS Naturals, Sequences

VARIABLE
  space  \* the records: [log, cells (the offsets, in order), data (the bytes
         \* the cells hold), given (the bytes the caller gave)]

Init == space = {}

(* A record is added past every record already in its log, carrying the   *)
(* bytes its caller asked for.                                             *)
Add(e) ==
  /\ e \notin space
  /\ e.data = e.given
  /\ \A q \in space : q.log = e.log =>
       \A i \in DOMAIN q.cells, j \in DOMAIN e.cells : q.cells[i] < e.cells[j]
  /\ space' = space \cup {e}

Next == \E e \in space' : Add(e)

Spec == Init /\ [][Next]_space

=============================================================================
