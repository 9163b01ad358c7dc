-------------------------------- MODULE Fifo --------------------------------
(***************************************************************************)
(* What sm_queue.h promises: a first-in first-out queue of values.         *)
(***************************************************************************)
EXTENDS Sequences, SequencesExt

CONSTANTS Values, Nothing

VARIABLES
  items,   \* first the value that first() would return
  taken,   \* the value the last Pop got
  closed   \* the queue has been destroyed

vars == <<items, taken, closed>>

Init == items = <<>> /\ taken = Nothing /\ closed = FALSE

Push(v) ==
  /\ ~closed
  /\ items' = Append(items, v)
  /\ UNCHANGED <<taken, closed>>

Pop ==
  /\ ~closed
  /\ items # <<>>
  /\ items' = Tail(items)
  /\ taken' = Head(items)
  /\ UNCHANGED closed

\* The first value equal to v goes, if there is one.
Erase(v) ==
  /\ ~closed
  /\ items' = RemoveFirst(items, v)
  /\ UNCHANGED <<taken, closed>>

Clear ==
  /\ ~closed
  /\ items' = <<>>
  /\ UNCHANGED <<taken, closed>>

Close ==
  /\ ~closed
  /\ items' = <<>>
  /\ closed' = TRUE
  /\ UNCHANGED taken

Next ==
  \/ \E v \in Values : Push(v) \/ Erase(v)
  \/ Pop \/ Clear \/ Close

Spec == Init /\ [][Next]_vars
=============================================================================
