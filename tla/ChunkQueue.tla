----------------------------- MODULE ChunkQueue -----------------------------
(***************************************************************************)
(* What a driver promises about sound that passes through it, to a process *)
(* that plays and to one that records: a bounded queue of chunks between   *)
(* the process and the DMA engine.  Chunks are numbered as they are put    *)
(* into the queue at one end, and are taken from it at the other in that   *)
(* order, none missing and none twice.  `good' tells whether the promise   *)
(* holds; a session may begin without it and may lose it.                  *)
(***************************************************************************)
EXTENDS Naturals, Sequences

CONSTANT Capacity

VARIABLES
  good,   \* does the promise hold?
  put,    \* chunks put into the queue so far
  queue,  \* the chunks put and not yet taken, oldest first
  taken   \* chunks taken so far

vars == <<good, put, queue, taken>>

Nothing ==
  /\ put = 0
  /\ queue = <<>>
  /\ taken = 0

Init == Nothing /\ ~good

Begin ==
  /\ ~good
  /\ good' = TRUE
  /\ UNCHANGED <<put, queue, taken>>

Put ==
  /\ good
  /\ Len(queue) < Capacity
  /\ queue' = Append(queue, put)
  /\ put' = put + 1
  /\ UNCHANGED <<good, taken>>

Take ==
  /\ good
  /\ queue # <<>>
  /\ Head(queue) = taken
  /\ queue' = Tail(queue)
  /\ taken' = taken + 1
  /\ UNCHANGED <<good, put>>

(* The session ends, or the promise is broken in it.                       *)
End ==
  /\ good
  /\ good' = FALSE
  /\ Nothing'

Next == Begin \/ Put \/ Take \/ End

Spec == Init /\ [][Next]_vars

(* What is put is taken, unless the session ends.                          *)
Promise == WF_vars(Take)
=============================================================================
