----------------------------- MODULE RingWindow -----------------------------
(***************************************************************************)
(* A ring of NUM_DESC DMA descriptors, each with a buffer that holds one   *)
(* chunk of sound.  The playback and the capture side of glzt_i2s.c use    *)
(* such a ring with the roles of process and engine exchanged, and both    *)
(* are right for the same reason: the descriptors that hold a chunk are a  *)
(* window of the ring that one side makes longer at its end and the other  *)
(* makes shorter at its beginning.                                         *)
(***************************************************************************)
EXTENDS Naturals

CONSTANT NUM_DESC  \* descriptors in the ring (16 in i2sio.h)

ASSUME SizeAssumption == NUM_DESC \in Nat \ {0}

Desc == 0 .. NUM_DESC - 1

next_tail(t) == IF t = NUM_DESC - 1 THEN 0 ELSE t + 1

(* The i-th descriptor counted from `first', which is the 0th.             *)
Nth(first, i) == (first + i) % NUM_DESC

(* The descriptors in S are those from `first' up to but not including     *)
(* `end', and hold the chunks lo, ..., hi - 1, one after the other.        *)
Window(S, chunk, lo, hi, first, end) ==
  LET n == hi - lo IN
    /\ n \in 0 .. NUM_DESC
    /\ end = Nth(first, n)
    /\ S = {Nth(first, i) : i \in 0 .. n - 1}
    /\ \A i \in 0 .. n - 1 : chunk[Nth(first, i)] = lo + i

(* What n descriptors from `first' on hold, in the order of the ring.      *)
Held(chunk, first, n) == [i \in 1 .. n |-> chunk[Nth(first, i - 1)]]
=============================================================================
