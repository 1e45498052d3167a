--------------------------- MODULE MCPlaybackRing ---------------------------
(***************************************************************************)
(* Instances of PlaybackRing for TLC.  A descriptor holds 4 bytes and      *)
(* EAGAIN is 3, so that a short last chunk can be EAGAIN bytes long (as 11 *)
(* of 1024 can) or not.                                                    *)
(***************************************************************************)
EXTENDS PlaybackRing

(* No bytes at all, one full chunk, more than the ring holds with a short  *)
(* end.                                                                    *)
MCRequests == {<<0, 0>>, <<1, 0>>, <<4, 2>>}

(* The same with ends of EAGAIN bytes.                                     *)
MCRequestsEagain == MCRequests \cup {<<2, 3>>}
=============================================================================
