-------------------------- MODULE MCDuplexSessions --------------------------
(***************************************************************************)
(* An instance of DuplexSessions for TLC: three files, one more than there *)
(* are directions, in all modes.                                           *)
(***************************************************************************)
EXTENDS DuplexSessions, TLC

CONSTANTS f1, f2, f3
Symmetry == Permutations({f1, f2, f3})
MCModes == {{"capture"}, {"playback"}, {"capture", "playback"}}
=============================================================================
