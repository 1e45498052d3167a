-------------------------- MODULE MCDriverSettings --------------------------
(***************************************************************************)
(* An instance of DriverSettings for TLC: two callers; rates the drivers   *)
(* know, one that not all of them know and one nobody knows; levels of 0,  *)
(* 37 and 100 percent on both sides, and 255.                              *)
(***************************************************************************)
EXTENDS DriverSettings, TLC

CONSTANTS c1, c2
Symmetry == Permutations({c1, c2})
MCAsked == {8000, 44100, 48000, 96000}
MCChannels == {0, 1, 2}
MCValues == {0, 37 + 256 * 37, 100, 255}

(* Two songs the driver can play, and one it cannot.                       *)
MCSongs == {[freq |-> 44100, size |-> 16], [freq |-> 48000, size |-> 24],
            [freq |-> 32000, size |-> 12]}

(* Every step from silence to the loudest, and beyond both ends.           *)
MCVolumes == -1 .. 23
=============================================================================
