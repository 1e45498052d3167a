------------------------------ MODULE MCWm8978 ------------------------------
(***************************************************************************)
(* An instance of Wm8978 for TLC: every level the lines can have when the  *)
(* module is loaded; in the codec zeros, or a word for register 52; then   *)
(* the two writes of a volume, all ones and a single last bit.             *)
(***************************************************************************)
EXTENDS Wm8978

MCLines0 == [{"CSB", "SDIN", "SCLK"} -> {0, 1}]
MCShift0 == {0, 52 * 512 + 5}
MCLater == {<<52, 288>>, <<53, 288>>, <<127, 511>>, <<64, 1>>}
=============================================================================
