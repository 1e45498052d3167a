------------------------------- MODULE Mixer -------------------------------
(***************************************************************************)
(* The mixer of the OSS drivers: the volume the driver remembers and the   *)
(* one the codec's two output registers hold, and an input gain that is    *)
(* remembered only.  glzt_i2s.c and ar7240_i2s.c have the same             *)
(* smdk2410_mixer_ioctl(); a dsp ioctl that the dsp does not know ends     *)
(* there too.                                                              *)
(***************************************************************************)
EXTENDS Integers

CONSTANT Values  \* what a caller may ask for: an OSS level, left + 256 * right

MaxLevel == 65535  \* both sides at 255

ValuesAssumption == Values \subseteq 0 .. MaxLevel

VARIABLES
  wm8978_volume,  \* the volume the driver remembers
  mixer_igain,    \* the input gain it remembers
  out,            \* registers 52 and 53 of the codec: left and right output
  asked           \* history: the volume and the gain last asked for

mixer_vars == <<wm8978_volume, mixer_igain, out, asked>>

CodecDefault == 57  \* the output registers after a software reset
Update == 256       \* 1 << 8: the codec takes the volume over

(* C divides towards zero.                                                 *)
Quotient(a, b) == IF a >= 0 THEN a \div b ELSE - ((- a) \div b)

(* From a level to what is remembered, and back.                           *)
LevelOf64(v) == ((v % 256) * 64) \div 100
Level(v) == ((v % 256) * 32) \div 100
Gain(v) == 31 - Quotient(v * 31, 100)
ToldVolume == Quotient(wm8978_volume * 100, 63)
ToldGain == Quotient((31 - mixer_igain) * 100, 31)

MixerTypeOK ==
  /\ wm8978_volume \in 0 .. Level(255)
  /\ mixer_igain \in Gain(MaxLevel) .. 31
  /\ \A side \in {"left", "right"} :
       out[side] = CodecDefault \/ out[side] - Update \in 0 .. Level(255)

MixerInit ==
  /\ wm8978_volume = 0
  /\ mixer_igain = 4
  /\ out = [side \in {"left", "right"} |-> CodecDefault]
  /\ asked = [volume |-> 0, gain |-> 90]

(* Both output registers, one after the other, and the memory of it.       *)
BothSides(v) == [side \in {"left", "right"} |-> Update + Level(v)]

SetVolume(v) ==
  /\ wm8978_volume' = Level(v)
  /\ out' = BothSides(v)
  /\ asked' = [asked EXCEPT !.volume = v]
  /\ UNCHANGED mixer_igain

SetGain(v) ==
  /\ mixer_igain' = Gain(v)
  /\ asked' = [asked EXCEPT !.gain = v]
  /\ UNCHANGED <<wm8978_volume, out>>

(***************************************************************************)
(* A call of the mixer that changes something.  The value is fetched from  *)
(* the caller first, and a fetch that fails ends the call; the queries     *)
(* only tell.  audio_mix_modcnt, which counts the calls, is never read.    *)
(***************************************************************************)
smdk2410_mixer_ioctl == \E v \in Values : SetVolume(v) \/ SetGain(v)
-----------------------------------------------------------------------------
(* The two outputs of the codec play at the volume the driver remembers,   *)
(* from the first time it is set, whichever of the mixer and the settings  *)
(* of the dsp set it last.                                                 *)
VolumeAgrees ==
  \/ \A side \in {"left", "right"} : out[side] = Update + wm8978_volume
  \/ wm8978_volume = 0 /\ asked.volume = 0

(* A gain is told back no larger than it was set and less than five        *)
(* smaller, in spite of two divisions, also when both sides are in the     *)
(* word: it is scaled whole, though no step of the codec is as large then. *)
GainReadBack == asked.gain - ToldGain \in 0 .. 4

(* A volume is NOT told back as it was set.  It is multiplied by 32/100    *)
(* when set and by 100/63 when told, so that what is told is 32/63 of the  *)
(* volume of the left side, about half of it: 50 for 100.  The divisions   *)
(* lose less than three more.  Below 200 the value sent to the codec stays *)
(* within the six bits of its volume field, below the bit that mutes.      *)
VolumeReadBack ==
  LET left == asked.volume % 256
  IN  /\ 32 * left - 63 * ToldVolume \in 0 .. 161
      /\ left < 200 => wm8978_volume < 64
=============================================================================
