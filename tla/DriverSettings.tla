--------------------------- MODULE DriverSettings ---------------------------
(***************************************************************************)
(* The settings of the sound hardware with each of the three drivers whose *)
(* sources are in audio/iis/src: glzt_i2s.c, its predecessor ar7240_i2s.c  *)
(* and ath_i2s.c.  Only one of them is in the kernel; which, obj-m says.   *)
(* What two of them keep under one name is one variable here.              *)
(***************************************************************************)
EXTENDS Integers

CONSTANTS Callers, Asked, Channels, Values, Songs, Modes, Volumes, ath_ref_freq

VARIABLES
  driver,  \* the source that was compiled
  (* of more than one of them *)
  stage, config,
  (* of glzt_i2s.c and ar7240_i2s.c *)
  clk_div, audio_rate, audio_channels, at,
  wm8978_volume, mixer_igain, out, asked,
  (* of one of them *)
  stereo_config_variable, by_freq, overridden,
  frac, pll, dpll, volume, popened, kernel, pc, song, told, others

glzt == INSTANCE DspSettings
ar7240 == INSTANCE OldSettings
ath == INSTANCE AthControl

ASSUME SettingsAssumption ==
  /\ glzt!ValuesAssumption
  /\ glzt!DspAssumption
  /\ ath!ControlAssumption

only_glzt == <<stereo_config_variable, by_freq>>
only_ar7240 == <<overridden>>
only_ath == <<frac, pll, dpll, volume, popened, kernel, pc, song, told, others>>
sound_card == <<clk_div, audio_rate, audio_channels, at,
                wm8978_volume, mixer_igain, out, asked>>
vars == <<driver, stage, config, sound_card, only_glzt, only_ar7240, only_ath>>

(* What a driver that is not compiled would have has one value for ever.   *)
NoGlzt == stereo_config_variable = {} /\ by_freq = FALSE
NoAr7240 == overridden = {}
NoAth ==
  /\ frac = "reset" /\ pll = "reset" /\ dpll = FALSE /\ volume = 0
  /\ popened = FALSE /\ kernel = FALSE /\ pc = "none"
  /\ song = CHOOSE s \in Songs : TRUE
  /\ told = 15 /\ others = FALSE
NoSoundCard ==
  /\ clk_div = 0 /\ audio_rate = 0 /\ audio_channels = 0
  /\ at = {}
  /\ glzt!MixerInit

Init ==
  \/ driver = "glzt" /\ glzt!Init /\ NoAr7240 /\ NoAth
  \/ driver = "ar7240" /\ ar7240!Init /\ NoGlzt /\ NoAth
  \/ driver = "ath" /\ ath!Init /\ NoGlzt /\ NoAr7240 /\ NoSoundCard

Next ==
  \/ driver = "glzt" /\ glzt!Next /\ UNCHANGED <<driver, only_ar7240, only_ath>>
  \/ driver = "ar7240" /\ ar7240!Next /\ UNCHANGED <<driver, only_glzt, only_ath>>
  \/ driver = "ath" /\ ath!Next
       /\ UNCHANGED <<driver, sound_card, only_glzt, only_ar7240>>

Spec == Init /\ [][Next]_vars
-----------------------------------------------------------------------------
(***************************************************************************)
(* Properties, stated and explained in the modules of the drivers.         *)
(***************************************************************************)

(* The types of the driver that is compiled.                               *)
TypeOK ==
  CASE driver = "glzt" -> glzt!TypeOK
    [] driver = "ar7240" -> ar7240!TypeOK
    [] driver = "ath" -> ath!TypeOK

(***************************************************************************)
(* Where the hardware differs from what the driver remembers of it and     *)
(* tells, whoever called ioctl() or slept in it, and whether the hardware  *)
(* was set up yet.  In glzt_i2s.c the format of the stereo block never     *)
(* does, nor the volume of the codec once it was set; the rate of the      *)
(* clock does after I2S_FREQ and after a rate that SPEED refused.  In      *)
(* ar7240_i2s.c the rate does after a refused one too, rate and volume     *)
(* when they were set before the hardware was set up, and the mix to one   *)
(* channel, which is told, is ended by the next command of any kind.       *)
(* There are no other differences.                                         *)
(***************************************************************************)
KnownDifferences ==
  /\ TypeOK
  /\ driver = "glzt" =>
       glzt!ConfigAgrees /\ glzt!RateAgrees /\ glzt!VolumeAgrees
  /\ driver = "ar7240" =>
       ar7240!MonoAgrees /\ ar7240!RateAgrees /\ ar7240!VolumeAgreesUnlessLost

(* What the two drivers tell back of a gain is what was set, less than     *)
(* five smaller; of a volume it is about half, 32/63, because the two ways *)
(* are scaled differently.                                                 *)
ReadBack == driver # "ath" => glzt!GainReadBack /\ glzt!VolumeReadBack

(* ath_i2s.c: a song plays with the rate and word size of its header, and  *)
(* either the player or the kernel module plays it, never both.            *)
PlaysAsHeaderSays == driver = "ath" => ath!PlaysAsHeaderSays /\ ath!OnePlayer

(* ath_i2s.c: asked for more volume, it never turns it down.               *)
LouderIsLouder == [][driver = "ath" => ath!Louder]_vars
=============================================================================
