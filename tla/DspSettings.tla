---------------------------- MODULE DspSettings ----------------------------
(***************************************************************************)
(* The settings of glzt_i2s.c: what loading the module, ar7240_i2s_ioctl() *)
(* of the dsp and the mixer do to the clock divider, the STEREO_CONFIG     *)
(* register and the codec, and to the driver's memory of them.             *)
(*                                                                         *)
(* The kernel of the boards runs on one processor and does not preempt a   *)
(* process inside it, so an ioctl is one step up to a point where it may   *)
(* sleep: put_user(), which waits for the caller's page, in the three      *)
(* commands that answer and only then go on to the common end of the       *)
(* function.  get_user() comes before anything is changed; when it fails   *)
(* the driver goes on with whatever was in its variable, which is covered  *)
(* by a caller that asks for it.  Commands that are rejected without an    *)
(* effect (-ENOSYS, a value I2S_FREQ does not know) are left out, and so   *)
(* is the O_NONBLOCK that SNDCTL_DSP_NONBLOCK sets and nothing looks at.   *)
(***************************************************************************)
EXTENDS Mixer

CONSTANTS
  Callers,   \* processes that use the device
  Asked,     \* sample rates they ask for
  Channels   \* numbers of channels they ask for

DspAssumption == Asked \subseteq Int /\ Channels \subseteq Int

VARIABLES
  stage,     \* how far ar7240_i2s_init_module() has come
  clk_div,   \* STEREO_CLK_DIV, as the rate it divides to
  config,    \* STEREO_CONFIG, the set of the bits that are set
  stereo_config_variable, \* the driver's copy of it
  audio_rate, audio_channels, \* what it tells about rate and channels
  at,        \* callers that are in put_user(), before the common end
  by_freq    \* history: did I2S_FREQ set the clock last?

dsp_vars == <<stage, clk_div, config, stereo_config_variable, audio_rate,
              audio_channels, at, by_freq>>
vars == <<dsp_vars, mixer_vars>>

Rates == {8000, 11025, 12000, 16000, 22050, 24000, 32000, 44100, 48000}

(* The three values of stereo_config_variable; all of them have the bit    *)
(* that resets the stereo block.                                           *)
Plain == {"SPDIF_ENABLE", "ENABLE", "RESET", "MIC_WORD_SIZE", "WS_16B",
          "SAMPLE_CNT_CLEAR_TYPE", "MASTER", "PSEDGE_2"}
Wide == Plain \cup {"PCM_SWAP", "I2S_32B_WORD"}
Left == Plain \cup {"MODE_1"}
Formats == {Plain, Wide, Left}

TypeOK ==
  /\ stage \in 0 .. 4
  /\ clk_div \in Rates \cup {0}
  /\ config \in {{}} \cup Formats \cup {f \ {"RESET"} : f \in Formats}
  /\ stereo_config_variable \in Formats \cup {{}}
  /\ audio_rate \in Asked \cup Rates \cup {0}
  /\ audio_channels \in Channels \cup {2}
  /\ at \subseteq Callers
  /\ by_freq \in BOOLEAN
  /\ MixerTypeOK

Init ==
  /\ stage = 0
  /\ clk_div = 0
  /\ config = {}
  /\ stereo_config_variable = {}
  /\ audio_rate = 0
  /\ audio_channels = 2
  /\ at = {}
  /\ by_freq = FALSE
  /\ MixerInit
-----------------------------------------------------------------------------
(***************************************************************************)
(* Loading and unloading the module.  Registering a device may sleep, and  *)
(* from then on it can be used; the hardware is set up before.             *)
(***************************************************************************)
init_s3c2410_iis_bus ==
  /\ stereo_config_variable' = Plain
  /\ config' = Plain \ {"RESET"}
  /\ clk_div' = 44100
  /\ audio_rate' = 44100
  /\ by_freq' = FALSE

ar7240_i2s_init_module ==
  \/ /\ stage = 0
     /\ stage' = 1
     /\ init_s3c2410_iis_bus
     /\ out' = [side \in {"left", "right"} |-> CodecDefault]
     /\ UNCHANGED <<audio_channels, at, wm8978_volume, mixer_igain, asked>>
  \/ /\ stage \in 1 .. 3
     /\ stage' = stage + 1
     /\ UNCHANGED <<clk_div, config, stereo_config_variable, audio_rate,
                    audio_channels, at, by_freq, mixer_vars>>

(* What the hardware holds stays; the variables of the module do not.      *)
ar7240_i2s_cleanup_module ==
  /\ stage = 4
  /\ at = {}
  /\ stage' = 0
  /\ stereo_config_variable' = {}
  /\ audio_rate' = 0
  /\ audio_channels' = 2
  /\ by_freq' = FALSE
  /\ wm8978_volume' = 0
  /\ mixer_igain' = 4
  /\ asked' = [volume |-> 0, gain |-> 90]
  /\ UNCHANGED <<clk_div, config, at, out>>
-----------------------------------------------------------------------------
(***************************************************************************)
(* ar7240_i2s_ioctl().  However a command ends in the switch, by a break   *)
(* it comes to the common end: the register gets the driver's copy, bit    *)
(* by bit at first and then as it is, and the volume goes to 100 percent.  *)
(***************************************************************************)
config_written(format) == config' = format

CommonEnd(format) == config_written(format) /\ SetVolume(100)

Uses(c) == stage >= 2 /\ c \notin at

I2S_FREQ(c) ==
  /\ Uses(c)
  /\ clk_div' \in Asked \cap {44100, 48000}
  /\ by_freq' = TRUE
  /\ CommonEnd(stereo_config_variable)
  /\ UNCHANGED <<stage, stereo_config_variable, audio_rate, audio_channels, at>>

I2S_DSIZE(c) ==
  /\ Uses(c)
  /\ stereo_config_variable' \in {Plain, Wide, stereo_config_variable}
  /\ CommonEnd(stereo_config_variable')
  /\ UNCHANGED <<stage, clk_div, audio_rate, audio_channels, at, by_freq>>

SNDCTL_DSP_CHANNELS(c) ==
  /\ Uses(c)
  /\ \E data \in Channels :
       /\ audio_channels' = data
       /\ stereo_config_variable' = IF data # 0 THEN Plain ELSE Left
  /\ CommonEnd(stereo_config_variable')
  /\ UNCHANGED <<stage, clk_div, audio_rate, at, by_freq>>

(* SETFMT, RESET, GETFMTS, GETBLKSIZE, SETFRAGMENT, SYNC, GETOSPACE,       *)
(* GETISPACE and NONBLOCK: nothing but the common end.                     *)
NoUse(c) ==
  /\ Uses(c)
  /\ CommonEnd(stereo_config_variable)
  /\ UNCHANGED <<stage, clk_div, stereo_config_variable, audio_rate,
                 audio_channels, at, by_freq>>

(* The rate is remembered before it is looked at.                          *)
speed_remembered_only(c, val) ==
  audio_rate' = val /\ UNCHANGED clk_div /\ by_freq' = FALSE /\ at' = at \cup {c}

speed(c, val) ==
  /\ audio_rate' = val
  /\ IF val \in Rates
       THEN clk_div' = val /\ by_freq' = FALSE /\ at' = at \cup {c}
       ELSE UNCHANGED <<clk_div, by_freq, at>>

SNDCTL_DSP_SPEED(c) ==
  /\ Uses(c)
  /\ \E val \in Asked : speed(c, val)
  /\ UNCHANGED <<stage, config, stereo_config_variable, audio_channels, mixer_vars>>

(* SOUND_PCM_READ_RATE and SOUND_PCM_READ_CHANNELS.                        *)
ReadBack(c) ==
  /\ Uses(c)
  /\ at' = at \cup {c}
  /\ UNCHANGED <<stage, clk_div, config, stereo_config_variable, audio_rate,
                 audio_channels, by_freq, mixer_vars>>

(* After put_user(), which may have slept while others were served.        *)
Answered(c) ==
  /\ c \in at
  /\ at' = at \ {c}
  /\ CommonEnd(stereo_config_variable)
  /\ UNCHANGED <<stage, clk_div, stereo_config_variable, audio_rate,
                 audio_channels, by_freq>>

MixerCall == stage >= 2 /\ smdk2410_mixer_ioctl /\ UNCHANGED dsp_vars

(* The stereo block ends its reset by itself.                              *)
HardwareClearsReset ==
  /\ "RESET" \in config
  /\ config' = config \ {"RESET"}
  /\ UNCHANGED <<stage, clk_div, stereo_config_variable, audio_rate,
                 audio_channels, at, by_freq, mixer_vars>>

ar7240_i2s_ioctl(c) ==
  \/ I2S_FREQ(c) \/ I2S_DSIZE(c) \/ SNDCTL_DSP_CHANNELS(c) \/ NoUse(c)
  \/ SNDCTL_DSP_SPEED(c) \/ ReadBack(c) \/ Answered(c)

Next ==
  \/ ar7240_i2s_init_module \/ ar7240_i2s_cleanup_module
  \/ \E c \in Callers : ar7240_i2s_ioctl(c)
  \/ MixerCall \/ HardwareClearsReset

Spec == Init /\ [][Next]_vars
-----------------------------------------------------------------------------
(***************************************************************************)
(* Properties.                                                             *)
(***************************************************************************)

(* The stereo block has the format the driver believes it has, whoever     *)
(* changed it while another caller was waiting in put_user().              *)
ConfigAgrees ==
  stage > 0 => config \cup {"RESET"} = stereo_config_variable

(* The rate SOUND_PCM_READ_RATE tells is the one the clock runs at, with   *)
(* two exceptions that are the code's: a rate that SPEED refused is told   *)
(* as if it had been set (1020), and I2S_FREQ sets the clock without       *)
(* telling (910-924), until SPEED or the loading of the module sets it.    *)
RateAgrees ==
  stage > 0 => audio_rate = clk_div \/ audio_rate \notin Rates \/ by_freq
=============================================================================
