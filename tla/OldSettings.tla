---------------------------- MODULE OldSettings ----------------------------
(***************************************************************************)
(* The settings of ar7240_i2s.c, the older variant of the driver.  Its     *)
(* ar7240_i2s_ioctl() begins every command, a query or one it rejects      *)
(* included, by giving the stereo block a format of 8-bit words and the    *)
(* codec half of its volume; only then does it look at the command, and    *)
(* those that take a value may sleep in get_user() before they go on.      *)
(* When get_user() fails the driver goes on with whatever was in its       *)
(* variable, which is covered by a caller that asks for it.                *)
(*                                                                         *)
(* ar7240_i2s_init_module() registers the devices before it sets up the    *)
(* hardware: a process may use them in between.                            *)
(***************************************************************************)
EXTENDS Mixer

CONSTANTS
  Callers,   \* processes that use the devices
  Asked,     \* sample rates they ask for
  Channels   \* numbers of channels they ask for

OldAssumption == Asked \subseteq Int /\ Channels \subseteq Int

VARIABLES
  stage,     \* how far ar7240_i2s_init_module() has come
  clk_div,   \* STEREO_CLK_DIV, as the rate it divides to
  config,    \* STEREO_CONFIG, the set of the bits that are set
  audio_rate, audio_channels, \* what it tells about rate and channels
  at,        \* what each caller does after its get_user(), or "idle"
  overridden \* history: what a later head or setting up has overridden

set_vars == <<stage, clk_div, config, audio_rate, audio_channels, at, overridden>>
vars == <<set_vars, mixer_vars>>

Rates == {44100, 48000}

AR7240_STEREO_CONFIG_DEFAULT ==
  {"SPDIF_ENABLE", "ENABLE", "RESET", "MIC_WORD_SIZE", "PSEDGE_2",
   "SAMPLE_CNT_CLEAR_TYPE", "MASTER"}
Bits == AR7240_STEREO_CONFIG_DEFAULT \cup
          {"PCM_SWAP", "WS_8B", "WS_16B", "I2S_32B_WORD", "MONO"}

TypeOK ==
  /\ stage \in 0 .. 5
  /\ clk_div \in Rates \cup {0}
  /\ config \subseteq Bits
  /\ ~({"WS_8B", "WS_16B"} \subseteq config)
  /\ audio_rate \in Asked \cup {0}
  /\ audio_channels \in Channels \cup {0}
  /\ at \in [Callers -> {"idle", "channels", "speed", "mixer"}]
  /\ overridden \subseteq {"rate", "volume", "mono"}
  /\ MixerTypeOK

Init ==
  /\ stage = 0
  /\ clk_div = 0
  /\ config = {}
  /\ audio_rate = 0
  /\ audio_channels = 0
  /\ at = [c \in Callers |-> "idle"]
  /\ overridden = {"mono"}
  /\ MixerInit
-----------------------------------------------------------------------------
ar7240_i2sound_i2slink_on ==
  /\ config' = (AR7240_STEREO_CONFIG_DEFAULT \ {"RESET"}) \cup
                 {"PCM_SWAP", "WS_16B", "I2S_32B_WORD"}
  /\ clk_div' = 44100
  /\ out' = [side \in {"left", "right"} |-> CodecDefault]
  /\ overridden' = {"rate", "volume", "mono"}

(* 1: dsp registered, 2: mixer, 3: interrupt requested, whether or not     *)
(* with success, 4: hardware set up, 5: lock initialised.                  *)
ar7240_i2s_init_module ==
  /\ stage < 5
  /\ stage' = stage + 1
  /\ IF stage' = 4
       THEN ar7240_i2sound_i2slink_on
       ELSE UNCHANGED <<clk_div, config, overridden, out>>
  /\ UNCHANGED <<audio_rate, audio_channels, at, wm8978_volume,
                 mixer_igain, asked>>

(* What the hardware holds stays; the variables of the module do not.      *)
ar7240_i2s_cleanup_module ==
  /\ stage = 5
  /\ \A c \in Callers : at[c] = "idle"
  /\ stage' = 0
  /\ audio_rate' = 0
  /\ audio_channels' = 0
  /\ overridden' = {"mono"}
  /\ wm8978_volume' = 0
  /\ mixer_igain' = 4
  /\ asked' = [volume |-> 0, gain |-> 90]
  /\ UNCHANGED <<clk_div, config, at, out>>
-----------------------------------------------------------------------------
(***************************************************************************)
(* The head of ar7240_i2s_ioctl(), and the commands after it.  Nothing     *)
(* follows it that this module knows of in READ_CHANNELS, READ_RATE,       *)
(* GETFMTS, GETBLKSIZE, SETFRAGMENT, SYNC, GETOSPACE, GETISPACE, RESET,    *)
(* NONBLOCK and the commands it rejects.  SETFMT goes on as CHANNELS does. *)
(***************************************************************************)
Head(c) ==
  /\ stage >= 1
  /\ at[c] = "idle"
  /\ at' \in { [at EXCEPT ![c] = next] : next \in {"idle", "channels", "speed", "mixer"} }
  /\ config' = AR7240_STEREO_CONFIG_DEFAULT \cup {"WS_8B"}
  /\ SetVolume(50)
  /\ overridden' = (overridden \ {"volume"}) \cup {"mono"}
  /\ UNCHANGED <<stage, clk_div, audio_rate, audio_channels>>

Resumes(c, here) == at[c] = here /\ at' = [at EXCEPT ![c] = "idle"]

rmw_mono(data) == IF data # 2 THEN config \cup {"MONO"} ELSE config \ {"MONO"}

SNDCTL_DSP_CHANNELS(c) ==
  /\ Resumes(c, "channels")
  /\ \E data \in Channels :
       audio_channels' = data /\ config' = rmw_mono(data)
  /\ overridden' = overridden \ {"mono"}
  /\ UNCHANGED <<stage, clk_div, audio_rate, mixer_vars>>

(* The rate is remembered before it is looked at; two of them are known.   *)
clock_for(val) == IF val \in Rates THEN val ELSE clk_div

SNDCTL_DSP_SPEED(c) ==
  /\ Resumes(c, "speed")
  /\ \E val \in Asked :
       /\ audio_rate' = val
       /\ clk_div' = clock_for(val)
       /\ overridden' = IF val \in Rates THEN overridden \ {"rate"} ELSE overridden
  /\ UNCHANGED <<stage, config, audio_channels, mixer_vars>>

(* The volume is heard again, or the gain remembered.                      *)
Mix ==
  /\ smdk2410_mixer_ioctl
  /\ overridden' = IF out' = out THEN overridden ELSE overridden \ {"volume"}

MixerOfDsp(c) ==
  /\ Resumes(c, "mixer")
  /\ Mix
  /\ UNCHANGED <<stage, clk_div, config, audio_rate, audio_channels>>

MixerDevice ==
  /\ stage >= 2
  /\ Mix
  /\ UNCHANGED <<stage, clk_div, config, audio_rate, audio_channels, at>>

ar7240_i2s_ioctl(c) ==
  Head(c) \/ SNDCTL_DSP_CHANNELS(c) \/ SNDCTL_DSP_SPEED(c) \/ MixerOfDsp(c)

(* The stereo block ends its reset by itself.                              *)
HardwareClearsReset ==
  /\ "RESET" \in config
  /\ config' = config \ {"RESET"}
  /\ UNCHANGED <<stage, clk_div, audio_rate, audio_channels, at, overridden,
                 mixer_vars>>

Next ==
  \/ ar7240_i2s_init_module \/ ar7240_i2s_cleanup_module
  \/ \E c \in Callers : ar7240_i2s_ioctl(c)
  \/ MixerDevice \/ HardwareClearsReset

Spec == Init /\ [][Next]_vars
-----------------------------------------------------------------------------
(***************************************************************************)
(* Properties.                                                             *)
(***************************************************************************)

(* The stereo block mixes down to one channel only while the driver tells  *)
(* that it does, also when a caller that asked for two slept while another *)
(* asked for one.  The other way it holds only until the next command: the *)
(* head of any, a query too, takes the bit away and leaves what is told    *)
(* (1036-1039).                                                            *)
MonoAgrees ==
  /\ "MONO" \in config => audio_channels # 2
  /\ "MONO" \notin config => audio_channels = 2 \/ "mono" \in overridden

(* The rate SOUND_PCM_READ_RATE tells is the one the clock runs at, with   *)
(* two exceptions that are the code's: a rate that SPEED refused is told   *)
(* as if it had been set (1096), and one set before the hardware was set   *)
(* up is told still (1706).                                                *)
RateAgrees ==
  audio_rate \in Rates => clk_div = audio_rate \/ "rate" \in overridden

(* Unless it was set before the hardware was set up, and not since, the    *)
(* codec plays at the volume the driver remembers.                         *)
VolumeAgreesUnlessLost == "volume" \in overridden \/ VolumeAgrees
=============================================================================
