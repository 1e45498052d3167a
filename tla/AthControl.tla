----------------------------- MODULE AthControl -----------------------------
(***************************************************************************)
(* The settings of audio/iis/src/ath_i2s.c and who makes them: the player  *)
(* (athplay) that sets rate and word size before it writes, any other      *)
(* process that has the device open (for recording, or i2sconf), a kernel  *)
(* module that plays through the ath_ex_ entry points, and the loading of  *)
(* the driver, which registers the device before it sets up the hardware.  *)
(* They all set the same registers, and nothing locks them.                *)
(***************************************************************************)
EXTENDS Integers

CONSTANTS
  Songs,      \* what the header of a song says: [freq, size]
  Modes,      \* arguments of I2S_MODE
  Volumes,    \* arguments of I2S_VOLUME
  ath_ref_freq  \* the reference clock of the board, in MHz

ControlAssumption ==
  /\ Songs \subseteq [freq : Int, size : Int]
  /\ Modes \subseteq Int
  /\ Volumes \subseteq Int
  /\ ath_ref_freq \in {25, 40}

VARIABLES
  stage,    \* "out", "chrdev", "irq", "in": how far the driver is loaded
  config,   \* ATH_STEREO_CONFIG, the set of the bits and fields that are set
  frac, pll, dpll, \* ATH_FRAC_FREQ_CONFIG, ATH_AUDIO_PLL_CONFIG, ATH_AUDIO_DPLL2/3
  volume,   \* ATH_STEREO_VOLUME, the value of each of its two channels
  popened,  \* is somebody playing?
  kernel,   \* is it the kernel module?
  pc,       \* athplay: "none", "opened", "freq", "playing"
  song,     \* the header it has read
  told,     \* history: the volume last asked for
  others    \* history: has anybody else set something since it was opened?

registers == <<config, frac, pll, dpll, volume>>
vars == <<stage, registers, popened, kernel, pc, song, told, others>>

Freqs == {44100, 48000}
Sizes == {8, 16, 24, 32}

(* Each of the fields of ATH_STEREO_CONFIG that this driver ever sets.     *)
Bits == {"SPDIF_ENABLE", "ENABLE", "SAMPLE_CNT_CLEAR_TYPE", "MASTER", "PSEDGE_2",
         "PCM_SWAP", "WS_16B", "WS_24B", "WS_32B", "I2S_32B_WORD", "MONO", "RESET"}

Fracs == {"0x15a2102a", "0x30a9036", "0x127bb02e", "0xfb7e83a"}

TypeOK ==
  /\ stage \in {"out", "chrdev", "irq", "in"}
  /\ config \subseteq Bits
  /\ frac \in Fracs \cup {"reset"}
  /\ pll \in {"0x61a1", "0x61a2", "reset"}
  /\ dpll \in BOOLEAN
  /\ volume \in 0 .. 31
  /\ popened \in BOOLEAN
  /\ kernel \in BOOLEAN
  /\ pc \in {"none", "opened", "freq", "playing"}
  /\ song \in Songs
  /\ told \in Volumes \cup {15}
  /\ others \in BOOLEAN

Init ==
  /\ stage = "out"
  /\ config = {}
  /\ frac = "reset"
  /\ pll = "reset"
  /\ dpll = FALSE
  /\ volume = 0
  /\ popened = FALSE
  /\ kernel = FALSE
  /\ pc = "none"
  /\ song \in Songs
  /\ told = 15
  /\ others = FALSE
-----------------------------------------------------------------------------
(***************************************************************************)
(* ath_i2s_init_reg(): a reset of the whole block.  The macro of the       *)
(* defaults is not the one of the same name in ath_i2s_ioctl().            *)
(***************************************************************************)
ath_i2s_init_reg ==
  /\ config' = {"SPDIF_ENABLE", "ENABLE", "PCM_SWAP", "WS_16B",
                "SAMPLE_CNT_CLEAR_TYPE", "MASTER", "PSEDGE_2"}
  /\ volume' = 0
  /\ told' = 15

(* Registering the device, requesting the interrupt (a failure of which is *)
(* only logged), and setting up the hardware; each may let others run.     *)
ath_i2s_init_module ==
  \/ /\ stage = "out"
     /\ stage' = "chrdev"
     /\ UNCHANGED <<registers, popened, kernel, pc, song, told, others>>
  \/ /\ stage = "chrdev"
     /\ stage' = "irq"
     /\ UNCHANGED <<registers, popened, kernel, pc, song, told, others>>
  \/ /\ stage = "irq"
     /\ stage' = "in"
     /\ ath_i2s_init_reg
     /\ others' = TRUE
     /\ UNCHANGED <<frac, pll, dpll, popened, kernel, pc, song>>

(* An open file, or a module that uses this one, keeps it loaded.          *)
ath_i2s_cleanup_module ==
  /\ stage = "in"
  /\ ~popened
  /\ stage' = "out"
  /\ UNCHANGED <<registers, popened, kernel, pc, song, told, others>>
-----------------------------------------------------------------------------
(* ath_i2s_clk(), and before it ath_i2s_dpll() where the reference clock   *)
(* is not one of 25 MHz.                                                   *)
ath_i2s_clk(f, p) == frac' = f /\ pll' = p

I2S_FREQ(freq) ==
  /\ freq \in Freqs
  /\ IF ath_ref_freq = 25
       THEN /\ ath_i2s_clk(IF freq = 44100 THEN "0x15a2102a" ELSE "0x127bb02e",
                           "0x61a1")
            /\ UNCHANGED dpll
       ELSE /\ dpll' = TRUE
            /\ ath_i2s_clk(IF freq = 44100 THEN "0x30a9036" ELSE "0xfb7e83a",
                           "0x61a2")

ATH_STEREO_CONFIG_DEFAULT ==
  {"SPDIF_ENABLE", "ENABLE", "SAMPLE_CNT_CLEAR_TYPE", "MASTER", "PSEDGE_2"}

st_cfg(size) ==
  ATH_STEREO_CONFIG_DEFAULT \cup
    CASE size = 8  -> {}
      [] size = 16 -> {"PCM_SWAP", "WS_16B"}
      [] size = 24 -> {"PCM_SWAP", "WS_24B", "I2S_32B_WORD"}
      [] size = 32 -> {"PCM_SWAP", "WS_32B", "I2S_32B_WORD"}

(* The new word size is written with the reset bit, which is cleared after *)
(* a delay: nothing of the earlier setting remains, MONO included.         *)
dsize_added(size) == size \in Sizes /\ config' = config \cup st_cfg(size)

I2S_DSIZE(size) ==
  /\ size \in Sizes
  /\ config' = (st_cfg(size) \cup {"RESET"}) \ {"RESET"}

I2S_MODE(mode) ==
  config' = IF mode # 2 THEN config \cup {"MONO"} ELSE config \ {"MONO"}

(* Bit 4 of the register turns the volume down.                            *)
mask_without_complement(data) ==
  IF data < 15 THEN 16 + (IF data < 0 THEN 0 ELSE data)
               ELSE IF data <= 22 THEN data - 15 ELSE 7

mask(data) ==
  IF data < 15
    THEN IF data < 0 THEN 15 ELSE 31 - data
    ELSE IF data <= 22 THEN data - 15 ELSE 7

I2S_VOLUME(data) == volume' = mask(data) /\ told' = data

(* A rate or a word size the driver does not know is refused.              *)
Refused(arg, known) == arg \notin known /\ UNCHANGED registers
-----------------------------------------------------------------------------
(***************************************************************************)
(* athplay: open() for writing, I2S_FREQ, I2S_DSIZE, then writes.  It goes *)
(* on when one of them is refused.                                         *)
(***************************************************************************)
ath_i2s_open ==
  /\ stage # "out"
  /\ pc = "none"
  /\ ~popened
  /\ popened' = TRUE
  /\ pc' = "opened"
  /\ song' \in Songs
  /\ others' = FALSE
  /\ UNCHANGED <<stage, registers, kernel, told>>

PlayerSetsFreq ==
  /\ pc = "opened"
  /\ \/ I2S_FREQ(song.freq) /\ UNCHANGED <<config, volume>>
     \/ Refused(song.freq, Freqs)
  /\ pc' = "freq"
  /\ UNCHANGED <<stage, popened, kernel, song, told, others>>

PlayerSetsSize ==
  /\ pc = "freq"
  /\ \/ I2S_DSIZE(song.size) /\ UNCHANGED <<frac, pll, dpll, volume>>
     \/ Refused(song.size, Sizes)
  /\ pc' = "playing"
  /\ UNCHANGED <<stage, popened, kernel, song, told, others>>

ath_i2s_close ==
  /\ pc # "none"
  /\ popened' = FALSE
  /\ pc' = "none"
  /\ UNCHANGED <<stage, registers, kernel, song, told, others>>

(* Any process that has the device open may set anything.                  *)
ath_i2s_ioctl ==
  /\ stage # "out"
  /\ \/ \E s \in Songs :
          \/ I2S_FREQ(s.freq) /\ others' = TRUE /\ UNCHANGED <<config, volume, told>>
          \/ I2S_DSIZE(s.size) /\ others' = TRUE
               /\ UNCHANGED <<frac, pll, dpll, volume, told>>
     \/ \E mode \in Modes :
          I2S_MODE(mode) /\ others' = TRUE /\ UNCHANGED <<frac, pll, dpll, volume, told>>
     \/ \E data \in Volumes :
          I2S_VOLUME(data) /\ UNCHANGED <<config, frac, pll, dpll, others>>
  /\ UNCHANGED <<stage, popened, kernel, pc, song>>

(* The kernel module: the hardware is reset first, and only then is it     *)
(* looked at whether somebody is playing.                                  *)
ath_ex_i2s_open ==
  /\ stage = "in"
  /\ ~kernel
  /\ ath_i2s_init_reg
  /\ others' = TRUE
  /\ kernel' = ~popened
  /\ popened' = TRUE
  /\ UNCHANGED <<stage, frac, pll, dpll, pc, song>>

ath_ex_i2s_close ==
  /\ kernel
  /\ kernel' = FALSE
  /\ popened' = FALSE
  /\ UNCHANGED <<stage, registers, pc, song, told, others>>

Next ==
  \/ ath_i2s_init_module
  \/ ath_i2s_cleanup_module
  \/ ath_i2s_open
  \/ PlayerSetsFreq
  \/ PlayerSetsSize
  \/ ath_i2s_close
  \/ ath_i2s_ioctl
  \/ ath_ex_i2s_open
  \/ ath_ex_i2s_close

Spec == Init /\ [][Next]_vars
-----------------------------------------------------------------------------
(***************************************************************************)
(* Properties.                                                             *)
(***************************************************************************)

(* A song whose rate and word size the driver knows plays with them, as    *)
(* stereo and with the block out of its reset, whatever was set before:    *)
(* unless somebody else has set something since the player opened the      *)
(* device.                                                                 *)
PlaysAsHeaderSays ==
  pc = "playing" /\ ~others =>
    /\ song.size \in Sizes => config = st_cfg(song.size)
    /\ song.freq \in Freqs =>
         /\ frac \in IF song.freq = 44100 THEN {"0x15a2102a", "0x30a9036"}
                                          ELSE {"0x127bb02e", "0xfb7e83a"}
         /\ (pll = "0x61a2") = (ath_ref_freq # 25)
         /\ pll = "0x61a2" => dpll

(* The gain a value of the volume register stands for.                     *)
Loudness(v) == IF v > 15 THEN 16 - v ELSE v

(* Asked for more volume, the driver never turns it down, over the whole   *)
(* range of the argument but negative ones.                                *)
Louder ==
  0 <= told /\ told < told' => Loudness(volume) <= Loudness(volume')

(* Whoever plays, it is the kernel module or the player and never both.    *)
OnePlayer == popened = ((pc # "none") # kernel)
=============================================================================
