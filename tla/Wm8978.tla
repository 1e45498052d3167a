------------------------------- MODULE Wm8978 -------------------------------
(***************************************************************************)
(* How glzt_i2s.c talks to the WM8978 codec: wm8978_write_reg() sends a    *)
(* 16-bit control word, 7 bits of register and 9 of data, over three GPIO  *)
(* lines it switches one at a time with ar7240_gpio_setpin().  The codec   *)
(* takes in one bit of SDIN with every rising edge of SCLK, and acts on    *)
(* the last 16 of them with every rising edge of CSB.                      *)
(*                                                                         *)
(* The function neither sleeps nor is called by an interrupt handler, and  *)
(* the boards have one processor: writes do not overlap.  ar7240_i2s.c has *)
(* the same functions.                                                     *)
(***************************************************************************)
EXTENDS Naturals, Sequences

CONSTANTS
  Lines0,   \* the levels the three lines may have when the module is loaded
  Shift0,   \* what the codec's shift register may hold then
  Later,    \* the writes made after loading: sets of <<register, data>>
  MaxWrites \* bound: writes made after loading

WordMax == 65535  \* the largest unsigned short

ASSUME Wm8978Assumption ==
  /\ Lines0 \subseteq [{"CSB", "SDIN", "SCLK"} -> {0, 1}]
  /\ Shift0 \subseteq 0 .. WordMax
  /\ Later \subseteq (1 .. 127) \X (0 .. 511)
  /\ MaxWrites \in Nat

VARIABLES
  (* the lines and the codec *)
  line,   \* the level of each line
  shift,  \* the last 16 bits the codec took in
  regs,   \* its registers
  (* the driver *)
  codec_pc, \* the part of wm8978_write_reg() it is in, "idle" between calls
  bit,    \* i, the bit being sent
  op,     \* which call of ar7240_gpio_setpin() within that part comes next
  val,    \* the word being sent, shifted left once per bit
  word,   \* the write being made, <<>> once the codec has acted on it
  done    \* writes completed since the module was loaded

codec_vars == <<line, shift, regs, codec_pc, bit, op, val, word, done>>

Registers == 0 .. 127

(* init_wm8978(): what is written when the module is loaded.  The comments *)
(* of the code name what the bits do.                                      *)
init_wm8978 == <<
  <<0, 0>>, <<3, 111>>, <<1, 31>>, <<2, 389>>, <<6, 0>>,
  <<4, 16>>, <<43, 16>>, <<9, 80>>, <<13, 33>>, <<7, 1>> >>

CodecTypeOK ==
  /\ line \in [{"CSB", "SDIN", "SCLK"} -> {0, 1}]
  /\ shift \in 0 .. WordMax
  /\ DOMAIN regs = Registers
  /\ \A r \in Registers : regs[r] \in 0 .. 511
  /\ codec_pc \in {"idle", "head", "bits", "end"}
  /\ bit \in 0 .. 15
  /\ op \in 1 .. 4
  /\ val \in 0 .. WordMax
  /\ word = <<>> \/ word \in Registers \X (0 .. 511)
  /\ done \in 0 .. Len(init_wm8978) + MaxWrites

CodecInit ==
  /\ line \in Lines0
  /\ shift \in Shift0
  /\ regs = [r \in Registers |-> 0]
  /\ codec_pc = "idle"
  /\ bit = 0
  /\ op = 1
  /\ val = 0
  /\ word = <<>>
  /\ done = 0
-----------------------------------------------------------------------------
(* The codec: what a change of the lines to `new' makes it do.             *)
Rises(pin, new) == line[pin] = 0 /\ new[pin] = 1

Latch ==
  IF shift < 512
    THEN [r \in Registers |-> 0]
    ELSE [regs EXCEPT ![shift \div 512] = shift % 512]

Codec(new) ==
  /\ shift' = IF Rises("SCLK", new) THEN (2 * shift + new["SDIN"]) % 65536 ELSE shift
  /\ regs' = IF Rises("CSB", new) THEN Latch ELSE regs

setpin_clears_others(pin, to) ==
  LET new == [p \in DOMAIN line |-> IF p = pin THEN to ELSE 0]
  IN  line' = new /\ Codec(new)

(***************************************************************************)
(* ar7240_gpio_setpin() makes the three lines inputs, reads all levels,    *)
(* and drives the lines again with the levels it read and the one it was   *)
(* asked for.  A line that is not driven for so short a time keeps its     *)
(* level.                                                                  *)
(***************************************************************************)
ar7240_gpio_setpin(pin, to) ==
  LET new == [line EXCEPT ![pin] = to]
  IN  line' = new /\ Codec(new)
-----------------------------------------------------------------------------
(* The bit of val that is sent next, and val, an unsigned short, after it. *)
HighBit == val \div 32768
Shl(v) == (2 * v) % 65536

(* The calls of ar7240_gpio_setpin() in each part of wm8978_write_reg().   *)
PartNoPulse == [
  head |-> << <<"CSB", 1>>, <<"SDIN", 1>>, <<"SCLK", 1>> >>,
  bits |-> << <<"SCLK", 0>>, <<"SDIN", HighBit>>, <<"SCLK", 1>> >>,
  end  |-> << <<"CSB", 1>>, <<"SDIN", 1>>, <<"SCLK", 1>> >> ]

Part == [
  head |-> << <<"CSB", 1>>, <<"SDIN", 1>>, <<"SCLK", 1>> >>,
  bits |-> << <<"SCLK", 0>>, <<"SDIN", HighBit>>, <<"SCLK", 1>> >>,
  end  |-> << <<"CSB", 0>>, <<"CSB", 1>>, <<"SDIN", 1>>, <<"SCLK", 1>> >> ]

(* The word (reg << 9) | (data & 0x1ff) of an unsigned short.              *)
Control(w) == (512 * w[1] + (w[2] % 512)) % 65536

(* A call: the next write of init_wm8978(), then whatever the ioctls ask.  *)
wm8978_write_reg ==
  /\ codec_pc = "idle"
  /\ IF done < Len(init_wm8978)
       THEN word' = init_wm8978[done + 1]
       ELSE done < Len(init_wm8978) + MaxWrites /\ word' \in Later
  /\ val' = Control(word')
  /\ codec_pc' = "head"
  /\ op' = 1
  /\ bit' = 0
  /\ UNCHANGED <<line, shift, regs, done>>

(* One call of ar7240_gpio_setpin(), and on to the next one.               *)
SetPin ==
  /\ codec_pc # "idle"
  /\ ar7240_gpio_setpin(Part[codec_pc][op][1], Part[codec_pc][op][2])
  /\ word' = IF codec_pc = "end" /\ Part["end"][op] = <<"CSB", 1>>
               THEN <<>> ELSE word
  /\ IF op < Len(Part[codec_pc])
       THEN op' = op + 1 /\ UNCHANGED <<codec_pc, bit, val, done>>
       ELSE /\ op' = 1
            /\ CASE codec_pc = "head" ->
                      codec_pc' = "bits" /\ UNCHANGED <<bit, val, done>>
                 [] codec_pc = "bits" /\ bit < 15 ->
                      bit' = bit + 1 /\ val' = Shl(val) /\ UNCHANGED <<codec_pc, done>>
                 [] codec_pc = "bits" /\ bit = 15 ->
                      codec_pc' = "end" /\ val' = Shl(val) /\ UNCHANGED <<bit, done>>
                 [] codec_pc = "end" ->
                      codec_pc' = "idle" /\ done' = done + 1 /\ UNCHANGED <<bit, val>>

CodecNext == wm8978_write_reg \/ SetPin

(* The function runs to its end with interrupts disabled.                  *)
CodecSpec == CodecInit /\ [][CodecNext]_codec_vars /\ WF_codec_vars(SetPin)
-----------------------------------------------------------------------------
(***************************************************************************)
(* Properties.                                                             *)
(***************************************************************************)

(* Every write reaches the codec whole, once and in order, whatever the    *)
(* levels of the lines and the bits in the codec were when the module was  *)
(* loaded: an edge of CSB that the first write finds may make the codec    *)
(* act on a word nobody sent, but only before the software reset.          *)
Registers_ == INSTANCE CodecRegisters
  WITH Data <- 0 .. 511, pending <- word,
       known <- (done > 0 \/ (codec_pc = "end" /\ word = <<>>))
ImplementsRegisters == Registers_!Spec

(* Between writes the codec is deselected for a clock edge: CSB, SDIN and  *)
(* SCLK are high, so that the head of the next write makes no edge.        *)
QuietBetweenWrites ==
  codec_pc = "idle" /\ done > 0 => \A p \in DOMAIN line : line[p] = 1

(* The types, and that rest: wm8978_write_reg() shifts an unsigned short,  *)
(* and leaves the lines as the next call needs them.                       *)
LinesInv == CodecTypeOK /\ QuietBetweenWrites
=============================================================================
