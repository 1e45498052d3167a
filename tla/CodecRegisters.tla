--------------------------- MODULE CodecRegisters ---------------------------
(***************************************************************************)
(* What wm8978_write_reg() promises: the registers of the WM8978 codec     *)
(* change by whole writes, one at a time, in the order they are made.  The *)
(* codec has no reset line, so what its registers hold is unknown until    *)
(* the driver's first write, a software reset, has arrived.                *)
(***************************************************************************)
EXTENDS Naturals

CONSTANTS
  Registers,  \* the registers of the codec; writing register 0 resets it
  Data        \* the values a register can hold

VARIABLES
  regs,     \* the codec's registers
  pending,  \* the write being made: <<register, value>>, or <<>>
  known     \* has the first software reset arrived?

vars == <<regs, pending, known>>

Defaults == [r \in Registers |-> 0]

(* A write of a value; register 0 gives all of them their default.         *)
Written(r, d) == IF r = 0 THEN Defaults ELSE [regs EXCEPT ![r] = d]

Init ==
  /\ regs = Defaults
  /\ pending = <<>>
  /\ known = FALSE

Begin ==
  /\ pending = <<>>
  /\ pending' \in Registers \X Data
  /\ known \/ pending'[1] = 0
  /\ UNCHANGED <<regs, known>>

Arrive ==
  /\ pending # <<>>
  /\ regs' = Written(pending[1], pending[2])
  /\ pending' = <<>>
  /\ known' = TRUE

(* Before the first write has arrived the lines may have been anything.    *)
Disturbed ==
  /\ ~known
  /\ regs' \in [Registers -> Data]
  /\ UNCHANGED <<pending, known>>

Next == Begin \/ Arrive \/ Disturbed

(* A write that was begun is completed.                                    *)
Spec == Init /\ [][Next]_vars /\ WF_vars(Arrive)
=============================================================================
