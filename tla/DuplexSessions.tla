--------------------------- MODULE DuplexSessions ---------------------------
(***************************************************************************)
(* Which files may use the device of ar7240_i2s.c at the same time, and on *)
(* which memory: open(), read(), write(), ioctl() and close() with the     *)
(* modes a file can have.  The driver has one ring per direction; a file   *)
(* that reads and writes gives it a ring for reading only, while its       *)
(* write() uses the other one.  What the rings hold is the subject of      *)
(* PlaybackRing and CaptureRing.                                           *)
(***************************************************************************)
EXTENDS Naturals, FiniteSets

CONSTANTS
  Files,        \* files that may be open at the same time
  Modes,        \* sets of directions a file is opened for
  InitOutcomes  \* what the allocations of ar7240_i2s_init() may do

Sides == {"capture", "playback"}

ASSUME DuplexAssumption ==
  /\ Modes \subseteq (SUBSET Sides) \ {{}}
  /\ InitOutcomes \subseteq {"ok", "no_desc", "no_buf"}

VARIABLES
  f_mode,   \* the directions of each file, {} while it is closed
  opened,   \* ropened and popened: 0 closed, 1 opened, 2 used
  ring,     \* db_desc: the descriptors of each direction
  buf,      \* sc_rmall_buf and sc_pmall_buf: its buffers
  running,  \* is the engine of the direction processing descriptors?
  aim,      \* does its pointer lie in the "ring" that is live, or is it "gone"?
  strayed,  \* history: was a descriptor used that is not of a live ring?
  twice,    \* history: were buffers freed a second time?
  clean     \* history: has every file been opened one way, with memory for it?

vars == <<f_mode, opened, ring, buf, running, aim, strayed, twice, clean>>

Memory == {"none", "live", "freed"}

TypeOK ==
  /\ f_mode \in [Files -> Modes \cup {{}}]
  /\ opened \in [Sides -> 0 .. 2]
  /\ ring \in [Sides -> Memory]
  /\ buf \in [Sides -> Memory]
  /\ running \in [Sides -> BOOLEAN]
  /\ aim \in [Sides -> {"ring", "gone"}]
  /\ strayed \in BOOLEAN
  /\ twice \in BOOLEAN
  /\ clean \in BOOLEAN

Init ==
  /\ f_mode = [f \in Files |-> {}]
  /\ opened = [s \in Sides |-> 0]
  /\ ring = [s \in Sides |-> "none"]
  /\ buf = [s \in Sides |-> "none"]
  /\ running = [s \in Sides |-> FALSE]
  /\ aim = [s \in Sides |-> "gone"]
  /\ strayed = FALSE
  /\ twice = FALSE
  /\ clean = TRUE

(* FMODE_READ decides, in open(), ioctl() and close().                     *)
side_of_anyone(mode) == "capture"

SideOf(mode) == IF "capture" \in mode THEN "capture" ELSE "playback"
-----------------------------------------------------------------------------
(***************************************************************************)
(* ar7240_i2s_init().  Without memory for the descriptors open() fails;    *)
(* without memory for the buffers it succeeds, on descriptors that were    *)
(* freed again together with buffers of an earlier session, if there was   *)
(* one.  The allocator may place a new ring where the engine points.       *)
(***************************************************************************)
ar7240_i2s_init(s, outcome) ==
  /\ opened' = [opened EXCEPT ![s] = 1]
  /\ CASE outcome = "ok" ->
            /\ ring' = [ring EXCEPT ![s] = "live"]
            /\ buf' = [buf EXCEPT ![s] = "live"]
            /\ aim' \in { [aim EXCEPT ![s] = where] : where \in {"ring", "gone"} }
            /\ UNCHANGED twice
       [] outcome = "no_desc" ->
            /\ ring' = [ring EXCEPT ![s] = "none"]
            /\ UNCHANGED <<buf, aim, twice>>
       [] outcome = "no_buf" ->
            /\ ring' = [ring EXCEPT ![s] = "freed"]
            /\ twice' = (twice \/ buf[s] = "freed")
            /\ UNCHANGED <<buf, aim>>

(* A direction that is in use is refused.                                  *)
busy_for_readers(mode) == "capture" \in mode /\ opened["capture"] # 0

Busy(mode) == \E s \in mode : opened[s] # 0

ar7240_i2s_open(f) ==
  /\ f_mode[f] = {}
  /\ \E mode \in Modes, outcome \in InitOutcomes :
       /\ ~Busy(mode)
       /\ ar7240_i2s_init(SideOf(mode), outcome)
       /\ f_mode' = IF outcome = "no_desc" THEN f_mode ELSE [f_mode EXCEPT ![f] = mode]
       /\ clean' = (clean /\ outcome = "ok" /\ Cardinality(mode) = 1)
  /\ UNCHANGED <<running, strayed>>
-----------------------------------------------------------------------------
Uses(s) == strayed' = (strayed \/ ring[s] # "live")

desc_stays(s) == aim' = aim

ar7240_i2sound_dma_desc(s) == aim' = [aim EXCEPT ![s] = IF ring[s] = "live" THEN "ring" ELSE "gone"]
ar7240_i2sound_dma_go(s) == running' = [running EXCEPT ![s] = TRUE]

(* read() and write(): the first of a session starts the engine at the     *)
(* tail, the later ones resume it.                                         *)
Transfer(f, s) ==
  /\ s \in f_mode[f]
  /\ opened' = [opened EXCEPT ![s] = 2]
  /\ Uses(s)
  /\ IF opened[s] < 2 THEN ar7240_i2sound_dma_desc(s) ELSE UNCHANGED aim
  /\ ar7240_i2sound_dma_go(s)
  /\ UNCHANGED <<f_mode, ring, buf, twice, clean>>

ar7240_i2s_read(f) == Transfer(f, "capture")
ar9100_i2s_write(f) == Transfer(f, "playback")

(* Every command writes the sample size into the descriptors of the ring   *)
(* of the file; SNDCTL_DSP_RESET then resumes the engine of the direction  *)
(* that its argument names.                                                *)
ar7240_i2s_ioctl(f) ==
  /\ f_mode[f] # {}
  /\ Uses(SideOf(f_mode[f]))
  /\ \/ \E data \in Sides : ar7240_i2sound_dma_go(data)
     \/ UNCHANGED running
  /\ UNCHANGED <<f_mode, opened, ring, buf, aim, twice, clean>>

(* The wait of close() ends by itself, and the engine is not stopped.      *)
mark_closed(s) == opened' = [opened EXCEPT ![s] = 0]

ar7240_i2s_close(f) ==
  LET s == SideOf(f_mode[f])
  IN  /\ f_mode[f] # {}
      /\ f_mode' = [f_mode EXCEPT ![f] = {}]
      /\ Uses(s)
      /\ twice' = (twice \/ buf[s] = "freed")
      /\ ring' = [ring EXCEPT ![s] = "freed"]
      /\ buf' = [buf EXCEPT ![s] = "freed"]
      /\ aim' = [aim EXCEPT ![s] = "gone"]
      /\ mark_closed(s)
      /\ UNCHANGED <<running, clean>>

(* The engine meets a descriptor that is not its own.                      *)
DmaStall(s) ==
  /\ running[s]
  /\ running' = [running EXCEPT ![s] = FALSE]
  /\ UNCHANGED <<f_mode, opened, ring, buf, aim, strayed, twice, clean>>

Next ==
  \/ \E f \in Files :
       \/ ar7240_i2s_open(f) \/ ar7240_i2s_read(f) \/ ar9100_i2s_write(f)
       \/ ar7240_i2s_ioctl(f) \/ ar7240_i2s_close(f)
  \/ \E s \in Sides : DmaStall(s)

Spec == Init /\ [][Next]_vars
-----------------------------------------------------------------------------
(***************************************************************************)
(* Properties.                                                             *)
(***************************************************************************)
Users(s) == {f \in Files : s \in f_mode[f]}

(* As long as every file was opened one way and there was memory for it,   *)
(* a direction has one file at most, and is marked as open while it has.   *)
OneFileEach ==
  clean => \A s \in Sides :
             /\ Cardinality(Users(s)) <= 1
             /\ opened[s] # 0 <=> Users(s) # {}

(* The types, and who has opened what: what ar7240_i2s_open() keeps right. *)
OpenInv == TypeOK /\ OneFileEach

(* Then nobody uses descriptors that are not of a live ring, and close()   *)
(* frees what is there, once, also when the files of the two directions    *)
(* are opened and closed in any order.                                     *)
OnlyLiveRings ==
  clean => /\ ~strayed
           /\ ~twice
           /\ \A s \in Sides : Users(s) # {} <=> ring[s] = "live"

(* The engine of a direction that was used runs in its ring, not where an  *)
(* earlier session left it, whatever SNDCTL_DSP_RESET has resumed before.  *)
StartsInRing ==
  clean => \A s \in Sides : opened[s] = 2 => aim[s] = "ring"
=============================================================================
