----------------------------- MODULE CaptureRing -----------------------------
(***************************************************************************)
(* The capture side of the I2S audio driver, audio/iis/src/glzt_i2s.c: the *)
(* ring of PlaybackRing with the roles exchanged.  Every descriptor is the *)
(* engine's when the device is opened; the engine records into the one it  *)
(* points at, clears OWN and follows NextPtr, and stops at the first that  *)
(* is not its own until it is told to RESUME; read() copies descriptors    *)
(* out from `tail' and hands each one back by setting OWN.                 *)
(*                                                                         *)
(* Chunk k is the k-th buffer recorded since the device was opened.        *)
(***************************************************************************)
EXTENDS RingWindow

CONSTANTS
  Requests,      \* the read() calls, in descriptors their byte counts reach
  MaxChunks,     \* bound: chunks recorded between open and close
  DrainSteps,    \* descriptors the engine can finish during close's udelay()
  InitOutcomes   \* what the allocations of ar7240_i2s_init() may do

ASSUME CaptureAssumption ==
  /\ Requests \subseteq Nat
  /\ MaxChunks \in Nat
  /\ DrainSteps \in Nat
  /\ InitOutcomes \subseteq {"ok", "no_desc", "no_buf"}

VARIABLES
  (* the softc and the descriptors it points to *)
  ropened,    \* 0 closed, 1 opened, 2 read from
  ring,       \* are the descriptors and buffers "live" or "freed" memory?
  OWN,        \* the OWN bit of every descriptor: TRUE = the engine's
  chunk,      \* which chunk each buffer holds
  tail,       \* dmabuf->tail, the next descriptor to copy out
  (* the DMA engine *)
  running,    \* is it processing descriptors?
  aim,        \* does its pointer lie in this "ring", or is the memory "gone"?
  head,       \* the descriptor it points at
  (* the process that has the device open *)
  pc,         \* "closed", "idle", "copy" (in the loop of read()), "wait"
  byte_cnt,   \* what the call may still copy, in descriptors
  ptail,      \* the local variable `tail' of ar7240_i2s_read()
  need_start, \* must this call start the engine?
  (* history *)
  recorded,   \* chunks the engine has recorded in this session
  delivered,  \* chunks the process has been given in this session
  clean,      \* nothing has upset the order of this session yet
  drain       \* descriptors the engine may still finish while close() waits

device == <<ropened, ring, OWN, chunk, tail>>
engine == <<running, aim, head>>
process == <<pc, byte_cnt, ptail, need_start>>
history == <<recorded, delivered, clean>>
vars == <<device, engine, process, history, drain>>

TypeOK ==
  /\ ropened \in 0 .. 2
  /\ ring \in {"live", "freed"}
  /\ OWN \in [Desc -> BOOLEAN]
  /\ chunk \in [Desc -> Nat]
  /\ tail \in Desc
  /\ running \in BOOLEAN
  /\ aim \in {"ring", "gone"}
  /\ head \in Desc
  /\ pc \in {"closed", "idle", "copy", "wait"}
  /\ byte_cnt \in Nat
  /\ ptail \in Desc
  /\ need_start \in BOOLEAN
  /\ recorded \in Nat
  /\ delivered \in Nat
  /\ clean \in BOOLEAN
  /\ drain \in 0 .. DrainSteps

Init ==
  /\ ropened = 0
  /\ ring = "freed"
  /\ OWN = [d \in Desc |-> FALSE]
  /\ chunk = [d \in Desc |-> 0]
  /\ tail = 0
  /\ running = FALSE
  /\ aim = "gone"
  /\ head = 0
  /\ pc = "closed"
  /\ byte_cnt = 0
  /\ ptail = 0
  /\ need_start = FALSE
  /\ recorded = 0
  /\ delivered = 0
  /\ clean = FALSE
  /\ drain = 0
-----------------------------------------------------------------------------
(***************************************************************************)
(* ar7240_i2s_open() with ar7240_i2s_init() for a file opened for reading: *)
(* as for writing (see PlaybackRing), but every descriptor is the engine's.*)
(***************************************************************************)
init_owned_by_process(outcome) ==
  /\ ropened' = 1
  /\ tail' = IF outcome = "ok" THEN 0 ELSE tail
  /\ ring' = IF outcome = "ok" THEN "live" ELSE "freed"
  /\ OWN' = [d \in Desc |-> FALSE]
  /\ chunk' = [d \in Desc |-> 0]
  /\ aim' \in IF outcome = "ok" THEN {"ring", "gone"} ELSE {"gone"}

ar7240_i2s_init(outcome) ==
  /\ ropened' = 1
  /\ tail' = IF outcome = "ok" THEN 0 ELSE tail
  /\ ring' = IF outcome = "ok" THEN "live" ELSE "freed"
  /\ OWN' = [d \in Desc |-> outcome = "ok"]
  /\ chunk' = [d \in Desc |-> 0]
  /\ aim' \in IF outcome = "ok" THEN {"ring", "gone"} ELSE {"gone"}

ar7240_i2s_open ==
  /\ pc = "closed"
  /\ ropened = 0
  /\ \E outcome \in InitOutcomes :
       /\ ar7240_i2s_init(outcome)
       /\ pc' = IF outcome = "no_desc" THEN "closed" ELSE "idle"
       /\ clean' = (outcome = "ok" /\ ~running)
  /\ recorded' = 0
  /\ delivered' = 0
  /\ UNCHANGED <<running, head, byte_cnt, ptail, need_start, drain>>
-----------------------------------------------------------------------------
(* The head of ar7240_i2s_read(), up to its loop.                          *)
ar7240_i2s_read ==
  /\ pc = "idle"
  /\ byte_cnt' \in Requests
  /\ ptail' = tail
  /\ need_start' = (ropened < 2)
  /\ ropened' = 2
  /\ pc' = "copy"
  /\ UNCHANGED <<ring, OWN, chunk, tail, engine, history, drain>>

(* What the loop reads as OWN; freed memory may hold anything.             *)
SeesAllFree(d) == TRUE
SeesFree(d) == ring = "freed" \/ ~OWN[d]
SeesOwned(d) == ring = "freed" \/ OWN[d]

(***************************************************************************)
(* One turn of the loop: copy the descriptor at the tail to the process,   *)
(* hand it back to the engine.  It is always a whole buffer that is copied *)
(* and counted, also when fewer bytes are left of the request.             *)
(***************************************************************************)
CopyDescriptor ==
  /\ pc = "copy"
  /\ byte_cnt > 0
  /\ SeesFree(ptail)
  /\ OWN' = [OWN EXCEPT ![ptail] = TRUE]
  /\ ptail' = next_tail(ptail)
  /\ byte_cnt' = byte_cnt - 1
  /\ delivered' = IF clean THEN delivered + 1 ELSE delivered
  /\ UNCHANGED <<ropened, ring, chunk, tail, engine, pc, need_start,
                 recorded, clean, drain>>

(* copy_to_user() faults: read() returns the bytes not copied, and forgets *)
(* where it was and what it has handed back.                               *)
CopyFault ==
  /\ pc = "copy"
  /\ byte_cnt > 0
  /\ SeesFree(ptail)
  /\ pc' = "idle"
  /\ clean' = FALSE
  /\ UNCHANGED <<device, engine, byte_cnt, ptail, need_start,
                 recorded, delivered, drain>>

(* The commands to the engine, as in PlaybackRing.                         *)
ar7240_i2sound_dma_start ==
  /\ running' = TRUE
  /\ head' = tail
  /\ aim' = IF ring = "live" THEN "ring" ELSE "gone"

dma_resume_skipped == UNCHANGED <<running, head, aim>>

ar7240_i2sound_dma_resume ==
  /\ running' = TRUE
  /\ UNCHANGED <<head, aim>>

(***************************************************************************)
(* The end of read(): save the tail, start or resume the engine, return    *)
(* the bytes of the descriptors copied.  If the first is still being       *)
(* recorded that is 0: read() never waits.                                 *)
(***************************************************************************)
KickEngine ==
  /\ pc = "copy"
  /\ byte_cnt = 0 \/ SeesOwned(ptail)
  /\ tail' = ptail
  /\ IF need_start
       THEN ar7240_i2sound_dma_start
       ELSE ar7240_i2sound_dma_resume
  /\ pc' = "idle"
  /\ UNCHANGED <<ropened, ring, OWN, chunk, byte_cnt, ptail, need_start,
                 history, drain>>
-----------------------------------------------------------------------------
(* ar7240_i2s_close(), as in PlaybackRing: it waits for the engine to have *)
(* done with the descriptors that are its own, and then frees the ring.    *)
FreeRing ==
  /\ ropened' = 0
  /\ ring' = "freed"
  /\ OWN' = [d \in Desc |-> FALSE]
  /\ chunk' = [d \in Desc |-> 0]
  /\ aim' = "gone"
  /\ pc' = "closed"
  /\ byte_cnt' = 0
  /\ ptail' = 0
  /\ need_start' = FALSE
  /\ clean' = FALSE
  /\ UNCHANGED <<tail, running, head, recorded, delivered>>

ar7240_i2s_close ==
  /\ pc = "idle"
  /\ \/ /\ \E d \in Desc : SeesOwned(d)
        /\ pc' = "wait"
        /\ drain' = DrainSteps
        /\ UNCHANGED <<device, engine, byte_cnt, ptail, need_start, history>>
     \/ /\ \A d \in Desc : SeesFree(d)
        /\ FreeRing
        /\ UNCHANGED drain

CloseAfterDelay ==
  /\ pc = "wait"
  /\ FreeRing
  /\ drain' = 0
-----------------------------------------------------------------------------
(***************************************************************************)
(* The DMA engine (hardware).                                              *)
(***************************************************************************)
InRing == running /\ aim = "ring"
HasTime == pc = "wait" => drain > 0

(* It has filled a descriptor: hand it over, follow NextPtr.               *)
DmaRecord ==
  /\ InRing
  /\ HasTime
  /\ OWN[head]
  /\ clean => recorded < MaxChunks
  /\ chunk' = [chunk EXCEPT ![head] = recorded]
  /\ OWN' = [OWN EXCEPT ![head] = FALSE]
  /\ head' = next_tail(head)
  /\ recorded' = IF clean THEN recorded + 1 ELSE recorded
  /\ drain' = IF pc = "wait" THEN drain - 1 ELSE drain
  /\ UNCHANGED <<ropened, ring, tail, running, aim, process, delivered, clean>>

(* It meets a descriptor that is not its own and stops.                    *)
DmaStall ==
  /\ InRing
  /\ ~OWN[head]
  /\ running' = FALSE
  /\ UNCHANGED <<device, aim, head, process, history, drain>>

(* It runs over memory that was freed, and stops when a word there says so.*)
DmaStray ==
  /\ running
  /\ aim = "gone"
  /\ running' \in BOOLEAN
  /\ head' = next_tail(head)
  /\ UNCHANGED <<device, aim, process, history, drain>>
-----------------------------------------------------------------------------
Read == CopyDescriptor \/ KickEngine

Dma == DmaRecord \/ DmaStall

Next ==
  \/ ar7240_i2s_open
  \/ ar7240_i2s_read
  \/ Read
  \/ CopyFault
  \/ ar7240_i2s_close
  \/ CloseAfterDelay
  \/ Dma
  \/ DmaStray

Spec == Init /\ [][Next]_vars

(***************************************************************************)
(* A read() in progress and the delay in close() end, and a running engine *)
(* keeps recording.  That the process keeps asking for data is its own     *)
(* choice, whatever else it asks for in between: the recorder's loop       *)
(* (record() in athplay.c) does.                                           *)
(***************************************************************************)
Fairness == WF_vars(Read) /\ WF_vars(CloseAfterDelay) /\ WF_vars(Dma)
KeepsReading == SF_vars(ar7240_i2s_read /\ byte_cnt' > 0)
FairSpec == Spec /\ Fairness /\ KeepsReading
-----------------------------------------------------------------------------
(***************************************************************************)
(* Properties.  A session is `clean' if the engine was at rest when the    *)
(* device was opened, the allocations succeeded, and no copy has faulted   *)
(* since.                                                                  *)
(***************************************************************************)

(* Has the session started the engine?                                     *)
Started == ropened = 2 /\ ~(pc = "copy" /\ need_start)

(* Where the engine is, or will be put when it is started.                 *)
EngineAt == IF Started THEN head ELSE tail

(* Where the process will take the next chunk from.                        *)
TakeAt == IF pc = "copy" THEN ptail ELSE tail

(* The descriptors that are the process's.                                 *)
Filled == {d \in Desc : ~OWN[d]}

(* The process is given the chunks in the order they were recorded: what   *)
(* the loop of read() is about to copy is always the chunk after the last  *)
(* one it copied, in this call or an earlier one.                          *)
InOrder ==
  clean /\ pc = "copy" /\ byte_cnt > 0 /\ SeesFree(ptail) =>
    chunk[ptail] = delivered

(* What was recorded and not yet read is still there: the engine never     *)
(* records over it, however far the process falls behind.                  *)
NothingOverwritten ==
  clean => \A k \in delivered .. recorded - 1 :
             \E d \in Filled : chunk[d] = k

(* Once started, the engine stands still only if there is no room: sound   *)
(* is lost because nobody reads, never because a read() that made room has *)
(* left an engine behind that stopped before.                              *)
StandsOnlyWhenFull ==
  clean /\ Started /\ pc # "copy" /\ Filled # Desc => InRing

(* A process that keeps reading keeps the recording going: the engine that *)
(* stopped in a full ring is resumed once there is room again.             *)
RecordingGoesOn == (clean /\ ropened = 2) ~> (recorded = MaxChunks \/ ~clean)

(***************************************************************************)
(* Why: what was recorded and not yet read is a window of the ring that    *)
(* starts where the process takes and ends where the engine is.            *)
(***************************************************************************)
SessionInv ==
  /\ pc # "closed"
  /\ ring = "live"
  /\ delivered <= recorded
  /\ IF Started THEN aim = "ring" ELSE ~running

WindowInv == Window(Filled, chunk, delivered, recorded, TakeAt, EngineAt)

(* The window of a clean session; the inductive invariant of this module.  *)
RingInv ==
  /\ pc = "copy" => ropened = 2
  /\ clean => SessionInv /\ WindowInv

(* It is inductive together with the types.                                *)
IndInv == TypeOK /\ RingInv

(***************************************************************************)
(* The ring, read from the process's end, is a ChunkQueue: every step of   *)
(* the engine and of the process puts a chunk into the queue, takes one    *)
(* from it, ends the session or changes nothing in it.                     *)
(***************************************************************************)
Queue == INSTANCE ChunkQueue WITH
  Capacity <- NUM_DESC,
  good <- clean,
  put <- IF clean THEN recorded ELSE 0,
  queue <- IF clean THEN Held(chunk, TakeAt, recorded - delivered) ELSE <<>>,
  taken <- IF clean THEN delivered ELSE 0

ImplementsQueue == Queue!Spec
=============================================================================
