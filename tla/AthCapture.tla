----------------------------- MODULE AthCapture -----------------------------
(***************************************************************************)
(* Recording with audio/iis/src/ath_i2s.c: the ring of CaptureRing, with   *)
(* the waiting of AthI2s.  A reader that finds nothing recorded sleeps on  *)
(* wq_tx until an interrupt wakes it or a signal comes; but read() does    *)
(* not look at what ended the wait, so that a signal makes it return 0.    *)
(* The first read() of a session only starts the engine: it returns 0 too. *)
(*                                                                         *)
(* Chunk k is the k-th buffer the engine fills in the session.             *)
(***************************************************************************)
EXTENDS RingWindow

CONSTANTS
  Requests,     \* how many buffers a read() may ask for
  MaxChunks,    \* bound: buffers recorded in a session
  InitOutcomes  \* what the allocations of ath_i2s_init_desc() may do

ASSUME CaptureAssumption ==
  /\ Requests \subseteq Nat \ {0}
  /\ MaxChunks \in Nat
  /\ InitOutcomes \subseteq {"ok", "no_desc", "no_buf"}

VARIABLES
  (* the softc and the descriptors it points to *)
  ropened,    \* 0 closed, 1 opened, 2 read from
  rpause,     \* is recording paused?
  ring,       \* are the descriptors and buffers "live" or "freed" memory?
  OWN,        \* the OWN bit of every descriptor: TRUE = the engine's
  chunk,      \* which chunk each buffer holds
  tail,       \* dmabuf->tail, the next descriptor to copy
  (* the DMA engine and its interrupt *)
  running, aim, head, irq,
  (* the process that has the device open for reading *)
  pc,         \* "closed", "idle", "sleep", "copy", "drain"
  awake,      \* on wq_tx: may it run?
  byte_cnt,   \* buffers it still wants
  got,        \* buffers this call has copied
  ptail,      \* the local variable `tail'
  need_start, \* must this call start the engine?
  signalled,  \* did a signal end the wait of this call?
  (* history *)
  recorded, delivered, clean

memory == <<ring, OWN, chunk, tail>>
engine == <<running, aim, head>>
call == <<byte_cnt, got, ptail, need_start, signalled>>
history == <<recorded, delivered, clean>>
vars == <<ropened, rpause, memory, engine, irq, pc, awake, call, history>>

TypeOK ==
  /\ ropened \in 0 .. 2
  /\ rpause \in BOOLEAN
  /\ ring \in {"live", "freed"}
  /\ OWN \in [Desc -> BOOLEAN]
  /\ chunk \in [Desc -> Nat]
  /\ tail \in Desc
  /\ running \in BOOLEAN
  /\ aim \in {"ring", "gone"}
  /\ head \in Desc
  /\ irq \in BOOLEAN
  /\ pc \in {"closed", "idle", "sleep", "copy", "drain"}
  /\ awake \in BOOLEAN
  /\ byte_cnt \in Nat
  /\ got \in Nat
  /\ ptail \in Desc
  /\ need_start \in BOOLEAN
  /\ signalled \in BOOLEAN
  /\ recorded \in Nat
  /\ delivered \in Nat
  /\ clean \in BOOLEAN

Init ==
  /\ ropened = 0
  /\ rpause = FALSE
  /\ ring = "freed"
  /\ OWN = [d \in Desc |-> FALSE]
  /\ chunk = [d \in Desc |-> 0]
  /\ tail = 0
  /\ running = FALSE
  /\ aim = "gone"
  /\ head = 0
  /\ irq = FALSE
  /\ pc = "closed"
  /\ awake = TRUE
  /\ byte_cnt = 0
  /\ got = 0
  /\ ptail = 0
  /\ need_start = FALSE
  /\ signalled = FALSE
  /\ recorded = 0
  /\ delivered = 0
  /\ clean = FALSE
-----------------------------------------------------------------------------
(* ath_i2s_open() with ath_i2s_init_desc() for a file opened for reading:  *)
(* every descriptor is the engine's from the start.                        *)
init_owned_by_process(outcome) ==
  /\ ropened' = 1
  /\ rpause' = FALSE
  /\ tail' = IF outcome = "ok" THEN 0 ELSE tail
  /\ ring' = IF outcome = "ok" THEN "live" ELSE "freed"
  /\ OWN' = [d \in Desc |-> FALSE]
  /\ chunk' = [d \in Desc |-> 0]
  /\ aim' \in IF outcome = "ok" THEN {"ring", "gone"} ELSE {"gone"}

ath_i2s_init_desc(outcome) ==
  /\ ropened' = 1
  /\ rpause' = FALSE
  /\ tail' = IF outcome = "ok" THEN 0 ELSE tail
  /\ ring' = IF outcome = "ok" THEN "live" ELSE "freed"
  /\ OWN' = [d \in Desc |-> outcome = "ok"]
  /\ chunk' = [d \in Desc |-> 0]
  /\ aim' \in IF outcome = "ok" THEN {"ring", "gone"} ELSE {"gone"}

ath_i2s_open ==
  /\ pc = "closed"
  /\ ropened = 0
  /\ \E outcome \in InitOutcomes :
       /\ ath_i2s_init_desc(outcome)
       /\ pc' = IF outcome = "no_desc" THEN "closed" ELSE "idle"
       /\ clean' = (outcome = "ok" /\ ~running)
  /\ recorded' = 0
  /\ delivered' = 0
  /\ UNCHANGED <<running, head, irq, awake, call>>
-----------------------------------------------------------------------------
(***************************************************************************)
(* The head of ath_i2s_read().  The call that is to start the engine does  *)
(* not wait: it finds every descriptor the engine's.                       *)
(***************************************************************************)
ath_i2s_read ==
  /\ pc = "idle"
  /\ byte_cnt' \in Requests
  /\ got' = 0
  /\ ptail' = tail
  /\ need_start' = (ropened < 2)
  /\ signalled' = FALSE
  /\ ropened' = 2
  /\ pc' = IF ropened < 2 THEN "copy" ELSE "sleep"
  /\ awake' = TRUE
  /\ UNCHANGED <<rpause, memory, engine, irq, history>>

(* What the process reads as OWN; freed memory may hold anything.          *)
SeesAllFree(d) == TRUE
SeesFree(d) == ring = "freed" \/ ~OWN[d]
SeesOwned(d) == ring = "freed" \/ OWN[d]

(* wait_event_interruptible(sc->wq_tx, desc[tail].OWN != 1)                *)
StopWaiting ==
  /\ pc = "sleep"
  /\ awake
  /\ SeesFree(ptail)
  /\ pc' = "copy"
  /\ UNCHANGED <<ropened, rpause, memory, engine, irq, awake, call, history>>

GoToSleep ==
  /\ pc = "sleep"
  /\ awake
  /\ SeesOwned(ptail)
  /\ awake' = FALSE
  /\ UNCHANGED <<ropened, rpause, memory, engine, irq, pc, call, history>>

(* A signal ends the wait, and read() goes on as if there were something.  *)
Interrupted ==
  /\ pc = "sleep"
  /\ SeesOwned(ptail)
  /\ pc' = "copy"
  /\ awake' = TRUE
  /\ signalled' = TRUE
  /\ UNCHANGED <<ropened, rpause, memory, engine, irq, byte_cnt, got, ptail,
                 need_start, history>>

(* One turn of the loop: copy a whole buffer, hand the descriptor back.    *)
CopyDescriptor ==
  /\ pc = "copy"
  /\ byte_cnt > 0
  /\ SeesFree(ptail)
  /\ OWN' = [OWN EXCEPT ![ptail] = TRUE]
  /\ ptail' = next_tail(ptail)
  /\ byte_cnt' = byte_cnt - 1
  /\ got' = got + 1
  /\ delivered' = IF clean THEN delivered + 1 ELSE delivered
  /\ UNCHANGED <<ropened, rpause, ring, chunk, tail, engine, irq, pc, awake,
                 need_start, signalled, recorded, clean>>

CopyFault ==
  /\ pc = "copy"
  /\ byte_cnt > 0
  /\ SeesFree(ptail)
  /\ pc' = "idle"
  /\ clean' = FALSE
  /\ UNCHANGED <<ropened, rpause, memory, engine, irq, awake, call, recorded,
                 delivered>>

(* The commands to the engine, as in PlaybackRing, but to the TX channel.  *)
ath_i2s_dma_start ==
  /\ running' = TRUE
  /\ head' = tail
  /\ aim' = IF ring = "live" THEN "ring" ELSE "gone"

ath_i2s_dma_resume ==
  /\ running' = TRUE
  /\ UNCHANGED <<head, aim>>

kick_start_only == IF need_start THEN ath_i2s_dma_start ELSE UNCHANGED engine

(* read() starts the engine, or resumes it unless recording is paused.     *)
Kick ==
  IF need_start
    THEN ath_i2s_dma_start
    ELSE IF rpause THEN UNCHANGED engine ELSE ath_i2s_dma_resume

(* The end of read(): save the tail, see to the engine.                    *)
KickEngine ==
  /\ pc = "copy"
  /\ byte_cnt = 0 \/ SeesOwned(ptail)
  /\ tail' = ptail
  /\ Kick
  /\ pc' = "idle"
  /\ UNCHANGED <<ropened, rpause, ring, OWN, chunk, irq, awake, call, history>>
-----------------------------------------------------------------------------
(***************************************************************************)
(* I2S_PAUSE and I2S_RESUME with an argument other than 0, by any process  *)
(* that has the device open.                                               *)
(***************************************************************************)
Started == ropened = 2 /\ ~(pc = "copy" /\ need_start)

I2S_PAUSE ==
  /\ rpause' = TRUE
  /\ running' = FALSE
  /\ UNCHANGED <<ropened, memory, aim, head, irq, pc, awake, call, history>>

I2S_RESUME ==
  /\ rpause' = FALSE
  /\ ath_i2s_dma_resume
  /\ clean' = (clean /\ Started)
  /\ UNCHANGED <<ropened, memory, irq, pc, awake, call, recorded, delivered>>

(* A paused player that closes the device resumes the channel its f_mode   *)
(* stands for, which is the one that records (see Release in AthI2s).      *)
PausedPlayerCloses ==
  /\ ath_i2s_dma_resume
  /\ clean' = (clean /\ Started)
  /\ UNCHANGED <<ropened, rpause, memory, irq, pc, awake, call, recorded, delivered>>
-----------------------------------------------------------------------------
(***************************************************************************)
(* ath_i2s_close().  Paused, it takes every descriptor from the engine and *)
(* resumes it.  Otherwise it sleeps until no descriptor is the engine's:   *)
(* until the engine has recorded into the whole ring once more.            *)
(***************************************************************************)
Release ==
  /\ ropened' = 0
  /\ rpause' = FALSE
  /\ ring' = "freed"
  /\ OWN' = [d \in Desc |-> FALSE]
  /\ chunk' = [d \in Desc |-> 0]
  /\ aim' = "gone"
  /\ pc' = "closed"
  /\ clean' = FALSE
  /\ UNCHANGED <<tail, head, irq, awake, call, recorded, delivered>>

ath_i2s_close ==
  /\ pc = "idle"
  /\ IF rpause
       THEN Release /\ running' = TRUE
       ELSE /\ pc' = "drain"
            /\ UNCHANGED <<ropened, rpause, memory, engine, irq, awake, call,
                           history>>

CloseDrained ==
  /\ pc = "drain"
  /\ \A d \in Desc : SeesFree(d)
  /\ Release
  /\ UNCHANGED running
-----------------------------------------------------------------------------
(* ath_i2s_intr(): wake the reader, acknowledge.                           *)
intr_wakes_writer ==
  /\ irq
  /\ irq' = FALSE
  /\ UNCHANGED <<ropened, rpause, memory, engine, pc, awake, call, history>>

ath_i2s_intr ==
  /\ irq
  /\ irq' = FALSE
  /\ awake' = TRUE
  /\ UNCHANGED <<ropened, rpause, memory, engine, pc, call, history>>

(***************************************************************************)
(* The DMA engine (hardware), which raises the interrupt for every         *)
(* descriptor it has filled.                                               *)
(***************************************************************************)
InRing == running /\ aim = "ring"

DmaRecord ==
  /\ InRing
  /\ OWN[head]
  /\ clean => recorded < MaxChunks
  /\ chunk' = [chunk EXCEPT ![head] = recorded]
  /\ OWN' = [OWN EXCEPT ![head] = FALSE]
  /\ head' = next_tail(head)
  /\ irq' = TRUE
  /\ recorded' = IF clean THEN recorded + 1 ELSE recorded
  /\ UNCHANGED <<ropened, rpause, ring, tail, running, aim, pc, awake, call,
                 delivered, clean>>

DmaStall ==
  /\ InRing
  /\ ~OWN[head]
  /\ running' = FALSE
  /\ UNCHANGED <<ropened, rpause, memory, aim, head, irq, pc, awake, call,
                 history>>

DmaStray ==
  /\ running
  /\ aim = "gone"
  /\ running' \in BOOLEAN
  /\ head' = next_tail(head)
  /\ UNCHANGED <<ropened, rpause, memory, aim, irq, pc, awake, call, history>>
-----------------------------------------------------------------------------
Read ==
  \/ StopWaiting
  \/ GoToSleep
  \/ CopyDescriptor
  \/ KickEngine

Next ==
  \/ ath_i2s_open
  \/ ath_i2s_read
  \/ Read
  \/ Interrupted
  \/ CopyFault
  \/ I2S_PAUSE
  \/ I2S_RESUME
  \/ PausedPlayerCloses
  \/ ath_i2s_close
  \/ CloseDrained
  \/ ath_i2s_intr
  \/ DmaRecord
  \/ DmaStall
  \/ DmaStray

Spec == Init /\ [][Next]_vars

(* As in AthI2s.                                                           *)
Fairness ==
  /\ WF_vars(Read)
  /\ WF_vars(CloseDrained)
  /\ WF_vars(ath_i2s_intr)
  /\ WF_vars(rpause /\ I2S_RESUME)
  /\ SF_vars(DmaRecord)

FairSpec == Spec /\ Fairness
-----------------------------------------------------------------------------
(***************************************************************************)
(* Properties, of sessions that are clean as in AthI2s.                    *)
(***************************************************************************)
EngineAt == IF Started THEN head ELSE tail
TakeAt == IF pc = "copy" THEN ptail ELSE tail
Filled == {d \in Desc : ~OWN[d]}

(* The process is given the chunks in the order they were recorded, across *)
(* calls, signals and pauses.                                              *)
InOrder ==
  clean /\ pc = "copy" /\ byte_cnt > 0 /\ SeesFree(ptail) =>
    chunk[ptail] = delivered

(* What was recorded and not yet read is never recorded over.              *)
NothingOverwritten ==
  clean => \A k \in delivered .. recorded - 1 :
             \E d \in Filled : chunk[d] = k

(* The window of CaptureRing, with a reader that sleeps; inductive.        *)
CallInv ==
  /\ pc \in {"copy", "sleep"} => ropened = 2
  /\ pc = "sleep" => ptail = tail /\ ~need_start

SessionInv ==
  /\ pc # "closed"
  /\ ring = "live"
  /\ delivered <= recorded
  /\ IF Started THEN aim = "ring" ELSE ~running

WindowInv == Window(Filled, chunk, delivered, recorded, TakeAt, EngineAt)

RingInv == CallInv /\ (clean => SessionInv /\ WindowInv)

(* It is inductive together with the types.                                *)
IndInv == TypeOK /\ RingInv

(***************************************************************************)
(* The ring, read from the process's end, is a ChunkQueue: every step of   *)
(* the engine and of the process puts a chunk into the queue, takes one    *)
(* from it, ends the session or changes nothing in it.                     *)
(***************************************************************************)
Queue == INSTANCE ChunkQueue WITH
  Capacity <- NUM_DESC,
  good <- clean,
  put <- IF clean THEN recorded ELSE 0,
  queue <- IF clean THEN Held(chunk, TakeAt, recorded - delivered) ELSE <<>>,
  taken <- IF clean THEN delivered ELSE 0

ImplementsQueue == Queue!Spec

(* A read() returns with nothing only if it is the first of the session or *)
(* a signal has ended its wait, however late it was run after its wake-up. *)
EmptyHanded ==
  [][clean /\ KickEngine /\ got = 0 => need_start \/ signalled]_vars

(* Reading never resumes an engine that an ioctl has paused; the close of  *)
(* a paused player does.                                                   *)
PauseHolds ==
  [][rpause /\ rpause' /\ ~need_start /\ ~PausedPlayerCloses =>
       (running' => running)]_vars

(***************************************************************************)
(* Nobody waits in vain, as in AthI2s: once started and not paused the     *)
(* engine stands still only if there is no room, and a reader sleeps only  *)
(* while the engine is at the descriptor it waits for, or the interrupt    *)
(* has yet to be served.                                                   *)
(***************************************************************************)
StandsOnlyWhenFull ==
  clean /\ Started /\ pc # "copy" /\ ~rpause /\ Filled # Desc => InRing

SleepsForTheEngine ==
  clean /\ pc = "sleep" /\ ~awake => irq \/ (OWN[ptail] /\ head = ptail)

NoVainWait == StandsOnlyWhenFull /\ SleepsForTheEngine

(* A read() returns: the interrupt that its sleep waits for comes and is   *)
(* not lost, if who pauses resumes.                                        *)
ReadReturns == (pc = "sleep") ~> (pc = "idle" \/ recorded = MaxChunks \/ ~clean)

(* close() returns if the session has read: the engine it waits for fills  *)
(* the ring.  One that has not would wait for an engine nobody started.    *)
CloseReturns ==
  (pc = "drain" /\ clean /\ Started) ~> (pc = "closed" \/ recorded = MaxChunks)
=============================================================================
