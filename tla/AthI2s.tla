------------------------------- MODULE AthI2s -------------------------------
(***************************************************************************)
(* Playback in audio/iis/src/ath_i2s.c, the interrupt-driven driver for    *)
(* the WASP boards (AOW not defined).  The ring is that of PlaybackRing;   *)
(* what differs is the waiting: a writer that finds the ring full sleeps   *)
(* on wq_rx until the interrupt of a completed descriptor wakes it or a    *)
(* signal interrupts it, close() sleeps until the engine has played all    *)
(* there is, and an ioctl pauses and resumes the engine meanwhile.         *)
(*                                                                         *)
(* Chunk k is the k-th piece of at most ATH_I2S_BUFF_SIZE bytes that the   *)
(* driver accepted since the device was opened.                            *)
(***************************************************************************)
EXTENDS RingWindow

CONSTANTS
  Requests,     \* the write() calls: <<chunks, is the last EAGAIN bytes?>>
  MaxChunks,    \* bound: chunks accepted between open and close
  InitOutcomes  \* what the allocations of ath_i2s_init_desc() may do

ASSUME AthAssumption ==
  /\ Requests \subseteq (Nat \ {0}) \X BOOLEAN
  /\ MaxChunks \in Nat
  /\ InitOutcomes \subseteq {"ok", "no_desc", "no_buf"}

VARIABLES
  (* the softc and the descriptors it points to *)
  popened,    \* 0 closed, 1 opened, 2 written to
  ppause,     \* is playback paused?
  ring,       \* are the descriptors and buffers "live" or "freed" memory?
  OWN,        \* the OWN bit of every descriptor: TRUE = the engine's
  chunk,      \* which chunk each buffer holds
  tail,       \* dmabuf->tail, the next descriptor to fill
  (* the DMA engine and its interrupt *)
  running,    \* is it processing descriptors?
  aim,        \* does its pointer lie in this "ring", or is the memory "gone"?
  head,       \* the descriptor it points at
  irq,        \* RX_DMA_COMPLETE, not yet acknowledged
  (* the process that has the device open for writing *)
  pc,         \* where it is, see below
  awake,      \* on wq_rx: may it run?
  count,      \* its request, in chunks
  odd,        \* is the last of them EAGAIN bytes long?
  first,      \* the first chunk of the request
  todo,       \* tmpcount of ath_i2s_write(), in chunks
  buf,        \* the first chunk of what is still to be sent
  ptail,      \* the local variable `tail' of ath_i2s_wr()
  got,        \* chunks this call of ath_i2s_wr() has taken
  need_start, \* must this call start the engine?
  (* history *)
  played,     \* chunks the engine has finished in this session
  clean       \* nothing has upset the order of this session yet

memory == <<ring, OWN, chunk, tail>>
engine == <<running, aim, head>>
request == <<count, odd, first>>
call == <<ptail, got, need_start>>
vars == <<popened, ppause, memory, engine, irq, pc, awake, request, todo, buf,
          call, played, clean>>

(***************************************************************************)
(* "closed": no file; "idle": open, no call in progress; "call":           *)
(* ath_i2s_write() is about to call ath_i2s_wr(); "sleep": in              *)
(* wait_event_interruptible(); "fill": in its loop; "drain": in the loop   *)
(* of ath_i2s_close().                                                     *)
(***************************************************************************)
Locations == {"closed", "idle", "call", "sleep", "fill", "drain"}

TypeOK ==
  /\ popened \in 0 .. 2
  /\ ppause \in BOOLEAN
  /\ ring \in {"live", "freed"}
  /\ OWN \in [Desc -> BOOLEAN]
  /\ chunk \in [Desc -> Nat]
  /\ tail \in Desc
  /\ running \in BOOLEAN
  /\ aim \in {"ring", "gone"}
  /\ head \in Desc
  /\ irq \in BOOLEAN
  /\ pc \in Locations
  /\ awake \in BOOLEAN
  /\ count \in Nat
  /\ odd \in BOOLEAN
  /\ first \in Nat
  /\ todo \in Nat
  /\ buf \in Nat
  /\ ptail \in Desc
  /\ got \in Nat
  /\ need_start \in BOOLEAN
  /\ played \in Nat
  /\ clean \in BOOLEAN

Init ==
  /\ popened = 0
  /\ ppause = FALSE
  /\ ring = "freed"
  /\ OWN = [d \in Desc |-> FALSE]
  /\ chunk = [d \in Desc |-> 0]
  /\ tail = 0
  /\ running = FALSE
  /\ aim = "gone"
  /\ head = 0
  /\ irq = FALSE
  /\ pc = "closed"
  /\ awake = TRUE
  /\ count = 0
  /\ odd = FALSE
  /\ first = 0
  /\ todo = 0
  /\ buf = 0
  /\ ptail = 0
  /\ got = 0
  /\ need_start = FALSE
  /\ played = 0
  /\ clean = FALSE
-----------------------------------------------------------------------------
(* ath_i2s_open() with ath_i2s_init_desc(), failures as in PlaybackRing.   *)
ath_i2s_init_desc(outcome) ==
  /\ popened' = 1
  /\ ppause' = FALSE
  /\ tail' = IF outcome = "ok" THEN 0 ELSE tail
  /\ ring' = IF outcome = "ok" THEN "live" ELSE "freed"
  /\ OWN' = [d \in Desc |-> FALSE]
  /\ chunk' = [d \in Desc |-> 0]
  /\ aim' \in IF outcome = "ok" THEN {"ring", "gone"} ELSE {"gone"}

ath_i2s_open ==
  /\ pc = "closed"
  /\ popened = 0
  /\ \E outcome \in InitOutcomes :
       /\ ath_i2s_init_desc(outcome)
       /\ pc' = IF outcome = "no_desc" THEN "closed" ELSE "idle"
       /\ clean' = (outcome = "ok" /\ ~running)
  /\ first' = 0
  /\ buf' = 0
  /\ played' = 0
  /\ UNCHANGED <<running, head, irq, awake, count, odd, todo, call>>
-----------------------------------------------------------------------------
(* ath_i2s_write() sends a request with as many calls as it takes.         *)
ath_i2s_write ==
  /\ pc = "idle"
  /\ \E r \in Requests :
       /\ buf + r[1] <= MaxChunks
       /\ count' = r[1]
       /\ odd' = r[2]
       /\ todo' = r[1]
  /\ first' = buf
  /\ pc' = "call"
  /\ UNCHANGED <<popened, ppause, memory, engine, irq, awake, buf, call,
                 played, clean>>

(***************************************************************************)
(* The head of ath_i2s_wr().  A call that has yet to start the engine does *)
(* not wait; any other waits until the descriptor at the tail is free.     *)
(***************************************************************************)
ath_i2s_wr ==
  /\ pc = "call"
  /\ ptail' = tail
  /\ need_start' = (popened < 2)
  /\ popened' = 2
  /\ got' = 0
  /\ pc' = IF popened < 2 THEN "fill" ELSE "sleep"
  /\ awake' = TRUE
  /\ UNCHANGED <<ppause, memory, engine, irq, request, todo, buf, played, clean>>

(* What the process reads as OWN; freed memory may hold anything.          *)
SeesAllFree(d) == TRUE
SeesFree(d) == ring = "freed" \/ ~OWN[d]
SeesOwned(d) == ring = "freed" \/ OWN[d]

(* wait_event_interruptible(sc->wq_rx, desc[tail].OWN != 1)                *)
StopWaiting ==
  /\ pc = "sleep"
  /\ awake
  /\ SeesFree(ptail)
  /\ pc' = "fill"
  /\ UNCHANGED <<popened, ppause, memory, engine, irq, awake, request, todo,
                 buf, call, played, clean>>

GoToSleep ==
  /\ pc = "sleep"
  /\ awake
  /\ SeesOwned(ptail)
  /\ awake' = FALSE
  /\ UNCHANGED <<popened, ppause, memory, engine, irq, pc, request, todo, buf,
                 call, played, clean>>

(* A signal ends the wait: write() returns -ERESTART, whatever it has sent *)
(* before; the rest of the request stays with the caller.                  *)
Interrupted ==
  /\ pc = "sleep"
  /\ SeesOwned(ptail)
  /\ pc' = "idle"
  /\ awake' = TRUE
  /\ todo' = 0
  /\ UNCHANGED <<popened, ppause, memory, engine, irq, request, buf, call,
                 played, clean>>

(* One turn of the loop: fill the descriptor at the tail, hand it over.    *)
FillDescriptor ==
  /\ pc = "fill"
  /\ got < todo
  /\ SeesFree(ptail)
  /\ chunk' = [chunk EXCEPT ![ptail] = buf + got]
  /\ OWN' = [OWN EXCEPT ![ptail] = TRUE]
  /\ ptail' = next_tail(ptail)
  /\ got' = got + 1
  /\ UNCHANGED <<popened, ppause, ring, tail, engine, irq, pc, awake, request,
                 todo, buf, need_start, played, clean>>

(***************************************************************************)
(* copy_from_user() faults.  The bytes not copied, up to a whole buffer    *)
(* even where fewer were to be sent, count as sent; what ath_i2s_write()   *)
(* then takes for the rest may be nothing, or as many chunks as before.    *)
(***************************************************************************)
CopyFault ==
  /\ pc = "fill"
  /\ got < todo
  /\ SeesFree(ptail)
  /\ todo' \in {todo - 1, todo}
  /\ pc' = IF todo' > 0 THEN "call" ELSE "idle"
  /\ got' = 0
  /\ clean' = FALSE
  /\ UNCHANGED <<popened, ppause, memory, engine, irq, awake, request, buf,
                 ptail, need_start, played>>

(* The commands to the engine, as in PlaybackRing.                         *)
dma_start_at_new_tail ==
  /\ running' = TRUE
  /\ head' = ptail
  /\ aim' = IF ring = "live" THEN "ring" ELSE "gone"

ath_i2s_dma_start ==
  /\ running' = TRUE
  /\ head' = tail
  /\ aim' = IF ring = "live" THEN "ring" ELSE "gone"

ath_i2s_dma_resume ==
  /\ running' = TRUE
  /\ UNCHANGED <<head, aim>>

kick_always == IF need_start THEN ath_i2s_dma_start ELSE ath_i2s_dma_resume
kick_start_only == IF need_start THEN ath_i2s_dma_start ELSE UNCHANGED engine

(* A call that filled descriptors starts the engine, or resumes it unless  *)
(* playback is paused.                                                     *)
Kick ==
  IF need_start
    THEN ath_i2s_dma_start
    ELSE IF ppause THEN UNCHANGED engine ELSE ath_i2s_dma_resume

(***************************************************************************)
(* The end of ath_i2s_wr(), and what the loop of ath_i2s_write() makes of  *)
(* the byte count: if it is EAGAIN the request is sent again from its      *)
(* beginning.                                                              *)
(***************************************************************************)
KickEngine ==
  /\ pc = "fill"
  /\ got = todo \/ SeesOwned(ptail)
  /\ tail' = ptail
  /\ Kick
  /\ IF odd /\ got = 1 /\ todo = 1
       THEN /\ todo' = count
            /\ buf' = first
            /\ pc' = "call"
            /\ clean' = FALSE
       ELSE /\ todo' = todo - got
            /\ buf' = IF clean THEN buf + got ELSE buf
            /\ pc' = IF got < todo THEN "call" ELSE "idle"
            /\ UNCHANGED clean
  /\ got' = 0
  /\ need_start' = FALSE
  /\ UNCHANGED <<popened, ppause, ring, OWN, chunk, irq, awake, request, ptail,
                 played>>
-----------------------------------------------------------------------------
(***************************************************************************)
(* I2S_PAUSE and I2S_RESUME with argument 0.  The argument and not the     *)
(* file chooses the channel: any process that has the device open, for     *)
(* capture say, may pause playback at any time.  To resume an engine that  *)
(* this session has not started sends it wherever it pointed last.         *)
(***************************************************************************)
Started == popened = 2 /\ ~(pc = "fill" /\ need_start)

I2S_PAUSE ==
  /\ ppause' = TRUE
  /\ running' = FALSE
  /\ UNCHANGED <<popened, memory, aim, head, irq, pc, awake, request, todo, buf,
                 call, played, clean>>

I2S_RESUME ==
  /\ ppause' = FALSE
  /\ ath_i2s_dma_resume
  /\ clean' = (clean /\ Started)
  /\ UNCHANGED <<popened, memory, irq, pc, awake, request, todo, buf, call,
                 played>>
-----------------------------------------------------------------------------
(***************************************************************************)
(* ath_i2s_close().  Paused, it takes the descriptors from the engine and  *)
(* resumes the channel that f_mode stands for, which for a writer is the   *)
(* capture channel.  Otherwise it sleeps until the engine has given every  *)
(* descriptor back.                                                        *)
(***************************************************************************)
Release ==
  /\ popened' = 0
  /\ ppause' = FALSE
  /\ ring' = "freed"
  /\ OWN' = [d \in Desc |-> FALSE]
  /\ chunk' = [d \in Desc |-> 0]
  /\ aim' = "gone"
  /\ pc' = "closed"
  /\ clean' = FALSE
  /\ UNCHANGED <<tail, running, head, irq, awake, request, todo, buf, call, played>>

ath_i2s_close ==
  /\ pc = "idle"
  /\ IF ppause
       THEN Release
       ELSE /\ pc' = "drain"
            /\ UNCHANGED <<popened, ppause, memory, engine, irq, awake, request,
                           todo, buf, call, played, clean>>

CloseDrained ==
  /\ pc = "drain"
  /\ \A d \in Desc : SeesFree(d)
  /\ Release
-----------------------------------------------------------------------------
(***************************************************************************)
(* ath_i2s_intr(): wake the writer, acknowledge.  A completion between the *)
(* reading of the status and the acknowledgement is one before the         *)
(* handler: no process runs in between on this processor with one core.    *)
(***************************************************************************)
intr_wakes_reader ==
  /\ irq
  /\ irq' = FALSE
  /\ UNCHANGED <<popened, ppause, memory, engine, pc, awake, request, todo, buf,
                 call, played, clean>>

ath_i2s_intr ==
  /\ irq
  /\ irq' = FALSE
  /\ awake' = TRUE
  /\ UNCHANGED <<popened, ppause, memory, engine, pc, request, todo, buf, call,
                 played, clean>>

(***************************************************************************)
(* The DMA engine (hardware), which raises the interrupt for every         *)
(* descriptor it has played.                                               *)
(***************************************************************************)
InRing == running /\ aim = "ring"

DmaComplete ==
  /\ InRing
  /\ OWN[head]
  /\ OWN' = [OWN EXCEPT ![head] = FALSE]
  /\ head' = next_tail(head)
  /\ irq' = TRUE
  /\ played' = IF clean THEN played + 1 ELSE played
  /\ UNCHANGED <<popened, ppause, ring, chunk, tail, running, aim, pc, awake,
                 request, todo, buf, call, clean>>

DmaStall ==
  /\ InRing
  /\ ~OWN[head]
  /\ running' = FALSE
  /\ UNCHANGED <<popened, ppause, memory, aim, head, irq, pc, awake, request,
                 todo, buf, call, played, clean>>

DmaStray ==
  /\ running
  /\ aim = "gone"
  /\ running' \in BOOLEAN
  /\ head' = next_tail(head)
  /\ UNCHANGED <<popened, ppause, memory, aim, irq, pc, awake, request, todo,
                 buf, call, played, clean>>
-----------------------------------------------------------------------------
Write ==
  \/ ath_i2s_wr
  \/ StopWaiting
  \/ GoToSleep
  \/ FillDescriptor
  \/ KickEngine

Next ==
  \/ ath_i2s_open
  \/ ath_i2s_write
  \/ Write
  \/ Interrupted
  \/ CopyFault
  \/ I2S_PAUSE
  \/ I2S_RESUME
  \/ ath_i2s_close
  \/ CloseDrained
  \/ ath_i2s_intr
  \/ DmaComplete
  \/ DmaStall
  \/ DmaStray

Spec == Init /\ [][Next]_vars

(***************************************************************************)
(* The kernel runs a process that may run and serves its interrupts, close *)
(* looks again every second, and who has paused resumes.  The engine keeps *)
(* its place in a buffer while it is paused, so that a descriptor is       *)
(* played to its end however often that happens: strong fairness.          *)
(***************************************************************************)
Fairness ==
  /\ WF_vars(Write)
  /\ WF_vars(CloseDrained)
  /\ WF_vars(ath_i2s_intr)
  /\ WF_vars(ppause /\ I2S_RESUME)
  /\ SF_vars(DmaComplete)

FairSpec == Spec /\ Fairness
-----------------------------------------------------------------------------
(***************************************************************************)
(* Properties.  A session is `clean' if the engine was at rest when the    *)
(* device was opened, the allocations succeeded, and since then no copy    *)
(* has faulted, no byte count has been taken for EAGAIN and the engine has *)
(* not been resumed before it was started.  Pauses, signals and sleeps     *)
(* leave a session clean.                                                  *)
(***************************************************************************)
EngineAt == IF Started THEN head ELSE tail
AppendAt == IF pc = "fill" THEN ptail ELSE tail
End == buf + got
Owned == {d \in Desc : OWN[d]}

(* The engine plays the chunks in the order the driver accepted them, also *)
(* when writes are interrupted and the engine is paused in between.        *)
InOrder == clean /\ InRing /\ OWN[head] => chunk[head] = played

(***************************************************************************)
(* The window of PlaybackRing, for a writer that sleeps: what is known of  *)
(* the process at its locations in every session, of the engine in a clean *)
(* session, and of the descriptors.                                        *)
(***************************************************************************)
CallInv ==
  /\ got <= todo
  /\ pc # "fill" => got = 0
  /\ pc \in {"fill", "sleep"} => popened = 2
  /\ pc = "sleep" => ptail = tail /\ ~need_start

SessionInv ==
  /\ pc # "closed"
  /\ ring = "live"
  /\ played <= End
  /\ IF Started THEN aim = "ring" ELSE ~running

WindowInv == Window(Owned, chunk, played, End, EngineAt, AppendAt)

(* The inductive invariant behind InOrder: no pause, resume, signal or     *)
(* wake-up takes a clean session out of its window.                        *)
RingInv == CallInv /\ (clean => SessionInv /\ WindowInv)

(* It is inductive together with the types.                                *)
IndInv == TypeOK /\ RingInv

(***************************************************************************)
(* The ring, read from the engine's end, is a ChunkQueue: every step of    *)
(* the process and of the engine puts a chunk into the queue, takes one    *)
(* from it, ends the session or changes nothing in it.                     *)
(***************************************************************************)
Queue == INSTANCE ChunkQueue WITH
  Capacity <- NUM_DESC,
  good <- clean,
  put <- IF clean THEN End ELSE 0,
  queue <- IF clean THEN Held(chunk, EngineAt, End - played) ELSE <<>>,
  taken <- IF clean THEN played ELSE 0

ImplementsQueue == Queue!Spec

(* Writing never resumes an engine that an ioctl has paused.               *)
PauseHolds ==
  [][ppause /\ ppause' /\ ~need_start => (running' => running)]_vars

(* close() gives the memory back only when no descriptor is the engine's,  *)
(* or playback is paused.                                                  *)
FreedOnlyWhenIdle ==
  [][ring = "live" /\ ring' = "freed" => Owned = {} \/ ppause]_vars

(***************************************************************************)
(* Nobody waits in vain.  An engine that is not paused stands still only   *)
(* if it has nothing to play, whoever stalled, paused or resumed it in the *)
(* middle of a call.  And a writer sleeps only while the descriptor it     *)
(* waits for is the one the engine is at, or the interrupt has yet to be   *)
(* served: no completion comes between its test and its sleep, or before a *)
(* pause, and is never told.                                               *)
(***************************************************************************)
StandsOnlyWhenEmpty ==
  clean /\ pc # "fill" /\ ~ppause /\ Owned # {} => InRing

SleepsForTheEngine ==
  clean /\ pc = "sleep" /\ ~awake => irq \/ (OWN[ptail] /\ head = ptail)

NoVainWait == StandsOnlyWhenEmpty /\ SleepsForTheEngine

(* A write() returns: the interrupt that its sleep waits for is raised,    *)
(* and is not lost, if who pauses resumes.                                 *)
WriteReturns == (pc = "call") ~> (pc = "idle" \/ ~clean)

(* close() returns: the engine it waits for plays on to the end.           *)
CloseReturns == (pc = "drain" /\ clean) ~> (pc = "closed")
=============================================================================
