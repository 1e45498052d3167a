---------------------------- MODULE PlaybackRing ----------------------------
(***************************************************************************)
(* The playback side of the I2S audio driver, audio/iis/src/glzt_i2s.c: a  *)
(* ring of DMA descriptors shared by the process that writes /dev/dsp and  *)
(* by the DMA engine that plays the sound.  The CPU fills descriptors from *)
(* `tail' and hands each one over by setting OWN; the engine plays the     *)
(* descriptor it points at, clears OWN and follows NextPtr, and stops at   *)
(* the first descriptor that is not its own until it is told to RESUME.    *)
(*                                                                         *)
(* Samples are counted in chunks, one chunk per descriptor: chunk k is the *)
(* k-th piece of at most I2S_BUF_SIZE bytes the process handed to write()  *)
(* since it opened the device.  Only the last chunk of a request may be    *)
(* shorter; its length matters where the code compares a byte count with   *)
(* EAGAIN.                                                                 *)
(***************************************************************************)
EXTENDS RingWindow, FiniteSets

CONSTANTS
  I2S_BUF_SIZE,  \* bytes in a descriptor's buffer (1024 in i2sio.h)
  EAGAIN,        \* the errno value the write loop compares with (11)
  Requests,      \* the write() calls: <<chunks, bytes in a short last chunk>>
  MaxChunks,     \* bound: chunks handed to write() between open and close
  DrainSteps,    \* descriptors the engine can finish during close's udelay()
  InitOutcomes   \* what the allocations of ar7240_i2s_init() may do

ASSUME RingAssumption ==
  /\ I2S_BUF_SIZE \in Nat \ {0}
  /\ EAGAIN \in Nat
  /\ Requests \subseteq Nat \X (0 .. I2S_BUF_SIZE - 1)
  /\ MaxChunks \in Nat
  /\ DrainSteps \in Nat
  /\ InitOutcomes \subseteq {"ok", "no_desc", "no_buf"}

VARIABLES
  (* the softc and the descriptors it points to *)
  popened,    \* 0 closed, 1 opened, 2 written to
  ring,       \* are the descriptors and buffers "live" or "freed" memory?
  OWN,        \* the OWN bit of every descriptor: TRUE = the engine's
  chunk,      \* which chunk each buffer holds
  tail,       \* dmabuf->tail, the next descriptor to fill
  (* the DMA engine *)
  running,    \* is it processing descriptors?
  aim,        \* does its pointer lie in this "ring", or is the memory "gone"?
  head,       \* the descriptor it points at
  (* the process that has the device open *)
  pc,         \* where it is, see below
  count,      \* its request, in chunks
  rest,       \* the bytes in the last one if it is short, else 0
  todo,       \* tmpcount of ar9100_i2s_write(), in chunks
  buf,        \* the first chunk of what is still to be sent
  ptail,      \* the local variable `tail' of ar7240_i2s_write()
  got,        \* chunks this call of ar7240_i2s_write() has taken
  need_start, \* must this call start the engine?
  (* history *)
  asked,      \* chunks the process has asked to be sent in this session
  played,     \* chunks the engine has finished in this session
  clean,      \* nothing has upset the order of this session yet
  drain       \* descriptors the engine may still finish while close() waits

device == <<popened, ring, OWN, chunk, tail>>
engine == <<running, aim, head>>
process == <<pc, count, rest, todo, buf, ptail, got, need_start>>
vars == <<device, engine, process, asked, played, clean, drain>>

(***************************************************************************)
(* "closed": no file; "idle": the file is open and no call is in progress; *)
(* "call": ar9100_i2s_write() is about to call ar7240_i2s_write(); "fill": *)
(* inside its while loop; "wait": ar7240_i2s_close() is in udelay().       *)
(***************************************************************************)
Locations == {"closed", "idle", "call", "fill", "wait"}

TypeOK ==
  /\ popened \in 0 .. 2
  /\ ring \in {"live", "freed"}
  /\ OWN \in [Desc -> BOOLEAN]
  /\ chunk \in [Desc -> Nat]
  /\ tail \in Desc
  /\ running \in BOOLEAN
  /\ aim \in {"ring", "gone"}
  /\ head \in Desc
  /\ pc \in Locations
  /\ count \in Nat
  /\ rest \in 0 .. I2S_BUF_SIZE - 1
  /\ todo \in Nat
  /\ buf \in Nat
  /\ ptail \in Desc
  /\ got \in Nat
  /\ need_start \in BOOLEAN
  /\ asked \in Nat
  /\ played \in Nat
  /\ clean \in BOOLEAN
  /\ drain \in 0 .. DrainSteps

Init ==
  /\ popened = 0
  /\ ring = "freed"
  /\ OWN = [d \in Desc |-> FALSE]
  /\ chunk = [d \in Desc |-> 0]
  /\ tail = 0
  /\ running = FALSE
  /\ aim = "gone"
  /\ head = 0
  /\ pc = "closed"
  /\ count = 0
  /\ rest = 0
  /\ todo = 0
  /\ buf = 0
  /\ ptail = 0
  /\ got = 0
  /\ need_start = FALSE
  /\ asked = 0
  /\ played = 0
  /\ clean = FALSE
  /\ drain = 0
-----------------------------------------------------------------------------
(***************************************************************************)
(* ar7240_i2s_open() with ar7240_i2s_init().  popened is set before the    *)
(* allocations, and stays set when the first one fails: every later open() *)
(* is refused with EBUSY.  When the second one fails the descriptors are   *)
(* freed again, but ar7240_i2s_open() only knows ENOMEM, not -ENOMEM, and  *)
(* returns success.  The engine is not touched: if the last close() left   *)
(* it running it runs on, over new descriptors if the allocator returns    *)
(* the same memory.                                                        *)
(***************************************************************************)
ar7240_i2s_init(outcome) ==
  /\ popened' = 1
  /\ tail' = IF outcome = "ok" THEN 0 ELSE tail
  /\ ring' = IF outcome = "ok" THEN "live" ELSE "freed"
  /\ OWN' = [d \in Desc |-> FALSE]
  /\ chunk' = [d \in Desc |-> 0]
  /\ aim' \in IF outcome = "ok" THEN {"ring", "gone"} ELSE {"gone"}

ar7240_i2s_open ==
  /\ pc = "closed"
  /\ popened = 0
  /\ \E outcome \in InitOutcomes :
       /\ ar7240_i2s_init(outcome)
       /\ pc' = IF outcome = "no_desc" THEN "closed" ELSE "idle"
       /\ clean' = (outcome = "ok" /\ ~running)
  /\ buf' = 0
  /\ asked' = 0
  /\ played' = 0
  /\ UNCHANGED <<running, head, count, rest, todo, ptail, got, need_start, drain>>
-----------------------------------------------------------------------------
(***************************************************************************)
(* ar9100_i2s_write(), the write() of the device file, sends the request   *)
(* with as many calls of ar7240_i2s_write() as it takes.                   *)
(***************************************************************************)
ar9100_i2s_write ==
  /\ pc = "idle"
  /\ \E r \in Requests :
       /\ asked + r[1] <= MaxChunks
       /\ asked' = asked + r[1]
       /\ count' = r[1]
       /\ rest' = r[2]
       /\ todo' = r[1]
  /\ pc' = "call"
  /\ UNCHANGED <<device, engine, buf, ptail, got, need_start,
                 played, clean, drain>>

(* `buf' moved on by k chunks.  A process that is made to send again what   *)
(* it sent before could move it for ever: MaxChunks bounds it.             *)
Moved(k) == IF buf + k <= MaxChunks THEN buf + k ELSE MaxChunks

(* The head of ar7240_i2s_write(), up to its loop.                         *)
ar7240_i2s_write ==
  /\ pc = "call"
  /\ ptail' = tail
  /\ need_start' = (popened < 2)
  /\ popened' = 2
  /\ got' = 0
  /\ pc' = "fill"
  /\ UNCHANGED <<ring, OWN, chunk, tail, engine, count, rest, todo, buf,
                 asked, played, clean, drain>>

(* What the loop reads as OWN; freed memory may hold anything.             *)
SeesAllFree(d) == TRUE
SeesFree(d) == ring = "freed" \/ ~OWN[d]
SeesOwned(d) == ring = "freed" \/ OWN[d]

(* One turn of the loop: fill the descriptor at the tail, hand it over.    *)
FillDescriptor ==
  /\ pc = "fill"
  /\ got < todo
  /\ SeesFree(ptail)
  /\ chunk' = [chunk EXCEPT ![ptail] = buf + got]
  /\ OWN' = [OWN EXCEPT ![ptail] = TRUE]
  /\ ptail' = next_tail(ptail)
  /\ got' = got + 1
  /\ UNCHANGED <<popened, ring, tail, engine, pc, count, rest, todo, buf, need_start,
                 asked, played, clean, drain>>

(***************************************************************************)
(* copy_from_user() faults: ar7240_i2s_write() returns the number of bytes *)
(* that were not copied, without saving the tail, without starting or      *)
(* resuming the engine and with I2S_LOCK held.  The caller takes the       *)
(* number for bytes sent, or, if it happens to be EAGAIN, starts again.    *)
(***************************************************************************)
CopyFault ==
  /\ pc = "fill"
  /\ got < todo
  /\ SeesFree(ptail)
  /\ \E left \in {todo, todo - 1, count} :
       /\ todo' = left
       /\ buf' = IF left < todo THEN Moved(1) ELSE buf
       /\ pc' = IF left > 0 THEN "call" ELSE "idle"
  /\ got' = 0
  /\ clean' = FALSE
  /\ UNCHANGED <<device, engine, count, rest, ptail, need_start, asked, played, drain>>

(* The bytes in the first k of the chunks still to be sent.                *)
Bytes(k) ==
  IF k > 0 /\ k = todo /\ rest > 0
    THEN (k - 1) * I2S_BUF_SIZE + rest
    ELSE k * I2S_BUF_SIZE

(***************************************************************************)
(* The commands to the engine.  It is started at the descriptor where the  *)
(* tail was when the call began (ar7240_i2sound_dma_desc() programs it),   *)
(* and resumed wherever it has stopped.                                    *)
(***************************************************************************)
dma_start_at_new_tail ==
  /\ running' = TRUE
  /\ head' = ptail
  /\ aim' = IF ring = "live" THEN "ring" ELSE "gone"

dma_start_without_base ==
  /\ running' = TRUE
  /\ aim' = IF ring = "live" THEN "ring" ELSE "gone"
  /\ UNCHANGED head

ar7240_i2sound_dma_start ==
  /\ running' = TRUE
  /\ head' = tail
  /\ aim' = IF ring = "live" THEN "ring" ELSE "gone"

dma_resume_skipped == UNCHANGED <<running, head, aim>>

ar7240_i2sound_dma_resume ==
  /\ running' = TRUE
  /\ UNCHANGED <<head, aim>>

(***************************************************************************)
(* The end of ar7240_i2s_write(): save the tail, start the engine at the   *)
(* descriptor where the call began, or resume it.  Then the loop of        *)
(* ar9100_i2s_write() looks at the byte count returned: if it is EAGAIN    *)
(* the whole count is to be sent again, from where `buf' now points.       *)
(***************************************************************************)
KickEngine ==
  /\ pc = "fill"
  /\ got = todo \/ SeesOwned(ptail)
  /\ tail' = ptail
  /\ IF need_start
       THEN ar7240_i2sound_dma_start
       ELSE ar7240_i2sound_dma_resume
  /\ IF Bytes(got) = EAGAIN
       THEN /\ todo' = count
            /\ pc' = "call"
            /\ clean' = FALSE
            /\ UNCHANGED buf
       ELSE /\ todo' = todo - got
            /\ pc' = IF got < todo THEN "call" ELSE "idle"
            /\ buf' = Moved(got)
            /\ UNCHANGED clean
  /\ got' = 0
  /\ UNCHANGED <<popened, ring, OWN, chunk, count, rest, ptail, need_start,
                 asked, played, drain>>
-----------------------------------------------------------------------------
(***************************************************************************)
(* ar7240_i2s_close() counts the descriptors that are still the engine's,  *)
(* waits for a time proportional to their number, and frees everything     *)
(* whether or not the engine is done; it never stops the engine.  What the *)
(* freed memory holds, and the process's locals, no longer matter.         *)
(***************************************************************************)
FreeRing ==
  /\ popened' = 0
  /\ ring' = "freed"
  /\ OWN' = [d \in Desc |-> FALSE]
  /\ chunk' = [d \in Desc |-> 0]
  /\ aim' = "gone"
  /\ pc' = "closed"
  /\ count' = 0
  /\ rest' = 0
  /\ ptail' = 0
  /\ need_start' = FALSE
  /\ clean' = FALSE
  /\ UNCHANGED <<tail, running, head, todo, buf, got, asked, played>>

ar7240_i2s_close ==
  /\ pc = "idle"
  /\ \/ /\ \E d \in Desc : SeesOwned(d)
        /\ pc' = "wait"
        /\ drain' = DrainSteps
        /\ UNCHANGED <<device, engine, count, rest, todo, buf, ptail, got, need_start,
                       asked, played, clean>>
     \/ /\ \A d \in Desc : SeesFree(d)
        /\ FreeRing
        /\ UNCHANGED drain

CloseAfterDelay ==
  /\ pc = "wait"
  /\ FreeRing
  /\ drain' = 0
-----------------------------------------------------------------------------
(***************************************************************************)
(* The DMA engine (hardware).                                              *)
(***************************************************************************)
InRing == running /\ aim = "ring"
HasTime == pc = "wait" => drain > 0

(* It has played a descriptor: hand it back, follow NextPtr.               *)
DmaComplete ==
  /\ InRing
  /\ HasTime
  /\ OWN[head]
  /\ OWN' = [OWN EXCEPT ![head] = FALSE]
  /\ head' = next_tail(head)
  /\ played' = IF clean THEN played + 1 ELSE played
  /\ drain' = IF pc = "wait" THEN drain - 1 ELSE drain
  /\ UNCHANGED <<popened, ring, chunk, tail, running, aim, process, asked, clean>>

(* It meets a descriptor that is not its own and stops.                    *)
DmaStall ==
  /\ InRing
  /\ ~OWN[head]
  /\ running' = FALSE
  /\ UNCHANGED <<device, aim, head, process, asked, played, clean, drain>>

(* It runs over memory that was freed, and stops when a word there says so.*)
DmaStray ==
  /\ running
  /\ aim = "gone"
  /\ running' \in BOOLEAN
  /\ head' = next_tail(head)
  /\ UNCHANGED <<device, aim, process, asked, played, clean, drain>>
-----------------------------------------------------------------------------
Write ==
  \/ ar7240_i2s_write
  \/ FillDescriptor
  \/ KickEngine

Dma == DmaComplete \/ DmaStall

Next ==
  \/ ar7240_i2s_open
  \/ ar9100_i2s_write
  \/ Write
  \/ CopyFault
  \/ ar7240_i2s_close
  \/ CloseAfterDelay
  \/ Dma
  \/ DmaStray

Spec == Init /\ [][Next]_vars

(***************************************************************************)
(* A write() in progress keeps running in the kernel, the delay in close() *)
(* ends, and a running engine keeps playing: the hardware is clocked.      *)
(* Opening, writing and closing are the user's choice, a copy fault is an  *)
(* accident: no fairness.                                                  *)
(***************************************************************************)
Fairness == WF_vars(Write) /\ WF_vars(CloseAfterDelay) /\ WF_vars(Dma)
FairSpec == Spec /\ Fairness
-----------------------------------------------------------------------------
(***************************************************************************)
(* Properties.  A session is `clean' if the engine was at rest when the    *)
(* device was opened, the allocations succeeded, and since then no copy    *)
(* has faulted and no byte count has been taken for EAGAIN.                *)
(***************************************************************************)

(* Has the session started the engine?  A call that must start it has not  *)
(* done so while it fills.                                                 *)
Started == popened = 2 /\ ~(pc = "fill" /\ need_start)

(* Where the engine is, or will be put when it is started.                 *)
EngineAt == IF Started THEN head ELSE tail

(* The descriptors that are the engine's.                                  *)
Owned == {d \in Desc : OWN[d]}

(* The engine plays the chunks of a session in the order the process sent  *)
(* them: what it finds at its pointer is always the chunk after the last   *)
(* one it played, however the fills, wraps, stalls and restarts interleave.*)
InOrder == clean /\ InRing /\ OWN[head] => chunk[head] = played

(* No chunk is lost or sent twice: the engine owns exactly the descriptors *)
(* of the chunks that were filled and not yet played.                      *)
Backlog ==
  clean => Cardinality(Owned) + played = buf + got

(* When write() returns, every chunk the process ever asked for has been   *)
(* handed to the engine (ar9100_i2s_write() returns count, whatever its    *)
(* calls of ar7240_i2s_write() returned on the way).                       *)
WriteIsComplete == clean /\ pc \in {"idle", "wait"} => buf = asked

(* The engine stands still only if it has nothing to play: one that found  *)
(* nothing while a call was filling has been resumed when the call ends,   *)
(* so that a full ring is never waited for with the engine at rest.        *)
StandsOnlyWhenEmpty == clean /\ pc # "fill" /\ Owned # {} => InRing

(* A ring that is full does not block write() for ever: each turn of its   *)
(* loop resumes an engine that may have stalled in the meantime.           *)
WriteReturns == (pc = "call") ~> (pc = "idle" \/ ~clean)

(***************************************************************************)
(* Why InOrder holds: the descriptors the engine owns are a window of the  *)
(* ring that starts where the engine is, ends where the process appends,   *)
(* and holds consecutive chunks.                                           *)
(***************************************************************************)
AppendAt == IF pc = "fill" THEN ptail ELSE tail
End == buf + got

(* What is known of the process at its locations, in every session.        *)
CallInv ==
  /\ got <= todo
  /\ pc # "fill" => got = 0
  /\ pc = "fill" => popened = 2

(* What a clean session has asked for, and the state of its engine.        *)
SessionInv ==
  /\ pc # "closed"
  /\ ring = "live"
  /\ asked <= MaxChunks
  /\ asked = IF pc \in {"call", "fill"} THEN buf + todo ELSE buf
  /\ played <= End
  /\ IF Started THEN aim = "ring" ELSE ~running

WindowInv == Window(Owned, chunk, played, End, EngineAt, AppendAt)

(* The window of a clean session; the inductive invariant behind InOrder.  *)
RingInv == CallInv /\ (clean => SessionInv /\ WindowInv)

(* It is inductive together with the types.                                *)
IndInv == TypeOK /\ RingInv

(***************************************************************************)
(* The ring, read from the engine's end, is a ChunkQueue: every step of    *)
(* the process and of the engine puts a chunk into the queue, takes one    *)
(* from it, ends the session or changes nothing in it.                     *)
(***************************************************************************)
Queue == INSTANCE ChunkQueue WITH
  Capacity <- NUM_DESC,
  good <- clean,
  put <- IF clean THEN End ELSE 0,
  queue <- IF clean THEN Held(chunk, EngineAt, End - played) ELSE <<>>,
  taken <- IF clean THEN played ELSE 0

ImplementsQueue == Queue!Spec

(* What the process has handed over is heard, unless the session ends.     *)
HeardInTheEnd == Queue!Promise

(* close() gives the memory back only when no descriptor is the engine's.  *)
FreedOnlyWhenIdle ==
  [][ring = "live" /\ ring' = "freed" => Owned = {}]_vars

(* "if (ar7240_i2s_init(filp) == ENOMEM) return -ENOMEM": open() succeeds  *)
(* only with a ring to write to.                                           *)
OpenHasRing == pc # "closed" => ring = "live"
=============================================================================
