-------------------------- MODULE AthCapture_proofs --------------------------
(***************************************************************************)
(* Proofs about AthCapture, for every size of the ring, every request and  *)
(* bound, and every interleaving of signals, interrupts and pauses.        *)
(***************************************************************************)
EXTENDS AthCapture, RingWindow_proofs

(***************************************************************************)
(* Every variable keeps its type.                                          *)
(***************************************************************************)
LEMMA TypeInit == Init => TypeOK /\ CallInv
<1> SUFFICES ASSUME Init PROVE TypeOK /\ CallInv
    OBVIOUS
<1>1. OWN \in [Desc -> BOOLEAN] /\ chunk \in [Desc -> Nat]
    BY DEF Init
<1>2. /\ ropened \in 0 .. 2 /\ byte_cnt \in Nat /\ got \in Nat
      /\ recorded \in Nat /\ delivered \in Nat
    BY DEF Init
<1>3. /\ rpause \in BOOLEAN /\ running \in BOOLEAN /\ irq \in BOOLEAN
      /\ awake \in BOOLEAN /\ need_start \in BOOLEAN /\ signalled \in BOOLEAN
      /\ clean \in BOOLEAN
    BY DEF Init
<1>4. /\ ring \in {"live", "freed"} /\ aim \in {"ring", "gone"}
      /\ pc \in {"closed", "idle", "sleep", "copy", "drain"}
    BY DEF Init
<1>5. tail \in Desc /\ head \in Desc /\ ptail \in Desc
    BY DescType DEF Init
<1>6. CallInv
    BY DEF Init, CallInv
<1> QED
    BY <1>1, <1>2, <1>3, <1>4, <1>5, <1>6 DEF TypeOK

LEMMA TypeStep == TypeOK /\ CallInv /\ [Next]_vars => TypeOK' /\ CallInv'
<1> SUFFICES ASSUME TypeOK, CallInv, [Next]_vars PROVE TypeOK' /\ CallInv'
    OBVIOUS
<1>1. CASE ath_i2s_open
  <2>1. PICK outcome \in InitOutcomes :
          /\ ath_i2s_init_desc(outcome)
          /\ pc' = IF outcome = "no_desc" THEN "closed" ELSE "idle"
          /\ clean' = (outcome = "ok" /\ ~running)
    BY <1>1 DEF ath_i2s_open
  <2>2. OWN' \in [Desc -> BOOLEAN] /\ chunk' \in [Desc -> Nat]
    BY <2>1 DEF ath_i2s_init_desc
  <2>3. tail' \in Desc
    BY <2>1, DescType DEF ath_i2s_init_desc, TypeOK
  <2>4. ring' \in {"live", "freed"} /\ aim' \in {"ring", "gone"}
    BY <2>1 DEF ath_i2s_init_desc
  <2>5. ropened' \in 0 .. 2 /\ rpause' = FALSE
    BY <2>1 DEF ath_i2s_init_desc
  <2>6. pc' \in {"closed", "idle"} /\ clean' \in BOOLEAN
    BY <2>1
  <2>7. TypeOK'
    BY <1>1, <2>2, <2>3, <2>4, <2>5, <2>6 DEF ath_i2s_open, call, TypeOK
  <2> QED
    BY <2>6, <2>7 DEF CallInv
<1>2. CASE ath_i2s_read
  <2>1. byte_cnt' \in Nat
    BY <1>2, CaptureAssumption DEF ath_i2s_read
  <2>2. /\ ropened' \in 0 .. 2 /\ got' \in Nat /\ ptail' \in Desc
        /\ need_start' \in BOOLEAN /\ signalled' = FALSE /\ awake' = TRUE
        /\ pc' \in {"copy", "sleep"}
    BY <1>2 DEF ath_i2s_read, TypeOK
  <2>3. TypeOK'
    BY <1>2, <2>1, <2>2 DEF ath_i2s_read, TypeOK, memory, engine, history
  <2> QED
    BY <1>2, <2>3 DEF ath_i2s_read, CallInv, memory
<1>3. CASE StopWaiting
    BY <1>3 DEF StopWaiting, TypeOK, CallInv, memory, engine, call, history
<1>4. CASE GoToSleep
    BY <1>4 DEF GoToSleep, TypeOK, CallInv, memory, engine, call, history
<1>5. CASE Interrupted
    BY <1>5 DEF Interrupted, TypeOK, CallInv, memory, engine, history
<1>6. CASE CopyDescriptor
  <2>1. OWN' \in [Desc -> BOOLEAN] /\ ptail' \in Desc
    BY <1>6, DescType DEF CopyDescriptor, TypeOK
  <2>2. byte_cnt' \in Nat /\ got' \in Nat /\ delivered' \in Nat
    BY <1>6 DEF CopyDescriptor, TypeOK
  <2> QED
    BY <1>6, <2>1, <2>2 DEF CopyDescriptor, TypeOK, CallInv, engine
<1>7. CASE CopyFault
    BY <1>7 DEF CopyFault, TypeOK, CallInv, memory, engine, call
<1>8. CASE KickEngine
  <2>1. running' \in BOOLEAN /\ aim' \in {"ring", "gone"} /\ head' \in Desc
    BY <1>8 DEF KickEngine, Kick, ath_i2s_dma_start, ath_i2s_dma_resume, engine, TypeOK
  <2> QED
    BY <1>8, <2>1 DEF KickEngine, TypeOK, CallInv, call, history
<1>9. CASE I2S_PAUSE
    BY <1>9 DEF I2S_PAUSE, TypeOK, CallInv, memory, call, history
<1>10. CASE I2S_RESUME \/ PausedPlayerCloses
  <2>1. running' = TRUE /\ clean' \in BOOLEAN /\ rpause' \in BOOLEAN
    BY <1>10 DEF I2S_RESUME, PausedPlayerCloses, ath_i2s_dma_resume, TypeOK
  <2>2. UNCHANGED <<ropened, memory, aim, head, irq, pc, awake, call, recorded, delivered>>
    BY <1>10 DEF I2S_RESUME, PausedPlayerCloses, ath_i2s_dma_resume
  <2> QED
    BY <2>1, <2>2 DEF TypeOK, CallInv, memory, call
<1>11. ASSUME Release, running' \in BOOLEAN PROVE TypeOK' /\ CallInv'
  <2>1. OWN' \in [Desc -> BOOLEAN] /\ chunk' \in [Desc -> Nat]
    BY <1>11 DEF Release
  <2>2. rpause' = FALSE /\ clean' = FALSE
    BY <1>11 DEF Release
  <2>3. /\ ropened' = 0 /\ ring' = "freed" /\ aim' = "gone" /\ pc' = "closed"
        /\ UNCHANGED <<tail, head, irq, awake, call, recorded, delivered>>
    BY <1>11 DEF Release
  <2>4. /\ irq' \in BOOLEAN /\ awake' \in BOOLEAN /\ need_start' \in BOOLEAN
        /\ signalled' \in BOOLEAN /\ rpause' \in BOOLEAN /\ clean' \in BOOLEAN
    BY <2>2, <2>3 DEF TypeOK, call
  <2>5. /\ tail' \in Desc /\ head' \in Desc /\ ptail' \in Desc /\ byte_cnt' \in Nat
        /\ got' \in Nat /\ recorded' \in Nat /\ delivered' \in Nat
    BY <2>3 DEF TypeOK, call
  <2>6. TypeOK'
    BY <1>11, <2>1, <2>3, <2>4, <2>5 DEF TypeOK
  <2> QED
    BY <2>3, <2>6 DEF CallInv
<1>12. CASE ath_i2s_close
  <2>1. CASE rpause
    BY <1>11, <1>12, <2>1 DEF ath_i2s_close
  <2>2. CASE ~rpause
    BY <1>12, <2>2 DEF ath_i2s_close, TypeOK, CallInv, memory, engine, call, history
  <2> QED
    BY <2>1, <2>2
<1>13. CASE CloseDrained
    BY <1>11, <1>13 DEF CloseDrained, TypeOK
<1>14. CASE ath_i2s_intr
    BY <1>14 DEF ath_i2s_intr, TypeOK, CallInv, memory, engine, call, history
<1>15. CASE DmaRecord
  <2>1. OWN' \in [Desc -> BOOLEAN] /\ chunk' \in [Desc -> Nat]
    BY <1>15 DEF DmaRecord, TypeOK
  <2>2. head' \in Desc /\ recorded' \in Nat
    BY <1>15, DescType DEF DmaRecord, TypeOK
  <2> QED
    BY <1>15, <2>1, <2>2 DEF DmaRecord, TypeOK, CallInv, call
<1>16. CASE DmaStall
    BY <1>16 DEF DmaStall, TypeOK, CallInv, memory, call, history
<1>17. CASE DmaStray
    BY <1>17, DescType DEF DmaStray, TypeOK, CallInv, memory, call, history
<1>18. CASE UNCHANGED vars
    BY <1>18 DEF vars, memory, engine, call, history, TypeOK, CallInv
<1> QED
    BY <1>1, <1>2, <1>3, <1>4, <1>5, <1>6, <1>7, <1>8, <1>9, <1>10, <1>12, <1>13,
       <1>14, <1>15, <1>16, <1>17, <1>18 DEF Next, Read

(* Type correctness of the ring, the engine, its interrupt and the reader. *)
THEOREM TypeCorrect == Spec => []TypeOK
<1>1. Spec => [](TypeOK /\ CallInv)
    BY TypeInit, TypeStep, PTL DEF Spec
<1> QED
    BY <1>1, PTL
-----------------------------------------------------------------------------
(***************************************************************************)
(* The window of a clean session, action by action.  CopyFault and Release *)
(* leave no clean session.                                                 *)
(***************************************************************************)
SessionOK == clean => SessionInv /\ WindowInv

(* open() gives every descriptor to an engine at rest.                     *)
LEMMA WindowOpen ==
  ASSUME TypeOK, ath_i2s_open PROVE SessionOK'
<1> SUFFICES ASSUME clean' PROVE SessionInv' /\ WindowInv'
    BY DEF SessionOK
<1>1. /\ ring' = "live" /\ pc' = "idle" /\ ~running' /\ ropened' = 1
      /\ tail' = 0 /\ recorded' = 0 /\ delivered' = 0
      /\ OWN' = [d \in Desc |-> TRUE]
    BY DEF ath_i2s_open, ath_i2s_init_desc
<1>2. ~Started' /\ EngineAt' = tail' /\ TakeAt' = tail' /\ Filled' = {}
    BY <1>1 DEF Started, EngineAt, TakeAt, Filled
<1>3. Window({}, chunk', 0, 0, 0, 0)
    BY WindowEmpty, DescType
<1> QED
    BY <1>1, <1>2, <1>3 DEF SessionInv, WindowInv

(* The head of read() takes a copy of the tail, whether it goes on to copy *)
(* or to wait.                                                             *)
LEMMA WindowRead ==
  ASSUME TypeOK, SessionOK, ath_i2s_read PROVE SessionOK'
<1> SUFFICES ASSUME clean' PROVE SessionInv' /\ WindowInv'
    BY DEF SessionOK
<1>1. /\ pc = "idle" /\ pc' = (IF ropened < 2 THEN "copy" ELSE "sleep")
      /\ clean /\ ptail' = tail /\ ropened' = 2 /\ (need_start' <=> ropened < 2)
      /\ UNCHANGED <<ring, OWN, chunk, tail, engine, history>>
    BY DEF ath_i2s_read, memory, history
<1>2. SessionInv /\ WindowInv
    BY <1>1 DEF SessionOK, history
<1>3. Started' <=> Started
  <2>1. CASE ropened < 2
    <3>1. need_start' /\ ~(ropened = 2) /\ pc' = "copy"
      BY <1>1, <2>1 DEF TypeOK
    <3> QED
      BY <1>1, <3>1 DEF Started
  <2>2. CASE ropened = 2
    <3>1. pc' = "sleep"
      BY <1>1, <2>2
    <3> QED
      BY <1>1, <2>2, <3>1 DEF Started
  <2> QED
    BY <2>1, <2>2 DEF TypeOK
<1>4. EngineAt' = EngineAt /\ TakeAt' = TakeAt /\ Filled' = Filled
    BY <1>1, <1>3 DEF EngineAt, TakeAt, Filled, engine
<1>5. SessionInv'
    BY <1>1, <1>2, <1>3 DEF SessionInv, engine, history
<1>6. WindowInv'
    BY <1>1, <1>2, <1>4 DEF WindowInv, history
<1> QED
    BY <1>5, <1>6

(* Copying a descriptor out makes the window shorter at its beginning.     *)
LEMMA WindowCopy ==
  ASSUME TypeOK, SessionOK, CopyDescriptor PROVE SessionOK'
<1> SUFFICES ASSUME clean' PROVE SessionInv' /\ WindowInv'
    BY DEF SessionOK
<1>1. /\ pc = "copy" /\ pc' = "copy" /\ clean /\ delivered' = delivered + 1
      /\ OWN' = [OWN EXCEPT ![ptail] = TRUE] /\ ptail' = next_tail(ptail)
      /\ UNCHANGED <<ropened, ring, chunk, tail, engine, need_start, recorded>>
    BY DEF CopyDescriptor
<1>2. SessionInv /\ WindowInv
    BY <1>1 DEF SessionOK
<1>3. ~OWN[ptail]
    BY <1>2 DEF CopyDescriptor, SeesFree, SessionInv
<1>4. /\ (Started' <=> Started) /\ EngineAt' = EngineAt
      /\ TakeAt = ptail /\ TakeAt' = next_tail(ptail)
    BY <1>1 DEF Started, EngineAt, TakeAt, engine
<1>5. /\ ptail \in Desc /\ EngineAt \in Desc
      /\ OWN \in [Desc -> BOOLEAN] /\ chunk \in [Desc -> Nat]
      /\ delivered \in Nat /\ recorded \in Nat
    BY DEF TypeOK, EngineAt
<1>6. /\ Filled' = Filled \ {ptail} /\ ptail \in Filled
      /\ Filled \subseteq Desc
    BY <1>1, <1>3, <1>5 DEF Filled
<1>7. Window(Filled, chunk, delivered, recorded, ptail, EngineAt)
    BY <1>2, <1>4 DEF WindowInv
<1>8. delivered < recorded
    BY <1>5, <1>6, <1>7, WindowFirst
<1>9. SessionInv'
    BY <1>1, <1>2, <1>4, <1>5, <1>8 DEF SessionInv, engine
<1>10. Window(Filled', chunk, delivered + 1, recorded,
              next_tail(ptail), EngineAt)
    BY <1>5, <1>6, <1>7, WindowShrinks
<1>11. WindowInv'
    BY <1>1, <1>4, <1>10 DEF WindowInv
<1> QED
    BY <1>9, <1>11

(* The end of read() moves the tail to the beginning of the window, and    *)
(* the engine, if it is started here, to its end: nothing is recorded yet. *)
LEMMA WindowKick ==
  ASSUME TypeOK, CallInv, SessionOK, KickEngine PROVE SessionOK'
<1> SUFFICES ASSUME clean' PROVE SessionInv' /\ WindowInv'
    BY DEF SessionOK
<1>1. /\ pc = "copy" /\ pc' = "idle" /\ clean /\ tail' = ptail
      /\ UNCHANGED <<ropened, ring, OWN, chunk, history>>
    BY DEF KickEngine, history
<1>2. SessionInv /\ WindowInv
    BY <1>1 DEF SessionOK
<1>3. ropened = 2 /\ Started' /\ TakeAt' = TakeAt /\ Filled' = Filled
    BY <1>1 DEF CallInv, Started, TakeAt, Filled
<1>4. EngineAt' = EngineAt /\ aim' = "ring"
  <2>1. CASE need_start
    BY <1>1, <1>2, <1>3, <2>1
    DEF KickEngine, Kick, EngineAt, Started, SessionInv, ath_i2s_dma_start
  <2>2. CASE ~need_start
    <3>1. Started
      BY <1>3, <2>2 DEF Started
    <3>2. aim' = aim /\ head' = head
      BY <2>2 DEF KickEngine, Kick, ath_i2s_dma_resume, engine
    <3> QED
      BY <1>2, <1>3, <3>1, <3>2 DEF EngineAt, SessionInv
  <2> QED
    BY <2>1, <2>2 DEF TypeOK
<1>5. SessionInv'
    BY <1>1, <1>2, <1>3, <1>4 DEF SessionInv, history
<1>6. WindowInv'
    BY <1>1, <1>2, <1>3, <1>4 DEF WindowInv, history
<1> QED
    BY <1>5, <1>6

(* To resume an engine that was started leaves it in its place, whoever    *)
(* does it.                                                                *)
LEMMA WindowResume ==
  ASSUME TypeOK, SessionOK, I2S_RESUME \/ PausedPlayerCloses PROVE SessionOK'
<1> SUFFICES ASSUME clean' PROVE SessionInv' /\ WindowInv'
    BY DEF SessionOK
<1>1. /\ clean /\ Started
      /\ UNCHANGED <<ropened, memory, aim, head, pc, call, recorded, delivered>>
    BY DEF I2S_RESUME, PausedPlayerCloses, ath_i2s_dma_resume
<1>2. SessionInv /\ WindowInv
    BY <1>1 DEF SessionOK
<1>3. Started' /\ EngineAt' = EngineAt /\ TakeAt' = TakeAt /\ Filled' = Filled
    BY <1>1 DEF Started, EngineAt, TakeAt, Filled, memory, call
<1>4. SessionInv'
    BY <1>1, <1>2, <1>3 DEF SessionInv, memory
<1>5. WindowInv'
    BY <1>1, <1>2, <1>3 DEF WindowInv, memory
<1> QED
    BY <1>4, <1>5

(* Recording into a descriptor makes the window longer at its end.         *)
LEMMA WindowRecord ==
  ASSUME TypeOK, SessionOK, DmaRecord PROVE SessionOK'
<1> SUFFICES ASSUME clean' PROVE SessionInv' /\ WindowInv'
    BY DEF SessionOK
<1>1. /\ running /\ OWN[head] /\ clean /\ recorded' = recorded + 1
      /\ chunk' = [chunk EXCEPT ![head] = recorded]
      /\ OWN' = [OWN EXCEPT ![head] = FALSE] /\ head' = next_tail(head)
      /\ UNCHANGED <<ropened, ring, tail, running, aim, pc, call, delivered>>
    BY DEF DmaRecord, InRing
<1>2. SessionInv /\ WindowInv
    BY <1>1 DEF SessionOK
<1>3. /\ Started /\ Started' /\ EngineAt = head /\ EngineAt' = next_tail(head)
      /\ TakeAt' = TakeAt
    BY <1>1, <1>2 DEF Started, EngineAt, TakeAt, call, SessionInv
<1>4. /\ head \in Desc /\ TakeAt \in Desc
      /\ OWN \in [Desc -> BOOLEAN] /\ chunk \in [Desc -> Nat]
      /\ delivered \in Nat /\ recorded \in Nat /\ delivered <= recorded
    BY <1>2 DEF TypeOK, TakeAt, SessionInv
<1>5. /\ Filled' = Filled \cup {head} /\ head \notin Filled
      /\ Filled \subseteq Desc
    BY <1>1, <1>4 DEF Filled
<1>6. Window(Filled, chunk, delivered, recorded, TakeAt, head)
    BY <1>2, <1>3 DEF WindowInv
<1>7. Window(Filled', chunk', delivered, recorded + 1,
             TakeAt, next_tail(head))
    BY <1>1, <1>4, <1>5, <1>6, WindowGrows
<1>8. SessionInv'
    BY <1>1, <1>2, <1>3, <1>4 DEF SessionInv
<1>9. WindowInv'
    BY <1>1, <1>3, <1>7 DEF WindowInv
<1> QED
    BY <1>8, <1>9

(* Waiting, its end by a signal, a pause, the beginning of close(), the    *)
(* interrupt and a stall move neither end of the window.                   *)
Quiet ==
  \/ StopWaiting \/ GoToSleep \/ Interrupted \/ I2S_PAUSE
  \/ (ath_i2s_close /\ ~Release) \/ ath_i2s_intr \/ DmaStall \/ UNCHANGED vars

LEMMA QuietStep ==
  ASSUME Quiet
  PROVE  /\ UNCHANGED <<ropened, memory, aim, head, history>>
         /\ UNCHANGED <<ptail, got, need_start>>
         /\ running' = running \/ ~running'
         /\ \/ pc' = pc
            \/ pc = "sleep" /\ pc' = "copy"
            \/ pc = "idle" /\ pc' = "drain"
<1>1. CASE StopWaiting
    BY <1>1 DEF StopWaiting, engine, call
<1>2. CASE GoToSleep
    BY <1>2 DEF GoToSleep, engine, call
<1>3. CASE Interrupted
    BY <1>3 DEF Interrupted, engine
<1>4. CASE I2S_PAUSE
    BY <1>4 DEF I2S_PAUSE, call
<1>5. CASE ath_i2s_close /\ ~Release
    BY <1>5 DEF ath_i2s_close, engine, call
<1>6. CASE ath_i2s_intr
    BY <1>6 DEF ath_i2s_intr, engine, call
<1>7. CASE DmaStall
    BY <1>7 DEF DmaStall, call
<1>8. CASE UNCHANGED vars
    BY <1>8 DEF vars, engine, call
<1> QED
    BY <1>1, <1>2, <1>3, <1>4, <1>5, <1>6, <1>7, <1>8 DEF Quiet

LEMMA WindowQuiet ==
  ASSUME TypeOK, CallInv, SessionOK, Quiet PROVE SessionOK'
<1> SUFFICES ASSUME clean' PROVE SessionInv' /\ WindowInv'
    BY DEF SessionOK
<1>1. /\ clean /\ UNCHANGED <<ropened, memory, aim, head, recorded, delivered>>
      /\ UNCHANGED <<ptail, got, need_start>>
      /\ running' = running \/ ~running'
    BY QuietStep DEF history
<1>2. SessionInv /\ WindowInv
    BY <1>1 DEF SessionOK
<1>3. (Started' <=> Started) /\ TakeAt' = TakeAt /\ pc' # "closed"
  <2>1. CASE pc' = pc
    BY <1>1, <1>2, <2>1 DEF Started, TakeAt, SessionInv, memory
  <2>2. CASE pc = "sleep" /\ pc' = "copy"
    <3>1. ropened = 2 /\ ptail = tail /\ ~need_start
      BY <2>2 DEF CallInv
    <3> QED
      BY <1>1, <2>2, <3>1 DEF Started, TakeAt, memory
  <2>3. CASE pc = "idle" /\ pc' = "drain"
    BY <1>1, <2>3 DEF Started, TakeAt, memory
  <2> QED
    BY <2>1, <2>2, <2>3, QuietStep
<1>4. EngineAt' = EngineAt /\ Filled' = Filled
    BY <1>1, <1>3 DEF EngineAt, Filled, memory
<1>5. SessionInv'
    BY <1>1, <1>2, <1>3 DEF SessionInv, memory
<1>6. WindowInv'
    BY <1>1, <1>2, <1>3, <1>4 DEF WindowInv, memory
<1> QED
    BY <1>5, <1>6

LEMMA WindowStep == TypeOK /\ RingInv /\ [Next]_vars => RingInv'
<1> SUFFICES ASSUME TypeOK, CallInv, SessionOK, [Next]_vars PROVE SessionOK'
    BY TypeStep DEF RingInv, SessionOK
<1>1. CASE CopyFault
    BY <1>1 DEF CopyFault, SessionOK
<1>2. CASE Release
    BY <1>2 DEF Release, SessionOK
<1>3. CASE DmaStray
  <2>1. ~clean
    BY <1>3 DEF DmaStray, SessionOK, SessionInv
  <2> QED
    BY <1>3, <2>1 DEF DmaStray, SessionOK, history
<1> QED
    BY <1>1, <1>2, <1>3, WindowOpen, WindowRead, WindowCopy, WindowKick,
       WindowResume, WindowRecord, WindowQuiet
    DEF Next, Read, CloseDrained, Quiet

(* The window is an invariant of recording, through every sleep, signal,   *)
(* pause and resume.                                                       *)
THEOREM RingInvariant == Spec => []RingInv
<1>1. Spec => [](TypeOK /\ RingInv)
  <2>1. Init => TypeOK /\ RingInv
    BY TypeInit DEF Init, RingInv
  <2>2. TypeOK /\ RingInv /\ [Next]_vars => TypeOK' /\ RingInv'
    BY TypeStep, WindowStep DEF RingInv
  <2> QED
    BY <2>1, <2>2, PTL DEF Spec
<1> QED
    BY <1>1, PTL

(* Together with the types: the invariant that each step preserves.        *)
THEOREM InductiveInvariant == Spec => []IndInv
BY TypeCorrect, RingInvariant, PTL DEF IndInv

(* ath_i2s_read() delivers the chunks of a clean session in the order they *)
(* were recorded, also when waits are interrupted.                         *)
THEOREM DeliversInOrder == Spec => []InOrder
<1>1. TypeOK /\ RingInv => InOrder
  <2> SUFFICES ASSUME TypeOK, SessionInv, WindowInv, pc = "copy",
                      SeesFree(ptail)
               PROVE  chunk[ptail] = delivered
    BY DEF InOrder, RingInv
  <2>1. /\ TakeAt = ptail /\ ptail \in Filled /\ Filled \subseteq Desc
        /\ ptail \in Desc /\ EngineAt \in Desc /\ chunk \in [Desc -> Nat]
        /\ delivered \in Nat /\ recorded \in Nat
    BY DEF SeesFree, SessionInv, TakeAt, EngineAt, Filled, TypeOK
  <2>2. Window(Filled, chunk, delivered, recorded, ptail, EngineAt)
    BY <2>1 DEF WindowInv
  <2> QED
    BY <2>1, <2>2, WindowFirst
<1> QED
    BY <1>1, TypeCorrect, RingInvariant, PTL

(* The engine never records over what was not yet read: the window holds   *)
(* every chunk from the first not yet read to the last recorded.           *)
THEOREM NeverOverwrites == Spec => []NothingOverwritten
<1>1. IndInv => NothingOverwritten
  <2> SUFFICES ASSUME IndInv, clean, NEW k \in delivered .. recorded - 1
               PROVE  \E d \in Filled : chunk[d] = k
    BY DEF NothingOverwritten
  <2> DEFINE i == k - delivered
  <2>1. /\ delivered \in Nat /\ recorded \in Nat
        /\ Window(Filled, chunk, delivered, recorded, TakeAt, EngineAt)
    BY DEF IndInv, TypeOK, RingInv, WindowInv
  <2>2. i \in 0 .. (recorded - delivered) - 1 /\ delivered + i = k
    BY <2>1
  <2>3. Nth(TakeAt, i) \in Filled /\ chunk[Nth(TakeAt, i)] = k
    BY <2>1, <2>2 DEF Window
  <2> QED
    BY <2>3
<1> QED
    BY <1>1, InductiveInvariant, PTL
-----------------------------------------------------------------------------
(***************************************************************************)
(* A step that leaves recording paused does not set the engine going,      *)
(* except where a session starts it and where a paused player closes.      *)
(* Proved of every session, clean or not.                                  *)
(***************************************************************************)
LEMMA PauseStep ==
  ASSUME TypeOK, [Next]_vars, rpause, rpause', ~need_start, ~PausedPlayerCloses,
         ~running
  PROVE  ~running'
<1>1. CASE ath_i2s_open
    BY <1>1 DEF ath_i2s_open, ath_i2s_init_desc
<1>2. CASE KickEngine
    BY <1>2 DEF KickEngine, Kick, engine
<1>3. CASE I2S_RESUME
    BY <1>3 DEF I2S_RESUME
<1>4. CASE CopyFault \/ CopyDescriptor \/ ath_i2s_read
    BY <1>4 DEF CopyFault, CopyDescriptor, ath_i2s_read, engine
<1>5. CASE Release
    BY <1>5 DEF Release
<1>6. CASE Quiet
    BY <1>6 DEF Quiet, StopWaiting, GoToSleep, Interrupted, I2S_PAUSE,
       ath_i2s_close, ath_i2s_intr, DmaStall, engine, vars
<1>7. CASE DmaRecord \/ DmaStray
    BY <1>7 DEF DmaRecord, DmaStray, InRing
<1> QED
    BY <1>1, <1>2, <1>3, <1>4, <1>5, <1>6, <1>7 DEF Next, Read, CloseDrained, Quiet

(* A pause of recording holds: no read(), interrupt or close() ends it.    *)
THEOREM PausesHold == Spec => PauseHolds
<1>1. TypeOK /\ [Next]_vars =>
        [rpause /\ rpause' /\ ~need_start /\ ~PausedPlayerCloses =>
           (running' => running)]_vars
    BY PauseStep
<1> QED
    BY <1>1, TypeCorrect, PTL DEF Spec, PauseHolds
-----------------------------------------------------------------------------
(***************************************************************************)
(* Nobody waits in vain, along the argument of AthI2s_proofs with the      *)
(* roles of process and engine exchanged: the engine stops at the end of   *)
(* the window, the reader sleeps at its beginning.                         *)
(***************************************************************************)
LEMMA EngineKnown ==
  ASSUME IndInv, clean
  PROVE  /\ running => EngineAt = head /\ aim = "ring"
         /\ pc = "sleep" => EngineAt = head /\ TakeAt = ptail
         /\ Window(Filled, chunk, delivered, recorded, TakeAt, EngineAt)
         /\ delivered \in Nat /\ recorded \in Nat /\ TakeAt \in Desc
BY DEF IndInv, TypeOK, RingInv, CallInv, SessionInv, WindowInv, Started,
       EngineAt, TakeAt

(* The engine stops at a descriptor that is the process's; as the end of   *)
(* the window it makes that the whole ring.                                *)
LEMMA StandingStep ==
  IndInv /\ IndInv' /\ StandsOnlyWhenFull /\ [Next]_vars => StandsOnlyWhenFull'
<1> SUFFICES ASSUME IndInv, IndInv', StandsOnlyWhenFull, [Next]_vars,
                    clean', Started', pc' # "copy", ~rpause', Filled' # Desc
             PROVE  InRing'
    BY DEF StandsOnlyWhenFull
<1>1. CallInv /\ aim' = "ring" /\ ropened' = 2
    BY DEF IndInv, RingInv, SessionInv, Started
<1>2. CASE /\ clean /\ ropened = 2 /\ pc # "copy" /\ ~rpause
           /\ UNCHANGED <<OWN, running, aim>>
    BY <1>2 DEF StandsOnlyWhenFull, Started, Filled, InRing
<1>3. CASE ath_i2s_open
    BY <1>1, <1>3 DEF ath_i2s_open, ath_i2s_init_desc
<1>4. CASE ath_i2s_read
  <2>1. ropened = 2
    BY <1>4 DEF ath_i2s_read, IndInv, TypeOK
  <2> QED
    BY <1>2, <1>4, <2>1 DEF ath_i2s_read, memory, engine, history
<1>5. CASE StopWaiting \/ Interrupted \/ CopyDescriptor
    BY <1>5 DEF StopWaiting, Interrupted, CopyDescriptor
<1>6. CASE GoToSleep \/ ath_i2s_intr \/ UNCHANGED vars
  <2>1. UNCHANGED <<pc, ropened, OWN, running, aim, rpause, clean>>
    <3>1. CASE GoToSleep \/ ath_i2s_intr
      BY <3>1 DEF GoToSleep, ath_i2s_intr, memory, engine, history
    <3>2. CASE UNCHANGED vars
      BY <3>2 DEF vars, memory, engine, history
    <3> QED
      BY <1>6, <3>1, <3>2
  <2> QED
    BY <1>1, <1>2, <2>1
<1>7. CASE KickEngine
    BY <1>1, <1>7
    DEF KickEngine, Kick, ath_i2s_dma_start, ath_i2s_dma_resume, InRing
<1>8. CASE CopyFault \/ CloseDrained
    BY <1>8 DEF CopyFault, CloseDrained, Release
<1>9. CASE I2S_PAUSE
    BY <1>9 DEF I2S_PAUSE
<1>10. CASE I2S_RESUME \/ PausedPlayerCloses
    BY <1>1, <1>10
    DEF I2S_RESUME, PausedPlayerCloses, ath_i2s_dma_resume, InRing
<1>11. CASE ath_i2s_close
    BY <1>1, <1>2, <1>11 DEF ath_i2s_close, Release, memory, engine, history
<1>12. CASE DmaRecord
  <2>1. InRing /\ UNCHANGED <<running, aim>>
    BY <1>12 DEF DmaRecord
  <2> QED
    BY <2>1 DEF InRing
<1>13. CASE DmaStall
  <2>1. clean /\ running /\ ~OWN[head] /\ UNCHANGED OWN
    BY <1>13 DEF DmaStall, InRing, memory, history
  <2>2. head \in Filled /\ EngineAt = head
    BY <2>1, EngineKnown DEF Filled, IndInv, TypeOK
  <2>3. Desc \subseteq Filled
    BY <2>1, <2>2, EngineKnown, WindowWithEnd
  <2>4. Filled' = Desc
    BY <2>1, <2>3 DEF Filled
  <2> QED
    BY <2>4
<1>14. CASE DmaStray
  <2>1. clean /\ running /\ aim = "gone"
    BY <1>14 DEF DmaStray, history
  <2> QED
    BY <2>1, EngineKnown
<1> QED
    BY <1>3, <1>4, <1>5, <1>6, <1>7, <1>8, <1>9, <1>10, <1>11, <1>12, <1>13,
       <1>14 DEF Next, Read

(* A reader goes to sleep when the first descriptor of the window is the   *)
(* engine's: then the window is empty, and the engine is there.            *)
LEMMA SleepingStep ==
  IndInv /\ SleepsForTheEngine /\ [Next]_vars => SleepsForTheEngine'
<1> SUFFICES ASSUME IndInv, SleepsForTheEngine, [Next]_vars,
                    clean', pc' = "sleep", ~awake'
             PROVE  irq' \/ (OWN'[ptail'] /\ head' = ptail')
    BY DEF SleepsForTheEngine
<1>1. CASE clean /\ pc = "sleep" /\ ~awake /\ UNCHANGED <<irq, OWN, head, ptail>>
    BY <1>1 DEF SleepsForTheEngine
<1>2. CASE I2S_PAUSE \/ I2S_RESUME \/ PausedPlayerCloses \/ DmaStall
           \/ UNCHANGED vars
  <2>1. UNCHANGED <<pc, awake, irq, OWN, head, ptail>>
    <3>1. CASE I2S_PAUSE \/ DmaStall
      BY <3>1 DEF I2S_PAUSE, DmaStall, memory, call
    <3>2. CASE I2S_RESUME \/ PausedPlayerCloses
      BY <3>2 DEF I2S_RESUME, PausedPlayerCloses, ath_i2s_dma_resume, memory, call
    <3>3. CASE UNCHANGED vars
      BY <3>3 DEF vars, memory, engine, call
    <3> QED
      BY <1>2, <3>1, <3>2, <3>3
  <2>2. clean
    BY <1>2 DEF I2S_PAUSE, I2S_RESUME, PausedPlayerCloses, DmaStall, history, vars
  <2> QED
    BY <1>1, <2>1, <2>2
<1>3. CASE ath_i2s_open \/ Interrupted \/ StopWaiting \/ CopyDescriptor
           \/ KickEngine
    BY <1>3 DEF ath_i2s_open, Interrupted, StopWaiting, CopyDescriptor, KickEngine
<1>4. CASE ath_i2s_read \/ ath_i2s_intr
    BY <1>4 DEF ath_i2s_read, ath_i2s_intr
<1>5. CASE CopyFault \/ CloseDrained \/ ath_i2s_close
    BY <1>5 DEF CopyFault, CloseDrained, ath_i2s_close, Release
<1>6. CASE GoToSleep
  <2>1. /\ clean /\ pc = "sleep" /\ SeesOwned(ptail)
        /\ UNCHANGED <<OWN, head, ptail>>
    BY <1>6 DEF GoToSleep, memory, engine, call, history
  <2>2. OWN[ptail]
    BY <2>1 DEF SeesOwned, IndInv, RingInv, SessionInv
  <2>3. TakeAt = ptail /\ TakeAt \notin Filled /\ EngineAt = head
    BY <2>1, <2>2, EngineKnown DEF Filled
  <2>4. EngineAt = TakeAt
    BY <2>1, <2>3, EngineKnown, WindowWithoutFirst
  <2> QED
    BY <2>1, <2>2, <2>3, <2>4
<1>7. CASE DmaRecord
    BY <1>7 DEF DmaRecord
<1>8. CASE DmaStray
  <2>1. clean /\ running /\ aim = "gone"
    BY <1>8 DEF DmaStray, history
  <2> QED
    BY <2>1, EngineKnown
<1> QED
    BY <1>2, <1>3, <1>4, <1>5, <1>6, <1>7, <1>8 DEF Next, Read

(* In a clean session an engine that was started and is not paused stands  *)
(* still only if it has no room, and a reader sleeps only while the engine *)
(* is at the descriptor it waits for or the interrupt has yet to be served.*)
THEOREM NobodyWaitsInVain == Spec => []NoVainWait
<1>1. Spec => []IndInv
    BY InductiveInvariant
<1>2. Init => NoVainWait
    BY DEF Init, NoVainWait, StandsOnlyWhenFull, SleepsForTheEngine
<1>3. IndInv /\ IndInv' /\ NoVainWait /\ [Next]_vars => NoVainWait'
    BY StandingStep, SleepingStep DEF NoVainWait
<1> QED
    BY <1>1, <1>2, <1>3, PTL DEF Spec
-----------------------------------------------------------------------------
(***************************************************************************)
(* A read() that was woken up finds what it was woken up for: only it      *)
(* takes descriptors that were recorded, and it looks again before it goes *)
(* on.                                                                     *)
(***************************************************************************)
WokenInv ==
  /\ pc \in {"sleep", "copy"} /\ got = 0 => byte_cnt > 0
  /\ pc = "sleep" => ~signalled
  /\ clean /\ pc = "copy" /\ got = 0 /\ ~need_start /\ ~signalled => ~OWN[ptail]

LEMMA WokenStep == TypeOK /\ RingInv /\ WokenInv /\ [Next]_vars => WokenInv'
<1> SUFFICES ASSUME TypeOK, RingInv, WokenInv, [Next]_vars PROVE WokenInv'
    OBVIOUS
<1> USE DEF WokenInv
<1>1. CASE ath_i2s_open
    BY <1>1 DEF ath_i2s_open
<1>2. CASE ath_i2s_read
  <2>1. byte_cnt' \in Nat /\ byte_cnt' > 0
    BY <1>2, CaptureAssumption DEF ath_i2s_read
  <2>2. ~signalled' /\ (pc' = "copy" => need_start')
    BY <1>2 DEF ath_i2s_read
  <2> QED
    BY <2>1, <2>2
<1>3. CASE StopWaiting
  <2>1. clean => ~OWN[ptail]
    BY <1>3 DEF StopWaiting, SeesFree, RingInv, SessionInv
  <2> QED
    BY <1>3, <2>1 DEF StopWaiting, memory, call, history
<1>4. CASE Interrupted
    BY <1>4 DEF Interrupted
<1>5. CASE CopyDescriptor
    BY <1>5 DEF CopyDescriptor, TypeOK
<1>6. CASE GoToSleep \/ I2S_PAUSE \/ ath_i2s_intr \/ DmaStall \/ DmaStray \/ UNCHANGED vars
    BY <1>6 DEF GoToSleep, I2S_PAUSE, ath_i2s_intr, DmaStall, DmaStray, memory, call,
       history, vars
<1>7. CASE I2S_RESUME \/ PausedPlayerCloses
  <2>1. /\ UNCHANGED <<OWN, pc, ptail, got, byte_cnt, need_start, signalled>>
        /\ clean' => clean
    BY <1>7 DEF I2S_RESUME, PausedPlayerCloses, memory, call
  <2> QED
    BY <2>1
<1>8. CASE KickEngine \/ CopyFault \/ Release \/ (ath_i2s_close /\ ~Release)
    BY <1>8 DEF KickEngine, CopyFault, Release, ath_i2s_close
<1>9. CASE DmaRecord
  <2>1. OWN' = [OWN EXCEPT ![head] = FALSE] /\ UNCHANGED <<pc, call, clean>>
    BY <1>9 DEF DmaRecord
  <2> QED
    BY <2>1 DEF TypeOK, call
<1> QED
    BY <1>1, <1>2, <1>3, <1>4, <1>5, <1>6, <1>7, <1>8, <1>9 DEF Next, Read, CloseDrained

(* ath_i2s_read() returns 0, of a clean session, only if it is the first   *)
(* or a signal ended its wait: wait_event_interruptible() looks again.     *)
THEOREM ReadsSomething == Spec => EmptyHanded
<1>1. Init => WokenInv
    BY DEF Init, WokenInv
<1>2. Spec => [](TypeOK /\ RingInv)
    BY TypeCorrect, RingInvariant, PTL
<1>3. TypeOK /\ RingInv /\ WokenInv /\ [Next]_vars =>
        [clean /\ KickEngine /\ got = 0 => need_start \/ signalled]_vars
    BY DEF KickEngine, SeesOwned, WokenInv, RingInv, SessionInv, TypeOK
<1> QED
    BY <1>1, <1>2, <1>3, WokenStep, PTL DEF Spec, EmptyHanded
-----------------------------------------------------------------------------
(***************************************************************************)
(* The ring as a ChunkQueue.  What it holds is always the numbers between  *)
(* the two counts in their order, so that a step is known by what it does  *)
(* to the counts.                                                          *)
(***************************************************************************)
IsRow ==
  clean => /\ delivered \in Nat /\ recorded \in Nat /\ delivered <= recorded
           /\ recorded - delivered <= NUM_DESC
           /\ Held(chunk, TakeAt, recorded - delivered) = Row(delivered, recorded)

LEMMA QueueIsRow == IndInv => IsRow
<1> SUFFICES ASSUME IndInv, clean PROVE IsRow
    BY DEF IsRow
<1>1. delivered \in Nat /\ recorded \in Nat /\ delivered <= recorded /\ WindowInv
    BY DEF IndInv, TypeOK, RingInv, SessionInv
<1>2. /\ recorded - delivered \in 0 .. NUM_DESC
      /\ Held(chunk, TakeAt, recorded - delivered) = Row(delivered, recorded)
    BY <1>1, HeldIsRow DEF WindowInv
<1> QED
    BY <1>1, <1>2, SizeAssumption DEF IsRow

(* What each step of a session that is clean after it does to the counts.  *)
LEMMA QueueCounts ==
  ASSUME IndInv, [Next]_vars, clean'
  PROVE  \/ ~clean /\ delivered' = 0 /\ recorded' = 0
         \/ clean /\ delivered' = delivered /\ recorded' = recorded + 1
         \/ clean /\ delivered' = delivered + 1 /\ recorded' = recorded
         \/ clean /\ delivered' = delivered /\ recorded' = recorded
<1>1. clean => pc # "closed"
    BY DEF IndInv, RingInv, SessionInv
<1>2. CASE ath_i2s_open
    BY <1>1, <1>2 DEF ath_i2s_open
<1>3. CASE CopyDescriptor \/ DmaRecord
    BY <1>3 DEF CopyDescriptor, DmaRecord
<1>4. CASE ath_i2s_read \/ KickEngine \/ DmaStray
    BY <1>4 DEF ath_i2s_read, KickEngine, DmaStray, history
<1>5. CASE I2S_RESUME \/ PausedPlayerCloses
    BY <1>5 DEF I2S_RESUME, PausedPlayerCloses
<1>6. ~CopyFault /\ ~Release
    BY DEF CopyFault, Release
<1>7. CASE Quiet
    BY <1>7, QuietStep DEF history
<1> QED
    BY <1>2, <1>3, <1>4, <1>5, <1>6, <1>7 DEF Next, Read, CloseDrained, Quiet

LEMMA QueueInit == Init => Queue!Init
BY DEF Init, Queue!Init, Queue!Nothing

(* Every step is a step of the queue, or none.                             *)
LEMMA QueueStep == IndInv /\ IndInv' /\ [Next]_vars => [Queue!Next]_(Queue!vars)
<1> SUFFICES ASSUME IndInv, IndInv', [Next]_vars
             PROVE  [Queue!Next]_(Queue!vars)
    OBVIOUS
<1> DEFINE held == Held(chunk, TakeAt, recorded - delivered)
<1>1. clean => /\ delivered \in Nat /\ recorded \in Nat /\ delivered <= recorded
               /\ recorded - delivered <= NUM_DESC /\ held = Row(delivered, recorded)
    BY QueueIsRow DEF IsRow
<1>2. clean' => /\ delivered' \in Nat /\ recorded' \in Nat /\ delivered' <= recorded'
                /\ recorded' - delivered' <= NUM_DESC /\ held' = Row(delivered', recorded')
  <2>1. IndInv' => IsRow'
    BY QueueIsRow, PTL
  <2> QED
    BY <2>1 DEF IsRow
<1>3. clean \in BOOLEAN /\ clean' \in BOOLEAN
    BY DEF IndInv, TypeOK
<1> HIDE DEF held
<1>4. CASE ~clean /\ ~clean'
    BY <1>3, <1>4 DEF Queue!vars
<1>5. CASE clean /\ ~clean'
    BY <1>3, <1>5 DEF Queue!Next, Queue!End, Queue!Nothing
<1>6. CASE clean' /\ ~clean
  <2>1. delivered' = 0 /\ recorded' = 0
    BY <1>6, QueueCounts
  <2>2. held' = <<>>
    BY <1>2, <1>6, <2>1, RowGrows
  <2> QED
    BY <1>3, <1>6, <2>1, <2>2 DEF Queue!Next, Queue!Begin, held
<1>7. CASE clean /\ clean' /\ delivered' = delivered /\ recorded' = recorded + 1
  <2>1. Len(held) < NUM_DESC
    <3>1. NUM_DESC \in Nat /\ recorded - delivered < NUM_DESC
      BY <1>1, <1>2, <1>7, SizeAssumption
    <3> QED
      BY <1>1, <1>7, <3>1, RowGrows
  <2>2. held' = Append(held, recorded)
    BY <1>1, <1>2, <1>7, RowGrows
  <2> QED
    BY <1>3, <1>7, <2>1, <2>2 DEF Queue!Next, Queue!Put, held
<1>8. CASE clean /\ clean' /\ delivered' = delivered + 1 /\ recorded' = recorded
  <2>1. delivered < recorded
    BY <1>1, <1>2, <1>8
  <2>2. held # <<>> /\ Head(held) = delivered /\ held' = Tail(held)
    BY <1>1, <1>2, <1>8, <2>1, RowShrinks
  <2> QED
    BY <1>3, <1>8, <2>2 DEF Queue!Next, Queue!Take, held
<1>9. CASE clean /\ clean' /\ delivered' = delivered /\ recorded' = recorded
    BY <1>1, <1>2, <1>3, <1>9 DEF Queue!vars, held
<1> QED
    BY <1>3, <1>4, <1>5, <1>6, <1>7, <1>8, <1>9, QueueCounts

(* Recording with a reader that sleeps and is interrupted is the same      *)
(* bounded queue through every signal, pause and resume, for every size of *)
(* the ring.                                                               *)
THEOREM IsAQueue == Spec => ImplementsQueue
<1>1. IndInv /\ IndInv' /\ [Next]_vars => [Queue!Next]_(Queue!vars)
    BY QueueStep
<1>2. Spec => Queue!Init /\ [][Queue!Next]_(Queue!vars)
    BY <1>1, QueueInit, InductiveInvariant, PTL DEF Spec
<1> QED
    BY <1>2 DEF ImplementsQueue, Queue!Spec
=============================================================================
