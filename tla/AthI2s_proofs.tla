--------------------------- MODULE AthI2s_proofs ---------------------------
(***************************************************************************)
(* Proofs about AthI2s, for every size of the ring and of the requests,    *)
(* every bound, and every interleaving of signals, interrupts and pauses.  *)
(***************************************************************************)
EXTENDS AthI2s, RingWindow_proofs

(* A request is at least one chunk, and perhaps an end of EAGAIN bytes.    *)
LEMMA RequestType ==
  ASSUME NEW r \in Requests
  PROVE  r[1] \in Nat /\ r[1] > 0 /\ r[2] \in BOOLEAN
BY AthAssumption

(***************************************************************************)
(* Every variable keeps its type.                                          *)
(***************************************************************************)
LEMMA TypeInit == Init => TypeOK /\ CallInv
<1> SUFFICES ASSUME Init PROVE TypeOK /\ CallInv
    OBVIOUS
<1>1. OWN \in [Desc -> BOOLEAN] /\ chunk \in [Desc -> Nat]
    BY DEF Init
<1>2. /\ popened \in 0 .. 2
      /\ count \in Nat /\ first \in Nat /\ todo \in Nat /\ buf \in Nat
      /\ got \in Nat /\ played \in Nat
    BY DEF Init
<1>3. /\ ppause \in BOOLEAN /\ running \in BOOLEAN /\ irq \in BOOLEAN
      /\ awake \in BOOLEAN /\ odd \in BOOLEAN /\ need_start \in BOOLEAN
      /\ clean \in BOOLEAN
    BY DEF Init
<1>4. ring \in {"live", "freed"} /\ aim \in {"ring", "gone"} /\ pc \in Locations
    BY DEF Init, Locations
<1>5. tail \in Desc /\ head \in Desc /\ ptail \in Desc
    BY DescType DEF Init
<1>6. CallInv
    BY DEF Init, CallInv
<1> QED
    BY <1>1, <1>2, <1>3, <1>4, <1>5, <1>6 DEF TypeOK

LEMMA TypeStep == TypeOK /\ CallInv /\ [Next]_vars => TypeOK' /\ CallInv'
<1> SUFFICES ASSUME TypeOK, CallInv, [Next]_vars PROVE TypeOK' /\ CallInv'
    OBVIOUS
<1>1. CASE ath_i2s_open
  <2>1. OWN' \in [Desc -> BOOLEAN] /\ chunk' \in [Desc -> Nat]
    BY <1>1 DEF ath_i2s_open, ath_i2s_init_desc
  <2>2. tail' \in Desc
    BY <1>1, DescType DEF ath_i2s_open, ath_i2s_init_desc, TypeOK
  <2>3. pc' \in Locations /\ clean' \in BOOLEAN
    BY <1>1 DEF ath_i2s_open, Locations
  <2>4. ring' \in {"live", "freed"} /\ aim' \in {"ring", "gone"}
    BY <1>1 DEF ath_i2s_open, ath_i2s_init_desc
  <2>5. /\ popened' \in 0 .. 2 /\ first' \in Nat /\ buf' \in Nat
        /\ played' \in Nat
    BY <1>1 DEF ath_i2s_open, ath_i2s_init_desc
  <2>6. ppause' = FALSE
    BY <1>1 DEF ath_i2s_open, ath_i2s_init_desc
  <2>7. TypeOK'
    BY <1>1, <2>1, <2>2, <2>3, <2>4, <2>5, <2>6 DEF ath_i2s_open, call, TypeOK
  <2>8. CallInv'
    BY <1>1 DEF ath_i2s_open, call, CallInv
  <2> QED
    BY <2>7, <2>8
<1>2. CASE ath_i2s_write
  <2>1. count' \in Nat /\ odd' \in BOOLEAN /\ todo' \in Nat
    BY <1>2, RequestType DEF ath_i2s_write
  <2>2. first' \in Nat /\ pc' \in Locations
    BY <1>2 DEF ath_i2s_write, Locations, TypeOK
  <2>3. TypeOK'
    BY <1>2, <2>1, <2>2 DEF ath_i2s_write, TypeOK, memory, engine, call
  <2>4. CallInv'
    BY <1>2, <2>1 DEF ath_i2s_write, CallInv, memory, call
  <2> QED
    BY <2>3, <2>4
<1>3. CASE ath_i2s_wr
  <2>1. /\ popened' \in 0 .. 2 /\ got' \in Nat /\ ptail' \in Desc
        /\ need_start' \in BOOLEAN /\ awake' \in BOOLEAN /\ pc' \in Locations
    BY <1>3 DEF ath_i2s_wr, TypeOK, Locations
  <2>2. TypeOK'
    BY <1>3, <2>1 DEF ath_i2s_wr, TypeOK, memory, engine, request
  <2>3. CallInv'
    BY <1>3 DEF ath_i2s_wr, TypeOK, CallInv, memory
  <2> QED
    BY <2>2, <2>3
<1>4. CASE StopWaiting
  <2>1. pc' \in Locations
    BY <1>4 DEF StopWaiting, Locations
  <2>2. TypeOK'
    BY <1>4, <2>1 DEF StopWaiting, TypeOK, memory, engine, request, call
  <2>3. CallInv'
    BY <1>4 DEF StopWaiting, CallInv, memory, call
  <2> QED
    BY <2>2, <2>3
<1>5. CASE GoToSleep
    BY <1>5 DEF GoToSleep, TypeOK, CallInv, memory, engine, request, call
<1>6. CASE Interrupted
  <2>1. pc' \in Locations
    BY <1>6 DEF Interrupted, Locations
  <2>2. TypeOK'
    BY <1>6, <2>1 DEF Interrupted, TypeOK, memory, engine, request, call
  <2>3. CallInv'
    BY <1>6 DEF Interrupted, CallInv, memory, call
  <2> QED
    BY <2>2, <2>3
<1>7. CASE FillDescriptor
  <2>1. /\ OWN' \in [Desc -> BOOLEAN] /\ chunk' \in [Desc -> Nat]
        /\ ptail' \in Desc /\ got' \in Nat
    BY <1>7, DescType DEF FillDescriptor, TypeOK
  <2>2. TypeOK'
    BY <1>7, <2>1 DEF FillDescriptor, TypeOK, engine, request
  <2>3. CallInv'
    BY <1>7 DEF FillDescriptor, TypeOK, CallInv
  <2> QED
    BY <2>2, <2>3
<1>8. CASE CopyFault
  <2>1. todo' \in Nat /\ got' = 0
    BY <1>8 DEF CopyFault, TypeOK
  <2>2. clean' \in BOOLEAN /\ pc' \in Locations
    BY <1>8 DEF CopyFault, Locations
  <2>3. TypeOK'
    BY <1>8, <2>1, <2>2 DEF CopyFault, TypeOK, memory, engine, request
  <2>4. CallInv'
    BY <1>8, <2>1 DEF CopyFault, CallInv
  <2> QED
    BY <2>3, <2>4
<1>9. CASE KickEngine
  <2>1. todo' \in Nat /\ buf' \in Nat /\ got' = 0
    BY <1>9 DEF KickEngine, TypeOK, CallInv
  <2>2. running' \in BOOLEAN /\ need_start' \in BOOLEAN /\ tail' \in Desc
    BY <1>9 DEF KickEngine, Kick, ath_i2s_dma_start, ath_i2s_dma_resume, engine,
           TypeOK
  <2>3. head' \in Desc /\ aim' \in {"ring", "gone"}
    BY <1>9 DEF KickEngine, Kick, ath_i2s_dma_start, ath_i2s_dma_resume, engine,
           TypeOK
  <2>4. pc' \in Locations /\ clean' \in BOOLEAN
    BY <1>9 DEF KickEngine, Locations, TypeOK
  <2>5. TypeOK'
    BY <1>9, <2>1, <2>2, <2>3, <2>4 DEF KickEngine, TypeOK, request
  <2>6. pc' \notin {"fill", "sleep"}
    BY <1>9 DEF KickEngine
  <2>7. CallInv'
    BY <2>1, <2>6 DEF CallInv
  <2> QED
    BY <2>5, <2>7
<1>10. CASE I2S_PAUSE
    BY <1>10 DEF I2S_PAUSE, TypeOK, CallInv, memory, request, call
<1>11. CASE I2S_RESUME
    BY <1>11 DEF I2S_RESUME, ath_i2s_dma_resume, TypeOK, CallInv, memory, request,
           call
<1>12. ASSUME Release, pc # "fill" PROVE TypeOK' /\ CallInv'
  <2>1. OWN' \in [Desc -> BOOLEAN] /\ chunk' \in [Desc -> Nat]
    BY <1>12 DEF Release
  <2>2. /\ popened' \in 0 .. 2 /\ ring' \in {"live", "freed"}
        /\ aim' \in {"ring", "gone"} /\ pc' \in Locations
    BY <1>12 DEF Release, Locations
  <2>3. ppause' = FALSE /\ clean' = FALSE
    BY <1>12 DEF Release
  <2>4. TypeOK'
    BY <1>12, <2>1, <2>2, <2>3 DEF Release, TypeOK, request, call
  <2> QED
    BY <1>12, <2>4 DEF Release, CallInv, call
<1>13. CASE ath_i2s_close
  <2>1. CASE ppause
    BY <1>12, <1>13, <2>1 DEF ath_i2s_close
  <2>2. CASE ~ppause
    <3>1. pc = "idle" /\ pc' = "drain" /\ pc' \in Locations
      BY <1>13, <2>2 DEF ath_i2s_close, Locations
    <3>2. TypeOK'
      BY <1>13, <2>2, <3>1 DEF ath_i2s_close, TypeOK, memory, engine, request, call
    <3> QED
      BY <1>13, <2>2, <3>1, <3>2 DEF ath_i2s_close, CallInv, memory, call
  <2> QED
    BY <2>1, <2>2
<1>14. CASE CloseDrained
    BY <1>12, <1>14 DEF CloseDrained
<1>15. CASE ath_i2s_intr
    BY <1>15 DEF ath_i2s_intr, TypeOK, CallInv, memory, engine, request, call
<1>16. CASE DmaComplete
  <2>1. OWN' \in [Desc -> BOOLEAN] /\ head' \in Desc /\ played' \in Nat
    BY <1>16, DescType DEF DmaComplete, TypeOK
  <2>2. TypeOK'
    BY <1>16, <2>1 DEF DmaComplete, TypeOK, request, call
  <2> QED
    BY <1>16, <2>2 DEF DmaComplete, CallInv, call
<1>17. CASE DmaStall
    BY <1>17 DEF DmaStall, TypeOK, CallInv, memory, request, call
<1>18. CASE DmaStray
    BY <1>18, DescType DEF DmaStray, TypeOK, CallInv, memory, request, call
<1>19. CASE UNCHANGED vars
    BY <1>19 DEF vars, memory, engine, request, call, TypeOK, CallInv
<1> QED
    BY <1>1, <1>2, <1>3, <1>4, <1>5, <1>6, <1>7, <1>8, <1>9, <1>10, <1>11,
       <1>13, <1>14, <1>15, <1>16, <1>17, <1>18, <1>19 DEF Next, Write

(* Type correctness of the ring, the engine, its interrupt and the writer. *)
THEOREM TypeCorrect == Spec => []TypeOK
<1>1. Spec => [](TypeOK /\ CallInv)
    BY TypeInit, TypeStep, PTL DEF Spec
<1> QED
    BY <1>1, PTL
-----------------------------------------------------------------------------
(***************************************************************************)
(* The window of a clean session, action by action.  CopyFault and Release *)
(* leave no clean session.                                                 *)
(***************************************************************************)
SessionOK == clean => SessionInv /\ WindowInv

(* open() begins with an empty ring and an engine at rest.                 *)
LEMMA WindowOpen ==
  ASSUME TypeOK, CallInv, ath_i2s_open PROVE SessionOK'
<1> SUFFICES ASSUME clean' PROVE SessionInv' /\ WindowInv'
    BY DEF SessionOK
<1>1. /\ ring' = "live" /\ pc' = "idle" /\ ~running' /\ popened' = 1
      /\ tail' = 0 /\ buf' = 0 /\ played' = 0 /\ got' = 0
      /\ OWN' = [d \in Desc |-> FALSE]
    BY DEF ath_i2s_open, ath_i2s_init_desc, CallInv, call
<1>2. ~Started' /\ EngineAt' = tail' /\ AppendAt' = tail' /\ End' = 0
    BY <1>1 DEF Started, EngineAt, AppendAt, End
<1>3. SessionInv'
    BY <1>1, <1>2 DEF SessionInv
<1>4. Owned' = {}
    BY <1>1 DEF Owned
<1>5. WindowInv'
  <2>1. Window({}, chunk', 0, 0, 0, 0)
    BY WindowEmpty, DescType
  <2> QED
    BY <1>1, <1>2, <1>4, <2>1 DEF WindowInv
<1> QED
    BY <1>3, <1>5

(* The head of ath_i2s_wr() takes a copy of the tail to append at; whether *)
(* it goes on to fill or to wait, the engine is where it was.              *)
LEMMA WindowCall ==
  ASSUME TypeOK, CallInv, SessionOK, ath_i2s_wr PROVE SessionOK'
<1> SUFFICES ASSUME clean' PROVE SessionInv' /\ WindowInv'
    BY DEF SessionOK
<1>1. /\ pc = "call" /\ pc' = (IF popened < 2 THEN "fill" ELSE "sleep")
      /\ clean /\ got' = 0 /\ got = 0
      /\ ptail' = tail /\ popened' = 2 /\ (need_start' <=> popened < 2)
      /\ UNCHANGED <<ring, OWN, chunk, tail, running, aim, head, buf, played>>
    BY DEF ath_i2s_wr, CallInv, memory, engine
<1>2. SessionInv /\ WindowInv
    BY <1>1 DEF SessionOK
<1>3. Started' <=> Started
  <2>1. CASE popened < 2
    <3>1. need_start' /\ ~(popened = 2) /\ pc' = "fill"
      BY <1>1, <2>1 DEF TypeOK
    <3> QED
      BY <1>1, <3>1 DEF Started
  <2>2. CASE popened = 2
    <3>1. pc' = "sleep"
      BY <1>1, <2>2
    <3> QED
      BY <1>1, <2>2, <3>1 DEF Started
  <2> QED
    BY <2>1, <2>2 DEF TypeOK
<1>4. EngineAt' = EngineAt /\ AppendAt' = AppendAt /\ End' = End
    BY <1>1, <1>3 DEF EngineAt, AppendAt, End
<1>5. SessionInv'
    BY <1>1, <1>2, <1>3, <1>4 DEF SessionInv
<1>6. WindowInv'
    BY <1>1, <1>2, <1>4 DEF WindowInv, Owned
<1> QED
    BY <1>5, <1>6

(* Filling a descriptor makes the window longer by one.                    *)
LEMMA WindowFill ==
  ASSUME TypeOK, CallInv, SessionOK, FillDescriptor PROVE SessionOK'
<1> SUFFICES ASSUME clean' PROVE SessionInv' /\ WindowInv'
    BY DEF SessionOK
<1>1. /\ pc = "fill" /\ clean
      /\ got' = got + 1 /\ ptail' = next_tail(ptail)
      /\ chunk' = [chunk EXCEPT ![ptail] = End]
      /\ OWN' = [OWN EXCEPT ![ptail] = TRUE]
      /\ UNCHANGED <<popened, ring, tail, running, aim, head, pc, buf,
                     need_start, played>>
    BY DEF FillDescriptor, End, engine
<1>2. SessionInv /\ WindowInv
    BY <1>1 DEF SessionOK
<1>3. ~OWN[ptail]
    BY <1>2 DEF FillDescriptor, SeesFree, SessionInv
<1>4. /\ Started' = Started /\ EngineAt' = EngineAt
      /\ AppendAt = ptail /\ AppendAt' = next_tail(ptail)
      /\ End' = End + 1 /\ End \in Nat
    BY <1>1 DEF Started, EngineAt, AppendAt, End, TypeOK
<1>5. SessionInv'
    BY <1>1, <1>2, <1>4 DEF SessionInv, TypeOK
<1>6. /\ ptail \in Desc /\ EngineAt \in Desc
      /\ OWN \in [Desc -> BOOLEAN] /\ chunk \in [Desc -> Nat]
      /\ played \in Nat /\ played <= End
    BY <1>2 DEF TypeOK, EngineAt, SessionInv
<1>7. Owned' = Owned \cup {ptail} /\ ptail \notin Owned /\ Owned \subseteq Desc
    BY <1>1, <1>3, <1>6 DEF Owned
<1>8. Window(Owned, chunk, played, End, EngineAt, ptail)
    BY <1>2, <1>4 DEF WindowInv
<1>9. Window(Owned', chunk', played, End + 1, EngineAt, next_tail(ptail))
    BY <1>1, <1>4, <1>6, <1>7, <1>8, WindowGrows
<1>10. WindowInv'
    BY <1>1, <1>4, <1>9 DEF WindowInv
<1> QED
    BY <1>5, <1>10

(* The end of a call moves the tail to the end of the window, and the      *)
(* engine, if it is started here, to its beginning.  A pause in between    *)
(* may have stopped the engine: it keeps its place.                        *)
LEMMA WindowKick ==
  ASSUME TypeOK, CallInv, SessionOK, KickEngine PROVE SessionOK'
<1> SUFFICES ASSUME clean' PROVE SessionInv' /\ WindowInv'
    BY DEF SessionOK
<1>1. /\ pc = "fill" /\ pc' \in {"call", "idle"} /\ clean /\ got' = 0
      /\ buf' = buf + got /\ tail' = ptail
      /\ UNCHANGED <<popened, ring, OWN, chunk, played>>
    BY DEF KickEngine
<1>2. SessionInv /\ WindowInv /\ popened = 2
    BY <1>1 DEF SessionOK, CallInv
<1>3. /\ Started' /\ AppendAt = ptail /\ AppendAt' = ptail
      /\ End' = End /\ End \in Nat
    BY <1>1, <1>2 DEF Started, AppendAt, End, TypeOK
<1>4. EngineAt' = EngineAt /\ aim' = "ring"
  <2>1. CASE need_start
    BY <1>1, <1>2, <1>3, <2>1
    DEF KickEngine, Kick, EngineAt, Started, SessionInv, ath_i2s_dma_start
  <2>2. CASE ~need_start
    <3>1. Started
      BY <1>2, <2>2 DEF Started
    <3>2. aim' = aim /\ head' = head
      BY <2>2 DEF KickEngine, Kick, ath_i2s_dma_resume, engine
    <3> QED
      BY <1>2, <1>3, <3>1, <3>2 DEF EngineAt, SessionInv
  <2> QED
    BY <2>1, <2>2 DEF TypeOK
<1>5. SessionInv'
    BY <1>1, <1>2, <1>3, <1>4 DEF SessionInv
<1>6. WindowInv'
    BY <1>1, <1>2, <1>3, <1>4 DEF WindowInv, Owned
<1> QED
    BY <1>5, <1>6

(* To resume an engine that was started leaves it in its place.            *)
LEMMA WindowResume ==
  ASSUME TypeOK, CallInv, SessionOK, I2S_RESUME PROVE SessionOK'
<1> SUFFICES ASSUME clean' PROVE SessionInv' /\ WindowInv'
    BY DEF SessionOK
<1>1. /\ clean /\ Started
      /\ UNCHANGED <<popened, memory, aim, head, pc, buf, call, played>>
    BY DEF I2S_RESUME, ath_i2s_dma_resume
<1>2. SessionInv /\ WindowInv
    BY <1>1 DEF SessionOK
<1>3. /\ Started' /\ EngineAt' = EngineAt /\ AppendAt' = AppendAt
      /\ End' = End
    BY <1>1 DEF Started, EngineAt, AppendAt, End, memory, call
<1>4. SessionInv'
    BY <1>1, <1>2, <1>3 DEF SessionInv, memory
<1>5. WindowInv'
    BY <1>1, <1>2, <1>3 DEF WindowInv, Owned, memory
<1> QED
    BY <1>4, <1>5

(* Playing a descriptor makes the window shorter by one at its beginning.  *)
LEMMA WindowComplete ==
  ASSUME TypeOK, CallInv, SessionOK, DmaComplete PROVE SessionOK'
<1> SUFFICES ASSUME clean' PROVE SessionInv' /\ WindowInv'
    BY DEF SessionOK
<1>1. /\ running /\ OWN[head] /\ clean /\ played' = played + 1
      /\ OWN' = [OWN EXCEPT ![head] = FALSE] /\ head' = next_tail(head)
      /\ UNCHANGED <<popened, ring, chunk, tail, running, aim, pc, buf, call>>
    BY DEF DmaComplete, InRing
<1>2. SessionInv /\ WindowInv
    BY <1>1 DEF SessionOK
<1>3. /\ Started /\ Started' /\ EngineAt = head /\ EngineAt' = next_tail(head)
      /\ AppendAt' = AppendAt /\ End' = End /\ End \in Nat
    BY <1>1, <1>2
    DEF Started, EngineAt, AppendAt, End, call, SessionInv, TypeOK
<1>4. /\ head \in Desc /\ AppendAt \in Desc
      /\ OWN \in [Desc -> BOOLEAN] /\ chunk \in [Desc -> Nat]
      /\ played \in Nat
    BY DEF TypeOK, AppendAt
<1>5. Owned' = Owned \ {head} /\ head \in Owned /\ Owned \subseteq Desc
    BY <1>1, <1>4 DEF Owned
<1>6. Window(Owned, chunk, played, End, head, AppendAt)
    BY <1>2, <1>3 DEF WindowInv
<1>7. played < End
    BY <1>3, <1>4, <1>5, <1>6, WindowFirst
<1>8. SessionInv'
    BY <1>1, <1>2, <1>3, <1>4, <1>7 DEF SessionInv
<1>9. Window(Owned', chunk, played + 1, End, next_tail(head), AppendAt)
    BY <1>3, <1>4, <1>5, <1>6, WindowShrinks
<1>10. WindowInv'
    BY <1>1, <1>3, <1>9 DEF WindowInv
<1> QED
    BY <1>8, <1>10

(***************************************************************************)
(* What neither fills nor plays leaves the window alone: a new request,    *)
(* going to sleep, waking up by an interrupt or by a signal, a pause, a    *)
(* stall, and the beginning of close().                                    *)
(***************************************************************************)
Quiet ==
  \/ ath_i2s_write
  \/ StopWaiting
  \/ GoToSleep
  \/ Interrupted
  \/ I2S_PAUSE
  \/ ath_i2s_close /\ ~Release
  \/ ath_i2s_intr
  \/ DmaStall
  \/ UNCHANGED vars

LEMMA QuietStep ==
  ASSUME Quiet, TypeOK, CallInv
  PROVE  /\ UNCHANGED <<popened, memory, aim, head, buf, played, clean>>
         /\ UNCHANGED <<ptail, got, need_start>>
         /\ running' = running \/ ~running'
         /\ \/ pc' = pc
            \/ pc = "sleep" /\ pc' = "fill"
            \/ pc # "fill" /\ pc' \notin {"fill", "closed"}
<1>1. CASE ath_i2s_write
    BY <1>1 DEF ath_i2s_write, engine, call
<1>2. CASE StopWaiting
    BY <1>2 DEF StopWaiting, engine, call
<1>3. CASE GoToSleep
    BY <1>3 DEF GoToSleep, engine, call
<1>4. CASE Interrupted
    BY <1>4 DEF Interrupted, engine, call
<1>5. CASE I2S_PAUSE
    BY <1>5 DEF I2S_PAUSE, call
<1>6. CASE ath_i2s_close /\ ~Release
    BY <1>6 DEF ath_i2s_close, engine, call
<1>7. CASE ath_i2s_intr
    BY <1>7 DEF ath_i2s_intr, engine, call
<1>8. CASE DmaStall
    BY <1>8 DEF DmaStall, call
<1>9. CASE UNCHANGED vars
    BY <1>9 DEF vars, engine, call
<1> QED
    BY <1>1, <1>2, <1>3, <1>4, <1>5, <1>6, <1>7, <1>8, <1>9 DEF Quiet

LEMMA WindowQuiet ==
  ASSUME TypeOK, CallInv, SessionOK, Quiet PROVE SessionOK'
<1> SUFFICES ASSUME clean' PROVE SessionInv' /\ WindowInv'
    BY DEF SessionOK
<1>1. /\ clean /\ UNCHANGED <<popened, memory, aim, head, buf, played>>
      /\ UNCHANGED <<ptail, got, need_start>>
      /\ running' = running \/ ~running'
    BY QuietStep
<1>2. SessionInv /\ WindowInv
    BY <1>1 DEF SessionOK
<1>3. (Started' <=> Started) /\ AppendAt' = AppendAt /\ pc' # "closed"
  <2>1. CASE pc' = pc
    BY <1>1, <1>2, <2>1 DEF Started, AppendAt, SessionInv, memory
  <2>2. CASE pc = "sleep" /\ pc' = "fill"
    <3>1. popened = 2 /\ ptail = tail /\ ~need_start
      BY <2>2 DEF CallInv
    <3> QED
      BY <1>1, <2>2, <3>1 DEF Started, AppendAt, memory
  <2>3. CASE pc # "fill" /\ pc' \notin {"fill", "closed"}
    BY <1>1, <2>3 DEF Started, AppendAt, memory
  <2> QED
    BY <2>1, <2>2, <2>3, QuietStep
<1>4. EngineAt' = EngineAt /\ End' = End
    BY <1>1, <1>3 DEF EngineAt, End, memory
<1>5. ~running => ~running'
    BY <1>1
<1>6. SessionInv'
    BY <1>1, <1>2, <1>3, <1>4, <1>5 DEF SessionInv, memory
<1>7. WindowInv'
    BY <1>1, <1>2, <1>3, <1>4 DEF WindowInv, Owned, memory
<1> QED
    BY <1>6, <1>7

LEMMA WindowStep == TypeOK /\ RingInv /\ [Next]_vars => RingInv'
<1> SUFFICES ASSUME TypeOK, CallInv, SessionOK, [Next]_vars PROVE SessionOK'
    BY TypeStep DEF RingInv, SessionOK
<1>1. CASE CopyFault
    BY <1>1 DEF CopyFault, SessionOK
<1>2. CASE Release
    BY <1>2 DEF Release, SessionOK
<1>3. CASE DmaStray
  <2>1. ~clean
    BY <1>3 DEF DmaStray, SessionOK, SessionInv
  <2> QED
    BY <1>3, <2>1 DEF DmaStray, SessionOK
<1> QED
    BY <1>1, <1>2, <1>3, WindowOpen, WindowCall, WindowFill, WindowKick,
       WindowResume, WindowComplete, WindowQuiet
    DEF Next, Write, CloseDrained, Quiet

(* The window is an invariant of the driver, through every sleep, signal,  *)
(* pause and resume.                                                       *)
THEOREM RingInvariant == Spec => []RingInv
<1>1. Spec => [](TypeOK /\ RingInv)
  <2>1. Init => TypeOK /\ RingInv
    BY TypeInit DEF Init, RingInv
  <2>2. TypeOK /\ RingInv /\ [Next]_vars => TypeOK' /\ RingInv'
    BY TypeStep, WindowStep DEF RingInv
  <2> QED
    BY <2>1, <2>2, PTL DEF Spec
<1> QED
    BY <1>1, PTL

(* Together with the types: the invariant that each step preserves.        *)
THEOREM InductiveInvariant == Spec => []IndInv
BY TypeCorrect, RingInvariant, PTL DEF IndInv

(* The engine plays the chunks of a clean session in the order the driver  *)
(* accepted them, also when it is paused and writes are interrupted.       *)
THEOREM PlaysInOrder == Spec => []InOrder
<1>1. TypeOK /\ RingInv => InOrder
  <2> SUFFICES ASSUME TypeOK, SessionInv, WindowInv, running, OWN[head]
               PROVE  chunk[head] = played
    BY DEF InOrder, RingInv, InRing
  <2>1. /\ EngineAt = head /\ head \in Owned /\ Owned \subseteq Desc
        /\ head \in Desc /\ AppendAt \in Desc /\ chunk \in [Desc -> Nat]
        /\ played \in Nat /\ End \in Nat
    BY DEF SessionInv, EngineAt, AppendAt, End, Owned, TypeOK
  <2>2. Window(Owned, chunk, played, End, head, AppendAt)
    BY <2>1 DEF WindowInv
  <2> QED
    BY <2>1, <2>2, WindowFirst
<1> QED
    BY <1>1, TypeCorrect, RingInvariant, PTL

(***************************************************************************)
(* A step of the driver that leaves playback paused does not set the       *)
(* engine going, except where a session starts it.  Proved of every        *)
(* session, clean or not.                                                  *)
(***************************************************************************)
LEMMA PauseStep ==
  ASSUME TypeOK, [Next]_vars, ppause, ppause', ~need_start, ~running
  PROVE  ~running'
<1>1. CASE ath_i2s_open
    BY <1>1 DEF ath_i2s_open, ath_i2s_init_desc
<1>2. CASE KickEngine
    BY <1>2 DEF KickEngine, Kick, engine
<1>3. CASE I2S_PAUSE \/ I2S_RESUME
    BY <1>3 DEF I2S_PAUSE, I2S_RESUME
<1>4. CASE CopyFault \/ FillDescriptor \/ ath_i2s_wr
    BY <1>4 DEF CopyFault, FillDescriptor, ath_i2s_wr, engine
<1>5. CASE Release
    BY <1>5 DEF Release
<1>6. CASE Quiet
    BY <1>6 DEF Quiet, ath_i2s_write, StopWaiting, GoToSleep, Interrupted,
       I2S_PAUSE, ath_i2s_close, ath_i2s_intr, DmaStall, engine, vars
<1>7. CASE DmaComplete \/ DmaStray
    BY <1>7 DEF DmaComplete, DmaStray, InRing
<1> QED
    BY <1>1, <1>2, <1>3, <1>4, <1>5, <1>6, <1>7
    DEF Next, Write, CloseDrained, Quiet

(* A pause holds: no write(), interrupt or close() ends it.                *)
THEOREM PausesHold == Spec => PauseHolds
<1>1. TypeOK /\ [Next]_vars =>
        [ppause /\ ppause' /\ ~need_start => (running' => running)]_vars
    BY PauseStep
<1> QED
    BY <1>1, TypeCorrect, PTL DEF Spec, PauseHolds

(***************************************************************************)
(* close() frees nothing that is still to be played.  The memory is given  *)
(* back in one place only, since a device that is closed has none.         *)
(***************************************************************************)
ClosedIsFreed == pc = "closed" => ring = "freed"

LEMMA ClosedStep == ClosedIsFreed /\ [Next]_vars => ClosedIsFreed'
<1> SUFFICES ASSUME ClosedIsFreed, [Next]_vars PROVE ClosedIsFreed'
    OBVIOUS
<1>1. CASE ath_i2s_open
    BY <1>1 DEF ath_i2s_open, ath_i2s_init_desc, ClosedIsFreed
<1>2. CASE ath_i2s_write \/ ath_i2s_wr \/ StopWaiting \/ GoToSleep \/ Interrupted
    BY <1>2 DEF ath_i2s_write, ath_i2s_wr, StopWaiting, GoToSleep, Interrupted,
       memory, ClosedIsFreed
<1>3. CASE FillDescriptor \/ KickEngine \/ CopyFault
    BY <1>3 DEF FillDescriptor, KickEngine, CopyFault, memory, ClosedIsFreed
<1>4. CASE I2S_PAUSE \/ I2S_RESUME
    BY <1>4 DEF I2S_PAUSE, I2S_RESUME, memory, ClosedIsFreed
<1>5. CASE Release
    BY <1>5 DEF Release, ClosedIsFreed
<1>6. CASE ath_i2s_close /\ ~Release
    BY <1>6 DEF ath_i2s_close, ClosedIsFreed
<1>7. CASE ath_i2s_intr \/ DmaComplete \/ DmaStall \/ DmaStray
    BY <1>7 DEF ath_i2s_intr, DmaComplete, DmaStall, DmaStray, memory,
       ClosedIsFreed
<1>8. CASE UNCHANGED vars
    BY <1>8 DEF vars, memory, ClosedIsFreed
<1> QED
    BY <1>1, <1>2, <1>3, <1>4, <1>5, <1>6, <1>7, <1>8
    DEF Next, Write, CloseDrained

LEMMA FreeStep ==
  ASSUME ClosedIsFreed, [Next]_vars, ring = "live", ring' = "freed"
  PROVE  Owned = {} \/ ppause
<1>1. CASE ath_i2s_open
    BY <1>1 DEF ath_i2s_open, ClosedIsFreed
<1>2. CASE ath_i2s_close
    BY <1>2 DEF ath_i2s_close, memory
<1>3. CASE CloseDrained
    BY <1>3 DEF CloseDrained, SeesFree, Owned
<1>4. ~(\/ ath_i2s_write \/ Write \/ Interrupted \/ CopyFault \/ I2S_PAUSE
        \/ I2S_RESUME \/ ath_i2s_intr \/ DmaComplete \/ DmaStall \/ DmaStray
        \/ UNCHANGED vars)
    BY DEF ath_i2s_write, Write, ath_i2s_wr, StopWaiting, GoToSleep,
       FillDescriptor, KickEngine, Interrupted, CopyFault, I2S_PAUSE, I2S_RESUME,
       ath_i2s_intr, DmaComplete, DmaStall, DmaStray, vars, memory
<1> QED
    BY <1>1, <1>2, <1>3, <1>4 DEF Next

(* The ring is freed with no descriptor the engine's, or while playback is *)
(* paused, in every session and however close() was reached.               *)
THEOREM FreesNothingInUse == Spec => FreedOnlyWhenIdle
<1>1. Init => ClosedIsFreed
    BY DEF Init, ClosedIsFreed
<1>2. ClosedIsFreed /\ [Next]_vars =>
        [ring = "live" /\ ring' = "freed" => Owned = {} \/ ppause]_vars
    BY FreeStep
<1> QED
    BY <1>1, <1>2, ClosedStep, PTL DEF Spec, FreedOnlyWhenIdle
-----------------------------------------------------------------------------
(***************************************************************************)
(* Nobody waits in vain.  What moves the engine or the ends of the window  *)
(* is looked at; the other steps of a clean session leave all that the     *)
(* engine's rest or the writer's sleep depend on as it is.                 *)
(***************************************************************************)
LEMMA EngineKnown ==
  ASSUME IndInv, clean
  PROVE  /\ running => EngineAt = head /\ aim = "ring"
         /\ pc = "sleep" => EngineAt = head /\ AppendAt = ptail
         /\ Window(Owned, chunk, played, End, EngineAt, AppendAt)
         /\ played \in Nat /\ End \in Nat /\ EngineAt \in Desc
BY DEF IndInv, TypeOK, RingInv, CallInv, SessionInv, WindowInv, Started,
       EngineAt, AppendAt, End

(* The engine stops at a descriptor that is not its own, the first of a    *)
(* window that is empty; the end of a call and I2S_RESUME set it going.    *)
LEMMA StandingStep ==
  IndInv /\ IndInv' /\ StandsOnlyWhenEmpty /\ [Next]_vars => StandsOnlyWhenEmpty'
<1> SUFFICES ASSUME IndInv, IndInv', StandsOnlyWhenEmpty, [Next]_vars,
                    clean', pc' # "fill", ~ppause', Owned' # {}
             PROVE  InRing'
    BY DEF StandsOnlyWhenEmpty
<1>1. CallInv /\ SessionInv'
    BY DEF IndInv, RingInv
<1>2. CASE /\ clean /\ pc # "fill" /\ ~ppause
           /\ UNCHANGED <<OWN, running, aim>>
    BY <1>2 DEF StandsOnlyWhenEmpty, Owned, InRing
<1>3. CASE ath_i2s_open
  <2>1. Owned' = {}
    BY <1>3 DEF ath_i2s_open, ath_i2s_init_desc, Owned
  <2> QED
    BY <2>1
<1>4. CASE \/ ath_i2s_write \/ ath_i2s_wr \/ StopWaiting \/ GoToSleep
           \/ Interrupted \/ ath_i2s_intr \/ UNCHANGED vars
  <2>1. pc # "fill" /\ UNCHANGED <<OWN, running, aim, ppause, clean>>
    <3>1. CASE ath_i2s_write \/ ath_i2s_wr \/ StopWaiting
      BY <1>4, <3>1 DEF ath_i2s_write, ath_i2s_wr, StopWaiting, memory, engine
    <3>2. CASE GoToSleep \/ Interrupted
      BY <1>4, <3>2 DEF GoToSleep, Interrupted, memory, engine
    <3>3. CASE ath_i2s_intr \/ UNCHANGED vars
      BY <1>4, <3>3 DEF ath_i2s_intr, vars, memory, engine
    <3> QED
      BY <1>4, <3>1, <3>2, <3>3
  <2> QED
    BY <1>2, <2>1
<1>5. CASE FillDescriptor
    BY <1>5 DEF FillDescriptor
<1>6. CASE KickEngine
  <2>1. running' = TRUE
    BY <1>6 DEF KickEngine, Kick, ath_i2s_dma_start, ath_i2s_dma_resume
  <2>2. Started'
    BY <1>1, <1>6 DEF KickEngine, CallInv, Started
  <2> QED
    BY <1>1, <2>1, <2>2 DEF SessionInv, InRing
<1>7. CASE CopyFault \/ CloseDrained
    BY <1>7 DEF CopyFault, CloseDrained, Release
<1>8. CASE I2S_PAUSE
    BY <1>8 DEF I2S_PAUSE
<1>9. CASE I2S_RESUME
  <2>1. running' = TRUE /\ Started'
    BY <1>9 DEF I2S_RESUME, ath_i2s_dma_resume, Started, call
  <2> QED
    BY <1>1, <2>1 DEF SessionInv, InRing
<1>10. CASE ath_i2s_close
    BY <1>2, <1>10 DEF ath_i2s_close, Release, memory, engine
<1>11. CASE DmaComplete
  <2>1. InRing /\ UNCHANGED <<running, aim>>
    BY <1>11 DEF DmaComplete
  <2> QED
    BY <2>1 DEF InRing
<1>12. CASE DmaStall
  <2>1. clean /\ running /\ ~OWN[head] /\ UNCHANGED OWN
    BY <1>12 DEF DmaStall, InRing, memory
  <2>2. EngineAt = head /\ head \notin Owned
    BY <2>1, EngineKnown DEF Owned
  <2>3. Owned = {} /\ Owned' = {}
    BY <2>1, <2>2, EngineKnown, WindowWithoutFirst DEF Owned
  <2> QED
    BY <2>3
<1>13. CASE DmaStray
  <2>1. clean /\ running /\ aim = "gone"
    BY <1>13 DEF DmaStray
  <2> QED
    BY <2>1, EngineKnown
<1> QED
    BY <1>3, <1>4, <1>5, <1>6, <1>7, <1>8, <1>9, <1>10, <1>11, <1>12, <1>13
    DEF Next, Write

(* A writer goes to sleep when the descriptor at the tail, the end of the  *)
(* window, is the engine's: then the window is the whole ring, and the     *)
(* engine is there too.  When it moves on it raises the interrupt.         *)
LEMMA SleepingStep ==
  IndInv /\ SleepsForTheEngine /\ [Next]_vars => SleepsForTheEngine'
<1> SUFFICES ASSUME IndInv, SleepsForTheEngine, [Next]_vars,
                    clean', pc' = "sleep", ~awake'
             PROVE  irq' \/ (OWN'[ptail'] /\ head' = ptail')
    BY DEF SleepsForTheEngine
<1>1. CASE clean /\ pc = "sleep" /\ ~awake /\ UNCHANGED <<irq, OWN, head, ptail>>
    BY <1>1 DEF SleepsForTheEngine
<1>2. CASE I2S_PAUSE \/ I2S_RESUME \/ DmaStall \/ UNCHANGED vars
  <2>1. UNCHANGED <<pc, awake, irq, OWN, head, ptail>>
    <3>1. CASE I2S_PAUSE \/ DmaStall
      BY <3>1 DEF I2S_PAUSE, DmaStall, memory, call
    <3>2. CASE I2S_RESUME
      BY <3>2 DEF I2S_RESUME, ath_i2s_dma_resume, memory, call
    <3>3. CASE UNCHANGED vars
      BY <3>3 DEF vars, memory, engine, call
    <3> QED
      BY <1>2, <3>1, <3>2, <3>3
  <2>2. clean
    BY <1>2 DEF I2S_PAUSE, I2S_RESUME, DmaStall, vars
  <2> QED
    BY <1>1, <2>1, <2>2
<1>3. CASE ath_i2s_open \/ ath_i2s_write \/ Interrupted \/ StopWaiting
           \/ FillDescriptor \/ KickEngine
    BY <1>3 DEF ath_i2s_open, ath_i2s_write, Interrupted, StopWaiting,
                FillDescriptor, KickEngine
<1>4. CASE ath_i2s_wr \/ ath_i2s_intr
    BY <1>4 DEF ath_i2s_wr, ath_i2s_intr
<1>5. CASE CopyFault \/ CloseDrained \/ ath_i2s_close
    BY <1>5 DEF CopyFault, CloseDrained, ath_i2s_close, Release
<1>6. CASE GoToSleep
  <2>1. /\ clean /\ pc = "sleep" /\ SeesOwned(ptail)
        /\ UNCHANGED <<OWN, head, ptail>>
    BY <1>6 DEF GoToSleep, memory, engine, call
  <2>2. OWN[ptail] /\ ptail \in Desc
    BY <2>1 DEF SeesOwned, IndInv, RingInv, SessionInv, TypeOK
  <2>3. ptail \in Owned /\ AppendAt = ptail /\ EngineAt = head
    BY <2>1, <2>2, EngineKnown DEF Owned
  <2>4. ptail = head
    BY <2>1, <2>3, EngineKnown, WindowWithEnd
  <2> QED
    BY <2>1, <2>2, <2>4
<1>7. CASE DmaComplete
    BY <1>7 DEF DmaComplete
<1>8. CASE DmaStray
  <2>1. clean /\ running /\ aim = "gone"
    BY <1>8 DEF DmaStray
  <2> QED
    BY <2>1, EngineKnown
<1> QED
    BY <1>2, <1>3, <1>4, <1>5, <1>6, <1>7, <1>8 DEF Next, Write

(* In a clean session an engine that is not paused stands still only if it *)
(* has nothing to play, and a writer sleeps only while the engine is at    *)
(* the descriptor it waits for or the interrupt has yet to be served: for  *)
(* every ring, and every interleaving of test, sleep, completion, pause    *)
(* and signal.                                                             *)
THEOREM NobodyWaitsInVain == Spec => []NoVainWait
<1>1. Spec => []IndInv
    BY InductiveInvariant
<1>2. Init => NoVainWait
    BY DEF Init, NoVainWait, StandsOnlyWhenEmpty, SleepsForTheEngine
<1>3. IndInv /\ IndInv' /\ NoVainWait /\ [Next]_vars => NoVainWait'
    BY StandingStep, SleepingStep DEF NoVainWait
<1> QED
    BY <1>1, <1>2, <1>3, PTL DEF Spec
-----------------------------------------------------------------------------
(***************************************************************************)
(* The ring as a ChunkQueue.  What it holds is always the numbers between  *)
(* the two counts in their order, so that a step is known by what it does  *)
(* to the counts.                                                          *)
(***************************************************************************)
IsRow ==
  clean => /\ played \in Nat /\ End \in Nat /\ played <= End
           /\ End - played <= NUM_DESC
           /\ Held(chunk, EngineAt, End - played) = Row(played, End)

LEMMA QueueIsRow == IndInv => IsRow
<1> SUFFICES ASSUME IndInv, clean PROVE IsRow
    BY DEF IsRow
<1>1. played \in Nat /\ End \in Nat /\ played <= End /\ WindowInv
    BY DEF IndInv, TypeOK, RingInv, SessionInv, End
<1>2. /\ End - played \in 0 .. NUM_DESC
      /\ Held(chunk, EngineAt, End - played) = Row(played, End)
    BY <1>1, HeldIsRow DEF WindowInv
<1> QED
    BY <1>1, <1>2, SizeAssumption DEF IsRow

(* What each step of a session that is clean after it does to the counts.  *)
LEMMA QueueCounts ==
  ASSUME IndInv, [Next]_vars, clean'
  PROVE  \/ ~clean /\ played' = 0 /\ End' = 0
         \/ clean /\ played' = played /\ End' = End + 1
         \/ clean /\ played' = played + 1 /\ End' = End
         \/ clean /\ played' = played /\ End' = End
<1>1. TypeOK /\ CallInv /\ (clean => SessionInv)
    BY DEF IndInv, RingInv
<1>2. CASE ath_i2s_open
  <2>1. ~clean
    BY <1>1, <1>2 DEF ath_i2s_open, SessionInv
  <2>2. played' = 0 /\ buf' = 0 /\ got' = 0
    BY <1>1, <1>2 DEF ath_i2s_open, call, CallInv
  <2> QED
    BY <2>1, <2>2 DEF End
<1>3. CASE FillDescriptor
    BY <1>1, <1>3 DEF FillDescriptor, End, TypeOK
<1>4. CASE DmaComplete
    BY <1>4 DEF DmaComplete, End, call
<1>5. CASE KickEngine
  <2>1. clean /\ played' = played /\ buf' = buf + got /\ got' = 0
    BY <1>5 DEF KickEngine
  <2> QED
    BY <1>1, <2>1 DEF End, TypeOK
<1>6. CASE ath_i2s_wr
  <2>1. got' = got
    BY <1>1, <1>6 DEF ath_i2s_wr, CallInv
  <2> QED
    BY <1>6, <2>1 DEF ath_i2s_wr, End
<1>7. CASE I2S_RESUME
    BY <1>7 DEF I2S_RESUME, End, call
<1>8. ~CopyFault /\ ~Release
    BY DEF CopyFault, Release
<1>9. CASE DmaStray
    BY <1>9 DEF DmaStray, End, call
<1>10. CASE Quiet
    BY <1>1, <1>10, QuietStep DEF End
<1> QED
    BY <1>2, <1>3, <1>4, <1>5, <1>6, <1>7, <1>8, <1>9, <1>10
    DEF Next, Write, CloseDrained, Quiet

LEMMA QueueInit == Init => Queue!Init
BY DEF Init, Queue!Init, Queue!Nothing

(* Every step is a step of the queue, or none.                             *)
LEMMA QueueStep == IndInv /\ IndInv' /\ [Next]_vars => [Queue!Next]_(Queue!vars)
<1> SUFFICES ASSUME IndInv, IndInv', [Next]_vars
             PROVE  [Queue!Next]_(Queue!vars)
    OBVIOUS
<1> DEFINE held == Held(chunk, EngineAt, End - played)
<1>1. clean => /\ played \in Nat /\ End \in Nat /\ played <= End
               /\ End - played <= NUM_DESC /\ held = Row(played, End)
    BY QueueIsRow DEF IsRow
<1>2. clean' => /\ played' \in Nat /\ End' \in Nat /\ played' <= End'
                /\ End' - played' <= NUM_DESC /\ held' = Row(played', End')
  <2>1. IndInv' => IsRow'
    BY QueueIsRow, PTL
  <2> QED
    BY <2>1 DEF IsRow
<1>3. clean \in BOOLEAN /\ clean' \in BOOLEAN
    BY DEF IndInv, TypeOK
<1> HIDE DEF held
<1>4. CASE ~clean /\ ~clean'
    BY <1>3, <1>4 DEF Queue!vars
<1>5. CASE clean /\ ~clean'
    BY <1>3, <1>5 DEF Queue!Next, Queue!End, Queue!Nothing
<1>6. CASE clean' /\ ~clean
  <2>1. played' = 0 /\ End' = 0
    BY <1>6, QueueCounts
  <2>2. held' = <<>>
    BY <1>2, <1>6, <2>1, RowGrows
  <2> QED
    BY <1>3, <1>6, <2>1, <2>2 DEF Queue!Next, Queue!Begin, held
<1>7. CASE clean /\ clean' /\ played' = played /\ End' = End + 1
  <2>1. Len(held) < NUM_DESC
    <3>1. NUM_DESC \in Nat /\ End - played < NUM_DESC
      BY <1>1, <1>2, <1>7, SizeAssumption
    <3> QED
      BY <1>1, <1>7, <3>1, RowGrows
  <2>2. held' = Append(held, End)
    BY <1>1, <1>2, <1>7, RowGrows
  <2> QED
    BY <1>3, <1>7, <2>1, <2>2 DEF Queue!Next, Queue!Put, held
<1>8. CASE clean /\ clean' /\ played' = played + 1 /\ End' = End
  <2>1. played < End
    BY <1>1, <1>2, <1>8
  <2>2. held # <<>> /\ Head(held) = played /\ held' = Tail(held)
    BY <1>1, <1>2, <1>8, <2>1, RowShrinks
  <2> QED
    BY <1>3, <1>8, <2>2 DEF Queue!Next, Queue!Take, held
<1>9. CASE clean /\ clean' /\ played' = played /\ End' = End
    BY <1>1, <1>2, <1>3, <1>9 DEF Queue!vars, held
<1> QED
    BY <1>3, <1>4, <1>5, <1>6, <1>7, <1>8, <1>9, QueueCounts

(* The driver that sleeps and is interrupted is the same bounded queue     *)
(* through every signal, pause and resume, for every size of the ring.     *)
THEOREM IsAQueue == Spec => ImplementsQueue
<1>1. IndInv /\ IndInv' /\ [Next]_vars => [Queue!Next]_(Queue!vars)
    BY QueueStep
<1>2. Spec => Queue!Init /\ [][Queue!Next]_(Queue!vars)
    BY <1>1, QueueInit, InductiveInvariant, PTL DEF Spec
<1> QED
    BY <1>2 DEF ImplementsQueue, Queue!Spec
=============================================================================
