------------------------- MODULE CaptureRing_proofs -------------------------
(***************************************************************************)
(* Proofs about CaptureRing, for every size of the ring and every bound.   *)
(***************************************************************************)
EXTENDS CaptureRing, RingWindow_proofs

(* What a read() in progress knows of the softc, in every session.         *)
CopyInv == pc = "copy" => ropened = 2

(***************************************************************************)
(* Every variable keeps its type.                                          *)
(***************************************************************************)
LEMMA TypeInit == Init => TypeOK /\ CopyInv
<1> SUFFICES ASSUME Init PROVE TypeOK /\ CopyInv
    OBVIOUS
<1>1. OWN \in [Desc -> BOOLEAN] /\ chunk \in [Desc -> Nat]
    BY DEF Init
<1>2. /\ ropened \in 0 .. 2 /\ byte_cnt \in Nat
      /\ recorded \in Nat /\ delivered \in Nat
    BY DEF Init
<1>3. drain \in 0 .. DrainSteps
    BY CaptureAssumption DEF Init
<1>4. tail \in Desc /\ head \in Desc /\ ptail \in Desc
    BY DescType DEF Init
<1> QED
    BY <1>1, <1>2, <1>3, <1>4 DEF Init, TypeOK, CopyInv

LEMMA TypeStep == TypeOK /\ CopyInv /\ [Next]_vars => TypeOK' /\ CopyInv'
<1> SUFFICES ASSUME TypeOK, CopyInv, [Next]_vars PROVE TypeOK' /\ CopyInv'
    OBVIOUS
<1>1. CASE ar7240_i2s_open
  <2>1. OWN' \in [Desc -> BOOLEAN] /\ chunk' \in [Desc -> Nat]
    BY <1>1 DEF ar7240_i2s_open, ar7240_i2s_init
  <2>2. /\ tail' \in Desc
        /\ ring' \in {"live", "freed"} /\ aim' \in {"ring", "gone"}
        /\ pc' \in {"closed", "idle"} /\ clean' \in BOOLEAN
    BY <1>1, DescType DEF ar7240_i2s_open, ar7240_i2s_init, TypeOK
  <2>3. ropened' \in 0 .. 2 /\ recorded' \in Nat /\ delivered' \in Nat
    BY <1>1 DEF ar7240_i2s_open, ar7240_i2s_init
  <2> QED
    BY <1>1, <2>1, <2>2, <2>3 DEF ar7240_i2s_open, TypeOK, CopyInv
<1>2. CASE ar7240_i2s_read
  <2>1. byte_cnt' \in Nat
    BY <1>2, CaptureAssumption DEF ar7240_i2s_read
  <2> QED
    BY <1>2, <2>1 DEF ar7240_i2s_read, TypeOK, CopyInv, engine, history
<1>3. CASE CopyDescriptor
  <2>1. /\ OWN' \in [Desc -> BOOLEAN] /\ ptail' \in Desc
        /\ byte_cnt' \in Nat /\ delivered' \in Nat
    BY <1>3, DescType DEF CopyDescriptor, TypeOK
  <2> QED
    BY <1>3, <2>1 DEF CopyDescriptor, TypeOK, CopyInv, engine
<1>4. CASE CopyFault
    BY <1>4 DEF CopyFault, TypeOK, CopyInv, device, engine
<1>5. CASE KickEngine
  <2>1. running' \in BOOLEAN /\ aim' \in {"ring", "gone"} /\ head' \in Desc
    BY <1>5 DEF KickEngine, ar7240_i2sound_dma_start,
                ar7240_i2sound_dma_resume, TypeOK
  <2> QED
    BY <1>5, <2>1 DEF KickEngine, TypeOK, CopyInv, history
<1>6. ASSUME FreeRing, drain' \in {drain, 0} PROVE TypeOK' /\ CopyInv'
  <2>1. OWN' \in [Desc -> BOOLEAN] /\ chunk' \in [Desc -> Nat]
    BY <1>6 DEF FreeRing
  <2>2. drain' \in 0 .. DrainSteps /\ ptail' \in Desc
    BY <1>6, DescType, CaptureAssumption DEF FreeRing, TypeOK
  <2>3. ropened' \in 0 .. 2 /\ byte_cnt' \in Nat
    BY <1>6 DEF FreeRing
  <2> QED
    BY <1>6, <2>1, <2>2, <2>3 DEF FreeRing, TypeOK, CopyInv
<1>7. CASE ar7240_i2s_close
  <2>1. CASE pc' = "wait"
    <3>1. /\ drain' = DrainSteps
          /\ UNCHANGED <<device, engine, byte_cnt, ptail, need_start, history>>
      BY <1>7, <2>1 DEF ar7240_i2s_close, FreeRing
    <3>2. drain' \in 0 .. DrainSteps
      BY <3>1, CaptureAssumption
    <3> QED
      BY <2>1, <3>1, <3>2 DEF TypeOK, CopyInv, device, engine, history
  <2>2. CASE pc' # "wait"
    BY <1>6, <1>7, <2>2 DEF ar7240_i2s_close
  <2> QED
    BY <2>1, <2>2
<1>8. CASE CloseAfterDelay
    BY <1>6, <1>8 DEF CloseAfterDelay
<1>9. CASE DmaRecord
  <2>1. /\ OWN' \in [Desc -> BOOLEAN] /\ chunk' \in [Desc -> Nat]
        /\ head' \in Desc /\ recorded' \in Nat
    BY <1>9, DescType DEF DmaRecord, TypeOK
  <2>2. drain' \in 0 .. DrainSteps
    BY <1>9, CaptureAssumption DEF DmaRecord, HasTime, TypeOK
  <2> QED
    BY <1>9, <2>1, <2>2 DEF DmaRecord, TypeOK, CopyInv, process
<1>10. CASE DmaStall
    BY <1>10 DEF DmaStall, TypeOK, CopyInv, device, process, history
<1>11. CASE DmaStray
    BY <1>11, DescType DEF DmaStray, TypeOK, CopyInv, device, process, history
<1>12. CASE UNCHANGED vars
    BY <1>12 DEF vars, device, engine, process, history, TypeOK, CopyInv
<1> QED
    BY <1>1, <1>2, <1>3, <1>4, <1>5, <1>7, <1>8, <1>9, <1>10, <1>11, <1>12
    DEF Next, Read, Dma

(* Type correctness of the capture ring, its engine and its process.       *)
THEOREM TypeCorrect == Spec => []TypeOK
<1>1. Spec => [](TypeOK /\ CopyInv)
    BY TypeInit, TypeStep, PTL DEF Spec
<1> QED
    BY <1>1, PTL
-----------------------------------------------------------------------------
(***************************************************************************)
(* The window of a clean session, action by action.                        *)
(***************************************************************************)
SessionOK == clean => SessionInv /\ WindowInv

LEMMA WindowOpen ==
  ASSUME TypeOK, ar7240_i2s_open PROVE SessionOK'
<1> SUFFICES ASSUME clean' PROVE SessionInv' /\ WindowInv'
    BY DEF SessionOK
<1>1. /\ ring' = "live" /\ pc' = "idle" /\ ~running' /\ ropened' = 1
      /\ tail' = 0 /\ recorded' = 0 /\ delivered' = 0
      /\ OWN' = [d \in Desc |-> TRUE]
    BY DEF ar7240_i2s_open, ar7240_i2s_init
<1>2. ~Started' /\ EngineAt' = tail' /\ TakeAt' = tail' /\ Filled' = {}
    BY <1>1 DEF Started, EngineAt, TakeAt, Filled
<1>3. Window({}, chunk', 0, 0, 0, 0)
    BY WindowEmpty, DescType
<1> QED
    BY <1>1, <1>2, <1>3 DEF SessionInv, WindowInv

(* The head of read() touches neither the window nor its ends.             *)
LEMMA WindowRead ==
  ASSUME TypeOK, SessionOK, ar7240_i2s_read PROVE SessionOK'
<1> SUFFICES ASSUME clean' PROVE SessionInv' /\ WindowInv'
    BY DEF SessionOK
<1>1. /\ pc = "idle" /\ pc' = "copy" /\ clean /\ ptail' = tail
      /\ ropened' = 2 /\ (need_start' <=> ropened < 2)
      /\ UNCHANGED <<ring, OWN, chunk, tail, engine, history>>
    BY DEF ar7240_i2s_read, history
<1>2. SessionInv /\ WindowInv
    BY <1>1 DEF SessionOK
<1>3. Started' <=> Started
  <2>1. CASE ropened < 2
    <3>1. need_start' /\ ~(ropened = 2)
      BY <1>1, <2>1 DEF TypeOK
    <3> QED
      BY <1>1, <3>1 DEF Started
  <2>2. CASE ropened = 2
    <3>1. ~need_start'
      BY <1>1, <2>2
    <3> QED
      BY <1>1, <2>2, <3>1 DEF Started
  <2> QED
    BY <2>1, <2>2 DEF TypeOK
<1>4. EngineAt' = EngineAt /\ TakeAt' = TakeAt /\ Filled' = Filled
    BY <1>1, <1>3 DEF EngineAt, TakeAt, Filled, engine
<1>5. SessionInv'
    BY <1>1, <1>2, <1>3 DEF SessionInv, engine, history
<1>6. WindowInv'
    BY <1>1, <1>2, <1>4 DEF WindowInv, history
<1> QED
    BY <1>5, <1>6

(* Copying a descriptor out makes the window shorter at its beginning.     *)
LEMMA WindowCopy ==
  ASSUME TypeOK, SessionOK, CopyDescriptor PROVE SessionOK'
<1> SUFFICES ASSUME clean' PROVE SessionInv' /\ WindowInv'
    BY DEF SessionOK
<1>1. /\ pc = "copy" /\ pc' = "copy" /\ clean /\ delivered' = delivered + 1
      /\ OWN' = [OWN EXCEPT ![ptail] = TRUE] /\ ptail' = next_tail(ptail)
      /\ UNCHANGED <<ropened, ring, chunk, tail, engine, need_start, recorded>>
    BY DEF CopyDescriptor
<1>2. SessionInv /\ WindowInv
    BY <1>1 DEF SessionOK
<1>3. ~OWN[ptail]
    BY <1>2 DEF CopyDescriptor, SeesFree, SessionInv
<1>4. /\ (Started' <=> Started) /\ EngineAt' = EngineAt
      /\ TakeAt = ptail /\ TakeAt' = next_tail(ptail)
    BY <1>1 DEF Started, EngineAt, TakeAt, engine
<1>5. /\ ptail \in Desc /\ EngineAt \in Desc
      /\ OWN \in [Desc -> BOOLEAN] /\ chunk \in [Desc -> Nat]
      /\ delivered \in Nat /\ recorded \in Nat
    BY DEF TypeOK, EngineAt
<1>6. /\ Filled' = Filled \ {ptail} /\ ptail \in Filled
      /\ Filled \subseteq Desc
    BY <1>1, <1>3, <1>5 DEF Filled
<1>7. Window(Filled, chunk, delivered, recorded, ptail, EngineAt)
    BY <1>2, <1>4 DEF WindowInv
<1>8. delivered < recorded
    BY <1>5, <1>6, <1>7, WindowFirst
<1>9. SessionInv'
    BY <1>1, <1>2, <1>4, <1>5, <1>8 DEF SessionInv, engine
<1>10. Window(Filled', chunk, delivered + 1, recorded,
              next_tail(ptail), EngineAt)
    BY <1>5, <1>6, <1>7, WindowShrinks
<1>11. WindowInv'
    BY <1>1, <1>4, <1>10 DEF WindowInv
<1> QED
    BY <1>9, <1>11

(* The end of read() moves the tail to the beginning of the window, and    *)
(* the engine, if it is started here, to its end: nothing is recorded yet. *)
LEMMA WindowKick ==
  ASSUME TypeOK, CopyInv, SessionOK, KickEngine PROVE SessionOK'
<1> SUFFICES ASSUME clean' PROVE SessionInv' /\ WindowInv'
    BY DEF SessionOK
<1>1. /\ pc = "copy" /\ pc' = "idle" /\ clean /\ tail' = ptail
      /\ UNCHANGED <<ropened, ring, OWN, chunk, history>>
    BY DEF KickEngine, history
<1>2. SessionInv /\ WindowInv
    BY <1>1 DEF SessionOK
<1>3. ropened = 2 /\ Started' /\ TakeAt' = TakeAt /\ Filled' = Filled
    BY <1>1 DEF CopyInv, Started, TakeAt, Filled
<1>4. EngineAt' = EngineAt /\ aim' = "ring"
  <2>1. CASE need_start
    BY <1>1, <1>2, <1>3, <2>1
    DEF KickEngine, EngineAt, Started, SessionInv, ar7240_i2sound_dma_start
  <2>2. CASE ~need_start
    <3>1. Started
      BY <1>3, <2>2 DEF Started
    <3> QED
      BY <1>2, <1>3, <2>2, <3>1
      DEF KickEngine, EngineAt, SessionInv, ar7240_i2sound_dma_resume
  <2> QED
    BY <2>1, <2>2 DEF TypeOK
<1>5. SessionInv'
    BY <1>1, <1>2, <1>3, <1>4 DEF SessionInv, history
<1>6. WindowInv'
    BY <1>1, <1>2, <1>3, <1>4 DEF WindowInv, history
<1> QED
    BY <1>5, <1>6

(* Recording into a descriptor makes the window longer at its end.         *)
LEMMA WindowRecord ==
  ASSUME TypeOK, SessionOK, DmaRecord PROVE SessionOK'
<1> SUFFICES ASSUME clean' PROVE SessionInv' /\ WindowInv'
    BY DEF SessionOK
<1>1. /\ running /\ OWN[head] /\ clean /\ recorded' = recorded + 1
      /\ chunk' = [chunk EXCEPT ![head] = recorded]
      /\ OWN' = [OWN EXCEPT ![head] = FALSE] /\ head' = next_tail(head)
      /\ UNCHANGED <<ropened, ring, tail, running, aim, process, delivered>>
    BY DEF DmaRecord, InRing
<1>2. SessionInv /\ WindowInv
    BY <1>1 DEF SessionOK
<1>3. /\ Started /\ Started' /\ EngineAt = head /\ EngineAt' = next_tail(head)
      /\ TakeAt' = TakeAt
    BY <1>1, <1>2 DEF Started, EngineAt, TakeAt, process, SessionInv
<1>4. /\ head \in Desc /\ TakeAt \in Desc
      /\ OWN \in [Desc -> BOOLEAN] /\ chunk \in [Desc -> Nat]
      /\ delivered \in Nat /\ recorded \in Nat /\ delivered <= recorded
    BY <1>2 DEF TypeOK, TakeAt, SessionInv
<1>5. /\ Filled' = Filled \cup {head} /\ head \notin Filled
      /\ Filled \subseteq Desc
    BY <1>1, <1>4 DEF Filled
<1>6. Window(Filled, chunk, delivered, recorded, TakeAt, head)
    BY <1>2, <1>3 DEF WindowInv
<1>7. Window(Filled', chunk', delivered, recorded + 1,
             TakeAt, next_tail(head))
    BY <1>1, <1>4, <1>5, <1>6, WindowGrows
<1>8. SessionInv'
    BY <1>1, <1>2, <1>3, <1>4 DEF SessionInv, process
<1>9. WindowInv'
    BY <1>1, <1>3, <1>7 DEF WindowInv
<1> QED
    BY <1>8, <1>9

(* Stalling, and the beginning of close(), change neither.                 *)
LEMMA WindowQuiet ==
  ASSUME TypeOK, SessionOK,
         DmaStall \/ (ar7240_i2s_close /\ ~FreeRing) \/ UNCHANGED vars
  PROVE  SessionOK'
<1> SUFFICES ASSUME clean' PROVE SessionInv' /\ WindowInv'
    BY DEF SessionOK
<1>1. /\ clean /\ UNCHANGED <<device, aim, head, ptail, need_start, history>>
      /\ running' \in {running, FALSE}
      /\ pc' = pc \/ (pc = "idle" /\ pc' = "wait")
    BY DEF DmaStall, ar7240_i2s_close, vars, device, engine, process, history
<1>2. SessionInv /\ WindowInv
    BY <1>1 DEF SessionOK
<1>3. (Started' <=> Started) /\ (pc' = "copy" <=> pc = "copy")
    BY <1>1 DEF Started, device
<1>4. EngineAt' = EngineAt /\ TakeAt' = TakeAt /\ Filled' = Filled
    BY <1>1, <1>3 DEF EngineAt, TakeAt, Filled, device
<1>5. ~running => ~running'
    BY <1>1 DEF TypeOK
<1>6. SessionInv'
    BY <1>1, <1>2, <1>3, <1>5 DEF SessionInv, device, history
<1>7. WindowInv'
    BY <1>1, <1>2, <1>4 DEF WindowInv, device, history
<1> QED
    BY <1>6, <1>7

LEMMA WindowStep == TypeOK /\ RingInv /\ [Next]_vars => RingInv'
<1> SUFFICES ASSUME TypeOK, CopyInv, SessionOK, [Next]_vars PROVE SessionOK'
    BY TypeStep DEF RingInv, SessionOK, CopyInv
<1>1. CASE CopyFault
    BY <1>1 DEF CopyFault, SessionOK
<1>2. CASE FreeRing
    BY <1>2 DEF FreeRing, SessionOK
<1>3. CASE DmaStray
  <2>1. ~clean
    BY <1>3 DEF DmaStray, SessionOK, SessionInv
  <2> QED
    BY <1>3, <2>1 DEF DmaStray, SessionOK, history
<1> QED
    BY <1>1, <1>2, <1>3, WindowOpen, WindowRead, WindowCopy, WindowKick,
       WindowRecord, WindowQuiet
    DEF Next, Read, Dma, CloseAfterDelay

(* The window is an invariant of the capture side.                         *)
THEOREM RingInvariant == Spec => []RingInv
<1>1. Spec => [](TypeOK /\ RingInv)
  <2>1. Init => TypeOK /\ RingInv
    BY TypeInit DEF Init, RingInv
  <2>2. TypeOK /\ RingInv /\ [Next]_vars => TypeOK' /\ RingInv'
    BY TypeStep, WindowStep DEF RingInv, CopyInv
  <2> QED
    BY <2>1, <2>2, PTL DEF Spec
<1> QED
    BY <1>1, PTL

(* Together with the types: the invariant that each step preserves.        *)
THEOREM InductiveInvariant == Spec => []IndInv
BY TypeCorrect, RingInvariant, PTL DEF IndInv

(* read() delivers the chunks of a clean session in the order recorded.    *)
THEOREM DeliversInOrder == Spec => []InOrder
<1>1. TypeOK /\ RingInv => InOrder
  <2> SUFFICES ASSUME TypeOK, SessionInv, WindowInv, pc = "copy",
                      SeesFree(ptail)
               PROVE  chunk[ptail] = delivered
    BY DEF InOrder, RingInv
  <2>1. /\ TakeAt = ptail /\ ptail \in Filled /\ Filled \subseteq Desc
        /\ ptail \in Desc /\ EngineAt \in Desc /\ chunk \in [Desc -> Nat]
        /\ delivered \in Nat /\ recorded \in Nat
    BY DEF SeesFree, SessionInv, TakeAt, EngineAt, Filled, TypeOK
  <2>2. Window(Filled, chunk, delivered, recorded, ptail, EngineAt)
    BY <2>1 DEF WindowInv
  <2> QED
    BY <2>1, <2>2, WindowFirst
<1> QED
    BY <1>1, TypeCorrect, RingInvariant, PTL

(* The engine never records over what was not yet read: the window holds   *)
(* every chunk from the first not yet read to the last recorded.           *)
THEOREM NeverOverwrites == Spec => []NothingOverwritten
<1>1. IndInv => NothingOverwritten
  <2> SUFFICES ASSUME IndInv, clean, NEW k \in delivered .. recorded - 1
               PROVE  \E d \in Filled : chunk[d] = k
    BY DEF NothingOverwritten
  <2> DEFINE i == k - delivered
  <2>1. /\ delivered \in Nat /\ recorded \in Nat
        /\ Window(Filled, chunk, delivered, recorded, TakeAt, EngineAt)
    BY DEF IndInv, TypeOK, RingInv, WindowInv
  <2>2. i \in 0 .. (recorded - delivered) - 1 /\ delivered + i = k
    BY <2>1
  <2>3. Nth(TakeAt, i) \in Filled /\ chunk[Nth(TakeAt, i)] = k
    BY <2>1, <2>2 DEF Window
  <2> QED
    BY <2>3
<1> QED
    BY <1>1, InductiveInvariant, PTL
-----------------------------------------------------------------------------
(***************************************************************************)
(* The engine, once started, stands still only if it has no room.  It      *)
(* stops only at a descriptor that is the process's; that one is at the    *)
(* end of the window, which is then the whole ring.  When a call has made  *)
(* room, its end resumes the engine.                                       *)
(***************************************************************************)
LEMMA StandingStep ==
  IndInv /\ IndInv' /\ StandsOnlyWhenFull /\ [Next]_vars => StandsOnlyWhenFull'
<1> SUFFICES ASSUME IndInv, IndInv', StandsOnlyWhenFull, [Next]_vars,
                    clean', Started', pc' # "copy", Filled' # Desc
             PROVE  InRing'
    BY DEF StandsOnlyWhenFull
<1>1. TypeOK /\ aim' = "ring"
    BY DEF IndInv, RingInv, SessionInv
<1>2. clean => SessionInv /\ WindowInv
    BY DEF IndInv, RingInv
<1>3. CASE ar7240_i2s_open
    BY <1>3 DEF ar7240_i2s_open, ar7240_i2s_init, Started
<1>4. CASE ar7240_i2s_read \/ CopyDescriptor
    BY <1>4 DEF ar7240_i2s_read, CopyDescriptor
<1>5. CASE KickEngine
    BY <1>1, <1>5
    DEF KickEngine, ar7240_i2sound_dma_start, ar7240_i2sound_dma_resume, InRing
<1>6. CASE CopyFault \/ CloseAfterDelay
    BY <1>6 DEF CopyFault, CloseAfterDelay, FreeRing
<1>7. CASE ar7240_i2s_close
    BY <1>7 DEF ar7240_i2s_close, FreeRing, StandsOnlyWhenFull, Started, Filled,
           InRing, device, engine, history
<1>8. CASE DmaRecord
  <2>1. InRing /\ UNCHANGED <<running, aim>>
    BY <1>8 DEF DmaRecord
  <2> QED
    BY <2>1 DEF InRing
<1>9. CASE DmaStall
  <2>1. clean /\ running /\ ~OWN[head] /\ UNCHANGED OWN
    BY <1>9 DEF DmaStall, InRing, device, history
  <2>2. EngineAt = head
    BY <1>2, <2>1 DEF SessionInv, EngineAt
  <2>3. /\ Window(Filled, chunk, delivered, recorded, TakeAt, head)
        /\ head \in Filled /\ TakeAt \in Desc
        /\ delivered \in Nat /\ recorded \in Nat
    BY <1>1, <1>2, <2>1, <2>2 DEF WindowInv, Filled, TakeAt, TypeOK
  <2>4. Desc \subseteq Filled
    BY <2>3, WindowWithEnd
  <2>5. Filled' = Desc
    BY <2>1, <2>4 DEF Filled
  <2> QED
    BY <2>5
<1>10. CASE DmaStray
  <2>1. clean /\ running /\ aim = "gone"
    BY <1>10 DEF DmaStray, history
  <2> QED
    BY <1>2, <2>1 DEF SessionInv
<1>11. CASE UNCHANGED vars
    BY <1>11 DEF vars, device, engine, process, history, StandsOnlyWhenFull,
           Started, Filled, InRing
<1> QED
    BY <1>3, <1>4, <1>5, <1>6, <1>7, <1>8, <1>9, <1>10, <1>11 DEF Next, Read, Dma

(* Whenever no read() is in progress, an engine that was started and is at *)
(* rest has filled the whole ring: recording never ends because a read()   *)
(* made room and did not say so.                                           *)
THEOREM NeverLeftStanding == Spec => []StandsOnlyWhenFull
<1>1. Spec => []IndInv
    BY InductiveInvariant
<1>2. IndInv /\ IndInv' /\ StandsOnlyWhenFull /\ [Next]_vars => StandsOnlyWhenFull'
    BY StandingStep
<1>3. Init => StandsOnlyWhenFull
    BY DEF Init, StandsOnlyWhenFull
<1> QED
    BY <1>1, <1>2, <1>3, PTL DEF Spec
-----------------------------------------------------------------------------
(***************************************************************************)
(* The ring as a ChunkQueue.  What it holds is always the numbers between  *)
(* the two counts in their order, so that a step is known by what it does  *)
(* to the counts.                                                          *)
(***************************************************************************)
IsRow ==
  clean => /\ delivered \in Nat /\ recorded \in Nat /\ delivered <= recorded
           /\ recorded - delivered <= NUM_DESC
           /\ Held(chunk, TakeAt, recorded - delivered) = Row(delivered, recorded)

LEMMA QueueIsRow == IndInv => IsRow
<1> SUFFICES ASSUME IndInv, clean PROVE IsRow
    BY DEF IsRow
<1>1. delivered \in Nat /\ recorded \in Nat /\ delivered <= recorded /\ WindowInv
    BY DEF IndInv, TypeOK, RingInv, SessionInv
<1>2. /\ recorded - delivered \in 0 .. NUM_DESC
      /\ Held(chunk, TakeAt, recorded - delivered) = Row(delivered, recorded)
    BY <1>1, HeldIsRow DEF WindowInv
<1> QED
    BY <1>1, <1>2, SizeAssumption DEF IsRow

(* What each step of a session that is clean after it does to the counts.  *)
LEMMA QueueCounts ==
  ASSUME IndInv, [Next]_vars, clean'
  PROVE  \/ ~clean /\ delivered' = 0 /\ recorded' = 0
         \/ clean /\ delivered' = delivered /\ recorded' = recorded + 1
         \/ clean /\ delivered' = delivered + 1 /\ recorded' = recorded
         \/ clean /\ delivered' = delivered /\ recorded' = recorded
<1>1. clean => pc # "closed"
    BY DEF IndInv, RingInv, SessionInv
<1>2. CASE ar7240_i2s_open
    BY <1>1, <1>2 DEF ar7240_i2s_open
<1>3. CASE CopyDescriptor \/ DmaRecord
    BY <1>3 DEF CopyDescriptor, DmaRecord
<1>4. ~CopyFault /\ ~FreeRing
    BY DEF CopyFault, FreeRing
<1>5. CASE \/ ar7240_i2s_read
           \/ KickEngine
           \/ ar7240_i2s_close
           \/ DmaStall
           \/ DmaStray
           \/ UNCHANGED vars
    BY <1>4, <1>5 DEF ar7240_i2s_read, KickEngine, ar7240_i2s_close, DmaStall,
                      DmaStray, vars, history
<1> QED
    BY <1>2, <1>3, <1>4, <1>5 DEF Next, Read, Dma, CloseAfterDelay

LEMMA QueueInit == Init => Queue!Init
BY DEF Init, Queue!Init, Queue!Nothing

(* Every step is a step of the queue, or none.                             *)
LEMMA QueueStep == IndInv /\ IndInv' /\ [Next]_vars => [Queue!Next]_(Queue!vars)
<1> SUFFICES ASSUME IndInv, IndInv', [Next]_vars
             PROVE  [Queue!Next]_(Queue!vars)
    OBVIOUS
<1> DEFINE held == Held(chunk, TakeAt, recorded - delivered)
<1>1. clean => /\ delivered \in Nat /\ recorded \in Nat /\ delivered <= recorded
               /\ recorded - delivered <= NUM_DESC /\ held = Row(delivered, recorded)
    BY QueueIsRow DEF IsRow
<1>2. clean' => /\ delivered' \in Nat /\ recorded' \in Nat /\ delivered' <= recorded'
                /\ recorded' - delivered' <= NUM_DESC /\ held' = Row(delivered', recorded')
  <2>1. IndInv' => IsRow'
    BY QueueIsRow, PTL
  <2> QED
    BY <2>1 DEF IsRow
<1>3. clean \in BOOLEAN /\ clean' \in BOOLEAN
    BY DEF IndInv, TypeOK
<1> HIDE DEF held
<1>4. CASE ~clean /\ ~clean'
    BY <1>3, <1>4 DEF Queue!vars
<1>5. CASE clean /\ ~clean'
    BY <1>3, <1>5 DEF Queue!Next, Queue!End, Queue!Nothing
<1>6. CASE clean' /\ ~clean
  <2>1. delivered' = 0 /\ recorded' = 0
    BY <1>6, QueueCounts
  <2>2. held' = <<>>
    BY <1>2, <1>6, <2>1, RowGrows
  <2> QED
    BY <1>3, <1>6, <2>1, <2>2 DEF Queue!Next, Queue!Begin, held
<1>7. CASE clean /\ clean' /\ delivered' = delivered /\ recorded' = recorded + 1
  <2>1. Len(held) < NUM_DESC
    <3>1. NUM_DESC \in Nat /\ recorded - delivered < NUM_DESC
      BY <1>1, <1>2, <1>7, SizeAssumption
    <3> QED
      BY <1>1, <1>7, <3>1, RowGrows
  <2>2. held' = Append(held, recorded)
    BY <1>1, <1>2, <1>7, RowGrows
  <2> QED
    BY <1>3, <1>7, <2>1, <2>2 DEF Queue!Next, Queue!Put, held
<1>8. CASE clean /\ clean' /\ delivered' = delivered + 1 /\ recorded' = recorded
  <2>1. delivered < recorded
    BY <1>1, <1>2, <1>8
  <2>2. held # <<>> /\ Head(held) = delivered /\ held' = Tail(held)
    BY <1>1, <1>2, <1>8, <2>1, RowShrinks
  <2> QED
    BY <1>3, <1>8, <2>2 DEF Queue!Next, Queue!Take, held
<1>9. CASE clean /\ clean' /\ delivered' = delivered /\ recorded' = recorded
    BY <1>1, <1>2, <1>3, <1>9 DEF Queue!vars, held
<1> QED
    BY <1>3, <1>4, <1>5, <1>6, <1>7, <1>8, <1>9, QueueCounts

(* Capture is a bounded queue, for every size of the ring: the engine puts *)
(* chunks in, the process takes them out in their order, and nothing       *)
(* either does is anything else to the queue.                              *)
THEOREM IsAQueue == Spec => ImplementsQueue
<1>1. IndInv /\ IndInv' /\ [Next]_vars => [Queue!Next]_(Queue!vars)
    BY QueueStep
<1>2. Spec => Queue!Init /\ [][Queue!Next]_(Queue!vars)
    BY <1>1, QueueInit, InductiveInvariant, PTL DEF Spec
<1> QED
    BY <1>2 DEF ImplementsQueue, Queue!Spec
=============================================================================
