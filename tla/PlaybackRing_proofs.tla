------------------------ MODULE PlaybackRing_proofs ------------------------
(***************************************************************************)
(* Proofs about PlaybackRing, for every size of the ring, of the buffers   *)
(* and of the requests, and every bound.                                   *)
(***************************************************************************)
EXTENDS PlaybackRing, RingWindow_proofs, FiniteSetTheorems

(* The numbers the constants stand for.                                    *)
LEMMA Sizes ==
  /\ I2S_BUF_SIZE \in Nat
  /\ I2S_BUF_SIZE > 0
  /\ MaxChunks \in Nat
  /\ DrainSteps \in Nat
BY RingAssumption

(* A request is a number of chunks and the length of a short last one.     *)
LEMMA RequestType ==
  ASSUME NEW r \in Requests
  PROVE  r[1] \in Nat /\ r[2] \in 0 .. I2S_BUF_SIZE - 1
BY RingAssumption

(***************************************************************************)
(* Every variable keeps its type.  The chunk counts of the write loop stay *)
(* natural numbers because a call never takes more than it was given,      *)
(* which CallInv says.                                                     *)
(***************************************************************************)
LEMMA TypeInit == Init => TypeOK /\ CallInv
<1> SUFFICES ASSUME Init PROVE TypeOK /\ CallInv
    OBVIOUS
<1>1. OWN \in [Desc -> BOOLEAN] /\ chunk \in [Desc -> Nat]
    BY DEF Init
<1>2. /\ popened \in 0 .. 2 /\ drain \in 0 .. DrainSteps
      /\ count \in Nat /\ rest \in 0 .. I2S_BUF_SIZE - 1
      /\ todo \in Nat /\ buf \in Nat /\ got \in Nat
      /\ asked \in Nat /\ played \in Nat
    BY Sizes DEF Init
<1>3. /\ running \in BOOLEAN /\ need_start \in BOOLEAN /\ clean \in BOOLEAN
      /\ ring \in {"live", "freed"} /\ aim \in {"ring", "gone"}
      /\ pc \in Locations
    BY DEF Init, Locations
<1>4. tail \in Desc /\ head \in Desc /\ ptail \in Desc
    BY DescType DEF Init
<1>5. CallInv
    BY DEF Init, CallInv
<1> QED
    BY <1>1, <1>2, <1>3, <1>4, <1>5 DEF TypeOK

LEMMA TypeStep == TypeOK /\ CallInv /\ [Next]_vars => TypeOK' /\ CallInv'
<1> SUFFICES ASSUME TypeOK, CallInv, [Next]_vars PROVE TypeOK' /\ CallInv'
    OBVIOUS
<1>1. CASE ar7240_i2s_open
  <2>1. OWN' \in [Desc -> BOOLEAN] /\ chunk' \in [Desc -> Nat]
    BY <1>1 DEF ar7240_i2s_open, ar7240_i2s_init
  <2>2. tail' \in Desc
    BY <1>1, DescType DEF ar7240_i2s_open, ar7240_i2s_init, TypeOK
  <2>3. pc' \in Locations /\ clean' \in BOOLEAN
    BY <1>1 DEF ar7240_i2s_open, Locations
  <2>4. ring' \in {"live", "freed"} /\ aim' \in {"ring", "gone"}
    BY <1>1 DEF ar7240_i2s_open, ar7240_i2s_init
  <2>5. popened' \in 0 .. 2 /\ buf' \in Nat /\ asked' \in Nat /\ played' \in Nat
    BY <1>1 DEF ar7240_i2s_open, ar7240_i2s_init
  <2>6. TypeOK'
    BY <1>1, <2>1, <2>2, <2>3, <2>4, <2>5 DEF ar7240_i2s_open, TypeOK
  <2>7. CallInv'
    BY <1>1 DEF ar7240_i2s_open, ar7240_i2s_init, TypeOK, CallInv
  <2> QED
    BY <2>6, <2>7
<1>2. CASE ar9100_i2s_write
  <2>1. count' \in Nat /\ rest' \in 0 .. I2S_BUF_SIZE - 1 /\ todo' \in Nat
    BY <1>2, RequestType DEF ar9100_i2s_write
  <2>2. asked' \in Nat
    BY <1>2, RequestType DEF ar9100_i2s_write, TypeOK
  <2>3. pc' \in Locations
    BY <1>2 DEF ar9100_i2s_write, Locations
  <2>4. TypeOK'
    BY <1>2, <2>1, <2>2, <2>3 DEF ar9100_i2s_write, TypeOK, device, engine
  <2>5. CallInv'
    BY <1>2, <2>1 DEF ar9100_i2s_write, CallInv, device
  <2> QED
    BY <2>4, <2>5
<1>3. CASE ar7240_i2s_write
  <2>1. /\ popened' \in 0 .. 2 /\ got' \in Nat
        /\ need_start' \in BOOLEAN /\ pc' \in Locations
    BY <1>3 DEF ar7240_i2s_write, TypeOK, Locations
  <2>2. TypeOK'
    BY <1>3, <2>1 DEF ar7240_i2s_write, TypeOK, engine
  <2>3. CallInv'
    BY <1>3 DEF ar7240_i2s_write, TypeOK, CallInv
  <2> QED
    BY <2>2, <2>3
<1>4. CASE FillDescriptor
  <2>1. /\ OWN' \in [Desc -> BOOLEAN] /\ chunk' \in [Desc -> Nat]
        /\ ptail' \in Desc /\ got' \in Nat
    BY <1>4, DescType DEF FillDescriptor, TypeOK
  <2>2. TypeOK'
    BY <1>4, <2>1 DEF FillDescriptor, TypeOK, engine
  <2>3. CallInv'
    BY <1>4 DEF FillDescriptor, TypeOK, CallInv
  <2> QED
    BY <2>2, <2>3
<1>5. CASE KickEngine
  <2>1. todo' \in Nat /\ buf' \in Nat /\ got' \in Nat
    BY <1>5, Sizes DEF KickEngine, Moved, TypeOK, CallInv
  <2>2. running' \in BOOLEAN /\ clean' \in BOOLEAN
    BY <1>5 DEF KickEngine, ar7240_i2sound_dma_start, ar7240_i2sound_dma_resume,
           TypeOK
  <2>3. head' \in Desc /\ aim' \in {"ring", "gone"} /\ tail' \in Desc
    BY <1>5 DEF KickEngine, ar7240_i2sound_dma_start,
           ar7240_i2sound_dma_resume, TypeOK
  <2>4. pc' \in Locations
    BY <1>5 DEF KickEngine, Locations
  <2>5. TypeOK'
    BY <1>5, <2>1, <2>2, <2>3, <2>4 DEF KickEngine, TypeOK
  <2>6. CallInv'
    BY <1>5, <2>1 DEF KickEngine, CallInv
  <2> QED
    BY <2>5, <2>6
<1>6. CASE CopyFault
  <2>1. todo' \in Nat /\ buf' \in Nat /\ got' \in Nat
    BY <1>6, Sizes DEF CopyFault, Moved, TypeOK
  <2>2. clean' \in BOOLEAN /\ pc' \in Locations
    BY <1>6 DEF CopyFault, Locations
  <2>3. TypeOK'
    BY <1>6, <2>1, <2>2 DEF CopyFault, TypeOK, device, engine
  <2>4. CallInv'
    BY <1>6, <2>1 DEF CopyFault, CallInv
  <2> QED
    BY <2>3, <2>4
<1>7. ASSUME FreeRing, pc # "fill", drain' \in {drain, 0}
      PROVE  TypeOK' /\ CallInv'
  <2>1. OWN' \in [Desc -> BOOLEAN] /\ chunk' \in [Desc -> Nat]
    BY <1>7 DEF FreeRing
  <2>2. /\ popened' \in 0 .. 2 /\ drain' \in 0 .. DrainSteps
        /\ count' \in Nat /\ rest' \in 0 .. I2S_BUF_SIZE - 1
    BY <1>7, Sizes DEF FreeRing, TypeOK
  <2>3. /\ ring' \in {"live", "freed"} /\ aim' \in {"ring", "gone"}
        /\ need_start' \in BOOLEAN /\ clean' \in BOOLEAN
        /\ pc' \in Locations /\ ptail' \in Desc
    BY <1>7, DescType DEF FreeRing, Locations
  <2>4. TypeOK'
    BY <1>7, <2>1, <2>2, <2>3 DEF FreeRing, TypeOK
  <2> QED
    BY <1>7, <2>4 DEF FreeRing, CallInv
<1>8. CASE ar7240_i2s_close
  <2>1. CASE pc' = "wait"
    <3>1. /\ pc = "idle" /\ drain' = DrainSteps
          /\ UNCHANGED <<device, engine, count, rest, todo, buf, ptail, got,
                         need_start, asked, played, clean>>
      BY <1>8, <2>1 DEF ar7240_i2s_close, FreeRing
    <3>2. drain' \in 0 .. DrainSteps /\ pc' \in Locations
      BY <2>1, <3>1, Sizes DEF Locations
    <3>3. TypeOK'
      BY <3>1, <3>2 DEF device, engine, TypeOK
    <3> QED
      BY <2>1, <3>1, <3>3 DEF device, CallInv
  <2>2. CASE pc' # "wait"
    BY <1>7, <1>8, <2>2 DEF ar7240_i2s_close
  <2> QED
    BY <2>1, <2>2
<1>9. CASE CloseAfterDelay
    BY <1>7, <1>9 DEF CloseAfterDelay
<1>10. CASE DmaComplete
  <2>1. OWN' \in [Desc -> BOOLEAN] /\ head' \in Desc
    BY <1>10, DescType DEF DmaComplete, TypeOK
  <2>2. played' \in Nat /\ drain' \in 0 .. DrainSteps
    BY <1>10, Sizes DEF DmaComplete, HasTime, TypeOK
  <2>3. TypeOK'
    BY <1>10, <2>1, <2>2 DEF DmaComplete, TypeOK, process
  <2> QED
    BY <1>10, <2>3 DEF DmaComplete, CallInv, process
<1>11. CASE DmaStall
    BY <1>11 DEF DmaStall, TypeOK, CallInv, device, process
<1>12. CASE DmaStray
    BY <1>12, DescType DEF DmaStray, TypeOK, CallInv, device, process
<1>13. CASE UNCHANGED vars
    BY <1>13 DEF vars, device, engine, process, TypeOK, CallInv
<1> QED
    BY <1>1, <1>2, <1>3, <1>4, <1>5, <1>6, <1>8, <1>9, <1>10, <1>11, <1>12,
       <1>13 DEF Next, Write, Dma

(* Type correctness of the driver's ring, its engine and its process.      *)
THEOREM TypeCorrect == Spec => []TypeOK
<1>1. Spec => [](TypeOK /\ CallInv)
    BY TypeInit, TypeStep, PTL DEF Spec
<1> QED
    BY <1>1, PTL
-----------------------------------------------------------------------------
(***************************************************************************)
(* The window of a clean session.  Each action is looked at for the        *)
(* sessions that are clean after it; CopyFault and the two ways to free    *)
(* the ring leave none.                                                    *)
(***************************************************************************)
SessionOK == clean => SessionInv /\ WindowInv

LEMMA WindowInit == Init => RingInv
BY TypeInit DEF Init, RingInv

(* open() begins with an empty ring and an engine at rest.                 *)
LEMMA WindowOpen ==
  ASSUME TypeOK, CallInv, ar7240_i2s_open PROVE SessionOK'
<1> SUFFICES ASSUME clean' PROVE SessionInv' /\ WindowInv'
    BY DEF SessionOK
<1>1. /\ ring' = "live" /\ pc' = "idle" /\ ~running' /\ popened' = 1
      /\ tail' = 0 /\ buf' = 0 /\ asked' = 0 /\ played' = 0 /\ got' = 0
      /\ OWN' = [d \in Desc |-> FALSE]
    BY DEF ar7240_i2s_open, ar7240_i2s_init, CallInv
<1>2. ~Started' /\ EngineAt' = tail' /\ AppendAt' = tail' /\ End' = 0
    BY <1>1 DEF Started, EngineAt, AppendAt, End
<1>3. SessionInv'
    BY <1>1, <1>2, Sizes DEF SessionInv
<1>4. Owned' = {}
    BY <1>1 DEF Owned
<1>5. WindowInv'
  <2>1. Window({}, chunk', 0, 0, 0, 0)
    BY WindowEmpty, DescType
  <2> QED
    BY <1>1, <1>2, <1>4, <2>1 DEF WindowInv
<1> QED
    BY <1>3, <1>5

(* The steps that touch neither the window nor its ends: a new request,    *)
(* and the head of ar7240_i2s_write().                                     *)
LEMMA WindowRequest ==
  ASSUME TypeOK, CallInv, SessionOK, ar9100_i2s_write PROVE SessionOK'
<1> SUFFICES ASSUME clean' PROVE SessionInv' /\ WindowInv'
    BY DEF SessionOK
<1>1. PICK r \in Requests :
        asked + r[1] <= MaxChunks /\ asked' = asked + r[1] /\ todo' = r[1]
    BY DEF ar9100_i2s_write
<1>2. /\ pc = "idle" /\ pc' = "call" /\ clean
      /\ UNCHANGED <<device, engine, buf, got, need_start, played>>
    BY DEF ar9100_i2s_write
<1>3. SessionInv /\ WindowInv
    BY <1>2 DEF SessionOK
<1>4. /\ Started' = Started /\ EngineAt' = EngineAt
      /\ AppendAt' = AppendAt /\ End' = End
    BY <1>2 DEF Started, EngineAt, AppendAt, End, device, engine
<1>5. SessionInv'
    BY <1>1, <1>2, <1>3, <1>4 DEF SessionInv, device, engine
<1>6. WindowInv'
    BY <1>2, <1>3, <1>4 DEF WindowInv, Owned, device
<1> QED
    BY <1>5, <1>6

LEMMA WindowCall ==
  ASSUME TypeOK, CallInv, SessionOK, ar7240_i2s_write PROVE SessionOK'
<1> SUFFICES ASSUME clean' PROVE SessionInv' /\ WindowInv'
    BY DEF SessionOK
<1>1. /\ pc = "call" /\ pc' = "fill" /\ clean /\ got' = 0 /\ got = 0
      /\ ptail' = tail /\ popened' = 2 /\ (need_start' <=> popened < 2)
      /\ UNCHANGED <<ring, OWN, chunk, tail, engine, todo, buf, asked, played>>
    BY DEF ar7240_i2s_write, CallInv
<1>2. SessionInv /\ WindowInv
    BY <1>1 DEF SessionOK
<1>3. Started' <=> Started
  <2>1. CASE popened < 2
    <3>1. need_start' /\ ~(popened = 2)
      BY <1>1, <2>1 DEF TypeOK
    <3> QED
      BY <1>1, <3>1 DEF Started
  <2>2. CASE popened = 2
    <3>1. ~need_start'
      BY <1>1, <2>2
    <3> QED
      BY <1>1, <2>2, <3>1 DEF Started
  <2> QED
    BY <2>1, <2>2 DEF TypeOK
<1>4. EngineAt' = EngineAt /\ AppendAt' = AppendAt /\ End' = End
    BY <1>1, <1>3 DEF EngineAt, AppendAt, End, engine
<1>5. SessionInv'
    BY <1>1, <1>2, <1>3, <1>4 DEF SessionInv, engine
<1>6. WindowInv'
    BY <1>1, <1>2, <1>4 DEF WindowInv, Owned
<1> QED
    BY <1>5, <1>6

(* Filling a descriptor makes the window longer by one.  Its last chunk    *)
(* was just before the new one, and was followed by the descriptor filled. *)
LEMMA WindowFill ==
  ASSUME TypeOK, CallInv, SessionOK, FillDescriptor PROVE SessionOK'
<1> SUFFICES ASSUME clean' PROVE SessionInv' /\ WindowInv'
    BY DEF SessionOK
<1>1. /\ pc = "fill" /\ pc' = "fill" /\ clean /\ got < todo
      /\ got' = got + 1 /\ ptail' = next_tail(ptail)
      /\ chunk' = [chunk EXCEPT ![ptail] = End]
      /\ OWN' = [OWN EXCEPT ![ptail] = TRUE]
      /\ UNCHANGED <<popened, ring, tail, engine, todo, buf, need_start,
                     asked, played>>
    BY DEF FillDescriptor, End
<1>2. SessionInv /\ WindowInv
    BY <1>1 DEF SessionOK
<1>3. ~OWN[ptail]
    BY <1>2 DEF FillDescriptor, SeesFree, SessionInv
<1>4. /\ Started' = Started /\ EngineAt' = EngineAt
      /\ AppendAt = ptail /\ AppendAt' = next_tail(ptail)
      /\ End' = End + 1 /\ End \in Nat
    BY <1>1 DEF Started, EngineAt, AppendAt, End, engine, TypeOK
<1>5. SessionInv'
    BY <1>1, <1>2, <1>4 DEF SessionInv, engine, TypeOK
<1>6. /\ ptail \in Desc /\ EngineAt \in Desc
      /\ OWN \in [Desc -> BOOLEAN] /\ chunk \in [Desc -> Nat]
      /\ played \in Nat /\ played <= End
    BY <1>2 DEF TypeOK, EngineAt, SessionInv
<1>7. Owned' = Owned \cup {ptail} /\ ptail \notin Owned /\ Owned \subseteq Desc
    BY <1>1, <1>3, <1>6 DEF Owned
<1>8. Window(Owned, chunk, played, End, EngineAt, ptail)
    BY <1>2, <1>4 DEF WindowInv
<1>9. Window(Owned', chunk', played, End + 1, EngineAt, next_tail(ptail))
    BY <1>1, <1>4, <1>6, <1>7, <1>8, WindowGrows
<1>10. WindowInv'
    BY <1>1, <1>4, <1>9 DEF WindowInv
<1> QED
    BY <1>5, <1>10

(* The end of a call moves the tail to the end of the window, and the      *)
(* engine, if it is started here, to its beginning.                        *)
LEMMA WindowKick ==
  ASSUME TypeOK, CallInv, SessionOK, KickEngine PROVE SessionOK'
<1> SUFFICES ASSUME clean' PROVE SessionInv' /\ WindowInv'
    BY DEF SessionOK
<1>1. /\ pc = "fill" /\ pc' = IF got < todo THEN "call" ELSE "idle"
      /\ clean /\ got' = 0 /\ todo' = todo - got /\ buf' = Moved(got)
      /\ tail' = ptail
      /\ UNCHANGED <<popened, ring, OWN, chunk, asked, played>>
    BY DEF KickEngine
<1>2. SessionInv /\ WindowInv
    BY <1>1 DEF SessionOK
<1>3. got <= todo /\ popened = 2 /\ asked = buf + todo /\ asked <= MaxChunks
    BY <1>1, <1>2 DEF CallInv, SessionInv
<1>4. buf' = buf + got
    BY <1>1, <1>3, Sizes DEF Moved, TypeOK
<1>5. /\ Started' /\ AppendAt = ptail /\ AppendAt' = ptail
      /\ End' = End /\ End \in Nat
    BY <1>1, <1>3, <1>4 DEF Started, AppendAt, End, TypeOK
<1>6. EngineAt' = EngineAt /\ aim' = "ring"
  <2>1. CASE need_start
    BY <1>1, <1>2, <1>5, <2>1
    DEF KickEngine, EngineAt, Started, SessionInv, ar7240_i2sound_dma_start
  <2>2. CASE ~need_start
    <3>1. Started
      BY <1>3, <2>2 DEF Started
    <3> QED
      BY <1>2, <1>5, <2>2, <3>1
      DEF KickEngine, EngineAt, SessionInv, ar7240_i2sound_dma_resume
  <2> QED
    BY <2>1, <2>2 DEF TypeOK
<1>7. asked = IF pc' \in {"call", "fill"} THEN buf' + todo' ELSE buf'
    BY <1>1, <1>3, <1>4 DEF TypeOK
<1>8. SessionInv'
    BY <1>1, <1>2, <1>5, <1>6, <1>7 DEF SessionInv
<1>9. WindowInv'
    BY <1>1, <1>2, <1>5, <1>6 DEF WindowInv, Owned
<1> QED
    BY <1>8, <1>9

(* Playing a descriptor makes the window shorter by one at its beginning.  *)
LEMMA WindowComplete ==
  ASSUME TypeOK, CallInv, SessionOK, DmaComplete PROVE SessionOK'
<1> SUFFICES ASSUME clean' PROVE SessionInv' /\ WindowInv'
    BY DEF SessionOK
<1>1. /\ running /\ OWN[head] /\ clean /\ played' = played + 1
      /\ OWN' = [OWN EXCEPT ![head] = FALSE] /\ head' = next_tail(head)
      /\ UNCHANGED <<popened, ring, chunk, tail, running, aim, process, asked>>
    BY DEF DmaComplete, InRing
<1>2. SessionInv /\ WindowInv
    BY <1>1 DEF SessionOK
<1>3. /\ Started /\ Started' /\ EngineAt = head /\ EngineAt' = next_tail(head)
      /\ AppendAt' = AppendAt /\ End' = End /\ End \in Nat
    BY <1>1, <1>2
    DEF Started, EngineAt, AppendAt, End, process, SessionInv, TypeOK
<1>4. /\ head \in Desc /\ AppendAt \in Desc
      /\ OWN \in [Desc -> BOOLEAN] /\ chunk \in [Desc -> Nat]
      /\ played \in Nat
    BY DEF TypeOK, AppendAt
<1>5. Owned' = Owned \ {head} /\ head \in Owned /\ Owned \subseteq Desc
    BY <1>1, <1>4 DEF Owned
<1>6. Window(Owned, chunk, played, End, head, AppendAt)
    BY <1>2, <1>3 DEF WindowInv
<1>7. played < End
    BY <1>3, <1>4, <1>5, <1>6, WindowFirst
<1>8. SessionInv'
    BY <1>1, <1>2, <1>3, <1>4, <1>7 DEF SessionInv, process
<1>9. Window(Owned', chunk, played + 1, End, next_tail(head), AppendAt)
    BY <1>3, <1>4, <1>5, <1>6, WindowShrinks
<1>10. WindowInv'
    BY <1>1, <1>3, <1>9 DEF WindowInv
<1> QED
    BY <1>8, <1>10

(* Stalling, and the beginning of close(), change neither.                 *)
LEMMA WindowQuiet ==
  ASSUME TypeOK, CallInv, SessionOK,
         DmaStall \/ (ar7240_i2s_close /\ ~FreeRing) \/ UNCHANGED vars
  PROVE  SessionOK'
<1> SUFFICES ASSUME clean' PROVE SessionInv' /\ WindowInv'
    BY DEF SessionOK
<1>1. /\ clean /\ UNCHANGED <<device, aim, head, todo, buf, ptail, got,
                              need_start, asked, played>>
      /\ running' \in {running, FALSE}
      /\ pc' = pc \/ (pc = "idle" /\ pc' = "wait")
    BY DEF DmaStall, ar7240_i2s_close, vars, device, engine, process
<1>2. SessionInv /\ WindowInv
    BY <1>1 DEF SessionOK
<1>3. (Started' <=> Started) /\ (pc' = "fill" <=> pc = "fill")
    BY <1>1 DEF Started, device
<1>4. EngineAt' = EngineAt /\ AppendAt' = AppendAt /\ End' = End
    BY <1>1, <1>3 DEF EngineAt, AppendAt, End, device
<1>5. ~running => ~running'
    BY <1>1 DEF TypeOK
<1>6. SessionInv'
    BY <1>1, <1>2, <1>3, <1>4, <1>5 DEF SessionInv, device
<1>7. WindowInv'
    BY <1>1, <1>2, <1>4 DEF WindowInv, Owned, device
<1> QED
    BY <1>6, <1>7

LEMMA WindowStep == TypeOK /\ RingInv /\ [Next]_vars => RingInv'
<1> SUFFICES ASSUME TypeOK, CallInv, SessionOK, [Next]_vars PROVE SessionOK'
    BY TypeStep DEF RingInv, SessionOK
<1>1. CASE CopyFault
    BY <1>1 DEF CopyFault, SessionOK
<1>2. CASE FreeRing
    BY <1>2 DEF FreeRing, SessionOK
<1>3. CASE DmaStray
  <2>1. ~clean
    BY <1>3 DEF DmaStray, SessionOK, SessionInv
  <2> QED
    BY <1>3, <2>1 DEF DmaStray, SessionOK
<1> QED
    BY <1>1, <1>2, <1>3, WindowOpen, WindowRequest, WindowCall, WindowFill,
       WindowKick, WindowComplete, WindowQuiet
    DEF Next, Write, Dma, CloseAfterDelay

(* The window is an invariant of the driver.                               *)
THEOREM RingInvariant == Spec => []RingInv
<1>1. Spec => [](TypeOK /\ RingInv)
  <2>1. Init => TypeOK /\ RingInv
    BY TypeInit, WindowInit
  <2>2. TypeOK /\ RingInv /\ [Next]_vars => TypeOK' /\ RingInv'
    BY TypeStep, WindowStep DEF RingInv
  <2> QED
    BY <2>1, <2>2, PTL DEF Spec
<1> QED
    BY <1>1, PTL

(* Together with the types: the invariant that each step preserves.        *)
THEOREM InductiveInvariant == Spec => []IndInv
BY TypeCorrect, RingInvariant, PTL DEF IndInv

(* The engine plays the chunks of a clean session in the order sent,       *)
(* whatever the sizes and however its steps interleave with the fills.     *)
THEOREM PlaysInOrder == Spec => []InOrder
<1>1. TypeOK /\ RingInv => InOrder
  <2> SUFFICES ASSUME TypeOK, SessionInv, WindowInv, running, OWN[head]
               PROVE  chunk[head] = played
    BY DEF InOrder, RingInv, InRing
  <2>1. /\ EngineAt = head /\ head \in Owned /\ Owned \subseteq Desc
        /\ head \in Desc /\ AppendAt \in Desc /\ chunk \in [Desc -> Nat]
        /\ played \in Nat /\ End \in Nat
    BY DEF SessionInv, EngineAt, AppendAt, End, Owned, TypeOK
  <2>2. Window(Owned, chunk, played, End, head, AppendAt)
    BY <2>1 DEF WindowInv
  <2> QED
    BY <2>1, <2>2, WindowFirst
<1> QED
    BY <1>1, TypeCorrect, RingInvariant, PTL

(* A write() that returned has handed over all that was asked for.         *)
THEOREM WritesAreComplete == Spec => []WriteIsComplete
<1>1. RingInv => WriteIsComplete
    BY DEF RingInv, SessionInv, WriteIsComplete
<1> QED
    BY <1>1, RingInvariant, PTL
-----------------------------------------------------------------------------
(***************************************************************************)
(* Counting the window: filling adds one descriptor to those the engine    *)
(* owns and one to End, playing takes one and adds one to `played'.        *)
(***************************************************************************)
LEMMA OwnedFinite == ASSUME TypeOK PROVE IsFiniteSet(Owned)
<1>1. IsFiniteSet(Desc)
    BY SizeAssumption, FS_Interval DEF Desc
<1>2. Owned \subseteq Desc
    BY DEF Owned
<1> QED
    BY <1>1, <1>2, FS_Subset

LEMMA BacklogStep ==
  TypeOK /\ RingInv /\ Backlog /\ [Next]_vars => Backlog'
<1> SUFFICES ASSUME TypeOK, RingInv, Backlog, [Next]_vars, clean'
             PROVE  Cardinality(Owned)' + played' = buf' + got'
    BY DEF Backlog
<1>1. IsFiniteSet(Owned) /\ Cardinality(Owned) \in Nat
    BY OwnedFinite, FS_CardinalityType
<1>2. CASE ar7240_i2s_open
  <2>1. Owned' = {}
    BY <1>2 DEF ar7240_i2s_open, ar7240_i2s_init, Owned
  <2>2. buf' = 0 /\ got' = 0 /\ played' = 0
    BY <1>2 DEF ar7240_i2s_open, RingInv, CallInv
  <2>3. Cardinality(Owned)' = 0
    BY <2>1, FS_EmptySet
  <2> QED
    BY <2>2, <2>3
<1>3. CASE FillDescriptor
  <2>1. clean /\ got' = got + 1 /\ buf' = buf /\ played' = played
    BY <1>3 DEF FillDescriptor
  <2>2. ~OWN[ptail] /\ OWN' = [OWN EXCEPT ![ptail] = TRUE]
    BY <1>3, <2>1 DEF FillDescriptor, SeesFree, RingInv, SessionInv
  <2>3. Owned' = Owned \cup {ptail} /\ ptail \notin Owned
    BY <2>2 DEF Owned, TypeOK
  <2>4. Cardinality(Owned)' = Cardinality(Owned) + 1
    BY <1>1, <2>3, FS_AddElement
  <2> QED
    BY <1>1, <2>1, <2>4 DEF Backlog, TypeOK
<1>4. CASE DmaComplete
  <2>1. clean /\ UNCHANGED <<buf, got>> /\ played' = played + 1
    BY <1>4 DEF DmaComplete, process
  <2>2. OWN[head] /\ OWN' = [OWN EXCEPT ![head] = FALSE]
    BY <1>4 DEF DmaComplete
  <2>3. Owned' = Owned \ {head} /\ head \in Owned
    BY <2>2 DEF Owned, TypeOK
  <2>4. Cardinality(Owned)' = Cardinality(Owned) - 1
    BY <1>1, <2>3, FS_RemoveElement
  <2> QED
    BY <1>1, <2>1, <2>4 DEF Backlog, TypeOK
<1>5. CASE KickEngine
  <2>1. /\ clean /\ UNCHANGED <<OWN, played>> /\ got' = 0
        /\ buf' = Moved(got) /\ got <= todo /\ pc = "fill"
    BY <1>5 DEF KickEngine, RingInv, CallInv
  <2>2. asked = buf + todo /\ asked <= MaxChunks
    BY <2>1 DEF RingInv, SessionInv
  <2>3. buf' = buf + got
    BY <2>1, <2>2, Sizes DEF Moved, TypeOK
  <2>4. Owned' = Owned
    BY <2>1 DEF Owned
  <2> QED
    BY <2>1, <2>3, <2>4 DEF Backlog, TypeOK
<1>6. ASSUME \/ ar9100_i2s_write
             \/ ar7240_i2s_write
             \/ ar7240_i2s_close /\ ~FreeRing
             \/ DmaStall
             \/ UNCHANGED vars
      PROVE  Cardinality(Owned)' + played' = buf' + got'
  <2>1. clean /\ UNCHANGED <<OWN, played, buf>> /\ got' = got
    BY <1>6 DEF ar9100_i2s_write, ar7240_i2s_write, ar7240_i2s_close, DmaStall,
                vars, device, process, RingInv, CallInv
  <2>2. Owned' = Owned
    BY <2>1 DEF Owned
  <2> QED
    BY <2>1, <2>2 DEF Backlog
<1>7. ~CopyFault /\ ~FreeRing
    BY DEF CopyFault, FreeRing
<1>8. ~DmaStray
    BY DEF DmaStray, RingInv, SessionInv
<1> QED
    BY <1>2, <1>3, <1>4, <1>5, <1>6, <1>7, <1>8
    DEF Next, Write, Dma, CloseAfterDelay

(* No chunk of a clean session is lost or sent twice.                      *)
THEOREM NothingLost == Spec => []Backlog
<1>1. Init => Backlog
    BY DEF Init, Backlog
<1>2. Spec => [](TypeOK /\ RingInv /\ Backlog)
    BY <1>1, TypeInit, TypeStep, WindowInit, WindowStep, BacklogStep, PTL
    DEF Spec, RingInv
<1> QED
    BY <1>2, PTL
-----------------------------------------------------------------------------
(***************************************************************************)
(* The engine stands still only if it has nothing to play.  It stops only  *)
(* at a descriptor that is not its own; that one is the first of the       *)
(* window, which is then empty.  What a call adds to an empty window, the  *)
(* end of the call starts or resumes the engine for.                       *)
(***************************************************************************)
LEMMA StandingInit == Init => StandsOnlyWhenEmpty
BY DEF Init, StandsOnlyWhenEmpty

LEMMA StandingStep ==
  IndInv /\ IndInv' /\ StandsOnlyWhenEmpty /\ [Next]_vars => StandsOnlyWhenEmpty'
<1> SUFFICES ASSUME IndInv, IndInv', StandsOnlyWhenEmpty, [Next]_vars,
                    clean', pc' # "fill", Owned' # {}
             PROVE  InRing'
    BY DEF StandsOnlyWhenEmpty
<1>1. TypeOK /\ CallInv /\ SessionInv'
    BY DEF IndInv, RingInv
<1>2. clean => SessionInv /\ WindowInv
    BY DEF IndInv, RingInv
<1>3. CASE ar7240_i2s_open
  <2>1. Owned' = {}
    BY <1>3 DEF ar7240_i2s_open, ar7240_i2s_init, Owned
  <2> QED
    BY <2>1
<1>4. CASE ar9100_i2s_write
    BY <1>4 DEF ar9100_i2s_write, StandsOnlyWhenEmpty, Owned, InRing, device, engine
<1>5. CASE ar7240_i2s_write \/ FillDescriptor
    BY <1>1, <1>5 DEF ar7240_i2s_write, FillDescriptor
<1>6. CASE KickEngine
  <2>1. running' = TRUE
    BY <1>6 DEF KickEngine, ar7240_i2sound_dma_start, ar7240_i2sound_dma_resume
  <2>2. Started'
    BY <1>1, <1>6 DEF KickEngine, CallInv, Started
  <2> QED
    BY <1>1, <2>1, <2>2 DEF SessionInv, InRing
<1>7. CASE CopyFault \/ CloseAfterDelay
    BY <1>7 DEF CopyFault, CloseAfterDelay, FreeRing
<1>8. CASE ar7240_i2s_close
    BY <1>8 DEF ar7240_i2s_close, FreeRing, StandsOnlyWhenEmpty, Owned, InRing,
           device, engine
<1>9. CASE DmaComplete
  <2>1. InRing /\ UNCHANGED <<running, aim>>
    BY <1>9 DEF DmaComplete
  <2> QED
    BY <2>1 DEF InRing
<1>10. CASE DmaStall
  <2>1. clean /\ running /\ ~OWN[head] /\ UNCHANGED OWN
    BY <1>10 DEF DmaStall, InRing, device
  <2>2. EngineAt = head
    BY <1>2, <2>1 DEF SessionInv, EngineAt
  <2>3. /\ Window(Owned, chunk, played, End, head, AppendAt) /\ head \notin Owned
        /\ head \in Desc /\ played \in Nat /\ End \in Nat
    BY <1>1, <1>2, <2>1, <2>2 DEF WindowInv, Owned, TypeOK, End
  <2>4. Owned = {} /\ Owned' = {}
    BY <2>1, <2>3, WindowWithoutFirst DEF Owned
  <2> QED
    BY <2>4
<1>11. CASE DmaStray
  <2>1. clean /\ running /\ aim = "gone"
    BY <1>11 DEF DmaStray
  <2> QED
    BY <1>2, <2>1 DEF SessionInv
<1>12. CASE UNCHANGED vars
    BY <1>12 DEF vars, device, engine, process, StandsOnlyWhenEmpty, Owned, InRing
<1> QED
    BY <1>3, <1>4, <1>5, <1>6, <1>7, <1>8, <1>9, <1>10, <1>11, <1>12
    DEF Next, Write, Dma

(* Whenever no call is in the middle of filling, an engine that is at rest *)
(* has played all it was given: a full ring never waits for an engine that *)
(* nobody will resume.                                                     *)
THEOREM NeverLeftStanding == Spec => []StandsOnlyWhenEmpty
<1>1. Spec => []IndInv
    BY InductiveInvariant
<1>2. IndInv /\ IndInv' /\ StandsOnlyWhenEmpty /\ [Next]_vars => StandsOnlyWhenEmpty'
    BY StandingStep
<1>3. Init => StandsOnlyWhenEmpty
    BY StandingInit
<1> QED
    BY <1>1, <1>2, <1>3, PTL DEF Spec
-----------------------------------------------------------------------------
(***************************************************************************)
(* The ring as a ChunkQueue.  What it holds is always the numbers between  *)
(* the two counts in their order, so that a step is known by what it does  *)
(* to the counts.                                                          *)
(***************************************************************************)
IsRow ==
  clean => /\ played \in Nat /\ End \in Nat /\ played <= End
           /\ End - played <= NUM_DESC
           /\ Held(chunk, EngineAt, End - played) = Row(played, End)

LEMMA QueueIsRow == IndInv => IsRow
<1> SUFFICES ASSUME IndInv, clean PROVE IsRow
    BY DEF IsRow
<1>1. played \in Nat /\ End \in Nat /\ played <= End /\ WindowInv
    BY DEF IndInv, TypeOK, RingInv, SessionInv, End
<1>2. /\ End - played \in 0 .. NUM_DESC
      /\ Held(chunk, EngineAt, End - played) = Row(played, End)
    BY <1>1, HeldIsRow DEF WindowInv
<1> QED
    BY <1>1, <1>2, SizeAssumption DEF IsRow

(* What each step of a session that is clean after it does to the counts.  *)
LEMMA QueueCounts ==
  ASSUME IndInv, [Next]_vars, clean'
  PROVE  \/ ~clean /\ played' = 0 /\ End' = 0
         \/ clean /\ played' = played /\ End' = End + 1
         \/ clean /\ played' = played + 1 /\ End' = End
         \/ clean /\ played' = played /\ End' = End
<1>1. TypeOK /\ CallInv /\ (clean => SessionInv)
    BY DEF IndInv, RingInv
<1>2. CASE ar7240_i2s_open
  <2>1. ~clean
    BY <1>1, <1>2 DEF ar7240_i2s_open, SessionInv
  <2>2. played' = 0 /\ buf' = 0 /\ got' = 0
    BY <1>1, <1>2 DEF ar7240_i2s_open, CallInv
  <2> QED
    BY <2>1, <2>2 DEF End
<1>3. CASE FillDescriptor
    BY <1>1, <1>3 DEF FillDescriptor, End, TypeOK
<1>4. CASE DmaComplete
    BY <1>4 DEF DmaComplete, End, process
<1>5. CASE KickEngine
  <2>1. /\ clean /\ pc = "fill" /\ got <= todo
        /\ got' = 0 /\ buf' = Moved(got) /\ played' = played
    BY <1>1, <1>5 DEF KickEngine, CallInv
  <2>2. asked = buf + todo /\ asked <= MaxChunks
    BY <1>1, <2>1 DEF SessionInv
  <2>3. buf' = buf + got
    BY <1>1, <2>1, <2>2, Sizes DEF Moved, TypeOK
  <2> QED
    BY <1>1, <2>1, <2>3 DEF End, TypeOK
<1>6. CASE ar7240_i2s_write
  <2>1. got' = got
    BY <1>1, <1>6 DEF ar7240_i2s_write, CallInv
  <2> QED
    BY <1>6, <2>1 DEF ar7240_i2s_write, End
<1>7. ~CopyFault /\ ~FreeRing
    BY DEF CopyFault, FreeRing
<1>8. CASE \/ ar9100_i2s_write
           \/ ar7240_i2s_close
           \/ DmaStall
           \/ DmaStray
           \/ UNCHANGED vars
    BY <1>7, <1>8 DEF ar9100_i2s_write, ar7240_i2s_close, DmaStall, DmaStray, vars,
                      process, End
<1> QED
    BY <1>2, <1>3, <1>4, <1>5, <1>6, <1>7, <1>8
    DEF Next, Write, Dma, CloseAfterDelay

LEMMA QueueInit == Init => Queue!Init
BY DEF Init, Queue!Init, Queue!Nothing

(* Every step is a step of the queue, or none.                             *)
LEMMA QueueStep == IndInv /\ IndInv' /\ [Next]_vars => [Queue!Next]_(Queue!vars)
<1> SUFFICES ASSUME IndInv, IndInv', [Next]_vars
             PROVE  [Queue!Next]_(Queue!vars)
    OBVIOUS
<1> DEFINE held == Held(chunk, EngineAt, End - played)
<1>1. clean => /\ played \in Nat /\ End \in Nat /\ played <= End
               /\ End - played <= NUM_DESC /\ held = Row(played, End)
    BY QueueIsRow DEF IsRow
<1>2. clean' => /\ played' \in Nat /\ End' \in Nat /\ played' <= End'
                /\ End' - played' <= NUM_DESC /\ held' = Row(played', End')
  <2>1. IndInv' => IsRow'
    BY QueueIsRow, PTL
  <2> QED
    BY <2>1 DEF IsRow
<1>3. clean \in BOOLEAN /\ clean' \in BOOLEAN
    BY DEF IndInv, TypeOK
<1> HIDE DEF held
<1>4. CASE ~clean /\ ~clean'
    BY <1>3, <1>4 DEF Queue!vars
<1>5. CASE clean /\ ~clean'
    BY <1>3, <1>5 DEF Queue!Next, Queue!End, Queue!Nothing
<1>6. CASE clean' /\ ~clean
  <2>1. played' = 0 /\ End' = 0
    BY <1>6, QueueCounts
  <2>2. held' = <<>>
    BY <1>2, <1>6, <2>1, RowGrows
  <2> QED
    BY <1>3, <1>6, <2>1, <2>2 DEF Queue!Next, Queue!Begin, held
<1>7. CASE clean /\ clean' /\ played' = played /\ End' = End + 1
  <2>1. Len(held) < NUM_DESC
    <3>1. NUM_DESC \in Nat /\ End - played < NUM_DESC
      BY <1>1, <1>2, <1>7, SizeAssumption
    <3> QED
      BY <1>1, <1>7, <3>1, RowGrows
  <2>2. held' = Append(held, End)
    BY <1>1, <1>2, <1>7, RowGrows
  <2> QED
    BY <1>3, <1>7, <2>1, <2>2 DEF Queue!Next, Queue!Put, held
<1>8. CASE clean /\ clean' /\ played' = played + 1 /\ End' = End
  <2>1. played < End
    BY <1>1, <1>2, <1>8
  <2>2. held # <<>> /\ Head(held) = played /\ held' = Tail(held)
    BY <1>1, <1>2, <1>8, <2>1, RowShrinks
  <2> QED
    BY <1>3, <1>8, <2>2 DEF Queue!Next, Queue!Take, held
<1>9. CASE clean /\ clean' /\ played' = played /\ End' = End
    BY <1>1, <1>2, <1>3, <1>9 DEF Queue!vars, held
<1> QED
    BY <1>3, <1>4, <1>5, <1>6, <1>7, <1>8, <1>9, QueueCounts

(* Playback is a bounded queue, for every size of the ring: the process    *)
(* puts chunks in, the engine takes them out in their order, and nothing   *)
(* either does is anything else to the queue.                              *)
THEOREM IsAQueue == Spec => ImplementsQueue
<1>1. IndInv /\ IndInv' /\ [Next]_vars => [Queue!Next]_(Queue!vars)
    BY QueueStep
<1>2. Spec => Queue!Init /\ [][Queue!Next]_(Queue!vars)
    BY <1>1, QueueInit, InductiveInvariant, PTL DEF Spec
<1> QED
    BY <1>2 DEF ImplementsQueue, Queue!Spec
=============================================================================
