----------------------- MODULE DuplexSessions_proofs -----------------------
(***************************************************************************)
(* Who may use the rings of ar7240_i2s.c: the proofs of DuplexSessions,    *)
(* for any number of files and any modes they may be opened in.            *)
(***************************************************************************)
EXTENDS DuplexSessions, FiniteSetTheorems, TLAPS

(* A file of a clean session has one direction, and no other file has it.  *)
OneWay ==
  \A f \in Files : f_mode[f] \in {{}, {"capture"}, {"playback"}}

NoneShares ==
  \A s \in Sides : \A f, g \in Files : s \in f_mode[f] /\ s \in f_mode[g] => f = g

(* What is marked as open is what a file has, and this has its memory.     *)
MarkedOpen ==
  \A s \in Sides : opened[s] # 0 <=> \E f \in Files : s \in f_mode[f]

HasMemory ==
  \A s \in Sides : opened[s] # 0 <=> (ring[s] = "live" /\ buf[s] = "live")

NoRing == \A s \in Sides : opened[s] = 0 => ring[s] # "live"

AimsAtRing == \A s \in Sides : opened[s] = 2 => aim[s] = "ring"

CleanInv ==
  OneWay /\ NoneShares /\ MarkedOpen /\ HasMemory /\ NoRing /\ AimsAtRing
    /\ ~strayed /\ ~twice

SessionsInv == TypeOK /\ (clean => CleanInv)

(* In the initial state no file is open.                                   *)
LEMMA SessionsInit == Init => SessionsInv
<1> SUFFICES ASSUME Init PROVE SessionsInv
  OBVIOUS
<1>1. TypeOK
  <2>1. f_mode \in [Files -> Modes \cup {{}}]
    BY DEF Init
  <2>2. opened \in [Sides -> 0 .. 2] /\ running \in [Sides -> BOOLEAN]
    BY DEF Init
  <2>3. ring \in [Sides -> Memory] /\ buf \in [Sides -> Memory]
    BY DEF Init, Memory
  <2>4. aim \in [Sides -> {"ring", "gone"}] /\ strayed \in BOOLEAN
          /\ twice \in BOOLEAN /\ clean \in BOOLEAN
    BY DEF Init
  <2> QED BY <2>1, <2>2, <2>3, <2>4 DEF TypeOK
<1>2. CleanInv
  BY DEF Init, CleanInv, OneWay, NoneShares, MarkedOpen, HasMemory, NoRing, AimsAtRing
<1> QED BY <1>1, <1>2 DEF SessionsInv

(* The side of a mode is a direction it has.                               *)
LEMMA SideIsOfMode ==
  ASSUME NEW mode \in SUBSET Sides
  PROVE  SideOf(mode) \in Sides /\ (mode # {} => SideOf(mode) \in mode)
BY DEF SideOf, Sides

(* Every step leaves the variables with their types.                       *)
LEMMA TypeStep == TypeOK /\ [Next]_vars => TypeOK'
<1> SUFFICES ASSUME TypeOK, [Next]_vars PROVE TypeOK'
  OBVIOUS
<1> USE DuplexAssumption DEF TypeOK, Memory
<1>0. \A f \in Files : f_mode[f] \in SUBSET Sides
  OBVIOUS
<1>1. CASE UNCHANGED vars
  BY <1>1 DEF vars
<1>2. ASSUME NEW f \in Files, ar7240_i2s_open(f)
      PROVE  TypeOK'
  <2>1. PICK mode \in Modes, outcome \in InitOutcomes :
          /\ ar7240_i2s_init(SideOf(mode), outcome)
          /\ f_mode' = IF outcome = "no_desc" THEN f_mode ELSE [f_mode EXCEPT ![f] = mode]
          /\ clean' = (clean /\ outcome = "ok" /\ Cardinality(mode) = 1)
    BY <1>2 DEF ar7240_i2s_open
  <2>2. UNCHANGED <<running, strayed>>
    BY <1>2 DEF ar7240_i2s_open
  <2>3. SideOf(mode) \in Sides
    BY SideIsOfMode
  <2>4. CASE outcome = "ok"
    <3>1. /\ opened' = [opened EXCEPT ![SideOf(mode)] = 1]
          /\ ring' = [ring EXCEPT ![SideOf(mode)] = "live"]
          /\ buf' = [buf EXCEPT ![SideOf(mode)] = "live"]
          /\ \E where \in {"ring", "gone"} : aim' = [aim EXCEPT ![SideOf(mode)] = where]
          /\ UNCHANGED twice
      BY <2>1, <2>4 DEF ar7240_i2s_init
    <3> QED BY <2>1, <2>2, <2>3, <3>1
  <2>5. CASE outcome = "no_desc"
    <3>1. /\ opened' = [opened EXCEPT ![SideOf(mode)] = 1]
          /\ ring' = [ring EXCEPT ![SideOf(mode)] = "none"]
          /\ UNCHANGED <<buf, aim, twice>>
      BY <2>1, <2>5 DEF ar7240_i2s_init
    <3> QED BY <2>1, <2>2, <2>3, <3>1
  <2>6. CASE outcome = "no_buf"
    <3>1. /\ opened' = [opened EXCEPT ![SideOf(mode)] = 1]
          /\ ring' = [ring EXCEPT ![SideOf(mode)] = "freed"]
          /\ twice' \in BOOLEAN
          /\ UNCHANGED <<buf, aim>>
      BY <2>1, <2>6 DEF ar7240_i2s_init
    <3> QED BY <2>1, <2>2, <2>3, <3>1
  <2> QED BY <2>4, <2>5, <2>6
<1>3. ASSUME NEW f \in Files, NEW s \in Sides, Transfer(f, s)
      PROVE  TypeOK'
  BY <1>3 DEF Transfer, Uses, ar7240_i2sound_dma_desc, ar7240_i2sound_dma_go
<1>4. ASSUME NEW f \in Files, ar7240_i2s_ioctl(f)
      PROVE  TypeOK'
  <2>1. running' \in [Sides -> BOOLEAN]
    BY <1>4 DEF ar7240_i2s_ioctl, ar7240_i2sound_dma_go
  <2>2. strayed' \in BOOLEAN /\ UNCHANGED <<f_mode, opened, ring, buf, aim, twice, clean>>
    BY <1>4 DEF ar7240_i2s_ioctl, Uses
  <2> QED BY <2>1, <2>2
<1>5. ASSUME NEW f \in Files, ar7240_i2s_close(f)
      PROVE  TypeOK'
  BY <1>0, <1>5, SideIsOfMode DEF ar7240_i2s_close, Uses, mark_closed
<1>6. ASSUME NEW s \in Sides, DmaStall(s)
      PROVE  TypeOK'
  BY <1>6 DEF DmaStall
<1> QED
  BY <1>1, <1>2, <1>3, <1>4, <1>5, <1>6 DEF Next, ar7240_i2s_read, ar9100_i2s_write, Sides

(* A session that stays clean is opened one way, with memory, on a         *)
(* direction that nobody has.                                              *)
LEMMA OpenStep ==
  ASSUME TypeOK, CleanInv, NEW f \in Files, ar7240_i2s_open(f), clean'
  PROVE  CleanInv'
<1> USE DEF CleanInv, TypeOK
<1>1. PICK mode \in Modes, outcome \in InitOutcomes :
        /\ f_mode[f] = {}
        /\ ~Busy(mode)
        /\ ar7240_i2s_init(SideOf(mode), outcome)
        /\ f_mode' = IF outcome = "no_desc" THEN f_mode ELSE [f_mode EXCEPT ![f] = mode]
        /\ clean' = (clean /\ outcome = "ok" /\ Cardinality(mode) = 1)
        /\ UNCHANGED <<running, strayed>>
  BY DEF ar7240_i2s_open
<1>2. outcome = "ok" /\ Cardinality(mode) = 1
  BY <1>1
<1>3. PICK s \in Sides : mode = {s}
  <2>1. IsFiniteSet(mode) /\ mode \subseteq Sides
    <3>1. IsFiniteSet({"capture"} \cup {"playback"})
      BY FS_Singleton, FS_Union
    <3> QED BY <3>1, DuplexAssumption, FS_Subset DEF Sides
  <2> QED BY <1>2, <2>1, FS_Singleton
<1>4. SideOf(mode) = s
  BY <1>3 DEF SideOf, Sides
<1>5. opened[s] = 0
  BY <1>1, <1>3 DEF Busy
<1>6. /\ opened' = [opened EXCEPT ![s] = 1]
      /\ ring' = [ring EXCEPT ![s] = "live"]
      /\ buf' = [buf EXCEPT ![s] = "live"]
      /\ \E where \in {"ring", "gone"} : aim' = [aim EXCEPT ![s] = where]
      /\ UNCHANGED twice
      /\ f_mode' = [f_mode EXCEPT ![f] = {s}]
  BY <1>1, <1>2, <1>3, <1>4 DEF ar7240_i2s_init
<1>7. \A g \in Files : s \notin f_mode[g]
  BY <1>5 DEF MarkedOpen
<1>8. OneWay'
  BY <1>6 DEF OneWay, Sides
<1>9. NoneShares'
  BY <1>6, <1>7 DEF NoneShares
<1>10. MarkedOpen'
  <2>1. ASSUME NEW t \in Sides
        PROVE  opened'[t] # 0 <=> \E g \in Files : t \in f_mode'[g]
    <3>1. CASE t = s
      BY <1>6, <3>1
    <3>2. CASE t # s
      BY <1>1, <1>6, <3>2 DEF MarkedOpen
    <3> QED BY <3>1, <3>2
  <2> QED BY <2>1 DEF MarkedOpen
<1>11. HasMemory' /\ NoRing'
  BY <1>6 DEF HasMemory, NoRing
<1>12. AimsAtRing'
  BY <1>6 DEF AimsAtRing
<1> QED BY <1>1, <1>6, <1>8, <1>9, <1>10, <1>11, <1>12

(* A transfer finds a live ring, and the first one aims the engine at it.  *)
LEMMA TransferStep ==
  ASSUME TypeOK, CleanInv, NEW f \in Files, NEW s \in Sides, Transfer(f, s)
  PROVE  CleanInv'
<1> USE DEF CleanInv, TypeOK
<1>1. /\ s \in f_mode[f]
      /\ opened' = [opened EXCEPT ![s] = 2]
      /\ strayed' = (strayed \/ ring[s] # "live")
      /\ IF opened[s] < 2
           THEN aim' = [aim EXCEPT ![s] = IF ring[s] = "live" THEN "ring" ELSE "gone"]
           ELSE aim' = aim
      /\ UNCHANGED <<f_mode, ring, buf, twice>>
  BY DEF Transfer, Uses, ar7240_i2sound_dma_desc
<1>2. opened[s] # 0
  BY <1>1 DEF MarkedOpen
<1>3. ring[s] = "live"
  BY <1>2 DEF HasMemory
<1>4. OneWay' /\ NoneShares'
  BY <1>1 DEF OneWay, NoneShares
<1>5. MarkedOpen' /\ HasMemory' /\ NoRing'
  BY <1>1, <1>2, <1>3 DEF MarkedOpen, HasMemory, NoRing
<1>6. AimsAtRing'
  <2>1. ASSUME NEW t \in Sides, opened'[t] = 2
        PROVE  aim'[t] = "ring"
    BY <1>1, <1>3, <2>1 DEF AimsAtRing
  <2> QED BY <2>1 DEF AimsAtRing
<1> QED BY <1>1, <1>3, <1>4, <1>5, <1>6

(* So does an ioctl(), and it changes only whether the engine runs.        *)
LEMMA IoctlStep ==
  ASSUME TypeOK, CleanInv, NEW f \in Files, ar7240_i2s_ioctl(f)
  PROVE  CleanInv'
<1> USE DEF CleanInv, TypeOK
<1> DEFINE s == SideOf(f_mode[f])
<1>1. /\ f_mode[f] # {}
      /\ strayed' = (strayed \/ ring[s] # "live")
      /\ UNCHANGED <<f_mode, opened, ring, buf, aim, twice>>
  BY DEF ar7240_i2s_ioctl, Uses
<1>2. s \in Sides /\ s \in f_mode[f]
  BY <1>1 DEF OneWay, SideOf, Sides
<1>3. ring[s] = "live"
  <2>1. opened[s] # 0
    BY <1>2 DEF MarkedOpen
  <2> QED BY <1>2, <2>1 DEF HasMemory
<1> QED BY <1>1, <1>3 DEF OneWay, NoneShares, MarkedOpen, HasMemory, NoRing, AimsAtRing

(* close() frees the memory of the only file that has it.                  *)
LEMMA CloseStep ==
  ASSUME TypeOK, CleanInv, NEW f \in Files, ar7240_i2s_close(f)
  PROVE  CleanInv'
<1> USE DEF CleanInv, TypeOK
<1>1. PICK s : s = SideOf(f_mode[f])
  OBVIOUS
<1>2. /\ f_mode[f] # {}
      /\ f_mode' = [f_mode EXCEPT ![f] = {}]
      /\ strayed' = (strayed \/ ring[s] # "live")
      /\ twice' = (twice \/ buf[s] = "freed")
      /\ ring' = [ring EXCEPT ![s] = "freed"]
      /\ buf' = [buf EXCEPT ![s] = "freed"]
      /\ aim' = [aim EXCEPT ![s] = "gone"]
      /\ opened' = [opened EXCEPT ![s] = 0]
  BY <1>1 DEF ar7240_i2s_close, Uses, mark_closed
<1>3. s \in Sides /\ f_mode[f] = {s}
  BY <1>1, <1>2 DEF OneWay, SideOf, Sides
<1>4. ring[s] = "live" /\ buf[s] = "live"
  <2>1. opened[s] # 0
    BY <1>3 DEF MarkedOpen
  <2> QED BY <1>3, <2>1 DEF HasMemory
<1>5. OneWay' /\ NoneShares'
  BY <1>2 DEF OneWay, NoneShares
<1>6. MarkedOpen'
  <2>1. ASSUME NEW t \in Sides
        PROVE  opened'[t] # 0 <=> \E g \in Files : t \in f_mode'[g]
    <3>1. CASE t = s
      <4>1. \A g \in Files : t \notin f_mode'[g]
        BY <1>2, <1>3, <3>1 DEF NoneShares
      <4> QED BY <1>2, <1>3, <3>1, <4>1
    <3>2. CASE t # s
      BY <1>2, <1>3, <3>2 DEF MarkedOpen
    <3> QED BY <3>1, <3>2
  <2> QED BY <2>1 DEF MarkedOpen
<1>7. HasMemory' /\ NoRing'
  BY <1>2, <1>3 DEF HasMemory, NoRing
<1>8. AimsAtRing'
  BY <1>2, <1>3 DEF AimsAtRing
<1> QED BY <1>2, <1>4, <1>5, <1>6, <1>7, <1>8

(* Every step keeps the invariant.                                         *)
LEMMA SessionsStep == SessionsInv /\ [Next]_vars => SessionsInv'
<1> SUFFICES ASSUME SessionsInv, [Next]_vars PROVE SessionsInv'
  OBVIOUS
<1>1. TypeOK /\ TypeOK'
  BY TypeStep DEF SessionsInv
<1>2. clean' => CleanInv'
  <2> SUFFICES ASSUME clean' PROVE CleanInv'
    OBVIOUS
  <2>1. clean
    <3>1. CASE UNCHANGED vars
      BY <3>1 DEF vars
    <3>2. CASE Next
      BY <1>1, <3>2 DEF Next, ar7240_i2s_open, ar7240_i2s_read, ar9100_i2s_write, Transfer,
        ar7240_i2s_ioctl, ar7240_i2s_close, DmaStall
    <3> QED BY <3>1, <3>2
  <2>2. CleanInv
    BY <2>1 DEF SessionsInv
  <2>3. CASE UNCHANGED vars
    BY <2>2, <2>3 DEF vars, CleanInv, OneWay, NoneShares, MarkedOpen, HasMemory, NoRing, AimsAtRing
  <2>4. ASSUME NEW f \in Files, ar7240_i2s_open(f)
        PROVE  CleanInv'
    BY <1>1, <2>2, <2>4, OpenStep
  <2>5. ASSUME NEW f \in Files, NEW s \in Sides, Transfer(f, s)
        PROVE  CleanInv'
    BY <1>1, <2>2, <2>5, TransferStep
  <2>6. ASSUME NEW f \in Files, ar7240_i2s_ioctl(f)
        PROVE  CleanInv'
    BY <1>1, <2>2, <2>6, IoctlStep
  <2>7. ASSUME NEW f \in Files, ar7240_i2s_close(f)
        PROVE  CleanInv'
    BY <1>1, <2>2, <2>7, CloseStep
  <2>8. ASSUME NEW s \in Sides, DmaStall(s)
        PROVE  CleanInv'
    BY <2>2, <2>8 DEF DmaStall, CleanInv, OneWay, NoneShares, MarkedOpen, HasMemory,
      NoRing, AimsAtRing
  <2> QED
    BY <2>3, <2>4, <2>5, <2>6, <2>7, <2>8 DEF Next, ar7240_i2s_read, ar9100_i2s_write, Sides
<1> QED BY <1>1, <1>2 DEF SessionsInv

(* So it holds of the driver: the parts say who has opened what, and what   *)
(* memory ar7240_i2s_open() has given and ar7240_i2s_close() has taken.    *)
THEOREM SessionsInvariant == Spec => []SessionsInv
BY SessionsInit, SessionsStep, PTL DEF Spec

(* OpenInv: as long as every file was opened one way and there was memory  *)
(* for it, a direction has one file at most, and ropened and popened say   *)
(* whether it has, for any number of files.                                *)
THEOREM OneFilePerSide == Spec => []OpenInv
<1>1. SessionsInv => OpenInv
  <2> SUFFICES ASSUME SessionsInv, clean, NEW s \in Sides
               PROVE  Cardinality(Users(s)) <= 1 /\ (opened[s] # 0 <=> Users(s) # {})
    BY DEF SessionsInv, OpenInv, OneFileEach
  <2>1. opened[s] # 0 <=> Users(s) # {}
    BY DEF SessionsInv, CleanInv, MarkedOpen, Users
  <2>2. CASE Users(s) = {}
    BY <2>1, <2>2, FS_EmptySet
  <2>3. CASE Users(s) # {}
    <3>1. PICK f : Users(s) = {f}
      BY <2>3 DEF SessionsInv, CleanInv, NoneShares, Users
    <3> QED BY <2>1, <3>1, FS_Singleton
  <2> QED BY <2>2, <2>3
<1> QED BY <1>1, SessionsInvariant, PTL

(* OnlyLiveRings: ar7240_i2s_close() frees what is there, once, and nobody *)
(* uses descriptors that are not of a live ring, in whatever order the     *)
(* files of the two directions are opened and closed.                      *)
THEOREM RingsAreLive == Spec => []OnlyLiveRings
<1>1. SessionsInv => OnlyLiveRings
  BY DEF SessionsInv, CleanInv, OnlyLiveRings, MarkedOpen, HasMemory, NoRing, Users
<1> QED BY <1>1, SessionsInvariant, PTL

(* StartsInRing: the engine of a direction that was used runs in its ring, *)
(* not where an earlier session left it.                                   *)
THEOREM EngineInRing == Spec => []StartsInRing
<1>1. SessionsInv => StartsInRing
  BY DEF SessionsInv, CleanInv, StartsInRing, AimsAtRing
<1> QED BY <1>1, SessionsInvariant, PTL
=============================================================================
