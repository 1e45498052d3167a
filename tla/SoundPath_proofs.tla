-------------------------- MODULE SoundPath_proofs --------------------------
(***************************************************************************)
(* Proofs about three parts that meet in the hardware of the board: the    *)
(* player and recorder (Athplay), which feed the device or empty it, the   *)
(* three lines to the codec (Wm8978), and the settings of the drivers with *)
(* their mixer (DriverSettings).  The modules have no variable in common;  *)
(* each theorem is of the specification of one of them.                    *)
(***************************************************************************)
EXTENDS DriverSettings, Athplay, Wm8978, TLAPS
-----------------------------------------------------------------------------
(***************************************************************************)
(* athplay.  SongInv, which says how the counters of the song and of the   *)
(* buffer hang together, is preserved by every step; a step of the player  *)
(* changes nothing the recorder's part of it speaks of, and vice versa.    *)
(***************************************************************************)
(* The tuples of variables are their elements, down to HIDE.               *)
USE DEF athplay_vars, playing, recording, history

LEMMA SongInit == ASSUME AthplayInit PROVE SongInv
<1>1. AthplayTypeOK
  <2>1. {again, resent, stray, short, broken} \subseteq BOOLEAN
    BY DEF AthplayInit
  <2> QED
    BY <2>1, AthplayAssumption DEF AthplayInit, playwav, record, AthplayTypeOK
<1>2. PlayerLoop /\ PlayerSends /\ RecorderLoop
  BY AthplayAssumption
  DEF AthplayInit, playwav, record, PlayerLoop, PlayerSends, RecorderLoop,
      InWrite, Ahead, Miscounts
<1>3. PlayerReads
  BY AthplayAssumption DEF AthplayInit, playwav, PlayerReads, InWrite, Least
<1> QED BY <1>1, <1>2, <1>3 DEF SongInv

LEMMA ReadFileKeeps ==
  ASSUME SongInv, ReadFile
  PROVE  SongInv'
<1>0. /\ ~recorder /\ player_pc = "read"
      /\ UNCHANGED <<recorder, FileSize, i, ret, errno, closes, signals, recording>>
  BY DEF ReadFile
<1> DEFINE most == Least(Wanted, FileSize - pos)
<1>1. CASE /\ i > data_length \/ most = 0
           /\ player_pc' = "close"
           /\ UNCHANGED <<playing, history>>
  BY <1>0, <1>1, AthplayAssumption
  DEF Wanted, SongInv, AthplayTypeOK, PlayerLoop, PlayerSends,
      PlayerReads, RecorderLoop, InWrite, Ahead, Least, Miscounts
<1>2. CASE /\ i <= data_length
           /\ \E got \in 1 .. most :
                /\ player_pc' = "write"
                /\ count' = got /\ tmpcount' = got /\ data' = 0
                /\ pos' = pos + got
                /\ short' = (short \/ got < most)
           /\ back' = 0 /\ again' = FALSE /\ resent' = FALSE
           /\ UNCHANGED <<next, stray>>
  <2>1. PICK got \in 1 .. most :
          /\ player_pc' = "write"
          /\ count' = got /\ tmpcount' = got /\ data' = 0
          /\ pos' = pos + got
          /\ short' = (short \/ got < most)
    BY <1>2
  <2>2. /\ back' = 0 /\ again' = FALSE /\ resent' = FALSE
        /\ next' = next /\ stray' = stray
    BY <1>2
  <2>3. /\ most \in Int /\ most <= bufsz /\ most <= data_length - i
        /\ most <= FileSize - pos
        /\ most = bufsz \/ most = data_length - i \/ most = FileSize - pos
    BY <1>2, <1>0, AthplayAssumption DEF SongInv, AthplayTypeOK, Wanted, Least
  <2> HIDE DEF most
  <2>4. AthplayTypeOK'
    <3>1. short' \in BOOLEAN
      BY <2>1
    <3>2. {again', resent', stray', short', broken'} \subseteq BOOLEAN
      BY <1>0, <2>2, <3>1 DEF SongInv, AthplayTypeOK
    <3>3. /\ pos' \in 0 .. FileSize' /\ count' \in 0 .. bufsz
          /\ tmpcount' \in 0 .. bufsz + MaxBack /\ data' \in (- MaxBack) .. bufsz
          /\ back' \in 0 .. MaxBack
      BY <1>0, <1>2, <2>1, <2>2, <2>3, AthplayAssumption
      DEF SongInv, AthplayTypeOK
    <3> QED BY <1>0, <2>1, <2>2, <3>2, <3>3 DEF SongInv, AthplayTypeOK
  <2>5. PlayerLoop' /\ RecorderLoop'
    BY <1>0, <1>2, <2>1, <2>2, <2>3, AthplayAssumption
    DEF SongInv, AthplayTypeOK, PlayerLoop, RecorderLoop, InWrite
  <2>6. PlayerSends'
    BY <1>0, <1>2, <2>1, <2>2, <2>3, AthplayAssumption
    DEF SongInv, AthplayTypeOK, PlayerLoop, PlayerSends, InWrite, Ahead,
        Miscounts
  <2>7. PlayerReads'
    <3> SUFFICES ASSUME ~short'
                 PROVE  pos' = Least(Least(i + bufsz, data_length), FileSize)
      BY <1>0, <2>1 DEF PlayerReads, InWrite, Least
    <3>0. ~short /\ ~(got < most)
      BY <2>1, Zenon
    <3>1. got = most
      BY <3>0, <2>1, <2>3
    <3>2. pos = Least(Least(i, data_length), FileSize)
      BY <3>0, <1>0 DEF SongInv, PlayerReads
    <3>3. pos \in Int /\ i \in Int /\ FileSize \in Int /\ data_length \in Int /\ bufsz \in Int
      BY AthplayAssumption DEF SongInv, AthplayTypeOK
    <3>4. pos = i
      BY <3>1, <3>2, <3>3, <1>2, <2>1, <2>3 DEF Least
    <3> QED BY <3>1, <3>3, <3>4, <1>2, <2>1, <2>3 DEF Least
  <2> QED BY <2>4, <2>5, <2>6, <2>7 DEF SongInv
<1>3. CASE /\ player_pc' = "close"
           /\ short' = TRUE
           /\ UNCHANGED <<playing, back, again, resent, next, stray>>
  BY <1>0, <1>3, AthplayAssumption
  DEF SongInv, AthplayTypeOK, PlayerLoop, PlayerSends, PlayerReads,
      RecorderLoop, InWrite, Ahead, Miscounts
<1> QED BY <1>1, <1>2, <1>3 DEF ReadFile

(* What a write() of n units, or of a part of n before it fails, does to   *)
(* the account of what was sent.                                           *)
LEMMA SentKeeps ==
  ASSUME SongInv, ~recorder, player_pc = "write",
         NEW n \in 1 .. tmpcount, Sent(n)
  PROVE  /\ next' \in Nat /\ next <= next' /\ next' <= pos
         /\ Ahead + n <= next'
         /\ resent' \in BOOLEAN /\ stray' = FALSE
         /\ resent' => again
         /\ ~again => next' = Ahead + n
<1>1. /\ pos \in Int /\ count \in Int /\ data \in Int /\ next \in Int /\ n \in Int
      /\ Ahead = (pos - count) + data
      /\ next >= 0 /\ next <= pos /\ pos - count <= next /\ Ahead <= next
      /\ data + n <= count
      /\ resent \in BOOLEAN /\ stray = FALSE /\ again \in BOOLEAN
  BY AthplayAssumption
  DEF Ahead, SongInv, AthplayTypeOK, PlayerLoop, PlayerSends, InWrite
<1>2. ~again => ~resent /\ data >= 0 /\ next = Ahead
  BY DEF SongInv, AthplayTypeOK, PlayerSends, Miscounts
<1> DEFINE first == pos - count
           from  == IF data < 0 THEN first ELSE first + data
           to    == first + data + n
<1>3. /\ next' = IF to > next THEN to ELSE next
      /\ resent' = (resent \/ (from < to /\ from < next))
      /\ stray' = (stray \/ data + n > count \/ from > next)
  BY DEF Sent
<1>4. to = Ahead + n /\ to <= pos /\ from <= next /\ from \in Int /\ to \in Int
  BY <1>1
<1>5. ~again => ~(from < next)
  BY <1>1, <1>2
<1>6. /\ next' \in Nat /\ next <= next' /\ next' <= pos /\ Ahead + n <= next'
      /\ ~again => next' = Ahead + n
  BY <1>1, <1>2, <1>3, <1>4
<1>7. ~(data + n > count) /\ ~(from > next)
  BY <1>1, <1>4
<1> HIDE DEF from, to
<1>8. resent' \in BOOLEAN /\ stray' = FALSE
  BY <1>1, <1>3, <1>7
<1>9. resent' => again
  BY <1>1, <1>2, <1>3, <1>5
<1> QED BY <1>6, <1>8, <1>9

LEMMA WriteDeviceKeeps ==
  ASSUME SongInv, WriteDevice
  PROVE  SongInv'
<1>1. /\ ~recorder /\ player_pc = "write" /\ player_pc' = "test"
      /\ UNCHANGED <<recorder, FileSize, i, closes, signals, playing,
           recording, back, again, short>>
  BY DEF WriteDevice
<1>2. PlayerReads' /\ RecorderLoop'
  BY <1>1 DEF SongInv, PlayerReads, RecorderLoop, InWrite
<1>3. ASSUME NEW n \in 1 .. tmpcount, ret' = n, Sent(n), errno' = errno
      PROVE  SongInv'
  <2>1. Ahead' = Ahead + n
    BY <1>1, <1>3, AthplayAssumption DEF Ahead, SongInv, AthplayTypeOK
  <2>2. /\ next' \in Nat /\ next <= next' /\ next' <= pos
        /\ Ahead + n <= next'
        /\ resent' \in BOOLEAN /\ stray' = FALSE
        /\ resent' => again
        /\ ~again => next' = Ahead + n
    BY <1>1, <1>3, SentKeeps
  <2>3. /\ next' \in 0 .. FileSize /\ pos' = pos /\ count' = count
        /\ pos - count <= next'
    BY <1>1, <2>2, AthplayAssumption DEF SongInv, AthplayTypeOK, PlayerSends
  <2>4. {again', resent', stray', short', broken'} \subseteq BOOLEAN
    BY <1>1, <2>2 DEF SongInv, AthplayTypeOK
  <2>5. ret' \in (-1) .. bufsz + MaxBack /\ ret' > 0
    BY <1>3, AthplayAssumption DEF SongInv, AthplayTypeOK
  <2>6. AthplayTypeOK'
    BY <1>1, <1>3, <2>3, <2>4, <2>5 DEF SongInv, AthplayTypeOK
  <2>7. PlayerLoop'
    BY <1>1, <1>3, AthplayAssumption
    DEF SongInv, AthplayTypeOK, PlayerLoop, InWrite
  <2>8. PlayerSends'
    BY <1>1, <1>3, <2>1, <2>2, <2>3, <2>5
    DEF SongInv, PlayerSends, InWrite, Miscounts
  <2> QED BY <1>2, <2>6, <2>7, <2>8 DEF SongInv
<1>4. ASSUME ret' = -1, errno' \in {"EAGAIN", "other"},
             errno' = "other" => back < MaxBack,
             \/ UNCHANGED <<resent, next, stray>>
             \/ errno' = "other" /\ \E n \in 1 .. tmpcount - 1 : Sent(n)
      PROVE  SongInv'
  <2>1. Ahead' = Ahead /\ Ahead \in Int
    BY <1>1, <1>4, AthplayAssumption DEF Ahead, SongInv, AthplayTypeOK
  <2>2. /\ next' \in Nat /\ next' <= pos /\ pos - count <= next' /\ Ahead <= next'
        /\ resent' \in BOOLEAN /\ stray' = FALSE
        /\ resent' => again
        /\ ~again => data >= 0 /\ (errno' = "other" \/ next' = Ahead)
    <3>1. CASE UNCHANGED <<resent, next, stray>>
      BY <1>1, <3>1, AthplayAssumption
      DEF SongInv, AthplayTypeOK, PlayerSends, Miscounts
    <3>2. CASE errno' = "other" /\ \E n \in 1 .. tmpcount - 1 : Sent(n)
      <4>1. PICK n \in 1 .. tmpcount - 1 : Sent(n)
        BY <3>2
      <4>2. n \in 1 .. tmpcount /\ n \in Nat
        BY AthplayAssumption DEF SongInv, AthplayTypeOK
      <4>3. /\ pos - count <= next /\ next \in Nat
            /\ pos - count \in Int
            /\ ~again => data >= 0
        BY <1>1, AthplayAssumption DEF SongInv, AthplayTypeOK, PlayerSends
      <4>4. /\ next' \in Nat /\ next <= next' /\ next' <= pos
            /\ Ahead + n <= next'
            /\ resent' \in BOOLEAN /\ stray' = FALSE
            /\ resent' => again
        BY <1>1, <4>1, <4>2, SentKeeps
      <4> QED BY <2>1, <3>2, <4>2, <4>3, <4>4
    <3> QED BY <1>4, <3>1, <3>2
  <2>3. {again', resent', stray', short', broken'} \subseteq BOOLEAN
    BY <1>1, <2>2 DEF SongInv, AthplayTypeOK
  <2>4. next' \in 0 .. FileSize
    BY <1>1, <2>2, AthplayAssumption DEF SongInv, AthplayTypeOK
  <2>5. AthplayTypeOK'
    BY <1>1, <1>4, <2>3, <2>4, AthplayAssumption DEF SongInv, AthplayTypeOK
  <2>6. PlayerLoop'
    BY <1>1, <1>4, AthplayAssumption
    DEF SongInv, AthplayTypeOK, PlayerLoop, InWrite
  <2>7. PlayerSends'
    <3>1. data + back >= 0
      BY <1>1 DEF SongInv, PlayerSends
    <3> QED BY <1>1, <1>4, <2>1, <2>2, <3>1
            DEF PlayerSends, InWrite, Miscounts
  <2> QED BY <1>2, <2>5, <2>6, <2>7 DEF SongInv
<1>5. CASE \E n \in 1 .. tmpcount : ret' = n /\ Sent(n) /\ errno' = errno
  BY <1>3, <1>5
<1>6. CASE ret' = -1 /\ errno' = "EAGAIN" /\ UNCHANGED <<resent, next, stray>>
  BY <1>4, <1>6
<1>7. CASE /\ ret' = -1 /\ errno' = "other" /\ back < MaxBack
           /\ \/ UNCHANGED <<resent, next, stray>>
              \/ \E n \in 1 .. tmpcount - 1 : Sent(n)
  BY <1>4, <1>7
<1> QED BY <1>5, <1>6, <1>7 DEF WriteDevice

LEMMA TestResultKeeps ==
  ASSUME SongInv, TestResult
  PROVE  SongInv'
<1>1. /\ ~recorder /\ player_pc = "test"
      /\ UNCHANGED <<recorder, FileSize, pos, count, ret, errno, closes,
           signals, recording, resent, next, stray, short>>
  BY DEF TestResult, SongInv, RecorderLoop
<1>2. RecorderLoop'
  BY <1>1 DEF RecorderLoop
<1>0. /\ again' \in BOOLEAN
      /\ again => again'
      /\ ~again' => ~again /\ ~(data' < data)
  <2>1. again' = (again \/ data' < data)
    BY DEF TestResult
  <2> QED BY <2>1 DEF SongInv, AthplayTypeOK
<1>3. CASE ret < 0 /\ errno = "EAGAIN"
  <2>1. tmpcount' = count /\ data' = 0 /\ back' = 0 /\ player_pc' = "write" /\ i' = i
    BY <1>3 DEF TestResult, Restart
  <2>2. AthplayTypeOK'
    BY <1>0, <1>1, <2>1, AthplayAssumption DEF SongInv, AthplayTypeOK
  <2>3. PlayerLoop' /\ PlayerReads'
    BY <1>1, <2>1, AthplayAssumption
    DEF SongInv, AthplayTypeOK, PlayerLoop, PlayerReads, InWrite
  <2>4. PlayerSends'
    <3>1. Ahead' = pos - count /\ Ahead = (pos - count) + data
      BY <1>1, <1>3, <2>1, AthplayAssumption
      DEF SongInv, AthplayTypeOK, Ahead
    <3>2. ~again' => next = Ahead'
      BY <1>0, <1>1, <1>3, <2>1, <3>1, AthplayAssumption
      DEF SongInv, AthplayTypeOK, PlayerSends, Miscounts
    <3> QED
      BY <1>0, <1>1, <2>1, <3>1, <3>2, AthplayAssumption
      DEF SongInv, AthplayTypeOK, PlayerSends, InWrite, Miscounts
  <2> QED BY <1>2, <2>2, <2>3, <2>4 DEF SongInv
<1>4. CASE ~(ret < 0 /\ errno = "EAGAIN")
  <2>1. /\ tmpcount' = tmpcount - ret /\ data' = data + ret
        /\ back' = IF ret < 0 THEN back + 1 ELSE back
        /\ \/ tmpcount' # 0 /\ player_pc' = "write" /\ i' = i
           \/ tmpcount' = 0 /\ player_pc' = "read" /\ i' = i + bufsz
    BY <1>4 DEF TestResult, moved_on, data_after
  <2>2. /\ ret = -1 \/ ret \in 1 .. tmpcount
        /\ ret < 0 => back < MaxBack
        /\ data + back >= 0
    BY <1>1, <1>4 DEF SongInv, PlayerSends, PlayerLoop, Miscounts
  <2>3. AthplayTypeOK'
    BY <1>0, <1>1, <2>1, <2>2, AthplayAssumption
    DEF SongInv, AthplayTypeOK, PlayerLoop, InWrite
  <2>4. PlayerLoop'
    BY <1>1, <2>1, AthplayAssumption
    DEF SongInv, AthplayTypeOK, PlayerLoop, InWrite
  <2>5. PlayerReads'
    BY <1>1, <2>1 DEF SongInv, PlayerReads, InWrite
  <2>6. Ahead' = (pos - count) + data + ret
    BY <1>1, <2>1, AthplayAssumption DEF SongInv, AthplayTypeOK, Ahead
  <2>7. PlayerSends'
    <3>1. ~again' => ret > 0 /\ data >= 0 /\ next = Ahead'
      BY <1>0, <1>1, <2>1, <2>2, <2>6, AthplayAssumption
      DEF SongInv, AthplayTypeOK, PlayerSends, Ahead, Miscounts
    <3>2. Ahead' <= next
      BY <1>1, <2>2, <2>6, AthplayAssumption
      DEF SongInv, AthplayTypeOK, PlayerSends, Ahead
    <3>3. tmpcount' = 0 => next = pos
      BY <1>1, <2>1, <2>6, <3>2, AthplayAssumption
      DEF SongInv, AthplayTypeOK, PlayerSends, PlayerLoop, InWrite
    <3> QED
      BY <1>0, <1>1, <2>1, <2>2, <3>1, <3>2, <3>3, AthplayAssumption
      DEF SongInv, AthplayTypeOK, PlayerSends, InWrite, Miscounts
  <2> QED BY <1>2, <2>3, <2>4, <2>5, <2>7 DEF SongInv
<1> QED BY <1>3, <1>4

LEMMA ReadDeviceKeeps ==
  ASSUME SongInv, ReadDevice
  PROVE  SongInv'
<1>1. /\ recorder /\ player_pc = "read" /\ player_pc' = "write"
      /\ UNCHANGED <<recorder, FileSize, i, closes, signals, playing,
           written, history>>
  BY DEF ReadDevice
<1>2. PlayerLoop' /\ PlayerSends' /\ PlayerReads'
  BY <1>1 DEF PlayerLoop, PlayerSends, PlayerReads
<1>3. /\ ret' \in (-1) .. MaxWaiting /\ waiting' \in 0 .. MaxWaiting
      /\ errno' \in {"other", "EAGAIN", "EBADF"} /\ broken' \in BOOLEAN
      /\ ret' >= 0 \/ broken'
      /\ ~broken' => ~broken
  <2>1. CASE /\ ret' \in Reads \cup {0} /\ ret' <= waiting
             /\ errno' \in {errno, "EAGAIN"} /\ broken' = broken
    <3>1. ret' \in 0 .. waiting
      BY <2>1, AthplayAssumption DEF SongInv, AthplayTypeOK
    <3>2. waiting' = waiting - ret' \/ waiting' = waiting
      BY DEF ReadDevice
    <3>0. waiting \in 0 .. MaxWaiting /\ MaxWaiting \in Nat
      BY AthplayAssumption DEF SongInv, AthplayTypeOK
    <3>3. ret' \in (-1) .. MaxWaiting /\ ret' >= 0
      BY <3>0, <3>1
    <3>4. waiting' \in 0 .. MaxWaiting
      BY <3>0, <3>1, <3>2
    <3> QED BY <2>1, <3>3, <3>4 DEF SongInv, AthplayTypeOK
  <2>2. CASE ret' = -1 /\ errno' = "other" /\ broken' = TRUE
    <3>1. waiting' = waiting
      BY <2>2 DEF ReadDevice
    <3> QED BY <2>2, <3>1, AthplayAssumption DEF SongInv, AthplayTypeOK
  <2> QED BY <2>1, <2>2 DEF ReadDevice
<1>5. AthplayTypeOK'
  BY <1>1, <1>3, AthplayAssumption DEF SongInv, AthplayTypeOK
<1>6. RecorderLoop'
  BY <1>1, <1>3 DEF SongInv, RecorderLoop
<1> QED BY <1>2, <1>5, <1>6 DEF SongInv

LEMMA WriteFileKeeps ==
  ASSUME SongInv, WriteFile
  PROVE  SongInv'
<1>1. /\ recorder /\ player_pc = "write"
      /\ UNCHANGED <<recorder, FileSize, ret, closes, signals, playing,
           waiting, history>>
  BY DEF WriteFile
<1>2. PlayerLoop' /\ PlayerSends' /\ PlayerReads'
  BY <1>1 DEF PlayerLoop, PlayerSends, PlayerReads
<1> DEFINE room == FileRoom - written
           fails == ret < 0 \/ (ret > 0 /\ room = 0)
<1>3. CASE fails
  <2>1. /\ player_pc' = "close" /\ broken' = TRUE /\ errno' = "other"
        /\ UNCHANGED <<i, written>>
    BY <1>3 DEF WriteFile
  <2> QED BY <1>1, <1>2, <2>1 DEF SongInv, AthplayTypeOK, RecorderLoop
<1>4. CASE ~fails
  <2>1. /\ written' = IF ret <= room THEN written + ret ELSE FileRoom
        /\ i' = i + ret
        /\ errno' = errno
    BY <1>4 DEF WriteFile, counted
  <2>2. broken' = (broken \/ ret > room)
    BY <1>4 DEF WriteFile
  <2>3. player_pc' = IF i' <= data_length THEN "read" ELSE "close"
    BY <1>4 DEF WriteFile, GoesOn
  <2>4. broken' \in BOOLEAN /\ (~broken' => ~broken /\ ~(ret > room))
    BY <2>2 DEF SongInv, AthplayTypeOK
  <2>5. /\ i \in Nat /\ i <= data_length /\ data_length \in Nat
        /\ ret \in 0 .. MaxWaiting /\ MaxWaiting \in Nat /\ FileRoom \in Nat
        /\ written \in 0 .. i
    BY <1>1, <1>4, AthplayAssumption DEF SongInv, AthplayTypeOK, RecorderLoop
  <2>6. /\ i' \in 0 .. data_length + MaxWaiting /\ written' \in 0 .. i'
        /\ ret <= room => written' = written + ret
    BY <2>1, <2>5
  <2>7. AthplayTypeOK'
    BY <1>1, <2>1, <2>3, <2>4, <2>6 DEF SongInv, AthplayTypeOK
  <2>8. ~broken' => written' = i'
    BY <1>1, <2>1, <2>4, <2>5, <2>6 DEF SongInv, RecorderLoop
  <2>9. RecorderLoop'
    BY <1>1, <2>3, <2>5, <2>6, <2>8 DEF SongInv, RecorderLoop
  <2> QED BY <1>2, <2>7, <2>9 DEF SongInv
<1> QED BY <1>3, <1>4

LEMMA OthersKeepSong ==
  ASSUME SongInv,
         DeviceRecords \/ CloseDevice \/ Signal
  PROVE  SongInv'
<1>1. CASE DeviceRecords
  BY <1>1, AthplayAssumption
  DEF DeviceRecords, SongInv, AthplayTypeOK, PlayerLoop, PlayerSends,
      PlayerReads, RecorderLoop, InWrite, Ahead, Miscounts
<1>2. CASE CloseDevice
  <2>1. /\ player_pc \in {"close", "retest"}
        /\ player_pc' \in {"close", "retest", "done"}
        /\ UNCHANGED <<recorder, FileSize, i, ret, signals, playing,
             recording, history>>
    BY <1>2 DEF CloseDevice
  <2>2. closes' \in 0 .. 3 /\ errno' \in {"other", "EAGAIN", "EBADF"}
    BY <1>2 DEF CloseDevice, Least, errno_of_close,
      SongInv, AthplayTypeOK
  <2>3. AthplayTypeOK'
    BY <2>1, <2>2 DEF SongInv, AthplayTypeOK
  <2>4. Ahead' = Ahead
    BY <2>1 DEF Ahead
  <2>5. PlayerLoop' /\ PlayerSends' /\ PlayerReads' /\ RecorderLoop'
    BY <2>1, <2>4 DEF SongInv, PlayerLoop, PlayerSends, PlayerReads,
      RecorderLoop, InWrite, Miscounts
  <2> QED BY <2>3, <2>5 DEF SongInv
<1>3. CASE Signal
  <2>1. UNCHANGED <<recorder, FileSize, player_pc, i, ret, closes, playing,
          recording, history>>
    BY <1>3 DEF Signal
  <2>2. /\ errno' \in {errno, "other"} /\ signals' = signals + 1
        /\ signals < MaxSignals
        /\ player_pc = "test" /\ errno' # errno => back < MaxBack
    BY <1>3 DEF Signal
  <2>3. AthplayTypeOK'
    BY <2>1, <2>2, AthplayAssumption DEF SongInv, AthplayTypeOK
  <2>4. Ahead' = Ahead
    BY <2>1 DEF Ahead
  <2>5. PlayerLoop' /\ PlayerReads' /\ RecorderLoop'
    BY <2>1 DEF SongInv, PlayerLoop, PlayerReads, RecorderLoop, InWrite
  <2>6. PlayerSends'
    BY <2>1, <2>2, <2>4 DEF SongInv, PlayerSends, InWrite, Miscounts
  <2> QED BY <2>3, <2>5, <2>6 DEF SongInv
<1> QED BY <1>1, <1>2, <1>3

LEMMA SongStep ==
  ASSUME SongInv, [AthplayNext]_athplay_vars
  PROVE  SongInv'
<1>1. CASE AthplayNext
  BY <1>1, ReadFileKeeps, WriteDeviceKeeps, TestResultKeeps, ReadDeviceKeeps,
     WriteFileKeeps, OthersKeepSong DEF AthplayNext, Athplay
<1>2. CASE UNCHANGED athplay_vars
  BY <1>2 DEF SongInv, AthplayTypeOK, PlayerLoop, PlayerSends, PlayerReads,
    RecorderLoop, InWrite, Ahead, Miscounts
<1> QED BY <1>1, <1>2

(* Player and recorder keep SongInv, whatever device, file and signal      *)
(* handlers do.                                                            *)
THEOREM SongInvariant ==
  AthplaySpec => []SongInv
BY SongInit, SongStep, PTL DEF AthplaySpec

(* Nothing behind the audio data of the file is sent (the comment above    *)
(* playwav()'s loop), nothing behind the buffer and no unit before its     *)
(* turn; memory before the buffer at most one unit for each failed write() *)
(* counted as sent since the buffer was begun.                             *)
THEOREM SendsOnlyAudio ==
  AthplaySpec => []OnlyAudio
<1>1. SongInv => OnlyAudio
  BY AthplayAssumption
  DEF SongInv, AthplayTypeOK, OnlyAudio, PlayerLoop, PlayerSends, RecorderLoop
<1> QED BY <1>1, SongInvariant, PTL

(* A unit is sent twice only in a buffer in which a write() failed and the *)
(* player went back in it, and never one of another buffer.                *)
THEOREM SendsOnce ==
  AthplaySpec => []SentOnce
<1>1. SongInv => SentOnce
  BY DEF SongInv, AthplayTypeOK, SentOnce, PlayerSends, RecorderLoop
<1> QED BY <1>1, SongInvariant, PTL

(* When the loop is left all that was read was sent, whatever failures     *)
(* were counted and whatever part of each buffer the device took at a      *)
(* time; and all the file has was read unless a read() of it fell short.   *)
THEOREM SendsTheWholeSong ==
  AthplaySpec => []WholeSong
<1>1. SongInv => WholeSong
  BY DEF SongInv, WholeSong, PlayerSends, PlayerReads, InWrite
<1> QED BY <1>1, SongInvariant, PTL

(* A recording that nothing broke holds what its header announces when the *)
(* recorder ends.                                                          *)
THEOREM RecordsWhatIsAnnounced ==
  AthplaySpec => []AnnouncedIsThere
<1>1. SongInv => AnnouncedIsThere
  BY AthplayAssumption
  DEF SongInv, AthplayTypeOK, AnnouncedIsThere, RecorderLoop
<1> QED BY <1>1, SongInvariant, PTL

(* The counters of athplay keep their ranges, the ones that may go         *)
(* negative (ret, data) included.                                          *)
THEOREM SongTypes ==
  AthplaySpec => []AthplayTypeOK
BY SongInvariant, PTL DEF SongInv

HIDE DEF athplay_vars, playing, recording, history
-----------------------------------------------------------------------------
(***************************************************************************)
(* The codec's lines.  wm8978_write_reg() sends a word c of 16 bits, the   *)
(* highest first, out of val, which it shifts; the codec shifts them into  *)
(* its register.  After i bits, with p = 2^i,                              *)
(*     c * p = 65536 * (the lowest i bits of the codec's register) + val   *)
(* so that after 16 the register is c, whatever it held before.  The proof *)
(* needs no induction over the bits: one bit keeps the equation.           *)
(***************************************************************************)
Powers == {1, 2, 4, 8, 16, 32, 64, 128, 256, 512, 1024, 2048, 4096, 8192, 16384,
           32768}

(* The codec's register s has taken from c what v has lost.                *)
Taken(c, p, s, v) == c * p = 65536 * (s % p) + v

(* A register of 16 bits shifts b in, seen modulo a power of two.          *)
Goes(s, b, x) == ((2 * s + b) % 65536) % (2 * x) = 2 * (s % x) + b

LEMMA ShiftsIn ==
  ASSUME NEW s \in Nat, NEW b \in {0, 1}, NEW p \in Powers
  PROVE  Goes(s, b, p)
<1>1. Goes(s, b, 1) /\ Goes(s, b, 2) /\ Goes(s, b, 4) /\ Goes(s, b, 8)
  BY DEF Goes
<1>2. Goes(s, b, 16) /\ Goes(s, b, 32) /\ Goes(s, b, 64) /\ Goes(s, b, 128)
  BY DEF Goes
<1>3. Goes(s, b, 256) /\ Goes(s, b, 512) /\ Goes(s, b, 1024) /\ Goes(s, b, 2048)
  BY DEF Goes
<1>4. Goes(s, b, 4096) /\ Goes(s, b, 8192) /\ Goes(s, b, 16384) /\ Goes(s, b, 32768)
  BY DEF Goes
<1>5. Goes(s, b, p)
  BY <1>1, <1>2, <1>3, <1>4 DEF Powers
<1> QED BY <1>5

LEMMA HighBitOf ==
  ASSUME NEW v \in Nat, v < 65536
  PROVE  /\ v \div 32768 \in {0, 1}
         /\ 2 * v = 65536 * (v \div 32768) + ((2 * v) % 65536)
OBVIOUS

LEMMA Doubles ==
  ASSUME NEW c \in Int, NEW p \in Int, NEW m \in Int, NEW v \in Int, NEW b \in Int,
         NEW w \in Int, c * p = 65536 * m + v, 2 * v = 65536 * b + w
  PROVE  c * (2 * p) = 65536 * (2 * m + b) + w
<1> DEFINE n == c * p
<1>1. c * (2 * p) = 2 * n /\ n \in Int
  OBVIOUS
<1>2. n = 65536 * m + v
  OBVIOUS
<1> HIDE DEF n
<1> QED BY <1>1, <1>2

Fits(n) == n < 65536
ShiftedIn(s, v) == (2 * s + (v \div 32768)) % 65536
Shifted(v) == (2 * v) % 65536

LEMMA OneBit ==
  ASSUME NEW c \in Nat, NEW s \in Nat, NEW v \in Nat, Fits(v),
         NEW p \in Powers, Taken(c, p, s, v)
  PROVE  Taken(c, 2 * p, ShiftedIn(s, v), Shifted(v))
<1> DEFINE b == v \div 32768
           w == (2 * v) % 65536
<1>1. b \in {0, 1} /\ w \in Int /\ 2 * v = 65536 * b + w
  BY HighBitOf DEF Fits
<1> HIDE DEF b, w
<1>2. Goes(s, b, p)
  BY <1>1, ShiftsIn
<1>3. p \in Nat \ {0}
  BY DEF Powers
<1>4. s % p \in Int
  BY <1>3
<1>5. c * (2 * p) = 65536 * (2 * (s % p) + b) + w
  BY <1>1, <1>3, <1>4, Doubles DEF Taken
<1>6. Taken(c, 2 * p, (2 * s + b) % 65536, w)
  BY <1>2, <1>5 DEF Taken, Goes
<1> QED BY <1>6 DEF b, w, ShiftedIn, Shifted

(* The powers of two, by the number of the bit.                            *)
Power == <<1, 2, 4, 8, 16, 32, 64, 128, 256, 512, 1024, 2048, 4096, 8192, 16384,
           32768, 65536>>

LEMMA PowerSteps ==
  ASSUME NEW n \in 0 .. 15
  PROVE  Power[n + 1] \in Powers /\ Power[n + 2] = 2 * Power[n + 1]
BY DEF Power, Powers

(* The types, and what each call of a write relies on.                     *)
Pins == {"CSB", "SDIN", "SCLK"}
Data == 0 .. 511
Word16 == Control(word)
High == \A pin \in Pins : line[pin] = 1

WireTypes ==
  /\ line \in [Pins -> {0, 1}]
  /\ shift \in Nat /\ shift < 65536
  /\ regs \in [Registers -> Data]
  /\ codec_pc \in {"idle", "head", "bits", "end"}
  /\ bit \in 0 .. 15
  /\ op \in 1 .. 4
  /\ val \in Nat /\ val < 65536
  /\ word = <<>> \/ word \in Registers \X Data
  /\ done \in 0 .. Len(init_wm8978) + MaxWrites

WireCalls ==
  /\ codec_pc = "idle" => word = <<>>
  /\ codec_pc \in {"idle", "head"} /\ done > 0 => High
  /\ codec_pc \in {"head", "bits"} => op <= 3 /\ word # <<>>
  /\ codec_pc = "end" => (word = <<>>) = (op > 2)
  /\ codec_pc # "idle" => done < Len(init_wm8978) + MaxWrites
  /\ codec_pc = "head" =>
       /\ bit = 0 /\ val = Word16
       /\ op > 1 => line["CSB"] = 1
  /\ codec_pc = "bits" =>
       /\ line["CSB"] = 1
       /\ op > 1 => line["SCLK"] = 0
       /\ op = 3 => line["SDIN"] = HighBit
       /\ Taken(Word16, Power[bit + 1], shift, val)
  /\ codec_pc = "end" =>
       /\ line["SCLK"] = 1
       /\ op = 2 => line["CSB"] = 0
       /\ op > 2 => line["CSB"] = 1
       /\ op = 4 => line["SDIN"] = 1
       /\ op <= 2 => shift = Word16

LEMMA ControlWord ==
  ASSUME NEW w \in Registers \X Data
  PROVE  /\ Control(w) \in Nat /\ Control(w) < 65536
         /\ Control(w) < 512 <=> w[1] = 0
         /\ Control(w) \div 512 = w[1] /\ Control(w) % 512 = w[2]
<1>1. w[1] \in Nat /\ w[1] < 128 /\ w[2] \in Nat /\ w[2] < 512
  BY DEF Registers, Data
<1>2. Control(w) = 512 * w[1] + w[2]
  BY <1>1 DEF Control
<1> QED BY <1>1, <1>2

LEMMA Latches ==
  ASSUME NEW s \in Nat, s < 65536
  PROVE  s \div 512 \in Registers /\ s % 512 \in Data
<1>1. s \div 512 \in Nat /\ s \div 512 < 128 /\ s % 512 \in Nat /\ s % 512 < 512
  OBVIOUS
<1> HIDE DEF Registers
<1> QED BY <1>1 DEF Registers, Data

LEMMA LatchTyped ==
  ASSUME WireTypes PROVE Latch \in [Registers -> Data]
<1>1. 0 \in Data
  BY DEF Data
<1>2. shift \div 512 \in Registers /\ shift % 512 \in Data
  BY Latches DEF WireTypes
<1> QED BY <1>1, <1>2 DEF WireTypes, Latch

(* One line is switched.                                                   *)
LEMMA Switched ==
  ASSUME WireTypes, NEW pin \in Pins, NEW to \in {0, 1},
         ar7240_gpio_setpin(pin, to)
  PROVE  /\ line' = [line EXCEPT ![pin] = to]
         /\ line' \in [Pins -> {0, 1}]
         /\ shift' = IF pin = "SCLK" /\ to = 1 /\ line["SCLK"] = 0
                       THEN (2 * shift + line["SDIN"]) % 65536 ELSE shift
         /\ regs' = IF pin = "CSB" /\ to = 1 /\ line["CSB"] = 0
                      THEN Latch ELSE regs
         /\ shift' \in Nat /\ shift' < 65536
         /\ regs' \in [Registers -> Data]
<1> DEFINE new == [line EXCEPT ![pin] = to]
<1>1. line' = new /\ Codec(new)
  BY DEF ar7240_gpio_setpin
<1>2. /\ new \in [Pins -> {0, 1}]
      /\ new[pin] = to
      /\ \A other \in Pins : other # pin => new[other] = line[other]
  BY DEF WireTypes
<1> HIDE DEF new
<1>3. shift' = IF pin = "SCLK" /\ to = 1 /\ line["SCLK"] = 0
                 THEN (2 * shift + line["SDIN"]) % 65536 ELSE shift
  BY <1>1, <1>2 DEF Codec, Rises, Pins, WireTypes
<1>4. regs' = IF pin = "CSB" /\ to = 1 /\ line["CSB"] = 0
                THEN Latch ELSE regs
  BY <1>1, <1>2 DEF Codec, Rises, Pins, WireTypes
<1>5. line["SDIN"] \in {0, 1}
  BY DEF WireTypes, Pins
<1>6. shift' \in Nat /\ shift' < 65536
  BY <1>3, <1>5 DEF WireTypes
<1>7. regs' \in [Registers -> Data]
  BY <1>4, LatchTyped DEF WireTypes
<1> QED BY <1>1, <1>2, <1>3, <1>4, <1>6, <1>7 DEF new

LEMMA WordRange ==
  \A n : n \in 0 .. WordMax <=> n \in Nat /\ n < 65536
<1>1. WordMax \in Nat
  BY DEF WordMax
<1>2. \A n : n \in 0 .. WordMax <=> n \in Nat /\ n <= WordMax
  BY <1>1
<1>3. \A n \in Nat : n <= WordMax <=> n < 65536
  BY DEF WordMax
<1> QED BY <1>2, <1>3

LEMMA InitialWrites ==
  /\ Len(init_wm8978) = 10
  /\ init_wm8978[1] = <<0, 0>>
  /\ \A k \in 1 .. 10 : init_wm8978[k] \in Registers \X Data
<1> DEFINE Typed(k) == init_wm8978[k] \in Registers \X Data
<1>1. Typed(1) /\ Typed(2) /\ Typed(3) /\ Typed(4) /\ Typed(5)
  BY DEF init_wm8978, Registers, Data
<1>2. Typed(6) /\ Typed(7) /\ Typed(8) /\ Typed(9) /\ Typed(10)
  BY DEF init_wm8978, Registers, Data
<1>3. Len(init_wm8978) = 10 /\ init_wm8978[1] = <<0, 0>>
  BY DEF init_wm8978
<1> HIDE DEF Typed
<1>4. \A k \in 1 .. 10 : Typed(k)
  BY <1>1, <1>2
<1> QED BY <1>3, <1>4 DEF Typed

(* The calls of ar7240_gpio_setpin() that wm8978_write_reg() makes.        *)
Call(pin, to, now, pos1, next1, op1) ==
  /\ codec_pc = now /\ op = pos1
  /\ ar7240_gpio_setpin(pin, to)
  /\ codec_pc' = next1 /\ op' = op1

Rest == <<bit, val, word, done>>

TheCalls ==
  \/ Call("CSB", 1, "head", 1, "head", 2) /\ UNCHANGED Rest
  \/ Call("SDIN", 1, "head", 2, "head", 3) /\ UNCHANGED Rest
  \/ Call("SCLK", 1, "head", 3, "bits", 1) /\ UNCHANGED Rest
  \/ Call("SCLK", 0, "bits", 1, "bits", 2) /\ UNCHANGED Rest
  \/ Call("SDIN", HighBit, "bits", 2, "bits", 3) /\ UNCHANGED Rest
  \/ /\ Call("SCLK", 1, "bits", 3, "bits", 1) /\ bit < 15 /\ bit' = bit + 1
     /\ val' = Shl(val) /\ UNCHANGED <<word, done>>
  \/ /\ Call("SCLK", 1, "bits", 3, "end", 1) /\ bit = 15 /\ bit' = bit
     /\ val' = Shl(val) /\ UNCHANGED <<word, done>>
  \/ Call("CSB", 0, "end", 1, "end", 2) /\ UNCHANGED Rest
  \/ Call("CSB", 1, "end", 2, "end", 3) /\ word' = <<>> /\ UNCHANGED <<bit, val, done>>
  \/ Call("SDIN", 1, "end", 3, "end", 4) /\ UNCHANGED Rest
  \/ Call("SCLK", 1, "end", 4, "idle", 1) /\ done' = done + 1 /\ UNCHANGED <<bit, val, word>>

LEMMA Parts ==
  /\ Len(Part["head"]) = 3 /\ Len(Part["bits"]) = 3
  /\ Len(Part["end"]) = 4
  /\ Part["head"][1] = <<"CSB", 1>>
  /\ Part["head"][2] = <<"SDIN", 1>>
  /\ Part["head"][3] = <<"SCLK", 1>>
  /\ Part["bits"][1] = <<"SCLK", 0>>
  /\ Part["bits"][2] = <<"SDIN", HighBit>>
  /\ Part["bits"][3] = <<"SCLK", 1>>
  /\ Part["end"][1] = <<"CSB", 0>>
  /\ Part["end"][2] = <<"CSB", 1>>
  /\ Part["end"][3] = <<"SDIN", 1>>
  /\ Part["end"][4] = <<"SCLK", 1>>
BY DEF Part

LEMMA SetPinCalls ==
  ASSUME WireTypes, WireCalls, SetPin PROVE TheCalls
<1>1. CASE codec_pc = "head"
  <2>1. op \in {1, 2, 3}
    BY <1>1 DEF WireTypes, WireCalls
  <2>2. CASE op = 1
    BY <1>1, <2>2, Parts DEF SetPin, TheCalls, Call, Rest
  <2>3. CASE op = 2
    BY <1>1, <2>3, Parts DEF SetPin, TheCalls, Call, Rest
  <2>4. CASE op = 3
    BY <1>1, <2>4, Parts DEF SetPin, TheCalls, Call, Rest
  <2> QED BY <2>1, <2>2, <2>3, <2>4
<1>2. CASE codec_pc = "bits"
  <2>1. op \in {1, 2, 3}
    BY <1>2 DEF WireTypes, WireCalls
  <2>2. CASE op = 1
    BY <1>2, <2>2, Parts DEF SetPin, TheCalls, Call, Rest
  <2>3. CASE op = 2
    BY <1>2, <2>3, Parts DEF SetPin, TheCalls, Call, Rest
  <2>4. CASE op = 3
    <3>1. CASE bit < 15
      <4>1. /\ ar7240_gpio_setpin("SCLK", 1) /\ word' = word
        BY <1>2, <2>4, Parts DEF SetPin
      <4>2. /\ op' = 1 /\ codec_pc' = "bits" /\ val' = Shl(val)
            /\ bit' = bit + 1 /\ done' = done
        <5>1. bit \in Int /\ bit # 15
          BY <3>1 DEF WireTypes
        <5> QED BY <1>2, <2>4, <3>1, <5>1, Parts DEF SetPin
      <4>3. Call("SCLK", 1, "bits", 3, "bits", 1)
        BY <1>2, <2>4, <4>1, <4>2 DEF Call
      <4>4. UNCHANGED <<word, done>>
        BY <4>1, <4>2
      <4> QED BY <3>1, <4>2, <4>3, <4>4, Zenon DEF TheCalls
    <3>2. CASE bit = 15
      <4>1. /\ ar7240_gpio_setpin("SCLK", 1) /\ word' = word
        BY <1>2, <2>4, Parts DEF SetPin
      <4>2. /\ op' = 1 /\ codec_pc' = "end" /\ val' = Shl(val)
            /\ bit' = bit /\ done' = done
        BY <1>2, <2>4, <3>2, Parts DEF SetPin
      <4>3. Call("SCLK", 1, "bits", 3, "end", 1)
        BY <1>2, <2>4, <4>1, <4>2 DEF Call
      <4>4. UNCHANGED <<word, done>>
        BY <4>1, <4>2
      <4> QED BY <3>2, <4>2, <4>3, <4>4, Zenon DEF TheCalls
    <3> QED BY <3>1, <3>2 DEF WireTypes
  <2> QED BY <2>1, <2>2, <2>3, <2>4
<1>3. CASE codec_pc = "end"
  <2>2. CASE op = 1
    BY <1>3, <2>2, Parts DEF SetPin, TheCalls, Call, Rest
  <2>3. CASE op = 2
    BY <1>3, <2>3, Parts DEF SetPin, TheCalls, Call, Rest
  <2>4. CASE op = 3
    BY <1>3, <2>4, Parts DEF SetPin, TheCalls, Call, Rest
  <2>5. CASE op = 4
    BY <1>3, <2>5, Parts DEF SetPin, TheCalls, Call, Rest
  <2> QED BY <2>2, <2>3, <2>4, <2>5 DEF WireTypes
<1> QED BY <1>1, <1>2, <1>3 DEF SetPin, WireTypes

LEMMA WireInit ==
  ASSUME CodecInit PROVE WireTypes /\ WireCalls
<1>1. shift \in Nat /\ shift < 65536
  <2>1. shift \in 0 .. WordMax
    BY Wm8978Assumption DEF CodecInit
  <2> QED BY <2>1, WordRange
<1>2. regs \in [Registers -> Data]
  BY DEF CodecInit, Data
<1>3. line \in [Pins -> {0, 1}]
  BY Wm8978Assumption DEF CodecInit, Pins
<1> QED
  BY <1>1, <1>2, <1>3, InitialWrites, Wm8978Assumption
  DEF CodecInit, WireTypes, WireCalls

(* A call of wm8978_write_reg().                                           *)
LEMMA WriteBegins ==
  ASSUME WireTypes, WireCalls, wm8978_write_reg
  PROVE  /\ WireTypes' /\ WireCalls'
         /\ word = <<>> /\ word' \in Registers \X Data
         /\ done = 0 => word'[1] = 0
<1>1. /\ codec_pc = "idle" /\ codec_pc' = "head" /\ op' = 1 /\ bit' = 0
      /\ val' = Control(word')
      /\ UNCHANGED <<line, shift, regs, done>>
  BY DEF wm8978_write_reg
<1>2. /\ word' \in Registers \X Data
      /\ done = 0 => word' = <<0, 0>>
      /\ done < Len(init_wm8978) + MaxWrites
  <2>1. CASE done < Len(init_wm8978)
    <3>1. word' = init_wm8978[done + 1]
      BY <2>1 DEF wm8978_write_reg
    <3>2. done + 1 \in 1 .. 10
      BY <2>1, InitialWrites DEF WireTypes
    <3>3. done < Len(init_wm8978) + MaxWrites
      BY <2>1, InitialWrites, Wm8978Assumption DEF WireTypes
    <3> QED BY <3>1, <3>2, <3>3, InitialWrites
  <2>2. CASE ~(done < Len(init_wm8978))
    <3>1. word' \in Later /\ done < Len(init_wm8978) + MaxWrites
      BY <2>2 DEF wm8978_write_reg
    <3>2. word' \in Registers \X Data
      BY <3>1, Wm8978Assumption DEF Registers, Data
    <3>3. done # 0
      BY <2>2, InitialWrites
    <3> QED BY <3>1, <3>2, <3>3
  <2> QED BY <2>1, <2>2
<1>3. val' \in Nat /\ val' < 65536
  BY <1>1, <1>2, ControlWord
<1>4. word' # <<>>
  <2>1. PICK r \in Registers, d \in Data : word' = <<r, d>>
    BY <1>2
  <2> QED BY <2>1
<1>5. WireTypes'
  BY <1>1, <1>2, <1>3 DEF WireTypes
<1>6. WireCalls'
  BY <1>1, <1>2, <1>4 DEF WireCalls, Word16, High
<1> QED BY <1>1, <1>2, <1>5, <1>6 DEF WireCalls

LEMMA HeadCall ==
  ASSUME WireTypes, WireCalls, UNCHANGED Rest,
         NEW pin \in Pins, NEW pos1 \in 1 .. 3,
         Call(pin, 1, "head", pos1, IF pos1 = 3 THEN "bits" ELSE "head",
              IF pos1 = 3 THEN 1 ELSE pos1 + 1),
         pos1 = 1 => pin = "CSB", pos1 = 3 => pin = "SCLK", pos1 # 1 => pin # "CSB"
  PROVE  WireTypes' /\ WireCalls' /\ (done = 0 \/ regs' = regs)
<1>1. /\ codec_pc = "head" /\ op = pos1
      /\ codec_pc' = (IF pos1 = 3 THEN "bits" ELSE "head")
      /\ op' = (IF pos1 = 3 THEN 1 ELSE pos1 + 1)
      /\ ar7240_gpio_setpin(pin, 1)
  BY DEF Call
<1>2. /\ line' = [line EXCEPT ![pin] = 1]
      /\ line' \in [Pins -> {0, 1}]
      /\ shift' \in Nat /\ shift' < 65536
      /\ regs' \in [Registers -> Data]
      /\ pin # "CSB" \/ line["CSB"] = 1 => regs' = regs
  <2>1. 1 \in {0, 1}
    OBVIOUS
  <2> QED BY <1>1, <2>1, Switched
<1>3. /\ bit' = bit /\ val' = val /\ word' = word /\ done' = done
      /\ Word16' = Word16
  BY DEF Rest, Word16
<1>4. WireTypes'
  BY <1>1, <1>2, <1>3 DEF WireTypes
<1>5. /\ "CSB" \in Pins /\ "SDIN" \in Pins /\ "SCLK" \in Pins
      /\ line'["CSB"] = 1
      /\ High => High'
  BY <1>1, <1>2 DEF WireTypes, WireCalls, Pins, High
<1>6. pos1 = 3 => Taken(Word16, Power[1], shift', val)
  <2>1. val = Word16 /\ val \in Nat
    BY <1>1 DEF WireCalls, WireTypes
  <2>2. Power[1] = 1
    BY DEF Power
  <2>3. shift' % 1 = 0
    <3>1. \A n \in Nat : n % 1 = 0
      OBVIOUS
    <3>2. shift' \in Nat
      BY <1>2
    <3> QED BY <3>1, <3>2, Zenon
  <2> QED BY <2>1, <2>2, <2>3 DEF Taken
<1>7. WireCalls'
  BY <1>1, <1>2, <1>3, <1>5, <1>6 DEF WireTypes, WireCalls
<1>8. done = 0 \/ regs' = regs
  BY <1>1, <1>2, <1>5 DEF WireTypes, WireCalls, High
<1> QED BY <1>4, <1>7, <1>8

LEMMA TakenTyped ==
  ASSUME WireTypes, WireCalls, word # <<>>
  PROVE  Word16 \in Nat /\ Word16 < 65536
BY ControlWord DEF WireTypes, Word16

(* A bit: SCLK falls, SDIN gets the bit, SCLK rises.                       *)
LEMMA BitCall ==
  ASSUME WireTypes, WireCalls,
         \/ Call("SCLK", 0, "bits", 1, "bits", 2) /\ UNCHANGED Rest
         \/ Call("SDIN", HighBit, "bits", 2, "bits", 3) /\ UNCHANGED Rest
  PROVE  WireTypes' /\ WireCalls' /\ regs' = regs
<1>0. HighBit \in {0, 1} /\ "SCLK" \in Pins /\ "SDIN" \in Pins /\ "CSB" \in Pins
  BY HighBitOf DEF HighBit, WireTypes, Pins
<1>1. /\ codec_pc = "bits" /\ codec_pc' = "bits" /\ op \in {1, 2} /\ op' = op + 1
      /\ bit' = bit /\ val' = val /\ word' = word /\ done' = done
      /\ Word16' = Word16 /\ HighBit' = HighBit
  BY DEF Call, Rest, Word16, HighBit
<1>2. CASE Call("SCLK", 0, "bits", 1, "bits", 2)
  <2>1. ar7240_gpio_setpin("SCLK", 0) /\ op = 1
    BY <1>2 DEF Call
  <2>2. /\ line' = [line EXCEPT !["SCLK"] = 0]
        /\ line' \in [Pins -> {0, 1}]
        /\ shift' = shift /\ regs' = regs
    <3>1. 0 \in {0, 1}
      OBVIOUS
    <3> QED BY <1>0, <2>1, <3>1, Switched
  <2>3. WireTypes'
    BY <1>1, <2>2 DEF WireTypes
  <2>4. WireCalls'
    BY <1>0, <1>1, <2>1, <2>2 DEF WireTypes, WireCalls
  <2> QED BY <2>2, <2>3, <2>4
<1>3. CASE Call("SDIN", HighBit, "bits", 2, "bits", 3)
  <2>1. ar7240_gpio_setpin("SDIN", HighBit) /\ op = 2
    BY <1>3 DEF Call
  <2>2. /\ line' = [line EXCEPT !["SDIN"] = HighBit]
        /\ line' \in [Pins -> {0, 1}]
        /\ shift' = shift /\ regs' = regs
    BY <1>0, <2>1, Switched
  <2>3. WireTypes'
    BY <1>1, <2>2 DEF WireTypes
  <2>4. WireCalls'
    BY <1>0, <1>1, <2>1, <2>2 DEF WireTypes, WireCalls
  <2> QED BY <2>2, <2>3, <2>4
<1> QED BY <1>2, <1>3

LEMMA BitArrives ==
  ASSUME WireTypes, WireCalls, NEW last \in BOOLEAN, (bit = 15) = last,
         Call("SCLK", 1, "bits", 3, IF last THEN "end" ELSE "bits", 1),
         bit' = (IF last THEN bit ELSE bit + 1), val' = Shl(val),
         UNCHANGED <<word, done>>
  PROVE  WireTypes' /\ WireCalls' /\ regs' = regs
<1>0. "SCLK" \in Pins /\ "SDIN" \in Pins /\ "CSB" \in Pins /\ 1 \in {0, 1}
  BY DEF Pins
<1>1. /\ codec_pc = "bits" /\ codec_pc' = (IF last THEN "end" ELSE "bits")
      /\ op = 3 /\ op' = 1 /\ word' = word /\ done' = done /\ Word16' = Word16
      /\ ar7240_gpio_setpin("SCLK", 1)
  BY DEF Call, Word16
<1>2. /\ line["CSB"] = 1 /\ line["SCLK"] = 0 /\ line["SDIN"] = val \div 32768
      /\ Taken(Word16, Power[bit + 1], shift, val) /\ word # <<>>
      /\ done < Len(init_wm8978) + MaxWrites
  BY <1>1 DEF WireCalls, HighBit
<1>3. /\ line' = [line EXCEPT !["SCLK"] = 1]
      /\ line' \in [Pins -> {0, 1}]
      /\ shift' = (2 * shift + (val \div 32768)) % 65536
      /\ shift' \in Nat /\ shift' < 65536
      /\ regs' = regs
  BY <1>0, <1>1, <1>2, Switched
<1>4. line'["CSB"] = 1 /\ line'["SCLK"] = 1
  BY <1>0, <1>2, <1>3 DEF WireTypes
<1>5. val' = (2 * val) % 65536 /\ val' \in Nat /\ val' < 65536
  BY DEF Shl, WireTypes
<1>6. Power[bit + 1] \in Powers /\ Power[bit + 2] = 2 * Power[bit + 1]
  <2>1. bit \in 0 .. 15
    BY DEF WireTypes
  <2> QED BY <2>1, PowerSteps, Zenon
<1>7. Taken(Word16, Power[bit + 2], shift', val')
  <2>1. shift \in Nat /\ val \in Nat /\ Fits(val)
    BY DEF WireTypes, Fits
  <2>2. Word16 \in Nat
    BY <1>2, TakenTyped
  <2>3. Taken(Word16, 2 * Power[bit + 1], ShiftedIn(shift, val), Shifted(val))
    BY <1>2, <1>6, <2>1, <2>2, OneBit
  <2>4. shift' = ShiftedIn(shift, val) /\ val' = Shifted(val)
    BY <1>3, <1>5 DEF ShiftedIn, Shifted
  <2> QED BY <1>6, <2>3, <2>4
<1>8. CASE ~last
  <2>1. bit' = bit + 1 /\ bit' \in 0 .. 15 /\ bit' + 1 = bit + 2
    BY <1>8 DEF WireTypes
  <2>2. WireTypes'
    BY <1>1, <1>3, <1>5, <1>8, <2>1 DEF WireTypes
  <2>3. WireCalls'
    BY <1>1, <1>2, <1>4, <1>7, <1>8, <2>1 DEF WireCalls
  <2> QED BY <1>3, <2>2, <2>3
<1>9. CASE last
  <2>1. bit = 15 /\ bit' = 15
    BY <1>9
  <2>2. Power[17] = 65536
    BY DEF Power
  <2>3. Word16 * 65536 = 65536 * (shift' % 65536) + val'
    BY <1>7, <2>1, <2>2 DEF Taken
  <2>4. shift' % 65536 = shift'
    BY <1>3
  <2>5. shift' = Word16
    BY <1>2, <1>3, <1>5, <2>3, <2>4, TakenTyped
  <2>6. WireTypes'
    BY <1>1, <1>3, <1>5, <1>9, <2>1 DEF WireTypes
  <2>7. WireCalls'
    BY <1>1, <1>2, <1>4, <1>9, <2>5 DEF WireCalls
  <2> QED BY <1>3, <2>6, <2>7
<1> QED BY <1>8, <1>9

(* The end: CSB falls and rises, and the codec acts on the word.           *)
LEMMA EndCall ==
  ASSUME WireTypes, WireCalls,
         \/ Call("CSB", 0, "end", 1, "end", 2) /\ UNCHANGED Rest
         \/ Call("SDIN", 1, "end", 3, "end", 4) /\ UNCHANGED Rest
         \/ /\ Call("SCLK", 1, "end", 4, "idle", 1) /\ done' = done + 1
            /\ UNCHANGED <<bit, val, word>>
  PROVE  WireTypes' /\ WireCalls' /\ regs' = regs /\ word' = word
<1>0. "SCLK" \in Pins /\ "SDIN" \in Pins /\ "CSB" \in Pins /\ 1 \in {0, 1} /\ 0 \in {0, 1}
  BY DEF Pins
<1>1. CASE Call("CSB", 0, "end", 1, "end", 2) /\ UNCHANGED Rest
  <2>1. /\ ar7240_gpio_setpin("CSB", 0)
        /\ codec_pc = "end" /\ codec_pc' = "end" /\ op = 1 /\ op' = 2
        /\ bit' = bit /\ val' = val /\ word' = word /\ done' = done
        /\ Word16' = Word16
    BY <1>1 DEF Call, Rest, Word16
  <2>2. /\ line' = [line EXCEPT !["CSB"] = 0]
        /\ line' \in [Pins -> {0, 1}]
        /\ shift' = shift /\ regs' = regs
    BY <1>0, <2>1, Switched
  <2>3. WireTypes'
    BY <2>1, <2>2 DEF WireTypes
  <2>4. WireCalls'
    BY <1>0, <2>1, <2>2 DEF WireTypes, WireCalls
  <2> QED BY <2>1, <2>2, <2>3, <2>4
<1>2. CASE Call("SDIN", 1, "end", 3, "end", 4) /\ UNCHANGED Rest
  <2>1. /\ ar7240_gpio_setpin("SDIN", 1)
        /\ codec_pc = "end" /\ codec_pc' = "end" /\ op = 3 /\ op' = 4
        /\ bit' = bit /\ val' = val /\ word' = word /\ done' = done
        /\ Word16' = Word16
    BY <1>2 DEF Call, Rest, Word16
  <2>2. /\ line' = [line EXCEPT !["SDIN"] = 1]
        /\ line' \in [Pins -> {0, 1}]
        /\ shift' = shift /\ regs' = regs
    BY <1>0, <2>1, Switched
  <2>3. WireTypes'
    BY <2>1, <2>2 DEF WireTypes
  <2>4. WireCalls'
    BY <1>0, <2>1, <2>2 DEF WireTypes, WireCalls
  <2> QED BY <2>1, <2>2, <2>3, <2>4
<1>3. CASE /\ Call("SCLK", 1, "end", 4, "idle", 1) /\ done' = done + 1
           /\ UNCHANGED <<bit, val, word>>
  <2>1. /\ ar7240_gpio_setpin("SCLK", 1)
        /\ codec_pc = "end" /\ codec_pc' = "idle" /\ op = 4 /\ op' = 1
        /\ bit' = bit /\ val' = val /\ word' = word /\ done' = done + 1
        /\ line["SCLK"] = 1 /\ line["CSB"] = 1 /\ line["SDIN"] = 1
        /\ word = <<>> /\ done < Len(init_wm8978) + MaxWrites
    BY <1>3 DEF Call, WireCalls
  <2>2. /\ line' = [line EXCEPT !["SCLK"] = 1]
        /\ line' \in [Pins -> {0, 1}]
        /\ shift' = shift /\ regs' = regs
    BY <1>0, <2>1, Switched
  <2>3. WireTypes'
    <3>1. done' \in 0 .. Len(init_wm8978) + MaxWrites
      BY <2>1, InitialWrites, Wm8978Assumption DEF WireTypes
    <3> QED BY <2>1, <2>2, <3>1 DEF WireTypes
  <2>4. High'
    BY <1>0, <2>1, <2>2 DEF WireTypes, High, Pins
  <2>5. WireCalls'
    BY <2>1, <2>4 DEF WireCalls
  <2> QED BY <2>1, <2>2, <2>3, <2>5
<1> QED BY <1>1, <1>2, <1>3

(* The rising edge of CSB at the end: the word arrives.                    *)
LEMMA WordArrives ==
  ASSUME WireTypes, WireCalls, Call("CSB", 1, "end", 2, "end", 3),
         word' = <<>>, UNCHANGED <<bit, val, done>>
  PROVE  /\ WireTypes' /\ WireCalls'
         /\ word \in Registers \X Data
         /\ regs' = IF word[1] = 0 THEN [r \in Registers |-> 0]
                                   ELSE [regs EXCEPT ![word[1]] = word[2]]
<1>0. "SCLK" \in Pins /\ "SDIN" \in Pins /\ "CSB" \in Pins /\ 1 \in {0, 1}
  BY DEF Pins
<1>1. /\ ar7240_gpio_setpin("CSB", 1)
      /\ codec_pc = "end" /\ codec_pc' = "end" /\ op = 2 /\ op' = 3
      /\ bit' = bit /\ val' = val /\ done' = done
      /\ line["CSB"] = 0 /\ line["SCLK"] = 1 /\ shift = Word16
      /\ word \in Registers \X Data
      /\ done < Len(init_wm8978) + MaxWrites
  BY DEF Call, WireTypes, WireCalls
<1>2. /\ line' = [line EXCEPT !["CSB"] = 1]
      /\ line' \in [Pins -> {0, 1}]
      /\ shift' = shift /\ regs' = Latch
      /\ regs' \in [Registers -> Data]
  BY <1>0, <1>1, Switched
<1>3. WireTypes'
  BY <1>1, <1>2 DEF WireTypes
<1>4. WireCalls'
  BY <1>0, <1>1, <1>2 DEF WireTypes, WireCalls
<1>5. /\ shift < 512 <=> word[1] = 0
      /\ shift \div 512 = word[1] /\ shift % 512 = word[2]
  <2>1. /\ Control(word) < 512 <=> word[1] = 0
        /\ Control(word) \div 512 = word[1]
        /\ Control(word) % 512 = word[2]
    BY <1>1, ControlWord
  <2>2. shift = Control(word)
    BY <1>1, Zenon DEF Word16
  <2> QED BY <2>1, <2>2, Zenon
<1>6. Latch = IF word[1] = 0 THEN [r \in Registers |-> 0]
                                   ELSE [regs EXCEPT ![word[1]] = word[2]]
  BY <1>5, Zenon DEF Latch
<1> QED BY <1>1, <1>2, <1>3, <1>4, <1>6, Zenon

-----------------------------------------------------------------------------
(* What the wires do, seen from the registers.                             *)
LEMMA SetPinMaps ==
  ASSUME WireTypes, WireCalls, SetPin
  PROVE  /\ WireTypes' /\ WireCalls'
         /\ \/ Registers_!Arrive
            \/ Registers_!Disturbed
            \/ UNCHANGED Registers_!vars
<1> DEFINE known == done > 0 \/ (codec_pc = "end" /\ word = <<>>)
<1>0. TheCalls
  BY SetPinCalls
<1>1. CASE /\ Call("CSB", 1, "end", 2, "end", 3) /\ word' = <<>>
           /\ UNCHANGED <<bit, val, done>>
  <2>1. /\ WireTypes' /\ WireCalls' /\ word \in Registers \X Data
        /\ regs' = IF word[1] = 0 THEN [r \in Registers |-> 0]
                                  ELSE [regs EXCEPT ![word[1]] = word[2]]
    BY <1>1, WordArrives
  <2>2. word # <<>> /\ word' = <<>> /\ codec_pc' = "end"
    BY <1>1, <2>1 DEF Call
  <2>3. Registers_!Arrive
    BY <2>1, <2>2 DEF Registers_!Arrive, Registers_!Written,
      Registers_!Defaults
  <2> QED BY <2>1, <2>3
<1>2. CASE /\ Call("CSB", 1, "head", 1, "head", 2) \/ Call("SDIN", 1, "head", 2, "head", 3)
              \/ Call("SCLK", 1, "head", 3, "bits", 1)
           /\ UNCHANGED Rest
  <2>1. WireTypes' /\ WireCalls' /\ (done = 0 \/ regs' = regs)
    <3>1. CASE Call("CSB", 1, "head", 1, "head", 2)
      <4>1. Call("CSB", 1, "head", 1, IF 1 = 3 THEN "bits" ELSE "head",
                 IF 1 = 3 THEN 1 ELSE 1 + 1)
        BY <3>1 DEF Call
      <4>2. "CSB" \in Pins /\ 1 \in 1 .. 3
        BY DEF Pins
      <4> QED BY <1>2, <4>1, <4>2, HeadCall
    <3>2. CASE Call("SDIN", 1, "head", 2, "head", 3)
      <4>1. Call("SDIN", 1, "head", 2, IF 2 = 3 THEN "bits" ELSE "head",
                 IF 2 = 3 THEN 1 ELSE 2 + 1)
        BY <3>2 DEF Call
      <4>2. "SDIN" \in Pins /\ 2 \in 1 .. 3 /\ 2 # 1 /\ 2 # 3 /\ "SDIN" # "CSB"
        BY DEF Pins
      <4> QED BY <1>2, <4>1, <4>2, HeadCall
    <3>3. CASE Call("SCLK", 1, "head", 3, "bits", 1)
      <4>1. Call("SCLK", 1, "head", 3, IF 3 = 3 THEN "bits" ELSE "head",
                 IF 3 = 3 THEN 1 ELSE 3 + 1)
        BY <3>3 DEF Call
      <4>2. "SCLK" \in Pins /\ 3 \in 1 .. 3 /\ 3 # 1 /\ "SCLK" # "CSB"
        BY DEF Pins
      <4> QED BY <1>2, <4>1, <4>2, HeadCall
    <3> QED BY <1>2, <3>1, <3>2, <3>3
  <2>2. word' = word /\ done' = done /\ codec_pc = "head" /\ codec_pc' # "end"
    BY <1>2 DEF Call, Rest
  <2>3. CASE regs' = regs
    BY <2>1, <2>2, <2>3 DEF Registers_!vars
  <2>4. CASE done = 0
    <3>1. ~known /\ ~known'
      BY <2>2, <2>4
    <3>2. regs' \in [Registers -> Data]
      BY <2>1 DEF WireTypes
    <3>3. Registers_!Disturbed
      BY <2>2, <3>1, <3>2 DEF Registers_!Disturbed, Data
    <3> QED BY <2>1, <3>3
  <2> QED BY <2>1, <2>3, <2>4
<1>3. CASE \/ Call("SCLK", 0, "bits", 1, "bits", 2) /\ UNCHANGED Rest
           \/ Call("SDIN", HighBit, "bits", 2, "bits", 3) /\ UNCHANGED Rest
  <2>1. WireTypes' /\ WireCalls' /\ regs' = regs
    BY <1>3, BitCall
  <2>2. word' = word /\ done' = done /\ codec_pc' = codec_pc
    BY <1>3 DEF Call, Rest
  <2> QED BY <2>1, <2>2 DEF Registers_!vars
<1>4. CASE /\ Call("SCLK", 1, "bits", 3, "bits", 1) /\ bit < 15 /\ bit' = bit + 1
           /\ val' = Shl(val) /\ UNCHANGED <<word, done>>
  <2>1. /\ FALSE \in BOOLEAN /\ (bit = 15) = FALSE
        /\ Call("SCLK", 1, "bits", 3, IF FALSE THEN "end" ELSE "bits", 1)
        /\ bit' = IF FALSE THEN bit ELSE bit + 1
    BY <1>4 DEF WireTypes
  <2>2. WireTypes' /\ WireCalls' /\ regs' = regs
    BY <1>4, <2>1, BitArrives
  <2>3. word' = word /\ done' = done /\ codec_pc' = codec_pc
    BY <1>4 DEF Call
  <2> QED BY <2>2, <2>3 DEF Registers_!vars
<1>5. CASE /\ Call("SCLK", 1, "bits", 3, "end", 1) /\ bit = 15 /\ bit' = bit
           /\ val' = Shl(val) /\ UNCHANGED <<word, done>>
  <2>1. /\ TRUE \in BOOLEAN /\ (bit = 15) = TRUE
        /\ Call("SCLK", 1, "bits", 3, IF TRUE THEN "end" ELSE "bits", 1)
        /\ bit' = IF TRUE THEN bit ELSE bit + 1
    BY <1>5
  <2>2. WireTypes' /\ WireCalls' /\ regs' = regs
    BY <1>5, <2>1, BitArrives
  <2>3. word' = word /\ done' = done /\ codec_pc = "bits" /\ word # <<>>
    BY <1>5 DEF Call, WireCalls
  <2> QED BY <2>2, <2>3 DEF Registers_!vars
<1>6. CASE \/ Call("CSB", 0, "end", 1, "end", 2) /\ UNCHANGED Rest
           \/ Call("SDIN", 1, "end", 3, "end", 4) /\ UNCHANGED Rest
           \/ /\ Call("SCLK", 1, "end", 4, "idle", 1) /\ done' = done + 1
              /\ UNCHANGED <<bit, val, word>>
  <2>1. WireTypes' /\ WireCalls' /\ regs' = regs /\ word' = word
    BY <1>6, EndCall
  <2>2. known' = known
    <3>1. \/ codec_pc' = codec_pc /\ done' = done
          \/ /\ codec_pc = "end" /\ op = 4 /\ done' = done + 1
      BY <1>6 DEF Call, Rest
    <3> QED BY <2>1, <3>1 DEF WireTypes, WireCalls
  <2> QED BY <2>1, <2>2 DEF Registers_!vars
<1> QED BY <1>0, <1>1, <1>2, <1>3, <1>4, <1>5, <1>6 DEF TheCalls

LEMMA WriteMaps ==
  ASSUME WireTypes, WireCalls, wm8978_write_reg
  PROVE  WireTypes' /\ WireCalls' /\ Registers_!Begin
<1>1. /\ codec_pc = "idle" /\ codec_pc' = "head"
      /\ UNCHANGED <<regs, done>>
  BY DEF wm8978_write_reg
<1>2. /\ WireTypes' /\ WireCalls' /\ word = <<>>
      /\ word' \in Registers \X Data
      /\ done = 0 => word'[1] = 0
  BY WriteBegins
<1>3. done = 0 \/ done > 0
  BY InitialWrites, Wm8978Assumption DEF WireTypes
<1> QED BY <1>1, <1>2, <1>3 DEF Registers_!Begin, Data

WireInv == WireTypes /\ WireCalls

LEMMA WireStep ==
  ASSUME WireInv, [CodecNext]_codec_vars
  PROVE  WireInv' /\ [Registers_!Next]_(Registers_!vars)
<1>1. CASE wm8978_write_reg
  BY <1>1, WriteMaps DEF WireInv, Registers_!Next
<1>2. CASE SetPin
  BY <1>2, SetPinMaps DEF WireInv, Registers_!Next
<1>3. CASE UNCHANGED codec_vars
  BY <1>3 DEF WireInv, WireTypes, WireCalls, Word16, High, HighBit,
    codec_vars, Registers_!vars
<1> QED BY <1>1, <1>2, <1>3 DEF CodecNext

(* Every step of every write keeps WireInv.                                *)
THEOREM WiresInvariant ==
  CodecSpec => []WireInv
<1>1. CodecInit => WireInv
  BY WireInit DEF WireInv
<1> QED BY <1>1, WireStep, PTL DEF CodecSpec

(* wm8978_write_reg() leaves the three lines high, so that the next write  *)
(* begins without an edge the codec could take for a bit or for the end.   *)
THEOREM LinesAreLeftAlone ==
  CodecSpec => []LinesInv
<1>1. WireInv => LinesInv
  <2> SUFFICES ASSUME WireInv PROVE LinesInv
    OBVIOUS
  <2>1. shift \in 0 .. WordMax /\ val \in 0 .. WordMax
    BY WordRange DEF WireInv, WireTypes
  <2>2. DOMAIN regs = Registers /\ \A r \in Registers : regs[r] \in Data
    BY DEF WireInv, WireTypes
  <2>3. CodecTypeOK
    BY <2>1, <2>2 DEF WireInv, WireTypes, CodecTypeOK, Data, Pins
  <2>4. QuietBetweenWrites
    BY DEF WireInv, WireTypes, WireCalls, High, QuietBetweenWrites
  <2> QED BY <2>3, <2>4 DEF LinesInv
<1> QED BY <1>1, WiresInvariant, PTL

(* Each wm8978_write_reg() puts exactly its value into exactly its         *)
(* register, at one moment, as in the abstract CodecRegisters; only before *)
(* the first (a software reset) may a stray edge change what is in the     *)
(* registers.                                                              *)
THEOREM WritesAreWhole ==
  CodecSpec =>
    Registers_!Init /\ [][Registers_!Next]_(Registers_!vars)
<1>1. CodecInit => Registers_!Init
  BY DEF CodecInit, Registers_!Init, Registers_!Defaults
<1> QED BY <1>1, WiresInvariant, WireStep, PTL DEF CodecSpec
-----------------------------------------------------------------------------
(***************************************************************************)
(* The settings of the three drivers.  One invariant for each: the types,  *)
(* what the registers have in common with the driver's memory, and, for    *)
(* the mixer, that the remembered steps are those of the values last asked *)
(* for.                                                                    *)
(***************************************************************************)
(* The mixer, which glzt_i2s.c and ar7240_i2s.c have alike.                *)
Remembered ==
  /\ asked \in [volume : 0 .. glzt!MaxLevel, gain : 0 .. glzt!MaxLevel]
  /\ wm8978_volume = glzt!Level(asked.volume)
  /\ mixer_igain = glzt!Gain(asked.gain)
  /\ \A side \in {"left", "right"} :
       out[side] = 57 \/ out[side] - 256 \in 0 .. 81

LEMMA LevelRange == glzt!MaxLevel \in Nat /\ 100 <= glzt!MaxLevel /\ ar7240!MaxLevel = glzt!MaxLevel
BY DEF glzt!MaxLevel, ar7240!MaxLevel

LEMMA SameMixer ==
  /\ \A v : ar7240!Level(v) = glzt!Level(v)
  /\ \A v : ar7240!Gain(v) = glzt!Gain(v)
  /\ ar7240!MixerTypeOK <=> glzt!MixerTypeOK
  /\ ar7240!MixerInit <=> glzt!MixerInit
  /\ ar7240!VolumeAgrees <=> glzt!VolumeAgrees
<1>1. \A v : ar7240!Level(v) = glzt!Level(v)
  BY DEF ar7240!Level, glzt!Level
<1>2. \A v : ar7240!Gain(v) = glzt!Gain(v)
  BY DEF ar7240!Gain, glzt!Gain, ar7240!Quotient, glzt!Quotient
<1>3. ar7240!MixerTypeOK <=> glzt!MixerTypeOK
  BY <1>1, <1>2, LevelRange DEF ar7240!MixerTypeOK, glzt!MixerTypeOK, ar7240!CodecDefault,
    glzt!CodecDefault, ar7240!Update, glzt!Update
<1>4. ar7240!MixerInit <=> glzt!MixerInit
  BY DEF ar7240!MixerInit, glzt!MixerInit, ar7240!CodecDefault,
    glzt!CodecDefault
<1>5. ar7240!VolumeAgrees <=> glzt!VolumeAgrees
  BY DEF ar7240!VolumeAgrees, glzt!VolumeAgrees, ar7240!Update, glzt!Update
<1> QED BY <1>1, <1>2, <1>3, <1>4, <1>5

LEMMA LevelBounds ==
  ASSUME NEW v \in Nat
  PROVE  glzt!Level(v) \in 0 .. 81
<1>1. v % 256 \in Nat /\ v % 256 <= 255
  OBVIOUS
<1> QED BY <1>1 DEF glzt!Level

LEMMA GainBounds ==
  ASSUME NEW v \in 0 .. glzt!MaxLevel
  PROVE  glzt!Gain(v) \in glzt!Gain(glzt!MaxLevel) .. 31
<1>1. /\ v \in Nat /\ v <= glzt!MaxLevel /\ glzt!MaxLevel \in Nat
  BY LevelRange
<1>2. ASSUME NEW m \in Nat, v <= m
      PROVE  glzt!Gain(v) \in glzt!Gain(m) .. 31
  <2>1. v * 31 \in Nat /\ m * 31 \in Nat /\ v * 31 <= m * 31
    BY <1>1, <1>2
  <2>2. \A a, b \in Nat : a <= b => a \div 100 \in Nat /\ b \div 100 \in Nat /\ a \div 100 <= b \div 100
    OBVIOUS
  <2>3. /\ glzt!Quotient(v * 31, 100) = (v * 31) \div 100
        /\ glzt!Quotient(m * 31, 100) = (m * 31) \div 100
    BY <2>1 DEF glzt!Quotient
  <2> QED BY <2>1, <2>2, <2>3 DEF glzt!Gain
<1> QED BY <1>1, <1>2

LEMMA RememberedTypes ==
  ASSUME Remembered PROVE glzt!MixerTypeOK
<1>1. glzt!Level(255) = 81
  BY DEF glzt!Level
<1>2. asked.volume \in Nat /\ asked.gain \in 0 .. glzt!MaxLevel
  BY LevelRange DEF Remembered
<1>3. wm8978_volume \in 0 .. 81
  BY <1>2, LevelBounds DEF Remembered
<1>4. mixer_igain \in glzt!Gain(glzt!MaxLevel) .. 31
  BY <1>2, GainBounds DEF Remembered
<1> QED
  BY <1>1, <1>3, <1>4 DEF Remembered, glzt!MixerTypeOK, glzt!CodecDefault, glzt!Update

LEMMA MixerStarts ==
  ASSUME glzt!MixerInit PROVE Remembered /\ asked.volume = 0
<1>1. glzt!Level(0) = 0 /\ glzt!Gain(90) = 4
  BY DEF glzt!Level, glzt!Gain, glzt!Quotient
<1>2. 0 \in 0 .. glzt!MaxLevel /\ 90 \in 0 .. glzt!MaxLevel
  BY LevelRange
<1> QED BY <1>1, <1>2 DEF glzt!MixerInit, Remembered, glzt!CodecDefault

LEMMA VolumeSet ==
  ASSUME Remembered, NEW v \in 0 .. glzt!MaxLevel,
         glzt!SetVolume(v) \/ ar7240!SetVolume(v)
  PROVE  Remembered' /\ glzt!VolumeAgrees'
<1>1. /\ wm8978_volume' = glzt!Level(v)
      /\ out' = [side \in {"left", "right"} |-> 256 + glzt!Level(v)]
      /\ asked' = [asked EXCEPT !.volume = v]
      /\ mixer_igain' = mixer_igain
  BY SameMixer DEF glzt!SetVolume, ar7240!SetVolume, glzt!BothSides,
    ar7240!BothSides, glzt!Update, ar7240!Update
<1>2. v \in Nat
  BY LevelRange
<1>3. glzt!Level(v) \in 0 .. 81
  BY <1>2, LevelBounds
<1>4. \A side \in {"left", "right"} : out'[side] = 256 + wm8978_volume'
  BY <1>1
<1>5. asked'.volume = v /\ asked'.gain = asked.gain
      /\ asked' \in [volume : 0 .. glzt!MaxLevel, gain : 0 .. glzt!MaxLevel]
  BY <1>1 DEF Remembered
<1>6. Remembered'
  BY <1>1, <1>3, <1>4, <1>5 DEF Remembered
<1> QED BY <1>4, <1>6 DEF glzt!VolumeAgrees, glzt!Update

LEMMA GainSet ==
  ASSUME Remembered, NEW v \in 0 .. glzt!MaxLevel,
         glzt!SetGain(v) \/ ar7240!SetGain(v)
  PROVE  /\ Remembered' /\ UNCHANGED <<wm8978_volume, out>>
         /\ asked'.volume = asked.volume
<1>1. /\ mixer_igain' = glzt!Gain(v)
      /\ asked' = [asked EXCEPT !.gain = v]
      /\ UNCHANGED <<wm8978_volume, out>>
  BY SameMixer DEF glzt!SetGain, ar7240!SetGain
<1>2. /\ asked'.gain = v /\ asked'.volume = asked.volume
      /\ asked' \in [volume : 0 .. glzt!MaxLevel, gain : 0 .. glzt!MaxLevel]
  BY <1>1 DEF Remembered
<1> QED BY <1>1, <1>2 DEF Remembered

(***************************************************************************)
(* glzt_i2s.c.                                                             *)
(***************************************************************************)
LEMMA FormatsReset ==
  /\ \A format \in glzt!Formats : "RESET" \in format
  /\ glzt!Plain \in glzt!Formats /\ glzt!Wide \in glzt!Formats /\ glzt!Left \in glzt!Formats
BY DEF glzt!Formats, glzt!Plain, glzt!Wide, glzt!Left

(* The parts of glzt!TypeOK that its ioctl() changes.                      *)
GlztRest ==
  /\ stage \in 0 .. 4
  /\ clk_div \in glzt!Rates \cup {0}
  /\ audio_rate \in Asked \cup glzt!Rates \cup {0}
  /\ audio_channels \in Channels \cup {2}
  /\ at \subseteq Callers
  /\ by_freq \in BOOLEAN

GlztFormat ==
  /\ config \in {{}} \cup glzt!Formats \cup {f \ {"RESET"} : f \in glzt!Formats}
  /\ stereo_config_variable \in glzt!Formats \cup {{}}
  /\ glzt!ConfigAgrees

GlztInv ==
  /\ GlztRest /\ GlztFormat /\ Remembered
  /\ glzt!RateAgrees /\ glzt!VolumeAgrees
  /\ stage < 2 => at = {} /\ asked.volume = 0

LEMMA FormatKnown ==
  ASSUME GlztFormat, stage > 0
  PROVE  stereo_config_variable \in glzt!Formats
<1>1. "RESET" \in stereo_config_variable
  BY DEF GlztFormat, glzt!ConfigAgrees
<1> QED BY <1>1 DEF GlztFormat

LEMMA FormatWritten ==
  ASSUME stereo_config_variable' \in glzt!Formats,
         config' = stereo_config_variable'
            \/ config' = stereo_config_variable' \ {"RESET"}
  PROVE  GlztFormat'
<1>1. "RESET" \in stereo_config_variable'
  BY FormatsReset
<1>2. config' \cup {"RESET"} = stereo_config_variable'
  BY <1>1
<1> QED BY <1>2 DEF GlztFormat, glzt!ConfigAgrees

(* The common end.                                                         *)
LEMMA EndOfIoctl ==
  ASSUME GlztInv, stage >= 2, UNCHANGED stage,
         stereo_config_variable' \in glzt!Formats,
         glzt!CommonEnd(stereo_config_variable')
  PROVE  /\ GlztFormat' /\ Remembered' /\ glzt!VolumeAgrees'
         /\ stage' >= 2
<1>1. config' = stereo_config_variable' /\ glzt!SetVolume(100)
  BY DEF glzt!CommonEnd, glzt!config_written
<1>2. 100 \in 0 .. glzt!MaxLevel
  BY LevelRange
<1>3. Remembered' /\ glzt!VolumeAgrees'
  BY <1>1, <1>2, VolumeSet DEF GlztInv
<1> QED BY <1>1, <1>3, FormatWritten

LEMMA GlztIoctl ==
  ASSUME SettingsAssumption, GlztInv, NEW c \in Callers, glzt!ar7240_i2s_ioctl(c)
  PROVE  GlztInv'
<1>0. GlztRest /\ GlztFormat /\ Remembered /\ glzt!RateAgrees /\ glzt!VolumeAgrees
  BY DEF GlztInv
<1>1. stage >= 2 /\ stage' = stage /\ stage > 0 /\ stage \in Nat
  <2>1. CASE glzt!Uses(c)
    <3>1. stage >= 2
      BY <2>1 DEF glzt!Uses
    <3>2. stage' = stage
      BY DEF glzt!ar7240_i2s_ioctl, glzt!I2S_FREQ, glzt!I2S_DSIZE,
        glzt!SNDCTL_DSP_CHANNELS, glzt!NoUse, glzt!SNDCTL_DSP_SPEED,
        glzt!ReadBack, glzt!Answered
    <3> QED BY <3>1, <3>2, <1>0 DEF GlztRest
  <2>2. CASE glzt!Answered(c)
    <3>1. c \in at /\ stage' = stage
      BY <2>2 DEF glzt!Answered
    <3>2. ~(stage < 2)
      BY <3>1 DEF GlztInv
    <3> QED BY <3>1, <3>2, <1>0 DEF GlztRest
  <2> QED BY <2>1, <2>2 DEF glzt!ar7240_i2s_ioctl, glzt!I2S_FREQ, glzt!I2S_DSIZE,
      glzt!SNDCTL_DSP_CHANNELS, glzt!NoUse, glzt!SNDCTL_DSP_SPEED, glzt!ReadBack
<1>2. stereo_config_variable \in glzt!Formats
  BY <1>0, <1>1, FormatKnown
<1>3. CASE glzt!I2S_FREQ(c)
  <2>1. /\ clk_div' \in glzt!Rates /\ by_freq' = TRUE
        /\ stereo_config_variable' = stereo_config_variable
        /\ glzt!CommonEnd(stereo_config_variable')
        /\ UNCHANGED <<audio_rate, audio_channels, at>>
    BY <1>3 DEF glzt!I2S_FREQ, glzt!Rates
  <2>2. GlztFormat' /\ Remembered' /\ glzt!VolumeAgrees' /\ stage' >= 2
    BY <1>1, <1>2, <2>1, EndOfIoctl
  <2>3. GlztRest'
    BY <1>0, <1>1, <2>1 DEF GlztRest
  <2>4. glzt!RateAgrees'
    BY <2>1 DEF glzt!RateAgrees
  <2> QED BY <1>1, <2>2, <2>3, <2>4 DEF GlztInv
<1>4. CASE glzt!I2S_DSIZE(c)
  <2>1. /\ stereo_config_variable' \in glzt!Formats
        /\ glzt!CommonEnd(stereo_config_variable')
        /\ UNCHANGED <<clk_div, audio_rate, audio_channels, at, by_freq>>
    BY <1>2, <1>4, FormatsReset DEF glzt!I2S_DSIZE
  <2>2. GlztFormat' /\ Remembered' /\ glzt!VolumeAgrees' /\ stage' >= 2
    BY <1>1, <2>1, EndOfIoctl
  <2>3. GlztRest' /\ glzt!RateAgrees'
    BY <1>0, <1>1, <2>1 DEF GlztRest, glzt!RateAgrees
  <2> QED BY <1>1, <2>2, <2>3 DEF GlztInv
<1>5. CASE glzt!SNDCTL_DSP_CHANNELS(c)
  <2>1. /\ stereo_config_variable' \in glzt!Formats /\ audio_channels' \in Channels
        /\ glzt!CommonEnd(stereo_config_variable')
        /\ UNCHANGED <<clk_div, audio_rate, at, by_freq>>
    BY <1>5, FormatsReset DEF glzt!SNDCTL_DSP_CHANNELS
  <2>2. GlztFormat' /\ Remembered' /\ glzt!VolumeAgrees' /\ stage' >= 2
    BY <1>1, <2>1, EndOfIoctl
  <2>3. GlztRest' /\ glzt!RateAgrees'
    BY <1>0, <1>1, <2>1 DEF GlztRest, glzt!RateAgrees
  <2> QED BY <1>1, <2>2, <2>3 DEF GlztInv
<1>6. CASE glzt!NoUse(c) \/ glzt!Answered(c)
  <2>1. /\ stereo_config_variable' = stereo_config_variable
        /\ glzt!CommonEnd(stereo_config_variable')
        /\ at' \subseteq at
        /\ UNCHANGED <<clk_div, audio_rate, audio_channels, by_freq>>
    BY <1>6 DEF glzt!NoUse, glzt!Answered
  <2>2. GlztFormat' /\ Remembered' /\ glzt!VolumeAgrees' /\ stage' >= 2
    BY <1>1, <1>2, <2>1, EndOfIoctl
  <2>3. GlztRest' /\ glzt!RateAgrees'
    BY <1>0, <1>1, <2>1 DEF GlztRest, glzt!RateAgrees
  <2> QED BY <1>1, <2>2, <2>3 DEF GlztInv
<1>7. CASE glzt!SNDCTL_DSP_SPEED(c) \/ glzt!ReadBack(c)
  <2>1. UNCHANGED <<config, stereo_config_variable, audio_channels,
                    wm8978_volume, mixer_igain, out, asked>>
    BY <1>7 DEF glzt!SNDCTL_DSP_SPEED, glzt!ReadBack, glzt!mixer_vars
  <2>2. GlztFormat' /\ Remembered' /\ glzt!VolumeAgrees'
    BY <1>0, <1>1, <2>1 DEF GlztFormat, Remembered, glzt!ConfigAgrees, glzt!VolumeAgrees
  <2>3. GlztRest' /\ glzt!RateAgrees'
    <3>1. CASE glzt!ReadBack(c)
      BY <1>0, <1>1, <3>1 DEF glzt!ReadBack, GlztRest, glzt!RateAgrees
    <3>2. CASE glzt!SNDCTL_DSP_SPEED(c)
      <4>1. PICK rate \in Asked : glzt!speed(c, rate)
        BY <3>2 DEF glzt!SNDCTL_DSP_SPEED
      <4>2. CASE rate \in glzt!Rates
        BY <1>0, <1>1, <2>1, <4>1, <4>2 DEF glzt!speed, GlztRest, glzt!RateAgrees
      <4>3. CASE rate \notin glzt!Rates
        BY <1>0, <1>1, <2>1, <4>1, <4>3 DEF glzt!speed, GlztRest, glzt!RateAgrees
      <4> QED BY <4>2, <4>3
    <3> QED BY <1>7, <3>1, <3>2
  <2> QED BY <1>1, <2>2, <2>3 DEF GlztInv
<1> QED BY <1>3, <1>4, <1>5, <1>6, <1>7 DEF glzt!ar7240_i2s_ioctl

LEMMA GlztStep ==
  ASSUME SettingsAssumption, GlztInv, glzt!Next PROVE GlztInv'
<1>0. /\ GlztRest /\ GlztFormat /\ Remembered /\ glzt!RateAgrees /\ glzt!VolumeAgrees
      /\ stage < 2 => at = {} /\ asked.volume = 0
  BY DEF GlztInv
<1>1. CASE glzt!ar7240_i2s_init_module
  <2>1. CASE stage = 0 /\ stage' = 1
    <3>1. /\ stereo_config_variable' = glzt!Plain
          /\ config' = glzt!Plain \ {"RESET"}
          /\ clk_div' = 44100 /\ audio_rate' = 44100 /\ by_freq' = FALSE
          /\ out' = [side \in {"left", "right"} |-> 57]
          /\ UNCHANGED <<audio_channels, at, wm8978_volume, mixer_igain, asked>>
      BY <1>1, <2>1 DEF glzt!ar7240_i2s_init_module, glzt!init_s3c2410_iis_bus,
        glzt!CodecDefault
    <3>2. GlztFormat'
      BY <3>1, FormatsReset, FormatWritten
    <3>10. by_freq' = FALSE
      BY <1>1, <2>1 DEF glzt!ar7240_i2s_init_module, glzt!init_s3c2410_iis_bus
    <3>9. by_freq' \in BOOLEAN
      BY <3>10
    <3>8. /\ stage' \in 0 .. 4 /\ clk_div' \in glzt!Rates \cup {0}
          /\ audio_rate' \in Asked \cup glzt!Rates \cup {0}
          /\ audio_rate' = clk_div'
      BY <2>1, <3>1 DEF glzt!Rates
    <3>3. GlztRest' /\ glzt!RateAgrees'
      <4>1. GlztRest'
        BY <1>0, <3>1, <3>8, <3>9 DEF GlztRest
      <4> QED BY <3>8, <4>1 DEF glzt!RateAgrees
    <3>4. Remembered'
      BY <1>0, <3>1 DEF Remembered
    <3>5. asked.volume = 0 /\ at = {}
      BY <1>0, <2>1
    <3>6. wm8978_volume = 0
      BY <1>0, <3>5 DEF Remembered, glzt!Level
    <3>7. glzt!VolumeAgrees' /\ (stage' < 2 => at' = {} /\ asked'.volume = 0)
      BY <3>1, <3>5, <3>6 DEF glzt!VolumeAgrees
    <3> QED BY <3>2, <3>3, <3>4, <3>7 DEF GlztInv
  <2>2. CASE /\ stage \in 1 .. 3 /\ stage' = stage + 1
             /\ UNCHANGED <<clk_div, config, stereo_config_variable, audio_rate,
                            audio_channels, at, by_freq, glzt!mixer_vars>>
    <3>1. UNCHANGED <<wm8978_volume, mixer_igain, out, asked>>
      BY <2>2 DEF glzt!mixer_vars
    <3>2. GlztFormat' /\ GlztRest' /\ glzt!RateAgrees'
      BY <1>0, <2>2 DEF GlztFormat, GlztRest, glzt!RateAgrees, glzt!ConfigAgrees
    <3>3. Remembered' /\ glzt!VolumeAgrees'
      BY <1>0, <3>1 DEF Remembered, glzt!VolumeAgrees
    <3>4. stage' < 2 => at' = {} /\ asked'.volume = 0
      BY <1>0, <2>2, <3>1
    <3> QED BY <3>2, <3>3, <3>4 DEF GlztInv
  <2> QED BY <1>1, <2>1, <2>2 DEF glzt!ar7240_i2s_init_module
<1>2. CASE glzt!ar7240_i2s_cleanup_module
  <2>1. /\ at = {} /\ stage' = 0 /\ stereo_config_variable' = {}
        /\ audio_rate' = 0 /\ audio_channels' = 2 /\ by_freq' = FALSE
        /\ wm8978_volume' = 0 /\ mixer_igain' = 4
        /\ asked' = [volume |-> 0, gain |-> 90]
        /\ UNCHANGED <<clk_div, config, at, out>>
    BY <1>2 DEF glzt!ar7240_i2s_cleanup_module
  <2>2. GlztFormat'
    BY <1>0, <2>1 DEF GlztFormat, glzt!ConfigAgrees
  <2>5. GlztRest' /\ glzt!RateAgrees'
    <3>1. ~(stage' > 0)
      BY <2>1
    <3>3. by_freq' \in BOOLEAN
      BY <2>1
    <3>4. stage' \in 0 .. 4 /\ 0 \in Asked \cup glzt!Rates \cup {0}
      BY <2>1
    <3>2. GlztRest'
      BY <1>0, <2>1, <3>3, <3>4 DEF GlztRest
    <3> QED BY <3>1, <3>2 DEF glzt!RateAgrees
  <2>3. Remembered'
    <3>1. glzt!Level(0) = 0 /\ glzt!Gain(90) = 4
      BY DEF glzt!Level, glzt!Gain, glzt!Quotient
    <3>2. 0 \in 0 .. glzt!MaxLevel /\ 90 \in 0 .. glzt!MaxLevel
      BY LevelRange
    <3> QED BY <1>0, <2>1, <3>1, <3>2 DEF Remembered
  <2>4. glzt!VolumeAgrees' /\ at' = {} /\ asked'.volume = 0
    BY <2>1 DEF glzt!VolumeAgrees
  <2> QED BY <2>2, <2>3, <2>4, <2>5 DEF GlztInv
<1>3. CASE \E c \in Callers : glzt!ar7240_i2s_ioctl(c)
  BY <1>3, GlztIoctl
<1>4. CASE glzt!MixerCall
  <2>1. /\ stage >= 2
        /\ UNCHANGED <<stage, clk_div, config, stereo_config_variable, audio_rate,
                       audio_channels, at, by_freq>>
    BY <1>4 DEF glzt!MixerCall, glzt!dsp_vars
  <2>2. GlztFormat' /\ GlztRest' /\ glzt!RateAgrees'
    BY <1>0, <2>1 DEF GlztFormat, GlztRest, glzt!RateAgrees, glzt!ConfigAgrees
  <2>3. ~(stage' < 2)
    BY <1>0, <2>1 DEF GlztRest
  <2>4. PICK v \in 0 .. glzt!MaxLevel : glzt!SetVolume(v) \/ glzt!SetGain(v)
    BY <1>4 DEF glzt!MixerCall, glzt!smdk2410_mixer_ioctl, SettingsAssumption,
      glzt!ValuesAssumption
  <2>5. Remembered' /\ glzt!VolumeAgrees'
    <3>1. CASE glzt!SetVolume(v)
      BY <1>0, <3>1, VolumeSet
    <3>2. CASE glzt!SetGain(v)
      <4>1. /\ Remembered' /\ UNCHANGED <<wm8978_volume, out>>
            /\ asked'.volume = asked.volume
        BY <1>0, <3>2, GainSet
      <4> QED BY <1>0, <4>1 DEF glzt!VolumeAgrees
    <3> QED BY <2>4, <3>1, <3>2
  <2> QED BY <2>2, <2>3, <2>5 DEF GlztInv
<1>5. CASE glzt!HardwareClearsReset
  <2>1. /\ "RESET" \in config /\ config' = config \ {"RESET"}
        /\ UNCHANGED <<stage, clk_div, stereo_config_variable, audio_rate,
                 audio_channels, at, by_freq, wm8978_volume, mixer_igain, out, asked>>
    BY <1>5 DEF glzt!HardwareClearsReset, glzt!mixer_vars
  <2>2. config' \cup {"RESET"} = config \cup {"RESET"}
    BY <2>1
  <2>3. GlztFormat'
    <3>1. config' \in {f \ {"RESET"} : f \in glzt!Formats}
      BY <1>0, <2>1 DEF GlztFormat
    <3> QED BY <1>0, <2>1, <2>2, <3>1 DEF GlztFormat, glzt!ConfigAgrees
  <2>4. GlztRest' /\ glzt!RateAgrees' /\ Remembered' /\ glzt!VolumeAgrees'
    BY <1>0, <2>1 DEF GlztRest, glzt!RateAgrees, Remembered, glzt!VolumeAgrees
  <2> QED BY <1>0, <2>1, <2>3, <2>4 DEF GlztInv
<1> QED BY <1>1, <1>2, <1>3, <1>4, <1>5 DEF glzt!Next

LEMMA GlztStarts ==
  ASSUME glzt!Init PROVE GlztInv
<1>1. Remembered /\ asked.volume = 0 /\ wm8978_volume = 0
  BY MixerStarts DEF glzt!Init, glzt!MixerInit
<1>2. GlztFormat
  BY DEF glzt!Init, GlztFormat, glzt!ConfigAgrees
<1>4. GlztRest /\ glzt!RateAgrees
  <2>1. by_freq = FALSE /\ stage = 0
    BY DEF glzt!Init
  <2>3. by_freq \in BOOLEAN
    BY <2>1
  <2>2. GlztRest
    BY <2>1, <2>3 DEF glzt!Init, GlztRest
  <2>4. ~(stage > 0)
    BY <2>1
  <2> QED BY <2>2, <2>4 DEF glzt!RateAgrees
<1>3. glzt!VolumeAgrees /\ at = {}
  BY <1>1 DEF glzt!VolumeAgrees, glzt!Init
<1> QED BY <1>1, <1>2, <1>3, <1>4 DEF GlztInv

(***************************************************************************)
(* ar7240_i2s.c.                                                           *)
(***************************************************************************)
(* The parts of ar7240!TypeOK that are not the mixer's.                    *)
OldTypes ==
  /\ stage \in 0 .. 5
  /\ clk_div \in ar7240!Rates \cup {0}
  /\ audio_rate \in Asked \cup {0}
  /\ audio_channels \in Channels \cup {0}
  /\ at \in [Callers -> {"idle", "channels", "speed", "mixer"}]
  /\ overridden \subseteq {"rate", "volume", "mono"}

OldFormat ==
  /\ config \subseteq ar7240!Bits
  /\ ~({"WS_8B", "WS_16B"} \subseteq config)
  /\ ar7240!MonoAgrees

OldInv ==
  /\ OldTypes /\ OldFormat /\ Remembered
  /\ ar7240!RateAgrees /\ ar7240!VolumeAgreesUnlessLost

LEMMA OldBits ==
  /\ ar7240!AR7240_STEREO_CONFIG_DEFAULT \subseteq ar7240!Bits
  /\ {"PCM_SWAP", "WS_8B", "WS_16B", "I2S_32B_WORD", "MONO"} \subseteq ar7240!Bits
  /\ \A b \in {"WS_8B", "WS_16B", "MONO"} : b \notin ar7240!AR7240_STEREO_CONFIG_DEFAULT
BY DEF ar7240!Bits, ar7240!AR7240_STEREO_CONFIG_DEFAULT

LEMMA OldLoading ==
  ASSUME OldInv, ar7240!ar7240_i2s_init_module PROVE OldInv'
<1>0. /\ OldTypes /\ OldFormat /\ Remembered
      /\ ar7240!RateAgrees /\ ar7240!VolumeAgreesUnlessLost
  BY DEF OldInv
<1>1. /\ stage' = stage + 1 /\ stage' \in 0 .. 5
      /\ UNCHANGED <<audio_rate, audio_channels, at, wm8978_volume,
                     mixer_igain, asked>>
  BY <1>0 DEF ar7240!ar7240_i2s_init_module, OldTypes
<1>2. CASE ar7240!ar7240_i2sound_i2slink_on
  <2>1. /\ config' = (ar7240!AR7240_STEREO_CONFIG_DEFAULT \ {"RESET"})
                       \cup {"PCM_SWAP", "WS_16B", "I2S_32B_WORD"}
        /\ clk_div' = 44100
        /\ out' = [side \in {"left", "right"} |-> 57]
        /\ overridden' = {"rate", "volume", "mono"}
    BY <1>2 DEF ar7240!ar7240_i2sound_i2slink_on, ar7240!CodecDefault
  <2>2. OldFormat'
    BY <1>1, <2>1, OldBits DEF OldFormat, ar7240!MonoAgrees
  <2>3. Remembered'
    BY <1>0, <1>1, <2>1 DEF Remembered
  <2>4. clk_div' \in ar7240!Rates
    BY <2>1 DEF ar7240!Rates
  <2>5. OldTypes'
    BY <1>0, <1>1, <2>1, <2>4 DEF OldTypes
  <2>6. ar7240!RateAgrees' /\ ar7240!VolumeAgreesUnlessLost'
    BY <2>1 DEF ar7240!RateAgrees, ar7240!VolumeAgreesUnlessLost
  <2> QED BY <2>2, <2>3, <2>5, <2>6 DEF OldInv
<1>3. CASE UNCHANGED <<clk_div, config, overridden, out>>
  <2>1. OldTypes' /\ OldFormat'
    BY <1>0, <1>1, <1>3 DEF OldTypes, OldFormat, ar7240!MonoAgrees
  <2>2. /\ Remembered' /\ ar7240!RateAgrees'
        /\ ar7240!VolumeAgreesUnlessLost'
    BY <1>0, <1>1, <1>3 DEF Remembered, ar7240!RateAgrees,
      ar7240!VolumeAgreesUnlessLost, ar7240!VolumeAgrees
  <2> QED BY <2>1, <2>2 DEF OldInv
<1> QED BY <1>2, <1>3 DEF ar7240!ar7240_i2s_init_module

LEMMA OldUnloading ==
  ASSUME OldInv, ar7240!ar7240_i2s_cleanup_module PROVE OldInv'
<1>0. OldTypes /\ OldFormat /\ Remembered
  BY DEF OldInv
<1>1. /\ stage' = 0 /\ audio_rate' = 0 /\ audio_channels' = 0
      /\ overridden' = {"mono"}
      /\ wm8978_volume' = 0 /\ mixer_igain' = 4
      /\ asked' = [volume |-> 0, gain |-> 90]
      /\ UNCHANGED <<clk_div, config, at, out>>
  BY DEF ar7240!ar7240_i2s_cleanup_module
<1>2. OldTypes'
  BY <1>0, <1>1 DEF OldTypes
<1>3. OldFormat'
  BY <1>0, <1>1 DEF OldFormat, ar7240!MonoAgrees
<1>4. Remembered'
  <2>1. glzt!Level(0) = 0 /\ glzt!Gain(90) = 4
    BY DEF glzt!Level, glzt!Gain, glzt!Quotient
  <2>2. 0 \in 0 .. glzt!MaxLevel /\ 90 \in 0 .. glzt!MaxLevel
    BY LevelRange
  <2> QED BY <1>0, <1>1, <2>1, <2>2 DEF Remembered
<1>5. ar7240!RateAgrees' /\ ar7240!VolumeAgreesUnlessLost'
  <2>1. asked'.volume = 0
    BY <1>1
  <2>2. audio_rate' \notin ar7240!Rates
    BY <1>1 DEF ar7240!Rates
  <2> QED BY <1>1, <2>1, <2>2 DEF ar7240!RateAgrees,
        ar7240!VolumeAgreesUnlessLost, ar7240!VolumeAgrees
<1> QED BY <1>2, <1>3, <1>4, <1>5 DEF OldInv

(* A call of the mixer, by its own device or through the dsp's.            *)
LEMMA OldMixer ==
  ASSUME SettingsAssumption, OldInv, ar7240!Mix
  PROVE  /\ Remembered' /\ ar7240!VolumeAgreesUnlessLost'
         /\ overridden' \in {overridden, overridden \ {"volume"}}
<1>0. Remembered /\ ar7240!VolumeAgreesUnlessLost
  BY DEF OldInv
<1>1. /\ ar7240!smdk2410_mixer_ioctl
      /\ overridden' = IF out' = out THEN overridden ELSE overridden \ {"volume"}
  BY DEF ar7240!Mix
<1>2. PICK v \in 0 .. glzt!MaxLevel : ar7240!SetVolume(v) \/ ar7240!SetGain(v)
  BY <1>1 DEF ar7240!smdk2410_mixer_ioctl, SettingsAssumption,
    glzt!ValuesAssumption
<1>3. CASE ar7240!SetVolume(v)
  <2>1. Remembered' /\ glzt!VolumeAgrees'
    BY <1>0, <1>3, VolumeSet
  <2> QED BY <1>1, <2>1 DEF glzt!VolumeAgrees, glzt!Update, ar7240!VolumeAgrees,
        ar7240!Update, ar7240!VolumeAgreesUnlessLost
<1>4. CASE ar7240!SetGain(v)
  <2>1. /\ Remembered' /\ UNCHANGED <<wm8978_volume, out>>
        /\ asked'.volume = asked.volume
    BY <1>0, <1>4, GainSet
  <2>2. overridden' = overridden
    BY <1>1, <2>1
  <2> QED BY <1>0, <2>1, <2>2 DEF ar7240!VolumeAgreesUnlessLost,
        ar7240!VolumeAgrees
<1> QED BY <1>2, <1>3, <1>4

LEMMA OldStep ==
  ASSUME SettingsAssumption, OldInv, ar7240!Next PROVE OldInv'
<1>0. /\ OldTypes /\ OldFormat /\ Remembered
      /\ ar7240!RateAgrees /\ ar7240!VolumeAgreesUnlessLost
  BY DEF OldInv
<1>1. CASE \E c \in Callers : ar7240!Head(c)
  <2>1. PICK c \in Callers : ar7240!Head(c)
    BY <1>1
  <2>2. /\ config' = ar7240!AR7240_STEREO_CONFIG_DEFAULT \cup {"WS_8B"}
        /\ ar7240!SetVolume(50)
        /\ overridden' = (overridden \ {"volume"}) \cup {"mono"}
        /\ UNCHANGED <<stage, clk_div, audio_rate, audio_channels>>
    BY <2>1 DEF ar7240!Head
  <2>3. at' \in [Callers -> {"idle", "channels", "speed", "mixer"}]
    BY <1>0, <2>1 DEF ar7240!Head, OldTypes
  <2>4. OldTypes'
    BY <1>0, <2>2, <2>3 DEF OldTypes
  <2>5. OldFormat'
    BY <2>2, OldBits DEF OldFormat, ar7240!MonoAgrees
  <2>6. 50 \in 0 .. glzt!MaxLevel
    BY LevelRange
  <2>7. Remembered' /\ glzt!VolumeAgrees'
    BY <1>0, <2>2, <2>6, VolumeSet
  <2>8. ar7240!VolumeAgreesUnlessLost' /\ ar7240!RateAgrees'
    BY <1>0, <2>2, <2>7 DEF glzt!VolumeAgrees, glzt!Update, ar7240!VolumeAgrees,
      ar7240!Update, ar7240!VolumeAgreesUnlessLost, ar7240!RateAgrees
  <2> QED BY <2>4, <2>5, <2>7, <2>8 DEF OldInv
<1>2. CASE \E c \in Callers : ar7240!SNDCTL_DSP_CHANNELS(c)
  <2>1. PICK c \in Callers : ar7240!SNDCTL_DSP_CHANNELS(c)
    BY <1>2
  <2>2. at' \in [Callers -> {"idle", "channels", "speed", "mixer"}]
    BY <1>0, <2>1 DEF ar7240!SNDCTL_DSP_CHANNELS, ar7240!Resumes, OldTypes
  <2>3. PICK data_ \in Channels :
          audio_channels' = data_ /\ config' = ar7240!rmw_mono(data_)
    BY <2>1 DEF ar7240!SNDCTL_DSP_CHANNELS
  <2>4. /\ overridden' = overridden \ {"mono"}
        /\ UNCHANGED <<stage, clk_div, audio_rate, wm8978_volume,
             mixer_igain, out, asked>>
    BY <2>1 DEF ar7240!SNDCTL_DSP_CHANNELS, ar7240!mixer_vars
  <2>5. OldTypes'
    BY <1>0, <2>2, <2>3, <2>4 DEF OldTypes
  <2>6. OldFormat'
    BY <1>0, <2>3, OldBits DEF OldFormat, ar7240!MonoAgrees, ar7240!rmw_mono
  <2>7. /\ Remembered' /\ ar7240!RateAgrees'
        /\ ar7240!VolumeAgreesUnlessLost'
    BY <1>0, <2>4 DEF Remembered, ar7240!RateAgrees,
      ar7240!VolumeAgreesUnlessLost, ar7240!VolumeAgrees
  <2> QED BY <2>5, <2>6, <2>7 DEF OldInv
<1>3. CASE \E c \in Callers : ar7240!SNDCTL_DSP_SPEED(c)
  <2>1. PICK c \in Callers : ar7240!SNDCTL_DSP_SPEED(c)
    BY <1>3
  <2>2. at' \in [Callers -> {"idle", "channels", "speed", "mixer"}]
    BY <1>0, <2>1 DEF ar7240!SNDCTL_DSP_SPEED, ar7240!Resumes, OldTypes
  <2>3. PICK rate \in Asked :
          /\ audio_rate' = rate /\ clk_div' = ar7240!clock_for(rate)
          /\ overridden' = IF rate \in ar7240!Rates
                             THEN overridden \ {"rate"} ELSE overridden
    BY <2>1 DEF ar7240!SNDCTL_DSP_SPEED
  <2>4. UNCHANGED <<stage, config, audio_channels, wm8978_volume,
                    mixer_igain, out, asked>>
    BY <2>1 DEF ar7240!SNDCTL_DSP_SPEED, ar7240!mixer_vars
  <2>5. /\ clk_div' \in ar7240!Rates \cup {0}
        /\ rate \in ar7240!Rates => clk_div' = rate
    BY <1>0, <2>3 DEF ar7240!clock_for, OldTypes
  <2>6. OldTypes'
    BY <1>0, <2>2, <2>3, <2>4, <2>5 DEF OldTypes
  <2>7. OldFormat'
    BY <1>0, <2>3, <2>4 DEF OldFormat, ar7240!MonoAgrees
  <2>8. Remembered' /\ ar7240!VolumeAgreesUnlessLost'
    BY <1>0, <2>3, <2>4 DEF Remembered, ar7240!VolumeAgreesUnlessLost,
      ar7240!VolumeAgrees
  <2>9. ar7240!RateAgrees'
    BY <2>3, <2>5 DEF ar7240!RateAgrees
  <2> QED BY <2>6, <2>7, <2>8, <2>9 DEF OldInv
<1>4. CASE (\E c \in Callers : ar7240!MixerOfDsp(c)) \/ ar7240!MixerDevice
  <2>1. /\ ar7240!Mix
        /\ UNCHANGED <<stage, clk_div, config, audio_rate, audio_channels>>
    BY <1>4 DEF ar7240!MixerOfDsp, ar7240!MixerDevice
  <2>2. at' \in [Callers -> {"idle", "channels", "speed", "mixer"}]
    BY <1>0, <1>4 DEF ar7240!MixerOfDsp, ar7240!MixerDevice, ar7240!Resumes,
      OldTypes
  <2>3. /\ Remembered' /\ ar7240!VolumeAgreesUnlessLost'
        /\ overridden' \in {overridden, overridden \ {"volume"}}
    BY <2>1, OldMixer
  <2>4. OldTypes'
    BY <1>0, <2>1, <2>2, <2>3 DEF OldTypes
  <2>5. OldFormat' /\ ar7240!RateAgrees'
    BY <1>0, <2>1, <2>3 DEF OldFormat, ar7240!MonoAgrees, ar7240!RateAgrees
  <2> QED BY <2>3, <2>4, <2>5 DEF OldInv
<1>5. CASE ar7240!HardwareClearsReset
  <2>1. /\ config' = config \ {"RESET"}
        /\ UNCHANGED <<stage, clk_div, audio_rate, audio_channels, at,
                       overridden, wm8978_volume, mixer_igain, out, asked>>
    BY <1>5 DEF ar7240!HardwareClearsReset, ar7240!mixer_vars
  <2>2. OldFormat'
    BY <1>0, <2>1 DEF OldFormat, ar7240!MonoAgrees
  <2>3. OldTypes' /\ ar7240!RateAgrees'
    BY <1>0, <2>1 DEF OldTypes, ar7240!RateAgrees
  <2>4. Remembered' /\ ar7240!VolumeAgreesUnlessLost'
    BY <1>0, <2>1 DEF Remembered, ar7240!VolumeAgreesUnlessLost,
      ar7240!VolumeAgrees
  <2> QED BY <2>2, <2>3, <2>4 DEF OldInv
<1> QED BY <1>1, <1>2, <1>3, <1>4, <1>5, OldLoading, OldUnloading
      DEF ar7240!Next, ar7240!ar7240_i2s_ioctl

LEMMA OldStarts ==
  ASSUME ar7240!Init PROVE OldInv
<1>1. Remembered /\ asked.volume = 0 /\ wm8978_volume = 0
  <2>1. glzt!MixerInit
    BY SameMixer DEF ar7240!Init
  <2> QED BY <2>1, MixerStarts DEF glzt!MixerInit
<1>2. overridden = {"mono"} /\ audio_rate \notin ar7240!Rates
  BY DEF ar7240!Init, ar7240!Rates
<1>3. OldTypes
  BY <1>2 DEF ar7240!Init, OldTypes
<1>4. OldFormat
  BY <1>2 DEF ar7240!Init, OldFormat, ar7240!MonoAgrees
<1>5. ar7240!RateAgrees /\ ar7240!VolumeAgreesUnlessLost
  BY <1>1, <1>2 DEF ar7240!RateAgrees, ar7240!VolumeAgreesUnlessLost,
    ar7240!VolumeAgrees
<1> QED BY <1>1, <1>3, <1>4, <1>5 DEF OldInv

(***************************************************************************)
(* ath_i2s.c.                                                              *)
(***************************************************************************)
AthTypes ==
  /\ stage \in {"out", "chrdev", "irq", "in"}
  /\ config \subseteq ath!Bits
  /\ frac \in ath!Fracs \cup {"reset"}
  /\ pll \in {"0x61a1", "0x61a2", "reset"}
  /\ dpll \in BOOLEAN
  /\ popened \in BOOLEAN
  /\ kernel \in BOOLEAN
  /\ pc \in {"none", "opened", "freq", "playing"}
  /\ song \in Songs
  /\ told \in Volumes \cup {15}
  /\ others \in BOOLEAN

(* The song's rate, from the moment the player has set it.                 *)
RateIsTheSongs ==
  song.freq \in ath!Freqs =>
    /\ frac \in IF song.freq = 44100 THEN {"0x15a2102a", "0x30a9036"}
                                     ELSE {"0x127bb02e", "0xfb7e83a"}
    /\ (pll = "0x61a2") = (ath_ref_freq # 25)
    /\ pll = "0x61a2" => dpll

SizeIsTheSongs == song.size \in ath!Sizes => config = ath!st_cfg(song.size)

OnePlayerOnly ==
  /\ popened <=> pc # "none" \/ kernel
  /\ ~(pc # "none" /\ kernel)

AthInv ==
  /\ AthTypes
  /\ volume = ath!mask(told)
  /\ OnePlayerOnly
  /\ pc \in {"freq", "playing"} /\ ~others => RateIsTheSongs
  /\ pc = "playing" /\ ~others => SizeIsTheSongs

LEMMA MaskRange ==
  ASSUME NEW v \in Int
  PROVE  ath!mask(v) \in 0 .. 31 /\ ath!mask(15) = 0
BY DEF ath!mask

(* Twice as loud is the next value, but for the two ends.                  *)
LEMMA MaskGrows ==
  ASSUME NEW v \in Int, NEW w \in Int, 0 <= v, v < w
  PROVE  ath!Loudness(ath!mask(v)) <= ath!Loudness(ath!mask(w))
<1>1. CASE v < 15
  <2>1. ath!mask(v) = 31 - v /\ ath!Loudness(31 - v) = v - 15
    BY <1>1 DEF ath!mask, ath!Loudness
  <2>2. CASE w < 15
    <3>1. ath!mask(w) = 31 - w /\ ath!Loudness(31 - w) = w - 15
      BY <2>2 DEF ath!mask, ath!Loudness
    <3> QED BY <2>1, <3>1
  <2>3. CASE w >= 15
    <3>1. ath!mask(w) \in 0 .. 7 /\ ath!Loudness(ath!mask(w)) = ath!mask(w)
      BY <2>3 DEF ath!mask, ath!Loudness
    <3> QED BY <1>1, <2>1, <3>1
  <2> QED BY <2>2, <2>3
<1>2. CASE v >= 15
  <2>1. ath!mask(v) \in 0 .. 7 /\ ath!mask(w) \in 0 .. 7 /\ ath!mask(v) <= ath!mask(w)
    BY <1>2 DEF ath!mask
  <2> QED BY <2>1 DEF ath!Loudness
<1> QED BY <1>1, <1>2

LEMMA FormatOfSize ==
  ASSUME NEW size \in ath!Sizes
  PROVE  /\ ath!st_cfg(size) \subseteq ath!Bits
         /\ "RESET" \notin ath!st_cfg(size)
  BY DEF ath!st_cfg, ath!Sizes, ath!Bits, ath!ATH_STEREO_CONFIG_DEFAULT

LEMMA ResetOfBlock ==
  ASSUME ath!ath_i2s_init_reg
  PROVE  config' \subseteq ath!Bits /\ volume' = ath!mask(15) /\ told' = 15
BY DEF ath!ath_i2s_init_reg, ath!Bits, ath!mask

LEMMA FreqSet ==
  ASSUME NEW freq, ath!I2S_FREQ(freq), SettingsAssumption, dpll \in BOOLEAN
  PROVE  /\ frac' \in ath!Fracs /\ pll' \in {"0x61a1", "0x61a2"}
         /\ dpll' \in BOOLEAN
         /\ frac' \in IF freq = 44100 THEN {"0x15a2102a", "0x30a9036"}
                                      ELSE {"0x127bb02e", "0xfb7e83a"}
         /\ (pll' = "0x61a2") = (ath_ref_freq # 25)
         /\ pll' = "0x61a2" => dpll'
<1>1. CASE ath_ref_freq = 25
  BY <1>1 DEF ath!I2S_FREQ, ath!ath_i2s_clk, ath!Fracs
<1>2. CASE ath_ref_freq # 25
  BY <1>2 DEF ath!I2S_FREQ, ath!ath_i2s_clk, ath!Fracs
<1> QED BY <1>1, <1>2

LEMMA AthLoading ==
  ASSUME AthInv, ath!ath_i2s_init_module \/ ath!ath_i2s_cleanup_module
  PROVE  AthInv'
<1>0. AthTypes /\ volume = ath!mask(told) /\ OnePlayerOnly
  BY DEF AthInv
<1>1. CASE /\ stage' \in {"out", "chrdev", "irq", "in"}
           /\ UNCHANGED <<config, frac, pll, dpll, volume, popened, kernel, pc,
                          song, told, others>>
  BY <1>1 DEF AthInv, AthTypes, OnePlayerOnly, RateIsTheSongs, SizeIsTheSongs
<1>2. CASE /\ stage' = "in" /\ ath!ath_i2s_init_reg /\ others' = TRUE
           /\ UNCHANGED <<frac, pll, dpll, popened, kernel, pc, song>>
  <2>1. /\ config' \subseteq ath!Bits /\ volume' = ath!mask(told') /\ told' = 15
        /\ others' \in BOOLEAN /\ others'
    BY <1>2, ResetOfBlock
  <2>2. AthTypes'
    BY <1>0, <1>2, <2>1 DEF AthTypes
  <2>3. OnePlayerOnly'
    BY <1>0, <1>2 DEF OnePlayerOnly
  <2> QED BY <2>1, <2>2, <2>3 DEF AthInv
<1>3. CASE ath!ath_i2s_init_module
  <2>1. CASE stage = "irq"
    <3>1. /\ stage' = "in" /\ ath!ath_i2s_init_reg /\ others' = TRUE
          /\ UNCHANGED <<frac, pll, dpll, popened, kernel, pc, song>>
      BY <1>3, <2>1 DEF ath!ath_i2s_init_module
    <3> QED BY <1>2, <3>1
  <2>2. CASE stage # "irq"
    <3>1. /\ stage' \in {"chrdev", "irq"}
          /\ UNCHANGED <<ath!registers, popened, kernel, pc, song, told, others>>
      BY <1>3, <2>2 DEF ath!ath_i2s_init_module
    <3> QED BY <1>1, <3>1 DEF ath!registers
  <2> QED BY <2>1, <2>2
<1>4. CASE ath!ath_i2s_cleanup_module
  BY <1>1, <1>4 DEF ath!ath_i2s_cleanup_module, ath!registers
<1> QED BY <1>3, <1>4

(* The player.                                                             *)
LEMMA PlayerSets ==
  ASSUME SettingsAssumption, AthInv, ath!PlayerSetsFreq \/ ath!PlayerSetsSize
  PROVE  AthInv'
<1>0. AthTypes /\ volume = ath!mask(told) /\ OnePlayerOnly
  BY DEF AthInv
<1>1. /\ pc \in {"opened", "freq"} /\ pc' \in {"freq", "playing"}
      /\ UNCHANGED <<stage, popened, kernel, song, told, others, volume>>
  BY DEF ath!PlayerSetsFreq, ath!PlayerSetsSize, ath!Refused, ath!registers
<1>2. OnePlayerOnly'
  BY <1>0, <1>1 DEF OnePlayerOnly
<1>3. CASE ath!PlayerSetsFreq
  <2>1. pc' = "freq" /\ config' = config
    BY <1>3 DEF ath!PlayerSetsFreq, ath!Refused, ath!registers
  <2>2. /\ frac' \in ath!Fracs \cup {"reset"} /\ pll' \in {"0x61a1", "0x61a2", "reset"}
        /\ dpll' \in BOOLEAN /\ RateIsTheSongs'
    <3>1. CASE ath!I2S_FREQ(song.freq)
      BY <1>0, <1>1, <3>1, FreqSet DEF AthTypes, RateIsTheSongs
    <3>2. CASE ath!Refused(song.freq, ath!Freqs)
      BY <1>0, <1>1, <3>2 DEF ath!Refused, ath!registers, AthTypes, RateIsTheSongs
    <3> QED BY <1>3, <3>1, <3>2 DEF ath!PlayerSetsFreq
  <2>3. AthTypes'
    BY <1>0, <1>1, <2>1, <2>2 DEF AthTypes
  <2> QED BY <1>0, <1>1, <1>2, <2>1, <2>2, <2>3 DEF AthInv
<1>4. CASE ath!PlayerSetsSize
  <2>1. /\ pc = "freq" /\ pc' = "playing"
        /\ UNCHANGED <<frac, pll, dpll>>
    BY <1>4 DEF ath!PlayerSetsSize, ath!Refused, ath!registers
  <2>2. config' \subseteq ath!Bits /\ SizeIsTheSongs'
    <3>1. CASE ath!I2S_DSIZE(song.size)
      BY <1>1, <3>1, FormatOfSize DEF ath!I2S_DSIZE, SizeIsTheSongs
    <3>2. CASE ath!Refused(song.size, ath!Sizes)
      BY <1>0, <1>1, <3>2 DEF ath!Refused, ath!registers, AthTypes, SizeIsTheSongs
    <3> QED BY <1>4, <3>1, <3>2 DEF ath!PlayerSetsSize
  <2>3. AthTypes'
    BY <1>0, <1>1, <2>1, <2>2 DEF AthTypes
  <2>4. ~others' => RateIsTheSongs'
    BY <1>1, <2>1 DEF AthInv, RateIsTheSongs
  <2> QED BY <1>0, <1>1, <1>2, <2>1, <2>2, <2>3, <2>4 DEF AthInv
<1> QED BY <1>3, <1>4

(* Anybody else.                                                           *)
LEMMA OthersSet ==
  ASSUME SettingsAssumption, AthInv, ath!ath_i2s_ioctl
  PROVE  AthInv'
<1>0. AthTypes /\ volume = ath!mask(told) /\ OnePlayerOnly
  BY DEF AthInv
<1>1. UNCHANGED <<stage, popened, kernel, pc, song>>
  BY DEF ath!ath_i2s_ioctl
<1>2. OnePlayerOnly'
  BY <1>0, <1>1 DEF OnePlayerOnly
<1>3. CASE \E s \in Songs : /\ ath!I2S_FREQ(s.freq) /\ others' = TRUE
                             /\ UNCHANGED <<config, volume, told>>
  <2>1. /\ frac' \in ath!Fracs /\ pll' \in {"0x61a1", "0x61a2"}
        /\ dpll' \in BOOLEAN
    BY <1>0, <1>3, FreqSet DEF AthTypes
  <2>2. AthTypes' /\ others'
    BY <1>0, <1>1, <1>3, <2>1 DEF AthTypes
  <2> QED BY <1>0, <1>2, <1>3, <2>2 DEF AthInv
<1>4. CASE /\ \/ \E s \in Songs : ath!I2S_DSIZE(s.size)
              \/ \E mode \in Modes : ath!I2S_MODE(mode)
           /\ others' = TRUE /\ UNCHANGED <<frac, pll, dpll, volume, told>>
  <2>1. config' \subseteq ath!Bits
    <3>1. CASE \E s \in Songs : ath!I2S_DSIZE(s.size)
      BY <3>1, FormatOfSize DEF ath!I2S_DSIZE
    <3>2. CASE \E mode \in Modes : ath!I2S_MODE(mode)
      BY <1>0, <3>2 DEF ath!I2S_MODE, AthTypes, ath!Bits
    <3> QED BY <1>4, <3>1, <3>2
  <2>2. AthTypes' /\ others'
    BY <1>0, <1>1, <1>4, <2>1 DEF AthTypes
  <2> QED BY <1>0, <1>2, <1>4, <2>2 DEF AthInv
<1>5. CASE \E v \in Volumes : /\ ath!I2S_VOLUME(v)
                               /\ UNCHANGED <<config, frac, pll, dpll, others>>
  <2>1. /\ told' \in Volumes /\ volume' = ath!mask(told')
        /\ UNCHANGED <<config, frac, pll, dpll, others>>
    BY <1>5 DEF ath!I2S_VOLUME
  <2>2. AthTypes'
    BY <1>0, <1>1, <2>1 DEF AthTypes
  <2> QED BY <1>1, <1>2, <2>1, <2>2 DEF AthInv, RateIsTheSongs, SizeIsTheSongs
<1> QED BY <1>3, <1>4, <1>5 DEF ath!ath_i2s_ioctl

LEMMA OpenAndClose ==
  ASSUME AthInv, \/ ath!ath_i2s_open \/ ath!ath_i2s_close
                 \/ ath!ath_ex_i2s_open \/ ath!ath_ex_i2s_close
  PROVE  AthInv'
<1>0. AthTypes /\ volume = ath!mask(told) /\ OnePlayerOnly
  BY DEF AthInv
<1>1. CASE ath!ath_i2s_open
  <2>1. /\ pc = "none" /\ ~popened /\ popened' /\ popened' \in BOOLEAN
        /\ pc' = "opened" /\ song' \in Songs /\ others' \in BOOLEAN
        /\ UNCHANGED <<stage, config, frac, pll, dpll, volume, kernel, told>>
    BY <1>1 DEF ath!ath_i2s_open, ath!registers
  <2>2. AthTypes'
    BY <1>0, <2>1 DEF AthTypes
  <2>3. OnePlayerOnly'
    BY <1>0, <2>1 DEF OnePlayerOnly
  <2> QED BY <1>0, <2>1, <2>2, <2>3 DEF AthInv
<1>2. CASE ath!ath_i2s_close
  <2>1. /\ pc # "none" /\ ~popened' /\ popened' \in BOOLEAN /\ pc' = "none"
        /\ UNCHANGED <<stage, config, frac, pll, dpll, volume, kernel, song, told,
                       others>>
    BY <1>2 DEF ath!ath_i2s_close, ath!registers
  <2>2. AthTypes'
    BY <1>0, <2>1 DEF AthTypes
  <2>3. OnePlayerOnly'
    BY <1>0, <2>1 DEF OnePlayerOnly
  <2> QED BY <1>0, <2>1, <2>2, <2>3 DEF AthInv
<1>3. CASE ath!ath_ex_i2s_open
  <2>1. /\ ~kernel /\ ath!ath_i2s_init_reg /\ others' /\ others' \in BOOLEAN
        /\ popened' /\ popened' \in BOOLEAN
        /\ UNCHANGED <<stage, frac, pll, dpll, pc, song>>
    BY <1>3 DEF ath!ath_ex_i2s_open
  <2>2. kernel' = ~popened
    BY <1>3 DEF ath!ath_ex_i2s_open
  <2>3. kernel' \in BOOLEAN /\ (kernel' <=> ~popened)
    <3>1. (~popened) \in BOOLEAN
      OBVIOUS
    <3> QED BY <2>2, <3>1, Zenon
  <2>4. config' \subseteq ath!Bits /\ volume' = ath!mask(told') /\ told' = 15
    BY <2>1, ResetOfBlock
  <2>5. AthTypes'
    BY <1>0, <2>1, <2>3, <2>4 DEF AthTypes
  <2>6. OnePlayerOnly'
    BY <1>0, <2>1, <2>3 DEF OnePlayerOnly
  <2> QED BY <2>1, <2>4, <2>5, <2>6 DEF AthInv
<1>4. CASE ath!ath_ex_i2s_close
  <2>1. /\ kernel /\ ~kernel' /\ ~popened' /\ {kernel', popened'} \subseteq BOOLEAN
        /\ UNCHANGED <<stage, config, frac, pll, dpll, volume, pc, song, told, others>>
    BY <1>4 DEF ath!ath_ex_i2s_close, ath!registers
  <2>2. AthTypes'
    BY <1>0, <2>1 DEF AthTypes
  <2>3. OnePlayerOnly'
    BY <1>0, <2>1 DEF OnePlayerOnly
  <2> QED BY <2>1, <2>2, <2>3 DEF AthInv, RateIsTheSongs, SizeIsTheSongs
<1> QED BY <1>1, <1>2, <1>3, <1>4

LEMMA AthStep ==
  ASSUME SettingsAssumption, AthInv, ath!Next PROVE AthInv'
BY AthLoading, PlayerSets, OthersSet, OpenAndClose DEF ath!Next

LEMMA AthStarts ==
  ASSUME ath!Init PROVE AthInv
<1>1. /\ stage = "out" /\ config = {} /\ frac = "reset" /\ pll = "reset"
      /\ ~dpll /\ ~popened /\ ~kernel /\ ~others
      /\ {dpll, popened, kernel, others} \subseteq BOOLEAN
      /\ pc = "none" /\ song \in Songs /\ told = 15 /\ volume = 0
  BY DEF ath!Init
<1>2. AthTypes
  BY <1>1 DEF AthTypes
<1>3. OnePlayerOnly /\ volume = ath!mask(told)
  BY <1>1 DEF OnePlayerOnly, ath!mask
<1> QED BY <1>1, <1>2, <1>3 DEF AthInv

(***************************************************************************)
(* The three together.                                                     *)
(***************************************************************************)
SettingsInv ==
  /\ driver \in {"glzt", "ar7240", "ath"}
  /\ driver = "glzt" => GlztInv
  /\ driver = "ar7240" => OldInv
  /\ driver = "ath" => AthInv

LEMMA SettingsStart == ASSUME Init PROVE SettingsInv
BY GlztStarts, OldStarts, AthStarts DEF Init, SettingsInv

LEMMA NothingSet ==
  ASSUME SettingsInv, UNCHANGED vars PROVE SettingsInv'
<1>1. UNCHANGED <<driver, stage, config, clk_div, audio_rate, audio_channels, at,
        wm8978_volume, mixer_igain, out, asked, stereo_config_variable, by_freq,
        overridden, frac, pll, dpll, volume, popened, kernel, pc, song, told, others>>
  BY DEF vars, sound_card, only_glzt, only_ar7240, only_ath
<1>2. Remembered => Remembered'
  BY <1>1 DEF Remembered
<1>3. GlztInv => GlztInv'
  BY <1>1, <1>2 DEF GlztInv, GlztRest, GlztFormat, glzt!ConfigAgrees,
    glzt!RateAgrees, glzt!VolumeAgrees
<1>4. OldInv => OldInv'
  BY <1>1, <1>2 DEF OldInv, OldTypes, OldFormat, ar7240!MonoAgrees,
    ar7240!RateAgrees, ar7240!VolumeAgreesUnlessLost, ar7240!VolumeAgrees
<1>5. AthInv => AthInv'
  BY <1>1 DEF AthInv, AthTypes, OnePlayerOnly, RateIsTheSongs, SizeIsTheSongs
<1> QED BY <1>1, <1>3, <1>4, <1>5 DEF SettingsInv

LEMMA SettingsStep ==
  ASSUME SettingsInv, [Next]_vars PROVE SettingsInv'
<1>1. CASE driver = "glzt" /\ glzt!Next /\ driver' = driver
  BY <1>1, GlztStep, SettingsAssumption DEF SettingsInv
<1>2. CASE driver = "ar7240" /\ ar7240!Next /\ driver' = driver
  BY <1>2, OldStep, SettingsAssumption DEF SettingsInv
<1>3. CASE driver = "ath" /\ ath!Next /\ driver' = driver
  BY <1>3, AthStep, SettingsAssumption DEF SettingsInv
<1>4. CASE UNCHANGED vars
  BY <1>4, NothingSet
<1> QED BY <1>1, <1>2, <1>3, <1>4 DEF Next

(* Whichever driver is compiled, its settings and its memory of them keep  *)
(* SettingsInv, through every load, ioctl() and sleep in one.              *)
THEOREM SettingsInvariant == Spec => []SettingsInv
BY SettingsStart, SettingsStep, PTL DEF Spec

(* The registers of the stereo block, of the clock and of the codec differ *)
(* from what the driver remembers of them and tells where the code makes   *)
(* them differ (a refused SPEED, I2S_FREQ, the head of a later command of  *)
(* ar7240_i2s.c, settings before its hardware was set up) and nowhere      *)
(* else, after whatever order of calls of ar7240_i2s_ioctl() and           *)
(* smdk2410_mixer_ioctl().                                                 *)
THEOREM NoOtherDifferences == Spec => []KnownDifferences
<1>1. SettingsInv => KnownDifferences
  <2> SUFFICES ASSUME SettingsInv PROVE KnownDifferences
    OBVIOUS
  <2>1. CASE driver = "glzt"
    <3>1. GlztRest /\ GlztFormat /\ Remembered /\ glzt!RateAgrees /\ glzt!VolumeAgrees
      BY <2>1 DEF SettingsInv, GlztInv
    <3>2. glzt!TypeOK
      BY <3>1, RememberedTypes DEF glzt!TypeOK, GlztRest, GlztFormat
    <3>3. TypeOK
      BY <2>1, <3>2 DEF TypeOK
    <3> QED BY <2>1, <3>1, <3>3 DEF KnownDifferences, GlztFormat
  <2>2. CASE driver = "ar7240"
    <3>1. /\ OldTypes /\ OldFormat /\ Remembered /\ ar7240!RateAgrees
          /\ ar7240!VolumeAgreesUnlessLost
      BY <2>2 DEF SettingsInv, OldInv
    <3>2. ar7240!MixerTypeOK
      BY <3>1, RememberedTypes, SameMixer
    <3>3. ar7240!TypeOK
      BY <3>1, <3>2 DEF ar7240!TypeOK, OldTypes, OldFormat
    <3>4. TypeOK
      BY <2>2, <3>3 DEF TypeOK
    <3> QED BY <2>2, <3>1, <3>4 DEF KnownDifferences, OldFormat
  <2>3. CASE driver = "ath"
    <3>1. AthTypes /\ volume = ath!mask(told)
      BY <2>3 DEF SettingsInv, AthInv
    <3>2. told \in Int
      BY <3>1, SettingsAssumption DEF AthTypes, SettingsAssumption,
        ath!ControlAssumption
    <3>3. volume \in 0 .. 31
      BY <3>1, <3>2, MaskRange
    <3>4. ath!TypeOK
      BY <3>1, <3>3 DEF ath!TypeOK, AthTypes
    <3>5. TypeOK
      BY <2>3, <3>4 DEF TypeOK
    <3> QED BY <2>3, <3>5 DEF KnownDifferences
  <2> QED BY <2>1, <2>2, <2>3 DEF SettingsInv
<1> QED BY <1>1, SettingsInvariant, PTL

(* SOUND_MIXER_READ_IGAIN tells the gain that was set, less than five      *)
(* smaller; SOUND_MIXER_READ_VOLUME tells 32/63 of the volume that was     *)
(* set, less than three smaller: for every level an OSS mixer knows.       *)
THEOREM ToldByScale == Spec => []ReadBack
<1>1. ASSUME Remembered PROVE glzt!GainReadBack
  <2> DEFINE g == asked.gain
             q == (g * 31) \div 100
             t == (q * 100) \div 31
  <2>0. g \in Nat
    BY <1>1, LevelRange DEF Remembered
  <2>1. mixer_igain = 31 - q
    <3>1. mixer_igain = glzt!Gain(g)
      BY <1>1 DEF Remembered
    <3>2. glzt!Quotient(g * 31, 100) = q
      BY <2>0 DEF glzt!Quotient
    <3> QED BY <3>1, <3>2 DEF glzt!Gain
  <2> HIDE DEF g
  <2>2. /\ q \in Nat /\ 100 * q <= 31 * g /\ 31 * g <= 100 * q + 99
    BY <2>0
  <2>3. /\ t \in Nat /\ 31 * t <= 100 * q /\ 100 * q <= 31 * t + 30
    <3> HIDE DEF q
    <3> QED BY <2>2
  <2>4. glzt!ToldGain = t
    <3> HIDE DEF q
    <3> QED BY <2>1, <2>2 DEF glzt!ToldGain, glzt!Quotient
  <2> HIDE DEF q, t
  <2>5. g - t \in 0 .. 4
    BY <2>0, <2>2, <2>3
  <2> QED BY <2>4, <2>5 DEF glzt!GainReadBack, g
<1>2. ASSUME Remembered PROVE glzt!VolumeReadBack
  <2> DEFINE m == asked.volume % 256
             t == (wm8978_volume * 100) \div 63
  <2>1. wm8978_volume = (m * 32) \div 100
    <3>1. wm8978_volume = glzt!Level(asked.volume)
      BY <1>2 DEF Remembered
    <3> QED BY <3>1 DEF glzt!Level
  <2>2. m \in Nat
    <3>1. asked.volume \in Nat
      BY <1>2, LevelRange DEF Remembered
    <3> QED BY <3>1
  <2> HIDE DEF m
  <2>3. /\ wm8978_volume \in Nat /\ 100 * wm8978_volume <= 32 * m
        /\ 32 * m <= 100 * wm8978_volume + 99
    BY <2>1, <2>2
  <2>4. /\ t \in Nat /\ 63 * t <= 100 * wm8978_volume
        /\ 100 * wm8978_volume <= 63 * t + 62
    BY <2>3
  <2>5. glzt!ToldVolume = t
    BY <2>3 DEF glzt!ToldVolume, glzt!Quotient
  <2> HIDE DEF t
  <2>6. 32 * m - 63 * t \in 0 .. 161
    BY <2>2, <2>3, <2>4
  <2>7. m < 200 => wm8978_volume < 64
    BY <2>2, <2>3
  <2> QED BY <2>5, <2>6, <2>7 DEF glzt!VolumeReadBack, m
<1>3. SettingsInv => ReadBack
  <2> SUFFICES ASSUME SettingsInv, driver # "ath"
               PROVE  glzt!GainReadBack /\ glzt!VolumeReadBack
    BY DEF ReadBack
  <2>1. Remembered
    BY DEF SettingsInv, GlztInv, OldInv
  <2> QED BY <1>1, <1>2, <2>1
<1> QED BY <1>3, SettingsInvariant, PTL

(* With ath_i2s.c a song whose header it knows plays with the header's     *)
(* rate and word size unless somebody else set something since the player  *)
(* opened the device, and ath_i2s_open() and ath_ex_i2s_open() never let   *)
(* both the player and the kernel module in.                               *)
THEOREM SongAsHeaderSays == Spec => []PlaysAsHeaderSays
<1>1. SettingsInv => PlaysAsHeaderSays
  <2> SUFFICES ASSUME SettingsInv, driver = "ath"
               PROVE  ath!PlaysAsHeaderSays /\ ath!OnePlayer
    BY DEF PlaysAsHeaderSays
  <2>1. AthInv
    BY DEF SettingsInv
  <2>2. ath!PlaysAsHeaderSays
    BY <2>1 DEF AthInv, RateIsTheSongs, SizeIsTheSongs, ath!PlaysAsHeaderSays
  <2>3. /\ popened \in BOOLEAN /\ kernel \in BOOLEAN
        /\ popened <=> pc # "none" \/ kernel
        /\ ~(pc # "none" /\ kernel)
    BY <2>1 DEF AthInv, AthTypes, OnePlayerOnly
  <2>4. ath!OnePlayer
    <3>1. CASE kernel
      BY <2>3, <3>1, Zenon DEF ath!OnePlayer
    <3>2. CASE ~kernel
      BY <2>3, <3>2, Zenon DEF ath!OnePlayer
    <3> QED BY <3>1, <3>2
  <2> QED BY <2>2, <2>4
<1> QED BY <1>1, SettingsInvariant, PTL

(* I2S_VOLUME of ath_i2s.c never answers a larger argument with a value    *)
(* of the register that plays softer, whatever came between the two calls. *)
THEOREM LouderNeverSofter == Spec => LouderIsLouder
<1>1. ASSUME SettingsInv, SettingsInv', [Next]_vars
      PROVE  [driver = "ath" => ath!Louder]_vars
  <2> SUFFICES ASSUME driver = "ath", driver' = driver, 0 <= told, told < told'
               PROVE  ath!Loudness(volume) <= ath!Loudness(volume')
    <3>1. driver' = driver \/ UNCHANGED vars
      BY <1>1 DEF Next
    <3> QED BY <3>1 DEF ath!Louder
  <2>1. AthInv /\ AthInv'
    BY <1>1 DEF SettingsInv
  <2>2. told \in Int /\ told' \in Int
    BY <2>1, SettingsAssumption DEF AthInv, AthTypes, SettingsAssumption,
      ath!ControlAssumption
  <2>3. volume = ath!mask(told) /\ volume' = ath!mask(told')
    BY <2>1 DEF AthInv
  <2> QED BY <2>2, <2>3, MaskGrows
<1> QED BY <1>1, SettingsInvariant, PTL DEF Spec, LouderIsLouder
=============================================================================
