------------------------------ MODULE Athplay ------------------------------
(***************************************************************************)
(* The player and recorder, audio/athplay/src/athplay.c: main() runs       *)
(* playwav() or record(), the signal handlers come at any time, and at the *)
(* end the device is closed.                                               *)
(*                                                                         *)
(* The player's file holds a header, audio data and perhaps something      *)
(* after it; position 0 is the first unit of audio data.  Its device may   *)
(* accept all or a part of a write() or refuse it; ath_i2s.c also fails a  *)
(* write() of which it has taken a part, when a signal ends a wait in the  *)
(* middle of it (ath_i2s.c:443-445, 560).  The recorder's device never     *)
(* waits: its read() gives what whole descriptors hold, which may be       *)
(* nothing, or more than was asked for.  The handlers make an ioctl that   *)
(* some drivers refuse, so errno may be another one afterwards.            *)
(* Built without WASP, which nothing in the repository defines.            *)
(*                                                                         *)
(* The names carry the program's: the proofs of the sound path extend this *)
(* module together with those of the driver's settings and of the codec.   *)
(***************************************************************************)
EXTENDS Integers

CONSTANTS
  data_length, \* of the header: units of audio data
  FileSizes,   \* units the player's file may have after its header
  bufsz,       \* units in the player's buffer
  Writes,      \* what a write() to the device may do
  Reads,       \* what a read() of the device can give the recorder
  MaxWaiting,  \* bound: units the device holds for the recorder
  FileRoom,    \* units for which the recorder's file system has room
  MaxSignals,  \* bound: signals
  MaxBack      \* bound: failed write()s of a buffer taken for successful

ASSUME AthplayAssumption ==
  /\ data_length \in Nat /\ FileSizes \subseteq Nat /\ bufsz \in Nat \ {0}
  /\ Writes \subseteq {"all", "part", "EAGAIN", "error"}
  /\ Reads \subseteq Nat \ {0} /\ MaxWaiting \in Nat /\ FileRoom \in Nat
  /\ MaxSignals \in Nat /\ MaxBack \in Nat

VARIABLES
  recorder,  \* does it record?
  FileSize,  \* how long the player's file is
  player_pc, \* "read", "write", "test" of its result, "close", "retest", "done"
  i,         \* the loop variable
  ret,       \* the result of write(), or of the recorder's read()
  errno,     \* "EAGAIN", "EBADF" or "other"
  closes,    \* calls of close(audio), counted to 3
  signals,   \* signals so far
  (* playwav() *)
  pos,       \* where the file is read next
  count,     \* units in the buffer
  tmpcount,  \* units of them still to send
  data,      \* where they begin in the buffer
  (* record() *)
  waiting,   \* units in the device
  written,   \* units of audio in the file
  (* history; the first three of the buffer that is being sent *)
  back,      \* how often was a failed write() counted as a unit sent?
  again,     \* did the player go back in the buffer?
  resent,    \* was a unit sent twice?
  next,      \* one past the last unit the device was sent
  stray,     \* was memory behind the buffer sent, or a unit left out?
  short,     \* did a read() of the file give less than there was, or fail?
  broken     \* did the recorder's file not take all, or a read() fail?

playing == <<pos, count, tmpcount, data>>
recording == <<waiting, written, broken>>
history == <<back, again, resent, next, stray, short>>
athplay_vars == <<recorder, FileSize, player_pc, i, ret, errno, closes, signals,
                  playing, recording, history>>

AthplayTypeOK ==
  /\ recorder \in BOOLEAN
  /\ FileSize \in FileSizes
  /\ player_pc \in {"read", "write", "test", "close", "retest", "done"}
  /\ i \in 0 .. data_length + (IF recorder THEN MaxWaiting ELSE bufsz)
  /\ ret \in (-1) .. IF recorder THEN MaxWaiting ELSE bufsz + MaxBack
  /\ back \in 0 .. MaxBack
  /\ errno \in {"other", "EAGAIN", "EBADF"}
  /\ closes \in 0 .. 3
  /\ signals \in 0 .. MaxSignals
  /\ pos \in 0 .. FileSize
  /\ count \in 0 .. bufsz
  /\ tmpcount \in 0 .. bufsz + MaxBack
  /\ data \in (- MaxBack) .. bufsz
  /\ waiting \in 0 .. MaxWaiting
  /\ written \in 0 .. i
  /\ next \in 0 .. FileSize
  /\ {again, resent, stray, short, broken} \subseteq BOOLEAN

(* playwav() and record() begin, the header of the file read or written.   *)
playwav == pos = 0 /\ count = 0 /\ tmpcount = 0 /\ data = 0
record == waiting = 0 /\ written = 0

AthplayInit ==
  /\ recorder \in BOOLEAN
  /\ FileSize \in FileSizes
  /\ player_pc = "read"
  /\ i = 0 /\ ret = 0 /\ errno = "other" /\ closes = 0 /\ signals = 0
  /\ playwav
  /\ record
  /\ back = 0 /\ again = FALSE /\ resent = FALSE
  /\ next = 0 /\ stray = FALSE /\ short = FALSE /\ broken = FALSE
-----------------------------------------------------------------------------
Least(a, b) == IF a < b THEN a ELSE b

(* How much of the file goes into the buffer.                              *)
untrimmed == bufsz
Wanted == IF i + bufsz > data_length THEN data_length - i ELSE bufsz

(***************************************************************************)
(* The head of the loop of playwav().  It ends behind the audio data or    *)
(* the file, and where read() fails, which is not told from its end.       *)
(***************************************************************************)
ReadFile ==
  /\ ~recorder
  /\ player_pc = "read"
  /\ LET most == Least(Wanted, FileSize - pos)
     IN  \/ /\ i > data_length \/ most = 0
            /\ player_pc' = "close"
            /\ UNCHANGED <<playing, history>>
         \/ /\ i <= data_length
            /\ \E got \in 1 .. most :
                 /\ player_pc' = "write"
                 /\ count' = got /\ tmpcount' = got /\ data' = 0
                 /\ pos' = pos + got
                 /\ short' = (short \/ got < most)
            /\ back' = 0 /\ again' = FALSE /\ resent' = FALSE
            /\ UNCHANGED <<next, stray>>
         \/ /\ i <= data_length /\ most > 0
            /\ player_pc' = "close"
            /\ short' = TRUE
            /\ UNCHANGED <<playing, back, again, resent, next, stray>>
  /\ UNCHANGED <<recorder, FileSize, i, ret, errno, closes, signals, recording>>

(* The device is sent n units from where data points; what is before the   *)
(* buffer are no units of the song.                                        *)
Sent(n) ==
  LET first == pos - count
      from  == IF data < 0 THEN first ELSE first + data
      to    == first + data + n
  IN  /\ next' = IF to > next THEN to ELSE next
      /\ resent' = (resent \/ (from < to /\ from < next))
      /\ stray' = (stray \/ data + n > count \/ from > next)

(* A device that fails may have taken a part before.                       *)
WriteDevice ==
  /\ ~recorder
  /\ player_pc = "write"
  /\ player_pc' = "test"
  /\ \/ /\ \E n \in 1 .. tmpcount :
             /\ IF n = tmpcount THEN "all" \in Writes ELSE "part" \in Writes
             /\ ret' = n
             /\ Sent(n)
        /\ UNCHANGED errno
     \/ /\ "EAGAIN" \in Writes
        /\ ret' = -1 /\ errno' = "EAGAIN"
        /\ UNCHANGED <<resent, next, stray>>
     \/ /\ "error" \in Writes /\ back < MaxBack
        /\ ret' = -1 /\ errno' = "other"
        /\ \/ UNCHANGED <<resent, next, stray>>
           \/ \E n \in 1 .. tmpcount - 1 : Sent(n)
  /\ UNCHANGED <<recorder, FileSize, i, closes, signals, playing, recording,
                 back, again, short>>

(* After EAGAIN the whole buffer is sent again; any other result, also one *)
(* that is negative, counts as units that were sent.                       *)
restart_without_count == tmpcount' = tmpcount /\ data' = 0
Restart == tmpcount' = count /\ data' = 0

moved_wrong_way == tmpcount + ret
moved_on == tmpcount - ret
data_stays == data
data_after == data + ret

TestResult ==
  /\ player_pc = "test"
  /\ IF ret < 0 /\ errno = "EAGAIN"
       THEN /\ Restart
            /\ player_pc' = "write"
            /\ back' = 0
            /\ UNCHANGED i
       ELSE /\ tmpcount' = moved_on
            /\ data' = data_after
            /\ IF tmpcount' # 0
                 THEN player_pc' = "write" /\ UNCHANGED i
                 ELSE player_pc' = "read" /\ i' = i + bufsz
            /\ back' = IF ret < 0 THEN back + 1 ELSE back
  /\ again' = (again \/ data' < data)
  /\ UNCHANGED <<recorder, FileSize, pos, count, ret, errno, closes, signals,
                 recording, resent, next, stray, short>>
-----------------------------------------------------------------------------
(* The loop of record(): a read() of the device.  After EAGAIN it reads    *)
(* again, which is not a step of its own but leaves errno.                 *)
ReadDevice ==
  /\ recorder
  /\ player_pc = "read"
  /\ \/ /\ ret' \in Reads \cup {0}
        /\ ret' <= waiting
        /\ errno' \in {errno, "EAGAIN"}
        /\ UNCHANGED broken
     \/ ret' = -1 /\ errno' = "other" /\ broken' = TRUE
  /\ waiting' = IF ret' > 0 THEN waiting - ret' ELSE waiting
  /\ player_pc' = "write"
  /\ UNCHANGED <<recorder, FileSize, i, closes, signals, playing, written,
                 history>>

(***************************************************************************)
(* write() to the file, of which only a failure is noticed: that of a file *)
(* system without any room left, or of the negative length a failed read() *)
(* leaves.  The loop ends behind the length the header announces.          *)
(***************************************************************************)
stops_one_read_early(n) == n + MaxWaiting <= data_length
GoesOn(n) == n <= data_length

counted == i + ret

WriteFile ==
  /\ recorder
  /\ player_pc = "write"
  /\ LET room == FileRoom - written
     IN  IF ret < 0 \/ (ret > 0 /\ room = 0)
           THEN /\ player_pc' = "close"
                /\ broken' = TRUE
                /\ errno' = "other"
                /\ UNCHANGED <<i, written>>
           ELSE /\ written' = IF ret <= room THEN written + ret ELSE FileRoom
                /\ broken' = (broken \/ ret > room)
                /\ i' = counted
                /\ player_pc' = IF GoesOn(i') THEN "read" ELSE "close"
                /\ UNCHANGED errno
  /\ UNCHANGED <<recorder, FileSize, ret, closes, signals, playing, waiting,
                 history>>

(* The engine records on; what does not fit in its ring is not recorded.   *)
DeviceRecords ==
  /\ recorder
  /\ player_pc # "done"
  /\ waiting < MaxWaiting
  /\ waiting' = waiting + 1
  /\ UNCHANGED <<recorder, FileSize, player_pc, i, ret, errno, closes, signals,
                 playing, written, broken, history>>
-----------------------------------------------------------------------------
(***************************************************************************)
(* The end of main(): close, and close again as long as errno is EAGAIN,   *)
(* whether this or an earlier call has set it.                             *)
(***************************************************************************)
errno_of_close == IF closes > 0 THEN "EBADF" ELSE errno
rep_on_error == errno # "other"
rep == errno = "EAGAIN"

CloseDevice ==
  \/ /\ player_pc = "close"
     /\ player_pc' = "retest"
     /\ closes' = Least(closes + 1, 3)
     /\ errno' = errno_of_close
     /\ UNCHANGED <<recorder, FileSize, i, ret, signals, playing, recording,
                    history>>
  \/ /\ player_pc = "retest"
     /\ player_pc' = IF rep THEN "close" ELSE "done"
     /\ UNCHANGED <<recorder, FileSize, i, ret, errno, closes, signals, playing,
                    recording, history>>

(* pause_handler() and resume_handler(), of which the ioctl that fails     *)
(* leaves its own errno where that of a write() is about to be tested.     *)
Signal ==
  /\ player_pc # "done"
  /\ signals < MaxSignals
  /\ signals' = signals + 1
  /\ errno' \in {errno, "other"}
  /\ player_pc = "test" /\ errno' # errno => back < MaxBack
  /\ UNCHANGED <<recorder, FileSize, player_pc, i, ret, closes, playing,
                 recording, history>>

Athplay == ReadFile \/ TestResult \/ ReadDevice \/ WriteFile \/ CloseDevice
AcceptsAll == WriteDevice /\ ret' = tmpcount
GivesSome == ReadDevice /\ ret' > 0

AthplayNext == Athplay \/ WriteDevice \/ DeviceRecords \/ Signal

AthplaySpec == AthplayInit /\ [][AthplayNext]_athplay_vars

(***************************************************************************)
(* The program goes on, and a device asked again and again accepts all     *)
(* that is left at last.  To accept some of it again and again is not      *)
(* enough: a player that meets EAGAIN after every part sends the first     *)
(* part for ever.  A device that records gives some of it at last.         *)
(***************************************************************************)
FairSpec ==
  AthplaySpec /\ WF_athplay_vars(Athplay) /\ SF_athplay_vars(AcceptsAll)
       /\ WF_athplay_vars(DeviceRecords) /\ SF_athplay_vars(GivesSome)
-----------------------------------------------------------------------------
(***************************************************************************)
(* Properties.                                                             *)
(***************************************************************************)

(* "Ensure that extra stuff is not written to the device.  Stop at         *)
(* wherever the audio data ends."  However much the device accepts at a    *)
(* time, whatever write()s fail, and wherever the file's read() stops      *)
(* short, nothing behind the audio data or behind the buffer is sent, and  *)
(* no unit before the one whose turn it is.  A failed write() that is not  *)
(* EAGAIN counts as -1 units sent, so memory before the buffer may be      *)
(* sent: one unit for each such failure since the buffer was begun.        *)
OnlyAudio ==
  /\ next <= data_length /\ ~stray
  /\ ~recorder => data + back >= 0

(* A unit is sent twice only in a buffer in which the player went back,    *)
(* after EAGAIN to its beginning or by one for a failure counted as sent,  *)
(* and then none of another buffer: an error does its harm in one buffer.  *)
SentOnce == resent => again

(* When the loop ends all that was read has been sent, whatever result of  *)
(* a write() was counted as sent, and all of the song was read unless a    *)
(* read() of the file gave less than there was, or failed.                 *)
WholeSong ==
  ~recorder /\ player_pc \in {"close", "retest", "done"} =>
    /\ next = pos
    /\ ~short => pos = Least(data_length, FileSize)

(* The recorder's file holds at least what its header announces, all that  *)
(* was read, and at most one read() more than announced, unless the file   *)
(* took less than it was given or the device failed.                       *)
AnnouncedIsThere ==
  recorder /\ player_pc \in {"close", "retest", "done"} /\ ~broken =>
    /\ written = i
    /\ data_length <= written
    /\ written - data_length <= MaxWaiting

(***************************************************************************)
(* Why.  pos is how many units have been read from the file, the buffer    *)
(* holds the last count of them, and data is where in the buffer the       *)
(* player is: pos - count + data is the unit it is about to send, and next *)
(* the first one never sent.  The loop keeps the two equal, but for a      *)
(* retry that goes back to the start of the buffer.                        *)
(***************************************************************************)
InWrite == player_pc \in {"write", "test"}

(* The unit that would be sent next, the result of a write() counted.      *)
Ahead ==
  (pos - count) + data + (IF player_pc = "test" /\ ret > 0 THEN ret ELSE 0)

(* A failure is about to be counted as a unit sent.                        *)
Miscounts == player_pc = "test" /\ ret < 0 /\ errno # "EAGAIN"

(* The player's loop: how the counters of a buffer and of the song relate. *)
PlayerLoop == ~recorder =>
  /\ pos <= data_length
  /\ InWrite => /\ i <= data_length /\ pos <= i + bufsz
                /\ data + tmpcount = count /\ tmpcount > 0 /\ count > 0
  /\ player_pc = "test" => ret = -1 \/ ret \in 1 .. tmpcount
  /\ ~InWrite => data = count /\ pos <= i

(* What has been sent, relative to what has been read.                     *)
PlayerSends == ~recorder =>
  /\ next <= pos /\ pos - count <= next /\ Ahead <= next
  /\ ~stray
  /\ ~InWrite => next = pos
  /\ data + back >= 0
  /\ Miscounts => back < MaxBack
  /\ resent => again
  /\ ~again => data >= 0 /\ (Miscounts \/ next = Ahead)

(* How much of the song has been read.                                     *)
PlayerReads == ~recorder /\ ~short =>
  /\ player_pc = "read" => pos = Least(Least(i, data_length), FileSize)
  /\ InWrite => pos = Least(Least(i + bufsz, data_length), FileSize)
  /\ player_pc \in {"close", "retest", "done"} =>
       pos = Least(data_length, FileSize)

(* The recorder's loop.                                                    *)
RecorderLoop == recorder =>
  /\ player_pc # "test"
  /\ player_pc \in {"read", "write"} => i <= data_length
  /\ player_pc \in {"close", "retest", "done"} /\ ~broken => i > data_length
  /\ ~broken => written = i
  /\ player_pc = "write" => ret >= 0 \/ broken
  /\ next = 0 /\ ~stray /\ ~resent

(* With the types an inductive invariant, from which the four follow.      *)
SongInv ==
  /\ AthplayTypeOK
  /\ PlayerLoop /\ PlayerSends /\ PlayerReads /\ RecorderLoop

(* Player and recorder end, and close the device at most once more than    *)
(* needed: the second close() fails, and that ends the loop an old EAGAIN  *)
(* had begun.                                                              *)
Ends == <>(player_pc = "done" /\ closes <= 2)
=============================================================================
