# Verification of the Domino firmware

TLA+ models of `domino-firmware`, the OpenWrt-based firmware of the Domino Pi
and Domino Qi boards: an Atheros AR9331 running Linux, an audio codec on its
I2S bus, an Arduino-compatible microcontroller on its serial line, and a web
panel. TLC checks the models on small instances; TLAPS proves what matters
most for every ring size, request and bound. `PROJECT.json` is the index: which
definition stands for which source lines, what each run checks, which mutant of
the code each property catches, and the hazards the properties are for.

Paths below are relative to the repository's root.

## 1. What the system is made of

### 1.1 The I2S drivers (`domino-pi/audio/iis/src/`)

Three kernel drivers for one piece of hardware: `glzt_i2s.c` (the one the
Makefile builds), `ar7240_i2s.c` (the older one it grew from) and `ath_i2s.c`
(for the WASP boards, interrupt-driven).

**State.** A softc (`sc_buf_var`) with one ring for playback and one for capture:
`NUM_DESC` descriptors in a circle, each with a buffer and an `OWN` bit that says
whether the DMA engine or the CPU may touch it; `dmabuf->tail`, the next
descriptor for the CPU; `popened`/`ropened` (0 closed, 1 opened, 2 data has
flowed); in `ath_i2s.c` also `ppause`/`rpause` and a wait queue per direction.
The hardware has state of its own: whether an engine runs, and the descriptor it
points at.

**Operations.** `open` allocates and initialises a ring; `write` fills
descriptors from the tail and starts or resumes the engine; `read` empties
descriptors that the engine has recorded into; `close` waits for the engine (or
for a moment) and frees the ring; `ioctl` sets rates, volume, word size, and in
`ath_i2s.c` pauses and resumes; the interrupt of `ath_i2s.c` wakes sleepers.

**Interaction.** CPU and engine share the descriptors and nothing else. The
engine plays (or records into) the descriptor it points at, flips `OWN`, follows
`NextPtr`, and *stops for good* at a descriptor that is not its own until the
CPU resumes it.

**Hard behaviours.** The engine moves between any two instructions of the loop;
a stall just before the last fill; a `write` larger than the ring; memory that
runs out half-way through `open`; copies that fault with the tail moved locally
and not saved; a byte count that happens to equal `EAGAIN`; a `close` that does
not wait long enough, and an `open` after it with the engine still running; in
`ath_i2s.c` a wake-up lost between test and sleep, and a pause that takes away
the interrupt a sleeper waits for.

**What makes it correct.** Sound is played (recorded) once, in order, with
nothing dropped or overwritten; a `write` returns; a ring is freed only when the
engine has done with it; a failed `open` leaves no trace.

### 1.2 The settings of the sound hardware

Every driver also sets clock, stereo block and (through three GPIO lines and a
serial protocol of their own) the codec, from `ioctl()` of two devices, `dsp` and
`mixer`, and while it is loaded. **State**: registers, and the driver's copies of
them (`audio_rate`, `stereo_config_variable`, `wm8978_volume`, ...), which are
what it tells. **Hard**: nothing locks them; `get_user()` and `put_user()` may
sleep in the middle of a command; the devices are registered before the hardware
is set up; volumes are scaled to the codec's steps and back, by different factors.
**Correct** if what a driver remembers and tells is what the hardware has. The code
does not get there: `KnownDifferences` names each case in which the two differ, and
says that there is no other.

### 1.3 The player (`domino-pi/audio/athplay/src/`)

`athplay` plays or records WAV files through `/dev/dsp`; `i2sconf` issues one
ioctl. State: the position in the file, what of the buffer is still to be sent,
and `errno`, which two signal handlers may change at any time. Hard: the retry
after `EAGAIN` restarts the buffer though a part of it was sent; a negative result
that is not taken for `EAGAIN` is counted as one unit sent backwards; the loop around
`close()` tests an `errno` that an earlier call may have left. Correct if the audio of
the file is sent whole and once and nothing else is, if a recording holds what it
announces, and if the program ends. With failing `write()`s the code does less, and
the properties say exactly how much less.

### 1.4 The web panel (`domino-{pi,qi}/*/files/usr/lib/lua/luci/controller/domino/index.lua`)

A LuCI controller, run once per HTTP request, several at a time.

| part | state | operations | hard |
| --- | --- | --- | --- |
| network settings | UCI packages `network`, `wireless`, `dhcp`, `system` | `network_get`, `network_post`, `join_wifi` | five commits one after the other; two posts at a time; what one form leaves behind for the next (`ifname`, the station, the key of the access point) |
| board settings, passwords | `/etc/shadow`, UCI `domino`, `system` | `config_post`, `config_first`, `set_first`, REST access | the password kept in two places; the PGP message passed through one file in `/tmp` for all requests, each of which is then carried out by the handler of its own URL |
| firmware update | `/tmp/firmware.bin`, `.tmp` | online download and its poll, upload, flash | download, upload and flash share two files and run in processes of their own |
| bridge and REST | a socket per request | `build_bridge_request`, `storage_send_request`, mailbox | a response in parts, a bridge that closes half-way |
| sketch upload, editor, files, pages | files | | plain file input and output |

Correct if a form that nothing disturbs is saved as it was filled in, whatever the
forms before it left, and if the system runs with what the packages say.

### 1.5 Scripts (`domino-qi/root-files`, `domino-pi/root-files`)

Reset button and wifi reset (`wifi-reset-button-released`, `wifi-live-or-reset`,
`wifi-reset-and-reboot`, `etc/rc.button/reset`): state is the time of a press and
a watchdog that undoes a wifi configuration that does not associate. `lininoio`
and `detect-console` hand the serial line to the microcontroller and back.
`hotplug.d/block/10-mount` and `50-samba` mount block devices and keep the list of
shares. The rest (`ssid`, `wifionoff`, `flashleds`, `uSDaemon`) are short scripts
that run once or blink a light.

### 1.6 Not program logic

Third-party cryptography in JavaScript, styles and page templates, register
headers, build files and their recorded outputs, packaging of `mpg123`, firmware
images, patches to OpenWrt.

## 2. Modules

| module | models |
| --- | --- |
| `RingWindow` | the ring both directions share: `Desc`, `next_tail`, `Nth`, `Window`, the relation every ring proof is about, and `Held`, what the descriptors of a window hold in their order |
| `ChunkQueue` | abstract: the bounded queue of chunks that a driver promises a process that plays and one that records; all four rings below implement it (`ImplementsQueue`) |
| `PlaybackRing` | playback in `glzt_i2s.c` and the engine that plays |
| `CaptureRing` | capture in `glzt_i2s.c` and the engine that records |
| `AthI2s`, `AthCapture` | playback and capture in `ath_i2s.c`: sleeping, signals, interrupts, pause, a draining close |
| `DuplexSessions` | `ar7240_i2s.c`: which files use which direction, and when its rings are allocated, used and freed |
| `CodecRegisters` | abstract: the codec as a register file that takes each write whole |
| `Wm8978` | the write of a register over three GPIO lines, edge by edge, and the codec that shifts the bits in; implements `CodecRegisters` |
| `Mixer` | volume and gain of the two drivers of the sound card, with their conversions; shared by the next two |
| `DspSettings`, `OldSettings` | the other commands of `ioctl()` in `glzt_i2s.c` and in `ar7240_i2s.c`, loading and unloading |
| `AthControl` | the settings of `ath_i2s.c`, with the player and a kernel module that use them |
| `DriverSettings` | one board with one of the three drivers: composes the three modules above by `INSTANCE` |
| `Athplay` | `athplay.c`: `playwav()`, `record()`, the signal handlers, the end of `main()`, and a device |
| `WebPanel` | `network_post()`, `config_post()`, `config_first()` of the web panel, several requests, UCI, services, power losses |
| `MC*` | instances for TLC |
| `*_proofs` | the theorems about the module each extends; `RingWindow_proofs` holds the lemmas the four ring proofs share, `SoundPath_proofs` the theorems about `Athplay`, `Wm8978` and `DriverSettings`, which it extends all three; the names they would share carry a prefix (`AthplaySpec` and `player_pc`, `CodecSpec` and `codec_pc`, beside the `Spec` and `pc` of `DriverSettings`) |

### How a model corresponds to the code

*Data.* A *chunk* is what one descriptor carries; chunks are numbered per session
as the process hands them over (or as the engine records them). `chunk[d]` is what
a buffer holds, so that order, loss, repetition and overwriting are all visible;
sound is not. A byte count matters only where the code compares it with `EAGAIN`;
`PlaybackRing` therefore keeps the length of the short last chunk (`rest`,
`Bytes`), and `AthI2s` one bit (`odd`).

*Process.* `pc` (`player_pc`, `codec_pc`) says where the process is between the steps at which another
actor can interfere. One turn of the fill loop (`FillDescriptor`,
`CopyDescriptor`) is a step, since the engine may move between any two turns; the
end of the call, which saves the tail and starts or resumes the engine, is
another (`KickEngine`). `KickEngine` also contains what the caller,
`ar9100_i2s_write()` or `ath_i2s_write()`, makes of the returned count.

*Engine.* Hardware, modelled from how the drivers use it: `DmaComplete` (or
`DmaRecord`) moves one descriptor on, `DmaStall` stops at a descriptor that is not
the engine's, `DmaStray` is an engine pointing into memory that was freed: it may
do anything or stop. After `close()` and a new `open()` the allocator may return
the same memory or other memory (`aim'` in the init operators).

*Undefined outcomes.* Reading `OWN` of freed descriptors gives either value:
`SeesFree` and `SeesOwned` are both true of them.

*Clean sessions.* `clean` is a history variable. A session is clean while nothing
has happened after which the code promises nothing: an engine still running when
the device was opened, a failed allocation, a faulting copy, a byte count taken
for `EAGAIN`, in `AthI2s` an engine resumed before it was started. All of these
are steps of the models and all states after them are explored; the properties of
order are stated for clean sessions only. What goes wrong in the others is listed
under section 4, or as a hazard.

*Atomicity.* The kernel is built for one core, so an interrupt handler is one
step, and `I2S_LOCK`, which turns interrupts off, adds nothing for one writer (a
faulting copy returns with it held; see the hazards). A hardware step happens
between any two steps of the process. Of the settings, a command is one step up to
where it may sleep (`get_user()` in `ar7240_i2s.c`, whose command has already
reset the stereo block; `put_user()` in `glzt_i2s.c`, before the common end), and
another step after it. A level of one GPIO line is a step of `Wm8978`, because the
codec sees every edge. A request of the panel steps at each call that others can
see: opening, writing and reading the message file, loading and committing a
package, restarting a service, setting the password.

*Settings.* `config` is the set of bits and fields that are set in the stereo
register, not its number; clocks are the rates they stand for. `DriverSettings`
has one variable for what two drivers both keep; `driver` says which of them is in
the kernel (`obj-m` of the Makefile), and what the others would have is constant.

*UCI.* A package is a function from options (or groups of options that are set and
deleted together) to values. A request notes its *changes* while it runs;
deleting what was not there when it loaded the package is no change. A commit
makes the changes to the file as it is by then, so the options of two forms mix
one by one. `applied` says whether the services run with both packages as they
are now; a restart of the network makes it true, and so does a boot. `saved` is
the last form whose request nothing disturbed: no other was under way meanwhile,
root's password could be set, and the power did not fail.

*URLs and forms.* The URL of a request fixes its handler (`config()`, `network()`; until
root has a password `config_first()`, called by the authenticator), before anything is
decrypted; the form comes out of the shared file and may be of another page.
`dispatch(page, f)` says what the handler of `page` does with the form `f`:
`network_post()` fails on a foreign one before it commits anything, `config_post()`
takes `password` and `hostname` of any (a network form has both fields, for the
account of the wan), `config_first()` wants user, password, hostname and time zone or
shows its page again, a login changes nothing. `first_time()` of the source is called
by no route (`webpanel/first_time` goes to the homepage) and is not modelled.

*The player's device* takes all or a part of a `write()` or refuses it with `EAGAIN`,
and it may fail, also after it has taken a part, as `ath_i2s_wr()` does when a signal
ends its wait (ath_i2s.c:443-445). What `athplay` makes of this, all of it, is in the
model: `back` counts the failures it has taken for one unit sent, `again` says that it
went back in the buffer at all.

## 3. Runs that pass

| run | instance | shows |
| --- | --- | --- |
| `ring` | 3 descriptors, up to 5 chunks, requests of 0, 1, 2 with an `EAGAIN` end, 4 with a short end, an allocation that fails; fair; 1.4 M states | `IndInv`; `StandsOnlyWhenEmpty`: between calls an engine at rest has nothing to play; `WriteReturns`: a full ring does not block for ever; `ImplementsQueue`: the ring is the bounded queue of `ChunkQueue`; `HeardInTheEnd`: what is in the queue is taken from it |
| `capture` | 3 descriptors, 7 chunks, reads of 0, 1, 4; fair, a process that keeps reading | `IndInv`; `StandsOnlyWhenFull`: once started, an engine at rest has no room; `RecordingGoesOn`; `ImplementsQueue`: the engine puts into the queue, `read()` takes from it |
| `ath` | 3 descriptors, 4 chunks, all allocation outcomes; fair; 0.6 M states | `IndInv`, `PauseHolds`, `FreedOnlyWhenIdle`; `NoVainWait`: an engine at rest has nothing to play, and a sleeper waits for the descriptor the engine is at; `WriteReturns`, `CloseReturns`: no wake-up is lost; `ImplementsQueue` |
| `ath_capture` | 3 descriptors, 6 chunks; fair; 0.6 M states | the same for recording: `IndInv`, `NoVainWait`, `ReadReturns`, `CloseReturns`, `ImplementsQueue` |
| `duplex` | 3 files, opened for reading, writing or both, all allocation outcomes | `OpenInv` (the busy checks keep clean sessions apart), `OnlyLiveRings`, `StartsInRing` |
| `codec` | 2 registers, words of 2+2 bits, every state of lines and codec at loading | `LinesInv` (between writes the bus is at rest); `ImplementsRegisters`: three lines and a shift register implement the register file of `CodecRegisters` |
| `settings` | each of the three drivers, 2 callers, rates known, unknown and known to one driver, 4 levels, 25 volumes; 0.15 M states | `KnownDifferences`: configuration, rate, volume and mono bit of driver and hardware differ in the cases it names and in no other (below); `ReadBack`, `LouderIsLouder`: the conversions; `PlaysAsHeaderSays`: player and kernel module |
| `athplay` | a song of 7 units in buffers of 3, in a file that is shorter or longer; recordings of 2, 4, 6 units at a time onto a file system for 11; 2 signals, 2 failed `write()`s per buffer counted as sent; fair; 26 k states | `SongInv`, the inductive invariant; `OnlyAudio`, `SentOnce`, `WholeSong` (player), `AnnouncedIsThere` (recorder), `Ends` |
| `panel` | 2 requests at a time, 5 network forms and one each of `config`, first time and login, power losses, a password that cannot be set; 9.4 M states | `SavedAsFilledIn`, `KeyKept`, `BoardAsFilledIn` of an undisturbed form; `AppliedWhenQuiet` however forms are mixed |

**What the properties of settings and player admit.** Where the code falls short of what
one would ask of it, a property says how far, instead of leaving those runs out.

- `KnownDifferences`. A rate that `SNDCTL_DSP_SPEED` refuses is remembered and told
  (glzt_i2s.c:1020, ar7240_i2s.c:1096); `I2S_FREQ` of `glzt_i2s.c` sets the clock and
  tells nobody (910-924), until the next `SPEED`; in `ar7240_i2s.c` what is set
  between the registration of the devices and the set-up of the hardware is undone
  and remembered (1706), and the head of every command, a query too, takes the mono bit
  away while the driver still tells one channel (1036-1039). Until a
  volume is set for the first time the codec has its own, and the reset bit, which the
  hardware clears itself, is not compared. Nothing else ever differs.
- `ReadBack`. A gain comes back less than five smaller. A volume comes back as about
  half: it is multiplied by 32/100 when it is set (glzt_i2s.c:389) and by 100/63 when
  it is told (398), which makes 50 of 100. The invariant bounds `32 * set - 63 * told`
  on both sides.
- `OnlyAudio`, `SentOnce`, `WholeSong` hold in every run, with failing `write()`s,
  spoiled `errno`s and short reads. A failed `write()` that is not taken for `EAGAIN`
  moves the pointer back by one, so that a unit may be sent again, or memory before
  the buffer, one unit for each such failure of that buffer; nothing behind the
  buffer or the audio data is sent, no unit is left out, and no later buffer is
  touched. After a `read()` of the file that falls short or fails, the rest of the
  song may be missing; what was read is sent.

**Why the bounds are enough.** Every hazard of the rings needs a ring that wraps,
a ring that is full and a ring that is empty with the engine stalled. Three
descriptors are the fewest at which first, middle and last differ; one request is
larger than the ring, so that the loop of the caller, the wait on a full ring and
the wrap all happen in one call; `MaxChunks` lets the ring wrap once more after
that. `DrainSteps` is 1: `close()` in `glzt_i2s.c` waits 125 us per descriptor, in
which the engine may finish the one it is at. A second session starts from what
the first left behind (`head`, `tail`, `running`, `aim`), since `open` is enabled
again after `close`. The safety properties do not depend on the bounds where they
are proved (section 5).

`DuplexSessions` needs a third file, so that one is opened while two are being
used and closed; what a ring holds plays no part there. The codec's protocol is
uniform in the bits of a word: two address and two data bits have a first, a last
and a carry between the parts. Two callers are the fewest of whom one changes what
the other is asleep over; the values of levels and volumes are those at the ends
and seams of the conversions. The song of `Athplay` ends in a short buffer, and
the file before or behind it; its recordings reach the announced length exactly,
or not; `MaxBack` is 2, so that the pointer moves back twice in a buffer. The forms of
`panel` have each protocol of the wan but `pppoe` (which sets
what `3g` and `static` set between them), every kind of encryption, with and
without a password, and a lan that moves and moves back; two requests are the
fewest that interleave, and after both ended others begin. There is one value of a
password and one of a hostname, which differ from those of the factory and from
none at all; the theorems are of any.

**Fairness.** The kernel runs a process that may run (`Write`, `Read`), the delay
in `close()` ends, an interrupt that is pending is served, the I2S clock runs and
so a running engine plays or records. Opening, writing, closing, signals, faults
and pausing are somebody's choice or an accident, and get none. Stronger
assumptions are only made where a property needs them. `RecordingGoesOn`
assumes a process that keeps reading, as `record()` in `athplay.c` does.
`WriteReturns`, `ReadReturns` and `CloseReturns` of `ath_i2s.c` assume that a pause
is ended at some time (in `athplay.c`, `SIGUSR1` pauses and `SIGUSR2` resumes), and
strong fairness of the engine: a paused engine keeps its place in the buffer, so a
descriptor is played to its end even if it is paused again and again. `Ends` of
`Athplay` assumes that a device that is asked again and again at last accepts all
that is left of a buffer, and that one that records gives something: to accept a
part each time is not enough, since the retry after `EAGAIN` starts over (so the
endless first part of a buffer is excluded here). The failures counted as sent are
bounded by `MaxBack` per buffer, and signals by `MaxSignals`. The panel
and the settings state no liveness: nothing in them waits for anything.

**Mutants.** For every property of every run, `PROJECT.json` names a change to the
model of the code, such as a bug could make it, that violates it: starting the
engine at the new tail instead of the old, ignoring `OWN`, not resuming, resuming
regardless of `ppause`, waking the wrong queue, writing a register without the
closing pulse, remembering a rate that was never set, telling `dnsmasq` nothing of
a new lan address. One of them, `wan_of_qi`, is no invention: it is what the panel of the
domino-qi does, which does not set the interface for `static` and `pppoe`, so that
a form with one of them after one with `wifi` leaves a wan without an interface.

## 4. Runs that find a violation

Each is a disagreement between the code and what the repository says of it.

| run | property | what happens |
| --- | --- | --- |
| `close` | `FreedOnlyWhenIdle` | `close()` waits 125 us per descriptor, then frees the ring, played or not. The check behind it says "Fatal error" and goes on |
| `no_ring` | `OpenHasRing` | `-ENOMEM` is compared with `ENOMEM`: `open()` succeeds with no ring |
| `key` | `PasswordIsReal` | a form with WEP and then one with WPA that keeps the password ("Keep Unchanged") leave an access point whose password is `1` |

`ath_i2s.c` differs in the first: it waits until the engine has given everything
back, and `ath` shows that the wait is right and ends.

What else the models contain and the code does, without a run of its own:

- `close()` of a recording uses the wait of the playback side, where `OWN` means
  empty: it waits for the ring to fill, and frees it anyway (`CaptureRing`).
- An `open()` that ran out of memory for the descriptors leaves `popened` set: "I2S
  speaker busy" until the module is loaded again (`PlaybackRing`).
- A byte count of 11 is taken for `EAGAIN` (the driver means `-EAGAIN`), and the
  whole request is sent again from where the pointer now is (`PlaybackRing`).
- A file opened `O_RDWR` is marked as reading only, so a second file may open the
  speaker, and both write to one ring (`DuplexSessions`; `clean` excludes it).
- Every command of `ar7240_i2s.c` leaves the stereo block with 8-bit words, which
  no later command changes (`OldSettings`).
- `record()` goes on behind the length its header announces by up to one read
  (`AnnouncedIsThere` states the limit).
- In `network_post()`, `wan_proto` is a variable nobody sets, so that the test for
  `pppoe` behind it is always true; the branch for `pppoe` sets again what was
  deleted, and nothing goes wrong (`deletes`).

## 5. What is proved

The theorems hold for every `NUM_DESC > 0`, every set of requests, forms, modes,
songs, levels and callers, every bound, every outcome of the allocations. They rest
on the named assumptions of the modules and on nothing else: `SizeAssumption`,
`RingAssumption`, `CaptureAssumption`, `AthAssumption` and `DuplexAssumption` (the
constants have their types), `AthplayAssumption` (lengths are numbers, a buffer has
room for something), `Wm8978Assumption` (a register has a 7-bit number and 9 bits,
the codec's shift register 16), `SettingsAssumption` (the levels of the mixer and
the volumes are numbers, rates and headers have their types) and `PanelAssumption`
(a form is of one of the four kinds, a network form has a protocol of the page's list,
and a complete one of `config_first()` a password). TLC evaluates
each of them in a passing run.

| theorem | states |
| --- | --- |
| `PlaybackRing_proofs!TypeCorrect` | `Spec => []TypeOK` |
| `PlaybackRing_proofs!RingInvariant` | `Spec => []RingInv` |
| `PlaybackRing_proofs!InductiveInvariant` | `Spec => []IndInv`, both together |
| `PlaybackRing_proofs!IsAQueue` | `Spec => ImplementsQueue` |
| `PlaybackRing_proofs!PlaysInOrder` | `Spec => []InOrder` |
| `PlaybackRing_proofs!NothingLost` | `Spec => []Backlog` |
| `PlaybackRing_proofs!NeverLeftStanding` | `Spec => []StandsOnlyWhenEmpty` |
| `PlaybackRing_proofs!WritesAreComplete` | `Spec => []WriteIsComplete` |
| `CaptureRing_proofs!TypeCorrect` | `Spec => []TypeOK` |
| `CaptureRing_proofs!RingInvariant` | `Spec => []RingInv` |
| `CaptureRing_proofs!InductiveInvariant` | `Spec => []IndInv`, both together |
| `CaptureRing_proofs!IsAQueue` | `Spec => ImplementsQueue` |
| `CaptureRing_proofs!DeliversInOrder` | `Spec => []InOrder` |
| `CaptureRing_proofs!NeverOverwrites` | `Spec => []NothingOverwritten` |
| `CaptureRing_proofs!NeverLeftStanding` | `Spec => []StandsOnlyWhenFull` |
| `AthI2s_proofs!TypeCorrect` | `Spec => []TypeOK` |
| `AthI2s_proofs!RingInvariant` | `Spec => []RingInv` |
| `AthI2s_proofs!InductiveInvariant` | `Spec => []IndInv`, both together |
| `AthI2s_proofs!IsAQueue` | `Spec => ImplementsQueue` |
| `AthI2s_proofs!PlaysInOrder` | `Spec => []InOrder` |
| `AthI2s_proofs!PausesHold` | `Spec => PauseHolds` |
| `AthI2s_proofs!FreesNothingInUse` | `Spec => FreedOnlyWhenIdle` |
| `AthI2s_proofs!NobodyWaitsInVain` | `Spec => []NoVainWait` |
| `AthCapture_proofs!TypeCorrect`, `RingInvariant`, `InductiveInvariant` | `Spec => []TypeOK`, `[]RingInv`, `[]IndInv` |
| `AthCapture_proofs!IsAQueue` | `Spec => ImplementsQueue` |
| `AthCapture_proofs!DeliversInOrder` | `Spec => []InOrder` |
| `AthCapture_proofs!NeverOverwrites` | `Spec => []NothingOverwritten` |
| `AthCapture_proofs!PausesHold` | `Spec => PauseHolds` |
| `AthCapture_proofs!ReadsSomething` | `Spec => EmptyHanded`: a `read()` that returns nothing was the first or was interrupted |
| `AthCapture_proofs!NobodyWaitsInVain` | `Spec => []NoVainWait` |
| `DuplexSessions_proofs!SessionsInvariant` | `Spec => []SessionsInv`, the inductive invariant |
| `DuplexSessions_proofs!OneFilePerSide` | `Spec => []OpenInv` |
| `DuplexSessions_proofs!RingsAreLive` | `Spec => []OnlyLiveRings` |
| `DuplexSessions_proofs!EngineInRing` | `Spec => []StartsInRing` |
| `WebPanel_proofs!ServicesFollow` | `Spec => []AppliedWhenQuiet` |
| `WebPanel_proofs!PanelInvariant` | `Spec => [](PanelTypes /\ LonePanel)`, the inductive invariant of the next three |
| `WebPanel_proofs!FormsAreSaved` | `Spec => []SavedAsFilledIn` |
| `WebPanel_proofs!KeysAreKept` | `Spec => []KeyKept` |
| `WebPanel_proofs!BoardIsSaved` | `Spec => []BoardAsFilledIn` |
| `SoundPath_proofs!SongInvariant`, `SongTypes` | `AthplaySpec => []SongInv`, the inductive invariant of `Athplay`, and `[]AthplayTypeOK` |
| `SoundPath_proofs!SendsOnlyAudio` | `AthplaySpec => []OnlyAudio` |
| `SoundPath_proofs!SendsOnce` | `AthplaySpec => []SentOnce` |
| `SoundPath_proofs!SendsTheWholeSong` | `AthplaySpec => []WholeSong` |
| `SoundPath_proofs!RecordsWhatIsAnnounced` | `AthplaySpec => []AnnouncedIsThere` |
| `SoundPath_proofs!WiresInvariant` | `CodecSpec => []WireInv`, the inductive invariant of `Wm8978` |
| `SoundPath_proofs!LinesAreLeftAlone` | `CodecSpec => []LinesInv` |
| `SoundPath_proofs!WritesAreWhole` | `CodecSpec => Registers_!Init /\ [][Registers_!Next]_(Registers_!vars)`: the safety half of `ImplementsRegisters` |
| `SoundPath_proofs!SettingsInvariant` | `Spec => []SettingsInv`, the inductive invariant of `DriverSettings` |
| `SoundPath_proofs!NoOtherDifferences` | `Spec => []KnownDifferences` |
| `SoundPath_proofs!ToldByScale` | `Spec => []ReadBack` |
| `SoundPath_proofs!SongAsHeaderSays` | `Spec => []PlaysAsHeaderSays` |
| `SoundPath_proofs!LouderNeverSofter` | `Spec => LouderIsLouder` |

**The argument.** None of the properties of order is inductive: that the engine
finds chunk `played` under its pointer says nothing of the chunk after it. What is
inductive is that the descriptors holding a chunk that is still to be consumed are
a *window* of the ring, `Window(S, chunk, lo, hi, first, end)`: they hold the
chunks `lo .. hi - 1`, each once, in successive descriptors, from `first` up to
`end`. For playback `S` is what the engine owns, the engine is at `first` and the
process appends at `end`; for capture `S` is what the process owns, with the roles
exchanged. A window is counted from its first descriptor on: its `i`-th descriptor
is `Nth(first, i)`. `RingWindow_proofs` proves of any window that consuming at
`first` (`WindowShrinks`) and appending at `end` (`WindowGrows`) leave a window,
and that a window into which something is appended was not full. They rest on
`CountedFrom`, the one place where indices are reduced modulo the size of the ring.
Two parts are needed beside the window: `CallInv`, what holds of the call in
progress in every session (a call that fills has marked the device as written to, one that
does not has taken nothing), and `SessionInv`, which ties the engine to the ring
in a clean session: before it is started it does not run and *will be* put at the
tail the call began with; afterwards it points into the ring. That a first call
computes the start address before its loop and uses it afterwards is where
`EngineAt` is needed; the mutant `dma_start_at_new_tail` shows what breaks
otherwise. `Backlog` needs the cardinality of the set of owned descriptors and is
an induction of its own (`BacklogStep`), step by step from `RingInv`.

`IsAQueue` follows from the same invariant in each of the four ring proofs. What
the descriptors of a window hold, in their order, is a row of successive numbers
(`HeldIsRow`, `QueueIsRow`): under the refinement mapping, which reads the queue from
the buffers themselves, the abstract queue is therefore known from the two counts of a
state, what was put and what was taken (`QueueCounts`), and a step of the model is read
as a step of `ChunkQueue` from what it does to these counts. Appending to a row is
`RowGrows`, taking its head `RowShrinks`. That there is room when the process (or the
recording engine) appends, and something to take when the other side takes, is what
the window says: the descriptor appended at is outside it, the one consumed is in it.
The order of what is heard and read, its completeness and the bound on what is under way
are all promises of the one abstract queue; `InOrder` states the first of them in
terms of the ring and is a corollary of the window.

**Nobody waits in vain.** That a call returns is liveness and stays with TLC, but what
makes it return is a safety property, and that is proved, for every ring and every
interleaving. Between two calls an engine that is at rest has nothing to do
(`StandsOnlyWhenEmpty`, `StandsOnlyWhenFull`): it stops only at a descriptor that is
not its own, and that descriptor is the first of its window, so that the window is
empty (`WindowWithoutFirst`: nothing to play, or no room to record); a process that
appends or takes resumes it at the end of its call. So a process that waits for the
engine, as it does before a full ring, finds it running. In `ath_i2s.c` a process also sleeps, and wakes
up only by an interrupt: it goes to sleep when the descriptor at the tail is the
engine's, and a window that holds the descriptor at its own end is the whole ring
(`WindowWithEnd`, by one turn of the ring, `OneRound`), so the engine is at that very
descriptor and will raise the interrupt when it moves on (`SleepsForTheEngine`). With
the fairness of section 3 this is why `WriteReturns`, `ReadReturns`,
`RecordingGoesOn` and the wait of `close()` hold.

`AthI2s_proofs` follows the same argument with two differences. A writer that
sleeps holds a copy of the tail, so `CallInv` also says that the copy is still
right when it wakes up and that a writer that sleeps has not got to start the
engine. And most steps there (a pause, a signal, an interrupt, going to sleep)
move neither end of the window, which `QuietStep` proves of all of them at once.
`PausesHold` and `FreesNothingInUse` hold in every session, clean or not; the
second needs only that a closed device has no ring (`ClosedIsFreed`).
`AthCapture_proofs` combines the two; `ReadsSomething` there needs besides that a
reader that was woken up, and not by a signal, finds the descriptor it waited for
until it has copied it (`WokenInv`).

`DuplexSessions_proofs` counts nothing: that no two files of a clean session have a
direction (`NoneShares`), that the mark in `ropened` and `popened` says whether one has
(`MarkedOpen`), and that what is marked has its memory (`HasMemory`) support each
other, and all three properties follow. `WebPanel_proofs` needs to know where every
request is: as long as packages are not applied, *some* request stands between its
first commit and the restart of the network (`NetworkInv`), which need not be the one
that made the change, since a restart takes over the changes of all; as long as
`dnsmasq` serves an old address, some request has yet to restart it (`DnsmasqInv`).

What a form has saved is proved of the request that nothing disturbed (`lone`), of
which there is one at most and beside which no other is under way (`LoneInv`).
`Progress` follows it from location to location: which changes it has noted, which
of its commits are done, what the access point was before it began. The commits are
taken apart option by option (`CommitsBoth` and the lemmas behind it, for each
protocol and kind of encryption). Two facts must hold in *every* state, disturbed or
not, for that to work: a request deletes the section of the station as a whole
(`WirelessChange`), and an interface is one of those the panel sets
(`NetworkChange`); they were found when a first attempt, without them, failed on a
station of which only the key was left.

For `Athplay`, `pos - count + data` is the number of the unit at which the player's
pointer stands, computed from three variables that the loop moves separately;
`next` is the first unit never sent. `SongInv` says that they agree but for a retry that
goes back and a failure counted as sent, for which `data` is never further before the
buffer than `back` (`PlayerSends`), how the counters of buffer and song relate
(`PlayerLoop`), and, since the loop ends by the *announced* length or by the end of the
file, that the loop has read as much as the smaller of both (`PlayerReads`). The
pointer and the rest to send move together even when the result is negative
(`data + tmpcount = count` throughout), which is why no error makes the player send
what is behind the buffer or leave a unit out, and why the three properties need no
assumption about `write()`, `errno` or signals.

For the codec, `WireInv` relates the two ends of the wire. While bit `i` of a word
`w` is being sent, with `val` what is left in the driver's variable and `shift` what
has arrived, `w * 2^i = 65536 * (shift mod 2^i) + val`: what the driver has shifted
out is what the codec has shifted in. The steps double both sides, bit for bit, so
that no induction over the bits of a word is needed, and at `i = 16` the low bits of
`shift` are the word. `WriteMaps` and `SetPinMaps` read each call as a step of
`CodecRegisters`: the last edge of `CSB` is the write, all others nothing.

The settings need one invariant per driver (`GlztInv`, `OldInv`, `AthInv`), since what
a driver remembers and which stages a command sleeps in differ; they share
`Remembered`, what the two drivers with a mixer know of the codec's volume. Beside the
property itself an invariant needs the values that can occur at all (the formats that
the commands compose, the rates the clock has, the steps of the volume) and where
another caller may be asleep, whose command goes on with what is there by then.
`ToldByScale` and `LouderNeverSofter` are then
arithmetic: a level goes down to the codec's steps and up again on another scale, and the mask of
`ath_i2s.c` is monotone on each side of its seam and limits.

`InOrder`, `Backlog`, `WriteIsComplete`, `NothingOverwritten`, `EmptyHanded` and the
`PauseHolds` of `AthCapture` are stated by theorems only; the other properties of these
tables are those of the runs.

**Only model-checked.** Liveness under fairness is out of the prover's reach:
`WriteReturns`, `ReadReturns`, `CloseReturns`, `RecordingGoesOn`, `HeardInTheEnd`,
`Ends`, and of `ImplementsRegisters` the fairness of the abstract specification; its
initial states and steps are proved. What the first four rest on is proved
(`NeverLeftStanding`, `NobodyWaitsInVain`); what is left to TLC is the fair turn of
engine, interrupt and process. The runs of section 4 are
counterexamples, which need no proof. Everything else a passing run checks is a
theorem.

## 6. Not modelled, and why

- Two threads that write to one file at the same time: the tail is read before
  the lock. The players in this repository have one.
- Faulting copies are steps, but nothing is claimed of a session after one: the
  code states no promise. The hazards list says what happens.
- What the rings of `ar7240_i2s.c` hold: they are those of `glzt_i2s.c`, which grew
  from them. The commands behind `#if 0` are not compiled.
- `ath_ex_i2s_write()` and `ath_i2s_desc_busy()`, which only a kernel module outside
  the repository calls; the retry of `athplay.c` that is compiled for `WASP` only.
- The name of the access point, time zones and pages of the web panel, and
  `first_time()`, which nothing calls; the panel of the domino-qi where
  it differs (DNS, bridge of lan and wan, REST access).
- Firmware update: download and flashing are `wget` and `sysupgrade`, so that a
  model would be of programs that are not here. Bridge requests: when their loop
  ends is decided by a JSON decoder and a bridge that are not here either.
- Reset button and wifi reset: what they do is a comparison of seconds with limits.
  `lininoio`, `detect-console`: loading and unloading of modules that are not here.
  Hotplug, init scripts, LEDs: they keep no state between two runs.
- Cryptography in the browser, pages, build files.

## 7. What could follow

A specification of the panel in which a form is saved in one step, implemented by
`WebPanel` as long as one request runs at a time. The second thread that writes to a shared file.
