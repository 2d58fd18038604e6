# Tapudisk in TLA+

Tapudisk is an Arduino program that sits between a Commodore 64 and an SD card. It plays
and records `.TAP` tape images over the cassette port (the Tapuino half, `src/tapuino.cpp`)
and answers as a disk drive on the serial IEC bus with the contents of `.D64` images
(`src/d64driver.cpp`, `src/SerialCommand.cpp`, `src/IEC.cpp`). A touch-screen file browser
(`src/tapudisk.ino`) starts one or the other.

This directory holds TLA+ modules of its core, configurations for the model checker TLC,
and proofs for TLAPS. `PROJECT.json` maps each definition to the lines it models.

- Check a run: `tlc -config Play.cfg MCTapPlayer.tla` (the table below names module and cfg).
- Check the proofs of a module: `tlapm TapPlayerProofs.tla`, and so on for each module named `...Proofs`
  and for `NumberLemmas`.

## 1. The system

| component | source | state | operations | who it talks to |
|---|---|---|---|---|
| TAP playback | `tapuino.cpp:181-491` | ring `g_fat_buffer` (two halves of 128 bytes), 8-bit `g_read_index`, `g_write_index`, `g_tap_file_pos`, `g_pulse_length(_save)`, `g_signal_2nd_half`, `g_total_timer_count`, `g_tap_file_complete`, OCR1A, READ and SENSE lines | `play_file`, `verify_tap`, `ISR(TIMER1_COMPA_vect)` | the interrupt and the main loop share every variable; SD layer; motor line; keys |
| TAP recording | `tapuino.cpp:115-178, 494-616` | the same ring in the other direction, `g_overflow`, the file's length | `record_file`, `ISR(TIMER1_CAPT_vect)`, `ISR(TIMER1_OVF_vect)` | as above |
| D64 driver | `d64driver.cpp/.h` | one static `readBuf` for all objects; per object: position in file and buffer, link of the current block, 8-bit offset in it, status flags | mount, seeks, blocks, directory, listing, `fopen`, `getc` | SD file; called by the interpreter and by itself |
| Serial command interpreter | `SerialCommand.cpp/.h` | parser status, secondary address, channel, names of two channels, "asked to talk"; line address of a listing | `addByte`, `doTalk`, `SerialListing`, `SerialHelper`, `SerialProgram` | IEC bus below, two `D64` objects above |
| IEC bus | `IEC.cpp/.h` | lines, EOI flag, `isListener`, delays | `read`, `writeByte`, `doTurnAround` | the C64; hands bytes to the interpreter |
| SD file layer | `SDFile.cpp/.h` | an open file | `f_open`, `f_read`, `f_write`, `f_lseek` | SD library (external) |
| user interface | `tapudisk.ino` | debounced touch, page, path, selection, `status`, `playing` | browse, select, play, back | starts playback or the drive |
| serial port ring buffer | `LightweightRingBuff.h`, `serial.c` | two rings with counts, UDRIE | `serial_write`, `serial_read`, `USART_RX_vect`, `USART_UDRE_vect` | compiled only with `ENABLE_SERIAL` (`config.h:119`); the call of `serial_init` is commented out (`tapuino.cpp:720`) |
| configuration | `tapuino.cpp:617-783`, `config*.h` | EEPROM settings, ports | load, save, set up | straight-line I/O |

What is hard, and what makes each part correct:

- **Playback.** The main loop copies from the card into one half while the interrupt reads
  signals of one to eight bytes that straddle the border of the halves and the end of the
  ring. Pulses longer than the 16-bit compare register are cut into pieces with a flag
  that serves two purposes. Correct means: the handler only takes bytes that the refill
  has put there and not yet overwritten; the READ line carries the waveform of the image;
  playback stops neither early nor never.
- **Recording.** The mirror image: the file is what was measured, in order, nothing twice;
  its header gives its length; an abort ends it however fast the signal is.
- **Driver.** Two objects, one buffer; relative seeks that mix two coordinate systems;
  sizes in 16-bit ints; chains of blocks; 8-bit offsets that wrap. Correct means: what is
  read is what the image holds, and each request ends.
- **Interpreter.** A parser that hears all traffic and keeps its state between
  sessions. Correct means: a session receives what it asked for, whatever went before.
- **Bus.** Two processors that poll three lines against each other's clocks. Waits have no limit,
  silence has a meaning (EOI), and both ends of a line swap roles in a turn-around. Correct
  means: each byte arrives once, with its EOI, and nobody waits for ever.
- **User interface.** Path, page index and page in memory are changed in different branches.
  Correct means: what a touch picks is what the page shows.
- **Serial rings.** A count that a handler and the main loop both change without a lock. Correct
  means: each ring is a queue until a change of its count is lost. After that bytes are invented and
  overwritten; what is left is that nobody waits for ever.

`PROJECT.json` lists every such hazard at its line with the properties that cover it.

## 2. Modules

| module | models | role |
|---|---|---|
| `TapPlayer` | `tapuino.cpp:181-491`, `SDFile.cpp:24` | the playback state machine |
| `TapWave` | - | reference: the waveform an image stands for |
| `TapeDeck` | - | abstract specification: what a deck promises |
| `TapSignal` | - | `TapPlayer` with the waveform of its image: `SignalFaithful`, the refinement mapping to `TapeDeck` |
| `MCTapPlayer` | - | instances, liveness, claims of comments |
| `TapPlayerProofs` | - | theorems about `TapPlayer`: the ring |
| `TapSignalProofs` | - | theorems about `TapSignal`: the waveform, the refinement |
| `TapRecorder`, `MCTapRecorder` | `tapuino.cpp:115-178, 494-616` | the recording state machine and its instance |
| `TapRecorderProofs` | - | theorems about `TapRecorder` |
| `D64` | `d64driver.cpp` | the driver's operations as functions of an object and the shared buffer |
| `DiskService` | - | abstract specification: what a request must be answered with |
| `Drive` | `SerialCommand.cpp`, `IEC.cpp`, using `D64` | the drive on the bus, byte by byte |
| `MCDrive` | - | two small disks and the sessions of a C64 |
| `DriveProofs` | - | theorems about `Drive` and the operators of `D64` |
| `NumberLemmas` | - | induction over the numbers, for the recursive functions of `D64` and `TapWave` |
| `IecLines`, `MCIecLines` | `IEC.cpp`, `IEC.h` | the bus line by line with its delays, against a C64; its instance |
| `IecLinesProofs` | - | theorems about `IecLines` |
| `Channel` | - | abstract specification: a queue of bounded capacity, used by the bus and the serial port |
| `SerialPort` | `LightweightRingBuff.h`, `serial.c` | the two rings and their handlers |
| `SerialPortProofs` | - | theorems about `SerialPort` |
| `Browser`, `MCBrowser` | `tapudisk.ino` | the user interface and a card to browse |
| `BrowserProofs` | - | theorems about `Browser` |

### TapPlayer

`pc` is the place in `play_file`: `wait` is the test of the inner loop, `poll` its body,
`check` the test after it, `fill` an `f_read` in progress, `drain` the last loop, `stop`
the end. The interrupt handler runs to completion between any two steps (the AVR does not
nest interrupts), and each of its branches is an action: `Halted` (motor off or paused),
`SecondHalf`, `FirstHalf` (a further piece of a pulse), `EndOfTape`, `LoadSignal`. `f_read` copies
one byte per step, so that the handler runs in the middle of a refill. `Motor` and
`KeyPress` are the C64 and the user. Five variables are history: `wave` and `halfTicks`
(what was put on the READ line), `cardFailed`, `cause` (why the loop left the tape), and
`copied` only exposes `f_read`'s progress.

*Timing.* Nothing in the code stops the handler from overtaking the refill; that the SD card is
fast enough is an assumption about the hardware. It is stated in one place, the guard
`InTime` of `LoadSignal`: while a half is owed, the handler starts no signal beyond
`RefillLag` bytes of the other. Weaker timing (RefillLag + longest signal > half) breaks
playback on the real machine too. The assumption does not hide the ordering of refills,
wrap-around, straddling signals and torn halves.

*Data.* `ByteRadix` values of a byte, `MaxOCR` for 0xFFFF, the multiplier as a fraction.
`g_total_timer_count` is counted up to one more than its limit, since only that comparison
is made. The uninitialised `br` (`tapuino.cpp:383, 417`) is chosen from `InitialBr`.
One playback per behaviour: the user interface sets `playing` and never clears it
(`tapudisk.ino:271, 383`).

### TapRecorder

The same division. `motor` is the wait for the motor, `wait` the test of the halves, `again` the same
test just after a half has been written, `write` and `writeRest` are `f_write` in progress, byte by byte.
`tape` is history: what was measured. `afterAbort` counts the halves whose write began after the abort
had come. The encoding of a pulse (one byte, or 0 and three) is modelled by what it computes. `Finalizes`
is the auto-finalize test (`tapuino.cpp:571-577`); it compares `g_timer_tick`, which nothing advances (the
timer's set-up is commented out, 285-293 and 718), so both of its operands are the constant 0.

*Timing.* `FlushLag` and `MaxLate` are the assumptions on the hardware, in the guard `InTime` of `Edge`:
until a full half is written and the halves have been tested again, the handler records at most
`FlushLag` bytes and a pulse of the other half, and few bytes are recorded between the last test of the halves and
the end. Without the first the ring loses data, and the loop, which finds a full half each time, need never
look for the abort (`tapuino.cpp:566-567, 580`): that it looks after each write is what `AbortHeard` checks.
`MaxBytes`, in the same action, bounds the recording and with it every signal, so `AbortEnds` alone would not
notice a loop that goes on as long as the signal does; `AbortHeard` is proved for every `MaxBytes`.

*Overflows.* The hardware sets the flag `tov` (`Overflow`), its handler counts (`TIMER1_OVF`), and the capture
handler has priority over it. So the capture may read `g_overflow` one too low, and as nothing clears
the flag when the count is cleared, the overflow is counted to the next pulse. `ResetOverflow` also leaves it
to chance whether the flag has been set between the capture and its handler. `wraps` is history: the overflows
since the timer was last cleared, whether counted or not.

*What nothing in the repository calls.* `record_file` has no caller (the Rec button does nothing,
`tapudisk.ino:374-418`), and nothing sets `g_cur_command`: the keys' set-up and `input_callback` are
commented out (`tapuino.cpp:282, 706-716`). Both are kept as an interface
(`tapuino.h:24`, `comms.h:5-14`), and the loops still handle the commands. The models therefore
take a key press, like the motor, as external; a run without commands is the special case in
which `KeyPress` is never taken. `title` is the argument of `lcd_title_P`, which in this version
draws nothing (`tapudisk.ino:133-135`).

### D64 and Drive

An operation of the driver is an operator on `[d |-> object, buf |-> readBuf]`: it is
sequential code without a point at which anything else runs, and the shared buffer is what can
go wrong. `Drive` holds two objects, `curDisk` (the selected image, whose directory is listed)
and `thd` (the object `SerialProgram` makes for each request, always on the hard-wired image
`BLAST003.D64`, `ProgramImage`), and `readBuf`. The C64 is a script of messages: bytes under
ATN, data bytes with or without EOI, or "receive until EOI". Each branch of
`CommandFactory::addByte` is an action. A branch that ends without a `return` (line 132)
answers nondeterministically. `doTalk` takes a step for each line or byte sent; the answer begins
with the load address <<1, 8>> (`SerialCommand.cpp:202-210`).

Names are compared as the code does: a `char` of the request is signed on the AVR and the byte of the entry is not
(`d64driver.cpp:425`), so that a shifted character, 128 or above, matches none (`SameChar`); the length of the
request is that of a C string and is capped at the 17 bytes of `m_name`, whose last is the NUL that
`getDirEntry` stores (`PatternLength`, `NameChar`).

Abstracted: the spaces that align a listing; the names of file types (one token each); the
`"BLOCKS FREE."` text. Kept: every quote, every terminator and its absence, the line numbers
and links, since lengths decide the links. `getc` sends a whole last block,
as the code does; the service specification says so too, because no text of the repository
says otherwise.

### IecLines

The unit of time is 10 microseconds. `pc` is a place in `read`, `writeByte` or `doTurnAround`, named
for what it waits for, `dt` the delay still to pass there; `cpc` and `ct` are the same for
the C64. The drive's side of a line is a bit of `DDRA` (`ddr`: the line is driven) and of `PORTA` (`port`),
the C64's is `held`; a line is low when anybody pulls it. `Awaited` gives the line level each place
waits for; places in `Timed` wait for it or for the end of their time. Time passes (`Advance`)
when neither side can go on, up to the next deadline: polling loops react at once. `addByte` and
the sources of bytes are reduced to which bytes talk (`Talks`), which answer FALSE (`Finals`), what is
said (`Replies`) and how long they take (`SinkTimes`); `Drive` says what they do. The C64 is
external, as its KERNAL behaves on this bus: a millisecond to answer, 256 µs that mean EOI, an
error after the second. Failures it would report go to `failed`.

What the C64 may do is stated once, in `SessionAssumption`: after each byte it does what the drive
is then ready for (`AfterByte`), and it releases the bus at the end.

`Drive` works with whole bytes on a bus that loses none; `IecLines` shows, by its refinement of
`Channel` in both directions, that the lines implement such a bus.

### SerialPort

`Count++` and `Count--` are load and store (`LoadForInsert`, `StoreForInsert`, ...), as `ATOMIC_BLOCK`
is defined as nothing (`LightweightRingBuff.h:47-48`); handlers run to completion between any two
steps of the main loop. `written`, `sent`, `received`, `taken` are history, and `txLost`, `rxLost` count
the changes of a count that were overwritten. The header says (36-41) that an insertion and a removal
may overlap; they may not: after a lost change the ring is no queue any more. The handler sends slots that
hold no byte of the main loop (run serial_overlap) and, when the drift has grown, a write overwrites a byte that
has not been sent. The properties about the order of bytes therefore end with the first loss; `AllSent`
and `WritesReturn` do not, but they count bytes and do not say which.

### Browser

A step is a sample of the touch screen (`Press`) or a click and what `processClick` does with it: one
action per branch. `currentPath` is the sequence of directory names instead of a string with
slashes, `currentFiles` the page in memory, `screen` what is drawn. `opened` is history: what was started
and on which path. `play_file` and the drive are steps of their own modules and take no
time here; with status 10 the drive has the processor for good, and the model stops.

### Abstract specifications

- `TapeDeck`: a deck sends each half-wave of its tape once and in order and finishes only
  when all are sent, unless excused (abort or delay) or at fault (the image could not
  be read). `TapSignal!Deck` maps the player to it: `sent <- wave`,
  `tape <- Wave!HalfWaves(...)`, `excused <- cause # ""`, `fault <- ~Sound`.
- `DiskService`: a request is answered item by item with what the image's blocks hold, read
  without cache, buffer or position. `Drive!Service` maps `disk <- curDisk.image`,
  `waiting <-` the session still has to receive; `request` and `got` are shared.
- `Channel`: items arrive in order, once each, at most `Capacity` under way, until it is `broken`.
  `IecLines` implements it in both directions with capacity 1 (`said` to `heard`, `spoken` to `received`),
  `SerialPort` with capacity `BUFFER_SIZE`, broken by a lost change of a count.

## 3. Runs

| run | module, cfg | what it shows |
|---|---|---|
| play | MCTapPlayer, Play | images of formats 0, 1 and 2 under pause, abort, motor, failing or short reads and both values of `br`: `TypeOK`, `BufferHoldsUnplayed`, `SignalFaithful`, `NoUnderrun`, `DeckSpec`; `DrainEnds`, `PlaybackEnds` under fairness |
| play_remaining | MCTapPlayer, PlayRemaining | violation of `DrainHasRest` |
| record | MCTapRecorder, Record | `TypeOK`, `FileIsRecording`, `PulseOffByOne`, `CompleteIfQuiet`, `AbortHeard`, `AbortEnds` |
| record_length | MCTapRecorder, RecordLength | violation of `HeaderMatchesData` |
| drive_service | MCDrive, DriveService | `TypeOK`, `CacheCoherent`, `ServiceSpec`, `RequestsEnd`, no deadlock |
| drive_title | MCDrive, DriveTitle | violation of `TitleIsDiskName` |
| drive_star | MCDrive, DriveStar | violation of `StarIsProgram` |
| drive_printer | MCDrive, DrivePrinter | violation of `ServiceSpec` |
| iec_lines | MCIecLines, IecLines | LOADs and OPENs with their real bytes and every combination of delays: `TypeOK`, `NoFailure`, `DownSpec`, `UpSpec`, `SessionsEnd` |
| serial | SerialPort, Serial | `TypeOK`, `TxQueueSpec`, `RxQueueSpec`, `AllSent`, `WritesReturn` |
| serial_overlap | SerialPort, SerialOverlap | violation of `SentAsWritten` |
| browser | MCBrowser, Browser | `TypeOK`, `ListIsPage`, `PlaysTapes` |

Runs that show a violation state what a comment of the source says. Their findings:

1. `br` is tested before it is set (`tapuino.cpp:383, 417`): with 0 on the stack the refill
   loop is skipped, and what the ring held at the start is played again and again.
2. A pulse between the last write and the stop of the timer is counted in the header
   and missing in the file (`tapuino.cpp:596-606`).
3. `seekToDiskName` lands two bytes early (`d64driver.cpp:352-353, 380`).
4. `*` opens the first file of type SEQ or PRG (`d64driver.cpp:412`); the comment at line 394 says PRG.
5. The drive listens to data for other devices (`SerialCommand.cpp:75-80`), and a byte like an
   OPEN garbles the next name.
6. An insertion that a removal interrupts loses its change of the count, and a byte that nobody wrote is
   sent (`LightweightRingBuff.h:143, 163`); the header allows them to overlap (36-41).

Seen while modelling, kept in the models as they are, without a run of their own:

- Auto-finalize never ends a recording: its ticker stands still (`tapuino.cpp:573`), so `Finalizes` is
  never true.
- The secondary address is always 0, as it is taken from bits that have just been masked out
  (`SerialCommand.cpp:97-99`): a file opened on channel 1 is not what the drive sends when told to talk on
  it (line 155). The sessions of drive_service use channel 0; with `ReadFile(1, ...)` among them
  `ServiceSpec` fails.
- A name typed with SHIFT (characters of 128 and above) is never found (`d64driver.cpp:425`, above).
- A read or write of the card that fails is not noticed (`SDFile.cpp:24, 42`; `tapuino.cpp:453, 591`). Both
  happen in the models, and the properties excuse what follows (`cardFailed`).
- A long pulse of length 0 (the bytes 0, 0, 0, 0) sets OCR1A to 0, and `g_total_timer_count`, which adds
  OCR1A, stands still: `DrainEnds` does not hold for such an image. None is among those of `MCTapPlayer`.
- The delay limit of the last loop ends a tape as complete while the motor stands still
  (`tapuino.cpp:456-466`), which the comment on Quest for Tires wants to survive: `DeckSpec`
  excuses it. The refill loop has no such limit, unlike what `tapuino.cpp:58-61` says: `PlaybackEnds`
  is about a motor that runs.
- `playing` is never cleared (`tapudisk.ino:383`): one tape per power-on. A disk image is opened by
  its bare name, a tape by its path (`tapudisk.ino:173`). A file of another type leaves its name
  on the screen and the hidden list touchable (`tapudisk.ino:339`): this happens in the run, and both
  properties of the browser hold nevertheless, as neither is about what the screen shows.
- The turn-around back (`IEC.cpp:105-120`) prints and then waits for the C64 to pull CLK. Its margin is
  what is left of the C64's millisecond after ATN, less twice `SinkTimes` (the source of the bytes and the
  print): the two together must stay below 840 µs and `Gap` (`SinkAssumption`). With the `Gap` of the
  run, 470 µs each still work, 480 are "device not present", and from about 600 on both sides wait for
  each other. The proof shows that the bound is enough; that it is exact shows a search with 48 in `MCSinkTimes`.
- `FA_CREATE_NEW` (`SDFile.h:36`) is a bit of the library that `SDFile.cpp` no longer uses; what the SD
  library makes of it when `record_file` opens its file (`tapuino.cpp:518`) is not modelled. The
  recorder's file is taken to be new and writable at any position.

*Bounds.* The ring of the play run has 18 bytes instead of 256 and its images have 31 or 32. They are
longer than the ring (the read index wraps at least once and every half is refilled), end inside a
half, and contain signals that straddle both borders, pulses longer than `MaxOCR` that
take two and three pieces, the zero pulse of format 0, an empty tape and a file that is no image.
`ShortReads` are the numbers of bytes a failing read may have delivered: none, or some.
A larger ring adds only bytes between the borders; the proofs below cover every size for the
ring properties. In `record` a ring of 10 bytes wraps within `MaxBytes` = 12, pulses of
one and four bytes straddle the border. Its timer has 81 = 3^4 values, so that one and two overflows
give the same three digits and the search stays small; `MaxOverflow` = 1 bounds them. The disks of `MCDrive` keep the proportions on which the
driver's arithmetic depends: the size of the image is negative as an int, the buffer holds four
blocks (1024/256), the second directory block still lies in the buffer that the title has
filled, names shorter than, as long as and longer than the pattern, an empty entry,
deleted and locked entries, a SEQ file first on each disk, a name with a shifted letter, a file of two blocks. `Sessions` may come in any order and number.
`iec_lines` has whole bytes of 8 bits and `MaxSessions` = 3, so that each kind of session
follows each other. Its delays are the extremes that the protocol allows: `ClockDelays` up to 190 µs (the
drive takes 200 for EOI), `Gap` 120 µs (it must be below the 170 of `IEC.cpp:76`), `SinkTimes` up to
470 µs (above). Sessions are complete: a C64 that is reset in the middle of a byte leaves the drive in a
wait without limit (`IEC.cpp:60`), and no property about that would hold. `serial` has rings of 2 bytes and 3
bytes in each direction: full, empty and wrapped; the proofs cover the other sizes. `browser` has pages of 3
rows, a root of 3 pages, directories of one page, an empty one, and three levels; 5 rows can be touched,
more than a page has.

*Deadlock* is checked in the drive runs: the bus must never get stuck. It is off in the others,
because the program or the bounded environment may have finished (one tape, `MaxSessions`, `MaxBytes`)
or the drive has taken over (`browser`); there the liveness properties say what must not get stuck.

*Fairness.* `FairSpec` of the player: weak fairness of the main loop (nothing preempts it for ever: the
handler is short) and of the timer interrupt while the timer runs. None for motor or keys.
The recorder needs only the main loop.
The drive: its loops run and the C64 completes what it began,
`[]<><<Next>>_vars`, which is `WF_vars(Next)` as long as there is no deadlock.
`IecLines`: `WF_vars(Next)`, both processors run. It does not choose between them; what makes a step wait is
the lines and the clock only. `SerialPort`: weak fairness of `serial_write` and `serial_read` once called (a
handler returns before the next byte on the line), and of the transmitter's handler while it is enabled (the
register empties at the baud rate); none for new calls or arriving bytes. The browser has no liveness: the user
may stop.

## 4. Proofs

`TapPlayerProofs`, for every half size, refill lag, radix, register width, multiplier, set of
images, card and motor behaviour that the named assumptions of `TapPlayer` admit
(`SizeAssumption`, `TimerAssumption`, `FileAssumption`: the lag and the longest signal fit in a
half; `EnvAssumption`):

- `InvHolds`: `Spec => []Inv`, with
  `Inv == TypeOK /\ DeckInv /\ TurnInv /\ FillInv /\ BufferHoldsUnplayed`;
- `TypeCorrect`: `[]TypeOK`; `RingCorrect`: `[]BufferHoldsUnplayed`;
- `NeverUnderruns`: the action property `NoUnderrun`.

`BufferHoldsUnplayed` is not inductive. A completed refill makes 128 more bytes available, so one
must know that the bytes copied so far are the right ones and in the half that is owed: that
is `FillInv`. A refill must not run over bytes not yet played: `TurnInv` says `f_read` only runs
while a half is owed. `DeckInv` ties the timer and the image to the place in `play_file`.
The proof has one lemma for each part and, within it, one step for each action; `HoldsLoad` and
`HoldsCopy` and `HoldsFill` carry the arithmetic of the wrapping indices.
`NeverUnderruns` follows, as the signal read is no longer than what `FillInv` says is there.

`SerialPortProofs`, for every `BUFFER_SIZE` and set of bytes (`SizeAssumption`):

- `Invariant`: `Spec => []Inv`, with `Inv == TypeOK /\ TxDrift /\ RxDrift /\ TxHolds /\ RxHolds`;
- `TypeCorrect`: `[]TypeOK`;
- `TxImplementsQueue`, `RxImplementsQueue`: the two refinements of `Channel`.

`TypeOK` is not inductive: that a count stays within `BUFFER_SIZE` needs to know how far it can be
from the bytes in the ring. `TxDrift` and `RxDrift` say so for each place of the main loop: a lost change leaves the
transmitter's count too high and the receiver's too low. `TxHolds` and `RxHolds` say, as long as nothing is lost, which byte is in which slot;
with them each step is a `Put`, a `Get`, a stutter or a loss. The refinement proofs have one step
per action.

`TapSignalProofs`, with the same assumptions and `ImageAssumption`: an image that `verify_tap` accepts
is made of whole pulses, in format 2 of an even number of them. (The code looks at the header only. With
the last pulse cut off the handler reads stale bytes of the ring; no image of `MCTapPlayer` is cut off
either, so what is sent then is neither proved nor checked.)

- `WaveHolds`: `Spec => [](Inv /\ WaveInv)`; `SignalCorrect`: `[]SignalFaithful`;
- `PlayerImplementsDeck`: `Spec => DeckSpec`.

`SignalFaithful` says that what was sent is a prefix, and not what comes next, so no step preserves it
by itself. `WaveInv` says what the rest is: `SplitInv` cuts the waveform of the image into what has been
sent, what is being sent (`Pending`: at most two half-waves, which `g_pulse_length`,
`g_pulse_length_save`, `g_signal_2nd_half` and the ticks already sent stand for) and what the rest of the
image stands for (`Left`). `LoadSignal` moves the first pulse from `Left` to `Pending`; that it reads those
bytes and no others is what `BufferHoldsUnplayed` gives. `FirstHalf` and `SecondHalf` move ticks and
half-waves from `Pending` to `wave`. `EndInv` and `IdleInv` say that nothing is left when
the loops end, from which the deck's `Finish` follows.

`TapRecorderProofs`, for every half size, timer and multiplier; the assumptions are those on timing
(`FlushLag`, `MaxLate`), in `SizeAssumption`:

- `InvHolds`: `Spec => []Inv`; `TypeCorrect`: `[]TypeOK`; `NothingOverwritten`: `[]FileIsRecording`;
  `OverflowsBounded`: `[]PulseOffByOne`; `QuietRecordingComplete`: `[]CompleteIfQuiet`;
  `AbortIsHeard`: `[]AbortHeard`.

`FileIsRecording` needs `RingInv`, the mirror of the player's: the bytes recorded and not yet written lie
in the ring from `g_write_index` on, and are fewer than the ring has. That the handler does not overtake
a write is `TurnInv` (what is pending when a half is being written, or at the last write) with `LateInv`
(how much was recorded after the last test).

`PulseOffByOne` needs to know which overflow is pending: with the flag set, `g_overflow` is one less than
without it (`OverflowInv`). `AbortHeard` needs `AbortInv`: during a write the indices are in different halves, and at
the test that follows in the same one, as the handler stays in its half until then (`StaysInHalf`, from
`FlushLag`); so this test finds nothing to write, and the loop looks for the abort. Neither depends on
what the card does, nor on `MaxBytes`.

`BrowserProofs`, for every card (`CardAssumption`: a tree of directories whose entries are listed) and page
length:

- `InvHolds`; `TypeCorrect`: `[]TypeOK`; `PageCorrect`: `[]ListIsPage`; `OnlyTapesPlayed`: `[]PlaysTapes`.

`ListIsPage` needs that page and directory have the size that was counted when they were read
(`DirTypes`), `PlaysTapes` needs `GameInv`: while the buttons are shown, the selected game is a
tape of the current directory. Every branch that leaves the buttons or the directory has to keep both.

`DriveProofs`, for every disk image, buffer size, block size and sequence of sessions:

- `InvHolds`; `TypeCorrect`: `[]TypeOK`; `CacheIsCoherent`: `[]CacheCoherent`.

`CacheCoherent` says that the bytes the next reads take from the shared buffer are those of the image. It
holds because each listing and each file begins with a seek that reloads the buffer, and because in
between only one object uses it: `Coherent` says for that object what its fields claim of the buffer and of the
position in the file. A seek that stays in the buffer is computed from two coordinate systems, so the object must
also be at an entry of the directory (`AtEntry`) or in a block of the file (`AtFile`), with the link of
that very block (`InBlock`); and the seek to the BAM never finds it in a buffer left by
another object (`BamSeekFresh`). `ImageAssumption` (module `D64`) says what an image is: links lead from directory
blocks to directory blocks and from file blocks to file blocks, the entries to file blocks, and
the size is one that is negative as an int, as 174848 is. The driver
tests none of this; on an image without it, offsets leave the file. `SelectionAssumption` and
`SessionAssumption` are types.

`IecLinesProofs`, for every number of bits of a byte, every set of bytes that talk or end, every delay and
every number of sessions that the named assumptions of `IecLines` admit (`TimeAssumption`:
the C64 starts a byte in less than the 200 µs that mean EOI, and the next one in less than 170 µs;
`SinkAssumption` and `SessionAssumption`: above):

- `InvHolds`: `Spec => []Inv`, with `Inv == TypeInv /\ HistoryTypes /\ LineInv /\ ScriptInv /\ MeetInv
  /\ BitInv /\ DownInv /\ UpInv`;
- `TypeCorrect`: `[]TypeOK`; `NoErrors`: `[]NoFailure`;
- `DownImplementsChannel`, `UpImplementsChannel`: the two refinements of `Channel`.

None of the properties is inductive, since what keeps the two sides together is not a variable but the
lines and the clocks. `LineInv` says which lines each side holds at each of its places. `MeetInv` says, for
each place of the drive, at which places the C64 may be and how the two delays relate: at `low`, for
example, the drive's 200 µs outlast what the C64 still needs to start its byte, unless that byte is the last.
From these two follows, for each place, where the other side is when the wait ends (the lemmas `AtAtn` to
`C64AtLow`), and so that no wait ends for the wrong reason. `BitInv` says which bits of the byte have passed
and that both sides count the same ones, `ScriptInv` that the drive waits for what the C64 will do next, and
`DownInv` and `UpInv` which byte is under way. In the turn back to the C64 nothing is waited for on either side but
time: `UntilCheck` is the time until the C64 looks for the drive again, and it must exceed all that
the drive has still to do (`BackTurnPairs`), which is where `SinkAssumption` is used. Each of these parts has its
lemmas for the steps of time, of `read`, `doTurnAround` and `writeByte`, and of the C64, with one step per action.

Two operators are recursive functions: `HostReadBytes` of `D64` (as many reads as asked for) and `PulsesFrom`
of `TapWave` (the pulses from each position on). The library's induction theorems are stated
for an operator, so `NumberLemmas` states induction for sets (a set of numbers that contains 0, and
n + 1 with each n, contains them all), from the well-foundedness of the numbers. That the two functions exist,
and what they give, is proved from it.

Only model-checked: liveness (`DrainEnds`, `PlaybackEnds`, `RequestsEnd`, `AbortEnds`, `SessionsEnd`, `AllSent`,
`WritesReturn`), which is out of the prover's reach; `ServiceSpec`, which says what a listing or a
file is as a whole, over chains of blocks (a recursive definition in `DiskService`).

## 5. Not modelled

- The choice of a file name for a recording (`tapuino.cpp:499-519`): a search over names.
- Torn reads of the 32-bit `g_total_timer_count` in the main loop (`tapuino.cpp:463`): possible only
  while it carries, and the limit it is compared with is far away then.
- A C64 that stops or is reset in the middle of a session, see the bounds of `iec_lines`.
- Reads of the card that fail or are short in the driver (`d64driver.cpp:308`) and in the header of a tape
  (`tapuino.cpp:336-346`, `SDFile.cpp:24`): `HostReadBuffer` and `PlayStart` take what is there. The
  refill of the player has them.
- A card that cannot be started: `setup()` returns before it reads the root (`tapudisk.ino:120-123`); the list
  would then not be a page of any directory. `Browser` starts with the root read.
- The time `SD` takes to mount an image and find a file between the two turn-arounds (`SerialCommand.cpp:168,
  278-288`), or to load the buffer in a reply: `AfterTurn` has the short delay of the code. The C64 waits for
  CLK there without limit.
- Reads and writes of memory that nobody has set: the constructor of `SerialListing` assigns its uninitialised
  member `iec` to itself (`SerialCommand.cpp:199`); `sendListing` ends a name of 16 characters one byte
  beyond `name[19]` (`d64driver.cpp:503`). The models take the object meant, and the name as it ends.
- Accesses outside `fileNames` (`SerialCommand.cpp:135`): sessions of the model stay within it, as beyond it
  the behaviour is undefined.
- EEPROM settings and port set-up (`tapuino.cpp:617-761`): straight-line I/O; the settings are read
  only at set-up, and `save_eeprom_data` has no caller. Drawing (`tapudisk.ino`): only which screen is
  shown. Texts: constants.
- `getDirEntryByName`, `blocksFree`, `newDisk`, `IEC::write`: no caller.

## 6. Plan

Done, in this order: `TapPlayer` with `TapWave`, `TapeDeck` and the ring proofs; `D64` and `Drive` with
`DiskService`; `TapRecorder`, with late overflows; `SerialPort` with `Channel` and its proofs; `IecLines`;
`Browser`. The proofs of
`TapRecorder`, `Browser`, `Drive`, of the waveform with the refinement of `TapeDeck`, and of the bus line by line
with its two refinements of `Channel` followed. Next:

1. `Drive`: `ServiceSpec` item by item, from `CacheCoherent`.
