----------------------------- MODULE TapPlayer -----------------------------
(***************************************************************************)
(* Playback of a TAP image: play_file() (the main loop, which refills a    *)
(* two-half ring buffer from the SD card) against ISR(TIMER1_COMPA_vect)   *)
(* (which turns the buffered bytes into the waveform on the READ line),    *)
(* the C64's motor line and the command keys.  An interrupt handler runs   *)
(* to completion between two steps of the main loop, and f_read() copies   *)
(* one byte per step, so a handler may run in the middle of a refill.      *)
(***************************************************************************)
EXTENDS Integers, Sequences

CONSTANTS
    HalfSize,       \* half of FAT_BUF_SIZE (128): the unit of a refill
    RefillLag,      \* timing: bytes of a new half the handler may have started
                    \* while the other half is still owed by the main loop
    ByteRadix,      \* values of a byte (256)
    MaxOCR,         \* largest value of the compare register OCR1A (0xFFFF)
    MultNum,        \* g_cycle_mult_raw, microseconds per CPU cycle,
    MultDen,        \*   as the fraction MultNum / MultDen
    Files,          \* the TAP images on the card: [magic, version, data]
    InitialBr,      \* values the uninitialised local br of play_file can have
    ShortReads,     \* bytes a read of the card that fails may have read before
    MotorStops,     \* TRUE: the C64 may switch the motor off
    Commands,       \* commands that may appear in g_cur_command
    InvertSignal    \* g_invert_signal

Size == 2 * HalfSize
Magics == {"C64-TAPE-RAW", "C16-TAPE-RAW"}

\* The longest signal of a format, in bytes: two half-waves of four bytes in
\* format 2, one signal of four bytes in formats 0 and 1.
MaxSignalBytes(version) == IF version = 2 THEN 8 ELSE 4

ASSUME SizeAssumption == HalfSize \in Nat \ {0} /\ RefillLag \in Nat /\ ByteRadix \in Nat \ {0}
ASSUME TimerAssumption == MaxOCR \in Nat \ {0} /\ MultNum \in Nat \ {0} /\ MultDen \in Nat \ {0}
ASSUME FileAssumption ==
    \A f \in Files : /\ f.version \in Nat
                     /\ f.data \in Seq(0..ByteRadix - 1)
                     /\ RefillLag + MaxSignalBytes(f.version) <= HalfSize
ASSUME EnvAssumption ==
    /\ InitialBr \subseteq Nat
    /\ Commands \subseteq {"select", "abort"}
    /\ ShortReads \subseteq Nat /\ MotorStops \in BOOLEAN /\ InvertSignal \in BOOLEAN

VARIABLES
    pc,                   \* where play_file is
    playing,              \* the user interface's flag: PLAY was pressed
    file, fptr, fileOpen, \* g_fil: the image, bytes read from it, open or not
    g_fat_buffer, g_read_index, g_write_index,
    copied,               \* bytes the current f_read has copied
    g_tap_file_pos, g_tap_file_complete,
    g_pulse_length, g_pulse_length_save, g_signal_2nd_half,
    g_total_timer_count, OCR1A, timerOn,
    level,                \* the READ line
    sense,                \* the SENSE line: TRUE while PLAY is down
    title,                \* the last line shown to the user
    g_cur_command, g_is_paused, motorOff,
    wave,                 \* history: half-waves put on the READ line
    halfTicks,            \* history: ticks of the half-wave being put there
    cardFailed,           \* history: a read of the card failed
    cause                 \* history: why the main loop left the tape before its end

bufferVars == <<g_fat_buffer, g_write_index, copied, fptr, cardFailed>>
signalVars == <<g_pulse_length, g_pulse_length_save, g_signal_2nd_half, OCR1A, level, wave, halfTicks>>
tapeVars   == <<g_read_index, g_tap_file_pos>>
deckVars   == <<playing, file, fileOpen, timerOn, sense, title>>
userVars   == <<g_cur_command, g_is_paused, motorOff, cause>>
vars == <<pc, bufferVars, signalVars, tapeVars, deckVars, userVars,
          g_tap_file_complete, g_total_timer_count>>

----------------------------------------------------------------------------
(* Indices, lengths and levels.                                            *)

Least(a, b) == IF a <= b THEN a ELSE b

\* A uint8_t index into the 256-byte buffer wraps.
Wrap(i) == IF i >= Size THEN i - Size ELSE i

\* index & 0x80
Half(i) == IF i < HalfSize THEN 0 ELSE 1
InHalf(i) == IF i < HalfSize THEN i ELSE i - HalfSize

\* Mutant: only the first half is ever owed.
Owed_FirstHalf == g_read_index >= HalfSize /\ g_write_index = 0

\* The handler is in the half that the main loop refills next but one: the
\* other half has been played and is owed a refill.
Owed == Half(g_read_index) # Half(g_write_index)

Length == Len(file.data)              \* g_tap_info.length, after verify_tap

\* A short pulse is in units of eight cycles, a long one in cycles; the
\* product with the multiplier is truncated to an integer.
ShortPulse(b) == (b * 8 * MultNum) \div MultDen
LongPulse(lo, mid, hi) ==
    ((lo + ByteRadix * mid + ByteRadix * ByteRadix * hi) * MultNum) \div MultDen

\* g_cycle_mult_raw * 0xFFFFFF * 2
MaxSignalCycles == (MultNum * (ByteRadix * ByteRadix * ByteRadix - 1) * 2) \div MultDen

\* g_total_timer_count, of which only the comparison with MAX_SIGNAL_CYCLES
\* matters: counted up to MaxSignalCycles + 1.
Total(n) == Least(n, MaxSignalCycles + 1)

IdleLevel == IF InvertSignal THEN "low" ELSE "high"
FirstLevel == IF InvertSignal THEN "high" ELSE "low"
SecondLevel == IdleLevel

----------------------------------------------------------------------------
Init ==
    /\ pc = "idle" /\ playing = FALSE
    /\ file = [magic |-> "", version |-> 0, data |-> <<>>]
    /\ fptr = 0 /\ fileOpen = FALSE
    /\ g_fat_buffer = [i \in 0..Size - 1 |-> 0]
    /\ g_read_index = 0 /\ g_write_index = 0 /\ copied = 0
    /\ g_tap_file_pos = 0 /\ g_tap_file_complete = FALSE
    /\ g_pulse_length = 0 /\ g_pulse_length_save = 0 /\ g_signal_2nd_half = FALSE
    /\ g_total_timer_count = 0 /\ OCR1A = 0 /\ timerOn = FALSE
    /\ level = IdleLevel /\ sense = FALSE /\ title = ""
    /\ g_cur_command = "idle" /\ g_is_paused = FALSE /\ motorOff \in {MotorStops}
    /\ wave = <<>> /\ halfTicks = 0 /\ cardFailed = FALSE /\ cause = ""

(* play_file(), up to its loops. *)

\* verify_tap() returns 0: the file does not open, or is no TAP image.  The
\* early return leaves an opened file open.
PlayRejected ==
    /\ pc = "idle" /\ playing = FALSE
    /\ playing' = TRUE /\ g_tap_file_complete' = FALSE
    /\ \/ /\ fileOpen' = FALSE /\ title' = "open failed"
          /\ UNCHANGED file
       \/ \E f \in Files :
             /\ f.magic \notin Magics
             /\ file' = f /\ fileOpen' = TRUE /\ title' = "invalid tap"
    /\ UNCHANGED <<pc, bufferVars, signalVars, tapeVars, userVars, timerOn, sense,
                   g_total_timer_count>>

\* verify_tap() fills both halves; the start conditions; the timer is started
\* and the first test of "while (br > 0)" reads an uninitialised br.
PlayStart ==
    /\ pc = "idle" /\ playing = FALSE
    /\ playing' = TRUE /\ fileOpen' = TRUE /\ title' = "loading"
    /\ \E f \in {g \in Files : g.magic \in Magics} :
          \E n \in {Least(Size, Len(f.data))} \cup {k \in ShortReads : k < Least(Size, Len(f.data))} :
             /\ file' = f /\ fptr' = n
             /\ cardFailed' = (n < Least(Size, Len(f.data)))
             /\ g_fat_buffer' = [i \in 0..Size - 1 |->
                                    IF i < n THEN f.data[i + 1] ELSE g_fat_buffer[i]]
    /\ g_write_index' = 0 /\ g_read_index' = 0 /\ g_tap_file_pos' = 0
    /\ g_tap_file_complete' = FALSE /\ g_signal_2nd_half' = FALSE /\ g_is_paused' = FALSE
    /\ level' = IdleLevel /\ sense' = TRUE
    /\ g_total_timer_count' = 0 /\ OCR1A' = MaxOCR /\ timerOn' = TRUE
    /\ \E br \in InitialBr : pc' = IF br > 0 THEN "wait" ELSE "drain"
    /\ UNCHANGED <<copied, g_pulse_length, g_pulse_length_save, wave, halfTicks,
                   g_cur_command, motorOff, cause>>

(* The refill loop. *)

\* The condition of the inner while.
WaitTest ==
    /\ pc = "wait"
    /\ pc' = IF Owed THEN "check" ELSE "poll"
    /\ UNCHANGED <<bufferVars, signalVars, tapeVars, deckVars, userVars,
                   g_tap_file_complete, g_total_timer_count>>

\* The body of the inner while: leave it at the end of the tape or on an
\* abort, pause or resume on a select.
PollStop ==
    /\ pc = "poll" /\ (g_tap_file_complete \/ g_cur_command = "abort")
    /\ pc' = "check" /\ g_tap_file_complete' = TRUE
    /\ cause' = IF g_tap_file_complete THEN cause ELSE "abort"
    /\ UNCHANGED <<bufferVars, signalVars, tapeVars, deckVars, g_total_timer_count,
                   g_cur_command, g_is_paused, motorOff>>

PollSelect ==
    /\ pc = "poll" /\ ~g_tap_file_complete /\ g_cur_command = "select"
    /\ pc' = "wait" /\ g_cur_command' = "idle" /\ g_is_paused' = ~g_is_paused
    /\ UNCHANGED <<bufferVars, signalVars, tapeVars, deckVars, g_total_timer_count,
                   g_tap_file_complete, motorOff, cause>>

PollAgain ==
    /\ pc = "poll" /\ ~g_tap_file_complete /\ g_cur_command = "idle"
    /\ pc' = "wait"
    /\ UNCHANGED <<bufferVars, signalVars, tapeVars, deckVars, userVars,
                   g_tap_file_complete, g_total_timer_count>>

\* The exit from the outer while.
Check ==
    /\ pc = "check"
    /\ pc' = IF g_tap_file_complete THEN "drain" ELSE "fill"
    /\ UNCHANGED <<bufferVars, signalVars, tapeVars, deckVars, userVars,
                   g_tap_file_complete, g_total_timer_count>>

\* Mutant: the refill always goes to the start of the buffer.
CopyByte_AtStart ==
    /\ pc = "fill" /\ copied < HalfSize /\ fptr < Length
    /\ g_fat_buffer' = [g_fat_buffer EXCEPT ![copied] = file.data[fptr + 1]]
    /\ copied' = copied + 1 /\ fptr' = fptr + 1
    /\ UNCHANGED <<pc, signalVars, tapeVars, deckVars, userVars, g_write_index, cardFailed,
                   g_tap_file_complete, g_total_timer_count>>

\* f_read(..., g_fat_buffer + g_write_index, 128, &br), one byte of it.
CopyByte ==
    /\ pc = "fill" /\ copied < HalfSize /\ fptr < Length
    /\ g_fat_buffer' = [g_fat_buffer EXCEPT ![g_write_index + copied] = file.data[fptr + 1]]
    /\ copied' = copied + 1 /\ fptr' = fptr + 1
    /\ UNCHANGED <<pc, signalVars, tapeVars, deckVars, userVars, g_write_index, cardFailed,
                   g_tap_file_complete, g_total_timer_count>>

\* Mutant: a write index that does not wrap.
FillDone_Wide ==
    /\ pc = "fill" /\ (copied = HalfSize \/ fptr = Length)
    /\ g_write_index' = g_write_index + HalfSize
    /\ pc' = IF copied > 0 THEN "wait" ELSE "drain"
    /\ copied' = 0
    /\ UNCHANGED <<signalVars, tapeVars, deckVars, userVars, g_fat_buffer, fptr, cardFailed,
                   g_tap_file_complete, g_total_timer_count>>

\* f_read returns, always with FR_OK: br is what it copied, less than a half at
\* the end of the file and after an error of the card.
FillDone ==
    /\ pc = "fill"
    /\ \/ (copied = HalfSize \/ fptr = Length) /\ UNCHANGED cardFailed
       \/ copied < HalfSize /\ fptr < Length /\ copied \in ShortReads /\ cardFailed' = TRUE
    /\ g_write_index' = Wrap(g_write_index + HalfSize)
    /\ pc' = IF copied > 0 THEN "wait" ELSE "drain"
    /\ copied' = 0
    /\ UNCHANGED <<signalVars, tapeVars, deckVars, userVars, g_fat_buffer, fptr,
                   g_tap_file_complete, g_total_timer_count>>

(* "wait for the remaining buffer to be read", and the end of play_file. *)

\* Mutant: no limit to the wait.
Drain_NoLimit ==
    /\ pc = "drain" /\ (g_tap_file_complete \/ g_cur_command = "abort")
    /\ pc' = "stop"
    /\ cause' = IF g_tap_file_complete THEN cause ELSE "abort"
    /\ UNCHANGED <<bufferVars, signalVars, tapeVars, deckVars, g_tap_file_complete,
                   g_total_timer_count, g_cur_command, g_is_paused, motorOff>>

Drain ==
    /\ pc = "drain"
    /\ g_tap_file_complete \/ g_cur_command = "abort" \/ g_total_timer_count > MaxSignalCycles
    /\ pc' = "stop"
    /\ cause' = IF g_tap_file_complete THEN cause
                ELSE IF g_cur_command = "abort" THEN "abort" ELSE "delay"
    /\ UNCHANGED <<bufferVars, signalVars, tapeVars, deckVars, g_tap_file_complete,
                   g_total_timer_count, g_cur_command, g_is_paused, motorOff>>

Stop ==
    /\ pc = "stop"
    /\ timerOn' = FALSE /\ fileOpen' = FALSE /\ level' = IdleLevel /\ sense' = FALSE
    /\ title' = IF g_cur_command = "abort" THEN "aborted" ELSE "complete"
    /\ g_cur_command' = "idle" /\ pc' = "idle"
    /\ UNCHANGED <<bufferVars, tapeVars, playing, file, g_pulse_length, g_pulse_length_save,
                   g_signal_2nd_half, OCR1A, wave, halfTicks, g_is_paused, motorOff, cause,
                   g_tap_file_complete, g_total_timer_count>>

----------------------------------------------------------------------------
(* ISR(TIMER1_COMPA_vect). *)

Elapsed == Total(g_total_timer_count + OCR1A)

\* OCR1A takes the next 16 bits of the pulse; after its last piece the
\* half-wave is complete.
Piece(pulse) == Least(pulse, MaxOCR)
Emit(pulse) ==
    /\ OCR1A' = Piece(pulse)
    /\ IF pulse > MaxOCR
       THEN halfTicks' = halfTicks + MaxOCR /\ UNCHANGED wave
       ELSE /\ halfTicks' = 0
            /\ wave' = Append(wave, [level |-> level', ticks |-> halfTicks + pulse])

\* Motor off or paused: time passes, the tape does not.
Halted ==
    /\ timerOn /\ (motorOff \/ g_is_paused)
    /\ g_total_timer_count' = Elapsed
    /\ UNCHANGED <<pc, bufferVars, signalVars, tapeVars, deckVars, userVars, g_tap_file_complete>>

Running == timerOn /\ ~motorOff /\ ~g_is_paused

\* Mutant: a second half-wave has one piece.
SecondHalf_OnePiece ==
    /\ Running /\ g_signal_2nd_half
    /\ g_total_timer_count' = Elapsed
    /\ level' = SecondLevel
    /\ Emit(g_pulse_length)
    /\ g_pulse_length' = g_pulse_length - Piece(g_pulse_length)
    /\ g_signal_2nd_half' = FALSE
    /\ UNCHANGED <<pc, bufferVars, tapeVars, deckVars, userVars, g_pulse_length_save,
                   g_tap_file_complete>>

SecondHalf ==
    /\ Running /\ g_signal_2nd_half
    /\ g_total_timer_count' = Elapsed
    /\ level' = SecondLevel
    /\ Emit(g_pulse_length)
    /\ g_pulse_length' = g_pulse_length - Piece(g_pulse_length)
    /\ g_signal_2nd_half' = (g_pulse_length > MaxOCR)
    /\ UNCHANGED <<pc, bufferVars, tapeVars, deckVars, userVars, g_pulse_length_save,
                   g_tap_file_complete>>

\* The pulse of the first half-wave: its next piece, and after its last the
\* length of the second half-wave.
FirstHalfOf(pulse, save) ==
    /\ Emit(pulse)
    /\ g_pulse_length' = IF pulse > MaxOCR THEN pulse - MaxOCR ELSE save
    /\ g_signal_2nd_half' = (pulse <= MaxOCR)

FirstHalf ==
    /\ Running /\ ~g_signal_2nd_half /\ g_pulse_length > 0
    /\ g_total_timer_count' = Elapsed
    /\ level' = level
    /\ FirstHalfOf(g_pulse_length, g_pulse_length_save)
    /\ UNCHANGED <<pc, bufferVars, tapeVars, deckVars, userVars, g_pulse_length_save,
                   g_tap_file_complete>>

\* Mutant: the handler does not report the end of the tape.
EndOfTape_Silent ==
    /\ Running /\ ~g_signal_2nd_half /\ g_pulse_length = 0
    /\ g_tap_file_pos >= Length
    /\ g_total_timer_count' = 0
    /\ UNCHANGED <<pc, bufferVars, signalVars, tapeVars, deckVars, userVars, g_tap_file_complete>>

EndOfTape ==
    /\ Running /\ ~g_signal_2nd_half /\ g_pulse_length = 0
    /\ g_tap_file_pos >= Length
    /\ g_total_timer_count' = 0 /\ g_tap_file_complete' = TRUE
    /\ UNCHANGED <<pc, bufferVars, signalVars, tapeVars, deckVars, userVars>>

\* The signal at the read index: one byte, or 0 and a long pulse in three
\* bytes; in format 0 the byte 0 stands for 256.
Byte(i) == g_fat_buffer[Wrap(g_read_index + i)]
Short(i) == Byte(i) # 0 \/ file.version = 0
PulseBytes(i) == IF Short(i) THEN 1 ELSE 4
Pulse(i) == IF Byte(i) # 0 THEN ShortPulse(Byte(i))
            ELSE IF Short(i) THEN ShortPulse(ByteRadix)
            ELSE LongPulse(Byte(i + 1), Byte(i + 2), Byte(i + 3))

SignalBytes ==
    IF file.version # 2 THEN PulseBytes(0) ELSE PulseBytes(0) + PulseBytes(PulseBytes(0))

\* Format 2 stores half-waves, doubled for the 2 MHz timer.
FirstPulse == IF file.version # 2 THEN Pulse(0) ELSE 2 * Pulse(0)

\* Mutant: the second half-wave is as long as the first.
SecondPulse_Same == FirstPulse

SecondPulse == IF file.version # 2 THEN Pulse(0) ELSE 2 * Pulse(PulseBytes(0))

\* Real time: the refill of a half is done before the other half is played,
\* but for RefillLag bytes.
InTime == pc \in {"wait", "poll", "check", "fill"} /\ Owed => InHalf(g_read_index) < RefillLag

LoadSignal ==
    /\ Running /\ ~g_signal_2nd_half /\ g_pulse_length = 0
    /\ g_tap_file_pos < Length
    /\ InTime
    /\ g_total_timer_count' = 0
    /\ g_read_index' = Wrap(g_read_index + SignalBytes)
    /\ g_tap_file_pos' = g_tap_file_pos + SignalBytes
    /\ level' = FirstLevel
    /\ g_pulse_length_save' = SecondPulse
    /\ FirstHalfOf(FirstPulse, SecondPulse)
    /\ UNCHANGED <<pc, bufferVars, deckVars, userVars, g_tap_file_complete>>

TIMER1_COMPA == Halted \/ SecondHalf \/ FirstHalf \/ EndOfTape \/ LoadSignal

----------------------------------------------------------------------------
(* The C64's motor line and the keys (g_cur_command). *)

Motor ==
    /\ MotorStops /\ motorOff' = ~motorOff
    /\ UNCHANGED <<pc, bufferVars, signalVars, tapeVars, deckVars, g_cur_command, g_is_paused,
                   cause, g_tap_file_complete, g_total_timer_count>>

KeyPress ==
    /\ pc # "idle" /\ g_cur_command' \in Commands
    /\ UNCHANGED <<pc, bufferVars, signalVars, tapeVars, deckVars, g_is_paused, motorOff,
                   cause, g_tap_file_complete, g_total_timer_count>>

play_file ==
    PlayRejected \/ PlayStart \/ WaitTest \/ PollStop \/ PollSelect \/ PollAgain
    \/ Check \/ CopyByte \/ FillDone \/ Drain \/ Stop

Next == play_file \/ TIMER1_COMPA \/ Motor \/ KeyPress

Spec == Init /\ [][Next]_vars

\* The loop of play_file keeps running and the timer keeps interrupting.
Loops == WaitTest \/ PollStop \/ PollSelect \/ PollAgain \/ Check \/ CopyByte \/ FillDone
         \/ Drain \/ Stop
FairSpec == Spec /\ WF_vars(Loops) /\ WF_vars(TIMER1_COMPA)

----------------------------------------------------------------------------
(* Properties. *)

Refilling == pc \in {"wait", "poll", "check", "fill"}

\* The main loop keeps its promise to the handler: no read of the card failed,
\* and the refill loop is running or has read the whole image.
Sound == ~cardFailed /\ (Refilling \/ fptr = Length)

\* Where the bytes that may be read without another refill end, as a position
\* in the tape: the rest of the half being played and, unless it is owed a
\* refill, the other half.
Ahead == (HalfSize - InHalf(g_read_index)) + (IF Owed THEN 0 ELSE HalfSize)
BufferedEnd == g_tap_file_pos + Ahead

\* Type invariant of the player's variables (tapuino.cpp:63-71): the main loop
\* and the lines, the ring and the image, the signal.
PlayStates == {"idle", "wait", "poll", "check", "fill", "drain", "stop"}
Titles == {"", "loading", "open failed", "invalid tap", "aborted", "complete"}
Keys == {"idle", "select", "abort"}
Causes == {"", "abort", "delay"}
Levels == {"low", "high"}

ControlTypes ==
    /\ pc \in PlayStates /\ title \in Titles /\ level \in Levels
    /\ g_cur_command \in Keys /\ cause \in Causes
    /\ playing \in BOOLEAN /\ fileOpen \in BOOLEAN /\ timerOn \in BOOLEAN /\ sense \in BOOLEAN
    /\ g_tap_file_complete \in BOOLEAN /\ g_is_paused \in BOOLEAN /\ motorOff \in BOOLEAN
    /\ g_signal_2nd_half \in BOOLEAN /\ cardFailed \in BOOLEAN

RingTypes ==
    /\ file.version \in Nat /\ file.data \in Seq(0..ByteRadix - 1) /\ fptr \in 0..Length
    /\ g_fat_buffer \in [0..Size - 1 -> 0..ByteRadix - 1]
    /\ g_read_index \in 0..Size - 1 /\ g_write_index \in {0, HalfSize} /\ copied \in 0..HalfSize
    /\ g_tap_file_pos \in Nat

SignalTypes ==
    /\ g_pulse_length \in Nat /\ g_pulse_length_save \in Nat
    /\ OCR1A \in 0..MaxOCR /\ g_total_timer_count \in 0..MaxSignalCycles + 1
    /\ halfTicks \in Nat

TypeOK == ControlTypes /\ RingTypes /\ SignalTypes

\* While the player is sound, every byte of the tape from the handler's position
\* to the end of what is buffered is in its place in the ring, whatever part of
\* a half the interrupted f_read() has overwritten (tapuino.cpp:417-453 against
\* the reads at 221-260).
BufferHoldsUnplayed ==
    Sound /\ timerOn =>
        \A j \in 0..Ahead - 1 :
            g_tap_file_pos + j < Length =>
                g_fat_buffer[Wrap(g_read_index + j)] = file.data[g_tap_file_pos + j + 1]

\* The handler never takes a byte of the tape that the main loop has not put
\* into the buffer, unless the whole image is there (tapuino.cpp:221-260
\* against 451-452).
NoUnderrun == [][LoadSignal /\ Sound => g_tap_file_pos' <= fptr \/ fptr = Length]_vars
=============================================================================
