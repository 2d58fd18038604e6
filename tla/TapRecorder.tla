---------------------------- MODULE TapRecorder ----------------------------
(***************************************************************************)
(* Recording of a TAP image: ISR(TIMER1_CAPT_vect) measures the C64's      *)
(* pulses and puts them into the two-half ring buffer, record_file() (the  *)
(* main loop) writes each full half to the card and, after an abort, the   *)
(* rest and the length into the header.  Handlers run to completion        *)
(* between two steps of the main loop; f_write() takes one byte per step.  *)
(***************************************************************************)
EXTENDS Integers, SequencesExt

CONSTANTS
    HalfSize,         \* half of FAT_BUF_SIZE (128): the unit of a write
    FlushLag,         \* timing: bytes of a half the handler may have recorded when the
                      \* other half has been written and the halves are tested again
    MaxLate,          \* timing: bytes it may record from the last test of the halves
                      \* to the end of the recording
    ByteRadix,        \* values of a byte (256)
    TimerSpan,        \* values of the timer (2^16)
    TickDiv,          \* timer ticks in a microsecond (16)
    MultNum, MultDen, \* g_cycle_mult_raw as a fraction
    Counts,           \* values of the capture register
    MaxOverflow,      \* bound on the overflows in a pulse
    MaxBytes,         \* bound on the length of a recording
    CardErrors,       \* TRUE: a write to the card may fail part way
    AutoFinalize,     \* g_rec_auto_finalize
    FinalizeTime      \* g_rec_finalize_time

Size == 2 * HalfSize
\* A pulse takes at most four bytes.
LongBytes == 4

ASSUME SizeAssumption ==
    /\ HalfSize \in Nat \ {0} /\ FlushLag \in Nat /\ MaxLate \in Nat /\ MaxBytes \in Nat
    /\ FlushLag + LongBytes < HalfSize /\ MaxLate <= HalfSize
ASSUME TimerAssumption ==
    /\ ByteRadix \in Nat \ {0, 1} /\ TimerSpan \in Nat \ {0} /\ TickDiv \in Nat \ {0}
    /\ MultNum \in Nat \ {0} /\ MultDen \in Nat \ {0}
    /\ Counts \subseteq 0..TimerSpan - 1 /\ MaxOverflow \in Nat
    /\ CardErrors \in BOOLEAN /\ AutoFinalize \in BOOLEAN /\ FinalizeTime \in Nat

VARIABLES
    pc,                          \* where record_file is
    g_fat_buffer, g_read_index, g_write_index,
    copied, rest,                \* bytes the current f_write has written; of the last one, to write
    g_tap_file_pos, g_tap_file_complete,
    g_signal_2nd_half,           \* recording: the first edge has been seen
    g_overflow, timerOn,
    tov,                         \* TOV1: an overflow whose handler has yet to run
    motorOff, g_cur_command, title,
    sense,                       \* the SENSE line: TRUE while RECORD is down
    data, length,                \* the file: what follows the header, its length field
    tape,                        \* history: all bytes of the pulses measured
    late,                        \* history: bytes of it recorded since the last test of the halves
    cardFailed,                  \* history: a write to the card failed
    wraps,                       \* history: overflows from the last reset of the timer to the
                                 \* next capture, but for those handled with the motor off
    afterAbort                   \* history: halves whose write began after the abort

fileVars   == <<data, length, copied, rest, cardFailed>>
overflowVars == <<g_overflow, tov, wraps>>
signalVars == <<g_signal_2nd_half, overflowVars, g_read_index, g_fat_buffer, g_tap_file_pos,
                tape, late>>
userVars   == <<motorOff, g_cur_command>>
deckVars   == <<timerOn, title, sense>>
vars == <<pc, afterAbort, g_write_index, g_tap_file_complete, deckVars, fileVars, signalVars,
          userVars>>

----------------------------------------------------------------------------
\* A uint8_t index into the buffer wraps; index & 0x80; index & 0x7F.
Wrap(i) == i % Size
Half(i) == i \div HalfSize
InHalf(i) == i % HalfSize

Greater(a, b) == IF a >= b THEN a ELSE b

Init ==
    /\ pc = "idle" /\ g_fat_buffer = [i \in 0..Size - 1 |-> 0]
    /\ g_read_index = 0 /\ g_write_index = 0 /\ copied = 0 /\ rest = 0
    /\ g_tap_file_pos = 0 /\ g_tap_file_complete = FALSE /\ g_signal_2nd_half = FALSE
    /\ g_overflow = 0 /\ timerOn = FALSE /\ motorOff = TRUE
    /\ g_cur_command = "idle" /\ title = "" /\ sense = FALSE
    /\ data = <<>> /\ length = 0 /\ tape = <<>> /\ late = 0 /\ cardFailed = FALSE
    /\ tov = FALSE /\ wraps = 0 /\ afterAbort = 0

----------------------------------------------------------------------------
(* record_file(), called once.  title is the last one shown; "not created"  *)
(* marks the early return, which shows none.                               *)

\* The file cannot be created.
RecordRejected ==
    /\ pc = "idle" /\ title = ""
    /\ g_tap_file_complete' = FALSE /\ g_tap_file_pos' = 0 /\ title' = "not created"
    /\ UNCHANGED <<pc, afterAbort, g_write_index, timerOn, sense, fileVars, userVars,
                   g_signal_2nd_half, overflowVars, g_read_index, g_fat_buffer, tape, late>>

\* A new file with a header whose length is 0; the buffer is cleared.
RecordStart ==
    /\ pc = "idle" /\ title = ""
    /\ data' = <<>> /\ length' = 0 /\ title' = "recording"
    /\ g_fat_buffer' = [i \in 0..Size - 1 |-> 0]
    /\ g_read_index' = 0 /\ g_write_index' = 0 /\ g_tap_file_pos' = 0
    /\ g_tap_file_complete' = FALSE /\ g_signal_2nd_half' = FALSE
    /\ sense' = TRUE /\ pc' = "motor"
    /\ UNCHANGED <<afterAbort, copied, rest, cardFailed, overflowVars, timerOn, tape, late,
                   userVars>>

\* Mutant: it is not reset.
ResetOverflow_Keeps == UNCHANGED g_overflow /\ wraps' = 0 /\ tov' \in {tov, TRUE}
\* g_overflow = 0 and TCNT1 = 0.  The flag is not cleared: it may be set from an overflow
\* before the capture, between the capture and its handler, or of an earlier use.
ResetOverflow == g_overflow' = 0 /\ wraps' = 0 /\ tov' \in {tov, TRUE}

\* The motor is on, or the user gives up: the timer is started all the same.
MotorOn ==
    /\ pc = "motor" /\ (~motorOff \/ g_cur_command = "abort")
    /\ ResetOverflow /\ timerOn' = TRUE /\ pc' = "wait"
    /\ UNCHANGED <<afterAbort, g_write_index, g_tap_file_complete, title, sense, fileVars,
                   userVars, g_signal_2nd_half, g_read_index, g_fat_buffer, g_tap_file_pos,
                   tape, late>>

\* A half is about to be written.
BeginWrite ==
    pc' = "write" /\ afterAbort' = IF g_cur_command = "abort" THEN afterAbort + 1 ELSE afterAbort

\* Mutant: the test of the halves is the wrong way round.
WaitTest_Swapped ==
    /\ pc \in {"wait", "again"}
    /\ IF Half(g_read_index) = Half(g_write_index) THEN BeginWrite
       ELSE pc' = "poll" /\ UNCHANGED afterAbort
    /\ UNCHANGED <<g_write_index, g_tap_file_complete, deckVars, fileVars, signalVars,
                   userVars>>

\* The condition of the inner while, after its body or, "again", after a write.
WaitTest ==
    /\ pc \in {"wait", "again"}
    /\ IF Half(g_read_index) = Half(g_write_index) THEN pc' = "poll" /\ UNCHANGED afterAbort
       ELSE BeginWrite
    /\ UNCHANGED <<g_write_index, g_tap_file_complete, deckVars, fileVars, signalVars,
                   userVars>>

\* The motor has been off for long enough.  The ticker never advances, as nothing
\* enables its interrupt, nor does tmp, which takes its value while the motor is on.
g_timer_tick == 0
tmp == 0
Finalizes == motorOff /\ AutoFinalize /\ g_timer_tick - tmp > FinalizeTime

\* Mutant: the abort is looked for only while the motor is off.
Poll_MotorOff ==
    /\ pc = "poll"
    /\ g_tap_file_complete' = (motorOff /\ g_cur_command = "abort")
    /\ pc' = IF motorOff /\ g_cur_command = "abort" THEN "rest" ELSE "wait"
    /\ late' = IF motorOff /\ g_cur_command = "abort" THEN late ELSE 0
    /\ UNCHANGED <<afterAbort, g_write_index, deckVars, fileVars, userVars, g_signal_2nd_half,
                   overflowVars, g_read_index, g_fat_buffer, g_tap_file_pos, tape>>

\* The body of the inner while.
Poll ==
    /\ pc = "poll"
    /\ g_tap_file_complete' = (Finalizes \/ g_cur_command = "abort")
    /\ IF Finalizes \/ g_cur_command = "abort" THEN pc' = "rest" /\ UNCHANGED late
       ELSE pc' = "wait" /\ late' = 0
    /\ UNCHANGED <<afterAbort, g_write_index, deckVars, fileVars, userVars, g_signal_2nd_half,
                   overflowVars, g_read_index, g_fat_buffer, g_tap_file_pos, tape>>

\* f_write(..., g_fat_buffer + g_write_index, n, &br), one byte of it.
WriteByte(n) ==
    /\ copied < n
    /\ data' = Append(data, g_fat_buffer[g_write_index + copied])
    /\ copied' = copied + 1
    /\ UNCHANGED <<pc, afterAbort, g_write_index, g_tap_file_complete, deckVars, length, rest,
                   cardFailed, signalVars, userVars>>

\* f_write returns; neither its result nor br is looked at.
WriteDone(n) ==
    /\ \/ copied = n /\ UNCHANGED cardFailed
       \/ copied < n /\ CardErrors /\ cardFailed' = TRUE
    /\ copied' = 0
    /\ UNCHANGED <<g_tap_file_complete, deckVars, data, length, rest, signalVars, userVars>>

WriteHalf == pc = "write" /\ WriteByte(HalfSize)

\* Mutant: an index that does not wrap.
HalfDone_Wide ==
    /\ pc = "write" /\ WriteDone(HalfSize)
    /\ g_write_index' = g_write_index + HalfSize /\ pc' = "again" /\ UNCHANGED afterAbort

HalfDone ==
    /\ pc = "write" /\ WriteDone(HalfSize)
    /\ g_write_index' = Wrap(g_write_index + HalfSize) /\ pc' = "again" /\ UNCHANGED afterAbort

\* "finish any remaining writes": the number of bytes is taken from the index of
\* the handler, which still runs.
Rest ==
    /\ pc = "rest"
    /\ rest' = InHalf(g_read_index)
    /\ pc' = IF g_write_index # g_read_index THEN "writeRest" ELSE "stop"
    /\ UNCHANGED <<afterAbort, g_write_index, g_tap_file_complete, deckVars, data, length,
                   copied, cardFailed, signalVars, userVars>>

WriteRest == pc = "writeRest" /\ WriteByte(rest)
RestDone ==
    /\ pc = "writeRest" /\ WriteDone(rest)
    /\ pc' = "stop" /\ UNCHANGED <<g_write_index, afterAbort>>

Stop ==
    /\ pc = "stop"
    /\ timerOn' = FALSE /\ sense' = FALSE /\ pc' = "length"
    /\ UNCHANGED <<afterAbort, g_write_index, g_tap_file_complete, title, fileVars, signalVars,
                   userVars>>

\* Mutant: the length counts the header.
WriteLength_WithHeader ==
    /\ pc = "length"
    /\ length' = g_tap_file_pos + 20
    /\ title' = IF g_cur_command = "abort" /\ ~AutoFinalize THEN "aborted" ELSE "complete"
    /\ g_cur_command' = "idle" /\ pc' = "idle"
    /\ UNCHANGED <<afterAbort, g_write_index, g_tap_file_complete, timerOn, sense, data, copied,
                   rest, cardFailed, signalVars, motorOff>>

\* The length goes into the header; the file is closed.
WriteLength ==
    /\ pc = "length"
    /\ length' = g_tap_file_pos
    /\ title' = IF g_cur_command = "abort" /\ ~AutoFinalize THEN "aborted" ELSE "complete"
    /\ g_cur_command' = "idle" /\ pc' = "idle"
    /\ UNCHANGED <<afterAbort, g_write_index, g_tap_file_complete, timerOn, sense, data, copied,
                   rest, cardFailed, signalVars, motorOff>>

----------------------------------------------------------------------------
(* The handlers.  TIMER1_CAPT: a rising edge of the C64's signal.  It has  *)
(* priority over TIMER1_OVF: an overflow just before it, or between the    *)
(* capture and the handler, is counted after it has reset g_overflow.      *)

\* Microseconds since the last edge, from the capture register and the overflows.
Micros(icr1) == (icr1 + g_overflow * TimerSpan) \div TickDiv

\* A short pulse is one byte, in units of eight cycles, at least 1; a long one
\* is 0 and its cycles in three bytes.
Encode(us) ==
    LET units == Greater((us * MultDen) \div (8 * MultNum), 1)
        cycles == (us * MultDen) \div MultNum
    IN IF units < ByteRadix THEN <<units>>
       ELSE <<0, cycles % ByteRadix, (cycles \div ByteRadix) % ByteRadix,
              (cycles \div (ByteRadix * ByteRadix)) % ByteRadix>>

FirstEdge ==
    /\ timerOn /\ ~g_signal_2nd_half
    /\ g_signal_2nd_half' = TRUE /\ ResetOverflow
    /\ UNCHANGED <<pc, afterAbort, g_write_index, g_tap_file_complete, deckVars, fileVars,
                   userVars, g_read_index, g_fat_buffer, g_tap_file_pos, tape, late>>

\* The loop has found nothing to write, and may have been left since.
Left == pc \in {"poll", "rest", "writeRest", "stop"}

\* Real time: a full half is written, and the halves are tested again, before the
\* handler has recorded much of the other; a turn of the inner loop and the end of the
\* recording are short.
InTime(bytes) ==
    /\ (~Left /\ Half(g_read_index) # Half(g_write_index)) \/ pc = "again" =>
           InHalf(g_read_index) + Len(bytes) <= FlushLag + LongBytes
    /\ Left => late + Len(bytes) <= MaxLate

Store(bytes) ==
    /\ g_fat_buffer' = [i \in 0..Size - 1 |->
            LET k == Wrap(i - g_read_index + Size)
            IN IF k < Len(bytes) THEN bytes[k + 1] ELSE g_fat_buffer[i]]
    /\ g_read_index' = Wrap(g_read_index + Len(bytes))
    /\ g_tap_file_pos' = g_tap_file_pos + Len(bytes)

Edge ==
    /\ timerOn /\ g_signal_2nd_half
    /\ \E icr1 \in Counts :
          LET bytes == Encode(Micros(icr1))
          IN /\ InTime(bytes) /\ g_tap_file_pos + Len(bytes) <= MaxBytes
             /\ Store(bytes)
             /\ tape' = tape \o bytes
             /\ late' = IF Left THEN late + Len(bytes) ELSE late
    /\ ResetOverflow
    /\ UNCHANGED <<pc, afterAbort, g_write_index, g_tap_file_complete, deckVars, fileVars,
                   userVars, g_signal_2nd_half>>

\* The timer overflows.  Its handler runs long before it does so again.
Overflow ==
    /\ timerOn /\ ~tov /\ wraps < MaxOverflow
    /\ tov' = TRUE /\ wraps' = wraps + 1
    /\ UNCHANGED <<pc, afterAbort, g_write_index, g_tap_file_complete, deckVars, fileVars,
                   userVars, g_overflow, g_signal_2nd_half, g_read_index, g_fat_buffer,
                   g_tap_file_pos, tape, late>>

\* The handler counts while the motor is on.  With no overflow in wraps the flag is
\* that of one before the last reset.
TIMER1_OVF ==
    /\ timerOn /\ tov
    /\ tov' = FALSE
    /\ IF motorOff THEN UNCHANGED g_overflow /\ wraps' = Greater(wraps - 1, 0)
       ELSE g_overflow' = g_overflow + 1 /\ UNCHANGED wraps
    /\ UNCHANGED <<pc, afterAbort, g_write_index, g_tap_file_complete, deckVars, fileVars,
                   userVars, g_signal_2nd_half, g_read_index, g_fat_buffer, g_tap_file_pos,
                   tape, late>>

\* The C64's motor line and the user's key.
Motor ==
    /\ motorOff' = ~motorOff
    /\ UNCHANGED <<pc, afterAbort, g_write_index, g_tap_file_complete, deckVars, fileVars,
                   signalVars, g_cur_command>>
Abort ==
    /\ pc # "idle" /\ g_cur_command' = "abort"
    /\ UNCHANGED <<pc, afterAbort, g_write_index, g_tap_file_complete, deckVars, fileVars,
                   signalVars, motorOff>>

----------------------------------------------------------------------------
Loops == MotorOn \/ WaitTest \/ Poll \/ WriteHalf \/ HalfDone \/ Rest \/ WriteRest \/ RestDone
         \/ Stop \/ WriteLength
record_file == RecordRejected \/ RecordStart \/ Loops
TIMER1_CAPT == FirstEdge \/ Edge

Next == record_file \/ TIMER1_CAPT \/ Overflow \/ TIMER1_OVF \/ Motor \/ Abort

Spec == Init /\ [][Next]_vars

\* record_file keeps running.
FairSpec == Spec /\ WF_vars(Loops)

----------------------------------------------------------------------------
(* Properties. *)

Titles == {"", "not created", "recording", "aborted", "complete"}
PCs == {"idle", "motor", "wait", "again", "poll", "write", "rest", "writeRest", "stop", "length"}

ControlTypes ==
    /\ pc \in PCs /\ title \in Titles /\ g_cur_command \in {"idle", "abort"}
    /\ g_tap_file_complete \in BOOLEAN /\ g_signal_2nd_half \in BOOLEAN /\ timerOn \in BOOLEAN
    /\ sense \in BOOLEAN /\ tov \in BOOLEAN /\ motorOff \in BOOLEAN /\ cardFailed \in BOOLEAN
RingTypes ==
    /\ g_fat_buffer \in [0..Size - 1 -> 0..ByteRadix - 1]
    /\ g_read_index \in 0..Size - 1 /\ g_write_index \in {0, HalfSize}
    /\ copied \in 0..HalfSize /\ rest \in 0..HalfSize - 1
TapeTypes ==
    /\ g_tap_file_pos \in Nat /\ length \in Nat /\ late \in Nat /\ afterAbort \in Nat
    /\ g_overflow \in Nat /\ wraps \in 0..MaxOverflow
    /\ data \in Seq(0..ByteRadix - 1) /\ tape \in Seq(0..ByteRadix - 1)

\* Type invariant of the recorder's variables (tapuino.cpp:63-75, 494-497).
TypeOK == ControlTypes /\ RingTypes /\ TapeTypes

\* Whatever the handler records while f_write reads the buffer, the file holds
\* the recorded bytes in their order, none of them twice and none overwritten
\* (tapuino.cpp:151-161 against 566-599).
FileIsRecording == ~cardFailed => IsPrefix(data, tape)

\* A capture that overtakes the handler of an overflow makes one pulse a period of the
\* timer too short or the next one too long, but the errors do not add up over the
\* pulses (tapuino.cpp:139-145, 163-166, 171-175, 302).
PulseOffByOne == g_overflow \in wraps - 1..wraps + 1

\* A recording during whose end no pulse arrives is complete when its file is
\* closed: everything recorded is in the file and its length in the header
\* (tapuino.cpp:586-607).
Closed == title \in {"aborted", "complete"}
CompleteIfQuiet == Closed /\ ~cardFailed /\ late = 0 => data = tape /\ length = Len(data)

\* The header of a closed file gives the length of its data: "total length of the
\* TAP data excluding header in bytes" (tapuino.cpp:52, 604-606).
HeaderMatchesData == Closed /\ ~cardFailed => length = Len(data)

\* However fast the signal is, the recorder does not go on for ever without looking for
\* the abort: once it has come, the write of one more half begins at most
\* (tapuino.cpp:566-567, 580-583, 591).
AbortHeard == afterAbort <= 1

\* An abort ends the recording, whatever the motor and the signal do.  MaxBytes ends every
\* signal; that none has to end, however long it is, is what AbortHeard adds
\* (tapuino.cpp:556-558, 580-583, 601-616).
AbortEnds == g_cur_command = "abort" ~> pc = "idle"
=============================================================================
