-------------------------- MODULE TapPlayerProofs --------------------------
(***************************************************************************)
(* Theorems about TapPlayer, for every size of the buffer, every image and *)
(* every multiplier: its variables keep their types, the ring holds what   *)
(* the interrupt handler has yet to play, and the handler never overtakes  *)
(* the refills.                                                            *)
(***************************************************************************)
EXTENDS TapPlayer, TLAPS

(* What holds besides TypeOK. *)

\* Which image is played, and in which states of play_file the timer runs.
DeckInv ==
    /\ timerOn <=> pc # "idle"
    /\ timerOn => file \in Files
    /\ ~playing => pc = "idle" /\ fptr = 0
    /\ pc # "fill" => copied = 0

\* Whose turn it is: f_read only runs when a half is owed.
TurnInv ==
    /\ pc = "fill" => Owed
    /\ pc = "check" => Owed \/ g_tap_file_complete

\* How far the image has been read, and the half that is being refilled.
FillInv ==
    Sound /\ timerOn =>
        /\ fptr = Least(Length, BufferedEnd + copied)
        /\ copied > 0 => fptr = BufferedEnd + copied
        /\ \A i \in 0..copied - 1 :
              g_fat_buffer[g_write_index + i] = file.data[BufferedEnd + i + 1]

Inv == TypeOK /\ DeckInv /\ TurnInv /\ FillInv /\ BufferHoldsUnplayed

----------------------------------------------------------------------------
(* Arithmetic. *)

\* How much the first read of an image, complete or not, has put into the ring.
LEMMA FirstRead ==
    ASSUME NEW m \in Nat, NEW n \in {m} \cup {k \in ShortReads : k < m}
    PROVE  n \in Nat /\ n <= m
<1>1. ShortReads \subseteq Nat
  BY EnvAssumption
<1>2. CASE n = m
  BY <1>2
<1>3. CASE n \in ShortReads /\ n < m
  <2>1. n \in Nat
    BY <1>1, <1>3
  <2> QED
    BY <1>3, <2>1
<1> QED
  BY <1>2, <1>3

\* Division of naturals stays in the naturals.
LEMMA DivNat == ASSUME NEW a \in Nat, NEW d \in Nat \ {0} PROVE a \div d \in Nat
  BY SMT

\* The indices of a window of a places.
LEMMA Below == ASSUME NEW a \in Int, NEW j \in 0..a - 1 PROVE j \in Nat /\ j < a
  OBVIOUS

\* The bytes of an image.
LEMMA ElementOf ==
    ASSUME NEW S, NEW s \in Seq(S), NEW i \in 1..Len(s) PROVE s[i] \in S
  OBVIOUS

\* The lengths of pulses are naturals.
LEMMA PulseNat ==
    ASSUME NEW a \in Nat, NEW b \in Nat, NEW c \in Nat
    PROVE  /\ ShortPulse(a) \in Nat
           /\ LongPulse(a, b, c) \in Nat
           /\ MaxSignalCycles \in Nat
<1>0. ByteRadix \in Nat /\ ByteRadix >= 1 /\ MultNum \in Nat /\ MultDen \in Nat \ {0}
  BY SizeAssumption, TimerAssumption
<1>1. a * 8 * MultNum \in Nat
  BY <1>0
<1>2. ShortPulse(a) \in Nat
  BY <1>0, <1>1, DivNat DEF ShortPulse
<1>3. /\ ByteRadix * b \in Nat
      /\ ByteRadix * ByteRadix \in Nat
  BY <1>0
<1>4. ByteRadix * ByteRadix * c \in Nat
  BY <1>0, <1>3
<1>5. (a + ByteRadix * b + ByteRadix * ByteRadix * c) * MultNum \in Nat
  BY <1>0, <1>3, <1>4
<1>6. LongPulse(a, b, c) \in Nat
  BY <1>0, <1>5, DivNat DEF LongPulse
<1>7. ByteRadix * ByteRadix >= 1
  BY <1>0
<1>8. ByteRadix * ByteRadix * ByteRadix >= 1 /\ ByteRadix * ByteRadix * ByteRadix \in Nat
  BY <1>0, <1>3, <1>7
<1>9. MultNum * (ByteRadix * ByteRadix * ByteRadix - 1) * 2 \in Nat
  BY <1>0, <1>8
<1>10. MaxSignalCycles \in Nat
  BY <1>0, <1>9, DivNat DEF MaxSignalCycles
<1> QED
  BY <1>2, <1>6, <1>10

----------------------------------------------------------------------------
(* The signal at the read index. *)

\* What the handler reads of the ring, in a state of the right types.
LEMMA SignalFacts ==
    ASSUME RingTypes, file \in Files
    PROVE  /\ SignalBytes \in 1..MaxSignalBytes(file.version)
           /\ FirstPulse \in Nat /\ SecondPulse \in Nat
           /\ RefillLag + MaxSignalBytes(file.version) <= HalfSize
<1>1. /\ HalfSize \in Nat \ {0} /\ RefillLag \in Nat /\ ByteRadix \in Nat
      /\ RefillLag + MaxSignalBytes(file.version) <= HalfSize
  BY SizeAssumption, FileAssumption
<1>2. MaxSignalBytes(file.version) \in {4, 8}
  BY DEF MaxSignalBytes
<1>3. \A i \in 0..7 : i < MaxSignalBytes(file.version) => Byte(i) \in Nat
  <2> SUFFICES ASSUME NEW i \in 0..7, i < MaxSignalBytes(file.version)
               PROVE  Byte(i) \in Nat
    OBVIOUS
  <2>1. g_read_index \in 0..Size - 1 /\ Size = 2 * HalfSize /\ i < HalfSize
    BY <1>1, <1>2 DEF RingTypes, Size
  <2>2. Wrap(g_read_index + i) \in 0..Size - 1
    BY <1>1, <2>1 DEF Wrap
  <2>3. g_fat_buffer \in [0..Size - 1 -> 0..ByteRadix - 1]
    BY DEF RingTypes
  <2>4. g_fat_buffer[Wrap(g_read_index + i)] \in 0..ByteRadix - 1
    BY <2>2, <2>3
  <2> QED
    BY <1>1, <2>4 DEF Byte
<1>4. \A i \in 0..4 : PulseBytes(i) \in {1, 4}
  BY DEF PulseBytes
<1>5. \A i \in 0..4 : i + 3 < MaxSignalBytes(file.version) => Pulse(i) \in Nat
  <2> SUFFICES ASSUME NEW i \in 0..4, i + 3 < MaxSignalBytes(file.version)
               PROVE  Pulse(i) \in Nat
    OBVIOUS
  <2>1. Byte(i) \in Nat /\ Byte(i + 1) \in Nat /\ Byte(i + 2) \in Nat /\ Byte(i + 3) \in Nat
    BY <1>2, <1>3
  <2>2. /\ ShortPulse(Byte(i)) \in Nat /\ ShortPulse(ByteRadix) \in Nat
        /\ LongPulse(Byte(i + 1), Byte(i + 2), Byte(i + 3)) \in Nat
    BY <1>1, <2>1, PulseNat
  <2> QED
    BY <2>2 DEF Pulse
<1>6. CASE file.version = 2
  <2>1. MaxSignalBytes(file.version) = 8
    BY <1>6 DEF MaxSignalBytes
  <2>2. SignalBytes \in 1..8
    BY <1>4, <1>6 DEF SignalBytes
  <2>3. Pulse(0) \in Nat /\ Pulse(PulseBytes(0)) \in Nat
    BY <1>4, <1>5, <2>1
  <2> QED
    BY <1>1, <1>6, <2>1, <2>2, <2>3 DEF FirstPulse, SecondPulse
<1>7. CASE file.version # 2
  <2>1. MaxSignalBytes(file.version) = 4
    BY <1>7 DEF MaxSignalBytes
  <2>2. SignalBytes \in 1..4
    BY <1>4, <1>7 DEF SignalBytes
  <2>3. Pulse(0) \in Nat
    BY <1>5, <2>1
  <2> QED
    BY <1>1, <1>7, <2>1, <2>2, <2>3 DEF FirstPulse, SecondPulse
<1> QED
  BY <1>6, <1>7

----------------------------------------------------------------------------
(* The initial states. *)

LEMMA InitInv == Init => Inv
<1> SUFFICES ASSUME Init PROVE Inv
  OBVIOUS
<1>1. HalfSize \in Nat \ {0} /\ ByteRadix \in Nat \ {0} /\ MaxOCR \in Nat /\ MotorStops \in BOOLEAN
  BY SizeAssumption, TimerAssumption, EnvAssumption
<1>2. MaxSignalCycles \in Nat
  BY PulseNat
<1>3. ControlTypes
  BY <1>1 DEF Init, ControlTypes, IdleLevel, PlayStates, Titles, Levels, Keys, Causes
<1>4. file.version = 0 /\ file.data = <<>> /\ Length = 0 /\ fptr = 0
  BY DEF Init, Length
<1>5. file.data \in Seq(0..ByteRadix - 1)
  BY <1>4
<1>6. g_fat_buffer \in [0..Size - 1 -> 0..ByteRadix - 1]
  <2>1. g_fat_buffer = [i \in 0..Size - 1 |-> 0]
    BY DEF Init
  <2> QED
    BY <1>1, <2>1
<1>7. /\ g_read_index = 0 /\ g_write_index = 0 /\ copied = 0 /\ g_tap_file_pos = 0
      /\ g_pulse_length = 0 /\ g_pulse_length_save = 0 /\ g_signal_2nd_half = FALSE
      /\ g_total_timer_count = 0 /\ OCR1A = 0 /\ halfTicks = 0
  BY DEF Init
<1>8. RingTypes
  BY <1>1, <1>4, <1>5, <1>6, <1>7 DEF RingTypes, Size
<1>9. SignalTypes
  BY <1>1, <1>2, <1>7 DEF SignalTypes
<1>10. pc = "idle" /\ timerOn = FALSE /\ playing = FALSE
  BY DEF Init
<1>11. DeckInv /\ TurnInv
  BY <1>4, <1>7, <1>10 DEF DeckInv, TurnInv
<1>12. FillInv /\ BufferHoldsUnplayed
  BY <1>10 DEF FillInv, BufferHoldsUnplayed
<1> QED
  BY <1>3, <1>8, <1>9, <1>11, <1>12 DEF Inv, TypeOK

----------------------------------------------------------------------------
(* Types are preserved. *)

\* The main loop and the lines.
LEMMA ControlStep == ASSUME ControlTypes, Next PROVE ControlTypes'
<1>1. ShortReads \subseteq Nat /\ Commands \subseteq {"select", "abort"}
  BY EnvAssumption
<1>2. CASE PlayRejected
  BY <1>2 DEF ControlTypes, PlayRejected, bufferVars, signalVars, userVars, Titles
<1>3. CASE PlayStart
  <2>1. /\ playing' = TRUE /\ fileOpen' = TRUE /\ timerOn' = TRUE /\ sense' = TRUE
        /\ title' = "loading" /\ g_tap_file_complete' = FALSE /\ g_is_paused' = FALSE
        /\ g_signal_2nd_half' = FALSE
        /\ level' = IdleLevel /\ UNCHANGED <<motorOff, g_cur_command, cause>>
    BY <1>3 DEF PlayStart
  <2>2. pc' \in {"wait", "drain"} /\ cardFailed' \in BOOLEAN
    BY <1>3 DEF PlayStart
  <2> QED
    BY <2>1, <2>2 DEF ControlTypes, IdleLevel, PlayStates, Titles, Levels
<1>4. CASE WaitTest
  BY <1>4 DEF ControlTypes, WaitTest, bufferVars, signalVars, deckVars, userVars, PlayStates
<1>5. CASE PollStop
  BY <1>5 DEF ControlTypes, PollStop, bufferVars, signalVars, deckVars, PlayStates, Causes
<1>6. CASE PollSelect
  BY <1>6 DEF ControlTypes, PollSelect, bufferVars, signalVars, deckVars, PlayStates, Keys
<1>7. CASE PollAgain
  BY <1>7 DEF ControlTypes, PollAgain, bufferVars, signalVars, deckVars, userVars, PlayStates
<1>8. CASE Check
  BY <1>8 DEF ControlTypes, Check, bufferVars, signalVars, deckVars, userVars, PlayStates
<1>9. CASE CopyByte
  BY <1>9 DEF ControlTypes, CopyByte, signalVars, deckVars, userVars
<1>10. CASE FillDone
  BY <1>10 DEF ControlTypes, FillDone, signalVars, deckVars, userVars, PlayStates
<1>11. CASE Drain
  BY <1>11 DEF ControlTypes, Drain, bufferVars, signalVars, deckVars, PlayStates, Causes
<1>12. CASE Stop
  BY <1>12 DEF ControlTypes, Stop, bufferVars, IdleLevel, PlayStates, Titles, Levels, Keys
<1>13. CASE Halted
  BY <1>13 DEF ControlTypes, Halted, bufferVars, signalVars, deckVars, userVars
<1>14. CASE SecondHalf
  BY <1>14 DEF ControlTypes, SecondHalf, bufferVars, deckVars, userVars, SecondLevel, IdleLevel,
               Levels
<1>15. CASE FirstHalf
  <2>1. g_signal_2nd_half' \in BOOLEAN
    BY <1>15 DEF FirstHalf, FirstHalfOf
  <2> QED
    BY <1>15, <2>1 DEF ControlTypes, FirstHalf, bufferVars, deckVars, userVars
<1>16. CASE EndOfTape
  BY <1>16 DEF ControlTypes, EndOfTape, bufferVars, signalVars, deckVars, userVars
<1>17. CASE LoadSignal
  <2>1. g_signal_2nd_half' \in BOOLEAN
    BY <1>17 DEF LoadSignal, FirstHalfOf
  <2> QED
    BY <1>17, <2>1 DEF ControlTypes, LoadSignal, bufferVars, deckVars, userVars, FirstLevel, Levels
<1>18. CASE Motor
  BY <1>18 DEF ControlTypes, Motor, bufferVars, signalVars, deckVars
<1>19. CASE KeyPress
  BY <1>1, <1>19 DEF ControlTypes, KeyPress, bufferVars, signalVars, deckVars, Keys
<1> QED
  BY <1>2, <1>3, <1>4, <1>5, <1>6, <1>7, <1>8, <1>9, <1>10, <1>11, <1>12, <1>13, <1>14, <1>15,
     <1>16, <1>17, <1>18, <1>19 DEF Next, play_file, TIMER1_COMPA

\* The ring and the image.
LEMMA RingStep == ASSUME RingTypes, DeckInv, Next PROVE RingTypes'
<1> USE DEF RingTypes
<1>1. HalfSize \in Nat \ {0} /\ ByteRadix \in Nat /\ Size = 2 * HalfSize /\ RefillLag \in Nat
  BY SizeAssumption DEF Size
<1>2. \A f \in Files : f.version \in Nat /\ f.data \in Seq(0..ByteRadix - 1)
  BY FileAssumption
<1>3. CASE UNCHANGED <<bufferVars, tapeVars, file>>
  BY <1>3 DEF bufferVars, tapeVars, Length
<1>4. CASE PlayRejected
  <2>1. fptr = 0 /\ UNCHANGED <<bufferVars, tapeVars>>
    BY <1>4 DEF PlayRejected, DeckInv
  <2>2. file' \in Files \/ file' = file
    BY <1>4 DEF PlayRejected
  <2>3. file'.version \in Nat /\ file'.data \in Seq(0..ByteRadix - 1)
    BY <1>2, <2>2
  <2>4. Len(file'.data) \in Nat
    BY <2>3
  <2> QED
    BY <2>1, <2>3, <2>4 DEF bufferVars, tapeVars, Length
<1>5. CASE PlayStart
  <2>1. PICK f \in Files, n \in Nat :
          /\ n <= Least(Size, Len(f.data))
          /\ file' = f /\ fptr' = n
          /\ g_fat_buffer' = [i \in 0..Size - 1 |-> IF i < n THEN f.data[i + 1] ELSE g_fat_buffer[i]]
    <3>1. \A f \in Files : Least(Size, Len(f.data)) \in Nat
      BY <1>1, <1>2 DEF Least
    <3> QED
      BY <1>5, <3>1, FirstRead DEF PlayStart
  <2>2. f.version \in Nat /\ f.data \in Seq(0..ByteRadix - 1) /\ Len(f.data) \in Nat
    BY <1>2
  <2>3. n \in 0..Len(f.data) /\ n \in 0..Size
    BY <1>1, <2>1, <2>2 DEF Least
  <2>4. ASSUME NEW i \in 0..Size - 1, i < n PROVE f.data[i + 1] \in 0..ByteRadix - 1
    <3>1. i + 1 \in 1..Len(f.data)
      BY <1>1, <2>2, <2>3, <2>4
    <3> QED
      BY <2>2, <3>1, ElementOf
  <2>5. g_fat_buffer' \in [0..Size - 1 -> 0..ByteRadix - 1]
    BY <1>1, <2>1, <2>4
  <2>6. g_write_index' = 0 /\ g_read_index' = 0 /\ g_tap_file_pos' = 0 /\ copied' = copied
    BY <1>5 DEF PlayStart
  <2> QED
    BY <1>1, <2>1, <2>2, <2>3, <2>5, <2>6 DEF Length
<1>6. CASE CopyByte
  <2>1. /\ copied < HalfSize /\ fptr < Length /\ copied' = copied + 1 /\ fptr' = fptr + 1
        /\ g_fat_buffer' = [g_fat_buffer EXCEPT ![g_write_index + copied] = file.data[fptr + 1]]
        /\ UNCHANGED <<tapeVars, file, g_write_index>>
    BY <1>6 DEF CopyByte, deckVars
  <2>2. Len(file.data) \in Nat /\ Length = Len(file.data)
    BY DEF Length
  <2>3. file.data[fptr + 1] \in 0..ByteRadix - 1
    <3>1. file.data \in Seq(0..ByteRadix - 1) /\ fptr \in 0..Len(file.data)
      BY DEF Length
    <3>2. fptr + 1 \in 1..Len(file.data)
      BY <2>1, <2>2, <3>1
    <3> QED
      BY <3>1, <3>2, ElementOf
  <2>4. g_fat_buffer' \in [0..Size - 1 -> 0..ByteRadix - 1]
    BY <2>1, <2>3
  <2>5. /\ file' = file /\ g_read_index' = g_read_index /\ g_tap_file_pos' = g_tap_file_pos
        /\ g_write_index' = g_write_index
    BY <2>1 DEF tapeVars
  <2>6. fptr' \in 0..Length' /\ copied' \in 0..HalfSize
    BY <1>1, <2>1, <2>2, <2>5 DEF Length
  <2> QED
    BY <2>4, <2>5, <2>6
<1>7. CASE FillDone
  <2>1. /\ g_write_index' = Wrap(g_write_index + HalfSize) /\ copied' = 0
        /\ UNCHANGED <<tapeVars, file, g_fat_buffer, fptr>>
    BY <1>7 DEF FillDone, deckVars
  <2>2. g_write_index' \in {0, HalfSize}
    BY <1>1, <2>1 DEF Wrap
  <2> QED
    BY <1>1, <2>1, <2>2 DEF tapeVars, Length
<1>8. CASE LoadSignal
  <2>1. file \in Files
    BY <1>8 DEF LoadSignal, Running, DeckInv
  <2>2. SignalBytes \in 1..HalfSize
    BY <1>1, <2>1, SignalFacts DEF MaxSignalBytes
  <2>3. /\ g_read_index' = Wrap(g_read_index + SignalBytes)
        /\ g_tap_file_pos' = g_tap_file_pos + SignalBytes
        /\ UNCHANGED <<bufferVars, file>>
    BY <1>8 DEF LoadSignal, deckVars
  <2>4. g_read_index' \in 0..Size - 1 /\ g_tap_file_pos' \in Nat
    BY <1>1, <2>2, <2>3 DEF Wrap
  <2> QED
    BY <2>3, <2>4 DEF bufferVars, Length
<1>9. CASE WaitTest \/ PollStop \/ PollSelect \/ PollAgain \/ Check \/ Drain
  BY <1>3, <1>9 DEF WaitTest, PollStop, PollSelect, PollAgain, Check, Drain, deckVars
<1>10. CASE Stop
  BY <1>3, <1>10 DEF Stop
<1>11. CASE Halted \/ SecondHalf \/ FirstHalf \/ EndOfTape
  BY <1>3, <1>11 DEF Halted, SecondHalf, FirstHalf, EndOfTape, deckVars
<1>12. CASE Motor \/ KeyPress
  BY <1>3, <1>12 DEF Motor, KeyPress, deckVars
<1> QED
  BY <1>4, <1>5, <1>6, <1>7, <1>8, <1>9, <1>10, <1>11, <1>12 DEF Next, play_file, TIMER1_COMPA

\* The signal: the delay counter, the compare register and the pulse lengths.
LEMMA SignalStep == ASSUME RingTypes, SignalTypes, DeckInv, Next PROVE SignalTypes'
<1> USE DEF SignalTypes
<1>1. MaxOCR \in Nat \ {0} /\ MaxSignalCycles \in Nat
  BY TimerAssumption, PulseNat
<1>2. CASE UNCHANGED <<signalVars, g_total_timer_count>>
  BY <1>2 DEF signalVars
<1>3. Elapsed \in 0..MaxSignalCycles + 1
  BY <1>1 DEF Elapsed, Total, Least
<1>4. CASE PlayStart
  <2>1. /\ g_total_timer_count' = 0 /\ OCR1A' = MaxOCR
        /\ UNCHANGED <<g_pulse_length, g_pulse_length_save, halfTicks>>
    BY <1>4 DEF PlayStart
  <2> QED
    BY <1>1, <2>1
<1>5. CASE Stop
  <2>1. UNCHANGED <<g_pulse_length, g_pulse_length_save, halfTicks, OCR1A, g_total_timer_count>>
    BY <1>5 DEF Stop
  <2> QED
    BY <2>1
<1>6. CASE Halted
  <2>1. g_total_timer_count' = Elapsed /\ UNCHANGED signalVars
    BY <1>6 DEF Halted
  <2> QED
    BY <1>3, <2>1 DEF signalVars
<1>7. CASE EndOfTape
  <2>1. g_total_timer_count' = 0 /\ UNCHANGED signalVars
    BY <1>7 DEF EndOfTape
  <2> QED
    BY <1>1, <2>1 DEF signalVars
<1>8. ASSUME NEW pulse \in Nat, Emit(pulse)
      PROVE  OCR1A' \in 0..MaxOCR /\ halfTicks' \in Nat /\ pulse - Piece(pulse) \in Nat
  BY <1>1, <1>8 DEF Emit, Piece, Least
<1>9. CASE SecondHalf
  <2>1. /\ g_total_timer_count' = Elapsed /\ Emit(g_pulse_length)
        /\ g_pulse_length' = g_pulse_length - Piece(g_pulse_length)
        /\ g_pulse_length_save' = g_pulse_length_save
    BY <1>9 DEF SecondHalf
  <2> QED
    BY <1>3, <1>8, <2>1
<1>10. ASSUME NEW pulse \in Nat, NEW save \in Nat, FirstHalfOf(pulse, save)
       PROVE  g_pulse_length' \in Nat /\ OCR1A' \in 0..MaxOCR /\ halfTicks' \in Nat
  <2>1. Emit(pulse) /\ g_pulse_length' = IF pulse > MaxOCR THEN pulse - MaxOCR ELSE save
    BY <1>10 DEF FirstHalfOf
  <2> QED
    BY <1>1, <1>8, <2>1
<1>11. CASE FirstHalf
  <2>1. /\ g_total_timer_count' = Elapsed /\ g_pulse_length_save' = g_pulse_length_save
        /\ FirstHalfOf(g_pulse_length, g_pulse_length_save)
    BY <1>11 DEF FirstHalf
  <2> QED
    BY <1>3, <1>10, <2>1
<1>12. CASE LoadSignal
  <2>1. file \in Files
    BY <1>12 DEF LoadSignal, Running, DeckInv
  <2>2. FirstPulse \in Nat /\ SecondPulse \in Nat
    BY <2>1, SignalFacts
  <2>3. /\ g_total_timer_count' = 0 /\ g_pulse_length_save' = SecondPulse
        /\ FirstHalfOf(FirstPulse, SecondPulse)
    BY <1>12 DEF LoadSignal
  <2> QED
    BY <1>1, <1>10, <2>2, <2>3
<1>13. CASE PlayRejected \/ WaitTest \/ PollStop \/ PollSelect \/ PollAgain \/ Check
  BY <1>2, <1>13 DEF PlayRejected, WaitTest, PollStop, PollSelect, PollAgain, Check
<1>14. CASE CopyByte \/ FillDone \/ Drain \/ Motor \/ KeyPress
  BY <1>2, <1>14 DEF CopyByte, FillDone, Drain, Motor, KeyPress
<1> QED
  BY <1>4, <1>5, <1>6, <1>7, <1>9, <1>11, <1>12, <1>13, <1>14 DEF Next, play_file, TIMER1_COMPA

----------------------------------------------------------------------------
(* Who runs when, and whose turn it is. *)

LEMMA DeckStep == ASSUME DeckInv, Next PROVE DeckInv'
<1> USE DEF DeckInv
<1>1. CASE UNCHANGED <<timerOn, file, playing, fptr, copied>> /\ pc \notin {"idle", "fill"}
                /\ pc' # "idle"
  BY <1>1
<1>2. CASE UNCHANGED <<timerOn, file, playing, fptr, copied, pc>>
  BY <1>2
<1>3. CASE PlayRejected
  BY <1>3 DEF PlayRejected, bufferVars
<1>4. CASE PlayStart
  <2>1. timerOn' = TRUE /\ playing' = TRUE /\ copied' = copied /\ pc = "idle"
    BY <1>4 DEF PlayStart
  <2>2. pc' \in {"wait", "drain"} /\ file' \in Files
    BY <1>4 DEF PlayStart
  <2> QED
    BY <2>1, <2>2
<1>5. CASE WaitTest \/ PollStop \/ PollSelect \/ PollAgain \/ Check \/ Drain
  BY <1>1, <1>5 DEF WaitTest, PollStop, PollSelect, PollAgain, Check, Drain, bufferVars, deckVars
<1>6. CASE CopyByte
  BY <1>6 DEF CopyByte, deckVars
<1>7. CASE FillDone
  BY <1>7 DEF FillDone, deckVars
<1>8. CASE Stop
  BY <1>8 DEF Stop, bufferVars
<1>9. CASE Halted \/ SecondHalf \/ FirstHalf \/ EndOfTape \/ LoadSignal
  BY <1>2, <1>9 DEF Halted, SecondHalf, FirstHalf, EndOfTape, LoadSignal, bufferVars, deckVars
<1>10. CASE Motor \/ KeyPress
  BY <1>2, <1>10 DEF Motor, KeyPress, bufferVars, deckVars
<1> QED
  BY <1>3, <1>4, <1>5, <1>6, <1>7, <1>8, <1>9, <1>10 DEF Next, play_file, TIMER1_COMPA

\* What taking a signal does to the ring: the handler moves on within what is
\* buffered; while refills go on it does not leave a half whose refill is owed,
\* so the end of what is buffered stays where it is.
LEMMA LoadAdvances ==
    ASSUME RingTypes, DeckInv, LoadSignal
    PROVE  /\ SignalBytes \in 1..HalfSize
           /\ g_tap_file_pos' = g_tap_file_pos + SignalBytes
           /\ g_read_index' = Wrap(g_read_index + SignalBytes)
           /\ UNCHANGED <<pc, file, timerOn, bufferVars>>
           /\ Refilling => /\ Owed => Owed'
                           /\ SignalBytes <= Ahead
                           /\ Ahead' = Ahead - SignalBytes
                           /\ BufferedEnd' = BufferedEnd
           /\ BufferedEnd' >= BufferedEnd
           /\ \A j \in Nat : j + SignalBytes < Ahead =>
                 Wrap(g_read_index' + j) = Wrap(g_read_index + (j + SignalBytes))
<1>1. file \in Files
  BY DEF LoadSignal, Running, DeckInv
<1>2. /\ SignalBytes \in Nat /\ SignalBytes >= 1 /\ RefillLag + SignalBytes <= HalfSize
      /\ HalfSize \in Nat \ {0} /\ RefillLag \in Nat
  BY <1>1, SignalFacts, SizeAssumption DEF MaxSignalBytes
<1>3. /\ g_tap_file_pos' = g_tap_file_pos + SignalBytes
      /\ g_read_index' = Wrap(g_read_index + SignalBytes)
      /\ UNCHANGED <<pc, file, timerOn, bufferVars>>
  BY DEF LoadSignal, deckVars
<1>4. g_write_index' = g_write_index
  BY <1>3 DEF bufferVars
<1>5. Refilling /\ Owed => InHalf(g_read_index) < RefillLag
  BY DEF LoadSignal, InTime, Refilling
<1>6. g_read_index \in 0..2 * HalfSize - 1 /\ g_write_index \in {0, HalfSize} /\ g_tap_file_pos \in Nat
  BY DEF RingTypes, Size
<1>7. Refilling => (Owed => Owed')
  BY <1>2, <1>3, <1>4, <1>5, <1>6 DEF Owed, Half, InHalf, Wrap, Size
<1>8. Refilling => SignalBytes <= Ahead
  BY <1>2, <1>5, <1>6 DEF Ahead, InHalf
<1>9. Refilling => Ahead' = Ahead - SignalBytes /\ BufferedEnd' = BufferedEnd
  BY <1>2, <1>3, <1>4, <1>5, <1>6 DEF BufferedEnd, Ahead, Owed, Half, InHalf, Wrap, Size
<1>10. BufferedEnd' >= BufferedEnd
  BY <1>2, <1>3, <1>4, <1>6 DEF BufferedEnd, Ahead, Owed, Half, InHalf, Wrap, Size
<1>11. ASSUME NEW j \in Nat, j + SignalBytes < Ahead
       PROVE  Wrap(g_read_index' + j) = Wrap(g_read_index + (j + SignalBytes))
  BY <1>2, <1>3, <1>6, <1>11 DEF Ahead, InHalf, Wrap, Size
<1> QED
  BY <1>2, <1>3, <1>7, <1>8, <1>9, <1>10, <1>11

LEMMA TurnStep == ASSUME ControlTypes, RingTypes, DeckInv, TurnInv, Next PROVE TurnInv'
<1>1. CASE UNCHANGED <<pc, tapeVars, bufferVars>> /\ (g_tap_file_complete => g_tap_file_complete')
  BY <1>1 DEF TurnInv, Owed, Half, tapeVars, bufferVars
<1>2. CASE pc' \notin {"check", "fill"}
  BY <1>2 DEF TurnInv
<1>3. CASE PlayRejected
  BY <1>2, <1>3 DEF PlayRejected
<1>4. CASE PlayStart
  BY <1>2, <1>4 DEF PlayStart
<1>5. CASE WaitTest
  <2>1. pc' = (IF Owed THEN "check" ELSE "poll") /\ UNCHANGED <<tapeVars, bufferVars>>
    BY <1>5 DEF WaitTest
  <2> QED
    BY <2>1 DEF TurnInv, Owed, Half, tapeVars, bufferVars
<1>6. CASE PollStop
  BY <1>6 DEF PollStop, TurnInv
<1>7. CASE PollSelect \/ PollAgain \/ Drain \/ Stop
  BY <1>2, <1>7 DEF PollSelect, PollAgain, Drain, Stop
<1>8. CASE Check
  <2>1. /\ pc = "check" /\ pc' = (IF g_tap_file_complete THEN "drain" ELSE "fill")
        /\ UNCHANGED <<tapeVars, bufferVars, g_tap_file_complete>>
    BY <1>8 DEF Check
  <2> QED
    BY <2>1 DEF TurnInv, Owed, Half, tapeVars, bufferVars
<1>9. CASE CopyByte
  <2>1. pc' = pc /\ g_read_index' = g_read_index /\ g_write_index' = g_write_index /\ pc = "fill"
    BY <1>9 DEF CopyByte, tapeVars
  <2> QED
    BY <2>1 DEF TurnInv, Owed, Half
<1>10. CASE FillDone
  BY <1>2, <1>10 DEF FillDone
<1>11. CASE Halted \/ SecondHalf \/ FirstHalf
  BY <1>1, <1>11 DEF Halted, SecondHalf, FirstHalf
<1>12. CASE EndOfTape
  BY <1>1, <1>12 DEF EndOfTape
<1>13. CASE LoadSignal
  <2>1. pc' = pc /\ g_tap_file_complete' = g_tap_file_complete
    BY <1>13 DEF LoadSignal
  <2>2. pc \in {"fill", "check"} => (Owed => Owed')
    BY <1>13, LoadAdvances DEF Refilling
  <2> QED
    BY <2>1, <2>2 DEF TurnInv
<1>14. CASE Motor \/ KeyPress
  BY <1>1, <1>14 DEF Motor, KeyPress
<1> QED
  BY <1>3, <1>4, <1>5, <1>6, <1>7, <1>8, <1>9, <1>10, <1>11, <1>12, <1>13, <1>14
     DEF Next, play_file, TIMER1_COMPA

----------------------------------------------------------------------------
(* What the ring holds. *)

Holds == FillInv /\ BufferHoldsUnplayed

\* A step that leaves the ring and the image alone, and does not make an unsound
\* player sound.
LEMMA HoldsFrame ==
    ASSUME Holds, UNCHANGED <<tapeVars, bufferVars, file>>, Sound' /\ timerOn' => Sound /\ timerOn
    PROVE  Holds'
<1>1. /\ Length' = Length /\ Ahead' = Ahead /\ BufferedEnd' = BufferedEnd
      /\ UNCHANGED <<g_fat_buffer, g_write_index, copied, fptr, g_read_index, g_tap_file_pos, file>>
  BY DEF tapeVars, bufferVars, Length, Ahead, BufferedEnd, Owed, Half, InHalf
<1>2. FillInv'
  BY <1>1 DEF Holds, FillInv
<1>3. BufferHoldsUnplayed'
  BY <1>1 DEF Holds, BufferHoldsUnplayed
<1> QED
  BY <1>2, <1>3 DEF Holds

LEMMA HoldsStart == ASSUME RingTypes, DeckInv, PlayStart PROVE Holds'
<1>1. HalfSize \in Nat \ {0} /\ Size = 2 * HalfSize
  BY SizeAssumption DEF Size
<1>2. /\ g_write_index' = 0 /\ g_read_index' = 0 /\ g_tap_file_pos' = 0 /\ copied' = 0
  BY DEF PlayStart, DeckInv
<1>3. Ahead' = Size /\ BufferedEnd' = Size
  BY <1>1, <1>2 DEF Ahead, BufferedEnd, Owed, Half, InHalf
<1>4. PICK f \in Files, n \in Nat :
         /\ n <= Least(Size, Len(f.data))
         /\ file' = f /\ fptr' = n /\ cardFailed' = (n < Least(Size, Len(f.data)))
         /\ g_fat_buffer' = [i \in 0..Size - 1 |-> IF i < n THEN f.data[i + 1] ELSE g_fat_buffer[i]]
  <2>1. \A f \in Files : Least(Size, Len(f.data)) \in Nat
    BY <1>1, FileAssumption DEF Least
  <2> QED
    BY <2>1, FirstRead DEF PlayStart
<1>5. Len(f.data) \in Nat /\ Length' = Len(f.data)
  BY <1>4, FileAssumption DEF Length
<1>6. Sound' => fptr' = Least(Length', Size)
  <2>1. Sound' => ~(n < Least(Size, Len(f.data)))
    BY <1>4 DEF Sound
  <2>2. ~(n < Least(Size, Len(f.data))) => n = Least(Len(f.data), Size)
    BY <1>1, <1>4, <1>5 DEF Least
  <2> QED
    BY <1>4, <1>5, <2>1, <2>2
<1>7. FillInv'
  BY <1>1, <1>2, <1>3, <1>5, <1>6 DEF FillInv
<1>8. ASSUME Sound', NEW j \in 0..Size - 1, j < Length'
      PROVE  g_fat_buffer'[Wrap(j)] = file'.data[j + 1]
  BY <1>1, <1>4, <1>5, <1>6, <1>8 DEF Wrap, Least
<1>9. BufferHoldsUnplayed'
  <2> SUFFICES ASSUME Sound', NEW j \in 0..Ahead' - 1, g_tap_file_pos' + j < Length'
               PROVE  g_fat_buffer'[Wrap(g_read_index' + j)] = file'.data[g_tap_file_pos' + j + 1]
    BY DEF BufferHoldsUnplayed
  <2>1. j \in 0..Size - 1 /\ 0 + j = j
    BY <1>1, <1>3
  <2> QED
    BY <1>2, <1>8, <2>1
<1> QED
  BY <1>7, <1>9 DEF Holds

LEMMA HoldsLoad == ASSUME RingTypes, DeckInv, Holds, LoadSignal PROVE Holds'
<1>1. HalfSize \in Nat \ {0} /\ Length \in Nat /\ g_tap_file_pos \in Nat /\ fptr \in Nat
      /\ copied \in Nat /\ Ahead \in Nat
  BY SizeAssumption DEF RingTypes, Length, Ahead, InHalf, Size
<1>2. /\ SignalBytes \in 1..HalfSize /\ g_tap_file_pos' = g_tap_file_pos + SignalBytes
      /\ UNCHANGED <<pc, file, timerOn, fptr, copied, g_fat_buffer, g_write_index, cardFailed>>
      /\ Refilling => BufferedEnd' = BufferedEnd
      /\ BufferedEnd' >= BufferedEnd
  BY LoadAdvances DEF bufferVars
<1>3. Length' = Length /\ Sound' = Sound /\ BufferedEnd = g_tap_file_pos + Ahead
      /\ BufferedEnd' = g_tap_file_pos' + Ahead'
  BY <1>2 DEF Length, Sound, Refilling, BufferedEnd
<1> SUFFICES ASSUME Sound, timerOn PROVE Holds'
  BY <1>2, <1>3 DEF Holds, FillInv, BufferHoldsUnplayed
<1>4. /\ fptr = Least(Length, BufferedEnd + copied)
      /\ copied > 0 => fptr = BufferedEnd + copied
      /\ \A i \in 0..copied - 1 :
            g_fat_buffer[g_write_index + i] = file.data[BufferedEnd + i + 1]
  BY DEF Holds, FillInv
<1>5. \/ Ahead' = Ahead - SignalBytes /\ BufferedEnd' = BufferedEnd
      \/ copied = 0 /\ fptr = Length /\ Length <= BufferedEnd
  <2>1. CASE Refilling
    BY <2>1, LoadAdvances
  <2>2. CASE ~Refilling
    <3>1. fptr = Length
      BY <2>2 DEF Sound
    <3>2. copied = 0
      BY <2>2 DEF DeckInv, Refilling
    <3> QED
      BY <1>1, <1>3, <1>4, <3>1, <3>2 DEF Least
  <2> QED
    BY <2>1, <2>2
<1>6. Ahead' \in Int
  <2>1. RingTypes'
    BY RingStep DEF Next, TIMER1_COMPA
  <2>2. g_read_index' \in Int
    BY <2>1 DEF RingTypes, Size
  <2> QED
    BY <1>1, <2>2 DEF Ahead, InHalf
<1>7. FillInv'
  <2>1. CASE BufferedEnd' = BufferedEnd
    BY <1>2, <1>3, <1>4, <2>1 DEF FillInv
  <2>2. CASE copied = 0 /\ fptr = Length /\ Length <= BufferedEnd
    <3>1. BufferedEnd' \in Int /\ BufferedEnd \in Int
      BY <1>1, <1>2, <1>3, <1>6
    <3>2. fptr' = Least(Length', BufferedEnd' + copied')
      BY <1>1, <1>2, <1>3, <2>2, <3>1 DEF Least
    <3>3. copied' = 0
      BY <1>2, <2>2
    <3> QED
      BY <3>2, <3>3 DEF FillInv
  <2> QED
    BY <1>5, <2>1, <2>2
<1>8. BufferHoldsUnplayed'
  <2> SUFFICES ASSUME NEW j \in 0..Ahead' - 1, g_tap_file_pos' + j < Length'
               PROVE  g_fat_buffer'[Wrap(g_read_index' + j)] = file'.data[g_tap_file_pos' + j + 1]
    BY DEF BufferHoldsUnplayed
  <2>1. j \in Nat /\ SignalBytes \in Nat
    BY <1>2, <1>6
  <2>2. j + SignalBytes < Ahead
    <3>0. /\ BufferedEnd = g_tap_file_pos + Ahead
          /\ BufferedEnd' = g_tap_file_pos + SignalBytes + Ahead'
          /\ g_tap_file_pos' = g_tap_file_pos + SignalBytes
          /\ Length' = Length
      BY <1>2, <1>3
    <3>1. g_tap_file_pos + SignalBytes + j < Length
      BY <3>0
    <3>2. CASE Ahead' = Ahead - SignalBytes
      <4>1. j < Ahead'
        BY <1>6, Below
      <4> QED
        BY <1>1, <2>1, <3>2, <4>1
    <3>3. CASE Length <= BufferedEnd
      BY <1>1, <2>1, <3>0, <3>1, <3>3
    <3> QED
      BY <1>5, <3>2, <3>3
  <2>3. Wrap(g_read_index' + j) = Wrap(g_read_index + (j + SignalBytes))
    BY <2>1, <2>2, LoadAdvances
  <2>4. j + SignalBytes \in 0..Ahead - 1 /\ g_tap_file_pos + (j + SignalBytes) < Length
    BY <1>1, <1>2, <1>3, <2>1, <2>2
  <2>5. g_fat_buffer[Wrap(g_read_index + (j + SignalBytes))]
          = file.data[g_tap_file_pos + (j + SignalBytes) + 1]
    BY <2>4 DEF Holds, BufferHoldsUnplayed
  <2>6. g_tap_file_pos' + j + 1 = g_tap_file_pos + (j + SignalBytes) + 1
    BY <1>1, <1>2, <2>1
  <2> QED
    BY <1>2, <2>3, <2>5, <2>6
<1> QED
  BY <1>7, <1>8 DEF Holds

\* A byte copied by f_read goes to the half that is owed, past what is buffered.
LEMMA HoldsCopy ==
    ASSUME RingTypes, TurnInv, Holds, CopyByte
    PROVE  Holds'
<1>1. /\ HalfSize \in Nat \ {0} /\ Length \in Nat /\ g_tap_file_pos \in Nat /\ fptr \in Nat
      /\ copied \in Nat /\ g_read_index \in 0..2 * HalfSize - 1 /\ g_write_index \in {0, HalfSize}
  BY SizeAssumption DEF RingTypes, Length, Size
<1>2. /\ pc = "fill" /\ copied < HalfSize /\ fptr < Length
      /\ copied' = copied + 1 /\ fptr' = fptr + 1
      /\ g_fat_buffer' = [g_fat_buffer EXCEPT ![g_write_index + copied] = file.data[fptr + 1]]
      /\ UNCHANGED <<pc, file, timerOn, cardFailed, g_write_index, g_read_index, g_tap_file_pos>>
  BY DEF CopyByte, deckVars, tapeVars
<1>3. Owed
  BY <1>2 DEF TurnInv
<1>4. Length' = Length /\ Ahead' = Ahead /\ BufferedEnd' = BufferedEnd
  BY <1>2 DEF Length, Ahead, BufferedEnd, Owed, Half, InHalf
<1>5. Sound' => Sound
  BY <1>2 DEF Sound, Refilling
<1> SUFFICES ASSUME Sound, timerOn PROVE Holds'
  BY <1>2, <1>5 DEF Holds, FillInv, BufferHoldsUnplayed
<1>6. /\ fptr = Least(Length, BufferedEnd + copied)
      /\ \A i \in 0..copied - 1 :
            g_fat_buffer[g_write_index + i] = file.data[BufferedEnd + i + 1]
  BY DEF Holds, FillInv
<1>7. /\ Ahead = HalfSize - InHalf(g_read_index) /\ Ahead \in Nat
      /\ BufferedEnd = g_tap_file_pos + Ahead /\ BufferedEnd \in Nat
  BY <1>1, <1>3 DEF Ahead, BufferedEnd, InHalf
<1>8. fptr = BufferedEnd + copied
  BY <1>1, <1>2, <1>6, <1>7 DEF Least
<1>9. fptr' = Least(Length, BufferedEnd + copied') /\ fptr' = BufferedEnd + copied'
  BY <1>1, <1>2, <1>7, <1>8 DEF Least
<1>10. \A k \in 0..Size - 1 : g_fat_buffer'[k] =
          IF k = g_write_index + copied THEN file.data[fptr + 1] ELSE g_fat_buffer[k]
  <2>1. g_fat_buffer \in [0..Size - 1 -> 0..ByteRadix - 1]
    BY DEF RingTypes
  <2> QED
    BY <1>2, <2>1
<1>11. \A i \in 0..copied' - 1 : g_fat_buffer'[g_write_index + i] = file.data[BufferedEnd + i + 1]
  <2> SUFFICES ASSUME NEW i \in 0..copied
               PROVE  g_fat_buffer'[g_write_index + i] = file.data[BufferedEnd + i + 1]
    BY <1>1, <1>2
  <2>1. g_write_index + i \in 0..Size - 1
    BY <1>1, <1>2 DEF Size
  <2>2. CASE i = copied
    BY <1>1, <1>7, <1>8, <1>10, <2>1, <2>2
  <2>3. CASE i # copied
    <3>1. i \in 0..copied - 1 /\ g_write_index + i # g_write_index + copied
      BY <1>1, <2>3
    <3> QED
      BY <1>6, <1>10, <2>1, <3>1
  <2> QED
    BY <2>2, <2>3
<1>12. FillInv'
  BY <1>2, <1>4, <1>9, <1>11 DEF FillInv
<1>13. BufferHoldsUnplayed'
  <2> SUFFICES ASSUME NEW j \in 0..Ahead - 1, g_tap_file_pos + j < Length
               PROVE  g_fat_buffer'[Wrap(g_read_index + j)] = file.data[g_tap_file_pos + j + 1]
    BY <1>2, <1>4 DEF BufferHoldsUnplayed
  <2>1. /\ Wrap(g_read_index + j) \in 0..Size - 1
        /\ Wrap(g_read_index + j) # g_write_index + copied
    BY <1>1, <1>2, <1>3, <1>7 DEF Owed, Half, InHalf, Wrap, Size
  <2>2. g_fat_buffer[Wrap(g_read_index + j)] = file.data[g_tap_file_pos + j + 1]
    BY DEF Holds, BufferHoldsUnplayed
  <2> QED
    BY <1>10, <2>1, <2>2
<1> QED
  BY <1>12, <1>13 DEF Holds

\* When f_read is done, what it copied continues what was buffered.
LEMMA HoldsFill ==
    ASSUME RingTypes, TurnInv, Holds, FillDone
    PROVE  Holds'
<1>1. /\ HalfSize \in Nat \ {0} /\ Length \in Nat /\ g_tap_file_pos \in Nat /\ fptr \in 0..Length
      /\ copied \in 0..HalfSize /\ g_read_index \in 0..2 * HalfSize - 1
      /\ g_write_index \in {0, HalfSize}
  BY SizeAssumption DEF RingTypes, Length, Size
<1>2. /\ pc = "fill" /\ copied' = 0 /\ g_write_index' = Wrap(g_write_index + HalfSize)
      /\ UNCHANGED <<file, timerOn, fptr, g_fat_buffer, g_read_index, g_tap_file_pos>>
  BY DEF FillDone, deckVars, tapeVars
<1>3. Owed
  BY <1>2 DEF TurnInv
<1>4. Length' = Length
  BY <1>2 DEF Length
<1>5. Sound' => Sound /\ (copied = HalfSize \/ fptr = Length)
  BY <1>2 DEF FillDone, Sound, Refilling
<1> SUFFICES ASSUME Sound, copied = HalfSize \/ fptr = Length, timerOn PROVE Holds'
  BY <1>2, <1>5 DEF Holds, FillInv, BufferHoldsUnplayed
<1>6. /\ fptr = Least(Length, BufferedEnd + copied)
      /\ \A i \in 0..copied - 1 :
            g_fat_buffer[g_write_index + i] = file.data[BufferedEnd + i + 1]
  BY DEF Holds, FillInv
<1>7. /\ Ahead = HalfSize - InHalf(g_read_index) /\ Ahead \in Nat
      /\ BufferedEnd = g_tap_file_pos + Ahead /\ BufferedEnd \in Nat
  BY <1>1, <1>3 DEF Ahead, BufferedEnd, InHalf
<1>8. Ahead' = Ahead + HalfSize /\ BufferedEnd' = BufferedEnd + HalfSize
  BY <1>1, <1>2, <1>3, <1>7 DEF Ahead, BufferedEnd, Owed, Half, InHalf, Wrap, Size
<1>9. fptr = Least(Length, BufferedEnd + HalfSize)
  BY <1>1, <1>6, <1>7 DEF Least
<1>10. FillInv'
  <2>1. fptr' = Least(Length', BufferedEnd' + copied')
    BY <1>1, <1>2, <1>4, <1>7, <1>8, <1>9
  <2> QED
    BY <1>2, <2>1 DEF FillInv
<1>11. ASSUME NEW j \in 0..(Ahead + HalfSize) - 1, g_tap_file_pos + j < Length
       PROVE  g_fat_buffer[Wrap(g_read_index + j)] = file.data[g_tap_file_pos + j + 1]
  <2>1. CASE j < Ahead
    <3>1. j \in 0..Ahead - 1
      BY <1>7, <2>1
    <3> QED
      BY <1>11, <3>1 DEF Holds, BufferHoldsUnplayed
  <2>2. CASE j >= Ahead
    <3>1. j - Ahead \in 0..copied - 1
      BY <1>1, <1>6, <1>7, <1>11, <2>2 DEF Least
    <3>2. Wrap(g_read_index + j) = g_write_index + (j - Ahead)
      BY <1>1, <1>3, <1>7, <2>2 DEF Owed, Half, InHalf, Wrap, Size
    <3>3. g_tap_file_pos + j + 1 = BufferedEnd + (j - Ahead) + 1
      BY <1>1, <1>7
    <3> QED
      BY <1>6, <3>1, <3>2, <3>3
  <2> QED
    BY <1>7, <2>1, <2>2
<1>12. \A j \in 0..Ahead' - 1 : g_tap_file_pos + j < Length =>
          g_fat_buffer[Wrap(g_read_index + j)] = file.data[g_tap_file_pos + j + 1]
  BY <1>8, <1>11
<1>13. BufferHoldsUnplayed'
  BY <1>2, <1>4, <1>12 DEF BufferHoldsUnplayed
<1> QED
  BY <1>10, <1>13 DEF Holds

LEMMA HoldsStep ==
    ASSUME ControlTypes, RingTypes, DeckInv, TurnInv, Holds, Next
    PROVE  Holds'
<1>1. CASE ~timerOn'
  BY <1>1 DEF Holds, FillInv, BufferHoldsUnplayed
<1>2. CASE PlayRejected
  BY <1>1, <1>2 DEF PlayRejected, DeckInv
<1>3. CASE WaitTest \/ PollStop \/ PollSelect \/ PollAgain
  BY <1>3, HoldsFrame DEF WaitTest, PollStop, PollSelect, PollAgain, deckVars, bufferVars, Sound,
                          Refilling
<1>4. CASE Check \/ Drain
  BY <1>4, HoldsFrame DEF Check, Drain, deckVars, bufferVars, Sound, Refilling, Length
<1>5. CASE Stop
  BY <1>1, <1>5 DEF Stop
<1>6. CASE Halted \/ SecondHalf \/ FirstHalf \/ EndOfTape
  BY <1>6, HoldsFrame DEF Halted, SecondHalf, FirstHalf, EndOfTape, deckVars, bufferVars, Sound,
                          Refilling, Length
<1>7. CASE Motor \/ KeyPress
  BY <1>7, HoldsFrame DEF Motor, KeyPress, deckVars, bufferVars, Sound, Refilling, Length
<1> QED
  BY <1>2, <1>3, <1>4, <1>5, <1>6, <1>7, HoldsStart, HoldsLoad, HoldsCopy, HoldsFill
     DEF Next, play_file, TIMER1_COMPA

----------------------------------------------------------------------------
(* The theorems. *)

LEMMA InvStep == Inv /\ [Next]_vars => Inv'
<1> SUFFICES ASSUME Inv, [Next]_vars PROVE Inv'
  OBVIOUS
<1>1. CASE Next
  BY <1>1, ControlStep, RingStep, SignalStep, DeckStep, TurnStep, HoldsStep DEF Inv, TypeOK, Holds
<1>2. CASE UNCHANGED vars
  BY <1>2 DEF vars, bufferVars, signalVars, tapeVars, deckVars, userVars, Inv, TypeOK,
              ControlTypes, RingTypes, SignalTypes, DeckInv, TurnInv, FillInv,
              BufferHoldsUnplayed, Sound, Refilling, Length, Ahead, BufferedEnd, Owed, Half, InHalf
<1> QED
  BY <1>1, <1>2

\* The inductive invariant of the player holds in every behaviour.
THEOREM InvHolds == Spec => []Inv
  BY InitInv, InvStep, PTL DEF Spec

\* The variables keep their types (tapuino.cpp:63-71): no index leaves the
\* buffer, and the delay counter stays in its range.
THEOREM TypeCorrect == Spec => []TypeOK
<1>1. Inv => TypeOK
  BY DEF Inv
<1> QED
  BY <1>1, InvHolds, PTL

\* While the player is sound the ring holds, in place, what is still to be
\* played, through every interleaving of handler and refill.
THEOREM RingCorrect == Spec => []BufferHoldsUnplayed
<1>1. Inv => BufferHoldsUnplayed
  BY DEF Inv
<1> QED
  BY <1>1, InvHolds, PTL

\* The handler never takes a byte that has not been read from the card.
THEOREM NeverUnderruns == Spec => NoUnderrun
<1>1. ASSUME Inv, LoadSignal, Sound
      PROVE  g_tap_file_pos' <= fptr \/ fptr = Length
  <2>1. Refilling => SignalBytes <= Ahead
    BY <1>1, LoadAdvances DEF Inv, TypeOK
  <2>2. g_tap_file_pos' = g_tap_file_pos + SignalBytes /\ SignalBytes \in Nat
    <3>1. SignalBytes \in 1..HalfSize
      BY <1>1, LoadAdvances DEF Inv, TypeOK
    <3> QED
      BY <1>1, <3>1, SizeAssumption DEF LoadSignal
  <2>3. fptr = Least(Length, BufferedEnd + copied)
    BY <1>1 DEF Inv, FillInv, LoadSignal, Running
  <2>4. /\ Length \in Nat /\ g_tap_file_pos \in Nat /\ copied \in Nat /\ Ahead \in Int
    BY <1>1, SizeAssumption DEF Inv, TypeOK, RingTypes, Length, Ahead, InHalf, Size
  <2>5. CASE Refilling
    BY <2>1, <2>2, <2>3, <2>4, <2>5 DEF Least, BufferedEnd
  <2>6. CASE ~Refilling
    BY <1>1, <2>6 DEF Sound
  <2> QED
    BY <2>5, <2>6
<1>2. Inv /\ [Next]_vars => [LoadSignal /\ Sound => g_tap_file_pos' <= fptr \/ fptr = Length]_vars
  BY <1>1
<1> QED
  BY <1>2, InvHolds, PTL DEF Spec, NoUnderrun
============================================================================
