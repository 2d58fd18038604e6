------------------------- MODULE TapRecorderProofs -------------------------
(***************************************************************************)
(* Theorems about TapRecorder, for every size of the buffer, every signal, *)
(* timer and multiplier: its variables keep their types, what the main     *)
(* loop writes to the card is what the handler has recorded, a file during *)
(* whose end no pulse arrives is complete, no pulse is measured with more  *)
(* than one overflow too few or too many, and an abort is heard.           *)
(***************************************************************************)
EXTENDS TapRecorder, SequenceTheorems, TLAPS

(* What holds besides TypeOK. *)

\* record_file is between its start and its last write: the ring is in use.
Recording == pc \in {"motor", "wait", "again", "poll", "write", "rest", "writeRest"}

\* Bytes in the ring that no f_write has returned from; the first of them in the tape.
Written == Len(data) - copied
Pending == Len(tape) - Written

\* In which states of record_file the timer runs, and what has been recorded before.
DeckInv ==
    /\ timerOn <=> pc \in {"wait", "again", "poll", "write", "rest", "writeRest", "stop"}
    /\ title \in {"", "not created"} => pc = "idle" /\ tape = <<>> /\ data = <<>>
    /\ pc = "motor" => tape = <<>> /\ data = <<>>
    /\ Closed => pc = "idle" /\ length = g_tap_file_pos
    /\ pc \notin {"write", "writeRest"} => copied = 0
    /\ g_tap_file_pos = Len(tape)

\* How far the handler may be ahead of the last test of the halves.
LateInv ==
    /\ late <= MaxLate
    /\ pc \in {"motor", "wait", "again", "write"} \/ title \in {"", "not created"} => late = 0

\* The ring holds, in place, what has been recorded and not been written.
RingInv ==
    ~cardFailed /\ Recording =>
        /\ copied <= Len(data)
        /\ Pending \in 0..Size - 1
        /\ g_read_index = Wrap(g_write_index + Pending)
        /\ \A k \in 0..Pending - 1 :
              g_fat_buffer[Wrap(g_write_index + k)] = tape[Written + k + 1]

\* What a write may take from the ring is there; the end of the recording is near.
TurnInv ==
    ~cardFailed =>
        /\ pc = "write" => Pending >= HalfSize
        /\ pc \in {"poll", "rest", "writeRest"} => Pending < HalfSize + late
        /\ pc = "writeRest" => rest <= Pending /\ (late = 0 => rest = Pending)

\* The file is what the tape begins with.
PrefixInv ==
    ~cardFailed => Len(data) <= Len(tape) /\ \A i \in 1..Len(data) : data[i] = tape[i]

\* With no pulse since the last test of the halves, the last write leaves nothing.
QuietInv ==
    (pc \in {"stop", "length"} \/ Closed) /\ ~cardFailed /\ late = 0 => Len(data) = Len(tape)

\* g_overflow is the number of overflows but for the pending one, whose handler is yet
\* to run, and for one from before the reset, which it may count too many.
OverflowInv ==
    /\ ~tov => g_overflow \in {wraps, wraps + 1}
    /\ tov /\ wraps > 0 => g_overflow + 1 \in {wraps, wraps + 1}
    /\ tov /\ wraps = 0 => g_overflow = 0

\* Once a half has been written after the abort the loop is on its way to the end.  The
\* handler stays in its half while the other is written and until the next test, so that
\* this test finds nothing to write, whether f_write has failed or not.
AbortInv ==
    /\ afterAbort \in {0, 1}
    /\ afterAbort = 1 => /\ pc \notin {"motor", "wait"} /\ title \notin {"", "not created"}
                         /\ pc # "idle" => g_cur_command = "abort"
    /\ pc = "write" => Half(g_read_index) # Half(g_write_index)
    /\ pc = "again" => Half(g_read_index) = Half(g_write_index)

Inv ==
    /\ TypeOK /\ DeckInv /\ LateInv /\ RingInv /\ TurnInv /\ PrefixInv /\ QuietInv
    /\ OverflowInv /\ AbortInv

----------------------------------------------------------------------------
(* Sequences and the bytes of a pulse. *)

LEMMA PrefixByElements ==
    ASSUME NEW S, NEW s \in Seq(S), NEW t \in Seq(S),
           Len(s) <= Len(t), \A i \in 1..Len(s) : s[i] = t[i]
    PROVE  IsPrefix(s, t)
<1>1. /\ SubSeq(s, 1, Len(s)) \in Seq(S) /\ SubSeq(t, 1, Len(s)) \in Seq(S)
      /\ Len(SubSeq(s, 1, Len(s))) = Len(s) /\ Len(SubSeq(t, 1, Len(s))) = Len(s)
  OBVIOUS
<1>2. \A i \in 1..Len(s) : SubSeq(s, 1, Len(s))[i] = SubSeq(t, 1, Len(s))[i]
  OBVIOUS
<1>3. SubSeq(s, 1, Len(s)) = SubSeq(t, 1, Len(s))
  BY <1>1, <1>2, SeqEqual
<1> QED
  BY <1>3 DEF IsPrefix

LEMMA ConcatFacts ==
    ASSUME NEW S, NEW s \in Seq(S), NEW t \in Seq(S)
    PROVE  /\ s \o t \in Seq(S) /\ Len(s \o t) = Len(s) + Len(t)
           /\ \A i \in 1..Len(s) : (s \o t)[i] = s[i]
           /\ \A i \in 1..Len(t) : (s \o t)[Len(s) + i] = t[i]
  OBVIOUS

\* Division of naturals stays in the naturals, and a remainder is below the divisor.
LEMMA DivNat ==
    ASSUME NEW a \in Nat, NEW d \in Nat \ {0}
    PROVE  a \div d \in Nat /\ a % d \in 0..d - 1
  BY SMT

\* A pulse is one byte or four.
LEMMA PulseBytes ==
    ASSUME NEW us \in Nat
    PROVE  Encode(us) \in Seq(0..ByteRadix - 1) /\ Len(Encode(us)) \in {1, LongBytes}
<1> DEFINE units == Greater((us * MultDen) \div (8 * MultNum), 1)
           cycles == (us * MultDen) \div MultNum
           high == ByteRadix * ByteRadix
<1>1. ByteRadix \in Nat \ {0, 1} /\ MultNum \in Nat \ {0} /\ MultDen \in Nat \ {0}
  BY TimerAssumption
<1>2. us * MultDen \in Nat /\ 8 * MultNum \in Nat \ {0} /\ high \in Nat \ {0}
  BY <1>1
<1>3. cycles \in Nat
  BY <1>1, <1>2, DivNat
<1>4. units \in Nat
  BY <1>2, DivNat DEF Greater
<1> HIDE DEF units, cycles, high
<1>5. cycles \div ByteRadix \in Nat /\ cycles \div high \in Nat
  BY <1>1, <1>2, <1>3, DivNat
<1>6. /\ cycles % ByteRadix \in 0..ByteRadix - 1
      /\ (cycles \div ByteRadix) % ByteRadix \in 0..ByteRadix - 1
      /\ (cycles \div high) % ByteRadix \in 0..ByteRadix - 1
  BY <1>1, <1>3, <1>5, DivNat
<1>7. CASE units < ByteRadix
  <2>1. Encode(us) = <<units>>
    BY <1>7 DEF Encode, units
  <2>2. units \in 0..ByteRadix - 1
    BY <1>1, <1>4, <1>7
  <2> QED
    BY <2>1, <2>2 DEF LongBytes
<1>8. CASE ~(units < ByteRadix)
  <2>1. Encode(us) = <<0, cycles % ByteRadix, (cycles \div ByteRadix) % ByteRadix,
                       (cycles \div high) % ByteRadix>>
    BY <1>8 DEF Encode, units, cycles, high
  <2>2. 0 \in 0..ByteRadix - 1
    BY <1>1
  <2> QED
    BY <1>6, <2>1, <2>2 DEF LongBytes
<1> QED
  BY <1>7, <1>8

LEMMA MicrosNat == ASSUME TapeTypes, NEW icr1 \in Counts PROVE Micros(icr1) \in Nat
<1>1. icr1 \in Nat /\ TimerSpan \in Nat /\ g_overflow \in Nat /\ TickDiv \in Nat \ {0}
  BY TimerAssumption DEF TapeTypes
<1>2. icr1 + g_overflow * TimerSpan \in Nat
  BY <1>1
<1> QED
  BY <1>1, <1>2, DivNat DEF Micros

----------------------------------------------------------------------------
(* The ring. *)

LEMMA SizeFacts ==
    /\ HalfSize \in Nat /\ FlushLag \in Nat /\ MaxLate \in Nat /\ LongBytes = 4
    /\ LongBytes < HalfSize
    /\ FlushLag + LongBytes < HalfSize /\ MaxLate <= HalfSize /\ Size = 2 * HalfSize
  BY SizeAssumption DEF Size, LongBytes

\* Where the handler puts n bytes, with p bytes pending from index w on: behind them,
\* and it disturbs none of them.
LEMMA AfterStore ==
    ASSUME NEW w \in {0, HalfSize}, NEW p \in 0..Size - 1, NEW n \in 1..LongBytes
    PROVE  Wrap(Wrap(w + p) + n) = Wrap(w + (p + n))
  BY SizeFacts DEF Wrap

LEMMA StoreKeeps ==
    ASSUME NEW w \in {0, HalfSize}, NEW p \in 0..Size - 1, NEW n \in 1..LongBytes,
           p + n <= Size, NEW k \in 0..p - 1
    PROVE  Wrap(w + k) \in 0..Size - 1 /\ ~(Wrap(Wrap(w + k) - Wrap(w + p) + Size) < n)
  BY SizeFacts DEF Wrap

LEMMA StorePuts ==
    ASSUME NEW w \in {0, HalfSize}, NEW p \in 0..Size - 1, NEW n \in 1..LongBytes,
           p + n <= Size, NEW j \in 0..n - 1
    PROVE  /\ Wrap(w + (p + j)) \in 0..Size - 1
           /\ Wrap(Wrap(w + (p + j)) - Wrap(w + p) + Size) = j
  BY SizeFacts DEF Wrap

\* What the tests of the halves and of the indices tell of the bytes pending.
LEMMA HalfTest ==
    ASSUME NEW w \in {0, HalfSize}, NEW p \in 0..Size - 1, NEW r, r = Wrap(w + p)
    PROVE  /\ InHalf(r) \in 0..HalfSize - 1
           /\ Half(r) = Half(w) => p = InHalf(r)
           /\ Half(r) # Half(w) => p = HalfSize + InHalf(r)
           /\ w = r <=> p = 0
<1> USE SizeFacts
<1>1. HalfSize \in Nat \ {0} /\ w \div HalfSize = IF w = 0 THEN 0 ELSE 1
  OBVIOUS
<1>2. CASE w + p < HalfSize
  <2>1. r = w + p /\ w = 0 /\ r \div HalfSize = 0 /\ r % HalfSize = r
    BY <1>1, <1>2 DEF Wrap
  <2> QED
    BY <1>1, <1>2, <2>1 DEF Half, InHalf
<1>3. CASE HalfSize <= w + p /\ w + p < Size
  <2>1. r = w + p /\ r \div HalfSize = 1 /\ r % HalfSize = r - HalfSize
    BY <1>1, <1>3 DEF Wrap
  <2> QED
    BY <1>1, <1>3, <2>1 DEF Half, InHalf
<1>4. CASE Size <= w + p
  <2>1. r = w + p - Size /\ w = HalfSize /\ r \div HalfSize = 0 /\ r % HalfSize = r
    BY <1>1, <1>4 DEF Wrap
  <2>2. r \in 0..HalfSize - 1 /\ p = HalfSize + r /\ p # 0 /\ w # r
    BY <1>1, <1>4, <2>1
  <2> QED
    BY <1>1, <2>1, <2>2 DEF Half, InHalf
<1> QED
  BY <1>1, <1>2, <1>3, <1>4

\* The first bytes of the next half.
LEMMA NextHalf ==
    ASSUME NEW w \in {0, HalfSize}, NEW k \in 0..HalfSize - 1
    PROVE  Wrap(Wrap(w + HalfSize) + k) = Wrap(w + (k + HalfSize))
<1> USE SizeFacts
<1>1. CASE w = 0
  <2>1. Wrap(w + HalfSize) = HalfSize
    BY <1>1 DEF Wrap
  <2> QED
    BY <1>1, <2>1
<1>2. CASE w = HalfSize
  <2>1. Wrap(w + HalfSize) = 0 /\ Wrap(k) = k /\ Wrap(w + (k + HalfSize)) = k
    BY <1>2 DEF Wrap
  <2> QED
    BY <2>1
<1> QED
  BY <1>1, <1>2

\* A pulse fits behind what is pending: the handler stays within the bounds of the
\* timing, and these leave no room for more than a half and a pulse, or two halves.
LEMMA PulseFits ==
    ASSUME RingTypes, TapeTypes, RingInv, TurnInv, ~cardFailed, Recording, timerOn,
           NEW bytes, NEW n \in 1..LongBytes, n = Len(bytes), InTime(bytes)
    PROVE  /\ Pending + n < Size
           /\ Left => Pending + n < HalfSize + (late + n)
<1>1. /\ g_write_index \in {0, HalfSize} /\ Pending \in 0..Size - 1
      /\ g_read_index = Wrap(g_write_index + Pending) /\ late \in Nat
  BY DEF RingTypes, TapeTypes, RingInv
<1>2. /\ ~Left /\ Half(g_read_index) # Half(g_write_index) =>
             InHalf(g_read_index) + n <= FlushLag + LongBytes
      /\ Left => Pending < HalfSize + late /\ late + n <= MaxLate
  BY DEF InTime, Left, Recording, TurnInv
<1>3. /\ InHalf(g_read_index) \in 0..HalfSize - 1
      /\ Half(g_read_index) = Half(g_write_index) => Pending = InHalf(g_read_index)
      /\ Half(g_read_index) # Half(g_write_index) => Pending = HalfSize + InHalf(g_read_index)
  BY <1>1, HalfTest
<1>4. n \in 1..LongBytes
  OBVIOUS
<1>5. CASE Left
  BY ONLY <1>1, <1>2, <1>4, <1>5, SizeFacts
<1>6. CASE ~Left /\ Half(g_read_index) # Half(g_write_index)
  BY ONLY <1>1, <1>2, <1>3, <1>4, <1>6, SizeFacts
<1>7. CASE ~Left /\ Half(g_read_index) = Half(g_write_index)
  BY ONLY <1>1, <1>3, <1>4, <1>7, SizeFacts
<1> QED
  BY <1>5, <1>6, <1>7

----------------------------------------------------------------------------
(* Initial states, types and the control variables. *)

LEMMA InitInv == Init => Inv
<1> SUFFICES ASSUME Init PROVE Inv
  OBVIOUS
<1> USE SizeFacts
<1>1. ControlTypes
  BY Zenon DEF Init, ControlTypes, PCs, Titles
<1>2. pc = "idle" /\ title = "" /\ ~cardFailed /\ ~timerOn /\ ~tov
  BY Zenon DEF Init
<1>3. /\ g_read_index = 0 /\ g_write_index = 0 /\ copied = 0 /\ rest = 0 /\ g_tap_file_pos = 0
      /\ g_overflow = 0 /\ wraps = 0 /\ length = 0 /\ late = 0 /\ afterAbort = 0
  BY Zenon DEF Init
<1>4. g_fat_buffer = [i \in 0..Size - 1 |-> 0] /\ data = <<>> /\ tape = <<>>
  BY Zenon DEF Init
<1>5. ByteRadix \in Nat \ {0} /\ MaxOverflow \in Nat /\ HalfSize \in Nat \ {0}
  BY TimerAssumption
<1>6. g_fat_buffer \in [0..Size - 1 -> 0..ByteRadix - 1]
  BY <1>4, <1>5
<1>7. data \in Seq(0..ByteRadix - 1) /\ tape \in Seq(0..ByteRadix - 1)
  BY <1>4
<1>8. Len(tape) = 0 /\ Len(data) = 0
  BY <1>4
<1>9. RingTypes
  BY <1>3, <1>5, <1>6 DEF RingTypes
<1>10. TapeTypes
  BY <1>3, <1>5, <1>7 DEF TapeTypes
<1>11. DeckInv
  BY <1>2, <1>3, <1>4, <1>8 DEF DeckInv, Closed
<1>12. LateInv
  BY <1>3 DEF LateInv
<1>13. RingInv /\ TurnInv
  BY <1>2 DEF RingInv, TurnInv, Recording
<1>14. PrefixInv /\ QuietInv
  BY <1>3, <1>8 DEF PrefixInv, QuietInv
<1>15. OverflowInv
  BY ONLY <1>2, <1>3 DEF OverflowInv
<1>16. AbortInv
  <2>1. afterAbort \in {0, 1} /\ afterAbort # 1
    BY <1>3
  <2> QED
    BY <1>2, <2>1 DEF AbortInv
<1> QED
  BY <1>1, <1>9, <1>10, <1>11, <1>12, <1>13, <1>14, <1>15, <1>16 DEF Inv, TypeOK

\* What the handler of an edge does, in the bytes of its pulse.
LEMMA EdgeFacts ==
    ASSUME TapeTypes, Edge
    PROVE  \E bytes \in Seq(0..ByteRadix - 1) :
              /\ Len(bytes) \in {1, LongBytes} /\ InTime(bytes) /\ Store(bytes)
              /\ tape' = tape \o bytes
              /\ late' = IF Left THEN late + Len(bytes) ELSE late
<1>1. PICK icr1 \in Counts :
         LET bytes == Encode(Micros(icr1))
         IN /\ InTime(bytes) /\ g_tap_file_pos + Len(bytes) <= MaxBytes
            /\ Store(bytes)
            /\ tape' = tape \o bytes
            /\ late' = IF Left THEN late + Len(bytes) ELSE late
  BY DEF Edge
<1> DEFINE bytes == Encode(Micros(icr1))
<1>2. bytes \in Seq(0..ByteRadix - 1) /\ Len(bytes) \in {1, LongBytes}
  BY MicrosNat, PulseBytes
<1> HIDE DEF bytes
<1>3. InTime(bytes) /\ Store(bytes) /\ tape' = tape \o bytes
      /\ late' = IF Left THEN late + Len(bytes) ELSE late
  BY <1>1 DEF bytes
<1> QED
  BY <1>2, <1>3

\* A byte that is written is one of the buffer.
LEMMA WriteFacts ==
    ASSUME RingTypes, TapeTypes, NEW n \in 0..HalfSize, WriteByte(n)
    PROVE  /\ data' \in Seq(0..ByteRadix - 1) /\ copied' = copied + 1 /\ copied' \in 0..HalfSize
           /\ copied < n
           /\ Len(data') = Len(data) + 1
           /\ data'[Len(data) + 1] = g_fat_buffer[g_write_index + copied]
           /\ \A i \in 1..Len(data) : data'[i] = data[i]
<1>1. /\ data' = Append(data, g_fat_buffer[g_write_index + copied])
      /\ copied < n /\ copied' = copied + 1
  BY DEF WriteByte
<1>2. /\ data \in Seq(0..ByteRadix - 1) /\ copied \in 0..HalfSize /\ g_write_index \in {0, HalfSize}
      /\ g_fat_buffer \in [0..Size - 1 -> 0..ByteRadix - 1]
  BY DEF RingTypes, TapeTypes
<1>3. g_write_index + copied \in 0..Size - 1 /\ copied' \in 0..HalfSize
  BY <1>1, <1>2, SizeFacts
<1>4. g_fat_buffer[g_write_index + copied] \in 0..ByteRadix - 1
  BY <1>2, <1>3
<1> QED
  BY <1>1, <1>2, <1>3, <1>4

LEMMA ElementOf ==
    ASSUME NEW S, NEW s \in Seq(S), NEW i \in 1..Len(s) PROVE s[i] \in S
  OBVIOUS

LEMMA StoreTypes ==
    ASSUME RingTypes, NEW bytes \in Seq(0..ByteRadix - 1), Store(bytes),
           NEW n \in 1..LongBytes, n = Len(bytes)
    PROVE  /\ g_fat_buffer' \in [0..Size - 1 -> 0..ByteRadix - 1]
           /\ g_read_index' \in 0..Size - 1
<1>1. g_fat_buffer \in [0..Size - 1 -> 0..ByteRadix - 1] /\ g_read_index \in 0..Size - 1
  BY DEF RingTypes
<1>2. g_read_index' = Wrap(g_read_index + n)
  BY DEF Store
<1>3. g_read_index' \in 0..Size - 1
  BY <1>1, <1>2, SizeFacts DEF Wrap
<1>4. ASSUME NEW i \in 0..Size - 1, Wrap(i - g_read_index + Size) < n
      PROVE  bytes[Wrap(i - g_read_index + Size) + 1] \in 0..ByteRadix - 1
  <2>1. Wrap(i - g_read_index + Size) \in Nat
    BY <1>1, SizeFacts DEF Wrap
  <2>2. Wrap(i - g_read_index + Size) + 1 \in 1..Len(bytes)
    BY <1>4, <2>1
  <2> QED
    BY <2>2, ElementOf
<1>5. g_fat_buffer' = [i \in 0..Size - 1 |->
            IF Wrap(i - g_read_index + Size) < n
            THEN bytes[Wrap(i - g_read_index + Size) + 1] ELSE g_fat_buffer[i]]
  BY DEF Store
<1>6. g_fat_buffer' \in [0..Size - 1 -> 0..ByteRadix - 1]
  BY <1>1, <1>4, <1>5
<1> QED
  BY <1>3, <1>6

LEMMA ControlStep == ASSUME ControlTypes, Next PROVE ControlTypes'
<1> USE DEF ControlTypes, PCs, Titles, deckVars, fileVars, userVars, overflowVars, signalVars
<1>1. CASE RecordRejected
  BY <1>1, Zenon DEF RecordRejected
<1>2. CASE RecordStart
  BY <1>2, Zenon DEF RecordStart
<1>3. CASE MotorOn
  BY <1>3, Zenon DEF MotorOn, ResetOverflow
<1>4. CASE WaitTest
  BY <1>4, Zenon DEF WaitTest, BeginWrite
<1>5. CASE Poll
  BY <1>5, Zenon DEF Poll
<1>6. CASE WriteHalf \/ WriteRest
  BY <1>6, Zenon DEF WriteHalf, WriteRest, WriteByte
<1>7. CASE HalfDone
  BY <1>7, Zenon DEF HalfDone, WriteDone
<1>8. CASE Rest
  BY <1>8, Zenon DEF Rest
<1>9. CASE RestDone
  BY <1>9, Zenon DEF RestDone, WriteDone
<1>10. CASE Stop
  BY <1>10, Zenon DEF Stop
<1>11. CASE WriteLength
  BY <1>11, Zenon DEF WriteLength
<1>12. CASE FirstEdge
  BY <1>12, Zenon DEF FirstEdge, ResetOverflow
<1>13. CASE Edge
  BY <1>13, Zenon DEF Edge, ResetOverflow
<1>14. CASE Overflow \/ TIMER1_OVF
  BY <1>14, Zenon DEF Overflow, TIMER1_OVF
<1>15. CASE Motor
  BY <1>15, Zenon DEF Motor
<1>16. CASE Abort
  BY <1>16, Zenon DEF Abort
<1> QED
  BY <1>1, <1>2, <1>3, <1>4, <1>5, <1>6, <1>7, <1>8, <1>9, <1>10, <1>11, <1>12, <1>13, <1>14,
     <1>15, <1>16 DEF Next, record_file, Loops, TIMER1_CAPT

\* Which steps touch the overflows.
LEMMA OverflowFrame ==
    ASSUME Next, ~MotorOn, ~TIMER1_CAPT, ~Overflow, ~TIMER1_OVF
    PROVE  UNCHANGED overflowVars
<1> USE DEF signalVars
<1>1. CASE record_file
  BY <1>1 DEF record_file, Loops, RecordRejected, RecordStart, WaitTest, Poll, WriteHalf,
     WriteRest, WriteByte, HalfDone, RestDone, WriteDone, Rest, Stop, WriteLength
<1>2. CASE Motor \/ Abort
  BY <1>2 DEF Motor, Abort
<1> QED
  BY <1>1, <1>2 DEF Next

LEMMA OverflowStep ==
    ASSUME TapeTypes, OverflowInv, Next
    PROVE  g_overflow' \in Nat /\ wraps' \in 0..MaxOverflow /\ OverflowInv'
<1>0. MaxOverflow \in Nat /\ g_overflow \in Nat /\ wraps \in 0..MaxOverflow
  BY TimerAssumption DEF TapeTypes
<1>1. CASE UNCHANGED overflowVars
  BY <1>0, <1>1 DEF overflowVars, OverflowInv
<1>2. CASE MotorOn \/ TIMER1_CAPT
  <2>1. g_overflow' = 0 /\ wraps' = 0
    BY <1>2 DEF MotorOn, TIMER1_CAPT, FirstEdge, Edge, ResetOverflow
  <2> QED
    BY <1>0, <2>1 DEF OverflowInv
<1>3. CASE Overflow
  <2>1. ~tov /\ tov' /\ g_overflow' = g_overflow /\ wraps' = wraps + 1 /\ wraps < MaxOverflow
    BY <1>3 DEF Overflow
  <2>2. g_overflow \in {wraps, wraps + 1}
    BY <2>1 DEF OverflowInv
  <2>3. g_overflow' + 1 \in {wraps', wraps' + 1} /\ wraps' > 0 /\ wraps' \in 0..MaxOverflow
    BY ONLY <1>0, <2>1, <2>2
  <2> QED
    BY <1>0, <2>1, <2>3 DEF OverflowInv
<1>4. CASE TIMER1_OVF
  <2>1. /\ tov /\ ~tov'
        /\ \/ g_overflow' = g_overflow /\ wraps' = Greater(wraps - 1, 0)
           \/ g_overflow' = g_overflow + 1 /\ wraps' = wraps
    BY <1>4 DEF TIMER1_OVF
  <2>2. /\ wraps > 0 => g_overflow + 1 \in {wraps, wraps + 1}
        /\ wraps = 0 => g_overflow = 0
    BY <2>1 DEF OverflowInv
  <2>3. g_overflow' \in {wraps', wraps' + 1} /\ g_overflow' \in Nat /\ wraps' \in 0..MaxOverflow
    BY ONLY <1>0, <2>1, <2>2 DEF Greater
  <2> QED
    BY <2>1, <2>3 DEF OverflowInv
<1> QED
  BY <1>1, <1>2, <1>3, <1>4, OverflowFrame

LEMMA RingStep == ASSUME RingTypes, TapeTypes, Next PROVE RingTypes'
<1>1. CASE UNCHANGED <<g_fat_buffer, g_read_index, g_write_index, copied, rest>>
  BY <1>1 DEF RingTypes
<1>2. CASE RecordStart
  <2>1. ByteRadix \in Nat \ {0} /\ HalfSize \in Nat \ {0}
    BY TimerAssumption, SizeFacts
  <2>2. g_fat_buffer' = [i \in 0..Size - 1 |-> 0] /\ g_read_index' = 0 /\ g_write_index' = 0
        /\ UNCHANGED <<copied, rest>>
    BY <1>2 DEF RecordStart
  <2>3. g_fat_buffer' \in [0..Size - 1 -> 0..ByteRadix - 1]
    BY <2>1, <2>2
  <2> QED
    BY <2>1, <2>2, <2>3, SizeFacts DEF RingTypes
<1>3. CASE WriteHalf \/ WriteRest
  <2>1. PICK n \in 0..HalfSize : WriteByte(n)
    BY <1>3, SizeFacts DEF WriteHalf, WriteRest, RingTypes
  <2>2. copied' \in 0..HalfSize
    BY <2>1, WriteFacts
  <2> QED
    BY <2>1, <2>2 DEF WriteByte, RingTypes, signalVars
<1>4. CASE HalfDone
  <2>1. g_write_index' = Wrap(g_write_index + HalfSize) /\ copied' = 0
        /\ UNCHANGED <<g_fat_buffer, g_read_index, rest>>
    BY <1>4 DEF HalfDone, WriteDone, signalVars
  <2>2. g_write_index' \in {0, HalfSize}
    BY <2>1, SizeFacts DEF RingTypes, Wrap
  <2> QED
    BY <2>1, <2>2, SizeFacts DEF RingTypes
<1>5. CASE Rest
  <2>1. rest' = InHalf(g_read_index) /\ UNCHANGED <<g_fat_buffer, g_read_index, g_write_index, copied>>
    BY <1>5 DEF Rest, signalVars
  <2>2. rest' \in 0..HalfSize - 1
    BY <2>1, SizeFacts DEF RingTypes, InHalf
  <2> QED
    BY <2>1, <2>2 DEF RingTypes
<1>6. CASE RestDone
  BY <1>6, SizeFacts DEF RestDone, WriteDone, RingTypes, signalVars
<1>7. CASE Edge
  <2>1. PICK bytes \in Seq(0..ByteRadix - 1) : Len(bytes) \in {1, LongBytes} /\ Store(bytes)
    BY <1>7, EdgeFacts
  <2>2. Len(bytes) \in 1..LongBytes
    BY <2>1, SizeFacts
  <2>3. g_fat_buffer' \in [0..Size - 1 -> 0..ByteRadix - 1] /\ g_read_index' \in 0..Size - 1
    BY <2>1, <2>2, StoreTypes
  <2>4. UNCHANGED <<g_write_index, copied, rest>>
    BY <1>7 DEF Edge, fileVars
  <2> QED
    BY <2>3, <2>4 DEF RingTypes
<1>8. CASE RecordRejected \/ MotorOn \/ WaitTest \/ Poll \/ Stop \/ WriteLength \/ FirstEdge
           \/ Overflow \/ TIMER1_OVF \/ Motor \/ Abort
  BY <1>1, <1>8 DEF RecordRejected, MotorOn, WaitTest, Poll, Stop, WriteLength, FirstEdge,
     Overflow, TIMER1_OVF, Motor, Abort, fileVars, signalVars
<1> QED
  BY <1>2, <1>3, <1>4, <1>5, <1>6, <1>7, <1>8 DEF Next, record_file, Loops, TIMER1_CAPT

LEMMA AbortFrame ==
    ASSUME Next, ~WaitTest
    PROVE  afterAbort' = afterAbort
<1>1. CASE record_file
  BY <1>1 DEF record_file, Loops, RecordRejected, RecordStart, MotorOn, Poll, WriteHalf,
     WriteRest, WriteByte, HalfDone, RestDone, WriteDone, Rest, Stop, WriteLength
<1>2. CASE TIMER1_CAPT \/ Overflow \/ TIMER1_OVF \/ Motor \/ Abort
  BY <1>2 DEF TIMER1_CAPT, FirstEdge, Edge, Overflow, TIMER1_OVF, Motor, Abort
<1> QED
  BY <1>1, <1>2 DEF Next

LEMMA AbortCount == ASSUME Next PROVE afterAbort' \in {afterAbort, afterAbort + 1}
<1>1. CASE WaitTest
  BY <1>1 DEF WaitTest, BeginWrite
<1> QED
  BY <1>1, AbortFrame

LEMMA TapeStep ==
    ASSUME RingTypes, TapeTypes, OverflowInv, Next
    PROVE  TapeTypes'
<1>0. g_overflow' \in Nat /\ wraps' \in 0..MaxOverflow /\ afterAbort' \in Nat
  <2>1. afterAbort \in Nat
    BY DEF TapeTypes
  <2>2. afterAbort' \in {afterAbort, afterAbort + 1}
    BY AbortCount
  <2> QED
    BY <2>1, <2>2, OverflowStep
<1>1. CASE UNCHANGED <<g_tap_file_pos, length, late, data, tape>>
  BY <1>0, <1>1 DEF TapeTypes
<1>2. CASE RecordRejected
  BY <1>0, <1>2 DEF RecordRejected, TapeTypes, fileVars
<1>3. CASE RecordStart
  <2>1. data' = <<>> /\ length' = 0 /\ g_tap_file_pos' = 0 /\ UNCHANGED <<tape, late>>
    BY <1>3 DEF RecordStart
  <2>2. data' \in Seq(0..ByteRadix - 1)
    BY <2>1
  <2>3. length' \in Nat /\ g_tap_file_pos' \in Nat /\ UNCHANGED <<tape, late>>
    BY <2>1
  <2> QED
    BY <1>0, <2>2, <2>3 DEF TapeTypes
<1>4. CASE Poll
  <2>1. late' \in {late, 0} /\ UNCHANGED <<g_tap_file_pos, length, data, tape>>
    BY <1>4 DEF Poll, fileVars
  <2> QED
    BY <1>0, <2>1 DEF TapeTypes
<1>5. CASE WriteHalf \/ WriteRest
  <2>1. PICK n \in 0..HalfSize : WriteByte(n)
    BY <1>5, SizeFacts DEF WriteHalf, WriteRest, RingTypes
  <2>2. data' \in Seq(0..ByteRadix - 1)
    BY <2>1, WriteFacts
  <2>3. UNCHANGED <<g_tap_file_pos, length, late, tape>>
    BY <2>1 DEF WriteByte, signalVars
  <2> QED
    BY <1>0, <2>2, <2>3 DEF TapeTypes
<1>6. CASE WriteLength
  <2>1. length' = g_tap_file_pos /\ UNCHANGED <<g_tap_file_pos, late, data, tape>>
    BY <1>6 DEF WriteLength, signalVars
  <2> QED
    BY <1>0, <2>1 DEF TapeTypes
<1>7. CASE Edge
  <2>1. PICK bytes \in Seq(0..ByteRadix - 1) :
           /\ Len(bytes) \in {1, LongBytes} /\ Store(bytes) /\ tape' = tape \o bytes
           /\ late' = IF Left THEN late + Len(bytes) ELSE late
    BY <1>7, EdgeFacts
  <2>2. tape' \in Seq(0..ByteRadix - 1)
    BY <2>1 DEF TapeTypes
  <2>3. g_tap_file_pos' = g_tap_file_pos + Len(bytes)
    BY <2>1 DEF Store
  <2>4. UNCHANGED <<length, data>>
    BY <1>7 DEF Edge, fileVars
  <2>5. late' \in Nat /\ g_tap_file_pos' \in Nat
    BY <2>1, <2>3 DEF TapeTypes
  <2> QED
    BY <1>0, <2>2, <2>4, <2>5 DEF TapeTypes
<1>8. CASE MotorOn \/ WaitTest \/ HalfDone \/ Rest \/ RestDone \/ Stop \/ FirstEdge
           \/ Overflow \/ TIMER1_OVF \/ Motor \/ Abort
  BY <1>1, <1>8 DEF MotorOn, WaitTest, HalfDone, Rest, RestDone, WriteDone, Stop, FirstEdge,
     Overflow, TIMER1_OVF, Motor, Abort, fileVars, signalVars
<1> QED
  BY <1>2, <1>3, <1>4, <1>5, <1>6, <1>7, <1>8 DEF Next, record_file, Loops, TIMER1_CAPT

\* The control variables: what runs when, and the length.
LEMMA DeckStep == ASSUME ControlTypes, RingTypes, TapeTypes, DeckInv, Next PROVE DeckInv'
<1> USE DEF DeckInv, Closed
<1>1. CASE UNCHANGED <<pc, timerOn, title, copied, g_tap_file_pos>> /\ UNCHANGED <<tape, data, length>>
  BY <1>1
<1>2. CASE RecordRejected
  <2>1. pc = "idle" /\ title = "" /\ title' = "not created" /\ g_tap_file_pos' = 0
    BY <1>2 DEF RecordRejected
  <2>2. UNCHANGED <<pc, timerOn, copied>> /\ UNCHANGED <<tape, data>>
    BY <1>2 DEF RecordRejected, fileVars
  <2>3. Len(tape) = 0
    BY <2>1
  <2> QED
    BY <2>1, <2>2, <2>3
<1>3. CASE RecordStart
  <2>1. pc = "idle" /\ title = "" /\ title' = "recording" /\ g_tap_file_pos' = 0 /\ pc' = "motor"
    BY <1>3 DEF RecordStart
  <2>2. UNCHANGED <<timerOn, copied>> /\ tape' = tape /\ data' = <<>>
    BY <1>3 DEF RecordStart
  <2>3. tape = <<>> /\ Len(tape) = 0
    BY <2>1
  <2> QED
    BY <2>1, <2>2, <2>3
<1>4. CASE MotorOn
  <2>1. pc = "motor" /\ pc' = "wait" /\ timerOn' = TRUE
    BY <1>4 DEF MotorOn
  <2>2. UNCHANGED <<title, copied, g_tap_file_pos>> /\ UNCHANGED <<tape, data, length>>
    BY <1>4 DEF MotorOn, fileVars
  <2> QED
    BY <2>1, <2>2
<1>5. CASE WaitTest
  <2>1. pc \in {"wait", "again"} /\ pc' \in {"poll", "write"}
    BY <1>5 DEF WaitTest, BeginWrite
  <2>2. UNCHANGED <<timerOn, title, copied, g_tap_file_pos>> /\ UNCHANGED <<tape, data, length>>
    BY <1>5 DEF WaitTest, deckVars, fileVars, signalVars
  <2> QED
    BY <2>1, <2>2
<1>6. CASE Poll
  <2>1. pc = "poll" /\ pc' \in {"rest", "wait"}
    BY <1>6 DEF Poll
  <2>2. UNCHANGED <<timerOn, title, copied, g_tap_file_pos>> /\ UNCHANGED <<tape, data, length>>
    BY <1>6 DEF Poll, deckVars, fileVars
  <2> QED
    BY <2>1, <2>2
<1>7. CASE WriteHalf \/ WriteRest
  <2>1. pc \in {"write", "writeRest"} /\ pc' = pc
    BY <1>7 DEF WriteHalf, WriteRest, WriteByte
  <2>2. UNCHANGED <<timerOn, title, g_tap_file_pos, tape, length>>
    BY <1>7 DEF WriteHalf, WriteRest, WriteByte, deckVars, signalVars
  <2> QED
    BY <2>1, <2>2
<1>8. CASE HalfDone \/ Rest \/ RestDone
  <2>1. /\ pc \in {"write", "rest", "writeRest"} /\ pc' \in {"again", "writeRest", "stop"}
        /\ copied' = 0
    BY <1>8 DEF HalfDone, Rest, RestDone, WriteDone
  <2>2. UNCHANGED <<timerOn, title, g_tap_file_pos>> /\ UNCHANGED <<tape, data, length>>
    BY <1>8 DEF HalfDone, Rest, RestDone, WriteDone, deckVars, signalVars
  <2> QED
    BY <2>1, <2>2
<1>9. CASE Stop
  <2>1. pc = "stop" /\ pc' = "length" /\ timerOn' = FALSE
    BY <1>9 DEF Stop
  <2>2. UNCHANGED <<title, copied, g_tap_file_pos>> /\ UNCHANGED <<tape, data, length>>
    BY <1>9 DEF Stop, fileVars, signalVars
  <2> QED
    BY <2>1, <2>2
<1>10. CASE WriteLength
  <2>1. pc = "length" /\ pc' = "idle" /\ title' \in {"aborted", "complete"} /\ length' = g_tap_file_pos
    BY <1>10 DEF WriteLength
  <2>2. UNCHANGED <<timerOn, copied, g_tap_file_pos>> /\ UNCHANGED <<tape, data>>
    BY <1>10 DEF WriteLength, signalVars
  <2> QED
    BY <2>1, <2>2
<1>11. CASE Edge
  <2>1. PICK bytes \in Seq(0..ByteRadix - 1) : Store(bytes) /\ tape' = tape \o bytes
    BY <1>11, EdgeFacts
  <2>2. timerOn /\ UNCHANGED <<pc, timerOn, title, copied, data, length>>
    BY <1>11 DEF Edge, deckVars, fileVars
  <2>3. Len(tape') = Len(tape) + Len(bytes) /\ g_tap_file_pos' = g_tap_file_pos + Len(bytes)
    <3>1. tape \in Seq(0..ByteRadix - 1)
      BY DEF TapeTypes
    <3>2. Len(tape') = Len(tape) + Len(bytes)
      BY <2>1, <3>1, ConcatFacts
    <3> QED
      BY <2>1, <3>2 DEF Store
  <2>4. pc \notin {"idle", "motor"}
    BY <2>2
  <2> QED
    BY <2>2, <2>3, <2>4
<1>12. CASE FirstEdge \/ Overflow \/ TIMER1_OVF \/ Motor \/ Abort
  BY <1>1, <1>12 DEF FirstEdge, Overflow, TIMER1_OVF, Motor, Abort, deckVars, fileVars, signalVars
<1> QED
  BY <1>2, <1>3, <1>4, <1>5, <1>6, <1>7, <1>8, <1>9, <1>10, <1>11, <1>12
     DEF Next, record_file, Loops, TIMER1_CAPT

----------------------------------------------------------------------------
(* What the ring and the file hold, action by action. *)

Holds == LateInv /\ RingInv /\ TurnInv /\ PrefixInv /\ QuietInv

\* What Pending is computed from.
LEMMA Lengths ==
    ASSUME RingTypes, TapeTypes
    PROVE  /\ Len(data) \in Nat /\ Len(tape) \in Nat /\ copied \in Nat /\ late \in Nat
           /\ rest \in Nat /\ Written = Len(data) - copied /\ Pending = Len(tape) - Written
  BY SizeFacts DEF RingTypes, TapeTypes, Written, Pending

\* A step that touches neither the ring nor the file.
LEMMA Frame ==
    ASSUME UNCHANGED <<g_fat_buffer, g_read_index, g_write_index, copied>>,
           UNCHANGED <<data, tape, cardFailed>>, Recording' => Recording
    PROVE  /\ Pending' = Pending
           /\ RingInv => RingInv'
           /\ PrefixInv => PrefixInv'
<1>1. Pending' = Pending /\ Written' = Written
  BY DEF Pending, Written
<1>2. RingInv => RingInv'
  BY <1>1 DEF RingInv
<1>3. PrefixInv => PrefixInv'
  BY DEF PrefixInv
<1> QED
  BY <1>1, <1>2, <1>3

LEMMA HoldsStart ==
    ASSUME RingTypes, TapeTypes, DeckInv, Holds, RecordStart
    PROVE  Holds'
<1>1. pc = "idle" /\ title = "" /\ pc' = "motor" /\ title' = "recording"
  BY DEF RecordStart
<1>2. g_read_index' = 0 /\ g_write_index' = 0 /\ late' = late /\ copied' = copied
  BY DEF RecordStart
<1>3. data' = <<>> /\ tape' = tape
  BY DEF RecordStart
<1>4. copied = 0 /\ tape = <<>> /\ late = 0
  BY <1>1 DEF DeckInv, Holds, LateInv
<1>5. Len(data') = 0 /\ Len(tape') = 0
  BY <1>3, <1>4
<1>6. Pending' = 0
  BY <1>2, <1>4, <1>5 DEF Pending, Written
<1>7. LateInv'
  BY <1>2, <1>4, SizeFacts DEF LateInv
<1>8. RingInv'
  BY <1>2, <1>4, <1>5, <1>6, SizeFacts DEF RingInv, Wrap
<1>9. TurnInv' /\ QuietInv'
  BY <1>1 DEF TurnInv, QuietInv, Closed
<1>10. PrefixInv'
  BY <1>5 DEF PrefixInv
<1> QED
  BY <1>7, <1>8, <1>9, <1>10 DEF Holds

\* The tests of the inner loop: which half is full, and the end of the recording.
LEMMA HoldsTests ==
    ASSUME RingTypes, TapeTypes, DeckInv, Holds, MotorOn \/ WaitTest \/ Poll
    PROVE  Holds'
<1>1. /\ pc \in {"motor", "wait", "again", "poll"} /\ pc' \in {"wait", "poll", "write", "rest"}
      /\ title' = title
  BY DEF MotorOn, WaitTest, BeginWrite, Poll, deckVars
<1>2. UNCHANGED <<g_fat_buffer, g_read_index, g_write_index, copied>>
  BY DEF MotorOn, WaitTest, Poll, fileVars, signalVars
<1>3. UNCHANGED <<data, tape, cardFailed>>
  BY DEF MotorOn, WaitTest, Poll, fileVars, signalVars
<1>4. Pending' = Pending /\ RingInv' /\ PrefixInv'
  BY <1>1, <1>2, <1>3, Frame DEF Recording, Holds
<1>5. title \notin {"", "not created", "aborted", "complete"}
  BY <1>1 DEF DeckInv, Closed
<1>6. LateInv'
  <2>1. CASE MotorOn \/ WaitTest
    <3>1. pc \in {"motor", "wait", "again"} /\ late' = late
      BY <2>1 DEF MotorOn, WaitTest, signalVars
    <3> QED
      BY <3>1 DEF Holds, LateInv
  <2>2. CASE Poll
    <3>1. CASE pc' = "rest" /\ late' = late
      BY <1>1, <1>5, <3>1 DEF Holds, LateInv
    <3>2. CASE late' = 0
      BY <3>2, SizeFacts DEF LateInv
    <3> QED
      BY <2>2, <3>1, <3>2 DEF Poll
  <2> QED
    BY <2>1, <2>2
<1>7. TurnInv'
  <2> SUFFICES ASSUME ~cardFailed PROVE TurnInv'
    BY <1>3 DEF TurnInv
  <2>1. CASE MotorOn
    BY <2>1 DEF MotorOn, TurnInv
  <2>2. CASE WaitTest
    <3>1. g_write_index \in {0, HalfSize} /\ Pending \in 0..Size - 1
          /\ g_read_index = Wrap(g_write_index + Pending)
      BY <1>1, <2>2 DEF RingTypes, Holds, RingInv, Recording, WaitTest
    <3>2. /\ InHalf(g_read_index) \in 0..HalfSize - 1
          /\ Half(g_read_index) = Half(g_write_index) => Pending = InHalf(g_read_index)
          /\ Half(g_read_index) # Half(g_write_index) => Pending = HalfSize + InHalf(g_read_index)
      BY <3>1, HalfTest
    <3>3. late' = 0 /\ pc' = IF Half(g_read_index) = Half(g_write_index) THEN "poll" ELSE "write"
      BY <2>2 DEF WaitTest, BeginWrite, signalVars, Holds, LateInv
    <3>4. CASE Half(g_read_index) = Half(g_write_index)
      BY <1>4, <3>2, <3>3, <3>4, SizeFacts DEF TurnInv
    <3>5. CASE Half(g_read_index) # Half(g_write_index)
      BY <1>4, <3>2, <3>3, <3>5, SizeFacts DEF TurnInv
    <3> QED
      BY <3>4, <3>5
  <2>3. CASE Poll
    <3>1. /\ pc = "poll"
          /\ \/ pc' = "rest" /\ late' = late
             \/ pc' = "wait"
      BY <2>3 DEF Poll
    <3> QED
      BY <1>4, <3>1 DEF Holds, TurnInv
  <2> QED
    BY <2>1, <2>2, <2>3
<1>8. QuietInv'
  BY <1>1, <1>5 DEF QuietInv, Closed
<1> QED
  BY <1>4, <1>6, <1>7, <1>8 DEF Holds

\* A byte that f_write takes from the ring is the next of the tape.
LEMMA HoldsByte ==
    ASSUME RingTypes, TapeTypes, DeckInv, Holds, WriteHalf \/ WriteRest
    PROVE  Holds'
<1> DEFINE n == IF pc = "write" THEN HalfSize ELSE rest
<1>1. pc \in {"write", "writeRest"} /\ WriteByte(n)
  BY DEF WriteHalf, WriteRest
<1>2. n \in 0..HalfSize
  BY SizeFacts DEF RingTypes
<1>3. ~cardFailed => n <= Pending
  BY <1>1, Lengths, SizeFacts DEF Holds, TurnInv
<1> HIDE DEF n
<1>4. /\ copied' = copied + 1 /\ copied < n /\ copied \in Nat
      /\ Len(data') = Len(data) + 1
      /\ data'[Len(data) + 1] = g_fat_buffer[g_write_index + copied]
      /\ \A i \in 1..Len(data) : data'[i] = data[i]
  BY <1>1, <1>2, WriteFacts, Lengths
<1>5. UNCHANGED <<pc, g_write_index, cardFailed, rest, title>>
  BY <1>1 DEF WriteByte, deckVars
<1>6. UNCHANGED <<g_fat_buffer, g_read_index, tape, late>>
  BY <1>1 DEF WriteByte, signalVars
<1>7. Written' = Written /\ Pending' = Pending
  BY <1>4, <1>6, Lengths DEF Written, Pending
<1>8. title \notin {"", "not created", "aborted", "complete"}
  BY <1>1 DEF DeckInv, Closed
<1>9. LateInv'
  BY <1>5, <1>6 DEF Holds, LateInv
<1>10. RingInv'
  BY <1>4, <1>5, <1>6, <1>7, Lengths DEF Holds, RingInv, Recording
<1>11. TurnInv'
  BY <1>5, <1>6, <1>7 DEF Holds, TurnInv
<1>12. PrefixInv'
  <2> SUFFICES ASSUME ~cardFailed
               PROVE  Len(data') <= Len(tape) /\ \A i \in 1..Len(data') : data'[i] = tape[i]
    BY <1>5, <1>6 DEF PrefixInv
  <2>1. copied \in 0..Pending - 1 /\ Pending \in 0..Size - 1
    BY <1>1, <1>2, <1>3, <1>4 DEF Holds, RingInv, Recording
  <2>2. g_fat_buffer[Wrap(g_write_index + copied)] = tape[Written + copied + 1]
    BY <1>1, <2>1 DEF Holds, RingInv, Recording
  <2>3. Wrap(g_write_index + copied) = g_write_index + copied
    <3>1. g_write_index + copied \in 0..Size - 1 /\ Size \in Nat
      BY <1>2, <1>4, SizeFacts DEF RingTypes
    <3> QED
      BY <3>1 DEF Wrap
  <2>4. Written + copied + 1 = Len(data) + 1
    BY Lengths
  <2>5. data'[Len(data) + 1] = tape[Len(data) + 1]
    BY <1>4, <2>2, <2>3, <2>4
  <2>6. Len(data) + 1 <= Len(tape)
    BY <2>1, Lengths
  <2>7. \A i \in 1..Len(data) : data[i] = tape[i]
    BY DEF Holds, PrefixInv
  <2>8. ASSUME NEW i \in 1..Len(data) + 1 PROVE data'[i] = tape[i]
    <3>1. i \in 1..Len(data) \/ i = Len(data) + 1
      BY Lengths
    <3> QED
      BY <1>4, <2>5, <2>7, <3>1
  <2> QED
    BY <1>4, <2>6, <2>8
<1>13. QuietInv'
  BY <1>1, <1>5, <1>8 DEF QuietInv, Closed
<1> QED
  BY <1>9, <1>10, <1>11, <1>12, <1>13 DEF Holds

\* When f_write has taken a half, the next half is the first that is pending.
LEMMA HoldsHalf ==
    ASSUME RingTypes, TapeTypes, DeckInv, Holds, HalfDone
    PROVE  Holds'
<1>1. /\ pc = "write" /\ pc' = "again" /\ copied' = 0
      /\ g_write_index' = Wrap(g_write_index + HalfSize)
      /\ \/ copied = HalfSize /\ cardFailed' = cardFailed
         \/ cardFailed'
  BY DEF HalfDone, WriteDone
<1>2. UNCHANGED <<g_fat_buffer, g_read_index, late, title>>
  BY DEF HalfDone, WriteDone, signalVars, deckVars
<1>3. UNCHANGED <<data, tape>>
  BY DEF HalfDone, WriteDone, signalVars
<1>4. LateInv'
  BY <1>1, <1>2 DEF Holds, LateInv
<1>5. QuietInv' /\ TurnInv'
  BY <1>1, <1>2 DEF QuietInv, TurnInv, DeckInv, Closed
<1>6. CASE cardFailed'
  BY <1>4, <1>5, <1>6 DEF Holds, RingInv, PrefixInv
<1>7. CASE ~cardFailed'
  <2>1. ~cardFailed /\ copied = HalfSize /\ Recording
    BY <1>1, <1>7 DEF Recording
  <2>2. /\ HalfSize <= Pending /\ Pending \in 0..Size - 1
        /\ g_read_index = Wrap(g_write_index + Pending)
        /\ \A k \in 0..Pending - 1 :
              g_fat_buffer[Wrap(g_write_index + k)] = tape[Written + k + 1]
    BY <1>1, <2>1 DEF Holds, TurnInv, RingInv
  <2>3. g_write_index \in {0, HalfSize}
    BY DEF RingTypes
  <2>4. Written' = Written + HalfSize /\ Pending' = Pending - HalfSize /\ Written \in Int
    BY <1>1, <1>3, <2>1, Lengths, SizeFacts DEF Written, Pending
  <2>5. Pending' \in 0..Size - 1
    BY <2>2, <2>4, SizeFacts
  <2>6. \A k \in 0..Pending - HalfSize :
           Wrap(Wrap(g_write_index + HalfSize) + k) = Wrap(g_write_index + (k + HalfSize))
    <3> SUFFICES ASSUME NEW k \in 0..Pending - HalfSize
                 PROVE  Wrap(Wrap(g_write_index + HalfSize) + k) = Wrap(g_write_index + (k + HalfSize))
      OBVIOUS
    <3>1. k \in 0..HalfSize - 1
      BY <2>2, SizeFacts
    <3> QED
      BY <2>3, <3>1, NextHalf
  <2>7. g_read_index' = Wrap(g_write_index' + Pending')
    BY <1>1, <1>2, <2>2, <2>4, <2>6, SizeFacts
  <2>8. ASSUME NEW k \in 0..Pending' - 1
        PROVE  g_fat_buffer'[Wrap(g_write_index' + k)] = tape'[Written' + k + 1]
    <3>1. k + HalfSize \in 0..Pending - 1 /\ k \in 0..Pending - HalfSize
      BY <2>2, <2>4, SizeFacts
    <3>2. Wrap(g_write_index' + k) = Wrap(g_write_index + (k + HalfSize))
      BY <1>1, <2>6, <3>1
    <3>3. Written' + k + 1 = Written + (k + HalfSize) + 1
      BY <2>4, <3>1, SizeFacts
    <3> QED
      BY <1>2, <1>3, <2>2, <3>1, <3>2, <3>3
  <2>9. RingInv'
    <3>1. copied' <= Len(data')
      BY <1>1, <1>3, Lengths
    <3> QED
      BY <2>5, <2>7, <2>8, <3>1 DEF RingInv
  <2>10. PrefixInv'
    BY <1>3, <2>1 DEF Holds, PrefixInv
  <2> QED
    BY <1>4, <1>5, <2>9, <2>10 DEF Holds
<1> QED
  BY <1>6, <1>7

\* After the last test of the halves: what is left is at most a half, and what came late.
LEMMA HoldsRest ==
    ASSUME RingTypes, TapeTypes, DeckInv, Holds, Rest
    PROVE  Holds'
<1>1. /\ pc = "rest" /\ rest' = InHalf(g_read_index)
      /\ pc' = IF g_write_index # g_read_index THEN "writeRest" ELSE "stop"
  BY DEF Rest
<1>2. UNCHANGED <<g_fat_buffer, g_read_index, g_write_index, copied>>
      /\ late' = late /\ title' = title
  BY DEF Rest, signalVars, deckVars
<1>3. UNCHANGED <<data, tape, cardFailed>>
  BY DEF Rest, signalVars
<1>4. Pending' = Pending /\ RingInv' /\ PrefixInv'
  BY <1>1, <1>2, <1>3, Frame DEF Recording, Holds
<1>5. title \notin {"", "not created", "aborted", "complete"} /\ copied = 0
  BY <1>1 DEF DeckInv, Closed
<1>6. LateInv'
  BY <1>1, <1>2, <1>5 DEF Holds, LateInv
<1> SUFFICES ASSUME ~cardFailed PROVE TurnInv' /\ QuietInv'
  BY <1>3, <1>4, <1>6 DEF Holds, TurnInv, QuietInv
<1>7. /\ g_write_index \in {0, HalfSize} /\ Pending \in 0..Size - 1
      /\ g_read_index = Wrap(g_write_index + Pending) /\ Pending < HalfSize + late
  BY <1>1 DEF RingTypes, Holds, RingInv, TurnInv, Recording
<1>8. /\ InHalf(g_read_index) \in 0..HalfSize - 1
      /\ Half(g_read_index) = Half(g_write_index) => Pending = InHalf(g_read_index)
      /\ Half(g_read_index) # Half(g_write_index) => Pending = HalfSize + InHalf(g_read_index)
      /\ g_write_index = g_read_index <=> Pending = 0
  BY <1>7, HalfTest
<1>9. InHalf(g_read_index) <= Pending /\ (late = 0 => InHalf(g_read_index) = Pending)
  BY <1>7, <1>8, SizeFacts
<1>10. TurnInv'
  BY <1>1, <1>2, <1>4, <1>7, <1>9 DEF TurnInv
<1>11. pc' = "stop" => Len(data) = Len(tape)
  <2>1. pc' = "stop" => Pending = 0
    BY <1>1, <1>8
  <2>2. copied = 0
    BY <1>5
  <2>3. Pending = 0 => Len(data) = Len(tape)
    BY <2>2, Lengths
  <2> QED
    BY <2>1, <2>3
<1>12. QuietInv'
  BY <1>1, <1>2, <1>3, <1>5, <1>11 DEF QuietInv, Closed
<1> QED
  BY <1>10, <1>12

\* The last write is done.
LEMMA HoldsRestDone ==
    ASSUME RingTypes, TapeTypes, DeckInv, Holds, RestDone
    PROVE  Holds'
<1>1. /\ pc = "writeRest" /\ pc' = "stop"
      /\ \/ copied = rest /\ cardFailed' = cardFailed
         \/ cardFailed'
  BY DEF RestDone, WriteDone
<1>2. UNCHANGED <<data, tape, late, title>>
  BY DEF RestDone, WriteDone, signalVars, deckVars
<1>3. title \notin {"", "not created", "aborted", "complete"}
  BY <1>1 DEF DeckInv, Closed
<1>4. LateInv'
  BY <1>1, <1>2, <1>3 DEF Holds, LateInv
<1>5. RingInv' /\ TurnInv'
  BY <1>1 DEF RingInv, TurnInv, Recording
<1> SUFFICES ASSUME ~cardFailed' PROVE PrefixInv' /\ QuietInv'
  BY <1>4, <1>5 DEF Holds, PrefixInv, QuietInv
<1>6. ~cardFailed /\ copied = rest
  BY <1>1
<1>7. PrefixInv'
  BY <1>2, <1>6 DEF Holds, PrefixInv
<1>8. late = 0 => rest = Pending
  BY <1>1, <1>6 DEF Holds, TurnInv
<1>9. late = 0 => Len(data) = Len(tape)
  BY <1>6, <1>8, Lengths
<1>10. QuietInv'
  BY <1>2, <1>9 DEF QuietInv
<1> QED
  BY <1>7, <1>10

\* The steps at whose end the ring is not in use.
LEMMA HoldsEnd ==
    ASSUME RingTypes, TapeTypes, DeckInv, Holds, RecordRejected \/ Stop \/ WriteLength
    PROVE  Holds'
<1>1. UNCHANGED <<data, tape, late, cardFailed>>
  BY DEF RecordRejected, Stop, WriteLength, fileVars, signalVars
<1>2. PrefixInv'
  BY <1>1 DEF Holds, PrefixInv
<1>3. CASE RecordRejected
  <2>1. pc = "idle" /\ pc' = "idle" /\ title = "" /\ title' = "not created"
    BY <1>3 DEF RecordRejected
  <2>2. LateInv'
    BY <1>1, <2>1 DEF Holds, LateInv
  <2> QED
    BY <1>2, <2>1, <2>2 DEF Holds, RingInv, TurnInv, QuietInv, Recording, Closed
<1>4. CASE Stop \/ WriteLength
  <2>1. /\ pc \in {"stop", "length"} /\ pc' \in {"length", "idle"}
        /\ title' = title \/ title' \in {"aborted", "complete"}
    BY <1>4 DEF Stop, WriteLength
  <2>2. title \notin {"", "not created"}
    BY <2>1 DEF DeckInv
  <2>3. LateInv'
    BY <1>1, <2>1, <2>2 DEF Holds, LateInv
  <2>4. QuietInv'
    BY <1>1, <2>1 DEF Holds, QuietInv
  <2> QED
    BY <1>2, <2>1, <2>3, <2>4 DEF Holds, RingInv, TurnInv, Recording
<1> QED
  BY <1>3, <1>4

\* The other handlers, the motor and the keys.
LEMMA HoldsOther ==
    ASSUME Holds, FirstEdge \/ Overflow \/ TIMER1_OVF \/ Motor \/ Abort \/ UNCHANGED vars
    PROVE  Holds'
<1>1. UNCHANGED <<g_fat_buffer, g_read_index, g_write_index, copied>>
  BY DEF FirstEdge, Overflow, TIMER1_OVF, Motor, Abort, vars, fileVars, signalVars
<1>2. UNCHANGED <<data, tape, cardFailed>>
  BY DEF FirstEdge, Overflow, TIMER1_OVF, Motor, Abort, vars, fileVars, signalVars
<1>3. UNCHANGED <<pc, late, title, rest>>
  BY DEF FirstEdge, Overflow, TIMER1_OVF, Motor, Abort, vars, fileVars, signalVars, deckVars
<1>4. Pending' = Pending /\ RingInv' /\ PrefixInv'
  BY <1>1, <1>2, <1>3, Frame DEF Recording, Holds
<1> QED
  BY <1>2, <1>3, <1>4 DEF Holds, LateInv, TurnInv, QuietInv, Closed

\* The handler puts a pulse behind what is pending, and disturbs nothing of it.
LEMMA HoldsEdge ==
    ASSUME RingTypes, TapeTypes, DeckInv, Holds, Edge
    PROVE  Holds'
<1>1. PICK bytes \in Seq(0..ByteRadix - 1) :
         /\ Len(bytes) \in {1, LongBytes} /\ InTime(bytes) /\ Store(bytes)
         /\ tape' = tape \o bytes
         /\ late' = IF Left THEN late + Len(bytes) ELSE late
  BY EdgeFacts
<1>2. timerOn /\ UNCHANGED <<pc, g_write_index, title>> /\ UNCHANGED <<data, copied, rest, cardFailed>>
  BY DEF Edge, fileVars, deckVars
<1>3. PICK n \in 1..LongBytes : n = Len(bytes)
  BY <1>1, SizeFacts
<1>4. /\ late' = IF Left THEN late + n ELSE late
      /\ Left => late + n <= MaxLate
      /\ g_read_index' = Wrap(g_read_index + n)
  BY <1>1, <1>3 DEF InTime, Store
<1>5. /\ pc \in {"wait", "again", "poll", "write", "rest", "writeRest", "stop"}
      /\ title \notin {"", "not created", "aborted", "complete"}
  BY <1>2 DEF DeckInv, Closed
<1>6. tape \in Seq(0..ByteRadix - 1)
  BY DEF TapeTypes
<1>7. /\ Len(tape') = Len(tape) + n
      /\ \A i \in 1..Len(tape) : tape'[i] = tape[i]
      /\ \A i \in 1..n : tape'[Len(tape) + i] = bytes[i]
  BY <1>1, <1>3, <1>6, ConcatFacts
<1>8. Written' = Written /\ Pending' = Pending + n
  BY <1>2, <1>3, <1>7, Lengths, SizeFacts DEF Written, Pending
<1>9. LateInv'
  <2>1. CASE Left
    <3>1. pc' \notin {"motor", "wait", "again", "write"} /\ title' \notin {"", "not created"}
      BY <1>2, <1>5, <2>1 DEF Left
    <3> QED
      BY <1>4, <2>1, <3>1 DEF LateInv
  <2>2. CASE ~Left
    BY <1>2, <1>4, <2>2 DEF Holds, LateInv
  <2> QED
    BY <2>1, <2>2
<1>10. PrefixInv'
  <2> SUFFICES ASSUME ~cardFailed
               PROVE  Len(data) <= Len(tape') /\ \A i \in 1..Len(data) : data[i] = tape'[i]
    BY <1>2 DEF PrefixInv
  <2>1. Len(data) <= Len(tape) /\ \A i \in 1..Len(data) : data[i] = tape[i]
    BY DEF Holds, PrefixInv
  <2>2. Len(data) <= Len(tape')
    BY <1>3, <1>7, <2>1, Lengths, SizeFacts
  <2>3. ASSUME NEW i \in 1..Len(data) PROVE data[i] = tape'[i]
    <3>1. i \in 1..Len(tape)
      BY <2>1, Lengths
    <3> QED
      BY <1>7, <2>1, <3>1
  <2> QED
    BY <2>2, <2>3
<1>11. QuietInv'
  <2>1. CASE pc = "stop"
    <3>1. late' = late + n
      BY <1>4, <2>1 DEF Left
    <3>2. late' # 0
      BY <3>1, Lengths, SizeFacts
    <3> QED
      BY <3>2 DEF QuietInv
  <2>2. CASE pc # "stop"
    BY <1>2, <1>5, <2>2 DEF QuietInv, Closed
  <2> QED
    BY <2>1, <2>2
<1>12. CASE cardFailed \/ ~Recording
  <2>1. RingInv'
    BY <1>2, <1>12 DEF RingInv, Recording
  <2>2. TurnInv'
    BY <1>2, <1>12 DEF TurnInv, Recording
  <2> QED
    BY <1>9, <1>10, <1>11, <2>1, <2>2 DEF Holds
<1>13. CASE ~cardFailed /\ Recording
  <2>1. /\ g_write_index \in {0, HalfSize} /\ Pending \in 0..Size - 1
        /\ g_read_index = Wrap(g_write_index + Pending) /\ copied <= Len(data)
        /\ \A k \in 0..Pending - 1 :
              g_fat_buffer[Wrap(g_write_index + k)] = tape[Written + k + 1]
    BY <1>13 DEF RingTypes, Holds, RingInv
  <2>0. Written \in Nat /\ Pending \in Nat /\ Len(tape) = Written + Pending
    <3>1. copied <= Len(data) /\ Pending \in Nat
      BY <2>1, SizeFacts
    <3> QED
      BY <3>1, Lengths
  <2>2. Pending + n < Size /\ (Left => Pending + n < HalfSize + (late + n))
    BY <1>1, <1>2, <1>3, <1>13, PulseFits DEF Holds
  <2>3. /\ g_write_index \in {0, HalfSize} /\ Pending \in 0..Size - 1 /\ Pending + n <= Size
        /\ g_read_index = Wrap(g_write_index + Pending)
    BY <2>1, <2>2, SizeFacts
  <2>4. \A i \in 0..Size - 1 :
           g_fat_buffer'[i] = IF Wrap(i - g_read_index + Size) < n
                              THEN bytes[Wrap(i - g_read_index + Size) + 1] ELSE g_fat_buffer[i]
    BY <1>1, <1>3 DEF Store
  <2>5. ASSUME NEW k \in 0..(Pending + n) - 1
        PROVE  g_fat_buffer'[Wrap(g_write_index + k)] = tape'[Written + k + 1]
    <3>1. CASE k < Pending
      <4>1. k \in 0..Pending - 1
        BY <2>1, <3>1
      <4>2. g_fat_buffer'[Wrap(g_write_index + k)] = g_fat_buffer[Wrap(g_write_index + k)]
        <5>1. /\ Wrap(g_write_index + k) \in 0..Size - 1
              /\ ~(Wrap(Wrap(g_write_index + k) - g_read_index + Size) < n)
          BY <2>3, <4>1, StoreKeeps
        <5> QED
          BY <2>4, <5>1
      <4>3. Written + k + 1 \in 1..Len(tape)
        BY <2>0, <4>1
      <4> QED
        BY <1>7, <2>1, <4>1, <4>2, <4>3
    <3>2. CASE k >= Pending
      <4> DEFINE j == k - Pending
      <4>1. j \in 0..n - 1 /\ Pending + j = k /\ j + 1 \in 1..n
        BY <2>1, <3>2, SizeFacts
      <4> HIDE DEF j
      <4>2. /\ Wrap(g_write_index + k) \in 0..Size - 1
            /\ Wrap(Wrap(g_write_index + k) - g_read_index + Size) = j
        BY <2>3, <4>1, StorePuts
      <4>3. g_fat_buffer'[Wrap(g_write_index + k)] = bytes[j + 1]
        BY <2>4, <4>1, <4>2
      <4>4. Len(tape) + (j + 1) = Written + k + 1
        BY <2>0, <4>1
      <4> QED
        BY <1>7, <4>1, <4>3, <4>4
    <3> QED
      BY <2>1, <3>1, <3>2
  <2>6. RingInv'
    <3>1. Pending' \in 0..Size - 1
      BY <1>8, <2>1, <2>2, SizeFacts
    <3>2. g_read_index' = Wrap(g_write_index' + Pending')
      BY <1>2, <1>4, <1>8, <2>3, AfterStore
    <3>3. \A k \in 0..Pending' - 1 :
             g_fat_buffer'[Wrap(g_write_index' + k)] = tape'[Written' + k + 1]
      BY <1>2, <1>8, <2>5
    <3> QED
      BY <1>2, <2>1, <3>1, <3>2, <3>3 DEF RingInv
  <2>7. TurnInv'
    <3>1. pc = "write" => Pending >= HalfSize
      BY <1>13 DEF Holds, TurnInv
    <3>2. pc = "write" => Pending + n >= HalfSize
      BY <2>1, <3>1, SizeFacts
    <3>3. pc \in {"poll", "rest", "writeRest"} => Pending + n < HalfSize + late'
      BY <1>4, <2>2 DEF Left
    <3>4. pc = "writeRest" => rest <= Pending + n /\ late' # 0
      <4>1. pc = "writeRest" => rest <= Pending /\ late' = late + n
        BY <1>4, <1>13 DEF Holds, TurnInv, Left
      <4>2. rest <= Pending => rest <= Pending + n
        BY <2>1, Lengths, SizeFacts
      <4>3. late + n # 0
        BY Lengths, SizeFacts
      <4> QED
        BY <4>1, <4>2, <4>3
    <3> QED
      BY <1>2, <1>8, <3>2, <3>3, <3>4 DEF TurnInv
  <2> QED
    BY <1>9, <1>10, <1>11, <2>6, <2>7 DEF Holds
<1> QED
  BY <1>12, <1>13

----------------------------------------------------------------------------
(* The abort. *)

\* The two halves, and what stays in its half.
LEMMA HalfValues ==
    ASSUME NEW w \in {0, HalfSize}, NEW r \in 0..Size - 1
    PROVE  /\ Half(r) \in {0, 1} /\ Half(w) \in {0, 1}
           /\ Half(Wrap(w + HalfSize)) \in {0, 1} /\ Half(Wrap(w + HalfSize)) # Half(w)
<1> USE SizeFacts
<1>1. Half(r) \in {0, 1}
  BY DEF Half
<1>2. CASE w = 0
  <2>1. Wrap(w + HalfSize) = HalfSize
    BY <1>2 DEF Wrap
  <2>2. Half(w) = 0 /\ Half(HalfSize) = 1
    BY <1>2 DEF Half
  <2> QED
    BY <1>1, <2>1, <2>2
<1>3. CASE w = HalfSize
  <2>1. Wrap(w + HalfSize) = 0
    BY <1>3 DEF Wrap
  <2>2. Half(w) = 1 /\ Half(0) = 0
    BY <1>3 DEF Half
  <2> QED
    BY <1>1, <2>1, <2>2
<1> QED
  BY <1>2, <1>3

LEMMA StaysInHalf ==
    ASSUME NEW r \in 0..Size - 1, NEW n \in 1..LongBytes, InHalf(r) + n < HalfSize
    PROVE  Half(Wrap(r + n)) = Half(r)
<1> USE SizeFacts
<1>1. CASE r < HalfSize
  <2>1. InHalf(r) = r /\ Half(r) = 0
    BY <1>1 DEF InHalf, Half
  <2>2. Wrap(r + n) = r + n
    BY <1>1, <2>1 DEF Wrap
  <2> QED
    BY <2>1, <2>2 DEF Half
<1>2. CASE r >= HalfSize
  <2>1. InHalf(r) = r - HalfSize /\ Half(r) = 1
    BY <1>2 DEF InHalf, Half
  <2>2. r + n < Size
    BY <1>2, <2>1
  <2>3. Wrap(r + n) = r + n
    BY <1>2, <2>2 DEF Wrap
  <2> QED
    BY <1>2, <2>1, <2>2, <2>3 DEF Half
<1> QED
  BY <1>1, <1>2

\* An edge between the start of a write and the next test of the halves.
LEMMA EdgeInHalf ==
    ASSUME RingTypes, TapeTypes, AbortInv, Edge, pc \in {"write", "again"}
    PROVE  Half(g_read_index') = Half(g_read_index)
<1>1. PICK bytes \in Seq(0..ByteRadix - 1) :
         Len(bytes) \in {1, LongBytes} /\ InTime(bytes) /\ Store(bytes)
  BY EdgeFacts
<1>2. PICK n \in 1..LongBytes : n = Len(bytes)
  BY <1>1, SizeFacts
<1>3. InHalf(g_read_index) + n <= FlushLag + LongBytes
  <2>1. (~Left /\ Half(g_read_index) # Half(g_write_index)) \/ pc = "again"
    BY DEF AbortInv, Left
  <2> QED
    BY <1>1, <1>2, <2>1 DEF InTime
<1>4. g_read_index' = Wrap(g_read_index + n) /\ g_read_index \in 0..Size - 1
  BY <1>1, <1>2 DEF Store, RingTypes
<1>5. InHalf(g_read_index) + n < HalfSize
  <2>1. InHalf(g_read_index) \in Int
    BY <1>4, SizeFacts DEF InHalf
  <2> QED
    BY <1>3, <2>1, SizeFacts
<1> QED
  BY <1>4, <1>5, StaysInHalf

LEMMA AbortStep ==
    ASSUME ControlTypes, RingTypes, TapeTypes, DeckInv, AbortInv, Next
    PROVE  AbortInv'
<1>1. CASE WaitTest
  <2>1. /\ pc \in {"wait", "again"}
        /\ IF Half(g_read_index) = Half(g_write_index)
           THEN pc' = "poll" /\ afterAbort' = afterAbort
           ELSE /\ pc' = "write"
                /\ afterAbort' = IF g_cur_command = "abort" THEN afterAbort + 1 ELSE afterAbort
    BY <1>1 DEF WaitTest, BeginWrite
  <2>2. UNCHANGED <<g_read_index, g_write_index, title, g_cur_command>>
    BY <1>1 DEF WaitTest, signalVars, deckVars, userVars
  <2>3. title \notin {"", "not created"}
    BY <2>1 DEF DeckInv
  <2>4. CASE Half(g_read_index) = Half(g_write_index)
    BY <2>1, <2>2, <2>3, <2>4 DEF AbortInv
  <2>5. CASE Half(g_read_index) # Half(g_write_index)
    <3>1. pc = "wait" /\ afterAbort = 0
      BY <2>1, <2>5 DEF AbortInv
    <3>2. CASE g_cur_command = "abort"
      <4>1. pc' = "write" /\ afterAbort' = 1
        BY <2>1, <2>5, <3>1, <3>2
      <4> QED
        BY <2>2, <2>3, <2>5, <3>2, <4>1 DEF AbortInv
    <3>3. CASE g_cur_command # "abort"
      <4>1. pc' = "write" /\ afterAbort' = 0
        BY <2>1, <2>5, <3>1, <3>3
      <4>2. afterAbort' # 1
        BY <4>1
      <4> QED
        BY <2>2, <2>5, <4>1, <4>2 DEF AbortInv
    <3> QED
      BY <3>2, <3>3
  <2> QED
    BY <2>4, <2>5
<1>2. CASE Edge
  <2>1. UNCHANGED <<pc, afterAbort, g_write_index, title, g_cur_command>>
    BY <1>2 DEF Edge, deckVars, userVars
  <2>2. pc \in {"write", "again"} => Half(g_read_index') = Half(g_read_index)
    BY <1>2, EdgeInHalf
  <2> QED
    BY <2>1, <2>2 DEF AbortInv
<1>3. CASE HalfDone
  <2>1. /\ pc = "write" /\ pc' = "again" /\ g_write_index' = Wrap(g_write_index + HalfSize)
        /\ UNCHANGED <<afterAbort, g_read_index, title, g_cur_command>>
    BY <1>3 DEF HalfDone, WriteDone, signalVars, deckVars, userVars
  <2>2. g_write_index \in {0, HalfSize} /\ g_read_index \in 0..Size - 1
    BY DEF RingTypes
  <2>3. Half(g_read_index) # Half(g_write_index)
    BY <2>1 DEF AbortInv
  <2>4. Half(g_read_index) = Half(Wrap(g_write_index + HalfSize))
    BY <2>2, <2>3, HalfValues
  <2> QED
    BY <2>1, <2>4 DEF AbortInv
<1>4. CASE RecordStart \/ RecordRejected
  <2>1. title = "" /\ afterAbort' = afterAbort /\ pc' \in {"idle", "motor"}
    BY <1>4 DEF RecordStart, RecordRejected
  <2>2. afterAbort = 0
    BY <2>1 DEF AbortInv
  <2> QED
    BY <2>1, <2>2 DEF AbortInv
<1>5. CASE MotorOn
  <2>1. pc = "motor" /\ pc' = "wait" /\ afterAbort' = afterAbort
    BY <1>5 DEF MotorOn
  <2>2. afterAbort = 0
    BY <2>1 DEF AbortInv
  <2> QED
    BY <2>1, <2>2 DEF AbortInv
<1>6. CASE Poll
  <2>1. /\ pc = "poll" /\ UNCHANGED <<afterAbort, title, g_cur_command>>
        /\ pc' = "rest" \/ (pc' = "wait" /\ g_cur_command # "abort")
    BY <1>6 DEF Poll, deckVars, userVars
  <2> QED
    BY <2>1 DEF AbortInv
<1>7. CASE WriteHalf \/ WriteRest \/ FirstEdge \/ Overflow \/ TIMER1_OVF \/ Motor
  <2>1. UNCHANGED <<pc, afterAbort, title, g_cur_command>>
    BY <1>7 DEF WriteHalf, WriteRest, WriteByte, FirstEdge, Overflow, TIMER1_OVF, Motor, deckVars,
       userVars
  <2>2. UNCHANGED <<g_read_index, g_write_index>>
    BY <1>7 DEF WriteHalf, WriteRest, WriteByte, FirstEdge, Overflow, TIMER1_OVF, Motor, signalVars
  <2> QED
    BY <2>1, <2>2 DEF AbortInv
<1>8. CASE Rest \/ RestDone \/ Stop \/ WriteLength
  <2>1. /\ pc \in {"rest", "writeRest", "stop", "length"} /\ afterAbort' = afterAbort
        /\ pc' \in {"writeRest", "stop", "length", "idle"}
        /\ pc' = "idle" \/ g_cur_command' = g_cur_command
        /\ title' \in {title, "aborted", "complete"}
    BY <1>8 DEF Rest, RestDone, WriteDone, Stop, WriteLength, deckVars, userVars
  <2> QED
    BY <2>1 DEF AbortInv
<1>9. CASE Abort
  <2>1. /\ g_cur_command' = "abort" /\ UNCHANGED <<pc, afterAbort, title>>
        /\ UNCHANGED <<g_read_index, g_write_index>>
    BY <1>9 DEF Abort, deckVars, signalVars
  <2> QED
    BY <2>1 DEF AbortInv
<1> QED
  BY <1>1, <1>2, <1>3, <1>4, <1>5, <1>6, <1>7, <1>8, <1>9 DEF Next, record_file, Loops, TIMER1_CAPT

----------------------------------------------------------------------------
(* The theorems. *)

LEMMA InvStep == Inv /\ [Next]_vars => Inv'
<1> SUFFICES ASSUME Inv, [Next]_vars PROVE Inv'
  OBVIOUS
<1>1. ControlTypes /\ RingTypes /\ TapeTypes /\ DeckInv /\ Holds /\ OverflowInv
      /\ AbortInv
  BY DEF Inv, TypeOK, Holds
<1>2. CASE Next
  <2>1. Holds'
    <3>1. CASE record_file
      BY <1>1, <3>1, HoldsStart, HoldsTests, HoldsByte, HoldsHalf, HoldsRest, HoldsRestDone,
         HoldsEnd DEF record_file, Loops
    <3>2. CASE TIMER1_CAPT \/ Overflow \/ TIMER1_OVF \/ Motor \/ Abort
      BY <1>1, <3>2, HoldsEdge, HoldsOther DEF TIMER1_CAPT
    <3> QED
      BY <1>2, <3>1, <3>2 DEF Next
  <2> QED
    BY <1>1, <1>2, <2>1, ControlStep, RingStep, TapeStep, DeckStep, OverflowStep,
       AbortStep
       DEF Inv, TypeOK, Holds
<1>3. CASE UNCHANGED vars
  <2>1. Holds'
    BY <1>1, <1>3, HoldsOther
  <2> USE DEF vars, deckVars, fileVars, signalVars, overflowVars, userVars
  <2>2. ControlTypes' /\ RingTypes' /\ TapeTypes'
    <3>1. ControlTypes'
      BY <1>1, <1>3, Zenon DEF ControlTypes
    <3>2. RingTypes'
      BY <1>1, <1>3 DEF RingTypes
    <3>3. TapeTypes'
      BY <1>1, <1>3 DEF TapeTypes
    <3> QED
      BY <3>1, <3>2, <3>3
  <2>3. DeckInv' /\ OverflowInv' /\ AbortInv'
    <3>1. DeckInv'
      BY <1>1, <1>3 DEF DeckInv, Closed
    <3>2. OverflowInv'
      BY <1>1, <1>3 DEF OverflowInv
    <3>3. AbortInv'
      BY <1>1, <1>3 DEF AbortInv
    <3> QED
      BY <3>1, <3>2, <3>3
  <2> QED
    BY <2>1, <2>2, <2>3 DEF Inv, TypeOK, Holds
<1> QED
  BY <1>2, <1>3

\* The inductive invariant: with the bounds of the timing, the ring holds what has been
\* recorded and not been written, whatever the handler does while f_write reads it.
THEOREM InvHolds == Spec => []Inv
  BY InitInv, InvStep, PTL DEF Spec

\* The variables keep their types (tapuino.cpp:63-75, 494-497): no index leaves the buffer.
THEOREM TypeCorrect == Spec => []TypeOK
<1>1. Inv => TypeOK
  BY DEF Inv
<1> QED
  BY <1>1, InvHolds, PTL

\* What record_file writes is what the handler has recorded, in its order, with nothing
\* taken twice or overwritten before it is written (tapuino.cpp:151-161, 566-599).
THEOREM NothingOverwritten == Spec => []FileIsRecording
<1>1. Inv => FileIsRecording
  <2> SUFFICES ASSUME Inv, ~cardFailed PROVE IsPrefix(data, tape)
    BY DEF FileIsRecording
  <2>1. data \in Seq(0..ByteRadix - 1) /\ tape \in Seq(0..ByteRadix - 1)
    BY DEF Inv, TypeOK, TapeTypes
  <2>2. Len(data) <= Len(tape) /\ \A i \in 1..Len(data) : data[i] = tape[i]
    BY DEF Inv, PrefixInv
  <2> QED
    BY <2>1, <2>2, PrefixByElements
<1> QED
  BY <1>1, InvHolds, PTL

\* A pulse is measured with at most one overflow too few or too many, however often
\* captures overtake the handler of an overflow (tapuino.cpp:139-145, 163-166, 171-175, 302).
THEOREM OverflowsBounded == Spec => []PulseOffByOne
<1>1. Inv => PulseOffByOne
  <2> SUFFICES ASSUME Inv PROVE g_overflow \in wraps - 1..wraps + 1
    BY DEF PulseOffByOne
  <2>1. g_overflow \in Nat /\ wraps \in Nat /\ tov \in BOOLEAN
    BY TimerAssumption DEF Inv, TypeOK, TapeTypes, ControlTypes
  <2>2. OverflowInv
    BY DEF Inv
  <2> QED
    BY <2>1, <2>2 DEF OverflowInv
<1> QED
  BY <1>1, InvHolds, PTL

\* After the abort the write of at most one more half begins, however long the signal goes
\* on and whether or not the card fails (tapuino.cpp:566-567, 580-583, 591).
THEOREM AbortIsHeard == Spec => []AbortHeard
<1>1. Inv => AbortHeard
  <2>1. Inv => afterAbort \in {0, 1}
    BY DEF Inv, AbortInv
  <2>2. afterAbort \in {0, 1} => afterAbort <= 1
    OBVIOUS
  <2> QED
    BY <2>1, <2>2 DEF AbortHeard
<1> QED
  BY <1>1, InvHolds, PTL

\* A recording during whose end no pulse arrives is in its file to the last byte, and
\* the header has its length (tapuino.cpp:586-607).
THEOREM QuietRecordingComplete == Spec => []CompleteIfQuiet
<1>1. Inv => CompleteIfQuiet
  <2> SUFFICES ASSUME Inv, Closed, ~cardFailed, late = 0
               PROVE  data = tape /\ length = Len(data)
    BY DEF CompleteIfQuiet
  <2>1. data \in Seq(0..ByteRadix - 1) /\ tape \in Seq(0..ByteRadix - 1)
    BY DEF Inv, TypeOK, TapeTypes
  <2>2. Len(data) = Len(tape)
    BY DEF Inv, QuietInv
  <2>3. \A i \in 1..Len(data) : data[i] = tape[i]
    BY DEF Inv, PrefixInv
  <2>4. data = tape
    BY <2>1, <2>2, <2>3, SeqEqual
  <2>5. length = Len(tape)
    BY DEF Inv, DeckInv
  <2> QED
    BY <2>4, <2>5
<1> QED
  BY <1>1, InvHolds, PTL

============================================================================
