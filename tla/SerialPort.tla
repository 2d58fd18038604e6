---------------------------- MODULE SerialPort ----------------------------
(***************************************************************************)
(* The serial port of ENABLE_SERIAL: two ring buffers, each shared by the  *)
(* main loop and an interrupt handler without a lock, since ATOMIC_BLOCK   *)
(* is defined as nothing (LightweightRingBuff.h:48).  `Count++' and        *)
(* `Count--' load and store a byte: a handler that runs in between changes *)
(* the count in vain.                                                      *)
(***************************************************************************)
EXTENDS Integers, Sequences

CONSTANTS
    BUFFER_SIZE,   \* 32
    Bytes,         \* the bytes that are sent and received
    MaxBytes       \* bound: bytes per direction

ASSUME SizeAssumption == BUFFER_SIZE \in Nat \ {0} /\ MaxBytes \in Nat

VARIABLES
    tx, rx,            \* comms_tx_buffer, comms_rx_buffer
    UDRIE,             \* the bit of UCSR0B: the handler of the transmitter may run
    pc,                \* where the main loop is in serial_write or serial_read
    loaded,            \* the count it has loaded and will store, changed by one
    written, sent,     \* history: what the main loop wrote, what went out
    received, taken,   \* history: what came into the ring, what the main loop read
    txLost, rxLost     \* history: changes of the counts that were lost

txVars == <<tx, UDRIE, written, sent, txLost>>
rxVars == <<rx, received, taken, rxLost>>
vars == <<txVars, rxVars, pc, loaded>>

Slots == 0..BUFFER_SIZE - 1

\* RingBuffer_InitBuffer(); what is in the slots then is arbitrary.
Empty(b) == [Buffer |-> [i \in Slots |-> b], In |-> 0, Out |-> 0, Count |-> 0]

Init ==
    /\ \E b \in Bytes : tx = Empty(b) /\ rx = Empty(b)
    /\ UDRIE = FALSE /\ pc = "idle" /\ loaded = 0
    /\ written = <<>> /\ sent = <<>> /\ received = <<>> /\ taken = <<>>
    /\ txLost = 0 /\ rxLost = 0

----------------------------------------------------------------------------
(* LightweightRingBuff.h *)

IsFull(ring) == ring.Count = BUFFER_SIZE
IsEmpty(ring) == ring.Count = 0
\* Mutant: the end of the buffer is found one slot too late.
After_Late(i) == IF i = BUFFER_SIZE THEN 0 ELSE i + 1
After(i) == IF i + 1 = BUFFER_SIZE THEN 0 ELSE i + 1

\* Mutant: the pointer is advanced before the byte is stored.
Stored_Ahead(ring, b) ==
    [ring EXCEPT !.Buffer[After(ring.In)] = b, !.In = After(ring.In)]
\* RingBuffer_Insert() and RingBuffer_Remove() up to the count.
Stored(ring, b) == [ring EXCEPT !.Buffer[ring.In] = b, !.In = After(ring.In)]
Removed(ring) == [ring EXCEPT !.Out = After(ring.Out)]
Oldest(ring) == ring.Buffer[ring.Out]

----------------------------------------------------------------------------
(* The main loop. *)

\* serial_write() is called.
Write ==
    /\ pc = "idle" /\ Len(written) < MaxBytes
    /\ pc' = "write"
    /\ UNCHANGED <<txVars, rxVars, loaded>>

\* It waits while the buffer is full, then stores the byte.
Insert ==
    /\ pc = "write" /\ ~IsFull(tx)
    /\ \E b \in Bytes : tx' = Stored(tx, b) /\ written' = Append(written, b)
    /\ pc' = "inserted"
    /\ UNCHANGED <<UDRIE, sent, txLost, rxVars, loaded>>

\* Count++
LoadForInsert ==
    /\ pc = "inserted"
    /\ loaded' = tx.Count /\ pc' = "increment"
    /\ UNCHANGED <<txVars, rxVars>>

StoreForInsert ==
    /\ pc = "increment"
    /\ tx' = [tx EXCEPT !.Count = loaded + 1]
    /\ txLost' = txLost + (loaded - tx.Count)
    /\ pc' = "counted"
    /\ UNCHANGED <<UDRIE, written, sent, rxVars, loaded>>

\* Mutant: the interrupt is not switched on.
Enable_Forgotten ==
    /\ pc = "counted" /\ pc' = "idle"
    /\ UNCHANGED <<txVars, rxVars, loaded>>
\* UCSR0B |= _BV(UDRIE0)
Enable ==
    /\ pc = "counted"
    /\ UDRIE' = TRUE /\ pc' = "idle"
    /\ UNCHANGED <<tx, written, sent, txLost, rxVars, loaded>>

\* serial_available() and, if it is not 0, serial_read().
Available ==
    /\ pc = "idle" /\ ~IsEmpty(rx)
    /\ pc' = "read"
    /\ UNCHANGED <<txVars, rxVars, loaded>>

Remove ==
    /\ pc = "read"
    /\ taken' = Append(taken, Oldest(rx)) /\ rx' = Removed(rx)
    /\ pc' = "removed"
    /\ UNCHANGED <<txVars, received, rxLost, loaded>>

\* Count--
LoadForRemove ==
    /\ pc = "removed"
    /\ loaded' = rx.Count /\ pc' = "decrement"
    /\ UNCHANGED <<txVars, rxVars>>

StoreForRemove ==
    /\ pc = "decrement"
    /\ rx' = [rx EXCEPT !.Count = loaded - 1]
    /\ rxLost' = rxLost + (rx.Count - loaded)
    /\ pc' = "idle"
    /\ UNCHANGED <<txVars, received, taken, loaded>>

----------------------------------------------------------------------------
(* The handlers run between any two steps of the main loop. *)

\* Mutant: no test for a full buffer.
USART_RX_Unchecked ==
    /\ Len(received) < MaxBytes
    /\ \E b \in Bytes :
          /\ rx' = [Stored(rx, b) EXCEPT !.Count = @ + 1]
          /\ received' = Append(received, b)
    /\ UNCHANGED <<txVars, taken, rxLost, pc, loaded>>
\* SIGNAL(USART_RX_vect): a byte that finds the buffer full is dropped.
USART_RX ==
    /\ Len(received) < MaxBytes /\ ~IsFull(rx)
    /\ \E b \in Bytes :
          /\ rx' = [Stored(rx, b) EXCEPT !.Count = @ + 1]
          /\ received' = Append(received, b)
    /\ UNCHANGED <<txVars, taken, rxLost, pc, loaded>>

\* ISR(USART_UDRE_vect)
USART_UDRE_Off ==
    /\ UDRIE /\ IsEmpty(tx)
    /\ UDRIE' = FALSE
    /\ UNCHANGED <<tx, written, sent, txLost, rxVars, pc, loaded>>

USART_UDRE_Send ==
    /\ UDRIE /\ ~IsEmpty(tx)
    /\ sent' = Append(sent, Oldest(tx))
    /\ tx' = [Removed(tx) EXCEPT !.Count = @ - 1]
    /\ UNCHANGED <<UDRIE, written, txLost, rxVars, pc, loaded>>

USART_UDRE == USART_UDRE_Off \/ USART_UDRE_Send

serial_write == Insert \/ LoadForInsert \/ StoreForInsert \/ Enable
serial_read == Remove \/ LoadForRemove \/ StoreForRemove

Next == Write \/ serial_write \/ Available \/ serial_read \/ USART_RX \/ USART_UDRE

Spec == Init /\ [][Next]_vars

\* What has been called goes on (the handlers are short), and the transmitter
\* gets rid of a byte in time.
FairSpec == Spec /\ WF_vars(serial_write \/ serial_read) /\ WF_vars(USART_UDRE)

----------------------------------------------------------------------------
(* Properties. *)

RingType == [Buffer : [Slots -> Bytes], In : Slots, Out : Slots, Count : 0..BUFFER_SIZE]

\* The pointers stay in the buffer and the counts within its size, although the
\* counts are changed on both sides (LightweightRingBuff.h:72-78, 138-167).
TypeOK ==
    /\ tx \in RingType /\ rx \in RingType
    /\ UDRIE \in BOOLEAN
    /\ pc \in {"idle", "write", "inserted", "increment", "counted", "read", "removed", "decrement"}
    /\ loaded \in 0..BUFFER_SIZE
    /\ written \in Seq(Bytes) /\ sent \in Seq(Bytes)
    /\ received \in Seq(Bytes) /\ taken \in Seq(Bytes)
    /\ txLost \in Nat /\ rxLost \in Nat

\* As long as no change of a count has been lost, each ring is a queue of BUFFER_SIZE
\* bytes between the main loop and the line (LightweightRingBuff.h:36-41).
TxQueue == INSTANCE Channel WITH
    Capacity <- BUFFER_SIZE, put <- written, got <- sent, broken <- txLost > 0
RxQueue == INSTANCE Channel WITH
    Capacity <- BUFFER_SIZE, put <- received, got <- taken, broken <- rxLost > 0
TxQueueSpec == TxQueue!Spec
RxQueueSpec == RxQueue!Spec

\* "insertion and removal operations may occur at the same time"
\* (LightweightRingBuff.h:36-39): what goes out is what the main loop wrote, in order.
SentAsWritten == Len(sent) <= Len(written) /\ sent = SubSeq(written, 1, Len(sent))

\* As many bytes go out as are written: serial_write() switches the transmitter's
\* interrupt on after the count and the handler switches it off at 0 only, so that no
\* byte waits for ever (serial.c:38-40, 95-98).  Which bytes they are is TxQueueSpec's
\* to say; after a lost change of the count they may be others.
AllSent == \A n \in 1..MaxBytes : Len(written) >= n ~> Len(sent) >= n

\* A serial_write() that waits for room returns (serial.c:38).
WritesReturn == pc = "write" ~> pc = "idle"
=============================================================================
