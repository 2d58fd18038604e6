------------------------- MODULE SerialPortProofs -------------------------
(***************************************************************************)
(* Theorems about SerialPort for every size of the buffers: how far the    *)
(* counts are from the bytes, and that both rings are queues as long as no *)
(* change of a count is lost.                                              *)
(***************************************************************************)
EXTENDS SerialPort, TLAPS

\* tx: the count and the changes lost, against the bytes between written and sent.
TxDrift ==
    /\ pc \notin {"inserted", "increment"} =>
          Len(sent) + tx.Count = Len(written) + txLost
    /\ pc \in {"inserted", "increment"} =>
          /\ Len(sent) + tx.Count + 1 = Len(written) + txLost
          /\ tx.Count < BUFFER_SIZE
    /\ pc = "increment" => loaded >= tx.Count /\ loaded < BUFFER_SIZE

\* rx: the lost changes are missing in the count.
RxDrift ==
    /\ pc \notin {"removed", "decrement"} =>
          Len(taken) + rx.Count + rxLost = Len(received)
    /\ pc \in {"removed", "decrement"} =>
          Len(taken) + rx.Count + rxLost = Len(received) + 1
    /\ pc \in {"read", "removed", "decrement"} => rx.Count >= 1
    /\ pc = "decrement" => loaded >= 1 /\ loaded <= rx.Count

\* How many more bytes went in than out.
Balance(in, out) == Len(in) - Len(out)

\* A ring holds the bytes that were put into it and not yet got out of it.
Wrap(i) == IF i >= BUFFER_SIZE THEN i - BUFFER_SIZE ELSE i
Holds(ring, in, out) ==
    /\ Balance(in, out) \in 0..BUFFER_SIZE
    /\ ring.In = Wrap(ring.Out + Balance(in, out))
    /\ \A k \in 0..BUFFER_SIZE - 1 :
          k < Balance(in, out) => ring.Buffer[Wrap(ring.Out + k)] = in[Len(out) + 1 + k]

TxHolds == txLost = 0 => Holds(tx, written, sent)
RxHolds == rxLost = 0 => Holds(rx, received, taken)

Inv == TypeOK /\ TxDrift /\ RxDrift /\ TxHolds /\ RxHolds

----------------------------------------------------------------------------
(* The operations of a ring. *)

\* The pointer after the one i bytes on.
LEMMA AfterWrap ==
    ASSUME NEW p \in 0..BUFFER_SIZE - 1, NEW i \in 0..BUFFER_SIZE - 1
    PROVE  /\ Wrap(p + i) \in 0..BUFFER_SIZE - 1
           /\ After(Wrap(p + i)) = Wrap(p + (i + 1))
           /\ After(p) \in 0..BUFFER_SIZE - 1
           /\ Wrap(After(p) + i) = Wrap(p + (i + 1))
<1>1. BUFFER_SIZE \in Nat \ {0}
  BY SizeAssumption
<1>2. Wrap(p + i) \in 0..BUFFER_SIZE - 1 /\ After(p) \in 0..BUFFER_SIZE - 1
  BY <1>1 DEF Wrap, After
<1>3. After(Wrap(p + i)) = Wrap(p + (i + 1))
  BY <1>1 DEF Wrap, After
<1>4. Wrap(After(p) + i) = Wrap(p + (i + 1))
  BY <1>1 DEF Wrap, After
<1> QED
  BY <1>2, <1>3, <1>4

\* What inserting does to a ring.
LEMMA StoredRing ==
    ASSUME NEW ring \in RingType, NEW b \in Bytes
    PROVE  /\ Stored(ring, b) \in RingType
           /\ Stored(ring, b).Buffer = [ring.Buffer EXCEPT ![ring.In] = b]
           /\ Stored(ring, b).In = After(ring.In)
           /\ Stored(ring, b).Out = ring.Out /\ Stored(ring, b).Count = ring.Count
<1>1. BUFFER_SIZE \in Nat \ {0}
  BY SizeAssumption
<1>2. /\ ring = [Buffer |-> ring.Buffer, In |-> ring.In, Out |-> ring.Out, Count |-> ring.Count]
      /\ ring.In \in Slots /\ ring.Out \in Slots /\ ring.Count \in 0..BUFFER_SIZE
      /\ ring.Buffer \in [Slots -> Bytes]
  BY DEF RingType
<1> DEFINE slots == [ring.Buffer EXCEPT ![ring.In] = b]
<1>3. Stored(ring, b) = [Buffer |-> slots, In |-> After(ring.In),
                         Out |-> ring.Out, Count |-> ring.Count]
  <2>1. Stored(ring, b) = [ring EXCEPT !.Buffer = slots, !.In = After(ring.In)]
    BY Zenon DEF Stored
  <2> HIDE DEF slots
  <2> QED
    BY <1>2, <2>1
<1>4. After(ring.In) \in Slots
  BY <1>1, <1>2 DEF After, Slots
<1>5. [ring.Buffer EXCEPT ![ring.In] = b] \in [Slots -> Bytes]
  BY <1>2
<1> QED
  BY <1>2, <1>3, <1>4, <1>5 DEF RingType

\* What removing does to a ring.
LEMMA RemovedRing ==
    ASSUME NEW ring \in RingType
    PROVE  /\ Removed(ring) \in RingType /\ Oldest(ring) \in Bytes
           /\ Removed(ring).Buffer = ring.Buffer /\ Removed(ring).In = ring.In
           /\ Removed(ring).Out = After(ring.Out) /\ Removed(ring).Count = ring.Count
<1>1. BUFFER_SIZE \in Nat \ {0}
  BY SizeAssumption
<1>2. /\ ring = [Buffer |-> ring.Buffer, In |-> ring.In, Out |-> ring.Out, Count |-> ring.Count]
      /\ ring.In \in Slots /\ ring.Out \in Slots /\ ring.Count \in 0..BUFFER_SIZE
      /\ ring.Buffer \in [Slots -> Bytes]
  BY DEF RingType
<1>3. Removed(ring) = [Buffer |-> ring.Buffer, In |-> ring.In, Out |-> After(ring.Out),
                       Count |-> ring.Count]
  BY <1>2 DEF Removed
<1>4. After(ring.Out) \in Slots
  BY <1>1, <1>2 DEF After, Slots
<1> QED
  BY <1>2, <1>3, <1>4 DEF RingType, Oldest

\* A change of the count alone.
LEMMA CountRing ==
    ASSUME NEW ring \in RingType, NEW n \in 0..BUFFER_SIZE
    PROVE  /\ [ring EXCEPT !.Count = n] \in RingType
           /\ [ring EXCEPT !.Count = n].Count = n
           /\ [ring EXCEPT !.Count = n].Buffer = ring.Buffer
           /\ [ring EXCEPT !.Count = n].In = ring.In /\ [ring EXCEPT !.Count = n].Out = ring.Out
  BY DEF RingType

\* Inserting a byte where there is room.
LEMMA InsertKeeps ==
    ASSUME NEW ring \in RingType, NEW in \in Seq(Bytes), NEW out \in Seq(Bytes), NEW b \in Bytes,
           Holds(ring, in, out), Balance(in, out) < BUFFER_SIZE
    PROVE  Holds(Stored(ring, b), Append(in, b), out)
<1> DEFINE n == Balance(in, out)
           r == Stored(ring, b)
<1>1. BUFFER_SIZE \in Nat \ {0} /\ n \in 0..BUFFER_SIZE - 1
      /\ Len(in) \in Nat /\ Len(out) \in Nat
  BY SizeAssumption DEF Holds, Balance
<1>2. /\ ring.In \in 0..BUFFER_SIZE - 1 /\ ring.Out \in 0..BUFFER_SIZE - 1
      /\ ring.Buffer \in [0..BUFFER_SIZE - 1 -> Bytes]
      /\ ring.In = Wrap(ring.Out + n)
  BY DEF RingType, Holds, Slots
<1>3. Balance(Append(in, b), out) = n + 1
  BY <1>1 DEF Balance
<1>4. /\ r.Out = ring.Out /\ r.In = After(ring.In)
      /\ r.Buffer = [ring.Buffer EXCEPT ![ring.In] = b]
  BY StoredRing
<1>5. r.In = Wrap(r.Out + (n + 1))
  <2> HIDE DEF n
  <2>1. n \in 0..BUFFER_SIZE - 1
    BY <1>1
  <2>2. After(Wrap(ring.Out + n)) = Wrap(ring.Out + (n + 1))
    BY <1>2, <2>1, AfterWrap
  <2> HIDE DEF r
  <2> QED
    BY <1>2, <1>4, <2>2
<1>6. ASSUME NEW k \in 0..BUFFER_SIZE - 1, k < n + 1
      PROVE  r.Buffer[Wrap(r.Out + k)] = Append(in, b)[Len(out) + 1 + k]
  <2>1. Wrap(ring.Out + k) \in 0..BUFFER_SIZE - 1
    BY <1>1, <1>2 DEF Wrap
  <2>2. CASE k = n
    <3>1. Len(out) + 1 + k = Len(in) + 1
      BY <1>1, <2>2 DEF Balance
    <3>2. Append(in, b)[Len(out) + 1 + k] = b
      BY <3>1
    <3>3. Wrap(r.Out + k) = ring.In
      BY <1>2, <1>4, <2>2
    <3>4. r.Buffer[ring.In] = b
      BY <1>2, <1>4
    <3> QED
      BY <3>2, <3>3, <3>4
  <2>3. CASE k < n
    <3>1. Wrap(ring.Out + k) # ring.In
      BY <1>1, <1>2, <2>3 DEF Wrap
    <3>2. Len(out) + 1 + k \in 1..Len(in)
      BY <1>1, <2>3 DEF Balance
    <3>3. Append(in, b)[Len(out) + 1 + k] = in[Len(out) + 1 + k]
      BY <3>2
    <3>4. ring.Buffer[Wrap(ring.Out + k)] = in[Len(out) + 1 + k]
      BY <2>3 DEF Holds
    <3>5. r.Buffer[Wrap(r.Out + k)] = ring.Buffer[Wrap(ring.Out + k)]
      BY <1>2, <1>4, <2>1, <3>1
    <3> QED
      BY <3>3, <3>4, <3>5
  <2>4. k = n \/ k < n
    BY <1>1, <1>6
  <2> QED
    BY <2>2, <2>3, <2>4
<1>7. n + 1 \in 0..BUFFER_SIZE
  BY <1>1
<1> HIDE DEF n, r
<1> QED
  BY <1>3, <1>5, <1>6, <1>7 DEF Holds, r

\* Removing a byte where there is one: it is the oldest.
LEMMA RemoveKeeps ==
    ASSUME NEW ring \in RingType, NEW in \in Seq(Bytes), NEW out \in Seq(Bytes),
           Holds(ring, in, out), Balance(in, out) > 0
    PROVE  /\ Oldest(ring) = in[Len(out) + 1]
           /\ Holds(Removed(ring), in, Append(out, Oldest(ring)))
<1> DEFINE n == Balance(in, out)
           r == Removed(ring)
           o == Oldest(ring)
<1>1. BUFFER_SIZE \in Nat \ {0} /\ n \in 1..BUFFER_SIZE
      /\ Len(in) \in Nat /\ Len(out) \in Nat
  BY SizeAssumption DEF Holds, Balance
<1>2. /\ ring.In \in 0..BUFFER_SIZE - 1 /\ ring.Out \in 0..BUFFER_SIZE - 1
      /\ ring.In = Wrap(ring.Out + n)
  BY DEF RingType, Holds, Slots
<1>3. r.Out = After(ring.Out) /\ r.In = ring.In /\ r.Buffer = ring.Buffer
  BY RemovedRing
<1>4. o = in[Len(out) + 1]
  <2>1. Wrap(ring.Out + 0) = ring.Out /\ 0 \in 0..BUFFER_SIZE - 1
    BY <1>1, <1>2 DEF Wrap
  <2>2. ring.Buffer[Wrap(ring.Out + 0)] = in[Len(out) + 1 + 0]
    BY <1>1, <2>1 DEF Holds
  <2> QED
    BY <1>1, <2>1, <2>2 DEF Oldest
<1>5. Len(Append(out, o)) = Len(out) + 1 /\ Balance(in, Append(out, o)) = n - 1
  <2>1. o \in Bytes
    BY RemovedRing
  <2> QED
    BY <1>1, <2>1 DEF Balance
<1>6. r.In = Wrap(r.Out + (n - 1))
  <2>1. n - 1 \in 0..BUFFER_SIZE - 1 /\ (n - 1) + 1 = n
    BY <1>1
  <2> HIDE DEF n, r
  <2> QED
    BY <1>2, <1>3, <2>1, AfterWrap
<1>7. ASSUME NEW k \in 0..BUFFER_SIZE - 1, k < n - 1
      PROVE  r.Buffer[Wrap(r.Out + k)] = in[Len(out) + 1 + 1 + k]
  <2>1. Wrap(r.Out + k) = Wrap(ring.Out + (k + 1)) /\ k + 1 \in 0..BUFFER_SIZE - 1
    <3>1. k + 1 \in 0..BUFFER_SIZE - 1
      BY <1>1, <1>7
    <3>2. Wrap(After(ring.Out) + k) = Wrap(ring.Out + (k + 1))
      BY <1>2, AfterWrap
    <3> HIDE DEF r
    <3> QED
      BY <1>3, <3>1, <3>2
  <2>2. ring.Buffer[Wrap(ring.Out + (k + 1))] = in[Len(out) + 1 + (k + 1)]
    BY <1>1, <1>7, <2>1 DEF Holds
  <2>3. Len(out) + 1 + (k + 1) = Len(out) + 1 + 1 + k
    BY <1>1
  <2> QED
    BY <1>3, <2>1, <2>2, <2>3
<1> QED
  BY <1>1, <1>4, <1>5, <1>6, <1>7 DEF Holds

----------------------------------------------------------------------------
(* The invariant. *)

\* Holds looks at the slots and the pointers only.
LEMMA SameHolds ==
    ASSUME NEW r1, NEW r2, NEW in, NEW out,
           r1.Buffer = r2.Buffer, r1.In = r2.In, r1.Out = r2.Out, Holds(r1, in, out)
    PROVE  Holds(r2, in, out)
  BY DEF Holds

\* The types of what the steps use.
LEMMA Typed ==
    ASSUME Inv
    PROVE  /\ BUFFER_SIZE \in Nat \ {0}
           /\ tx \in RingType /\ rx \in RingType
           /\ tx.Count \in 0..BUFFER_SIZE /\ rx.Count \in 0..BUFFER_SIZE
           /\ loaded \in 0..BUFFER_SIZE
           /\ written \in Seq(Bytes) /\ sent \in Seq(Bytes)
           /\ received \in Seq(Bytes) /\ taken \in Seq(Bytes)
           /\ Len(written) \in Nat /\ Len(sent) \in Nat
           /\ Len(received) \in Nat /\ Len(taken) \in Nat
           /\ txLost \in Nat /\ rxLost \in Nat
<1>1. /\ BUFFER_SIZE \in Nat \ {0}
      /\ tx \in RingType /\ rx \in RingType /\ loaded \in 0..BUFFER_SIZE
      /\ written \in Seq(Bytes) /\ sent \in Seq(Bytes)
      /\ received \in Seq(Bytes) /\ taken \in Seq(Bytes)
      /\ txLost \in Nat /\ rxLost \in Nat
  BY SizeAssumption DEF Inv, TypeOK
<1>2. tx.Count \in 0..BUFFER_SIZE /\ rx.Count \in 0..BUFFER_SIZE
  BY <1>1 DEF RingType
<1> QED
  BY <1>1, <1>2

\* Steps that change only the place of the main loop and what it has loaded.
LEMMA QuietStep ==
    ASSUME Inv, UNCHANGED <<tx, rx, written, sent, received, taken, txLost, rxLost>>
    PROVE  TxHolds' /\ RxHolds'
  BY DEF Inv, TxHolds, RxHolds, Holds, Balance

LEMMA WriteInv == ASSUME Inv, Write PROVE Inv'
<1>1. TypeOK'
  BY DEF Inv, TypeOK, Write, txVars, rxVars
<1>2. TxDrift' /\ RxDrift'
  BY DEF Inv, TxDrift, RxDrift, Write, txVars, rxVars
<1>3. TxHolds' /\ RxHolds'
  BY QuietStep DEF Write, txVars, rxVars
<1> QED
  BY <1>1, <1>2, <1>3 DEF Inv

LEMMA InsertInv == ASSUME Inv, Insert PROVE Inv'
<1>0. /\ BUFFER_SIZE \in Nat \ {0} /\ tx \in RingType /\ tx.Count \in 0..BUFFER_SIZE
      /\ written \in Seq(Bytes) /\ sent \in Seq(Bytes)
      /\ Len(written) \in Nat /\ Len(sent) \in Nat /\ txLost \in Nat
  BY Typed
<1> PICK b \in Bytes : tx' = Stored(tx, b) /\ written' = Append(written, b)
  BY DEF Insert
<1>1. /\ pc = "write" /\ pc' = "inserted" /\ tx.Count < BUFFER_SIZE
      /\ UNCHANGED <<UDRIE, sent, txLost, rx, received, taken, rxLost, loaded>>
  BY <1>0 DEF Insert, IsFull, rxVars
<1>2. tx' \in RingType /\ tx'.Count = tx.Count
  BY <1>0, StoredRing
<1>3. written' \in Seq(Bytes) /\ Len(written') = Len(written) + 1
  BY <1>0
<1>4. TypeOK'
  BY <1>1, <1>2, <1>3 DEF Inv, TypeOK
<1>5. TxDrift'
  BY <1>0, <1>1, <1>2, <1>3 DEF Inv, TxDrift
<1>6. RxDrift'
  BY <1>1 DEF Inv, RxDrift
<1>7. TxHolds'
  <2>1. SUFFICES ASSUME txLost = 0 PROVE Holds(tx', written', sent)
    BY <1>1 DEF TxHolds, Holds, Balance
  <2>2. Holds(tx, written, sent)
    BY <2>1 DEF Inv, TxHolds
  <2>3. Balance(written, sent) < BUFFER_SIZE
    BY <1>0, <1>1, <2>1 DEF Inv, TxDrift, Balance
  <2> QED
    BY <1>0, <2>2, <2>3, InsertKeeps
<1>8. RxHolds'
  BY <1>1 DEF Inv, RxHolds, Holds, Balance
<1> QED
  BY <1>4, <1>5, <1>6, <1>7, <1>8 DEF Inv

LEMMA LoadForInsertInv == ASSUME Inv, LoadForInsert PROVE Inv'
<1>0. tx.Count \in 0..BUFFER_SIZE
  BY Typed
<1>1. TypeOK'
  BY <1>0 DEF Inv, TypeOK, LoadForInsert, txVars, rxVars
<1>2. TxDrift' /\ RxDrift'
  BY <1>0 DEF Inv, TxDrift, RxDrift, LoadForInsert, txVars, rxVars
<1>3. TxHolds' /\ RxHolds'
  BY QuietStep DEF LoadForInsert, txVars, rxVars
<1> QED
  BY <1>1, <1>2, <1>3 DEF Inv

\* A change of a count that is lost is missing once only.
LEMMA LostChange ==
    ASSUME NEW s \in Nat, NEW w \in Nat, NEW lost \in Nat, NEW m \in Nat, NEW n \in Nat,
           s + n + 1 = w + lost
    PROVE  s + (m + 1) = w + (lost + (m - n))
  OBVIOUS

LEMMA StoreForInsertInv == ASSUME Inv, StoreForInsert PROVE Inv'
<1>0. /\ BUFFER_SIZE \in Nat \ {0} /\ tx \in RingType /\ tx.Count \in 0..BUFFER_SIZE
      /\ loaded \in 0..BUFFER_SIZE /\ txLost \in Nat
      /\ Len(written) \in Nat /\ Len(sent) \in Nat
  BY Typed
<1>1. /\ pc = "increment" /\ pc' = "counted" /\ loaded >= tx.Count /\ loaded < BUFFER_SIZE
      /\ UNCHANGED <<UDRIE, written, sent, rx, received, taken, rxLost, loaded>>
  BY DEF Inv, TxDrift, StoreForInsert, rxVars
<1>2. /\ tx' \in RingType /\ tx'.Count = loaded + 1
      /\ tx'.Buffer = tx.Buffer /\ tx'.In = tx.In /\ tx'.Out = tx.Out
  <2>1. loaded + 1 \in 0..BUFFER_SIZE
    BY <1>0, <1>1
  <2>2. tx' = [tx EXCEPT !.Count = loaded + 1]
    BY DEF StoreForInsert
  <2> QED
    BY <1>0, <2>1, <2>2, CountRing
<1>3. txLost' = txLost + (loaded - tx.Count) /\ txLost' \in Nat
  BY <1>0, <1>1 DEF StoreForInsert
<1>4. TypeOK'
  BY <1>1, <1>2, <1>3 DEF Inv, TypeOK
<1>5. TxDrift'
  <2>1. Len(sent) + tx.Count + 1 = Len(written) + txLost
    BY <1>1 DEF Inv, TxDrift
  <2>2. Len(sent) + (loaded + 1) = Len(written) + (txLost + (loaded - tx.Count))
    <3>1. tx.Count \in Nat /\ loaded \in Nat
      BY <1>0
    <3> QED
      BY ONLY <1>0, <2>1, <3>1, LostChange
  <2>3. Len(sent') + tx'.Count = Len(written') + txLost'
    BY <1>1, <1>2, <1>3, <2>2
  <2> QED
    BY <1>1, <2>3 DEF TxDrift
<1>6. RxDrift'
  BY <1>1 DEF Inv, RxDrift
<1>7. TxHolds'
  <2>1. SUFFICES ASSUME txLost' = 0 PROVE Holds(tx', written, sent)
    BY <1>1 DEF TxHolds, Holds, Balance
  <2>2. txLost = 0
    BY <1>0, <1>1, <1>3, <2>1
  <2>3. Holds(tx, written, sent)
    BY <2>2 DEF Inv, TxHolds
  <2> QED
    BY <1>2, <2>3, SameHolds
<1>8. RxHolds'
  BY <1>1 DEF Inv, RxHolds, Holds, Balance
<1> QED
  BY <1>4, <1>5, <1>6, <1>7, <1>8 DEF Inv

LEMMA EnableInv == ASSUME Inv, Enable PROVE Inv'
<1>1. TypeOK'
  BY DEF Inv, TypeOK, Enable, rxVars
<1>2. TxDrift' /\ RxDrift'
  BY DEF Inv, TxDrift, RxDrift, Enable, rxVars
<1>3. TxHolds' /\ RxHolds'
  BY QuietStep DEF Enable, rxVars
<1> QED
  BY <1>1, <1>2, <1>3 DEF Inv

LEMMA AvailableInv == ASSUME Inv, Available PROVE Inv'
<1>0. rx.Count \in 0..BUFFER_SIZE /\ BUFFER_SIZE \in Nat
  BY Typed
<1>1. TypeOK'
  BY DEF Inv, TypeOK, Available, txVars, rxVars
<1>2. TxDrift'
  BY DEF Inv, TxDrift, Available, txVars, rxVars
<1>3. RxDrift'
  BY <1>0 DEF Inv, RxDrift, Available, IsEmpty, txVars, rxVars
<1>4. TxHolds' /\ RxHolds'
  BY QuietStep DEF Available, txVars, rxVars
<1> QED
  BY <1>1, <1>2, <1>3, <1>4 DEF Inv

LEMMA RemoveInv == ASSUME Inv, Remove PROVE Inv'
<1>0. /\ BUFFER_SIZE \in Nat \ {0} /\ rx \in RingType /\ rx.Count \in 0..BUFFER_SIZE
      /\ received \in Seq(Bytes) /\ taken \in Seq(Bytes)
      /\ Len(received) \in Nat /\ Len(taken) \in Nat /\ rxLost \in Nat
  BY Typed
<1>1. /\ pc = "read" /\ pc' = "removed"
      /\ taken' = Append(taken, Oldest(rx)) /\ rx' = Removed(rx)
      /\ UNCHANGED <<UDRIE, written, sent, txLost, tx, received, rxLost, loaded>>
  BY DEF Remove, txVars
<1>2. rx' \in RingType /\ rx'.Count = rx.Count /\ Oldest(rx) \in Bytes
  BY <1>0, <1>1, RemovedRing
<1>3. taken' \in Seq(Bytes) /\ Len(taken') = Len(taken) + 1
  BY <1>0, <1>1, <1>2
<1>4. TypeOK'
  BY <1>1, <1>2, <1>3 DEF Inv, TypeOK
<1>5. TxDrift'
  BY <1>1 DEF Inv, TxDrift
<1>6. rx.Count >= 1 /\ Len(taken) + rx.Count + rxLost = Len(received)
  BY <1>1 DEF Inv, RxDrift
<1>7. RxDrift'
  <2>1. rxLost' = rxLost /\ Len(received') = Len(received)
    BY <1>1
  <2>2. rx.Count \in Nat /\ Len(taken) \in Nat /\ rxLost \in Nat
    BY <1>0
  <2>3. Len(taken') + rx'.Count + rxLost' = (Len(taken) + 1) + rx.Count + rxLost
    BY <1>2, <1>3, <2>1
  <2>4. Len(taken') + rx'.Count + rxLost' = Len(received') + 1
    BY <1>6, <2>1, <2>2, <2>3
  <2> QED
    BY <1>1, <1>2, <1>6, <2>4 DEF RxDrift
<1>8. TxHolds'
  BY <1>1 DEF Inv, TxHolds, Holds, Balance
<1>9. RxHolds'
  <2>1. SUFFICES ASSUME rxLost = 0 PROVE Holds(rx', received, taken')
    BY <1>1 DEF RxHolds, Holds, Balance
  <2>2. Holds(rx, received, taken)
    BY <2>1 DEF Inv, RxHolds
  <2>3. Balance(received, taken) > 0
    BY <1>0, <1>6, <2>1 DEF Balance
  <2> QED
    BY <1>0, <1>1, <2>2, <2>3, RemoveKeeps
<1> QED
  BY <1>4, <1>5, <1>7, <1>8, <1>9 DEF Inv

LEMMA LoadForRemoveInv == ASSUME Inv, LoadForRemove PROVE Inv'
<1>0. rx.Count \in 0..BUFFER_SIZE
  BY Typed
<1>1. TypeOK'
  BY <1>0 DEF Inv, TypeOK, LoadForRemove, txVars, rxVars
<1>2. TxDrift' /\ RxDrift'
  BY <1>0 DEF Inv, TxDrift, RxDrift, LoadForRemove, txVars, rxVars
<1>3. TxHolds' /\ RxHolds'
  BY QuietStep DEF LoadForRemove, txVars, rxVars
<1> QED
  BY <1>1, <1>2, <1>3 DEF Inv

LEMMA StoreForRemoveInv == ASSUME Inv, StoreForRemove PROVE Inv'
<1>0. /\ BUFFER_SIZE \in Nat \ {0} /\ rx \in RingType /\ rx.Count \in 0..BUFFER_SIZE
      /\ loaded \in 0..BUFFER_SIZE /\ rxLost \in Nat
      /\ Len(received) \in Nat /\ Len(taken) \in Nat
  BY Typed
<1>1. /\ pc = "decrement" /\ pc' = "idle" /\ loaded >= 1 /\ loaded <= rx.Count
      /\ UNCHANGED <<UDRIE, written, sent, txLost, tx, received, taken, loaded>>
  BY DEF Inv, RxDrift, StoreForRemove, txVars
<1>2. /\ rx' \in RingType /\ rx'.Count = loaded - 1
      /\ rx'.Buffer = rx.Buffer /\ rx'.In = rx.In /\ rx'.Out = rx.Out
  <2>1. loaded - 1 \in 0..BUFFER_SIZE
    BY <1>0, <1>1
  <2>2. rx' = [rx EXCEPT !.Count = loaded - 1]
    BY DEF StoreForRemove
  <2> QED
    BY <1>0, <2>1, <2>2, CountRing
<1>3. rxLost' = rxLost + (rx.Count - loaded) /\ rxLost' \in Nat
  BY <1>0, <1>1 DEF StoreForRemove
<1>4. TypeOK'
  BY <1>1, <1>2, <1>3 DEF Inv, TypeOK
<1>5. TxDrift'
  BY <1>1 DEF Inv, TxDrift
<1>6. RxDrift'
  <2>1. Len(taken) + rx.Count + rxLost = Len(received) + 1
    BY <1>1 DEF Inv, RxDrift
  <2>2. Len(taken') = Len(taken) /\ Len(received') = Len(received)
    BY <1>1
  <2>3. rx'.Count = loaded - 1 /\ rxLost' = rxLost + (rx.Count - loaded)
    BY <1>2, <1>3
  <2>4. Len(taken') + rx'.Count + rxLost' = Len(received')
    BY <1>0, <2>1, <2>2, <2>3
  <2> QED
    BY <1>1, <2>4 DEF RxDrift
<1>7. TxHolds'
  BY <1>1 DEF Inv, TxHolds, Holds, Balance
<1>8. RxHolds'
  <2>1. SUFFICES ASSUME rxLost' = 0 PROVE Holds(rx', received, taken)
    BY <1>1 DEF RxHolds, Holds, Balance
  <2>2. rxLost = 0
    BY <1>0, <1>1, <1>3, <2>1
  <2>3. Holds(rx, received, taken)
    BY <2>2 DEF Inv, RxHolds
  <2> QED
    BY <1>2, <2>3, SameHolds
<1> QED
  BY <1>4, <1>5, <1>6, <1>7, <1>8 DEF Inv

LEMMA USART_RXInv == ASSUME Inv, USART_RX PROVE Inv'
<1>0. /\ BUFFER_SIZE \in Nat \ {0} /\ rx \in RingType /\ rx.Count \in 0..BUFFER_SIZE
      /\ received \in Seq(Bytes) /\ taken \in Seq(Bytes) /\ loaded \in 0..BUFFER_SIZE
      /\ Len(received) \in Nat /\ Len(taken) \in Nat /\ rxLost \in Nat
  BY Typed
<1> PICK b \in Bytes : /\ rx' = [Stored(rx, b) EXCEPT !.Count = @ + 1]
                       /\ received' = Append(received, b)
  BY DEF USART_RX
<1>1. /\ rx.Count < BUFFER_SIZE
      /\ UNCHANGED <<pc, UDRIE, written, sent, txLost, tx, taken, rxLost, loaded>>
  BY <1>0 DEF USART_RX, IsFull, txVars
<1>2. /\ Stored(rx, b) \in RingType /\ Stored(rx, b).Count = rx.Count
      /\ rx.Count + 1 \in 0..BUFFER_SIZE
  <2>1. rx.Count + 1 \in 0..BUFFER_SIZE
    BY <1>0, <1>1
  <2> QED
    BY <1>0, <2>1, StoredRing
<1>3. /\ rx' \in RingType /\ rx'.Count = rx.Count + 1
      /\ rx'.Buffer = Stored(rx, b).Buffer
      /\ rx'.In = Stored(rx, b).In /\ rx'.Out = Stored(rx, b).Out
  <2>1. rx' = [Stored(rx, b) EXCEPT !.Count = rx.Count + 1]
    BY <1>2
  <2> QED
    BY <1>2, <2>1, CountRing
<1>4. received' \in Seq(Bytes) /\ Len(received') = Len(received) + 1
  BY <1>0
<1>5. TypeOK'
  BY <1>1, <1>3, <1>4 DEF Inv, TypeOK
<1>6. TxDrift'
  BY <1>1 DEF Inv, TxDrift
<1>7. RxDrift'
  <2>1. taken' = taken /\ rxLost' = rxLost /\ pc' = pc /\ loaded' = loaded
    BY <1>1
  <2>2. RxDrift
    BY DEF Inv
  <2>3. rx'.Count = rx.Count + 1 /\ Len(received') = Len(received) + 1
    BY <1>3, <1>4
  <2>4. /\ rx.Count \in Nat /\ Len(taken) \in Nat /\ rxLost \in Nat
        /\ Len(received) \in Nat /\ loaded \in Nat
    BY <1>0
  <2>5. CASE pc \in {"removed", "decrement"}
    <3>1. /\ Len(taken) + rx.Count + rxLost = Len(received) + 1
          /\ rx.Count >= 1 /\ (pc = "decrement" => loaded >= 1 /\ loaded <= rx.Count)
      BY <2>2, <2>5 DEF RxDrift
    <3>2. /\ Len(taken') + rx'.Count + rxLost' = Len(received') + 1
          /\ rx'.Count >= 1 /\ (pc = "decrement" => loaded >= 1 /\ loaded <= rx'.Count)
      BY <2>1, <2>3, <2>4, <3>1
    <3> QED
      BY <2>1, <2>5, <3>2 DEF RxDrift
  <2>6. CASE pc \notin {"removed", "decrement"}
    <3>1. Len(taken) + rx.Count + rxLost = Len(received) /\ (pc = "read" => rx.Count >= 1)
      BY <2>2, <2>6 DEF RxDrift
    <3>2. Len(taken') + rx'.Count + rxLost' = Len(received')
      BY <2>1, <2>3, <2>4, <3>1
    <3>3. pc = "read" => rx'.Count >= 1
      BY <2>3, <2>4, <3>1
    <3> QED
      BY <2>1, <2>6, <3>2, <3>3 DEF RxDrift
  <2> QED
    BY <2>5, <2>6
<1>8. TxHolds'
  BY <1>1 DEF Inv, TxHolds, Holds, Balance
<1>9. RxHolds'
  <2>1. SUFFICES ASSUME rxLost = 0 PROVE Holds(rx', received', taken)
    BY <1>1 DEF RxHolds, Holds, Balance
  <2>2. Holds(rx, received, taken)
    BY <2>1 DEF Inv, RxHolds
  <2>3. Balance(received, taken) < BUFFER_SIZE
    BY <1>0, <1>1, <2>1 DEF Inv, RxDrift, Balance
  <2>4. Holds(Stored(rx, b), received', taken)
    BY <1>0, <2>2, <2>3, InsertKeeps
  <2> QED
    BY <1>3, <2>4, SameHolds
<1> QED
  BY <1>5, <1>6, <1>7, <1>8, <1>9 DEF Inv

LEMMA USART_UDRE_OffInv == ASSUME Inv, USART_UDRE_Off PROVE Inv'
<1>1. TypeOK'
  BY DEF Inv, TypeOK, USART_UDRE_Off, rxVars
<1>2. TxDrift' /\ RxDrift'
  BY DEF Inv, TxDrift, RxDrift, USART_UDRE_Off, rxVars
<1>3. TxHolds' /\ RxHolds'
  BY QuietStep DEF USART_UDRE_Off, rxVars
<1> QED
  BY <1>1, <1>2, <1>3 DEF Inv

LEMMA USART_UDRE_SendInv == ASSUME Inv, USART_UDRE_Send PROVE Inv'
<1>0. /\ BUFFER_SIZE \in Nat \ {0} /\ tx \in RingType /\ tx.Count \in 0..BUFFER_SIZE
      /\ written \in Seq(Bytes) /\ sent \in Seq(Bytes) /\ loaded \in 0..BUFFER_SIZE
      /\ Len(written) \in Nat /\ Len(sent) \in Nat /\ txLost \in Nat
  BY Typed
<1>1. /\ sent' = Append(sent, Oldest(tx)) /\ tx' = [Removed(tx) EXCEPT !.Count = @ - 1]
      /\ tx.Count >= 1
      /\ UNCHANGED <<pc, UDRIE, written, txLost, rx, received, taken, rxLost, loaded>>
  BY <1>0 DEF USART_UDRE_Send, IsEmpty, rxVars
<1>2. /\ Removed(tx) \in RingType /\ Removed(tx).Count = tx.Count
      /\ Oldest(tx) \in Bytes /\ tx.Count - 1 \in 0..BUFFER_SIZE
  BY <1>0, <1>1, RemovedRing
<1>3. /\ tx' \in RingType /\ tx'.Count = tx.Count - 1
      /\ tx'.Buffer = Removed(tx).Buffer
      /\ tx'.In = Removed(tx).In /\ tx'.Out = Removed(tx).Out
  <2>1. tx' = [Removed(tx) EXCEPT !.Count = tx.Count - 1]
    BY <1>1, <1>2
  <2> QED
    BY <1>2, <2>1, CountRing
<1>4. sent' \in Seq(Bytes) /\ Len(sent') = Len(sent) + 1
  BY <1>0, <1>1, <1>2
<1>5. TypeOK'
  BY <1>1, <1>3, <1>4 DEF Inv, TypeOK
<1>6. TxDrift'
  <2>1. written' = written /\ txLost' = txLost /\ pc' = pc /\ loaded' = loaded
    BY <1>1
  <2>2. TxDrift
    BY DEF Inv
  <2>3. tx'.Count = tx.Count - 1 /\ Len(sent') = Len(sent) + 1
    BY <1>3, <1>4
  <2> QED
    BY <1>0, <2>1, <2>2, <2>3 DEF TxDrift
<1>7. RxDrift'
  BY <1>1 DEF Inv, RxDrift
<1>8. TxHolds'
  <2>1. SUFFICES ASSUME txLost = 0 PROVE Holds(tx', written, sent')
    BY <1>1 DEF TxHolds, Holds, Balance
  <2>2. Holds(tx, written, sent)
    BY <2>1 DEF Inv, TxHolds
  <2>3. Balance(written, sent) > 0
    BY <1>0, <1>1, <2>1 DEF Inv, TxDrift, Balance
  <2>4. Holds(Removed(tx), written, sent')
    BY <1>0, <1>1, <2>2, <2>3, RemoveKeeps
  <2> QED
    BY <1>3, <2>4, SameHolds
<1>9. RxHolds'
  BY <1>1 DEF Inv, RxHolds, Holds, Balance
<1> QED
  BY <1>5, <1>6, <1>7, <1>8, <1>9 DEF Inv

----------------------------------------------------------------------------
(* The theorems. *)

LEMMA InitInv == ASSUME Init PROVE Inv
<1>1. BUFFER_SIZE \in Nat \ {0}
  BY SizeAssumption
<1> PICK b \in Bytes : tx = Empty(b) /\ rx = Empty(b)
  BY DEF Init
<1>2. Empty(b) \in RingType /\ Empty(b).Count = 0 /\ Empty(b).In = 0 /\ Empty(b).Out = 0
  BY <1>1 DEF Empty, RingType, Slots
<1>3. TypeOK
  <2>1. tx \in RingType /\ rx \in RingType
    BY <1>2
  <2>2. <<>> \in Seq(Bytes) /\ loaded \in 0..BUFFER_SIZE
    BY <1>1 DEF Init
  <2> QED
    BY <2>1, <2>2 DEF Init, TypeOK
<1>4. TxDrift /\ RxDrift
  BY <1>1, <1>2 DEF Init, TxDrift, RxDrift
<1>5. TxHolds /\ RxHolds
  BY <1>1, <1>2 DEF Init, TxHolds, RxHolds, Holds, Balance, Wrap
<1> QED
  BY <1>3, <1>4, <1>5 DEF Inv

\* One step of either side keeps the invariant.
LEMMA StepInv == ASSUME Inv, [Next]_vars PROVE Inv'
<1>1. CASE Write
  BY <1>1, WriteInv
<1>2. CASE Insert
  BY <1>2, InsertInv
<1>3. CASE LoadForInsert
  BY <1>3, LoadForInsertInv
<1>4. CASE StoreForInsert
  BY <1>4, StoreForInsertInv
<1>5. CASE Enable
  BY <1>5, EnableInv
<1>6. CASE Available
  BY <1>6, AvailableInv
<1>7. CASE Remove
  BY <1>7, RemoveInv
<1>8. CASE LoadForRemove
  BY <1>8, LoadForRemoveInv
<1>9. CASE StoreForRemove
  BY <1>9, StoreForRemoveInv
<1>10. CASE USART_RX
  BY <1>10, USART_RXInv
<1>11. CASE USART_UDRE_Off
  BY <1>11, USART_UDRE_OffInv
<1>12. CASE USART_UDRE_Send
  BY <1>12, USART_UDRE_SendInv
<1>13. CASE UNCHANGED vars
  BY <1>13 DEF vars, txVars, rxVars, Inv, TypeOK, TxDrift, RxDrift,
               TxHolds, RxHolds, Holds, Balance
<1> QED
  BY <1>1, <1>2, <1>3, <1>4, <1>5, <1>6, <1>7, <1>8, <1>9, <1>10, <1>11, <1>12, <1>13
  DEF Next, serial_write, serial_read, USART_UDRE

\* The counts, the lost changes and the bytes under way are tied together in every
\* state (LightweightRingBuff.h:132-172, serial.c:34-98).
THEOREM Invariant == Spec => []Inv
<1>1. Init => Inv
  BY InitInv
<1>2. Inv /\ [Next]_vars => Inv'
  BY StepInv
<1> QED
  BY <1>1, <1>2, PTL DEF Spec

\* The counts and pointers stay in range for every size of the buffers.
THEOREM TypeCorrect == Spec => []TypeOK
<1>1. Inv => TypeOK
  BY DEF Inv
<1> QED
  BY <1>1, Invariant, PTL

\* A step of the program is a step of the queue of the transmitter, or none.
LEMMA TxStep ==
    ASSUME Inv, Inv', [Next]_vars
    PROVE  [TxQueue!Next]_(TxQueue!vars)
<1>0. /\ BUFFER_SIZE \in Nat \ {0} /\ tx \in RingType /\ tx.Count \in 0..BUFFER_SIZE
      /\ written \in Seq(Bytes) /\ sent \in Seq(Bytes) /\ txLost \in Nat
      /\ Len(written) \in Nat /\ Len(sent) \in Nat
  BY Typed
<1>1. CASE txLost' > 0
  BY <1>1 DEF TxQueue!Next
<1>2. CASE ~(txLost' > 0)
  <2>1. txLost' = 0
    BY <1>2 DEF Inv, TypeOK
  <2>2. CASE Insert
    <3>1. /\ tx.Count < BUFFER_SIZE /\ pc = "write"
          /\ \E b \in Bytes : written' = Append(written, b)
          /\ sent' = sent /\ txLost' = txLost
      BY <1>0, <2>2 DEF Insert, IsFull
    <3>2. Len(written) - Len(sent) < BUFFER_SIZE
      <4>1. Len(sent) + tx.Count = Len(written) + txLost
        BY <3>1 DEF Inv, TxDrift
      <4> QED
        BY <1>0, <2>1, <3>1, <4>1
    <3>3. Len(written') = Len(written) + 1 /\ SubSeq(written', 1, Len(written)) = written
      BY <1>0, <3>1
    <3> QED
      BY <1>2, <3>1, <3>2, <3>3 DEF TxQueue!Next, TxQueue!Put
  <2>3. CASE USART_UDRE_Send
    <3>1. /\ tx.Count >= 1 /\ sent' = Append(sent, Oldest(tx))
          /\ written' = written /\ txLost' = txLost
      BY <1>0, <2>3 DEF USART_UDRE_Send, IsEmpty
    <3>2. Balance(written, sent) > 0
      <4>1. \/ Len(sent) + tx.Count = Len(written) + txLost
            \/ Len(sent) + tx.Count + 1 = Len(written) + txLost
        BY DEF Inv, TxDrift
      <4> QED
        BY <1>0, <2>1, <3>1, <4>1 DEF Balance
    <3>3. Holds(tx, written, sent)
      BY <2>1, <3>1 DEF Inv, TxHolds
    <3>4. Oldest(tx) = written[Len(sent) + 1]
      BY <1>0, <3>2, <3>3, RemoveKeeps
    <3>5. Len(sent) < Len(written)
      BY <1>0, <3>2 DEF Balance
    <3> QED
      BY <1>2, <3>1, <3>4, <3>5 DEF TxQueue!Next, TxQueue!Get
  <2>4. CASE StoreForInsert
    <3>1. /\ written' = written /\ sent' = sent /\ loaded >= tx.Count
          /\ loaded \in 0..BUFFER_SIZE /\ txLost' = txLost + (loaded - tx.Count)
      BY <2>4 DEF StoreForInsert, Inv, TypeOK, TxDrift
    <3>2. txLost = 0
      BY <1>0, <2>1, <3>1
    <3> QED
      BY <1>2, <2>1, <3>1, <3>2 DEF TxQueue!vars
  <2>5. CASE \/ Write \/ LoadForInsert \/ Enable \/ Available \/ Remove \/ LoadForRemove
             \/ StoreForRemove \/ USART_RX \/ USART_UDRE_Off \/ UNCHANGED vars
    <3>1. written' = written /\ sent' = sent /\ txLost' = txLost
      BY <2>5 DEF Write, LoadForInsert, Enable, Available, Remove, LoadForRemove,
                  StoreForRemove, USART_RX, USART_UDRE_Off, vars, txVars
    <3> QED
      BY <3>1 DEF TxQueue!vars
  <2> QED
    BY <2>2, <2>3, <2>4, <2>5 DEF Next, serial_write, serial_read, USART_UDRE
<1> QED
  BY <1>1, <1>2

\* The ring of the transmitter is a queue of BUFFER_SIZE bytes until a change of its
\* count is lost (LightweightRingBuff.h:36-41).
THEOREM TxImplementsQueue == Spec => TxQueueSpec
<1>1. Init => TxQueue!Init
  BY DEF Init, TxQueue!Init
<1>2. Inv /\ Inv' /\ [Next]_vars => [TxQueue!Next]_(TxQueue!vars)
  BY TxStep
<1> QED
  BY <1>1, <1>2, Invariant, PTL DEF Spec, TxQueueSpec, TxQueue!Spec

\* A step of the program is a step of the queue of the receiver, or none.
LEMMA RxStep ==
    ASSUME Inv, Inv', [Next]_vars
    PROVE  [RxQueue!Next]_(RxQueue!vars)
<1>0. /\ BUFFER_SIZE \in Nat \ {0} /\ rx \in RingType /\ rx.Count \in 0..BUFFER_SIZE
      /\ received \in Seq(Bytes) /\ taken \in Seq(Bytes) /\ rxLost \in Nat
      /\ Len(received) \in Nat /\ Len(taken) \in Nat
  BY Typed
<1>1. CASE rxLost' > 0
  BY <1>1 DEF RxQueue!Next
<1>2. CASE ~(rxLost' > 0)
  <2>1. rxLost' = 0
    BY <1>2 DEF Inv, TypeOK
  <2>2. CASE USART_RX
    <3>1. /\ rx.Count < BUFFER_SIZE
          /\ \E b \in Bytes : received' = Append(received, b)
          /\ taken' = taken /\ rxLost' = rxLost
      BY <1>0, <2>2 DEF USART_RX, IsFull
    <3>2. Len(received) - Len(taken) < BUFFER_SIZE
      <4>1. \/ Len(taken) + rx.Count + rxLost = Len(received)
            \/ Len(taken) + rx.Count + rxLost = Len(received) + 1
        BY DEF Inv, RxDrift
      <4> QED
        BY <1>0, <2>1, <3>1, <4>1
    <3>3. Len(received') = Len(received) + 1 /\ SubSeq(received', 1, Len(received)) = received
      BY <1>0, <3>1
    <3> QED
      BY <1>2, <3>1, <3>2, <3>3 DEF RxQueue!Next, RxQueue!Put
  <2>3. CASE Remove
    <3>1. /\ pc = "read" /\ taken' = Append(taken, Oldest(rx))
          /\ received' = received /\ rxLost' = rxLost
      BY <2>3 DEF Remove
    <3>2. Balance(received, taken) > 0
      <4>1. Len(taken) + rx.Count + rxLost = Len(received) /\ rx.Count >= 1
        BY <3>1 DEF Inv, RxDrift
      <4> QED
        BY <1>0, <2>1, <3>1, <4>1 DEF Balance
    <3>3. Holds(rx, received, taken)
      BY <2>1, <3>1 DEF Inv, RxHolds
    <3>4. Oldest(rx) = received[Len(taken) + 1]
      BY <1>0, <3>2, <3>3, RemoveKeeps
    <3>5. Len(taken) < Len(received)
      BY <1>0, <3>2 DEF Balance
    <3> QED
      BY <1>2, <3>1, <3>4, <3>5 DEF RxQueue!Next, RxQueue!Get
  <2>4. CASE StoreForRemove
    <3>1. /\ received' = received /\ taken' = taken /\ loaded <= rx.Count
          /\ loaded \in 0..BUFFER_SIZE /\ rxLost' = rxLost + (rx.Count - loaded)
      BY <2>4 DEF StoreForRemove, Inv, TypeOK, RxDrift
    <3>2. rxLost = 0
      BY <1>0, <2>1, <3>1
    <3> QED
      BY <1>2, <2>1, <3>1, <3>2 DEF RxQueue!vars
  <2>5. CASE \/ Write \/ Insert \/ LoadForInsert \/ StoreForInsert \/ Enable \/ Available
             \/ LoadForRemove \/ USART_UDRE \/ UNCHANGED vars
    <3>1. received' = received /\ taken' = taken /\ rxLost' = rxLost
      BY <2>5 DEF Write, Insert, LoadForInsert, StoreForInsert, Enable, Available,
                  LoadForRemove, USART_UDRE, USART_UDRE_Off, USART_UDRE_Send, vars, rxVars
    <3> QED
      BY <3>1 DEF RxQueue!vars
  <2> QED
    BY <2>2, <2>3, <2>4, <2>5 DEF Next, serial_write, serial_read
<1> QED
  BY <1>1, <1>2

\* The ring of the receiver is a queue of BUFFER_SIZE bytes until a change of its count
\* is lost (LightweightRingBuff.h:36-41).
THEOREM RxImplementsQueue == Spec => RxQueueSpec
<1>1. Init => RxQueue!Init
  BY DEF Init, RxQueue!Init
<1>2. Inv /\ Inv' /\ [Next]_vars => [RxQueue!Next]_(RxQueue!vars)
  BY RxStep
<1> QED
  BY <1>1, <1>2, Invariant, PTL DEF Spec, RxQueueSpec, RxQueue!Spec
=============================================================================
