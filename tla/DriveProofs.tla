---------------------------- MODULE DriveProofs ----------------------------
(***************************************************************************)
(* Theorems about Drive, for every disk image in which the links lead to   *)
(* blocks, every size of the buffer and every sequence of sessions: the    *)
(* variables keep their types, and what the driver takes from the buffer   *)
(* that its objects share are the bytes of the image.                      *)
(***************************************************************************)
EXTENDS Drive, NumberLemmas, SequenceTheorems, TLAPS

(* The driver's state. *)

Status == {"IMAGE_OK", "DIR_OPEN", "DIR_EOF", "FILE_OPEN", "FILE_EOF"}
Object ==
    [image : DOMAIN Images \cup {""}, fpos : Nat, m_readBufStart : Nat, m_readBufSize : 0..BufSize,
     m_readOffset : 0..BufSize, m_status : SUBSET Status, m_currentOffset : 0..BlockSize - 1,
     m_currentLinkTrack : Nat, m_currentLinkSector : Nat]
Buffer == [0..BufSize - 1 -> Nat]
State == [d : Object, buf : Buffer]

\* The position in the image from which an object will read next.
Pos(s) == s.d.m_readBufStart + s.d.m_readOffset

\* What it believes of the buffer and the file is so.
Coherent(s) ==
    /\ s \in State /\ s.d.image \in DOMAIN Images
    /\ s.d.m_readOffset <= s.d.m_readBufSize
    /\ s.d.fpos = s.d.m_readBufStart + s.d.m_readBufSize
    /\ s.d.fpos <= ImageSize(s.d.image)
    /\ \A i \in 0..s.d.m_readBufSize - 1 : s.buf[i] = ByteAt(s.d.image, s.d.m_readBufStart + i)

\* The blocks of the directory and of the files.
DirBlocks(img) ==
    CHOOSE dir \in SUBSET Blocks(img) :
        /\ IsDirectory(img, dir)
        /\ \E files \in SUBSET Blocks(img) : HasFiles(img, dir, files)
FileBlocks(img) ==
    CHOOSE files \in SUBSET Blocks(img) : HasFiles(img, DirBlocks(img), files)

\* It is in block b, has kept its link and is at m_currentOffset.
InBlock(s, b) ==
    /\ <<s.d.m_currentLinkTrack, s.d.m_currentLinkSector>> = Link(s.d.image, b)
    /\ Pos(s) = Position(b) + s.d.m_currentOffset

\* It is before an entry of the directory, or before a byte of a file.
AtEntry(s) ==
    \E b \in DirBlocks(s.d.image), e \in 0..BlockSize \div EntrySize - 1 :
        InBlock(s, b) /\ s.d.m_currentOffset = 2 + EntrySize * e
AtFile(s) ==
    \E b \in FileBlocks(s.d.image) : InBlock(s, b) /\ s.d.m_currentOffset >= 2

\* The next seek to the BAM is not answered from the buffer.
BamSeekFresh(d) ==
    \/ d.m_readBufStart = 0 /\ d.m_readBufSize = 0
    \/ \A img \in DOMAIN Images : img = d.image => d.m_readBufStart > Position(<<DirTrack, 0>>)

----------------------------------------------------------------------------
(* The inductive invariant. *)

ParserTypes ==
    /\ pc \in {"listen", "title", "entries", "find", "send"}
    /\ status \in {"none", "secondary", "filename"}
    /\ inSync \in BOOLEAN /\ askedToTalk \in BOOLEAN
NameTypes ==
    /\ secondaryAddress = 0 /\ currentChannel \in 0..1
    /\ fileNames \in [0..1 -> Seq(0..255)]
    /\ todo \in Seq(Message) /\ currentLine \in Nat

Bounded(d) == d \in Object /\ d.m_readOffset <= d.m_readBufSize
DiskTypes == Bounded(curDisk) /\ Bounded(thd) /\ readBuf \in Buffer

\* The selected image, between and during the listings.
ListInv ==
    /\ "IMAGE_OK" \in curDisk.m_status => curDisk.image \in DOMAIN Images
    /\ BamSeekFresh(curDisk)
    /\ pc = "entries" =>
          /\ Coherent(curState) /\ "IMAGE_OK" \in curDisk.m_status
          /\ MoreDir(curDisk) => AtEntry(curState)

\* The image of a file that is looked for or read.
Without(d) == d.m_readBufSize = 0 /\ d.m_status = {}
FindInv == pc = "find" =>
    \/ Without(thd)
    \/ Coherent(thdState) /\ (MoreDir(thd) => AtEntry(thdState)) /\ "FILE_OPEN" \notin thd.m_status
SendInv == pc = "send" =>
    \/ Without(thd)
    \/ Coherent(thdState) /\ (~IsEOF(thd) => AtFile(thdState))

Inv == ParserTypes /\ NameTypes /\ DiskTypes /\ ListInv /\ FindInv /\ SendInv

----------------------------------------------------------------------------
(* Reading from the image. *)

\* The calls of hostReadByte() one after the other: such a function exists.
Reads(s, n, f) ==
    f = [k \in 0..n |-> IF k = 0 THEN [s |-> s, bytes |-> <<>>] ELSE ReadAnother(f[k - 1])]

LEMMA ReadsExist ==
    ASSUME NEW s
    PROVE  \A n \in Nat : \E f : Reads(s, n, f)
<1> DEFINE first == [s |-> s, bytes |-> <<>>]
           S == {n \in Nat : \E f : Reads(s, n, f)}
<1>1. 0 \in S
  <2> DEFINE f == [k \in 0..0 |-> first]
  <2>1. f = [k \in 0..0 |-> IF k = 0 THEN first ELSE ReadAnother(f[k - 1])]
    OBVIOUS
  <2> HIDE DEF f
  <2> QED
    BY <2>1 DEF Reads
<1>2. ASSUME NEW n \in Nat, n \in S
      PROVE  n + 1 \in S
  <2>1. PICK f : Reads(s, n, f)
    BY <1>2
  <2> DEFINE g == [k \in 0..n + 1 |-> IF k = n + 1 THEN ReadAnother(f[n]) ELSE f[k]]
  <2>2. \A k \in 0..n : g[k] = f[k]
    OBVIOUS
  <2>3. ASSUME NEW k \in 0..n + 1
        PROVE  g[k] = IF k = 0 THEN first ELSE ReadAnother(g[k - 1])
    <3>1. CASE k = n + 1
      <4>1. g[k] = ReadAnother(f[n])
        BY <3>1
      <4>2. k # 0 /\ k - 1 = n /\ k - 1 \in 0..n
        BY <3>1
      <4> HIDE DEF g
      <4> QED
        BY <4>1, <4>2, <2>2
    <3>2. CASE k \in 0..n
      <4>1. g[k] = f[k]
        BY <2>2, <3>2
      <4>2. f[k] = IF k = 0 THEN first ELSE ReadAnother(f[k - 1])
        BY <2>1, <3>2 DEF Reads
      <4>3. k # 0 => k - 1 \in 0..n
        BY <3>2
      <4> HIDE DEF g
      <4> QED
        BY <4>1, <4>2, <4>3, <2>2
    <3> QED
      BY <3>1, <3>2
  <2>4. g = [k \in 0..n + 1 |-> IF k = 0 THEN first ELSE ReadAnother(g[k - 1])]
    <3>1. g = [k \in 0..n + 1 |-> g[k]]
      OBVIOUS
    <3> HIDE DEF g
    <3> QED
      BY <2>3, <3>1
  <2> HIDE DEF g
  <2> QED
    BY <2>4 DEF Reads
<1> HIDE DEF S
<1>3. Nat \subseteq S
  BY <1>1, <1>2, Induction
<1> QED
  BY <1>3 DEF S

\* What holds of nothing read, and with some bytes of one more, holds of n bytes.
LEMMA HostReadBytesIs ==
    ASSUME NEW s, NEW n \in Nat
    PROVE  \E f : HostReadBytes(s, n) = f[n] /\ Reads(s, n, f)
<1> DEFINE f == CHOOSE f : Reads(s, n, f)
<1>1. Reads(s, n, f)
  BY ReadsExist
<1>2. HostReadBytes(s, n) = f[n]
  BY DEF HostReadBytes, Reads
<1> HIDE DEF f
<1> QED
  BY <1>1, <1>2

\* What reading leaves alone; the buffer only moves forward.
Moved(s, t) ==
    /\ t.d.image = s.d.image /\ t.d.m_status = s.d.m_status
    /\ t.d.m_currentOffset = s.d.m_currentOffset
    /\ t.d.m_currentLinkTrack = s.d.m_currentLinkTrack
    /\ t.d.m_currentLinkSector = s.d.m_currentLinkSector
    /\ t.d.m_readBufStart >= s.d.m_readBufStart

LEMMA SizeFacts ==
    /\ BlockSize \in Nat \ {0} /\ BufSize \in Nat \ {0} /\ NameLen \in Nat \ {0}
    /\ RestLen \in Nat \ {0, 1} /\ TitleRest \in Nat \ {0} /\ EntrySize \in Nat
    /\ BlockSize % EntrySize = 0 /\ EntrySize >= 8
BY GeometryAssumption, EntryAssumption DEF EntrySize

LEMMA ImageBytes ==
    ASSUME NEW img \in DOMAIN Images
    PROVE  /\ ImageSize(img) \in Nat /\ ToInt(ImageSize(img)) < 0
           /\ \A a \in 0..ImageSize(img) - 1 : ByteAt(img, a) \in Nat
<1>1. Images[img] \in Seq(Nat) /\ ToInt(ImageSize(img)) < 0
  BY ImageAssumption
<1>2. Len(Images[img]) \in Nat
  BY <1>1
<1>3. ASSUME NEW a \in 0..Len(Images[img]) - 1
      PROVE  Images[img][a + 1] \in Nat
  <2>1. a + 1 \in 1..Len(Images[img])
    BY <1>2
  <2> QED
    BY <1>1, <2>1, ElementOfSeq
<1> QED
  BY <1>1, <1>2, <1>3 DEF ImageSize, ByteAt

LEMMA StateTypes ==
    ASSUME NEW s \in State
    PROVE  /\ s.d \in Object /\ s.buf \in Buffer
           /\ s.d.fpos \in Nat /\ s.d.m_readBufStart \in Nat
           /\ s.d.m_readBufSize \in 0..BufSize /\ s.d.m_readOffset \in 0..BufSize
           /\ s.d.m_currentOffset \in 0..BlockSize - 1 /\ s.d.m_status \in SUBSET Status
           /\ s.d.m_currentLinkTrack \in Nat /\ s.d.m_currentLinkSector \in Nat
BY DEF State, Object

\* An object after a change of its cache.
SameBlock(d, e) ==
    /\ e.image = d.image /\ e.m_status = d.m_status /\ e.m_currentOffset = d.m_currentOffset
    /\ e.m_currentLinkTrack = d.m_currentLinkTrack
    /\ e.m_currentLinkSector = d.m_currentLinkSector

\* hostReadBuffer() at the end of what the buffer holds.
LEMMA ReadBufferCoherent ==
    ASSUME NEW s, Coherent(s), s.d.m_readOffset = s.d.m_readBufSize,
           Pos(s) < ImageSize(s.d.image), NEW t,
           t = HostReadBuffer(s, s.d.m_readOffset + s.d.m_readBufStart)
    PROVE  /\ Coherent(t) /\ Pos(t) = Pos(s) /\ Moved(s, t)
           /\ t.d.m_readOffset < t.d.m_readBufSize
<1> DEFINE img == s.d.image
           n == Lesser(BufSize, ImageSize(img) - s.d.fpos)
           buf == [i \in 0..BufSize - 1 |->
                      IF i < n THEN ByteAt(img, s.d.fpos + i) ELSE s.buf[i]]
           d == [s.d EXCEPT !.m_readBufStart = s.d.m_readOffset + s.d.m_readBufStart,
                            !.m_readBufSize = n, !.m_readOffset = 0, !.fpos = s.d.fpos + n]
<1>1. t = [d |-> d, buf |-> buf]
  BY DEF HostReadBuffer
<1>2. s \in State /\ img \in DOMAIN Images /\ s.d.fpos = s.d.m_readBufStart + s.d.m_readBufSize
  BY DEF Coherent
<1>3. /\ s.d \in Object /\ s.buf \in Buffer /\ s.d.fpos \in Nat /\ s.d.m_readBufStart \in Nat
      /\ s.d.m_readBufSize \in 0..BufSize
  BY <1>2, StateTypes
<1>4. ImageSize(img) \in Nat /\ \A a \in 0..ImageSize(img) - 1 : ByteAt(img, a) \in Nat
  BY <1>2, ImageBytes
<1>5. Pos(s) = s.d.fpos /\ s.d.m_readOffset + s.d.m_readBufStart = s.d.fpos
  BY <1>2, <1>3, SizeFacts DEF Pos
<1>6. n \in 1..BufSize /\ s.d.fpos + n <= ImageSize(img)
  BY <1>3, <1>4, <1>5, SizeFacts DEF Lesser
<1> HIDE DEF n
<1>7. buf \in Buffer /\ \A i \in 0..n - 1 : buf[i] = ByteAt(img, s.d.fpos + i)
  <2>1. ASSUME NEW i \in 0..BufSize - 1
        PROVE  (IF i < n THEN ByteAt(img, s.d.fpos + i) ELSE s.buf[i]) \in Nat
    <3>1. s.buf[i] \in Nat
      BY <1>3 DEF Buffer
    <3>2. i < n => s.d.fpos + i \in 0..ImageSize(img) - 1
      BY <1>3, <1>4, <1>6, SizeFacts
    <3> QED
      BY <3>1, <3>2, <1>4
  <2>2. \A i \in 0..n - 1 : i \in 0..BufSize - 1 /\ i < n
    BY <1>6, SizeFacts
  <2> QED
    BY <2>1, <2>2 DEF Buffer
<1>8. s.d.fpos + n \in Nat /\ 0 \in 0..BufSize /\ n \in 0..BufSize
  BY <1>3, <1>6, SizeFacts
<1>9. /\ d \in Object /\ SameBlock(s.d, d) /\ d.m_readBufStart = s.d.fpos /\ d.m_readBufSize = n
      /\ d.m_readOffset = 0 /\ d.fpos = s.d.fpos + n
  <2>1. d = [s.d EXCEPT !.m_readBufStart = s.d.fpos, !.m_readBufSize = n, !.m_readOffset = 0,
                        !.fpos = s.d.fpos + n]
    BY <1>5
  <2> HIDE DEF d
  <2> QED
    BY ONLY <2>1, <1>3, <1>8 DEF Object, SameBlock
<1> HIDE DEF d, buf
<1>10. t.d = d /\ t.buf = buf /\ t \in State
  BY <1>1, <1>7, <1>9 DEF State
<1>11. t.d.image = img
  BY <1>9, <1>10 DEF SameBlock
<1>12. Coherent(t)
  BY <1>2, <1>3, <1>6, <1>7, <1>9, <1>10, <1>11, SizeFacts DEF Coherent
<1>13. Pos(t) = Pos(s) /\ t.d.m_readOffset < t.d.m_readBufSize
  BY <1>3, <1>5, <1>6, <1>9, <1>10 DEF Pos
<1>14. Moved(s, t)
  BY <1>2, <1>3, <1>9, <1>10, SizeFacts DEF Moved, SameBlock
<1> QED
  BY <1>12, <1>13, <1>14

\* A byte that is in the buffer.
LEMMA TakeByteCoherent ==
    ASSUME NEW s, Coherent(s), s.d.m_readOffset < s.d.m_readBufSize, NEW r, r = TakeByte(s)
    PROVE  /\ Coherent(r.s) /\ Pos(r.s) = Pos(s) + 1 /\ Moved(s, r.s)
           /\ r.c = ByteAt(s.d.image, Pos(s))
<1>1. s \in State /\ s.d.image \in DOMAIN Images
  BY DEF Coherent
<1>2. /\ s.d.m_readBufStart \in Nat /\ s.d.m_readBufSize \in 0..BufSize
      /\ s.d.m_readOffset \in 0..BufSize
  BY <1>1, StateTypes
<1>3. s.d.m_readOffset # ToInt(ImageSize(s.d.image)) /\ s.d.m_readOffset + 1 \in 0..BufSize
  BY <1>1, <1>2, ImageBytes, SizeFacts
<1> DEFINE t == [s EXCEPT !.d.m_readOffset = s.d.m_readOffset + 1]
<1>4. r = [s |-> t, c |-> s.buf[s.d.m_readOffset]]
  BY <1>3 DEF TakeByte
<1>5. /\ t \in State /\ t.buf = s.buf /\ SameBlock(s.d, t.d)
      /\ t.d.m_readOffset = s.d.m_readOffset + 1
      /\ t.d.m_readBufStart = s.d.m_readBufStart /\ t.d.m_readBufSize = s.d.m_readBufSize
      /\ t.d.fpos = s.d.fpos
  <2>1. t = [s EXCEPT !.d.m_readOffset = s.d.m_readOffset + 1]
    OBVIOUS
  <2> HIDE DEF t
  <2> QED
    BY ONLY <2>1, <1>1, <1>3 DEF State, Object, SameBlock
<1> HIDE DEF t
<1>6. Coherent(t)
  BY <1>1, <1>2, <1>5, SizeFacts DEF Coherent, SameBlock
<1>7. Pos(t) = Pos(s) + 1
  BY <1>2, <1>5, SizeFacts DEF Pos
<1>8. Moved(s, t)
  BY <1>2, <1>5 DEF Moved, SameBlock
<1>9. s.buf[s.d.m_readOffset] = ByteAt(s.d.image, Pos(s))
  BY <1>2, SizeFacts DEF Coherent, Pos
<1> QED
  BY <1>4, <1>6, <1>7, <1>8, <1>9

\* hostReadByte() returns the byte of the image at the position.
LEMMA ReadByteCoherent ==
    ASSUME NEW s, Coherent(s), Pos(s) < ImageSize(s.d.image), NEW r, r = HostReadByte(s)
    PROVE  /\ Coherent(r.s) /\ Pos(r.s) = Pos(s) + 1 /\ Moved(s, r.s)
           /\ r.c = ByteAt(s.d.image, Pos(s))
<1>1. CASE s.d.m_readOffset = s.d.m_readBufSize
  <2>1. PICK u : u = HostReadBuffer(s, s.d.m_readOffset + s.d.m_readBufStart)
    OBVIOUS
  <2>2. Coherent(u) /\ Pos(u) = Pos(s) /\ Moved(s, u) /\ u.d.m_readOffset < u.d.m_readBufSize
    BY <1>1, <2>1, ReadBufferCoherent
  <2>3. r = TakeByte(u)
    BY <1>1, <2>1 DEF HostReadByte
  <2>4. /\ Coherent(r.s) /\ Pos(r.s) = Pos(u) + 1 /\ Moved(u, r.s)
        /\ r.c = ByteAt(u.d.image, Pos(u))
    BY <2>2, <2>3, TakeByteCoherent
  <2>5. /\ s.d.m_readBufStart \in Nat /\ u.d.m_readBufStart \in Nat
        /\ r.s.d.m_readBufStart \in Nat
    BY <2>2, <2>4, StateTypes DEF Coherent
  <2> QED
    BY <2>2, <2>4, <2>5 DEF Moved
<1>2. CASE s.d.m_readOffset # s.d.m_readBufSize
  <2>1. s.d.m_readOffset < s.d.m_readBufSize
    BY <1>2, StateTypes, SizeFacts DEF Coherent
  <2>2. r = TakeByte(s)
    BY <1>2 DEF HostReadByte
  <2> QED
    BY <2>1, <2>2, TakeByteCoherent
<1> QED
  BY <1>1, <1>2

\* r is the state after n bytes, and these bytes.
ReadFrom(s, n, r) ==
    /\ Coherent(r.s) /\ Pos(r.s) = Pos(s) + n /\ Moved(s, r.s)
    /\ r.bytes \in Seq(Nat) /\ Len(r.bytes) = n
    /\ \A i \in 1..n : r.bytes[i] = ByteAt(s.d.image, Pos(s) + i - 1)

\* n calls of hostReadByte() within the image return the next n bytes.
LEMMA ReadBytesCoherent ==
    ASSUME NEW s, Coherent(s), NEW n \in Nat, Pos(s) + n <= ImageSize(s.d.image)
    PROVE  ReadFrom(s, n, HostReadBytes(s, n))
<1> DEFINE img == s.d.image
           P(q, k) == /\ Coherent(q.s) /\ Pos(q.s) = Pos(s) + k /\ Moved(s, q.s)
                      /\ q.bytes \in Seq(Nat) /\ Len(q.bytes) = k
                      /\ \A i \in 1..k : q.bytes[i] = ByteAt(img, Pos(s) + i - 1)
<1>1. PICK f : HostReadBytes(s, n) = f[n] /\ Reads(s, n, f)
  BY HostReadBytesIs
<1>2. s \in State /\ img \in DOMAIN Images
  BY DEF Coherent
<1>3. ImageSize(img) \in Nat /\ \A a \in 0..ImageSize(img) - 1 : ByteAt(img, a) \in Nat
  BY <1>2, ImageBytes
<1>4. Pos(s) \in Nat /\ s.d.m_readBufStart \in Nat
  BY <1>2, StateTypes, SizeFacts DEF Pos
<1> DEFINE S == {k \in Nat : k <= n => P(f[k], k)}
<1>5. 0 \in S
  <2>1. f[0] = [s |-> s, bytes |-> <<>>]
    BY <1>1 DEF Reads
  <2>2. Moved(s, s)
    BY <1>4 DEF Moved
  <2>3. f[0].bytes \in Seq(Nat) /\ Len(f[0].bytes) = 0
    BY <2>1
  <2>4. f[0].s = s
    BY <2>1
  <2>5. Pos(f[0].s) = Pos(s) + 0
    BY <1>4, <2>4
  <2>6. \A i \in 1..0 : f[0].bytes[i] = ByteAt(img, Pos(s) + i - 1)
    OBVIOUS
  <2>7. Coherent(f[0].s) /\ Moved(s, f[0].s)
    BY <2>2, <2>4
  <2> QED
    BY <2>3, <2>5, <2>6, <2>7
<1>6. ASSUME NEW k \in Nat, k \in S
      PROVE  k + 1 \in S
  <2> SUFFICES ASSUME k + 1 <= n
               PROVE  P(f[k + 1], k + 1)
    OBVIOUS
  <2>1. P(f[k], k)
    BY <1>6
  <2>2. f[k + 1] = ReadAnother(f[k])
    <3>1. k + 1 \in 0..n /\ k + 1 # 0 /\ (k + 1) - 1 = k
      OBVIOUS
    <3> HIDE DEF P, S
    <3> QED
      BY <1>1, <3>1 DEF Reads
  <2> DEFINE u == f[k].s
             bytes == f[k].bytes
  <2>3. PICK q : q = HostReadByte(u)
    OBVIOUS
  <2>4. f[k + 1] = [s |-> q.s, bytes |-> Append(bytes, q.c)]
    BY <2>2, <2>3 DEF ReadAnother, Appended
  <2>5. /\ Coherent(u) /\ Pos(u) = Pos(s) + k /\ Moved(s, u) /\ bytes \in Seq(Nat) /\ Len(bytes) = k
        /\ \A i \in 1..k : bytes[i] = ByteAt(img, Pos(s) + i - 1)
    BY <2>1
  <2> HIDE DEF S, u, bytes
  <2>6. u.d.image = img
    BY <2>5 DEF Moved
  <2>7. Pos(u) < ImageSize(u.d.image) /\ Pos(u) \in 0..ImageSize(img) - 1
    BY <1>3, <1>4, <2>5, <2>6
  <2>8. Coherent(q.s) /\ Pos(q.s) = Pos(u) + 1 /\ Moved(u, q.s) /\ q.c = ByteAt(img, Pos(u))
    BY ONLY <2>3, <2>5, <2>6, <2>7, ReadByteCoherent
  <2>9. q.c \in Nat
    BY <1>3, <2>7, <2>8
  <2>10. /\ Append(bytes, q.c) \in Seq(Nat) /\ Len(Append(bytes, q.c)) = k + 1
         /\ \A i \in 1..k : Append(bytes, q.c)[i] = bytes[i]
         /\ Append(bytes, q.c)[k + 1] = q.c
    BY <2>5, <2>9
  <2>11. f[k + 1].s = q.s /\ f[k + 1].bytes = Append(bytes, q.c)
    BY <2>4
  <2>12. \A i \in 1..k + 1 : f[k + 1].bytes[i] = ByteAt(img, Pos(s) + i - 1)
    <3> SUFFICES ASSUME NEW i \in 1..k + 1
                 PROVE  f[k + 1].bytes[i] = ByteAt(img, Pos(s) + i - 1)
      OBVIOUS
    <3>1. CASE i \in 1..k
      BY <3>1, <2>5, <2>10, <2>11
    <3>2. CASE i = k + 1
      <4>1. Pos(s) + i - 1 = Pos(u)
        BY <3>2, <1>4, <2>5
      <4> QED
        BY <3>2, <4>1, <2>8, <2>10, <2>11
    <3> QED
      BY <3>1, <3>2
  <2>13. Moved(s, q.s)
    <3>1. u.d.m_readBufStart \in Nat /\ q.s.d.m_readBufStart \in Nat
      BY <2>5, <2>8, StateTypes DEF Coherent
    <3> QED
      BY <1>4, <2>5, <2>8, <3>1 DEF Moved
  <2>14. Pos(q.s) = Pos(s) + (k + 1)
    BY <1>4, <2>5, <2>8
  <2> QED
    BY <2>8, <2>10, <2>11, <2>12, <2>13, <2>14
<1> HIDE DEF S, P
<1>7. Nat \subseteq S
  BY <1>5, <1>6, Induction
<1>8. P(f[n], n)
  BY <1>7 DEF S
<1> QED
  BY <1>1, <1>8 DEF P, ReadFrom

----------------------------------------------------------------------------
(* Seeking. *)

LEMMA BlockFacts ==
    /\ BlockSize >= EntrySize
    /\ \A img \in DOMAIN Images : \A b \in Blocks(img) :
          Position(b) \in Nat /\ Position(b) + BlockSize <= ImageSize(img)
<1>1. BlockSize >= EntrySize
  <2>1. ASSUME NEW n \in Nat \ {0}, NEW m \in Nat \ {0}, n % m = 0
        PROVE  n >= m
    BY <2>1
  <2> QED
    BY <2>1, SizeFacts
<1>2. ASSUME NEW img \in DOMAIN Images, NEW b \in Blocks(img)
      PROVE  Position(b) \in Nat /\ Position(b) + BlockSize <= ImageSize(img)
  <2>1. ImageSize(img) \in Nat
    BY ImageBytes
  <2>2. Position(b) \in 0..ImageSize(img) - BlockSize
    BY DEF Blocks
  <2> QED
    BY <2>1, <2>2, SizeFacts
<1> QED
  BY <1>1, <1>2

\* What the buffer is believed to hold does not contain the position.
Fresh(d, pos) == pos < d.m_readBufStart \/ d.m_readBufStart + d.m_readBufSize < pos

\* A position outside of what the object believes to be in the buffer is always safe.
LEMMA SeekCoherent ==
    ASSUME NEW s \in State, s.d.image \in DOMAIN Images, NEW pos \in 0..ImageSize(s.d.image),
           Coherent(s) \/ Fresh(s.d, pos), NEW t, t = HostSeek(s, pos)
    PROVE  /\ Coherent(t) /\ Pos(t) = pos /\ SameBlock(s.d, t.d)
           /\ t.d.m_readBufStart \in {s.d.m_readBufStart, pos}
           /\ Fresh(s.d, pos) => t.d.m_readBufStart = pos
<1>1. /\ s.d \in Object /\ s.buf \in Buffer /\ s.d.m_readBufStart \in Nat
      /\ s.d.m_readBufSize \in 0..BufSize /\ s.d.m_readOffset \in 0..BufSize
  BY StateTypes
<1>2. ImageSize(s.d.image) \in Nat /\ pos \in Nat /\ 0 \in 0..BufSize
  BY ImageBytes, SizeFacts
<1>3. CASE Fresh(s.d, pos)
  <2>1. t = [s EXCEPT !.d.m_readBufStart = pos, !.d.m_readBufSize = 0, !.d.m_readOffset = 0,
                      !.d.fpos = pos]
    BY <1>2, <1>3 DEF HostSeek, FileSeek, Fresh
  <2>2. /\ t \in State /\ t.buf = s.buf /\ SameBlock(s.d, t.d)
        /\ t.d.m_readBufStart = pos /\ t.d.m_readBufSize = 0 /\ t.d.m_readOffset = 0
        /\ t.d.fpos = pos
    BY ONLY s \in State, <1>2, <2>1 DEF State, Object, SameBlock
  <2>3. Coherent(t)
    BY <1>2, <2>2 DEF Coherent, SameBlock
  <2> QED
    BY <1>2, <2>2, <2>3 DEF Pos
<1>4. CASE ~Fresh(s.d, pos)
  <2>1. /\ t = [s EXCEPT !.d.m_readOffset = pos - s.d.m_readBufStart]
        /\ pos - s.d.m_readBufStart \in 0..s.d.m_readBufSize
    BY <1>1, <1>2, <1>4, SizeFacts DEF HostSeek, Fresh
  <2>2. pos - s.d.m_readBufStart \in 0..BufSize
    BY <1>1, <2>1, SizeFacts
  <2>3. /\ t \in State /\ t.buf = s.buf /\ SameBlock(s.d, t.d)
        /\ t.d.m_readOffset = pos - s.d.m_readBufStart
        /\ t.d.m_readBufStart = s.d.m_readBufStart /\ t.d.m_readBufSize = s.d.m_readBufSize
        /\ t.d.fpos = s.d.fpos
    BY ONLY s \in State, <2>1, <2>2 DEF State, Object, SameBlock
  <2>4. Coherent(s)
    BY <1>4
  <2>5. Coherent(t)
    BY <1>1, <2>1, <2>3, <2>4, SizeFacts DEF Coherent, SameBlock
  <2>6. Pos(t) = pos
    BY <1>1, <1>2, <2>3 DEF Pos
  <2> QED
    BY <1>4, <2>3, <2>5, <2>6
<1> QED
  BY <1>3, <1>4

\* seekBlock() enters a block of the image.
LEMMA SeekBlockCoherent ==
    ASSUME NEW s \in State, s.d.image \in DOMAIN Images, NEW b \in Blocks(s.d.image),
           Coherent(s) \/ Fresh(s.d, Position(b)), NEW t, t = SeekBlock(s, b[1], b[2])
    PROVE  /\ Coherent(t) /\ InBlock(t, b) /\ t.d.m_currentOffset = 2
           /\ t.d.image = s.d.image /\ t.d.m_status = s.d.m_status
           /\ t.d.m_readBufStart >= s.d.m_readBufStart \/ t.d.m_readBufStart >= Position(b)
           /\ Fresh(s.d, Position(b)) => t.d.m_readBufStart >= Position(b)
<1> DEFINE img == s.d.image
           pos == Position(b)
<1>1. /\ pos \in Nat /\ pos + BlockSize <= ImageSize(img) /\ BlockSize >= 8
      /\ ImageSize(img) \in Nat /\ ToInt(ImageSize(img)) < 0
  BY BlockFacts, SizeFacts, ImageBytes
<1>2. t = AtBlock(HostReadBytes(HostSeek(s, pos), 2))
  BY <1>1 DEF SeekBlock, WithinHost, Position
<1>3. PICK u : u = HostSeek(s, pos)
  OBVIOUS
<1>4. pos \in 0..ImageSize(img)
  BY <1>1, SizeFacts
<1>5. /\ Coherent(u) /\ Pos(u) = pos /\ SameBlock(s.d, u.d)
      /\ u.d.m_readBufStart \in {s.d.m_readBufStart, pos}
      /\ Fresh(s.d, pos) => u.d.m_readBufStart = pos
  BY <1>3, <1>4, SeekCoherent
<1>6. PICK r : r = HostReadBytes(u, 2)
  OBVIOUS
<1>7. u.d.image = img /\ Pos(u) + 2 <= ImageSize(u.d.image)
  BY <1>1, <1>5, SizeFacts DEF SameBlock
<1>8. /\ Coherent(r.s) /\ Pos(r.s) = Pos(u) + 2 /\ Moved(u, r.s)
      /\ r.bytes \in Seq(Nat) /\ Len(r.bytes) = 2
      /\ \A i \in 1..2 : r.bytes[i] = ByteAt(img, Pos(u) + i - 1)
  <2>1. 2 \in Nat /\ Coherent(u) /\ Pos(u) + 2 <= ImageSize(u.d.image)
    BY <1>5, <1>7
  <2>2. ReadFrom(u, 2, r)
    BY ONLY <2>1, <1>6, ReadBytesCoherent
  <2> QED
    BY <2>2, <1>7 DEF ReadFrom
<1>9. r.bytes[1] = ByteAt(img, pos) /\ r.bytes[2] = ByteAt(img, pos + 1)
  <2>1. pos + 1 - 1 = pos /\ pos + 2 - 1 = pos + 1
    BY <1>1
  <2> QED
    BY <1>5, <1>8, <2>1
<1>10. r.bytes[1] \in Nat /\ r.bytes[2] \in Nat
  BY <1>8, ElementOfSeq
<1> HIDE DEF img, pos
<1>11. r.s \in State /\ 2 \in 0..BlockSize - 1
  BY <1>1, <1>8, SizeFacts DEF Coherent
<1> DEFINE v == [r.s EXCEPT !.d.m_currentLinkTrack = r.bytes[1],
                            !.d.m_currentLinkSector = r.bytes[2], !.d.m_currentOffset = 2]
<1>12. t = v
  BY <1>2, <1>3, <1>6 DEF AtBlock
<1>13. /\ t \in State /\ t.buf = r.s.buf /\ t.d.m_currentOffset = 2
       /\ t.d.m_currentLinkTrack = r.bytes[1] /\ t.d.m_currentLinkSector = r.bytes[2]
       /\ t.d.image = r.s.d.image /\ t.d.m_status = r.s.d.m_status /\ t.d.fpos = r.s.d.fpos
       /\ t.d.m_readBufStart = r.s.d.m_readBufStart /\ t.d.m_readBufSize = r.s.d.m_readBufSize
       /\ t.d.m_readOffset = r.s.d.m_readOffset
  BY ONLY <1>10, <1>11, <1>12 DEF State, Object
<1>14. Coherent(t)
  BY <1>8, <1>13 DEF Coherent
<1>15. t.d.image = s.d.image /\ t.d.m_status = s.d.m_status
  BY <1>5, <1>8, <1>13 DEF SameBlock, Moved
<1>16. InBlock(t, b)
  <2>1. <<t.d.m_currentLinkTrack, t.d.m_currentLinkSector>> = Link(t.d.image, b)
    BY <1>9, <1>13, <1>15 DEF Link, img, pos
  <2>2. Pos(t) = Position(b) + t.d.m_currentOffset
    BY <1>5, <1>8, <1>13 DEF Pos, pos
  <2> QED
    BY <2>1, <2>2 DEF InBlock
<1>17. /\ t.d.m_readBufStart >= s.d.m_readBufStart \/ t.d.m_readBufStart >= Position(b)
       /\ Fresh(s.d, Position(b)) => t.d.m_readBufStart >= Position(b)
  <2>1. s.d.m_readBufStart \in Nat /\ u.d.m_readBufStart \in Nat /\ r.s.d.m_readBufStart \in Nat
    BY <1>5, <1>8, StateTypes DEF Coherent
  <2> QED
    BY <2>1, <1>1, <1>5, <1>8, <1>13 DEF Moved, pos
<1> QED
  BY <1>13, <1>14, <1>15, <1>16, <1>17

----------------------------------------------------------------------------
(* The directory. *)

LEMMA DiskFacts ==
    ASSUME NEW img \in DOMAIN Images
    PROVE  /\ DirBlocks(img) \in SUBSET Blocks(img) /\ IsDirectory(img, DirBlocks(img))
           /\ FileBlocks(img) \in SUBSET Blocks(img)
           /\ HasFiles(img, DirBlocks(img), FileBlocks(img))
<1>1. \E dir \in SUBSET Blocks(img) :
          /\ IsDirectory(img, dir)
          /\ \E files \in SUBSET Blocks(img) : HasFiles(img, dir, files)
  BY ImageAssumption
<1>2. /\ DirBlocks(img) \in SUBSET Blocks(img) /\ IsDirectory(img, DirBlocks(img))
      /\ \E files \in SUBSET Blocks(img) : HasFiles(img, DirBlocks(img), files)
  BY <1>1 DEF DirBlocks
<1> QED
  BY <1>2 DEF FileBlocks

\* The BAM is before the directory, and no read before it has filled the buffer.
Bam == Position(<<DirTrack, 0>>)

LEMMA BamFacts ==
    ASSUME NEW img \in DOMAIN Images
    PROVE  /\ <<DirTrack, 0>> \in Blocks(img) /\ Bam \in Nat /\ Bam + BlockSize <= ImageSize(img)
           /\ Bam > DiskNameOffset
           /\ \A b \in DirBlocks(img) : b \in Blocks(img) /\ Position(b) > Bam
<1>1. <<DirTrack, 0>> \in Blocks(img) /\ Position(<<DirTrack, 0>>) > DiskNameOffset
  BY ImageAssumption
<1>2. Bam \in Nat /\ Bam + BlockSize <= ImageSize(img)
  BY <1>1, BlockFacts DEF Bam
<1> QED
  BY <1>1, <1>2, DiskFacts DEF Bam, IsDirectory

\* A change of the status.
LEMMA StatusUpdate ==
    ASSUME NEW s, Coherent(s), NEW set \in SUBSET Status
    PROVE  LET t == [s EXCEPT !.d.m_status = set]
           IN /\ Coherent(t) /\ t.d.m_status = set
              /\ t.d.image = s.d.image /\ t.d.m_currentOffset = s.d.m_currentOffset
              /\ t.d.m_readBufStart = s.d.m_readBufStart
              /\ \A b : InBlock(s, b) => InBlock(t, b)
<1> DEFINE t == [s EXCEPT !.d.m_status = set]
<1>1. s \in State
  BY DEF Coherent
<1>2. /\ t \in State /\ t.buf = s.buf /\ t.d.m_status = set /\ t.d.image = s.d.image
      /\ t.d.m_currentOffset = s.d.m_currentOffset /\ t.d.fpos = s.d.fpos
      /\ t.d.m_currentLinkTrack = s.d.m_currentLinkTrack
      /\ t.d.m_currentLinkSector = s.d.m_currentLinkSector
      /\ t.d.m_readBufStart = s.d.m_readBufStart /\ t.d.m_readBufSize = s.d.m_readBufSize
      /\ t.d.m_readOffset = s.d.m_readOffset
  BY ONLY <1>1, set \in SUBSET Status DEF State, Object
<1> HIDE DEF t
<1>3. Coherent(t)
  BY <1>2 DEF Coherent
<1>4. \A b : InBlock(s, b) => InBlock(t, b)
  BY <1>2 DEF InBlock, Pos
<1> QED
  BY <1>2, <1>3, <1>4 DEF t

\* A change of the offset in the block.
LEMMA OffsetUpdate ==
    ASSUME NEW s, Coherent(s), NEW o \in 0..BlockSize - 1
    PROVE  LET t == [s EXCEPT !.d.m_currentOffset = o]
           IN /\ Coherent(t) /\ t.d.m_currentOffset = o /\ Pos(t) = Pos(s)
              /\ t.d.image = s.d.image /\ t.d.m_status = s.d.m_status
              /\ t.d.m_readBufStart = s.d.m_readBufStart
              /\ t.d.m_currentLinkTrack = s.d.m_currentLinkTrack
              /\ t.d.m_currentLinkSector = s.d.m_currentLinkSector
<1> DEFINE t == [s EXCEPT !.d.m_currentOffset = o]
<1>1. s \in State
  BY DEF Coherent
<1>2. /\ t \in State /\ t.buf = s.buf /\ t.d.m_status = s.d.m_status /\ t.d.image = s.d.image
      /\ t.d.m_currentOffset = o /\ t.d.fpos = s.d.fpos
      /\ t.d.m_currentLinkTrack = s.d.m_currentLinkTrack
      /\ t.d.m_currentLinkSector = s.d.m_currentLinkSector
      /\ t.d.m_readBufStart = s.d.m_readBufStart /\ t.d.m_readBufSize = s.d.m_readBufSize
      /\ t.d.m_readOffset = s.d.m_readOffset
  BY ONLY <1>1, o \in 0..BlockSize - 1 DEF State, Object
<1> HIDE DEF t
<1>3. Coherent(t)
  BY <1>2 DEF Coherent
<1>4. Pos(t) = Pos(s)
  BY <1>2 DEF Pos
<1> QED
  BY <1>2, <1>3, <1>4 DEF t

LEMMA SeekFirstDirCoherent ==
    ASSUME NEW s \in State, s.d.image \in DOMAIN Images,
           Coherent(s) \/ Fresh(s.d, Position(<<DirTrack, 1>>)), NEW t, t = SeekFirstDir(s)
    PROVE  /\ Coherent(t) /\ AtEntry(t) /\ t.d.m_status = {"IMAGE_OK", "DIR_OPEN"}
           /\ t.d.image = s.d.image
           /\ t.d.m_readBufStart >= s.d.m_readBufStart \/ t.d.m_readBufStart > Bam
<1> DEFINE img == s.d.image
           b == <<DirTrack, 1>>
<1>1. b \in DirBlocks(img) /\ b \in Blocks(img)
  BY DiskFacts DEF IsDirectory
<1>2. Position(b) > Bam /\ Bam \in Nat /\ Position(b) \in Nat
  BY <1>1, BamFacts, BlockFacts
<1>3. PICK u : u = SeekBlock(s, DirTrack, 1)
  OBVIOUS
<1>4. /\ Coherent(u) /\ InBlock(u, b) /\ u.d.m_currentOffset = 2 /\ u.d.image = img
      /\ u.d.m_readBufStart >= s.d.m_readBufStart \/ u.d.m_readBufStart >= Position(b)
  <2>1. u = SeekBlock(s, b[1], b[2])
    BY <1>3
  <2> HIDE DEF b
  <2> QED
    BY <1>1, <2>1, SeekBlockCoherent DEF b
<1>5. t = [u EXCEPT !.d.m_status = {"IMAGE_OK", "DIR_OPEN"}]
  BY <1>3 DEF SeekFirstDir
<1>6. {"IMAGE_OK", "DIR_OPEN"} \in SUBSET Status
  BY DEF Status
<1> HIDE DEF b, img
<1>7. /\ Coherent(t) /\ t.d.m_status = {"IMAGE_OK", "DIR_OPEN"} /\ t.d.image = img
      /\ t.d.m_currentOffset = 2 /\ t.d.m_readBufStart = u.d.m_readBufStart /\ InBlock(t, b)
  BY ONLY <1>4, <1>5, <1>6, StatusUpdate
<1>8. AtEntry(t)
  <2>1. 0 \in 0..BlockSize \div EntrySize - 1 /\ 2 = 2 + EntrySize * 0
    <3>1. BlockSize \div EntrySize >= 1
      <4>1. ASSUME NEW n \in Nat \ {0}, NEW m \in Nat \ {0}, n >= m
            PROVE  n \div m >= 1
        BY <4>1
      <4> QED
        BY <4>1, BlockFacts, SizeFacts
    <3> QED
      BY <3>1, SizeFacts
  <2> QED
    BY <1>1, <1>7, <2>1 DEF AtEntry
<1>9. u.d.m_readBufStart \in Nat /\ s.d.m_readBufStart \in Nat
  BY <1>4, StateTypes DEF Coherent
<1> QED
  BY <1>2, <1>4, <1>7, <1>8, <1>9 DEF img

\* The entries fill a block.
LEMMA EntryArithmetic ==
    ASSUME NEW e \in 0..BlockSize \div EntrySize - 1
    PROVE  /\ EntrySize * e \in Nat /\ EntrySize * e + EntrySize <= BlockSize
           /\ EntrySize * e + EntrySize # BlockSize =>
                 /\ e + 1 \in 0..BlockSize \div EntrySize - 1
                 /\ EntrySize * (e + 1) = EntrySize * e + EntrySize
                 /\ EntrySize * e + 2 * EntrySize <= BlockSize
<1> DEFINE m == EntrySize
           n == BlockSize \div EntrySize
<1>1. m \in Nat /\ m >= 8 /\ BlockSize \in Nat /\ BlockSize % m = 0
  BY SizeFacts
<1>2. n \in Nat /\ BlockSize = m * n
  <2>1. ASSUME NEW a \in Nat, NEW b \in Nat \ {0}, a % b = 0
        PROVE  a \div b \in Nat /\ a = b * (a \div b)
    BY <2>1
  <2> QED
    BY <1>1, <2>1
<1> HIDE DEF m, n
<1>3. e \in Nat /\ e + 1 <= n
  BY <1>2 DEF n
<1>4. ASSUME NEW j \in Nat, j <= n
      PROVE  m * j \in Nat /\ m * j <= m * n
  <2>1. PICK k \in Nat : n = j + k
    <3>1. n - j \in Nat /\ n = j + (n - j)
      BY <1>2, <1>4
    <3> QED
      BY <3>1
  <2>2. m * n = m * j + m * k /\ m * k \in Nat /\ m * j \in Nat
    BY <1>1, <2>1
  <2> QED
    BY <2>2
<1>5. m * (e + 1) = m * e + m /\ m * (e + 2) = m * e + m + m /\ m * e \in Nat
  BY <1>1, <1>3
<1>6. m * e + m <= BlockSize
  BY <1>2, <1>3, <1>4, <1>5
<1>7. CASE e + 2 <= n
  BY <1>1, <1>2, <1>3, <1>4, <1>5, <1>6, <1>7 DEF m, n
<1>8. CASE e + 1 = n
  BY <1>1, <1>2, <1>3, <1>5, <1>6, <1>8 DEF m, n
<1> QED
  BY <1>2, <1>3, <1>7, <1>8

\* getDirEntry(): the entry at the position, and the way to the next one.
LEMMA EntryCoherent ==
    ASSUME NEW s, Coherent(s), AtEntry(s), MoreDir(s.d), NEW r, r = GetDirEntry(s)
    PROVE  /\ Coherent(r.s) /\ r.s.d.image = s.d.image
           /\ r.s.d.m_status \in {s.d.m_status, s.d.m_status \cup {"DIR_EOF"}}
           /\ MoreDir(r.s.d) => AtEntry(r.s)
           /\ r.s.d.m_readBufStart >= s.d.m_readBufStart \/ r.s.d.m_readBufStart > Bam
           /\ r.dir.name \in Seq(Nat) /\ TypeMask(r.dir.type) \in Nat
           /\ TypeMask(r.dir.type) \in {SEQ, PRG} =>
                 <<r.dir.track, r.dir.sector>> \in FileBlocks(s.d.image)
<1> DEFINE img == s.d.image
           size == 3 + NameLen + RestLen
<1>1. PICK b \in DirBlocks(img), e \in 0..BlockSize \div EntrySize - 1 :
          InBlock(s, b) /\ s.d.m_currentOffset = 2 + EntrySize * e
  BY DEF AtEntry
<1>2. img \in DOMAIN Images /\ s \in State
  BY DEF Coherent
<1>3. /\ b \in Blocks(img) /\ Position(b) \in Nat /\ Position(b) + BlockSize <= ImageSize(img)
      /\ Position(b) > Bam /\ Bam \in Nat /\ ImageSize(img) \in Nat
  BY <1>1, <1>2, BamFacts, BlockFacts, ImageBytes
<1> DEFINE at == EntrySize * e
<1>4. /\ at \in Nat /\ at + EntrySize <= BlockSize
      /\ at + EntrySize # BlockSize => /\ e + 1 \in 0..BlockSize \div EntrySize - 1
                                       /\ EntrySize * (e + 1) = at + EntrySize
                                       /\ at + 2 * EntrySize <= BlockSize
  BY EntryArithmetic
<1>5. size \in Nat /\ size + 2 = EntrySize /\ size >= 6
  BY SizeFacts DEF EntrySize
<1>6. Pos(s) = Position(b) + 2 + at
  BY <1>1, <1>3, <1>4 DEF InBlock
<1> HIDE DEF at
<1>7. PICK q : q = HostReadBytes(s, size)
  OBVIOUS
<1> HIDE DEF size
<1>8. ReadFrom(s, size, q)
  <2>1. Pos(s) + size <= ImageSize(s.d.image)
    BY <1>3, <1>4, <1>5, <1>6, SizeFacts
  <2> QED
    BY ONLY <2>1, <1>5, <1>7, Coherent(s), ReadBytesCoherent
<1> DEFINE o == (q.s.d.m_currentOffset + Len(q.bytes)) % BlockSize
           t == [q.s EXCEPT !.d.m_currentOffset = o]
<1>9. r = [dir |-> EntryIn(q.bytes), s |-> PassEntry(t, HostReadBytes(t, 2))]
  BY <1>7 DEF GetDirEntry, EntryRead, size
<1>10. o = (at + EntrySize) % BlockSize /\ o \in 0..BlockSize - 1
  <2>1. q.s.d.m_currentOffset = 2 + at /\ Len(q.bytes) = size
    BY <1>1, <1>8 DEF ReadFrom, Moved, at
  <2>2. (2 + at) + size = at + EntrySize
    BY <1>4, <1>5
  <2>3. (2 + at) + size \in Nat
    BY <1>4, <1>5
  <2> QED
    BY <2>1, <2>2, <2>3, SizeFacts
<1>11. Coherent(q.s) /\ Moved(s, q.s) /\ Pos(q.s) = Pos(s) + size /\ q.bytes \in Seq(Nat)
       /\ Len(q.bytes) = size
       /\ \A i \in 1..size : q.bytes[i] = ByteAt(img, Pos(s) + i - 1)
  BY <1>8 DEF ReadFrom
<1> HIDE DEF o
<1>12. /\ Coherent(t) /\ t.d.m_currentOffset = o /\ Pos(t) = Pos(q.s) /\ t.d.image = q.s.d.image
       /\ t.d.m_status = q.s.d.m_status /\ t.d.m_readBufStart = q.s.d.m_readBufStart
       /\ t.d.m_currentLinkTrack = q.s.d.m_currentLinkTrack
       /\ t.d.m_currentLinkSector = q.s.d.m_currentLinkSector
  BY ONLY <1>10, <1>11, OffsetUpdate
<1> HIDE DEF t
<1>13. /\ t.d.image = img /\ t.d.m_status = s.d.m_status
       /\ t.d.m_readBufStart >= s.d.m_readBufStart
       /\ <<t.d.m_currentLinkTrack, t.d.m_currentLinkSector>> = Link(img, b)
       /\ Pos(t) = Position(b) + at + EntrySize
  BY <1>1, <1>3, <1>4, <1>5, <1>6, <1>11, <1>12 DEF Moved, InBlock
<1>14. t \in State /\ s.d.m_readBufStart \in Nat /\ t.d.m_readBufStart \in Nat
       /\ s.d.m_status \in SUBSET Status
  BY <1>2, <1>12, StateTypes DEF Coherent
<1>15. PICK p : p = PassEntry(t, HostReadBytes(t, 2))
  OBVIOUS
<1>16. /\ Coherent(p) /\ p.d.image = img
       /\ p.d.m_status \in {s.d.m_status, s.d.m_status \cup {"DIR_EOF"}}
       /\ MoreDir(p.d) => AtEntry(p)
       /\ p.d.m_readBufStart >= s.d.m_readBufStart \/ p.d.m_readBufStart > Bam
  \* the last entry of a block, and there is another block
  <2>1. CASE o = 0 /\ t.d.m_currentLinkTrack # 0
    <3> DEFINE next == Link(img, b)
    <3>1. next \in DirBlocks(img) /\ next \in Blocks(img)
      BY <1>1, <1>2, <1>13, <2>1, DiskFacts DEF IsDirectory, Linked, Link
    <3>2. p = SeekBlock(t, next[1], next[2])
      BY <1>12, <1>13, <1>15, <2>1 DEF PassEntry, SeekNextBlock
    <3> HIDE DEF next
    <3>3. /\ Coherent(p) /\ InBlock(p, next) /\ p.d.m_currentOffset = 2
          /\ p.d.image = img /\ p.d.m_status = s.d.m_status
          /\ p.d.m_readBufStart >= t.d.m_readBufStart \/ p.d.m_readBufStart >= Position(next)
      BY <1>2, <1>12, <1>13, <1>14, <3>1, <3>2, SeekBlockCoherent
    <3>4. AtEntry(p)
      <4>1. 0 \in 0..BlockSize \div EntrySize - 1 /\ 2 = 2 + EntrySize * 0
        <5>1. e \in Nat /\ e <= BlockSize \div EntrySize - 1
              /\ BlockSize \div EntrySize \in Int
          BY SizeFacts
        <5> QED
          BY <5>1, SizeFacts
      <4> QED
        BY <3>1, <3>3, <4>1 DEF AtEntry
    <3>5. Position(next) > Bam /\ Position(next) \in Nat /\ p.d.m_readBufStart \in Nat
      BY <1>2, <3>1, <3>3, BamFacts, BlockFacts, StateTypes DEF Coherent
    <3> QED
      BY <1>3, <1>13, <1>14, <3>3, <3>4, <3>5
  \* the last entry of the directory
  <2>2. CASE o = 0 /\ t.d.m_currentLinkTrack = 0
    <3> DEFINE set == t.d.m_status \cup {"DIR_EOF"}
    <3>1. p = [t EXCEPT !.d.m_status = set]
      BY <1>12, <1>15, <2>2 DEF PassEntry
    <3>2. set \in SUBSET Status
      BY <1>13, <1>14 DEF Status
    <3> HIDE DEF set
    <3>3. /\ Coherent(p) /\ p.d.m_status = set /\ p.d.image = t.d.image
          /\ p.d.m_readBufStart = t.d.m_readBufStart
      BY ONLY <1>12, <3>1, <3>2, StatusUpdate
    <3>4. ~MoreDir(p.d)
      BY <3>3 DEF MoreDir, set
    <3> QED
      BY <1>13, <3>3, <3>4 DEF set
  \* another entry in the block
  <2>3. CASE o # 0
    <3>1. at + EntrySize # BlockSize /\ o = at + EntrySize
      BY <1>4, <1>10, <2>3, SizeFacts
    <3>2. /\ e + 1 \in 0..BlockSize \div EntrySize - 1 /\ EntrySize * (e + 1) = at + EntrySize
          /\ at + 2 * EntrySize <= BlockSize
      BY <1>4, <3>1
    <3>3. PICK skip : skip = HostReadBytes(t, 2)
      OBVIOUS
    <3>4. ReadFrom(t, 2, skip)
      <4>1. 2 \in Nat /\ Pos(t) + 2 <= ImageSize(t.d.image) /\ Coherent(t)
        BY <1>3, <1>4, <1>12, <1>13, <3>2, SizeFacts
      <4> QED
        BY ONLY <3>3, <4>1, ReadBytesCoherent
    <3> DEFINE u == skip.s
               o2 == (u.d.m_currentOffset + 2) % BlockSize
               set == IF skip.bytes = <<0, 255>> THEN u.d.m_status \cup {"DIR_EOF"}
                      ELSE u.d.m_status
               v == [u EXCEPT !.d.m_currentOffset = o2]
    <3>5. Coherent(u) /\ Pos(u) = Pos(t) + 2 /\ Moved(t, u)
      BY <3>4 DEF ReadFrom
    <3>6. o2 = 2 + EntrySize * (e + 1) /\ o2 \in 0..BlockSize - 1
      <4>1. u.d.m_currentOffset = at + EntrySize
        BY <1>12, <3>1, <3>5 DEF Moved
      <4>2. at + EntrySize + 2 \in 0..BlockSize - 1
        BY <1>4, <3>2, SizeFacts
      <4> QED
        BY <3>2, <4>1, <4>2, SizeFacts
    <3>7. /\ u.d.m_status = s.d.m_status
          /\ set \in {s.d.m_status, s.d.m_status \cup {"DIR_EOF"}} /\ set \in SUBSET Status
      BY <1>13, <1>14, <3>5 DEF Moved, Status
    <3>8. p = [v EXCEPT !.d.m_status = set]
      <4>1. u \in State
        BY <3>5 DEF Coherent
      <4>2. p = [u EXCEPT !.d.m_currentOffset = o2, !.d.m_status = set]
        BY <1>12, <1>15, <2>3, <3>3 DEF PassEntry
      <4> QED
        BY <4>1, <4>2
    <3> HIDE DEF u, o2, set
    <3>9. /\ Coherent(v) /\ v.d.m_currentOffset = o2 /\ Pos(v) = Pos(u)
          /\ v.d.image = u.d.image /\ v.d.m_readBufStart = u.d.m_readBufStart
          /\ v.d.m_currentLinkTrack = u.d.m_currentLinkTrack
          /\ v.d.m_currentLinkSector = u.d.m_currentLinkSector
      BY ONLY <3>5, <3>6, OffsetUpdate
    <3> HIDE DEF v
    <3>10. InBlock(v, b)
      BY <1>3, <1>4, <1>13, <3>2, <3>5, <3>6, <3>9, SizeFacts DEF InBlock, Moved
    <3>11. /\ Coherent(p) /\ p.d.m_status = set /\ p.d.image = v.d.image
           /\ p.d.m_currentOffset = v.d.m_currentOffset
           /\ p.d.m_readBufStart = v.d.m_readBufStart
           /\ InBlock(p, b)
      BY ONLY <3>7, <3>8, <3>9, <3>10, StatusUpdate
    <3>12. p.d.image = img /\ p.d.m_readBufStart >= s.d.m_readBufStart
      <4>1. u.d.m_readBufStart \in Nat
        BY <3>5, StateTypes DEF Coherent
      <4> QED
        BY <1>13, <1>14, <3>5, <3>9, <3>11, <4>1 DEF Moved
    <3>13. AtEntry(p)
      BY <1>1, <3>2, <3>6, <3>9, <3>11, <3>12 DEF AtEntry
    <3> QED
      BY <3>7, <3>11, <3>12, <3>13
  <2> QED
    BY <2>1, <2>2, <2>3
<1>17. r.dir = EntryIn(q.bytes) /\ r.s = p
  BY <1>9, <1>15
<1>18. r.dir.name \in Seq(Nat)
  <2>1. r.dir.name = SubSeq(q.bytes, 4, 3 + NameLen)
    <3>1. EntryIn(q.bytes).name = SubSeq(q.bytes, 4, 3 + NameLen)
      BY Zenon DEF EntryIn
    <3> QED
      BY ONLY <1>17, <3>1, Zenon
  <2>2. 4 \in 1..Len(q.bytes) + 1 /\ 3 + NameLen \in 4 - 1..Len(q.bytes)
    BY <1>11, SizeFacts DEF size
  <2>3. SubSeq(q.bytes, 4, 3 + NameLen) \in Seq(Nat)
    BY ONLY <1>11, <2>2, SubSeqProperties
  <2> QED
    BY ONLY <2>1, <2>3, Zenon
<1>19. TypeMask(r.dir.type) \in {SEQ, PRG} => <<r.dir.track, r.dir.sector>> \in FileBlocks(img)
  <2>1. r.dir.type = q.bytes[1] /\ r.dir.track = q.bytes[2] /\ r.dir.sector = q.bytes[3]
    BY <1>17 DEF EntryIn
  <2>2. /\ q.bytes[1] = ByteAt(img, Pos(s)) /\ q.bytes[2] = ByteAt(img, Pos(s) + 1)
        /\ q.bytes[3] = ByteAt(img, Pos(s) + 2)
    <3>1. 1 \in 1..size /\ 2 \in 1..size /\ 3 \in 1..size
      BY <1>5
    <3>2. /\ Pos(s) + 1 - 1 = Pos(s) /\ Pos(s) + 2 - 1 = Pos(s) + 1
          /\ Pos(s) + 3 - 1 = Pos(s) + 2
      BY <1>3, <1>4, <1>6
    <3> QED
      BY <1>11, <3>1, <3>2
  <2>3. Pos(s) = EntryPosition(b, e)
    BY <1>3, <1>6 DEF EntryPosition, at
  <2>4. FileIn(img, EntryPosition(b, e), FileBlocks(img))
    BY <1>1, <1>2, DiskFacts DEF HasFiles
  <2> QED
    BY <2>1, <2>2, <2>3, <2>4 DEF FileIn
<1>20. TypeMask(r.dir.type) \in Nat
  <2>1. r.dir.type = q.bytes[1]
    BY <1>17 DEF EntryIn
  <2>2. q.bytes[1] \in Nat
    <3>1. 1 \in 1..Len(q.bytes)
      BY <1>5, <1>11
    <3> QED
      BY ONLY <1>11, <3>1, ElementOfSeq
  <2> QED
    BY <2>1, <2>2 DEF TypeMask
<1> QED
  BY <1>16, <1>17, <1>18, <1>19, <1>20

----------------------------------------------------------------------------
(* Files. *)

LEMMA OpenEntryCoherent ==
    ASSUME NEW s, Coherent(s), NEW dir, <<dir.track, dir.sector>> \in FileBlocks(s.d.image),
           NEW t, t = OpenEntry(s, dir)
    PROVE  /\ Coherent(t) /\ AtFile(t) /\ t.d.image = s.d.image
           /\ t.d.m_status = {"IMAGE_OK", "FILE_OPEN"}
<1> DEFINE img == s.d.image
           b == <<dir.track, dir.sector>>
<1>1. s \in State /\ img \in DOMAIN Images
  BY DEF Coherent
<1>2. b \in FileBlocks(img) /\ b \in Blocks(img)
  BY <1>1, DiskFacts
<1>3. PICK u : u = SeekBlock(s, dir.track, dir.sector)
  OBVIOUS
<1>4. u = SeekBlock(s, b[1], b[2])
  BY <1>3
<1>5. t = [u EXCEPT !.d.m_status = {"IMAGE_OK", "FILE_OPEN"}]
  BY <1>3 DEF OpenEntry
<1>6. {"IMAGE_OK", "FILE_OPEN"} \in SUBSET Status
  BY DEF Status
<1> HIDE DEF b
<1>7. Coherent(u) /\ InBlock(u, b) /\ u.d.m_currentOffset = 2 /\ u.d.image = img
  BY <1>1, <1>2, <1>4, SeekBlockCoherent
<1> HIDE DEF img
<1>8. /\ Coherent(t) /\ t.d.m_status = {"IMAGE_OK", "FILE_OPEN"} /\ t.d.image = img
      /\ t.d.m_currentOffset = 2 /\ InBlock(t, b)
  BY ONLY <1>5, <1>6, <1>7, StatusUpdate
<1>9. AtFile(t)
  BY <1>2, <1>8 DEF AtFile
<1> QED
  BY <1>8, <1>9 DEF img

\* getc(): the byte at the position, and the way to the next one.
LEMMA GetcCoherent ==
    ASSUME NEW s, Coherent(s), ~IsEOF(s.d), AtFile(s), NEW r, r = Getc(s)
    PROVE  /\ Coherent(r.s) /\ r.s.d.image = s.d.image
           /\ ~IsEOF(r.s.d) => AtFile(r.s)
           /\ r.c = ByteAt(s.d.image, Pos(s))
<1> DEFINE img == s.d.image
           o == s.d.m_currentOffset
<1>1. PICK b \in FileBlocks(img) : InBlock(s, b) /\ o >= 2
  BY DEF AtFile
<1>2. s \in State /\ img \in DOMAIN Images
  BY DEF Coherent
<1>3. /\ b \in Blocks(img) /\ Position(b) \in Nat /\ Position(b) + BlockSize <= ImageSize(img)
      /\ ImageSize(img) \in Nat
  BY <1>1, <1>2, DiskFacts, BlockFacts, ImageBytes
<1>4. o \in 0..BlockSize - 1 /\ s.d.m_readBufStart \in Nat
  BY <1>2, StateTypes
<1>5. Pos(s) = Position(b) + o
  BY <1>1 DEF InBlock
<1>6. Pos(s) < ImageSize(s.d.image)
  BY <1>3, <1>4, <1>5, SizeFacts
<1>7. PICK q : q = HostReadByte(s)
  OBVIOUS
<1>8. /\ Coherent(q.s) /\ Pos(q.s) = Pos(s) + 1 /\ Moved(s, q.s) /\ q.c = ByteAt(img, Pos(s))
  BY ONLY <1>6, <1>7, Coherent(s), ReadByteCoherent
<1>9. r.c = q.c /\ r.s = PassByte(q.s)
  BY <1>7 DEF Getc
<1> DEFINE u == q.s
<1>10. /\ Coherent(u) /\ u.d.image = img /\ u.d.m_currentOffset = o
       /\ <<u.d.m_currentLinkTrack, u.d.m_currentLinkSector>> = Link(img, b)
       /\ Pos(u) = Position(b) + o + 1 /\ u \in State
  BY <1>1, <1>5, <1>8 DEF Moved, InBlock, Coherent
<1> HIDE DEF u, o
<1>11. Coherent(PassByte(u)) /\ PassByte(u).d.image = img
       /\ (~IsEOF(PassByte(u).d) => AtFile(PassByte(u)))
  <2>1. CASE o # BlockSize - 1
    <3>1. o + 1 \in 0..BlockSize - 1 /\ o + 1 >= 2
      BY <1>1, <1>4, <2>1, SizeFacts DEF o
    <3>2. PassByte(u) = [u EXCEPT !.d.m_currentOffset = o + 1]
      BY <1>10, <2>1 DEF PassByte
    <3>3. PICK v : v = PassByte(u)
      OBVIOUS
    <3>4. /\ Coherent(v) /\ v.d.m_currentOffset = o + 1 /\ Pos(v) = Pos(u)
          /\ v.d.image = u.d.image
          /\ v.d.m_currentLinkTrack = u.d.m_currentLinkTrack
          /\ v.d.m_currentLinkSector = u.d.m_currentLinkSector
      BY ONLY <1>10, <3>1, <3>2, <3>3, OffsetUpdate
    <3>5. InBlock(v, b)
      BY <1>3, <1>4, <1>10, <3>4 DEF InBlock, o
    <3> QED
      BY <1>1, <1>10, <3>1, <3>3, <3>4, <3>5 DEF AtFile
  <2>2. CASE o = BlockSize - 1 /\ u.d.m_currentLinkTrack # 0
    <3> DEFINE next == Link(img, b)
    <3>1. next \in FileBlocks(img) /\ next \in Blocks(img)
      BY <1>1, <1>2, <1>10, <2>2, DiskFacts DEF HasFiles, Linked, Link
    <3>2. PassByte(u) = SeekBlock(u, next[1], next[2])
      BY <1>10, <2>2 DEF PassByte, SeekNextBlock
    <3>3. PICK v : v = PassByte(u)
      OBVIOUS
    <3> HIDE DEF next
    <3>4. Coherent(v) /\ InBlock(v, next) /\ v.d.m_currentOffset = 2 /\ v.d.image = img
      BY <1>2, <1>10, <3>1, <3>2, <3>3, SeekBlockCoherent
    <3> QED
      BY <3>1, <3>3, <3>4 DEF AtFile
  <2>3. CASE o = BlockSize - 1 /\ u.d.m_currentLinkTrack = 0
    <3> DEFINE set == u.d.m_status \cup {"FILE_EOF"}
    <3>1. PassByte(u) = [u EXCEPT !.d.m_status = set]
      BY <1>10, <2>3 DEF PassByte
    <3>2. set \in SUBSET Status
      BY <1>10, StateTypes DEF Status
    <3>3. PICK v : v = PassByte(u)
      OBVIOUS
    <3> HIDE DEF set
    <3>4. Coherent(v) /\ v.d.m_status = set /\ v.d.image = u.d.image
      BY ONLY <1>10, <3>1, <3>2, <3>3, StatusUpdate
    <3> QED
      BY <1>10, <3>3, <3>4 DEF IsEOF, set
  <2> QED
    BY <2>1, <2>2, <2>3
<1> QED
  BY <1>8, <1>9, <1>11 DEF u

----------------------------------------------------------------------------
(* The title. *)

\* The relative seek to the disk name leaves the buffer: it lands near the name.
LEMMA SeekToDiskNameCoherent ==
    ASSUME NEW s \in State, s.d.image \in DOMAIN Images, BamSeekFresh(s.d),
           NEW t, t = SeekToDiskName(s)
    PROVE  /\ Coherent(t) /\ t.d.image = s.d.image /\ t.d.m_status = {"IMAGE_OK"}
           /\ Pos(t) + NameLen + TitleRest <= ImageSize(t.d.image)
           /\ t.d.m_readBufStart > Bam
<1> DEFINE img == s.d.image
           b == <<DirTrack, 0>>
<1>1. /\ b \in Blocks(img) /\ Bam \in Nat /\ Bam + BlockSize <= ImageSize(img)
      /\ Bam > DiskNameOffset /\ Position(b) = Bam /\ ImageSize(img) \in Nat
  BY BamFacts, ImageBytes DEF Bam
<1>2. DiskNameOffset \in 3..BlockSize - NameLen - TitleRest /\ DiskNameOffset \in Int
  BY GeometryAssumption
<1>3. Fresh(s.d, Bam)
  <2>1. s.d.m_readBufStart \in Nat
    BY StateTypes
  <2> QED
    BY <1>1, <1>2, <2>1 DEF Fresh, BamSeekFresh, Bam
<1>4. PICK u : u = SeekBlock(s, DirTrack, 0)
  OBVIOUS
<1>5. /\ Coherent(u) /\ InBlock(u, b) /\ u.d.m_currentOffset = 2 /\ u.d.image = img
      /\ u.d.m_readBufStart >= Bam
  <2>1. u = SeekBlock(s, b[1], b[2])
    BY <1>4
  <2> HIDE DEF b
  <2> QED
    BY <1>1, <1>3, <2>1, SeekBlockCoherent
<1>6. u \in State /\ Pos(u) = Bam + 2
  BY <1>1, <1>5 DEF Coherent, InBlock
<1>7. /\ u.d.m_readBufStart \in Nat /\ u.d.m_readOffset \in Nat /\ u.d.m_readBufSize \in Nat
      /\ u.d.m_readBufStart + u.d.m_readOffset = Bam + 2
  BY <1>6, StateTypes, SizeFacts DEF Pos
<1> DEFINE start == u.d.m_readBufStart + (DiskNameOffset - 2)
<1>8. /\ start \in Nat /\ start > Bam /\ start + NameLen + TitleRest <= ImageSize(img)
      /\ u.d.m_readOffset + (DiskNameOffset - 2) < u.d.m_readBufStart
  BY <1>1, <1>2, <1>5, <1>7, SizeFacts
<1> DEFINE v == HostSeekRelative(u, DiskNameOffset - 2)
<1>9. v = [u EXCEPT !.d.m_readBufStart = start, !.d.m_readBufSize = 0, !.d.m_readOffset = 0,
                    !.d.fpos = start]
  <2>1. start <= ImageSize(u.d.image)
    BY <1>1, <1>5, <1>8, SizeFacts
  <2> QED
    BY <1>8, <2>1 DEF HostSeekRelative, FileSeek
<1>10. t = [v EXCEPT !.d.m_status = {"IMAGE_OK"}]
  BY <1>4 DEF SeekToDiskName
<1> HIDE DEF v, start
<1>11. /\ v \in State /\ v.buf = u.buf /\ SameBlock(u.d, v.d) /\ v.d.fpos = start
       /\ v.d.m_readBufStart = start /\ v.d.m_readBufSize = 0 /\ v.d.m_readOffset = 0
  <2>1. 0 \in 0..BufSize
    BY SizeFacts
  <2> QED
    BY ONLY <1>6, <1>8, <1>9, <2>1 DEF State, Object, SameBlock
<1>12. v.d.image = img /\ Coherent(v) /\ Pos(v) = start
  <2>1. v.d.image = img
    BY <1>5, <1>11 DEF SameBlock
  <2> QED
    BY <1>1, <1>8, <1>11, <2>1, SizeFacts DEF Coherent, Pos
<1>13. {"IMAGE_OK"} \in SUBSET Status
  BY DEF Status
<1>14. /\ Coherent(t) /\ t.d.m_status = {"IMAGE_OK"} /\ t.d.image = v.d.image
       /\ t.d.m_readBufStart = v.d.m_readBufStart
  BY ONLY <1>10, <1>12, <1>13, StatusUpdate
<1>15. Pos(t) = Pos(v)
  BY ONLY <1>10, <1>11 DEF State, Object, Pos
<1> QED
  BY <1>8, <1>11, <1>12, <1>14, <1>15

----------------------------------------------------------------------------
(* The lines of a listing are sequences of numbers. *)

LEMMA MinIsElement ==
    ASSUME NEW I, I \subseteq Nat, I # {}
    PROVE  Min(I) \in I /\ \A i \in I : Min(I) <= i
<1>1. IsWellFoundedOn(OpToRel(<, Nat), Nat)
  BY NatLessThanWellFounded
<1>2. PICK m \in I : \A i \in I : ~(<<i, m>> \in OpToRel(<, Nat))
  BY ONLY <1>1, I \subseteq Nat, I # {}, WFMin
<1>3. ASSUME NEW i \in I
      PROVE  m <= i
  <2>1. m \in Nat /\ i \in Nat
    OBVIOUS
  <2>2. CASE i < m
    <3>1. <<i, m>> \in OpToRel(<, Nat)
      BY <2>1, <2>2 DEF OpToRel
    <3> QED
      BY <1>2, <3>1
  <2> QED
    BY <2>1, <2>2
<1> QED
  BY <1>2, <1>3 DEF Min

LEMMA UpToIs ==
    ASSUME NEW str \in Seq(Nat), NEW ends
    PROVE  UpTo(ends, str) \in 0..Len(str)
<1> DEFINE I == {i \in 1..Len(str) : str[i] \in ends}
<1>1. UpTo(ends, str) = IF I # {} THEN Min(I) ELSE 0
  BY DEF UpTo, SelectInSeq
<1>2. I \subseteq Nat /\ I \subseteq 1..Len(str) /\ Len(str) \in Nat
  OBVIOUS
<1> HIDE DEF I
<1>3. CASE I # {}
  <2>1. Min(I) \in I
    BY <1>2, <1>3, MinIsElement
  <2>2. UpTo(ends, str) \in 1..Len(str)
    BY <1>1, <1>2, <1>3, <2>1, Zenon
  <2> QED
    BY <1>2, <2>2
<1>4. CASE I = {}
  BY <1>1, <1>2, <1>4
<1> QED
  BY <1>3, <1>4

\* The beginning of a sequence is one.
LEMMA Beginning ==
    ASSUME NEW str \in Seq(Nat), NEW n \in Int, n <= Len(str)
    PROVE  SubSeq(str, 1, n) \in Seq(Nat)
<1>1. \A i \in 1..n : str[i] \in Nat
  <2>1. \A i \in 1..n : i \in 1..Len(str)
    OBVIOUS
  <2> QED
    BY <2>1, ElementOfSeq
<1> QED
  BY <1>1, SubSeqProperties

LEMMA CStringIs ==
    ASSUME NEW str \in Seq(Nat)
    PROVE  CString(str) \in Seq(Nat)
<1>1. UpTo({0}, str) - 1 \in Int /\ UpTo({0}, str) - 1 <= Len(str)
  BY UpToIs
<1>2. SubSeq(str, 1, UpTo({0}, str) - 1) \in Seq(Nat)
  BY <1>1, Beginning
<1> QED
  BY <1>2 DEF CString

LEMMA QuotedIs ==
    ASSUME NEW name \in Seq(Nat)
    PROVE  Quoted(name) \in Seq(Nat)
<1> DEFINE str == name \o <<0>>
           end == UpTo({Pad, 0}, str)
           closing == IF end <= Len(name) /\ name[end] = Pad THEN <<Quote>> ELSE <<>>
<1>1. str \in Seq(Nat) /\ Len(str) = Len(name) + 1
  BY ConcatProperties
<1>2. end - 1 \in Int /\ end - 1 <= Len(name)
  <2>1. end \in 0..Len(str)
    BY ONLY <1>1, UpToIs
  <2> HIDE DEF str, end
  <2> QED
    BY <1>1, <2>1
<1>3. SubSeq(name, 1, end - 1) \in Seq(Nat)
  BY <1>2, Beginning
<1>4. closing \in Seq(Nat) /\ <<Quote>> \in Seq(Nat)
  BY DEF Quote
<1>5. Quoted(name) = <<Quote>> \o SubSeq(name, 1, end - 1) \o closing
  BY DEF Quoted
<1> HIDE DEF end, closing
<1>6. <<Quote>> \o SubSeq(name, 1, end - 1) \in Seq(Nat)
  BY <1>3, <1>4, ConcatProperties
<1> QED
  BY <1>4, <1>5, <1>6, ConcatProperties

LEMMA EntryTextIs ==
    ASSUME NEW dir, dir.name \in Seq(Nat), TypeMask(dir.type) \in Nat
    PROVE  Len(EntryText(dir)) \in Nat
<1> DEFINE rest == <<Space, 200 + Lesser(TypeMask(dir.type), 5),
                     IF (dir.type \div 64) % 2 = 1 THEN 60 ELSE Space,
                     IF dir.type \div 128 = 1 THEN Space ELSE 42>>
<1>1. EntryText(dir) = Quoted(dir.name) \o rest
  BY DEF EntryText
<1>2. rest \in Seq(Nat)
  BY DEF Space, Lesser
<1>3. Quoted(dir.name) \in Seq(Nat)
  BY QuotedIs
<1> HIDE DEF rest
<1>4. Quoted(dir.name) \o rest \in Seq(Nat)
  BY <1>2, <1>3, ConcatProperties
<1> QED
  BY <1>1, <1>4

LEMMA TitleTextIs ==
    ASSUME NEW bytes \in Seq(Nat)
    PROVE  TitleText(bytes) \in Seq(Nat)
<1> DEFINE text == [i \in 1..Len(bytes) |-> IF i = NameLen + 1 THEN Quote
                                            ELSE IF bytes[i] = Pad THEN Space ELSE bytes[i]]
<1>1. text \in Seq(Nat)
  <2>1. \A i \in 1..Len(bytes) :
           (IF i = NameLen + 1 THEN Quote
            ELSE IF bytes[i] = Pad THEN Space ELSE bytes[i]) \in Nat
    BY ElementOfSeq DEF Quote, Space
  <2>2. text \in [1..Len(bytes) -> Nat] /\ Len(bytes) \in Nat
    BY <2>1
  <2> HIDE DEF text
  <2> QED
    BY <2>2
<1>2. TitleText(bytes) = <<18, Quote>> \o text
  BY DEF TitleText
<1>3. <<18, Quote>> \in Seq(Nat)
  BY DEF Quote
<1> HIDE DEF text
<1> QED
  BY <1>1, <1>2, <1>3, ConcatProperties

\* sendListing() of an image, up to the directory.
LEMMA TitleCoherent ==
    ASSUME NEW s \in State, s.d.image \in DOMAIN Images, BamSeekFresh(s.d), NEW tail \in Tails,
           NEW t, t = TitleLine(s, tail), NEW next, next = SeekFirstDir(t.s)
    PROVE  /\ Len(t.line) \in Nat
           /\ Coherent(next) /\ AtEntry(next) /\ next.d.m_status = {"IMAGE_OK", "DIR_OPEN"}
           /\ next.d.image = s.d.image /\ next.d.m_readBufStart > Bam
<1>1. PICK u : u = SeekToDiskName(s)
  OBVIOUS
<1>2. /\ Coherent(u) /\ u.d.image = s.d.image /\ u.d.m_readBufStart > Bam
      /\ Pos(u) + NameLen + TitleRest <= ImageSize(u.d.image)
  BY <1>1, SeekToDiskNameCoherent
<1>3. PICK q : q = HostReadBytes(u, NameLen + TitleRest)
  OBVIOUS
<1>4. ReadFrom(u, NameLen + TitleRest, q)
  <2>1. NameLen + TitleRest \in Nat
    BY SizeFacts
  <2>2. u.d.m_readBufStart \in Nat /\ u.d.m_readOffset \in Nat
    BY <1>2, StateTypes, SizeFacts DEF Coherent
  <2>3. Pos(u) + (NameLen + TitleRest) <= ImageSize(u.d.image)
    <3>1. Pos(u) \in Nat
      BY <2>2 DEF Pos
    <3>2. ImageSize(u.d.image) \in Nat
      BY <1>2, ImageBytes DEF Coherent
    <3> QED
      BY <1>2, <3>1, <3>2, SizeFacts
  <2> QED
    BY ONLY <1>2, <1>3, <2>1, <2>3, ReadBytesCoherent
<1>5. Coherent(q.s) /\ Moved(u, q.s) /\ q.bytes \in Seq(Nat)
  BY <1>4 DEF ReadFrom
<1>6. t.s = q.s /\ t.line = CString(TitleText(q.bytes) \o tail)
  BY <1>1, <1>3 DEF TitleLine
<1>7. Len(t.line) \in Nat
  <2>1. tail \in Seq(Nat)
    BY GeometryAssumption
  <2>2. TitleText(q.bytes) \o tail \in Seq(Nat)
    BY <1>5, <2>1, TitleTextIs, ConcatProperties
  <2>3. t.line \in Seq(Nat)
    BY <1>6, <2>2, CStringIs
  <2> QED
    BY <2>3
<1>8. t.s \in State /\ t.s.d.image = s.d.image /\ t.s.d.image \in DOMAIN Images
      /\ Coherent(t.s) /\ t.s.d.m_readBufStart >= u.d.m_readBufStart
  BY <1>2, <1>5, <1>6 DEF Coherent, Moved
<1>9. /\ Coherent(next) /\ AtEntry(next) /\ next.d.m_status = {"IMAGE_OK", "DIR_OPEN"}
      /\ next.d.image = s.d.image
      /\ next.d.m_readBufStart >= t.s.d.m_readBufStart \/ next.d.m_readBufStart > Bam
  BY <1>8, SeekFirstDirCoherent
<1>10. next.d.m_readBufStart > Bam
  <2>1. Bam \in Nat
    BY BamFacts
  <2>2. /\ u.d.m_readBufStart \in Nat /\ t.s.d.m_readBufStart \in Nat
        /\ next.d.m_readBufStart \in Nat
    BY <1>2, <1>8, <1>9, StateTypes DEF Coherent
  <2> QED
    BY <1>2, <1>8, <1>9, <2>1, <2>2
<1> QED
  BY <1>7, <1>9, <1>10

----------------------------------------------------------------------------
(* The actions of IEC::read() and addByte(). *)

LEMMA InitInv ==
    ASSUME Init
    PROVE  Inv
<1>1. ParserTypes
  BY DEF Init, ParserTypes
<1>2. NameTypes
  <2>1. \A n \in 0..1 : fileNames[n] \in Seq(0..255)
    BY SelectionAssumption DEF Init
  <2>2. fileNames \in [0..1 -> Seq(0..255)]
    BY <2>1 DEF Init
  <2>3. secondaryAddress = 0 /\ currentChannel = 0 /\ todo = <<>> /\ currentLine = 0
    BY DEF Init
  <2>4. <<>> \in Seq(Message)
    OBVIOUS
  <2> QED
    BY <2>2, <2>3, <2>4 DEF NameTypes
<1>3. 0 \in 0..BufSize /\ 0 \in 0..BlockSize - 1
  BY SizeFacts
<1>4. \A img \in DOMAIN Images \cup {""} : Mounted(img) \in Object
  BY <1>3 DEF Mounted, Object, Status
<1>5. /\ NotMounted \in Object /\ NotMounted.m_readOffset = 0 /\ NotMounted.m_readBufSize = 0
      /\ NotMounted.m_readBufStart = 0 /\ NotMounted.m_status = {}
  BY <1>3 DEF NotMounted, Mounted, Object
<1>6. \/ curDisk = NotMounted
      \/ \E img \in DOMAIN Images : curDisk = Mounted(img)
  BY SelectionAssumption DEF Init
<1>7. DiskTypes
  <2>1. readBuf \in Buffer
    BY DEF Init, Buffer
  <2>2. Bounded(thd)
    <3>1. thd = NotMounted
      BY DEF Init
    <3> QED
      BY <1>5, <3>1 DEF Bounded
  <2>3. Bounded(curDisk)
    <3>1. CASE curDisk = NotMounted
      BY <1>5, <3>1, SizeFacts DEF Bounded
    <3>2. ASSUME NEW img \in DOMAIN Images, curDisk = Mounted(img)
          PROVE  Bounded(curDisk)
      <4>1. curDisk \in Object
        BY <1>4, <3>2
      <4>2. curDisk.m_readOffset = 0 /\ curDisk.m_readBufSize = 0
        BY <3>2 DEF Mounted
      <4> QED
        BY <4>1, <4>2 DEF Bounded
    <3> QED
      BY <1>6, <3>1, <3>2
  <2> QED
    BY <2>1, <2>2, <2>3 DEF DiskTypes
<1>8. ListInv
  <2>1. pc # "entries"
    BY DEF Init
  <2>2. CASE curDisk = NotMounted
    BY <1>5, <2>1, <2>2 DEF ListInv, BamSeekFresh
  <2>3. ASSUME NEW img \in DOMAIN Images, curDisk = Mounted(img)
        PROVE  ListInv
    <3>1. curDisk.image = img /\ curDisk.m_readBufStart = 0 /\ curDisk.m_readBufSize = 0
      BY <2>3 DEF Mounted
    <3> QED
      BY <2>1, <3>1 DEF ListInv, BamSeekFresh
  <2> QED
    BY <1>6, <2>2, <2>3
<1>9. FindInv /\ SendInv
  BY DEF Init, FindInv, SendInv
<1> QED
  BY <1>1, <1>2, <1>7, <1>8, <1>9 DEF Inv

\* What the driver objects and the buffer are does not change.
LEMMA SameDisks ==
    ASSUME Inv, UNCHANGED <<curDisk, thd, readBuf>>, pc' \in {pc, "listen", "title"}
    PROVE  DiskTypes' /\ ListInv' /\ FindInv' /\ SendInv'
<1>1. curState' = curState /\ thdState' = thdState
  BY DEF curState, thdState
<1>2. DiskTypes'
  BY DEF Inv, DiskTypes
<1>3. ListInv'
  BY <1>1 DEF Inv, ListInv
<1>4. FindInv'
  BY <1>1 DEF Inv, FindInv
<1>5. SendInv'
  BY <1>1 DEF Inv, SendInv
<1> QED
  BY <1>2, <1>3, <1>4, <1>5

\* A byte on the bus.
LEMMA MessageFacts ==
    ASSUME Inv, todo # <<>>
    PROVE  /\ Head(todo) \in Message /\ Tail(todo) \in Seq(Message)
           /\ c \in 0..241 /\ Head(todo).eoi \in BOOLEAN
<1>1. todo \in Seq(Message)
  BY DEF Inv, NameTypes
<1>2. Head(todo) \in Message /\ Tail(todo) \in Seq(Message)
  BY <1>1, HeadTailProperties
<1> QED
  BY <1>2 DEF Message, c

LEMMA ListenStep ==
    ASSUME Inv, Begin \/ Unheard \/ Unaddressed \/ Listen \/ Talk
    PROVE  Inv'
<1>1. UNCHANGED <<pc, curDisk, thd, readBuf, currentLine, fileNames>>
  BY DEF Begin, Unheard, Unaddressed, Listen, Talk, parserVars, nameVars, diskVars
<1>2. todo' \in Seq(Message)
  <2>1. CASE Begin
    BY <2>1, SessionAssumption DEF Begin
  <2>2. CASE ~Begin
    BY <2>2, MessageFacts DEF Unheard, Unaddressed, Listen, Talk, Took, Hears, Heard, Sent
  <2> QED
    BY <2>1, <2>2
<1>3. ParserTypes'
  BY DEF Inv, ParserTypes, Begin, Unheard, Unaddressed, Listen, Talk, Took, reset, parserVars,
         nameVars
<1>4. NameTypes'
  <2>1. secondaryAddress' \in {0, secondaryAddress} /\ currentChannel' \in {0, currentChannel}
    BY DEF Begin, Unheard, Unaddressed, Listen, Talk, reset, parserVars, nameVars
  <2> QED
    BY <1>1, <1>2, <2>1 DEF Inv, NameTypes
<1> QED
  BY <1>1, <1>3, <1>4, SameDisks DEF Inv

LEMMA SecondaryAddressIsZero ==
    ASSUME c \in 0..241
    PROVE  SecondaryAddress = 0
<1>1. \A n \in Nat : (32 * n) % 32 = 0
  OBVIOUS
<1>2. c \div 32 \in Nat
  OBVIOUS
<1> QED
  BY <1>1, <1>2 DEF SecondaryAddress, Argument, Command

LEMMA NameStep ==
    ASSUME Inv, Close \/ Open \/ NoAnswer \/ NameByte
    PROVE  Inv'
<1>1. UNCHANGED <<pc, curDisk, thd, readBuf, currentLine>> /\ todo # <<>> /\ todo' = Tail(todo)
  BY DEF Close, Open, NoAnswer, NameByte, Took, Hears, Heard, Sent, diskVars
<1>2. Tail(todo) \in Seq(Message) /\ c \in 0..241 /\ Head(todo).eoi \in BOOLEAN
  BY <1>1, MessageFacts
<1>3. ParserTypes'
  <2>1. inSync' \in BOOLEAN
    BY DEF Close, Open, NoAnswer, NameByte, Took
  <2>2. askedToTalk' \in BOOLEAN
    BY DEF Inv, ParserTypes, Close, Open, NoAnswer, NameByte, reset
  <2>3. status' \in {"none", "secondary", "filename"}
    BY DEF Inv, ParserTypes, Close, Open, NoAnswer, NameByte, reset
  <2> QED
    BY <1>1, <2>1, <2>2, <2>3 DEF Inv, ParserTypes
<1>4. secondaryAddress' = 0
  BY <1>2, SecondaryAddressIsZero DEF Inv, NameTypes, Close, Open, NoAnswer, NameByte, reset
<1>5. currentChannel' \in 0..1 /\ fileNames' \in [0..1 -> Seq(0..255)]
  <2>1. currentChannel \in 0..1 /\ fileNames \in [0..1 -> Seq(0..255)]
    BY DEF Inv, NameTypes
  <2>2. CASE Close \/ NoAnswer
    <3>1. currentChannel' \in {0, currentChannel} /\ fileNames' = fileNames
      BY <2>2 DEF Close, NoAnswer, reset
    <3> QED
      BY <2>1, <3>1
  <2>3. CASE Open
    <3>1. c % 16 \in 0..1
      BY <1>2, <2>3 DEF Open
    <3>2. <<>> \in Seq(0..255)
      OBVIOUS
    <3> QED
      BY <2>1, <2>3, <3>1, <3>2 DEF Open
  <2>4. CASE NameByte
    <3>1. fileNames[currentChannel] \in Seq(0..255) /\ c \in 0..255
      BY <1>2, <2>1
    <3>2. Append(fileNames[currentChannel], c) \in Seq(0..255)
      BY <3>1, AppendProperties
    <3> QED
      BY <2>1, <2>4, <3>2 DEF NameByte
  <2> QED
    BY <2>2, <2>3, <2>4
<1>6. NameTypes'
  BY <1>1, <1>2, <1>4, <1>5 DEF Inv, NameTypes
<1> QED
  BY <1>1, <1>3, <1>6, SameDisks DEF Inv

----------------------------------------------------------------------------
(* The actions of doTalk(). *)

\* An object and the buffer as one state.
LEMMA DriverStates ==
    ASSUME Inv
    PROVE  /\ curState \in State /\ curState.d = curDisk /\ curState.buf = readBuf
           /\ thdState \in State /\ thdState.d = thd /\ thdState.buf = readBuf
BY DEF Inv, DiskTypes, Bounded, curState, thdState, State

LEMMA StateParts ==
    ASSUME NEW s \in State
    PROVE  s = [d |-> s.d, buf |-> s.buf] /\ s.d \in Object /\ s.buf \in Buffer
BY DEF State

LEMMA CoherentIsBounded ==
    ASSUME NEW s, Coherent(s)
    PROVE  s \in State /\ s.d \in Object /\ s.buf \in Buffer /\ Bounded(s.d)
BY StateParts DEF Coherent, Bounded

LEMMA StartTalkStep ==
    ASSUME Inv, StartTalk
    PROVE  Inv'
<1> DEFINE mounted == IF ProgramImage \in DOMAIN Images THEN Mounted(ProgramImage) ELSE NotMounted
           start == [d |-> mounted, buf |-> readBuf]
           first == SeekFirstDir(start)
<1>1. todo # <<>> /\ todo' = Tail(todo) /\ secondaryAddress' = SecondaryAddress
      /\ UNCHANGED <<inSync, status, askedToTalk, currentChannel, fileNames, curDisk>>
  BY DEF StartTalk, Hears, Heard, Sent
<1>2. Tail(todo) \in Seq(Message) /\ c \in 0..241
  BY <1>1, MessageFacts
<1>3. secondaryAddress' = 0
  BY <1>1, <1>2, SecondaryAddressIsZero
<1>4. \/ pc' = "title" /\ currentLine' = 2049 /\ UNCHANGED <<thd, readBuf>>
      \/ /\ pc' = "find" /\ currentLine' = currentLine
         /\ IF "IMAGE_OK" \in mounted.m_status
            THEN thd' = first.d /\ readBuf' = first.buf
            ELSE thd' = mounted /\ readBuf' = readBuf
  BY DEF StartTalk
<1>5. ParserTypes'
  <2>1. pc' \in {"title", "find"}
    BY <1>4
  <2> QED
    BY <1>1, <2>1 DEF Inv, ParserTypes
<1>6. NameTypes'
  <2>1. currentLine' \in Nat
    BY <1>4 DEF Inv, NameTypes
  <2> QED
    BY <1>1, <1>2, <1>3, <2>1 DEF Inv, NameTypes
<1>7. CASE pc' = "title"
  <2>1. UNCHANGED <<curDisk, thd, readBuf>>
    BY <1>1, <1>4, <1>7
  <2> QED
    BY <1>5, <1>6, <1>7, <2>1, SameDisks DEF Inv
<1>8. CASE pc' = "find"
  <2>1. readBuf \in Buffer /\ Bounded(curDisk)
    BY DEF Inv, DiskTypes
  <2>2. 0 \in 0..BufSize /\ 0 \in 0..BlockSize - 1
    BY SizeFacts
  <2>3. /\ Bounded(thd') /\ readBuf' \in Buffer
        /\ \/ Without(thd')
           \/ /\ Coherent(thdState') /\ AtEntry(thdState')
              /\ thd'.m_status = {"IMAGE_OK", "DIR_OPEN"}
    <3>1. CASE ProgramImage \in DOMAIN Images
      <4>1. /\ mounted.image = ProgramImage /\ mounted.m_readBufStart = 0
            /\ mounted.m_readBufSize = 0 /\ "IMAGE_OK" \in mounted.m_status
            /\ mounted \in Object
        BY <2>2, <3>1 DEF Mounted, Object, Status
      <4>2. start \in State /\ start.d = mounted
        BY <2>1, <4>1 DEF State
      <4>3. Fresh(start.d, Position(<<DirTrack, 1>>))
        <5>1. <<DirTrack, 1>> \in DirBlocks(ProgramImage)
          BY <3>1, DiskFacts DEF IsDirectory
        <5>2. Position(<<DirTrack, 1>>) > Bam /\ Bam \in Nat
          BY <3>1, <5>1, BamFacts
        <5>3. Position(<<DirTrack, 1>>) \in Nat
          BY <3>1, <5>1, BamFacts, BlockFacts
        <5> QED
          BY <4>1, <4>2, <5>2, <5>3 DEF Fresh
      <4>4. PICK t : t = first
        OBVIOUS
      <4> HIDE DEF mounted, start
      <4>5. Coherent(t) /\ AtEntry(t) /\ t.d.m_status = {"IMAGE_OK", "DIR_OPEN"}
        BY <3>1, <4>1, <4>2, <4>3, <4>4, SeekFirstDirCoherent
      <4>6. thd' = t.d /\ readBuf' = t.buf
        BY <1>4, <1>8, <4>1, <4>4
      <4>7. thdState' = t
        BY <4>5, <4>6, CoherentIsBounded, StateParts DEF thdState
      <4> QED
        BY <4>5, <4>6, <4>7, CoherentIsBounded
    <3>2. CASE ProgramImage \notin DOMAIN Images
      <4>1. /\ mounted \in Object /\ mounted.m_readOffset = 0 /\ mounted.m_readBufSize = 0
            /\ mounted.m_status = {}
        BY <2>2, <3>2 DEF NotMounted, Mounted, Object
      <4>2. thd' = mounted /\ readBuf' = readBuf
        BY <1>4, <1>8, <4>1
      <4> QED
        BY <2>1, <4>1, <4>2 DEF Bounded, Without
    <3> QED
      BY <3>1, <3>2
  <2>4. DiskTypes'
    BY <1>1, <2>1, <2>3 DEF DiskTypes
  <2>5. ListInv'
    BY <1>1, <1>8 DEF Inv, ListInv
  <2>6. FindInv' /\ SendInv'
    <3>1. "FILE_OPEN" \notin {"IMAGE_OK", "DIR_OPEN"}
      OBVIOUS
    <3> QED
      BY <1>8, <2>3, <3>1, Zenon DEF FindInv, SendInv
  <2> QED
    BY <1>5, <1>6, <2>4, <2>5, <2>6 DEF Inv
<1> QED
  BY <1>4, <1>7, <1>8

\* The end of doTalk(): nothing of the selected image's object changes.
LEMMA LastStep ==
    ASSUME Inv, NEW items, DeliverLast(items), curDisk' = curDisk, Bounded(thd'),
           readBuf' \in Buffer, currentLine' \in Nat
    PROVE  Inv'
<1>1. /\ todo # <<>> /\ todo' = Tail(todo) /\ pc' = "listen" /\ inSync' = FALSE
      /\ status' = "none" /\ currentChannel' = 0 /\ secondaryAddress' = 0
      /\ askedToTalk' = FALSE /\ fileNames' = fileNames
  BY DEF DeliverLast, Listening, reset
<1>2. Tail(todo) \in Seq(Message)
  BY <1>1, MessageFacts
<1>3. ParserTypes'
  BY <1>1 DEF ParserTypes
<1>4. NameTypes'
  BY <1>1, <1>2 DEF Inv, NameTypes
<1>5. DiskTypes'
  BY DEF Inv, DiskTypes
<1>6. ListInv' /\ FindInv' /\ SendInv'
  <2>1. pc' \notin {"entries", "find", "send"}
    BY <1>1
  <2> QED
    BY <2>1 DEF Inv, ListInv, FindInv, SendInv
<1> QED
  BY <1>3, <1>4, <1>5, <1>6 DEF Inv

LEMMA NoDiskStep ==
    ASSUME Inv, NoDisk \/ BlocksFree
    PROVE  Inv'
<1>1. Len(ErrorText) \in Nat /\ Len(FreeText) \in Nat /\ currentLine \in Nat
  BY DEF ErrorText, FreeText, Inv, NameTypes
<1>2. UNCHANGED <<curDisk, thd, readBuf>> /\ currentLine' \in Nat
  BY <1>1 DEF NoDisk, BlocksFree, NextLine
<1>3. Bounded(thd') /\ readBuf' \in Buffer
  BY <1>2 DEF Inv, DiskTypes
<1>4. \E items : DeliverLast(items)
  BY DEF NoDisk, BlocksFree
<1> QED
  BY <1>2, <1>3, <1>4, LastStep

LEMMA TitleStep ==
    ASSUME Inv, Title
    PROVE  Inv'
<1>1. /\ pc = "title" /\ "IMAGE_OK" \in curDisk.m_status /\ pc' = "entries"
      /\ UNCHANGED <<parserVars, thd, todo, request>>
  BY DEF Title, Deliver
<1>2. PICK tail \in Tails :
          LET t == TitleLine(curState, tail)
              next == SeekFirstDir(t.s)
          IN currentLine' = NextLine(t.line) /\ curDisk' = next.d /\ readBuf' = next.buf
  BY DEF Title
<1>3. PICK t : t = TitleLine(curState, tail)
  OBVIOUS
<1>4. PICK next : next = SeekFirstDir(t.s)
  OBVIOUS
<1>5. currentLine' = NextLine(t.line) /\ curDisk' = next.d /\ readBuf' = next.buf
  BY <1>2, <1>3, <1>4
<1>6. curState \in State /\ curState.d = curDisk
  BY DriverStates
<1>7. curDisk.image \in DOMAIN Images /\ BamSeekFresh(curDisk)
  BY <1>1 DEF Inv, ListInv
<1>8. /\ Len(t.line) \in Nat /\ Coherent(next) /\ AtEntry(next)
      /\ next.d.m_status = {"IMAGE_OK", "DIR_OPEN"}
      /\ next.d.image = curDisk.image /\ next.d.m_readBufStart > Bam
  BY <1>3, <1>4, <1>6, <1>7, TitleCoherent
<1>9. curState' = next /\ next.d \in Object /\ next.buf \in Buffer /\ Bounded(next.d)
  BY <1>5, <1>8, CoherentIsBounded, StateParts DEF curState
<1>10. ParserTypes'
  BY <1>1 DEF Inv, ParserTypes, parserVars
<1>11. NameTypes'
  <2>1. currentLine' \in Nat
    <3>1. currentLine \in Nat /\ Len(t.line) \in Nat
      BY <1>8 DEF Inv, NameTypes
    <3>2. \A n \in Nat : currentLine + 2 + 2 + 1 + n \in Nat
      BY <3>1
    <3>3. NextLine(t.line) \in Nat
      BY ONLY <3>1, <3>2, Zenon DEF NextLine
    <3> QED
      BY <1>5, <3>3, Zenon
  <2> QED
    BY <1>1, <2>1 DEF Inv, NameTypes, parserVars, nameVars
<1>12. DiskTypes'
  BY <1>1, <1>5, <1>9 DEF Inv, DiskTypes
<1>13. ListInv'
  <2>1. BamSeekFresh(next.d)
    BY <1>8 DEF BamSeekFresh, Bam
  <2>2. "IMAGE_OK" \in next.d.m_status
    BY <1>8
  <2> QED
    BY <1>5, <1>7, <1>8, <1>9, <2>1, <2>2 DEF ListInv
<1>14. FindInv' /\ SendInv'
  BY <1>1 DEF FindInv, SendInv
<1> QED
  BY <1>10, <1>11, <1>12, <1>13, <1>14 DEF Inv

LEMMA EntryStep ==
    ASSUME Inv, Entry
    PROVE  Inv'
<1>1. PICK e : e = GetDirEntry(curState)
  OBVIOUS
<1>2. /\ pc = "entries" /\ MoreDir(curDisk) /\ curDisk' = e.s.d /\ readBuf' = e.s.buf
      /\ UNCHANGED <<pc, parserVars, thd, todo>>
      /\ currentLine' \in {NextLine(EntryText(e.dir)), currentLine}
  BY <1>1 DEF Entry, Deliver, busVars
<1>3. /\ Coherent(curState) /\ AtEntry(curState) /\ "IMAGE_OK" \in curDisk.m_status
      /\ BamSeekFresh(curDisk) /\ curDisk.image \in DOMAIN Images
      /\ curState \in State /\ curState.d = curDisk
  BY <1>2, DriverStates DEF Inv, ListInv
<1>4. /\ Coherent(e.s) /\ e.s.d.image = curDisk.image
      /\ e.s.d.m_status \in {curDisk.m_status, curDisk.m_status \cup {"DIR_EOF"}}
      /\ MoreDir(e.s.d) => AtEntry(e.s)
      /\ e.s.d.m_readBufStart >= curDisk.m_readBufStart \/ e.s.d.m_readBufStart > Bam
      /\ e.dir.name \in Seq(Nat) /\ TypeMask(e.dir.type) \in Nat
  BY <1>1, <1>2, <1>3, EntryCoherent
<1>5. curState' = e.s /\ e.s.d \in Object /\ e.s.buf \in Buffer /\ Bounded(e.s.d)
  BY <1>2, <1>4, CoherentIsBounded, StateParts DEF curState
<1>6. BamSeekFresh(e.s.d)
  <2>1. curDisk.m_readBufStart > Bam
    <3>1. PICK b \in DirBlocks(curDisk.image) : Pos(curState) = Position(b) + curDisk.m_currentOffset
      BY <1>3 DEF AtEntry, InBlock
    <3>2. Position(b) > Bam /\ Bam \in Nat /\ Position(b) \in Nat
      BY <1>3, <3>1, BamFacts, BlockFacts
    <3>3. /\ curDisk.m_currentOffset \in Nat /\ curDisk.m_readOffset \in Nat
          /\ curDisk.m_readOffset <= curDisk.m_readBufSize
      BY <1>3, StateTypes, SizeFacts DEF Coherent
    <3>4. ~(curDisk.m_readBufStart = 0 /\ curDisk.m_readBufSize = 0)
      BY <1>3, <3>1, <3>2, <3>3 DEF Pos
    <3> QED
      BY <1>3, <3>4 DEF BamSeekFresh, Bam
  <2>2. e.s.d.m_readBufStart > Bam
    <3>1. Bam \in Nat
      BY <1>3, BamFacts
    <3>2. e.s.d.m_readBufStart \in Nat /\ curDisk.m_readBufStart \in Nat
      BY <1>3, <1>4, StateTypes DEF Coherent
    <3> QED
      BY <1>4, <2>1, <3>1, <3>2
  <2> QED
    BY <2>2 DEF BamSeekFresh, Bam
<1>7. ParserTypes'
  BY <1>2 DEF Inv, ParserTypes, parserVars
<1>8. NameTypes'
  <2>1. currentLine \in Nat /\ Len(EntryText(e.dir)) \in Nat
    BY <1>4, EntryTextIs DEF Inv, NameTypes
  <2>2. currentLine' \in Nat
    <3>1. currentLine' \in {currentLine + 2 + 2 + 1 + Len(EntryText(e.dir)), currentLine}
      BY <1>2 DEF NextLine
    <3> QED
      BY ONLY <2>1, <3>1
  <2> QED
    BY <1>2, <2>2 DEF Inv, NameTypes, parserVars, nameVars
<1>9. DiskTypes'
  BY <1>2, <1>5 DEF Inv, DiskTypes
<1>10. ListInv'
  <2>1. "IMAGE_OK" \in e.s.d.m_status
    BY <1>3, <1>4
  <2> QED
    BY <1>2, <1>3, <1>4, <1>5, <1>6, <2>1 DEF ListInv
<1>11. FindInv' /\ SendInv'
  BY <1>2 DEF FindInv, SendInv
<1> QED
  BY <1>7, <1>8, <1>9, <1>10, <1>11 DEF Inv

LEMMA FindStep ==
    ASSUME Inv, Find
    PROVE  Inv'
<1>1. PICK e : e = GetDirEntry(thdState)
  OBVIOUS
<1> DEFINE found == MoreDir(thd) /\ Matches(fileNames[secondaryAddress], e.dir)
<1>2. PICK s : s = IF ~MoreDir(thd) THEN thdState
                   ELSE IF found THEN OpenEntry(e.s, e.dir) ELSE e.s
  OBVIOUS
<1>3. /\ pc = "find" /\ thd' = s.d /\ readBuf' = s.buf
      /\ pc' = (IF found \/ ~MoreDir(thd) THEN "send" ELSE "find")
      /\ UNCHANGED <<parserVars, curDisk, currentLine, todo>>
  BY <1>1, <1>2 DEF Find, busVars
<1>4. /\ thdState \in State /\ thdState.d = thd /\ thdState.buf = readBuf
      /\ \/ Without(thd)
         \/ /\ Coherent(thdState) /\ (MoreDir(thd) => AtEntry(thdState))
            /\ "FILE_OPEN" \notin thd.m_status
  BY <1>3, DriverStates DEF Inv, FindInv
<1>5. /\ s \in State /\ Bounded(s.d)
      /\ pc' = "find" => /\ Coherent(s) /\ (MoreDir(s.d) => AtEntry(s))
                         /\ "FILE_OPEN" \notin s.d.m_status
      /\ pc' = "send" => Without(s.d) \/ (Coherent(s) /\ (~IsEOF(s.d) => AtFile(s)))
  <2>1. CASE ~MoreDir(thd)
    <3>1. s = thdState /\ pc' = "send"
      BY <1>2, <1>3, <2>1
    <3>2. Bounded(thd)
      BY DEF Inv, DiskTypes
    <3> QED
      BY <1>4, <3>1, <3>2 DEF IsEOF
  <2>2. CASE MoreDir(thd)
    <3>1. /\ Coherent(thdState) /\ AtEntry(thdState) /\ "FILE_OPEN" \notin thd.m_status
          /\ MoreDir(thdState.d)
      BY <1>4, <2>2 DEF Without, MoreDir
    <3>2. /\ Coherent(e.s) /\ e.s.d.image = thd.image
          /\ e.s.d.m_status \in {thd.m_status, thd.m_status \cup {"DIR_EOF"}}
          /\ MoreDir(e.s.d) => AtEntry(e.s)
          /\ TypeMask(e.dir.type) \in {SEQ, PRG} =>
                <<e.dir.track, e.dir.sector>> \in FileBlocks(thd.image)
      BY <1>1, <1>4, <3>1, EntryCoherent
    <3>3. CASE found
      <4>1. s = OpenEntry(e.s, e.dir) /\ pc' = "send"
        BY <1>2, <1>3, <2>2, <3>3
      <4>2. <<e.dir.track, e.dir.sector>> \in FileBlocks(e.s.d.image)
        BY <3>2, <3>3 DEF Matches
      <4>3. Coherent(s) /\ AtFile(s)
        BY <3>2, <4>1, <4>2, OpenEntryCoherent
      <4> QED
        BY <4>1, <4>3, CoherentIsBounded
    <3>4. CASE ~found
      <4>1. s = e.s /\ pc' = "find"
        BY <1>2, <1>3, <2>2, <3>4
      <4>2. "FILE_OPEN" \notin e.s.d.m_status
        BY <3>1, <3>2
      <4> QED
        BY <3>2, <4>1, <4>2, CoherentIsBounded
    <3> QED
      BY <3>3, <3>4
  <2> QED
    BY <2>1, <2>2
<1>6. thdState' = s
  BY <1>3, <1>5, StateParts DEF thdState
<1>7. ParserTypes'
  BY <1>3 DEF Inv, ParserTypes, parserVars
<1>8. NameTypes'
  BY <1>3 DEF Inv, NameTypes, parserVars, nameVars
<1>9. DiskTypes'
  BY <1>3, <1>5, StateParts DEF Inv, DiskTypes
<1>10. ListInv'
  BY <1>3 DEF Inv, ListInv
<1>11. FindInv' /\ SendInv'
  BY <1>3, <1>5, <1>6 DEF FindInv, SendInv
<1> QED
  BY <1>7, <1>8, <1>9, <1>10, <1>11 DEF Inv

LEMMA SendStep ==
    ASSUME Inv, SendByte \/ SendLast
    PROVE  Inv'
<1>1. PICK r : r = Getc(thdState)
  OBVIOUS
<1>2. pc = "send" /\ readBuf' = r.s.buf /\ curDisk' = curDisk /\ currentLine' = currentLine
  BY <1>1 DEF SendByte, SendLast
<1>3. /\ thdState \in State /\ thdState.d = thd /\ thdState.buf = readBuf
      /\ Without(thd) \/ (Coherent(thdState) /\ (~IsEOF(thd) => AtFile(thdState)))
  BY <1>2, DriverStates DEF Inv, SendInv
<1>4. /\ r.s \in State /\ Bounded(r.s.d)
      /\ ~IsEOF(r.s.d) => Coherent(r.s) /\ AtFile(r.s)
  <2>1. CASE IsEOF(thd)
    <3>1. r.s = thdState
      BY <1>1, <1>3, <2>1 DEF Getc
    <3>2. Bounded(thd)
      BY DEF Inv, DiskTypes
    <3> QED
      BY <1>3, <2>1, <3>1, <3>2
  <2>2. CASE ~IsEOF(thd)
    <3>1. Coherent(thdState) /\ AtFile(thdState) /\ ~IsEOF(thdState.d)
      BY <1>3, <2>2 DEF Without, IsEOF
    <3>2. Coherent(r.s) /\ (~IsEOF(r.s.d) => AtFile(r.s))
      BY <1>1, <3>1, GetcCoherent
    <3> QED
      BY <3>2, CoherentIsBounded
  <2> QED
    BY <2>1, <2>2
<1>5. CASE SendByte
  <2>1. /\ ~IsEOF(r.s.d) /\ thd' = r.s.d
        /\ UNCHANGED <<pc, parserVars, todo>>
    BY <1>1, <1>5 DEF SendByte, Deliver
  <2>2. thdState' = r.s /\ Coherent(r.s) /\ AtFile(r.s)
    BY <1>2, <1>4, <2>1, StateParts DEF thdState
  <2>3. ParserTypes'
    BY <2>1 DEF Inv, ParserTypes, parserVars
  <2>4. NameTypes'
    BY <1>2, <2>1 DEF Inv, NameTypes, parserVars, nameVars
  <2>5. DiskTypes'
    BY <1>2, <1>4, <2>1, StateParts DEF Inv, DiskTypes
  <2>6. ListInv'
    BY <1>2, <2>1 DEF Inv, ListInv
  <2>7. FindInv' /\ SendInv'
    BY <1>2, <2>1, <2>2 DEF FindInv, SendInv
  <2> QED
    BY <2>3, <2>4, <2>5, <2>6, <2>7 DEF Inv
<1>6. CASE SendLast
  <2>1. (\E items : DeliverLast(items)) /\ thd' = NotMounted
    BY <1>6 DEF SendLast
  <2>2. Bounded(NotMounted)
    <3>1. 0 \in 0..BufSize /\ 0 \in 0..BlockSize - 1
      BY SizeFacts
    <3> QED
      <4>1. NotMounted \in Object /\ NotMounted.m_readOffset = 0 /\ NotMounted.m_readBufSize = 0
        BY <3>1 DEF NotMounted, Mounted, Object
      <4> QED
        BY <4>1 DEF Bounded
  <2>3. r.s.buf \in Buffer /\ currentLine \in Nat
    BY <1>4, StateParts DEF Inv, NameTypes
  <2> QED
    BY <1>2, <2>1, <2>2, <2>3, LastStep
<1> QED
  BY <1>5, <1>6

----------------------------------------------------------------------------
(* The theorems. *)

LEMMA InvStep ==
    ASSUME Inv, [Next]_vars
    PROVE  Inv'
<1>1. CASE Begin \/ Unheard \/ Unaddressed \/ Listen \/ Talk
  BY <1>1, ListenStep
<1>2. CASE Close \/ Open \/ NoAnswer \/ NameByte
  BY <1>2, NameStep
<1>3. CASE StartTalk
  BY <1>3, StartTalkStep
<1>4. CASE Title
  BY <1>4, TitleStep
<1>5. CASE NoDisk \/ BlocksFree
  BY <1>5, NoDiskStep
<1>6. CASE Entry
  BY <1>6, EntryStep
<1>7. CASE Find
  BY <1>7, FindStep
<1>8. CASE SendByte \/ SendLast
  BY <1>8, SendStep
<1>9. CASE UNCHANGED vars
  <2>1. UNCHANGED <<pc, curDisk, thd, readBuf>>
    BY <1>9 DEF vars, diskVars
  <2>2. ParserTypes' /\ NameTypes'
    BY <1>9 DEF Inv, ParserTypes, NameTypes, vars, parserVars, nameVars, diskVars, busVars
  <2> QED
    BY <2>1, <2>2, SameDisks DEF Inv
<1> QED
  BY <1>1, <1>2, <1>3, <1>4, <1>5, <1>6, <1>7, <1>8, <1>9 DEF Next, addByte, doTalk

\* The inductive invariant: between two steps a driver object in use knows where it
\* is in the image and in the chain of blocks, and the part of the buffer it will
\* read holds those bytes (d64driver.cpp:313-345, 173-206, SerialCommand.cpp:33-116).
THEOREM InvHolds == Spec => []Inv
<1>1. Init => Inv
  BY InitInv
<1>2. Inv /\ [Next]_vars => Inv'
  BY InvStep
<1> QED
  BY <1>1, <1>2, PTL DEF Spec

\* The parser's variables and the positions of the driver objects keep their ranges
\* (SerialCommand.h:120-133, d64driver.h:167-176): no offset leaves the buffer or the
\* block.
THEOREM TypeCorrect == Spec => []TypeOK
<1>1. Inv => TypeOK
  <2> SUFFICES ASSUME Inv PROVE TypeOK
    OBVIOUS
  <2>1. /\ ParserTypes /\ secondaryAddress \in 0..31 /\ currentChannel \in 0..1
        /\ (\A n \in 0..1 : fileNames[n] \in Seq(0..255)) /\ currentLine \in Nat
    BY DEF Inv, NameTypes
  <2>2. ASSUME NEW d, Bounded(d)
        PROVE  /\ d.m_readOffset \in 0..d.m_readBufSize /\ d.m_readBufSize \in 0..BufSize
               /\ d.m_currentOffset \in 0..BlockSize - 1 /\ d.m_readBufStart \in Nat
    <3>1. /\ d.m_readOffset \in 0..BufSize /\ d.m_readBufSize \in 0..BufSize
          /\ d.m_readOffset <= d.m_readBufSize
          /\ d.m_currentOffset \in 0..BlockSize - 1 /\ d.m_readBufStart \in Nat
      BY <2>2 DEF Bounded, Object
    <3> QED
      BY <3>1, SizeFacts
  <2>3. Bounded(curDisk) /\ Bounded(thd)
    BY DEF Inv, DiskTypes
  <2> QED
    BY <2>1, <2>2, <2>3 DEF ParserTypes, TypeOK
<1> QED
  BY <1>1, InvHolds, PTL

\* While a listing or a file is sent, the object that reads it takes from the shared
\* buffer the bytes of its own image, for every image and every sequence of sessions
\* (d64driver.cpp:6, 313-345).
THEOREM CacheIsCoherent == Spec => []CacheCoherent
<1>1. Inv => CacheCoherent
  <2> SUFFICES ASSUME Inv PROVE CacheCoherent
    OBVIOUS
  <2>1. ASSUME NEW s, Coherent(s), s.buf = readBuf
        PROVE  Cached(s.d)
    <3>1. s.d.m_readOffset \in 0..BufSize /\ s.d.m_readBufSize \in 0..BufSize
      BY <2>1, StateTypes DEF Coherent
    <3>2. \A i \in s.d.m_readOffset..s.d.m_readBufSize - 1 : i \in 0..s.d.m_readBufSize - 1
      BY <3>1
    <3> QED
      BY <2>1, <3>2 DEF Coherent, Cached
  <2>2. ASSUME NEW d, Bounded(d), Without(d)
        PROVE  Cached(d)
    <3>1. d.m_readOffset \in 0..BufSize /\ d.m_readBufSize = 0
      BY <2>2 DEF Bounded, Object, Without
    <3>2. d.m_readOffset..d.m_readBufSize - 1 = {}
      BY <3>1, SizeFacts
    <3> QED
      BY <3>2 DEF Cached
  <2>3. /\ curState.d = curDisk /\ curState.buf = readBuf
        /\ thdState.d = thd /\ thdState.buf = readBuf /\ Bounded(thd)
    BY DriverStates DEF Inv, DiskTypes
  <2>4. pc = "entries" => Cached(curDisk)
    BY <2>1, <2>3 DEF Inv, ListInv
  <2>5. pc \in {"find", "send"} => Cached(thd)
    BY <2>1, <2>2, <2>3 DEF Inv, FindInv, SendInv
  <2> QED
    BY <2>4, <2>5 DEF CacheCoherent
<1> QED
  BY <1>1, InvHolds, PTL
=============================================================================
