-------------------------------- MODULE D64 --------------------------------
(***************************************************************************)
(* The D64 disk-image driver (class D64): a byte cache over the image file *)
(* on the SD card, the blocks of the disk and their links, the directory   *)
(* and open files.  The driver's operations are functions of               *)
(*     s = [d |-> an object of class D64, buf |-> readBuf]                 *)
(* because readBuf is one static array that all objects share.  The bytes  *)
(* of an image are numbers; sizes are parameters.                          *)
(***************************************************************************)
EXTENDS Integers, SequencesExt

CONSTANTS
    BlockSize,        \* D64_BLOCK_SIZE (256)
    BufSize,          \* sizeof(readBuf) (1024)
    SectorsPerTrack,  \* sectorsPerTrack, a sequence
    DirTrack,         \* track 18: BAM in sector 0, directory from sector 1
    DiskNameOffset,   \* D64_BAM_DISKNAME_OFFSET (0x90)
    NameLen,          \* characters of a file name (16)
    RestLen,          \* bytes of an entry after the name (11), the last two its size
    TitleRest,        \* characters of the title line after the disk name (7)
    Tails,            \* what may follow the unterminated title line in memory
    IntSpan,          \* values of an int (2^16): m_hostSize is one
    Images            \* name of an image file -> its bytes, a function on 0..n-1

ImageSize(img) == Len(Images[img])
ByteAt(img, a) == Images[img][a + 1]

ASSUME GeometryAssumption ==
    /\ BlockSize \in Nat \ {0} /\ BufSize \in Nat \ {0} /\ NameLen \in Nat \ {0}
    /\ RestLen \in Nat \ {0, 1} /\ TitleRest \in Nat \ {0}
    /\ IntSpan \in Nat \ {0} /\ Tails \subseteq Seq(Nat)
    /\ DiskNameOffset \in 3..BlockSize - NameLen - TitleRest

\* An entry of the directory, and the two bytes before it.
EntrySize == NameLen + RestLen + 5
ASSUME EntryAssumption == BlockSize % EntrySize = 0

\* A file size stored in an int.
ToInt(n) == IF n % IntSpan < IntSpan \div 2 THEN n % IntSpan ELSE (n % IntSpan) - IntSpan

Lesser(a, b) == IF a <= b THEN a ELSE b

----------------------------------------------------------------------------
(* The host file and its cache. *)

\* D64::mount of an image that opens; a new object (its status was NOT_READY).
Mounted(img) ==
    [image |-> img, fpos |-> 0, m_readBufStart |-> 0, m_readBufSize |-> 0, m_readOffset |-> 0,
     m_status |-> {"IMAGE_OK"}, m_currentOffset |-> 0,
     m_currentLinkTrack |-> 0, m_currentLinkSector |-> 0]

\* An object without an image.
NotMounted == [Mounted("") EXCEPT !.m_status = {}]

HostReadBuffer(s, pos) ==
    LET n == Lesser(BufSize, ImageSize(s.d.image) - s.d.fpos)
    IN [d   |-> [s.d EXCEPT !.m_readBufStart = pos, !.m_readBufSize = n, !.m_readOffset = 0,
                            !.fpos = @ + n],
        buf |-> [i \in 0..BufSize - 1 |->
                    IF i < n THEN ByteAt(s.d.image, s.d.fpos + i) ELSE s.buf[i]]]

\* The byte at the offset.  The test for the end of the file compares an offset
\* in the buffer with the truncated size of the file.
TakeByte(s) ==
    IF s.d.m_readOffset = ToInt(ImageSize(s.d.image))
    THEN [s |-> [s EXCEPT !.d.m_status = {"FILE_EOF"}], c |-> 0]
    ELSE [s |-> [s EXCEPT !.d.m_readOffset = @ + 1], c |-> s.buf[s.d.m_readOffset]]

\* hostReadByte: [s, c].
HostReadByte(s) ==
    TakeByte(IF s.d.m_readOffset = s.d.m_readBufSize
             THEN HostReadBuffer(s, s.d.m_readOffset + s.d.m_readBufStart) ELSE s)

\* n calls of hostReadByte: [s, bytes].
Appended(bytes, r) == [s |-> r.s, bytes |-> Append(bytes, r.c)]
ReadAnother(before) == Appended(before.bytes, HostReadByte(before.s))
HostReadBytes(s, n) ==
    LET read[k \in 0..n] == IF k = 0 THEN [s |-> s, bytes |-> <<>>] ELSE ReadAnother(read[k - 1])
    IN read[n]

\* m_hostFile.seek fails beyond the end of the file and leaves the position.
FileSeek(d, pos) == IF pos <= ImageSize(d.image) THEN pos ELSE d.fpos

HostSeek(s, pos) ==
    IF pos < s.d.m_readBufStart \/ s.d.m_readBufStart + s.d.m_readBufSize < pos
    THEN [s EXCEPT !.d.m_readBufStart = pos, !.d.m_readBufSize = 0, !.d.m_readOffset = 0,
                   !.d.fpos = FileSeek(s.d, pos)]
    ELSE [s EXCEPT !.d.m_readOffset = pos - s.d.m_readBufStart]

\* hostSeek(pos, relative = true): the new offset in the buffer is compared with
\* positions in the file.
HostSeekRelative(s, pos) ==
    LET offset == s.d.m_readOffset + pos
        start  == s.d.m_readBufStart + pos
    IN IF offset < s.d.m_readBufStart \/ offset > s.d.m_readBufStart + s.d.m_readBufSize
       THEN [s EXCEPT !.d.m_readBufStart = start, !.d.m_readBufSize = 0, !.d.m_readOffset = 0,
                      !.d.fpos = FileSeek(s.d, start)]
       ELSE [s EXCEPT !.d.m_readOffset = offset]

----------------------------------------------------------------------------
(* Blocks. *)

\* The sectors before a track, and the position of a block in the image.
FirstSector[t \in 1..Len(SectorsPerTrack) + 1] ==
    IF t = 1 THEN 0 ELSE FirstSector[t - 1] + SectorsPerTrack[t - 1]
BlockOffset(track, sector) == (FirstSector[track] + sector) * BlockSize

\* absOffset < m_hostSize is a comparison of unsigned longs, in which a negative
\* m_hostSize is larger than any offset.
WithinHost(d, offset) ==
    LET hostSize == ToInt(ImageSize(d.image)) IN hostSize < 0 \/ offset < hostSize

\* Mutant: a link to track 0 is not stored.
AtBlock_KeepsLink(r) ==
    IF r.bytes[1] = 0 THEN [r.s EXCEPT !.d.m_currentOffset = 2]
    ELSE [r.s EXCEPT !.d.m_currentLinkTrack = r.bytes[1], !.d.m_currentLinkSector = r.bytes[2],
                     !.d.m_currentOffset = 2]

\* The first two bytes of a block, its link, have been read.
AtBlock(r) ==
    [r.s EXCEPT !.d.m_currentLinkTrack = r.bytes[1], !.d.m_currentLinkSector = r.bytes[2],
                !.d.m_currentOffset = 2]

SeekBlock(s, track, sector) ==
    IF WithinHost(s.d, BlockOffset(track, sector))
    THEN AtBlock(HostReadBytes(HostSeek(s, BlockOffset(track, sector)), 2))
    ELSE [s EXCEPT !.d.m_status = {}]

SeekNextBlock(s) == SeekBlock(s, s.d.m_currentLinkTrack, s.d.m_currentLinkSector)

\* Mutant: the seek to the disk name repaired by an absolute seek.
SeekToDiskName_Absolute(s) ==
    LET t == HostSeek(SeekBlock(s, DirTrack, 0), BlockOffset(DirTrack, 0) + DiskNameOffset)
    IN [t EXCEPT !.d.m_status = {"IMAGE_OK"}]

\* seekToDiskName: the relative seek is meant to start two bytes into the block.
SeekToDiskName(s) ==
    LET t == HostSeekRelative(SeekBlock(s, DirTrack, 0), DiskNameOffset - 2)
    IN [t EXCEPT !.d.m_status = {"IMAGE_OK"}]

----------------------------------------------------------------------------
(* The directory. *)

\* A C string: the characters before the first NUL.
UpTo(ends, str) ==
    SelectInSeq(str, LAMBDA c : c \in ends)
CString(str) == IF 0 \in Range(str) THEN SubSeq(str, 1, UpTo({0}, str) - 1) ELSE str

Pad == 160            \* 0xA0, which fills a name up
Star == 42
Quest == 63
SEQ == 1
PRG == 2
TypeMask(type) == type % 8      \* type & FILE_TYPE_MASK

SeekFirstDir(s) ==
    LET t == SeekBlock(s, DirTrack, 1)
    IN [t EXCEPT !.d.m_status = {"IMAGE_OK", "DIR_OPEN"}]

MoreDir(d) == {"IMAGE_OK", "DIR_OPEN"} \subseteq d.m_status /\ "DIR_EOF" \notin d.m_status

\* The entry in the bytes b.
EntryIn(b) ==
    [type |-> b[1], track |-> b[2], sector |-> b[3], name |-> SubSeq(b, 4, 3 + NameLen),
     blocks |-> b[Len(b) - 1] + 256 * b[Len(b)]]

\* After an entry, t: the next block, or the two bytes before the next entry.
\* m_currentOffset is a byte: it is 0 after the last entry of a block.
PassEntry(t, skip) ==
    IF t.d.m_currentOffset = 0
    THEN IF t.d.m_currentLinkTrack # 0 THEN SeekNextBlock(t)
         ELSE [t EXCEPT !.d.m_status = @ \cup {"DIR_EOF"}]
    ELSE [skip.s EXCEPT
             !.d.m_currentOffset = (@ + 2) % BlockSize,
             !.d.m_status = IF skip.bytes = <<0, 255>> THEN @ \cup {"DIR_EOF"} ELSE @]

\* Mutant: the offset in the block is wider than a byte and does not wrap.
EntryRead_WideOffset(e) ==
    [dir |-> EntryIn(e.bytes),
     s |-> [HostReadBytes(e.s, 2).s EXCEPT !.d.m_currentOffset = @ + Len(e.bytes) + 2]]

\* getDirEntry, when its first test passes: [s, dir].
EntryRead(e) ==
    LET t == [e.s EXCEPT !.d.m_currentOffset = (@ + Len(e.bytes)) % BlockSize]
    IN [dir |-> EntryIn(e.bytes), s |-> PassEntry(t, HostReadBytes(t, 2))]
GetDirEntry(s) == EntryRead(HostReadBytes(s, 3 + NameLen + RestLen))

\* strlen(fileName), capped at sizeof(m_name), which has room for a NUL.
PatternLength(pattern) == Lesser(Len(CString(pattern)), NameLen + 1)
NameChar(dir, i) == IF i = NameLen + 1 THEN 0 ELSE dir.name[i]

\* fileName[i] == m_name[i]: a char, which is signed, is negative from 128 on and is
\* never equal to a uchar.
SameChar(char, uchar) == char < 128 /\ char = uchar

\* No "*" at or before place i: the loop of fopen gets there.
Reached(pattern, i) == \A k \in 1..i : pattern[k] # Star

\* Mutant: a name need not end where the pattern does.
Matches_Prefix(pattern, dir) ==
    /\ TypeMask(dir.type) \in {SEQ, PRG}
    /\ \A i \in 1..PatternLength(pattern) : Reached(pattern, i) =>
          pattern[i] = Quest \/ SameChar(pattern[i], NameChar(dir, i))

\* The comparison of fopen: "?" stands for any character, "*" ends it, and a
\* pattern shorter than a name must end where the name does.
Matches(pattern, dir) ==
    LET len == PatternLength(pattern)
    IN /\ TypeMask(dir.type) \in {SEQ, PRG}
       /\ \A i \in 1..len : Reached(pattern, i) =>
             pattern[i] = Quest \/ SameChar(pattern[i], NameChar(dir, i))
       /\ Reached(pattern, len) /\ len < NameLen => dir.name[len + 1] = Pad

----------------------------------------------------------------------------
(* The lines of a listing. *)

Quote == 34
Space == 32
FreeText == <<66, 70>>     \* "BLOCKS FREE."
ErrorText == <<69>>        \* "ERROR: D64"

\* A file name ends at a Pad.  A name of full length has none, and a NUL hides
\* its closing quote.
Quoted(name) ==
    LET end == UpTo({Pad, 0}, name \o <<0>>)
    IN <<Quote>> \o SubSeq(name, 1, end - 1)
       \o (IF end <= Len(name) /\ name[end] = Pad THEN <<Quote>> ELSE <<>>)

\* The type's name (one token), locked and splat; 0x40 and 0x80 are flags of a type.
EntryText(dir) ==
    Quoted(dir.name) \o <<Space, 200 + Lesser(TypeMask(dir.type), 5),
                          IF (dir.type \div 64) % 2 = 1 THEN 60 ELSE Space,
                          IF dir.type \div 128 = 1 THEN Space ELSE 42>>

\* The title line: [s, line].  line[25] holds no NUL of its own: the string goes
\* on in what follows it in memory.
TitleText(bytes) ==
    <<18, Quote>> \o [i \in 1..Len(bytes) |->
                        IF i = NameLen + 1 THEN Quote
                        ELSE IF bytes[i] = Pad THEN Space ELSE bytes[i]]
TitleLine(s, tail) ==
    LET r == HostReadBytes(SeekToDiskName(s), NameLen + TitleRest)
    IN [s |-> r.s, line |-> CString(TitleText(r.bytes) \o tail)]

----------------------------------------------------------------------------
(* Files. *)

\* The end of fopen, when an entry was found.
OpenEntry(s, dir) ==
    LET t == SeekBlock(s, dir.track, dir.sector)
    IN [t EXCEPT !.d.m_status = {"IMAGE_OK", "FILE_OPEN"}]

IsEOF(d) == ~({"IMAGE_OK", "FILE_OPEN"} \subseteq d.m_status) \/ "FILE_EOF" \in d.m_status

\* After a byte of a file: the next byte, the next block or the end.
PassByte(t) ==
    IF t.d.m_currentOffset # BlockSize - 1 THEN [t EXCEPT !.d.m_currentOffset = @ + 1]
    ELSE IF t.d.m_currentLinkTrack # 0 THEN SeekNextBlock(t)
    ELSE [t EXCEPT !.d.m_status = @ \cup {"FILE_EOF"}]

\* getc: [s, c].
Getc(s) ==
    IF IsEOF(s.d) THEN [s |-> s, c |-> 0]
    ELSE LET r == HostReadByte(s) IN [c |-> r.c, s |-> PassByte(r.s)]

----------------------------------------------------------------------------
(* What an image is.  The driver checks nothing of this. *)

Position(b) == BlockOffset(b[1], b[2])
Blocks(img) ==
    {b \in (1..Len(SectorsPerTrack)) \X (0..255) :
        /\ b[2] < SectorsPerTrack[b[1]]
        /\ Position(b) \in 0..ImageSize(img) - BlockSize}

\* Each link from a block of the set leads to a block of the set, or nowhere.
Link(img, b) == <<ByteAt(img, Position(b)), ByteAt(img, Position(b) + 1)>>
Linked(img, set) == \A b \in set : Link(img, b)[1] # 0 => Link(img, b) \in set

\* Where entry e of a directory block is; its file, if it has one, begins in the set.
EntryPosition(b, e) == Position(b) + 2 + EntrySize * e
FileIn(img, pos, set) ==
    TypeMask(ByteAt(img, pos)) \in {SEQ, PRG} =>
        <<ByteAt(img, pos + 1), ByteAt(img, pos + 2)>> \in set

\* The directory is on track 18, after the BAM.  The 174848 bytes of an image are a
\* negative int.
IsDirectory(img, dir) ==
    /\ <<DirTrack, 1>> \in dir /\ Linked(img, dir)
    /\ \A b \in dir : Position(b) > Position(<<DirTrack, 0>>)
HasFiles(img, dir, files) ==
    /\ Linked(img, files)
    /\ \A b \in dir : \A e \in 0..BlockSize \div EntrySize - 1 :
          FileIn(img, EntryPosition(b, e), files)
ASSUME ImageAssumption ==
    \A img \in DOMAIN Images :
        /\ img # "" /\ Images[img] \in Seq(Nat) /\ ToInt(ImageSize(img)) < 0
        /\ <<DirTrack, 0>> \in Blocks(img) /\ Position(<<DirTrack, 0>>) > DiskNameOffset
        /\ \E dir \in SUBSET Blocks(img) :
              /\ IsDirectory(img, dir)
              /\ \E files \in SUBSET Blocks(img) : HasFiles(img, dir, files)
============================================================================
