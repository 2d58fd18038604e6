---------------------------- MODULE DiskService ----------------------------
(***************************************************************************)
(* What the disk drive promises to the C64: a request for a file is        *)
(* answered with the bytes of the first file its name matches, block after *)
(* block, and a request for the directory with one BASIC line per valid    *)
(* entry, between the title and the free blocks.  The contents of an image *)
(* are read here from its blocks, without cache, buffer or position.       *)
(***************************************************************************)
EXTENDS D64

CONSTANT ProgramImage        \* the image that files are loaded from

VARIABLES
    disk,        \* the image whose directory is shown; "" if there is none
    request,     \* the name the C64 asked for; <<>> if it asked for nothing
    waiting,     \* the C64 waits for the rest of the answer
    got          \* the answer so far: bytes of a file, or lines

vars == <<disk, request, waiting, got>>

----------------------------------------------------------------------------
(* The contents of an image. *)

\* The sectors of the tracks before track t, counted one by one.
SectorsBefore(t) ==
    Cardinality({b \in (1..t - 1) \X (0..255) : b[2] < SectorsPerTrack[b[1]]})
BlockBytes(img, t, k) ==
    SubSeq(Images[img], BlockSize * (SectorsBefore(t) + k) + 1, BlockSize * (SectorsBefore(t) + k + 1))

\* The blocks from <<t, k>> on: each begins with the place of the next.
Chain(img, t, k) ==
    LET blocks == ImageSize(img) \div BlockSize
        walk[n \in 1..blocks] ==
            IF n = 1 THEN BlockBytes(img, t, k)
            ELSE LET before == walk[n - 1]
                 IN IF before = <<>> \/ before[1] = 0 THEN <<>>
                    ELSE BlockBytes(img, before[1], before[2])
    IN SelectSeq(walk, LAMBDA b : b # <<>>)

FileBytes(img, t, k) ==
    LET blocks == Chain(img, t, k)
    IN FlattenSeq([i \in DOMAIN blocks |-> SubSeq(blocks[i], 3, BlockSize)])

\* The entries of a block of the directory, each of the same size, after the link.
EntriesOf(block) ==
    [e \in 1..BlockSize \div EntrySize |->
        LET at == EntrySize * (e - 1)
        IN [type |-> block[at + 3], track |-> block[at + 4], sector |-> block[at + 5],
            name |-> SubSeq(block, at + 6, at + 5 + NameLen),
            blocks |-> block[at + EntrySize - 1] + 256 * block[at + EntrySize]]]

Entries(img) ==
    LET blocks == Chain(img, DirTrack, 1)
    IN FlattenSeq([i \in DOMAIN blocks |-> EntriesOf(blocks[i])])

\* The names a pattern stands for: completed to a full name, "?" being any character.
\* No name has more than NameLen characters, and a shifted character (128 and above)
\* stands for none.
Completed(pattern) ==
    LET any == [i \in 1..NameLen + 1 |-> Quest]
        star == SelectInSeq(pattern, LAMBDA c : c = Star)
    IN IF star > 0 THEN SubSeq(pattern, 1, star - 1) \o any
       ELSE IF Len(pattern) < NameLen THEN pattern \o <<Pad>> \o any
       ELSE pattern \o any
Shifted == 128..255
StandsFor(pattern, name) ==
    LET full == Completed(pattern)
    IN /\ \A i \in 1..NameLen : full[i] \in {Quest, name[i]}
       /\ full[NameLen + 1] = Quest
       /\ \A i \in 1..Lesser(Len(pattern), NameLen) : full[i] \notin Shifted

Programs(pattern) ==
    IF ProgramImage \notin DOMAIN Images THEN <<>>
    ELSE SelectSeq(Entries(ProgramImage),
                   LAMBDA e : e.type % 8 \in {SEQ, PRG} /\ StandsFor(CString(pattern), e.name))

FileAnswer(pattern) ==
    IF Programs(pattern) = <<>> THEN <<0>>
    ELSE FileBytes(ProgramImage, Head(Programs(pattern)).track, Head(Programs(pattern)).sector)

----------------------------------------------------------------------------
(* A listing: lines of a BASIC program at 2049.  The answer begins with    *)
(* that address.  A line is the address of the next, its number in two     *)
(* bytes, its text and a NUL.                                              *)

IsListing(name) == name # <<>> /\ Head(name) = 36
ProgramEnd == <<0, 0>>
BasicStart == <<1, 8>>

Body(number, text) == <<number % 256, number \div 256>> \o text \o <<0>>
Bodies(img) ==
    IF img = "" THEN <<Body(0, ErrorText)>>
    ELSE LET valid == SelectSeq(Entries(img), LAMBDA e : e.track # 0)
         IN [i \in DOMAIN valid |-> Body(valid[i].blocks, EntryText(valid[i]))]
            \o <<Body(0, FreeText)>>

\* The title is not described: <<>> stands for it.
Described(img, lines) ==
    [i \in DOMAIN lines |-> IF i = 1 /\ img # "" THEN <<>> ELSE SubSeq(lines[i], 3, Len(lines[i]))]
Expected(img) == IF img = "" THEN Bodies(img) ELSE <<<<>>>> \o Bodies(img)

LinesOf(answer) == SelectSeq(Tail(answer), LAMBDA line : line # ProgramEnd)

\* Each line points to where the next one will be in the memory of the C64.
WellLinked(lines) ==
    \A i \in DOMAIN lines :
        lines[i][1] + 256 * lines[i][2] = 2049 + Len(FlattenSeq(SubSeq(lines, 1, i)))

Right(img, name, answer) ==
    IF IsListing(name)
    THEN /\ Head(answer) = BasicStart /\ WellLinked(LinesOf(answer))
         /\ IsPrefix(Described(img, LinesOf(answer)), Expected(img))
    ELSE IsPrefix(answer, FileAnswer(name))

Complete(img, name, answer) ==
    IF IsListing(name)
    THEN /\ WellLinked(LinesOf(answer))
         /\ Described(img, LinesOf(answer)) = Expected(img)
         /\ answer = <<BasicStart>> \o LinesOf(answer) \o <<ProgramEnd>>
    ELSE answer = FileAnswer(name)

----------------------------------------------------------------------------
Init == ~waiting /\ got = <<>> /\ request = <<>>

\* The C64 does something on the bus: it asks for a name, or nothing.
Ask ==
    /\ ~waiting /\ waiting' = (request' # <<>>) /\ got' = <<>>
    /\ UNCHANGED disk

Part ==
    /\ waiting /\ waiting'
    /\ got # got' /\ IsPrefix(got, got') /\ Right(disk, request, got')
    /\ UNCHANGED <<disk, request>>

\* The last part of the answer, sent with EOI.
End ==
    /\ waiting /\ ~waiting'
    /\ got # got' /\ IsPrefix(got, got') /\ Complete(disk, request, got')
    /\ UNCHANGED <<disk, request>>

Next == Ask \/ Part \/ End

Spec == Init /\ [][Next]_vars
=============================================================================
