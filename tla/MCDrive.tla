------------------------------ MODULE MCDrive ------------------------------
(***************************************************************************)
(* Two small disk images with different contents.  A disk of three tracks  *)
(* of 3, 4 and 2 sectors of 18 bytes: as on a real one the size of the     *)
(* image is negative as an int, the buffer holds four blocks, and the      *)
(* directory's second block, two sectors after its first, is still in      *)
(* the buffer that is filled from the disk name on.  A block of the        *)
(* directory has two entries.                                              *)
(***************************************************************************)
EXTENDS Drive

MCSectors == <<3, 4, 2>>

\* An entry, the two bytes before the next one included.
DirEntry(type, track, sector, name, blocks) == <<type, track, sector>> \o name \o <<blocks, 0>>
Skip == <<0, 0>>

\* A block of a file: a link and 16 bytes that depend on the image and the block.
FileBlock(link, id) == link \o [i \in 1..16 |-> id + i]

A == 65
B == 66
C == 67

\* Track 1 holds B, and the first block of A; track 3 its second block; the BAM
\* has the disk name from byte 9 on.
Bam(id) == <<2, 1>> \o [i \in 1..7 |-> id + i] \o <<68, Pad, Pad, 50, 65>> \o [i \in 1..4 |-> 0]
MCImage(id, first, second, third) ==
    FileBlock(<<0, 17>>, id) \o FileBlock(<<3, 1>>, id + 20) \o FileBlock(<<1, 0>>, id + 40)
    \o Bam(id)
    \o <<2, 3>> \o DirEntry(0, 0, 0, <<Pad, Pad>>, 0) \o Skip \o DirEntry(129, 1, 1, first, 2)
    \o FileBlock(<<0, 17>>, id + 60)
    \o <<0, 255>> \o DirEntry(130, 1, 0, second, 1) \o Skip \o DirEntry(194, 1, 2, third, 2)
    \o FileBlock(<<0, 17>>, id + 80) \o FileBlock(<<0, 17>>, id + 100)

\* A shifted letter, as in a name typed with SHIFT.
ShiftA == 193

MCImages == [cur |-> MCImage(0, <<A, Pad>>, <<B, B>>, <<A, C>>),
             blast |-> MCImage(100, <<C, Pad>>, <<A, B>>, <<A, ShiftA>>)]

MCTails == {<<>>, <<7>>}

MCInitialNames == {<<>>}

Dir == <<36>>
MCReads == {Load(n) : n \in {Dir, <<A, B>>, <<C>>, <<A>>, <<A, Star>>, <<Quest, B>>, <<Star>>,
                              <<A, ShiftA>>, <<A, B, Quest>>, <<A, B, C>>}}
MCStar == {Load(<<Star>>)}

\* Other traffic: bytes the drive mistakes for CLOSE or for nothing.
MCSessions == MCReads \cup {Printer(<<A, 230, B>>), Printer(<<A, B>>), Save(<<A>>, <<A, 100>>)}

\* Data for the printer that ends like an OPEN.
MCPrinting == {Load(<<C>>), Printer(<<A, 240>>)}
============================================================================
