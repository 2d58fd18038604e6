--------------------------- MODULE BrowserProofs ---------------------------
(***************************************************************************)
(* Theorems about Browser, for every card and every length of a page: the  *)
(* page in memory is the page of the directory the user is in, and what    *)
(* the player opens is a tape of the card.                                 *)
(***************************************************************************)
EXTENDS Browser, SequenceTheorems, TLAPS

(* What holds besides TypeOK. *)

Entry == File \cup {Dot, DotDot}
Opened == [by : {"play_file", "drive"}, path : Seq(Names)]

ControlTypes ==
    /\ status \in {0, 1, 10} /\ screen \in {"list", "buttons", "name"}
    /\ touchStart \in 0..5 /\ playing \in {0, 1}
DirTypes ==
    /\ firstFileIndex \in Nat /\ nDirFiles \in Nat /\ currentFiles \in Seq(Entry)
    /\ nFiles <= FILELIST_NFILES /\ firstFileIndex + nFiles <= nDirFiles
GameTypes == selectedGame \in Names \cup {""} /\ opened \in Seq(Opened)

\* While the buttons are shown, the game is a tape of the directory.
Tape(path, name) == [name |-> name, type |-> "TAP"] \in Range(Card[path])
GameInv == status = 1 => Tape(currentPath, selectedGame)

DirInv == DirTypes /\ ListIsPage
OpenInv == GameTypes /\ GameInv /\ PlaysTapes
Inv == ControlTypes /\ DirInv /\ OpenInv

----------------------------------------------------------------------------
(* Directories and pages. *)

LEMMA CardFacts ==
    ASSUME NEW path \in DOMAIN Card
    PROVE  /\ path \in Seq(Names) /\ Card[path] \in Seq(File)
           /\ path # <<>> => Front(path) \in DOMAIN Card
           /\ \A i \in 1..Len(Card[path]) :
                 Card[path][i].type = "dir" => Append(path, Card[path][i].name) \in DOMAIN Card
<1>1. /\ path \in Seq(Names) /\ Card[path] \in Seq(File)
      /\ path # <<>> => Front(path) \in DOMAIN Card
  BY CardAssumption
<1>2. DOMAIN Card[path] = 1..Len(Card[path])
  BY <1>1
<1> QED
  BY <1>1, <1>2, CardAssumption

\* The entries of a directory: "." and "..", and the files of the card.
LEMMA DirectoryFacts ==
    ASSUME NEW path \in DOMAIN Card
    PROVE  /\ Directory(path) \in Seq(Entry) /\ Len(Directory(path)) = Len(Card[path]) + 2
           /\ Len(Card[path]) \in Nat
           /\ Directory(path)[1] = Dot /\ Directory(path)[2] = DotDot
           /\ \A i \in 1..Len(Card[path]) : Directory(path)[i + 2] = Card[path][i]
<1>1. Dot \in Entry /\ DotDot \in Entry
  BY DEF Entry
<1>2. Card[path] \in Seq(Entry)
  BY CardFacts, SeqMonotonic DEF Entry
<1> DEFINE two == <<Dot, DotDot>>
<1>3. two \in Seq(Entry) /\ Len(two) = 2 /\ two[1] = Dot /\ two[2] = DotDot
  BY <1>1
<1>4. Directory(path) = two \o Card[path]
  BY DEF Directory
<1> HIDE DEF two
<1>5. /\ Directory(path) \in Seq(Entry) /\ Len(Directory(path)) = 2 + Len(Card[path])
      /\ \A i \in 1..2 + Len(Card[path]) :
            Directory(path)[i] = IF i <= 2 THEN two[i] ELSE Card[path][i - 2]
  <2>1. /\ two \o Card[path] \in Seq(Entry)
        /\ Len(two \o Card[path]) = Len(two) + Len(Card[path])
        /\ \A i \in 1..Len(two) + Len(Card[path]) : (two \o Card[path])[i] =
              IF i <= Len(two) THEN two[i] ELSE Card[path][i - Len(two)]
    BY <1>2, <1>3, ConcatProperties
  <2> QED
    BY <1>3, <1>4, <2>1
<1>6. Len(Card[path]) \in Nat
  BY <1>2
<1> QED
  BY <1>3, <1>5, <1>6

\* An entry is a directory that is ".", ".." or on the card, or a file on the card.
LEMMA EntryFacts ==
    ASSUME NEW path \in DOMAIN Card, NEW i \in 1..Len(Directory(path))
    PROVE  /\ Directory(path)[i] = DotDot => i = 2
           /\ Directory(path)[i] \notin {Dot, DotDot} =>
                 \E j \in 1..Len(Card[path]) :
                    Directory(path)[i] = Card[path][j] /\ Card[path][j] \in File
<1>1. Dot # DotDot /\ Dot.name = "." /\ DotDot.name = ".."
  BY DEF Dot, DotDot
<1>2. CASE i \in {1, 2}
  BY <1>1, <1>2, DirectoryFacts
<1>3. CASE i \notin {1, 2}
  <2>1. PICK j \in 1..Len(Card[path]) : i = j + 2
    <3>1. i - 2 \in 1..Len(Card[path]) /\ i = (i - 2) + 2
      BY <1>3, DirectoryFacts
    <3> QED
      BY <3>1
  <2>2. Directory(path)[i] = Card[path][j]
    BY <2>1, DirectoryFacts
  <2>3. Card[path][j] \in File
    BY <2>1, CardFacts, ElementOfSeq
  <2>4. Card[path][j].name \in Names
    BY <2>3 DEF File
  <2>5. Card[path][j] # DotDot
    BY <1>1, <2>4, CardAssumption
  <2> QED
    BY <2>2, <2>3, <2>5
<1> QED
  BY <1>2, <1>3

LEMMA RangeOf ==
    ASSUME NEW S, NEW s \in Seq(S)
    PROVE  Range(s) = {s[i] : i \in 1..Len(s)}
  BY DEF Range

LEMMA AppendFacts ==
    ASSUME NEW S, NEW s \in Seq(S), NEW e \in S
    PROVE  /\ Append(s, e) \in Seq(S) /\ Append(s, e) # <<>>
           /\ Front(Append(s, e)) = s /\ Last(Append(s, e)) = e
<1>1. /\ Append(s, e) \in Seq(S) /\ Len(Append(s, e)) = Len(s) + 1 /\ Len(s) \in Nat
      /\ Append(s, e)[Len(s) + 1] = e
      /\ \A i \in 1..Len(s) : Append(s, e)[i] = s[i]
  OBVIOUS
<1>2. Append(s, e) # <<>>
  BY <1>1
<1>3. Last(Append(s, e)) = e
  BY <1>1 DEF Last
<1>4. Front(Append(s, e)) = SubSeq(Append(s, e), 1, Len(s))
  BY <1>1 DEF Front
<1>5. /\ Front(Append(s, e)) \in Seq(S) /\ Len(Front(Append(s, e))) = Len(s)
      /\ \A i \in 1..Len(s) : Front(Append(s, e))[i] = s[i]
  BY <1>1, <1>4
<1>6. Front(Append(s, e)) = s
  BY <1>5, SeqEqual
<1> QED
  BY <1>1, <1>2, <1>3, <1>6

\* A part of a sequence.
LEMMA Window ==
    ASSUME NEW S, NEW s \in Seq(S), NEW a \in Nat, NEW b \in a + 1..Len(s)
    PROVE  /\ SubSeq(s, a + 1, b) \in Seq(S) /\ Len(SubSeq(s, a + 1, b)) = b - a
           /\ \A r \in 1..b - a : SubSeq(s, a + 1, b)[r] = s[a + r]
<1>1. \A i \in a + 1..b : s[i] \in S
  OBVIOUS
<1>2. /\ SubSeq(s, a + 1, b) \in Seq(S)
      /\ Len(SubSeq(s, a + 1, b)) = IF a + 1 <= b THEN b - (a + 1) + 1 ELSE 0
      /\ \A r \in 1..b - (a + 1) + 1 : SubSeq(s, a + 1, b)[r] = s[(a + 1) + r - 1]
  BY <1>1, SubSeqProperties
<1>3. b - (a + 1) + 1 = b - a /\ a + 1 <= b /\ \A r \in 1..b - a : (a + 1) + r - 1 = a + r
  OBVIOUS
<1> QED
  BY <1>2, <1>3

\* A tape of the directory the user is in is one the player may open.
LEMMA TapeIsTape ==
    ASSUME NEW path \in DOMAIN Card, NEW name \in Names, Tape(path, name)
    PROVE  Append(path, name) \in Seq(Names) /\ IsTape(Append(path, name))
<1>1. path \in Seq(Names)
  BY CardFacts
<1>2. /\ Append(path, name) \in Seq(Names) /\ Append(path, name) # <<>>
      /\ Front(Append(path, name)) = path /\ Last(Append(path, name)) = name
  BY <1>1, AppendFacts
<1> QED
  BY <1>2 DEF IsTape, Tape

----------------------------------------------------------------------------
(* The pages. *)

\* The first entries of pages are the multiples of the length of a page.
LEMMA Multiples ==
    ASSUME NEW n \in Nat \ {0}, NEW a \in Nat
    PROVE  /\ a % n = 0 => \E q \in Nat : a = n * q
           /\ \A q \in Nat : (n * q) % n = 0
<1>1. a = n * (a \div n) + (a % n) /\ a \div n \in Nat /\ n * (a \div n) \in Nat
  BY SMT
<1>2. a % n = 0 => a = n * (a \div n)
  BY <1>1
<1>3. \A q \in Nat : (n * q) % n = 0
  BY SMT
<1> QED
  BY <1>1, <1>2, <1>3

LEMMA PageStep ==
    ASSUME NEW first \in Nat, first % FILELIST_NFILES = 0
    PROVE  /\ (first + FILELIST_NFILES) % FILELIST_NFILES = 0
           /\ first < FILELIST_NFILES => first = 0
           /\ ~(first < FILELIST_NFILES) => /\ first - FILELIST_NFILES \in Nat
                                            /\ (first - FILELIST_NFILES) % FILELIST_NFILES = 0
           /\ 0 % FILELIST_NFILES = 0
<1> DEFINE n == FILELIST_NFILES
<1>1. n \in Nat \ {0}
  BY CardAssumption
<1> HIDE DEF n
<1>2. PICK q \in Nat : first = n * q
  BY <1>1, Multiples DEF n
<1>3. first + n = n * (q + 1) /\ q + 1 \in Nat
  BY <1>1, <1>2
<1>4. first < n => first = 0
  BY <1>1, <1>2
<1>5. ~(first < n) => first - n = n * (q - 1) /\ q - 1 \in Nat /\ first - n \in Nat
  BY <1>1, <1>2
<1>6. 0 % n = 0
  BY <1>1
<1>7. (first + n) % n = 0
  BY <1>1, <1>3, Multiples
<1>8. ~(first < n) => (first - n) % n = 0
  BY <1>1, <1>5, Multiples
<1> QED
  BY <1>4, <1>5, <1>6, <1>7, <1>8 DEF n

\* What refreshList() reads, from the first entry of a page on.
PageEnd(path, first) == IF first + FILELIST_NFILES < Len(Directory(path))
                        THEN first + FILELIST_NFILES ELSE Len(Directory(path))
Page(path, first) == SubSeq(Directory(path), first + 1, PageEnd(path, first))

LEMMA PageFacts ==
    ASSUME NEW path \in DOMAIN Card, NEW first \in Nat, first < Len(Directory(path))
    PROVE  /\ Page(path, first) \in Seq(Entry) /\ Len(Page(path, first)) <= FILELIST_NFILES
           /\ first + Len(Page(path, first)) <= Len(Directory(path))
           /\ \/ Len(Page(path, first)) = FILELIST_NFILES
              \/ first + Len(Page(path, first)) = Len(Directory(path))
           /\ \A r \in 1..Len(Page(path, first)) : Page(path, first)[r] = Directory(path)[first + r]
<1> DEFINE last == PageEnd(path, first)
<1>1. Directory(path) \in Seq(Entry) /\ FILELIST_NFILES \in Nat \ {0}
  BY DirectoryFacts, CardAssumption
<1>2. /\ last \in first + 1..Len(Directory(path)) /\ last <= first + FILELIST_NFILES
      /\ last = first + FILELIST_NFILES \/ last = Len(Directory(path))
  BY <1>1 DEF PageEnd
<1> HIDE DEF last
<1>3. /\ Page(path, first) \in Seq(Entry) /\ Len(Page(path, first)) = last - first
      /\ \A r \in 1..last - first : Page(path, first)[r] = Directory(path)[first + r]
  BY <1>1, <1>2, Window DEF Page, last
<1>4. /\ last - first <= FILELIST_NFILES /\ last - first \in Nat
      /\ first + (last - first) <= Len(Directory(path))
      /\ last - first = FILELIST_NFILES \/ first + (last - first) = Len(Directory(path))
  BY <1>1, <1>2
<1> QED
  BY <1>3, <1>4

\* Drawing the list, on the first entry of a page, makes the page in memory this page.
LEMMA Refreshed ==
    ASSUME refreshList, currentPath' \in DOMAIN Card, firstFileIndex' \in Nat,
           firstFileIndex' % FILELIST_NFILES = 0,
           firstFileIndex' < Len(Card[currentPath']) + 2
    PROVE  DirInv'
<1>1. /\ Len(Directory(currentPath')) = Len(Card[currentPath']) + 2
      /\ Len(Card[currentPath']) \in Nat /\ firstFileIndex' < Len(Directory(currentPath'))
  BY DirectoryFacts
<1>2. /\ nDirFiles' = Len(Directory(currentPath'))
      /\ currentFiles' = Page(currentPath', firstFileIndex')
  BY DEF refreshList, Page, PageEnd
<1>3. /\ currentFiles' \in Seq(Entry) /\ Len(currentFiles') <= FILELIST_NFILES
      /\ firstFileIndex' + Len(currentFiles') <= nDirFiles'
      /\ Len(currentFiles') = FILELIST_NFILES \/ firstFileIndex' + Len(currentFiles') = nDirFiles'
      /\ \A r \in 1..Len(currentFiles') :
            currentFiles'[r] = Directory(currentPath')[firstFileIndex' + r]
  BY <1>1, <1>2, PageFacts
<1>4. nDirFiles' \in Nat /\ nDirFiles' = Len(Card[currentPath']) + 2
  BY <1>1, <1>2
<1>5. DirTypes'
  BY <1>3, <1>4 DEF DirTypes, nFiles
<1>6. ListIsPage'
  BY <1>3, <1>4 DEF ListIsPage, nFiles
<1> QED
  BY <1>5, <1>6 DEF DirInv

\* What a touched row is an entry of.
LEMMA TouchedFacts ==
    ASSUME DirInv, NEW r \in 0..ROWS - 1, TouchedRow(r)
    PROVE  /\ firstFileIndex + (r + 1) \in 1..Len(Directory(currentPath))
           /\ currentFiles[r + 1] = Directory(currentPath)[firstFileIndex + (r + 1)]
           /\ currentFiles[r + 1] = DotDot => firstFileIndex + (r + 1) = 2
           /\ currentFiles[r + 1] \notin {Dot, DotDot} =>
                 \E j \in 1..Len(Card[currentPath]) :
                    /\ currentFiles[r + 1] = Card[currentPath][j]
                    /\ Card[currentPath][j] \in File
<1>1. /\ currentPath \in DOMAIN Card /\ firstFileIndex \in Nat /\ nFiles \in Nat
      /\ firstFileIndex + nFiles <= Len(Card[currentPath]) + 2
      /\ \A i \in 1..nFiles : currentFiles[i] = Directory(currentPath)[firstFileIndex + i]
  BY DEF DirInv, DirTypes, ListIsPage, nFiles
<1>2. r \in Nat /\ r + 1 \in 1..nFiles
  BY <1>1, CardAssumption DEF TouchedRow
<1>3. Len(Directory(currentPath)) = Len(Card[currentPath]) + 2 /\ Len(Card[currentPath]) \in Nat
  BY <1>1, DirectoryFacts
<1>4. firstFileIndex + (r + 1) \in 1..Len(Directory(currentPath))
  BY <1>1, <1>2, <1>3
<1>5. currentFiles[r + 1] = Directory(currentPath)[firstFileIndex + (r + 1)]
  BY <1>1, <1>2
<1> QED
  BY <1>1, <1>4, <1>5, EntryFacts

----------------------------------------------------------------------------
(* The steps. *)

LEMMA InitInv == Init => Inv
<1> SUFFICES ASSUME Init PROVE Inv
  OBVIOUS
<1>1. touchStart = 0 /\ status = 0 /\ playing = 0 /\ screen = "list"
  BY DEF Init
<1>2. ControlTypes
  BY <1>1 DEF ControlTypes
<1>3. /\ <<>> \in DOMAIN Card /\ 0 \in Nat /\ FILELIST_NFILES \in Nat \ {0, 1}
      /\ Len(Directory(<<>>)) = Len(Card[<<>>]) + 2 /\ Len(Card[<<>>]) \in Nat
  BY CardAssumption, DirectoryFacts
<1>4. /\ currentPath = <<>> /\ firstFileIndex = 0 /\ nDirFiles = Len(Directory(<<>>))
      /\ currentFiles = SubSeq(Directory(<<>>), 1, IF FILELIST_NFILES < nDirFiles
                                                   THEN FILELIST_NFILES ELSE nDirFiles)
  BY DEF Init
<1>5. currentFiles = Page(<<>>, 0)
  <2>1. 0 + 1 = 1 /\ 0 + FILELIST_NFILES = FILELIST_NFILES
    BY <1>3
  <2> QED
    BY <1>4, <2>1 DEF Page, PageEnd
<1>6. /\ currentFiles \in Seq(Entry) /\ Len(currentFiles) <= FILELIST_NFILES
      /\ firstFileIndex + Len(currentFiles) <= nDirFiles
      /\ Len(currentFiles) = FILELIST_NFILES \/ firstFileIndex + Len(currentFiles) = nDirFiles
      /\ \A r \in 1..Len(currentFiles) : currentFiles[r] = Directory(currentPath)[firstFileIndex + r]
  <2>1. 0 < Len(Directory(<<>>))
    BY <1>3
  <2> QED
    BY <1>3, <1>4, <1>5, <2>1, PageFacts
<1>7. nDirFiles \in Nat /\ nDirFiles = Len(Card[currentPath]) + 2 /\ firstFileIndex < nDirFiles
  BY <1>3, <1>4
<1>8. 0 % FILELIST_NFILES = 0
  BY <1>3
<1>9. DirTypes
  BY <1>3, <1>4, <1>6, <1>7 DEF DirTypes, nFiles
<1>10. ListIsPage
  BY <1>3, <1>4, <1>6, <1>7, <1>8 DEF ListIsPage, nFiles
<1>11. selectedGame = "" /\ opened = <<>>
  BY DEF Init
<1>12. opened \in Seq(Opened) /\ Len(opened) = 0
  BY <1>11, EmptySeq
<1>13. GameTypes
  <2>1. selectedGame \in Names \cup {""}
    BY <1>11
  <2> QED
    BY <1>12, <2>1 DEF GameTypes
<1>14. GameInv
  BY <1>1 DEF GameInv
<1>15. PlaysTapes
  <2>1. DOMAIN opened = 1..0
    BY <1>12, LenProperties
  <2> QED
    BY <2>1 DEF PlaysTapes
<1> QED
  BY <1>2, <1>9, <1>10, <1>13, <1>14, <1>15 DEF Inv, DirInv, OpenInv

LEMMA ControlStep == ASSUME ControlTypes, Next PROVE ControlTypes'
<1> USE DEF ControlTypes, dirVars, gameVars, Click, drawState0UI
<1>1. CASE Press
  BY <1>1 DEF Press
<1>2. CASE SameDirectory \/ AboveRoot \/ ParentDirectory \/ SubDirectory
  BY <1>2 DEF SameDirectory, AboveRoot, ParentDirectory, SubDirectory, TouchedRow
<1>3. CASE PickTape \/ PickDisk \/ PickOther
  <2>1. /\ status' \in {status, 1, 10} /\ screen' \in {"buttons", "name"} /\ playing' = playing
    BY <1>3 DEF PickTape, PickDisk, PickOther
  <2>2. touchStart' = 0
    BY <1>3 DEF PickTape, PickDisk, PickOther, Picked, TouchedRow
  <2> QED
    BY <2>1, <2>2
<1>4. CASE ButtonUp \/ ButtonDown
  BY <1>4 DEF ButtonUp, ButtonDown
<1>5. CASE ButtonPlay \/ ButtonBack \/ DeadClick
  BY <1>5 DEF ButtonPlay, ButtonBack, DeadClick
<1> QED
  BY <1>1, <1>2, <1>3, <1>4, <1>5 DEF Next, processClick

\* The page in memory is always the page the state names.
LEMMA DirStep == ASSUME DirInv, Next PROVE DirInv'
<1>0. /\ currentPath \in DOMAIN Card /\ firstFileIndex \in Nat
      /\ nDirFiles = Len(Card[currentPath]) + 2 /\ Len(Card[currentPath]) \in Nat
      /\ firstFileIndex % FILELIST_NFILES = 0 /\ firstFileIndex < nDirFiles
      /\ FILELIST_NFILES \in Nat \ {0, 1}
  BY CardAssumption, CardFacts DEF DirInv, DirTypes, ListIsPage
<1>1. CASE UNCHANGED dirVars
  BY <1>1 DEF dirVars, DirInv, DirTypes, ListIsPage, nFiles
<1>2. CASE AboveRoot
  <2>1. PICK r \in 0..ROWS - 1 : TouchedRow(r) /\ currentFiles[r + 1] = DotDot
    BY <1>2 DEF AboveRoot
  <2>2. firstFileIndex + (r + 1) = 2 /\ r \in Nat
    BY <2>1, TouchedFacts, CardAssumption
  <2>3. firstFileIndex < FILELIST_NFILES
    BY <1>0, <2>2
  <2>4. firstFileIndex = 0
    BY <1>0, <2>3, PageStep
  <2>5. UNCHANGED dirVars
    BY <1>2, <2>4 DEF AboveRoot, dirVars
  <2> QED
    BY <1>1, <2>5
<1>3. CASE ParentDirectory
  <2>1. Front(currentPath) \in DOMAIN Card
    BY <1>0, <1>3, CardFacts DEF ParentDirectory
  <2>2. /\ refreshList /\ currentPath' \in DOMAIN Card /\ firstFileIndex' = 0
        /\ 0 % FILELIST_NFILES = 0
    BY <1>0, <1>3, <2>1, PageStep DEF ParentDirectory, drawState0UI
  <2>3. firstFileIndex' \in Nat /\ 0 < Len(Card[currentPath']) + 2
    BY <2>2, DirectoryFacts
  <2> QED
    BY <2>2, <2>3, Refreshed
<1>4. CASE SubDirectory
  <2>1. PICK r \in 0..ROWS - 1 :
           /\ TouchedRow(r)
           /\ currentFiles[r + 1].type = "dir" /\ currentFiles[r + 1] \notin {Dot, DotDot}
           /\ currentPath' = Append(currentPath, currentFiles[r + 1].name)
    BY <1>4 DEF SubDirectory
  <2>2. PICK j \in 1..Len(Card[currentPath]) : currentFiles[r + 1] = Card[currentPath][j]
    BY <2>1, TouchedFacts
  <2>3. currentPath' \in DOMAIN Card
    BY <1>0, <2>1, <2>2, CardFacts
  <2>4. refreshList /\ firstFileIndex' = 0 /\ 0 % FILELIST_NFILES = 0
    BY <1>0, <1>4, PageStep DEF SubDirectory, drawState0UI
  <2>5. firstFileIndex' \in Nat /\ 0 < Len(Card[currentPath']) + 2
    BY <2>3, <2>4, DirectoryFacts
  <2> QED
    BY <2>3, <2>4, <2>5, Refreshed
<1>5. CASE ButtonUp
  <2>1. CASE firstFileIndex = 0
    BY <1>1, <1>5, <2>1 DEF ButtonUp
  <2>2. CASE firstFileIndex # 0
    <3>1. /\ refreshList /\ currentPath' = currentPath
          /\ firstFileIndex' = IF firstFileIndex < FILELIST_NFILES THEN 0
                               ELSE firstFileIndex - FILELIST_NFILES
      BY <1>5, <2>2 DEF ButtonUp, drawState0UI
    <3>2. firstFileIndex' \in Nat /\ firstFileIndex' % FILELIST_NFILES = 0
      BY <1>0, <3>1, PageStep
    <3>3. firstFileIndex' < Len(Card[currentPath']) + 2
      BY <1>0, <3>1
    <3> QED
      BY <1>0, <3>1, <3>2, <3>3, Refreshed
  <2> QED
    BY <2>1, <2>2
<1>6. CASE ButtonDown
  <2>1. CASE firstFileIndex + FILELIST_NFILES < nDirFiles
    <3>1. /\ refreshList /\ currentPath' = currentPath
          /\ firstFileIndex' = firstFileIndex + FILELIST_NFILES
      BY <1>6, <2>1 DEF ButtonDown, drawState0UI
    <3>2. firstFileIndex' \in Nat /\ firstFileIndex' % FILELIST_NFILES = 0
      BY <1>0, <3>1, PageStep
    <3>3. firstFileIndex' < Len(Card[currentPath']) + 2
      BY <1>0, <2>1, <3>1
    <3> QED
      BY <1>0, <3>1, <3>2, <3>3, Refreshed
  <2>2. CASE ~(firstFileIndex + FILELIST_NFILES < nDirFiles)
    BY <1>1, <1>6, <2>2 DEF ButtonDown
  <2> QED
    BY <2>1, <2>2
<1>7. CASE ButtonBack
  <2>1. refreshList /\ currentPath' = currentPath /\ firstFileIndex' = firstFileIndex
    BY <1>7 DEF ButtonBack, drawState0UI
  <2> QED
    BY <1>0, <2>1, Refreshed
<1>8. CASE Press \/ SameDirectory \/ PickTape \/ PickDisk \/ PickOther \/ ButtonPlay \/ DeadClick
  BY <1>1, <1>8 DEF Press, SameDirectory, PickTape, PickDisk, PickOther, ButtonPlay, DeadClick
<1> QED
  BY <1>2, <1>3, <1>4, <1>5, <1>6, <1>7, <1>8 DEF Next, processClick

\* What is added to the history keeps PlaysTapes, if it is a tape or for the drive.
LEMMA OpenedFacts ==
    ASSUME opened \in Seq(Opened), PlaysTapes, NEW e \in Opened,
           e.by = "play_file" => IsTape(e.path), opened' = Append(opened, e)
    PROVE  opened' \in Seq(Opened) /\ PlaysTapes'
<1>1. /\ opened' \in Seq(Opened) /\ Len(opened') = Len(opened) + 1 /\ Len(opened) \in Nat
      /\ opened'[Len(opened) + 1] = e
      /\ \A i \in 1..Len(opened) : opened'[i] = opened[i]
  OBVIOUS
<1>2. DOMAIN opened = 1..Len(opened) /\ DOMAIN opened' = 1..Len(opened) + 1
  BY <1>1, LenProperties
<1>3. ASSUME NEW i \in 1..Len(opened) + 1, opened'[i].by = "play_file"
      PROVE  IsTape(opened'[i].path)
  <2>1. i \in 1..Len(opened) \/ i = Len(opened) + 1
    BY <1>1
  <2>2. CASE i \in 1..Len(opened)
    BY <1>1, <1>2, <1>3, <2>2 DEF PlaysTapes
  <2>3. CASE i = Len(opened) + 1
    BY <1>1, <1>3, <2>3
  <2> QED
    BY <2>1, <2>2, <2>3
<1>4. PlaysTapes'
  BY <1>2, <1>3 DEF PlaysTapes, IsTape
<1> QED
  BY <1>1, <1>4

\* A file that is picked from the page, and is no directory, is a file of the directory.
LEMMA PickedFacts ==
    ASSUME DirInv, NEW file, file.type # "dir", Picked(file)
    PROVE  /\ file \in Range(Card[currentPath]) /\ file \in File
           /\ selectedGame' = file.name
<1>1. PICK r \in 0..ROWS - 1 : TouchedRow(r) /\ currentFiles[r + 1] = file
  BY DEF Picked
<1>2. file \notin {Dot, DotDot}
  BY DEF Dot, DotDot
<1>3. PICK j \in 1..Len(Card[currentPath]) : file = Card[currentPath][j] /\ Card[currentPath][j] \in File
  BY <1>1, <1>2, TouchedFacts
<1>4. Range(Card[currentPath]) = {Card[currentPath][i] : i \in 1..Len(Card[currentPath])}
  BY CardFacts, RangeOf DEF DirInv, ListIsPage
<1> QED
  BY <1>3, <1>4 DEF Picked

\* The player is given the tapes of the directory where they were picked.
LEMMA OpenStep ==
    ASSUME ControlTypes, DirInv, OpenInv, Next
    PROVE  OpenInv'
<1> USE DEF OpenInv
<1>0. currentPath \in DOMAIN Card
  BY DEF DirInv, ListIsPage
<1>1. CASE UNCHANGED <<selectedGame, opened>> /\ (status' = 1 => status = 1 /\ UNCHANGED currentPath)
  BY <1>1 DEF GameTypes, GameInv, Tape, PlaysTapes, IsTape
<1>2. CASE PickTape
  <2>1. PICK file \in Range(currentFiles) : file.type = "TAP" /\ Picked(file)
    BY <1>2 DEF PickTape
  <2>2. UNCHANGED <<opened, currentPath>>
    BY <1>2 DEF PickTape, dirVars
  <2>3. file \in Range(Card[currentPath]) /\ file \in File /\ selectedGame' = file.name
    BY <2>1, PickedFacts
  <2>4. file = [name |-> file.name, type |-> "TAP"] /\ file.name \in Names
    BY <2>1, <2>3 DEF File
  <2>5. Tape(currentPath, selectedGame') /\ selectedGame' \in Names
    BY <2>3, <2>4 DEF Tape
  <2>6. GameTypes' /\ GameInv'
    BY <2>2, <2>5 DEF GameTypes, GameInv, Tape
  <2>7. PlaysTapes'
    BY <2>2 DEF PlaysTapes, IsTape
  <2> QED
    BY <2>6, <2>7
<1>3. CASE PickDisk
  <2>1. PICK file \in Range(currentFiles) :
           /\ file.type = "D64" /\ Picked(file)
           /\ opened' = Append(opened, [by |-> "drive", path |-> <<file.name>>])
    BY <1>3 DEF PickDisk
  <2>2. file \in File /\ selectedGame' = file.name
    BY <2>1, PickedFacts
  <2>3. file.name \in Names /\ <<file.name>> \in Seq(Names)
    BY <2>2 DEF File
  <2> DEFINE e == [by |-> "drive", path |-> <<file.name>>]
  <2>4. e \in Opened /\ e.by # "play_file"
    BY <2>3 DEF Opened
  <2>5. opened' = Append(opened, e)
    BY <2>1
  <2> HIDE DEF e
  <2>6. opened' \in Seq(Opened) /\ PlaysTapes'
    BY <2>4, <2>5, OpenedFacts DEF GameTypes
  <2>7. GameTypes'
    BY <2>2, <2>3, <2>6 DEF GameTypes
  <2>8. GameInv'
    BY <1>3 DEF PickDisk, GameInv
  <2> QED
    BY <2>6, <2>7, <2>8
<1>4. CASE PickOther
  <2>1. PICK file \in Range(currentFiles) :
           file.type \notin {"dir", "TAP", "D64"} /\ Picked(file)
    BY <1>4 DEF PickOther
  <2>2. UNCHANGED <<status, opened, currentPath>>
    BY <1>4 DEF PickOther, dirVars
  <2>3. file \in File /\ selectedGame' = file.name
    BY <2>1, PickedFacts
  <2>4. selectedGame' \in Names
    BY <2>3 DEF File
  <2>5. status = 0
    BY <2>1 DEF Picked, TouchedRow
  <2>6. GameTypes'
    BY <2>2, <2>4 DEF GameTypes
  <2>7. status' = 0
    BY <2>2, <2>5
  <2>8. GameInv'
    BY <2>7 DEF GameInv
  <2>9. PlaysTapes'
    BY <2>2 DEF PlaysTapes, IsTape
  <2> QED
    BY <2>6, <2>8, <2>9
<1>5. CASE ButtonPlay
  <2>1. status = 1 /\ UNCHANGED <<currentPath, status, selectedGame>>
    BY <1>5 DEF ButtonPlay, dirVars
  <2>2. GameInv'
    BY <2>1 DEF GameInv, Tape
  <2>3. CASE opened' = opened
    BY <2>1, <2>2, <2>3 DEF GameTypes, PlaysTapes, IsTape
  <2>4. CASE opened' = Append(opened, [by |-> "play_file", path |-> Append(currentPath, selectedGame)])
    <3>1. Tape(currentPath, selectedGame)
      BY <2>1 DEF GameInv
    <3>2. selectedGame \in Names
      <4>1. PICK j \in 1..Len(Card[currentPath]) :
               [name |-> selectedGame, type |-> "TAP"] = Card[currentPath][j]
        <5>1. Range(Card[currentPath]) = {Card[currentPath][i] : i \in 1..Len(Card[currentPath])}
          BY <1>0, CardFacts, RangeOf
        <5> QED
          BY <3>1, <5>1 DEF Tape
      <4>2. Card[currentPath][j] \in File
        BY <1>0, CardFacts, ElementOfSeq
      <4> QED
        BY <4>1, <4>2 DEF File
    <3>3. Append(currentPath, selectedGame) \in Seq(Names) /\ IsTape(Append(currentPath, selectedGame))
      BY <1>0, <3>1, <3>2, TapeIsTape
    <3> DEFINE e == [by |-> "play_file", path |-> Append(currentPath, selectedGame)]
    <3>4. e \in Opened /\ IsTape(e.path)
      BY <3>3 DEF Opened
    <3> HIDE DEF e
    <3>5. opened' \in Seq(Opened) /\ PlaysTapes'
      BY <2>4, <3>4, OpenedFacts DEF GameTypes, e
    <3>6. GameTypes'
      BY <2>1, <3>5 DEF GameTypes
    <3> QED
      BY <2>2, <3>5, <3>6
  <2> QED
    BY <1>5, <2>3, <2>4 DEF ButtonPlay
<1>6. CASE ParentDirectory \/ SubDirectory \/ ButtonUp \/ ButtonDown
  <2>1. status = 0 /\ UNCHANGED <<selectedGame, opened, status>>
    BY <1>6 DEF ParentDirectory, SubDirectory, TouchedRow, ButtonUp, ButtonDown, gameVars
  <2> QED
    BY <1>1, <2>1
<1>7. CASE ButtonBack
  BY <1>1, <1>7 DEF ButtonBack
<1>8. CASE Press \/ SameDirectory \/ AboveRoot \/ DeadClick
  BY <1>1, <1>8 DEF Press, SameDirectory, AboveRoot, DeadClick, gameVars, dirVars
<1> QED
  BY <1>2, <1>3, <1>4, <1>5, <1>6, <1>7, <1>8 DEF Next, processClick

----------------------------------------------------------------------------
(* The theorems. *)

LEMMA InvStep == Inv /\ [Next]_vars => Inv'
<1> SUFFICES ASSUME Inv, [Next]_vars PROVE Inv'
  OBVIOUS
<1>1. CASE Next
  BY <1>1, ControlStep, DirStep, OpenStep DEF Inv
<1>2. CASE UNCHANGED vars
  <2> USE DEF vars, dirVars, gameVars
  <2>1. ControlTypes'
    BY <1>2 DEF Inv, ControlTypes
  <2>2. DirInv'
    BY <1>2 DEF Inv, DirInv, DirTypes, ListIsPage, nFiles
  <2>3. OpenInv'
    BY <1>2 DEF Inv, OpenInv, GameTypes, GameInv, Tape, PlaysTapes, IsTape
  <2> QED
    BY <2>1, <2>2, <2>3 DEF Inv
<1> QED
  BY <1>1, <1>2

\* The inductive invariant: while the buttons are shown, the game is a tape of the
\* directory, which does not change until the list is back.
THEOREM InvHolds == Spec => []Inv
  BY InitInv, InvStep, PTL DEF Spec

\* Every variable is of its type, the touch counter stays below its reset, and a page has
\* no more rows than the arrays (tapudisk.ino:196-242, 434-447).
THEOREM TypeCorrect == Spec => []TypeOK
<1>1. Inv => TypeOK
  BY DEF Inv, ControlTypes, DirInv, DirTypes, TypeOK
<1> QED
  BY <1>1, InvHolds, PTL

\* Whatever is touched in whatever order, a touch picks from the page of the directory
\* that the state names (tapudisk.ino:196-242, 290-332, 351-371).
THEOREM PageCorrect == Spec => []ListIsPage
<1>1. Inv => ListIsPage
  BY DEF Inv, DirInv
<1> QED
  BY <1>1, InvHolds, PTL

\* The player is only given tapes of the card, by their whole path (tapudisk.ino:337-342,
\* 386-404).
THEOREM OnlyTapesPlayed == Spec => []PlaysTapes
<1>1. Inv => PlaysTapes
  BY DEF Inv, OpenInv
<1> QED
  BY <1>1, InvHolds, PTL

============================================================================
