------------------------------ MODULE Browser ------------------------------
(***************************************************************************)
(* The user interface of tapudisk.ino: the touch screen, the list of the   *)
(* files of a directory of the card in pages, and the buttons of a tape.   *)
(* What the touched file starts, play_file() or CommandFactory::run(), is   *)
(* modelled elsewhere; here it is only noted which file it opens.          *)
(***************************************************************************)
EXTENDS Integers, Sequences, SequencesExt

CONSTANTS
    Names, Types,     \* of the files of the card
    Card,             \* directory |-> its files; a directory is the sequence of its names
    FILELIST_NFILES,  \* rows of a page (15)
    ROWS              \* rows that can be touched: more than a page has (17)

\* A file is [name, type]; the type is "dir", or the last three letters of its name.
File == [name : Names, type : Types]

\* The directories are a tree; openNextFile() gives neither "." nor "..", which
\* refreshList() adds.
ASSUME CardAssumption ==
    /\ FILELIST_NFILES \in Nat \ {0, 1} /\ ROWS \in Nat
    /\ "." \notin Names /\ ".." \notin Names
    /\ <<>> \in DOMAIN Card
    /\ \A d \in DOMAIN Card :
          /\ d \in Seq(Names) /\ Card[d] \in Seq(File)
          /\ d # <<>> => Front(d) \in DOMAIN Card
          /\ \A i \in DOMAIN Card[d] :
                Card[d][i].type = "dir" => Append(d, Card[d][i].name) \in DOMAIN Card

VARIABLES
    touchStart,                   \* samples of the current touch, up to 5
    currentPath, firstFileIndex,  \* the directory, the first entry of the page
    currentFiles, nDirFiles,      \* the page in memory; entries of the directory
    status, selectedGame,
    screen,                       \* what is drawn: "list", "buttons" or only a "name"
    playing,
    opened                        \* history: what has been started, and on which file

dirVars == <<currentPath, firstFileIndex, currentFiles, nDirFiles>>
gameVars == <<status, selectedGame, playing, opened>>
vars == <<touchStart, dirVars, gameVars, screen>>

Dot == [name |-> ".", type |-> "dir"]
DotDot == [name |-> "..", type |-> "dir"]
Directory(path) == <<Dot, DotDot>> \o Card[path]

nFiles == Len(currentFiles)

\* The entries from firstFileIndex on, as many as a page has; all are counted.
refreshList ==
    LET entries == Directory(currentPath')
    IN /\ nDirFiles' = Len(entries)
       /\ currentFiles' = SubSeq(entries, firstFileIndex' + 1,
                                 IF firstFileIndex' + FILELIST_NFILES < Len(entries)
                                 THEN firstFileIndex' + FILELIST_NFILES ELSE Len(entries))

drawState0UI == refreshList /\ screen' = "list"

Init ==
    /\ touchStart = 0
    /\ currentPath = <<>> /\ firstFileIndex = 0
    /\ nDirFiles = Len(Directory(<<>>))
    /\ currentFiles = SubSeq(Directory(<<>>), 1, IF FILELIST_NFILES < nDirFiles
                                                 THEN FILELIST_NFILES ELSE nDirFiles)
    /\ status = 0 /\ selectedGame = "" /\ screen = "list"
    /\ playing = 0 /\ opened = <<>>

----------------------------------------------------------------------------
(* loop(): a sample of the touch screen.                                    *)

\* Mutant: the samples are counted on.
Press_Unbounded ==
    /\ status # 10 /\ touchStart' = touchStart + 1
    /\ UNCHANGED <<dirVars, gameVars, screen>>
Press ==
    /\ status # 10 /\ touchStart < 5 /\ touchStart' = touchStart + 1
    /\ UNCHANGED <<dirVars, gameVars, screen>>

\* The fifth pressed sample arms the touch, whatever releases lie between; the next
\* release is a click, at the position of the release, which may be any.
Click == touchStart = 5 /\ touchStart' = 0

----------------------------------------------------------------------------
(* processClick() in status 0: the list.  It can be touched in this status  *)
(* whatever the screen shows.                                               *)

TouchedRow(r) == Click /\ status = 0 /\ r < nFiles

\* "." is no command.
SameDirectory ==
    /\ \E r \in 0..ROWS - 1 : TouchedRow(r) /\ currentFiles[r + 1] = Dot
    /\ UNCHANGED <<dirVars, gameVars, screen>>

\* ".." in the root goes to the first page, without drawing it.
AboveRoot ==
    /\ currentPath = <<>>
    /\ \E r \in 0..ROWS - 1 : TouchedRow(r) /\ currentFiles[r + 1] = DotDot
    /\ firstFileIndex' = 0
    /\ UNCHANGED <<currentPath, currentFiles, nDirFiles, gameVars, screen>>

ParentDirectory ==
    /\ currentPath # <<>>
    /\ \E r \in 0..ROWS - 1 : TouchedRow(r) /\ currentFiles[r + 1] = DotDot
    /\ firstFileIndex' = 0 /\ currentPath' = Front(currentPath)
    /\ drawState0UI
    /\ UNCHANGED gameVars

SubDirectory ==
    /\ \E r \in 0..ROWS - 1 :
          /\ TouchedRow(r)
          /\ currentFiles[r + 1].type = "dir" /\ currentFiles[r + 1] \notin {Dot, DotDot}
          /\ currentPath' = Append(currentPath, currentFiles[r + 1].name)
    /\ firstFileIndex' = 0
    /\ drawState0UI
    /\ UNCHANGED gameVars

Picked(file) ==
    /\ \E r \in 0..ROWS - 1 : TouchedRow(r) /\ currentFiles[r + 1] = file
    /\ selectedGame' = file.name

\* The buttons of a tape are drawn.
PickTape ==
    /\ \E file \in Range(currentFiles) : file.type = "TAP" /\ Picked(file)
    /\ status' = 1 /\ screen' = "buttons"
    /\ UNCHANGED <<dirVars, playing, opened>>

\* The drive takes over for good.  It opens the name, not the path.
PickDisk ==
    /\ \E file \in Range(currentFiles) :
          /\ file.type = "D64" /\ Picked(file)
          /\ opened' = Append(opened, [by |-> "drive", path |-> <<file.name>>])
    /\ status' = 10 /\ screen' = "name"
    /\ UNCHANGED <<dirVars, playing>>

\* Mutant: every other file is taken for a tape.
PickOther_AsTape ==
    /\ \E file \in Range(currentFiles) : file.type \notin {"dir", "TAP", "D64"} /\ Picked(file)
    /\ status' = 1 /\ screen' = "name"
    /\ UNCHANGED <<dirVars, playing, opened>>
\* The name is drawn instead of the list, and the status stays.
PickOther ==
    /\ \E file \in Range(currentFiles) : file.type \notin {"dir", "TAP", "D64"} /\ Picked(file)
    /\ screen' = "name"
    /\ UNCHANGED <<dirVars, status, playing, opened>>

ButtonUp ==
    /\ Click /\ status = 0
    /\ IF firstFileIndex = 0 THEN UNCHANGED <<dirVars, screen>>
       ELSE /\ firstFileIndex' = IF firstFileIndex < FILELIST_NFILES THEN 0
                                 ELSE firstFileIndex - FILELIST_NFILES
            /\ UNCHANGED currentPath /\ drawState0UI
    /\ UNCHANGED gameVars

\* Mutant: one page too many.
ButtonDown_PastEnd ==
    /\ Click /\ status = 0
    /\ IF firstFileIndex + FILELIST_NFILES <= nDirFiles
       THEN /\ firstFileIndex' = firstFileIndex + FILELIST_NFILES
            /\ UNCHANGED currentPath /\ drawState0UI
       ELSE UNCHANGED <<dirVars, screen>>
    /\ UNCHANGED gameVars
ButtonDown ==
    /\ Click /\ status = 0
    /\ IF firstFileIndex + FILELIST_NFILES < nDirFiles
       THEN /\ firstFileIndex' = firstFileIndex + FILELIST_NFILES
            /\ UNCHANGED currentPath /\ drawState0UI
       ELSE UNCHANGED <<dirVars, screen>>
    /\ UNCHANGED gameVars

----------------------------------------------------------------------------
(* processClick() in status 1: the buttons of a tape.  "playing" is set and *)
(* never cleared: only the first click on Play does anything.               *)

ButtonPlay ==
    /\ Click /\ status = 1
    /\ playing' = 1
    /\ opened' = IF playing = 1 THEN opened
                 ELSE Append(opened, [by |-> "play_file", path |-> Append(currentPath, selectedGame)])
    /\ UNCHANGED <<dirVars, status, selectedGame, screen>>

ButtonBack ==
    /\ Click /\ status = 1
    /\ status' = 0 /\ UNCHANGED <<currentPath, firstFileIndex>> /\ drawState0UI
    /\ UNCHANGED <<selectedGame, playing, opened>>

\* Stop, Eject and Rec have no handler; a click beside everything does nothing either.
DeadClick ==
    /\ Click /\ status \in {0, 1}
    /\ UNCHANGED <<dirVars, gameVars, screen>>

processClick ==
    \/ SameDirectory \/ AboveRoot \/ ParentDirectory \/ SubDirectory
    \/ PickTape \/ PickDisk \/ PickOther \/ ButtonUp \/ ButtonDown
    \/ ButtonPlay \/ ButtonBack \/ DeadClick

\* With status 10 the drive runs: there is no loop() any more.
Next == Press \/ processClick

Spec == Init /\ [][Next]_vars

----------------------------------------------------------------------------
\* Every variable is of its type; the debounce counter stays below its reset
\* (tapudisk.ino:434-447).
TypeOK ==
    /\ touchStart \in 0..5 /\ firstFileIndex \in Nat /\ nDirFiles \in Nat
    /\ nFiles <= FILELIST_NFILES
    /\ status \in {0, 1, 10} /\ playing \in {0, 1}
    /\ screen \in {"list", "buttons", "name"}

\* The page in memory, which is what a touch picks from, is the page at firstFileIndex of
\* the directory currentPath, which exists; it is not empty, and the pages do not overlap:
\* so the pages show every entry once (tapudisk.ino:196-242, 290-332, 351-371).
ListIsPage ==
    /\ currentPath \in DOMAIN Card
    /\ nDirFiles = Len(Card[currentPath]) + 2
    /\ firstFileIndex % FILELIST_NFILES = 0 /\ firstFileIndex < nDirFiles
    /\ nFiles = FILELIST_NFILES \/ firstFileIndex + nFiles = nDirFiles
    /\ \A r \in 1..nFiles : currentFiles[r] = Directory(currentPath)[firstFileIndex + r]

\* What the player opens is a TAP file of the card, in the directory where it was picked
\* (tapudisk.ino:337-342, 386-404).
IsTape(path) ==
    /\ path # <<>> /\ Front(path) \in DOMAIN Card
    /\ [name |-> Last(path), type |-> "TAP"] \in Range(Card[Front(path)])
PlaysTapes ==
    \A i \in DOMAIN opened : opened[i].by = "play_file" => IsTape(opened[i].path)
=============================================================================
