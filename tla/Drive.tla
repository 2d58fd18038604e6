------------------------------- MODULE Drive -------------------------------
(***************************************************************************)
(* The disk drive: IEC::read() takes bytes off the serial bus, the state   *)
(* machine CommandFactory::addByte() interprets them and, when the C64     *)
(* makes the drive talk, sends a listing of the selected image or a file   *)
(* of the image "BLAST003.D64", both through the driver D64.  The C64      *)
(* (external) performs one session after the other.                        *)
(***************************************************************************)
EXTENDS D64

CONSTANTS
    Selected,       \* the images the user may have selected; "" fails to open
    ProgramImage,   \* the image SerialProgram opens: "BLAST003.D64"
    InitialNames,   \* what the uninitialised fileNames may hold
    Sessions        \* what the C64 may do: [request, messages]

VARIABLES
    pc,                \* "listen" in IEC::read(); else a step of doTalk()
    inSync,            \* IEC::read() is in its inner loop: it hears data bytes
    status, askedToTalk, secondaryAddress, currentChannel, fileNames,
    curDisk,           \* the driver object of the selected image
    thd,               \* SerialProgram's own driver object
    readBuf,           \* the buffer both objects use
    currentLine,       \* SerialHelper: address of the next BASIC line
    todo,              \* the rest of the C64's session
    request, got       \* history: the name it asked for, what it received

busVars    == <<todo, request, got>>
nameVars   == <<secondaryAddress, currentChannel, fileNames>>
parserVars == <<inSync, status, askedToTalk, nameVars>>
diskVars   == <<curDisk, thd, readBuf, currentLine>>
vars == <<pc, parserVars, diskVars, busVars>>

----------------------------------------------------------------------------
(* The C64 on the bus: a session is a sequence of bytes sent under ATN, of *)
(* data bytes, the last with EOI, and of turns in which the C64 listens to *)
(* the device it told to talk until that sends an EOI.                     *)

Atn(b) == <<[kind |-> "atn", byte |-> b, eoi |-> FALSE]>>
Data(bytes) == [i \in DOMAIN bytes |->
                   [kind |-> "data", byte |-> bytes[i], eoi |-> i = Len(bytes)]]
Receive == <<[kind |-> "receive", byte |-> 0, eoi |-> FALSE]>>

Unlisten == Atn(63)
Untalk == Atn(95)
Device == 8

\* OPEN channel with a name, read it to its end, CLOSE: LOAD does so on channel 0.
ReadFile(channel, name) ==
    [request |-> name,
     messages |-> Atn(32 + Device) \o Atn(240 + channel) \o Data(name) \o Unlisten
                  \o Atn(64 + Device) \o Atn(96 + channel) \o Receive \o Untalk
                  \o Atn(32 + Device) \o Atn(224 + channel) \o Unlisten]
Load(name) == ReadFile(0, name)

Save(name, data) ==
    [request |-> <<>>,
     messages |-> Atn(32 + Device) \o Atn(241) \o Data(name) \o Unlisten
                  \o Atn(32 + Device) \o Atn(97) \o Data(data) \o Unlisten
                  \o Atn(32 + Device) \o Atn(225) \o Unlisten]

\* Data for the printer, device 4.
Printer(data) ==
    [request |-> <<>>, messages |-> Atn(36) \o Atn(96) \o Data(data) \o Unlisten]

\* fileNames has room for two channels: a session must not open another, nor
\* may a byte that the drive can mistake for an OPEN.
Message == [kind : {"atn", "data", "receive"}, byte : 0..241, eoi : BOOLEAN]
ASSUME SessionAssumption == \A s \in Sessions : s.messages \in Seq(Message)

ASSUME SelectionAssumption ==
    Selected \subseteq DOMAIN Images \cup {""} /\ InitialNames \subseteq Seq(0..255)

----------------------------------------------------------------------------
Init ==
    /\ pc = "listen" /\ inSync = FALSE
    /\ status = "none" /\ askedToTalk = FALSE
    /\ secondaryAddress = 0 /\ currentChannel = 0 /\ fileNames \in [0..1 -> InitialNames]
    /\ curDisk \in {IF img = "" THEN NotMounted ELSE Mounted(img) : img \in Selected}
    /\ thd = NotMounted /\ readBuf = [i \in 0..BufSize - 1 |-> 0] /\ currentLine = 0
    /\ todo = <<>> /\ request = <<>> /\ got = <<>>

\* The C64 begins a session.
Begin ==
    /\ todo = <<>>
    /\ \E s \in Sessions : todo' = s.messages /\ request' = s.request
    /\ got' = <<>>
    /\ UNCHANGED <<pc, parserVars, diskVars>>

----------------------------------------------------------------------------
(* IEC::read().  Under ATN the drive always joins in.  A data byte reaches *)
(* addByte only while the inner loop runs: addByte answered TRUE to the    *)
(* byte before, and that had no EOI.  When addByte answers FALSE and ATN   *)
(* is still low, read() may enter the loop again at once.                  *)

Sent == todo # <<>> /\ Head(todo).kind # "receive"
Heard == Sent /\ (Head(todo).kind = "atn" \/ inSync)

\* The C64's data goes to nobody this drive knows of.
Unheard ==
    /\ pc = "listen" /\ Sent /\ ~Heard
    /\ todo' = Tail(todo)
    /\ UNCHANGED <<pc, parserVars, diskVars, request, got>>

\* addByte takes the byte and answers.
Took(answer) ==
    /\ inSync' \in IF ~answer /\ Head(todo).kind = "atn" THEN BOOLEAN
                   ELSE {answer /\ ~Head(todo).eoi}
    /\ todo' = Tail(todo) /\ UNCHANGED <<request, got>>

Hears(st) == pc = "listen" /\ Heard /\ status = st
c == Head(todo).byte

\* c & 0xE0 and c & 0x1F
Command(b) == 32 * (b \div 32)
Argument(b) == b % 32
LISTEN == 32
TALK == 64
SECONDARY_ADDRESS == 96
EX_SECONDARY_ADDRESS == 224

reset ==
    /\ status' = "none" /\ currentChannel' = 0 /\ secondaryAddress' = 0
    /\ askedToTalk' = FALSE

----------------------------------------------------------------------------
(* CommandFactory::addByte(). *)

\* UNLISTEN or UNTALK.
Unaddressed ==
    /\ Hears("none") /\ Argument(c) = 31
    /\ reset /\ Took(FALSE)
    /\ UNCHANGED <<pc, fileNames, diskVars>>

\* LISTEN or TALK, for whatever device.
Listen ==
    /\ Hears("none") /\ Argument(c) # 31 /\ Command(c) = LISTEN
    /\ status' = "secondary" /\ Took(TRUE)
    /\ UNCHANGED <<pc, askedToTalk, nameVars, diskVars>>

Talk ==
    /\ Hears("none") /\ Argument(c) # 31 /\ Command(c) = TALK
    /\ status' = "secondary" /\ askedToTalk' = TRUE /\ Took(FALSE)
    /\ UNCHANGED <<pc, nameVars, diskVars>>

\* The secondary address keeps the masked command, whose low bits are zero.
SecondaryAddress == Argument(Command(c))

\* doTalk(), up to its first byte: the listing, or SerialProgram, which mounts
\* its image and starts to look for the file.
StartTalk ==
    /\ Hears("secondary") /\ Command(c) = SECONDARY_ADDRESS /\ askedToTalk
    /\ secondaryAddress' = SecondaryAddress
    /\ todo' = Tail(todo)
    /\ LET name == fileNames[SecondaryAddress]
           mounted == IF ProgramImage \in DOMAIN Images THEN Mounted(ProgramImage) ELSE NotMounted
           first == SeekFirstDir([d |-> mounted, buf |-> readBuf])
       IN IF name # <<>> /\ Head(name) = 36
          THEN pc' = "title" /\ currentLine' = 2049 /\ UNCHANGED <<thd, readBuf>>
          ELSE /\ pc' = "find" /\ UNCHANGED currentLine
               /\ IF "IMAGE_OK" \in mounted.m_status
                  THEN thd' = first.d /\ readBuf' = first.buf
                  ELSE thd' = mounted /\ UNCHANGED readBuf
    /\ UNCHANGED <<inSync, status, askedToTalk, currentChannel, fileNames, curDisk, request, got>>

Close ==
    /\ Hears("secondary") /\ Command(c) = EX_SECONDARY_ADDRESS /\ c < 240
    /\ reset /\ Took(FALSE)
    /\ UNCHANGED <<pc, fileNames, diskVars>>

Open ==
    /\ Hears("secondary") /\ Command(c) = EX_SECONDARY_ADDRESS /\ c >= 240
    /\ currentChannel' = c % 16
    /\ fileNames' = [fileNames EXCEPT ![c % 16] = <<>>]
    /\ status' = "filename" /\ Took(TRUE)
    /\ UNCHANGED <<pc, askedToTalk, secondaryAddress, diskVars>>

\* Anything else runs into the end of addByte, which returns no value.
NoAnswer ==
    /\ Hears("secondary")
    /\ \/ Command(c) \notin {SECONDARY_ADDRESS, EX_SECONDARY_ADDRESS}
       \/ Command(c) = SECONDARY_ADDRESS /\ ~askedToTalk
    /\ secondaryAddress' = IF Command(c) = SECONDARY_ADDRESS THEN SecondaryAddress
                           ELSE secondaryAddress
    /\ \E answer \in BOOLEAN : Took(answer)
    /\ UNCHANGED <<pc, status, askedToTalk, currentChannel, fileNames, diskVars>>

\* A byte of a name: every byte, until one comes with EOI.
NameByte ==
    /\ Hears("filename")
    /\ fileNames' = [fileNames EXCEPT ![currentChannel] = Append(@, c)]
    /\ status' = IF Head(todo).eoi THEN "none" ELSE status
    /\ Took(~Head(todo).eoi)
    /\ UNCHANGED <<pc, askedToTalk, secondaryAddress, currentChannel, diskVars>>

----------------------------------------------------------------------------
(* doTalk().  writeByte() returns when the C64 has taken the byte.         *)

Listening == todo # <<>> /\ Head(todo).kind = "receive"
curState == [d |-> curDisk, buf |-> readBuf]
thdState == [d |-> thd, buf |-> readBuf]

Deliver(items) == Listening /\ got' = got \o items /\ UNCHANGED <<todo, request>>

\* The last byte goes with EOI; doTalk() and addByte() return.
DeliverLast(items) ==
    /\ Listening /\ got' = got \o items /\ todo' = Tail(todo) /\ UNCHANGED request
    /\ pc' = "listen" /\ reset /\ inSync' = FALSE /\ UNCHANGED fileNames

\* SerialHelper::send(): the address of the next line, the number, the text, NUL.
NextLine(text) == currentLine + 2 + 2 + 1 + Len(text)
Line(number, text) ==
    <<NextLine(text) % 256, NextLine(text) \div 256, number % 256, number \div 256>>
    \o text \o <<0>>

\* SerialListing::sendListing() sends where the lines go to in the C64: two bytes.
LoadAddress == <<2049 % 256, 2049 \div 256>>

\* D64::sendListing(): the title.
Title ==
    /\ pc = "title" /\ "IMAGE_OK" \in curDisk.m_status
    /\ \E tail \in Tails :
         LET t == TitleLine(curState, tail)
             next == SeekFirstDir(t.s)
         IN /\ Deliver(<<LoadAddress, Line(0, t.line)>>) /\ currentLine' = NextLine(t.line)
            /\ curDisk' = next.d /\ readBuf' = next.buf
    /\ pc' = "entries"
    /\ UNCHANGED <<parserVars, thd>>

NoDisk ==
    /\ pc = "title" /\ "IMAGE_OK" \notin curDisk.m_status
    /\ DeliverLast(<<LoadAddress, Line(0, ErrorText), <<0, 0>>>>)
    /\ currentLine' = NextLine(ErrorText)
    /\ UNCHANGED <<curDisk, thd, readBuf>>

\* One entry: only one with a track is sent.
Entry ==
    /\ pc = "entries" /\ MoreDir(curDisk)
    /\ LET e == GetDirEntry(curState)
       IN /\ curDisk' = e.s.d /\ readBuf' = e.s.buf
          /\ IF e.dir.track # 0
             THEN /\ Deliver(<<Line(e.dir.blocks, EntryText(e.dir))>>)
                  /\ currentLine' = NextLine(EntryText(e.dir))
             ELSE UNCHANGED <<busVars, currentLine>>
    /\ UNCHANGED <<pc, parserVars, thd>>

BlocksFree ==
    /\ pc = "entries" /\ ~MoreDir(curDisk)
    /\ DeliverLast(<<Line(0, FreeText), <<0, 0>>>>)
    /\ currentLine' = NextLine(FreeText)
    /\ UNCHANGED <<curDisk, thd, readBuf>>

\* D64::fopen(): one more entry, or no file of this name.
Find ==
    /\ pc = "find"
    /\ LET e == GetDirEntry(thdState)
           found == MoreDir(thd) /\ Matches(fileNames[secondaryAddress], e.dir)
           s == IF ~MoreDir(thd) THEN thdState
                ELSE IF found THEN OpenEntry(e.s, e.dir) ELSE e.s
       IN /\ thd' = s.d /\ readBuf' = s.buf
          /\ pc' = IF found \/ ~MoreDir(thd) THEN "send" ELSE "find"
    /\ UNCHANGED <<parserVars, curDisk, currentLine, busVars>>

\* SerialProgram::send(): getc(), then isEOF() tells whether it was the last.
SendByte ==
    /\ pc = "send" /\ ~IsEOF(Getc(thdState).s.d)
    /\ LET r == Getc(thdState)
       IN Deliver(<<r.c>>) /\ thd' = r.s.d /\ readBuf' = r.s.buf
    /\ UNCHANGED <<pc, parserVars, curDisk, currentLine>>

\* The driver object is destroyed; the buffer keeps its bytes.
SendLast ==
    /\ pc = "send" /\ IsEOF(Getc(thdState).s.d)
    /\ LET r == Getc(thdState) IN DeliverLast(<<r.c>>) /\ readBuf' = r.s.buf
    /\ thd' = NotMounted
    /\ UNCHANGED <<curDisk, currentLine>>

----------------------------------------------------------------------------
addByte == Unaddressed \/ Listen \/ Talk \/ StartTalk \/ Close \/ Open \/ NoAnswer \/ NameByte
doTalk == Title \/ NoDisk \/ Entry \/ BlocksFree \/ Find \/ SendByte \/ SendLast

Next == Begin \/ Unheard \/ addByte \/ doTalk

Spec == Init /\ [][Next]_vars

\* The bus goes on: the loops of the drive run and the C64 completes its sessions
\* and begins others.  Next is always enabled unless the bus is stuck, which the
\* runs check as deadlock: this is WF_vars(Next) without the cost of ENABLED.
FairSpec == Spec /\ []<><<Next>>_vars

----------------------------------------------------------------------------
(* Properties. *)

Waiting == \E i \in DOMAIN todo : todo[i].kind = "receive"

\* What the C64 receives in a session is what its own session asked for: the
\* drive's service, from the first byte on the bus to the EOI.
Service == INSTANCE DiskService WITH disk <- curDisk.image, waiting <- Waiting
ServiceSpec == Service!Spec

\* The buffer shared by the two objects (d64driver.cpp:6) holds the bytes of the
\* object that is being read, at the position the object believes, whenever its
\* next read takes them from there (d64driver.cpp:313-345).
Cached(d) == \A i \in d.m_readOffset..d.m_readBufSize - 1 :
                 readBuf[i] = ByteAt(d.image, d.m_readBufStart + i)
CacheCoherent ==
    /\ pc = "entries" => Cached(curDisk)
    /\ pc \in {"find", "send"} => Cached(thd)

\* The parser's variables (SerialCommand.h:120-133).
TypeOK ==
    /\ pc \in {"listen", "title", "entries", "find", "send"}
    /\ status \in {"none", "secondary", "filename"}
    /\ inSync \in BOOLEAN /\ askedToTalk \in BOOLEAN
    /\ secondaryAddress \in 0..31 /\ currentChannel \in 0..1
    /\ \A n \in 0..1 : fileNames[n] \in Seq(0..255)
    /\ currentLine \in Nat
    /\ \A d \in {curDisk, thd} :
          /\ d.m_readOffset \in 0..d.m_readBufSize /\ d.m_readBufSize \in 0..BufSize
          /\ d.m_currentOffset \in 0..BlockSize - 1 /\ d.m_readBufStart \in Nat

\* The title of a listing is the disk name: "At the position seeked comes 16 chars
\* of disk name" and "-2 because seek_block already skips two bytes"
\* (d64driver.cpp:366-371, 378).
DiskName(img) == [i \in 1..NameLen |-> ByteAt(img, BlockOffset(DirTrack, 0) + DiskNameOffset + i - 1)]
TitleIsDiskName ==
    pc = "entries" =>
        SubSeq(got[2], 7, 6 + NameLen) =
            [i \in 1..NameLen |-> IF DiskName(curDisk.image)[i] = Pad THEN Space
                                  ELSE DiskName(curDisk.image)[i]]

\* "Filename * will open first file with PRG status" (d64driver.cpp:394).
StarIsProgram ==
    LET programs == SelectSeq(Service!Entries(ProgramImage), LAMBDA e : TypeMask(e.type) = PRG)
    IN pc = "send" /\ fileNames[secondaryAddress] = <<Star>> /\ programs # <<>> =>
           IsPrefix(got, Service!FileBytes(ProgramImage, programs[1].track, programs[1].sector))

\* Every request is answered to the end (SerialCommand.cpp:276-303,
\* d64driver.cpp:446-541).
RequestsEnd == (request # <<>> /\ todo # <<>>) ~> (todo = <<>>)
=============================================================================
