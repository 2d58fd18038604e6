------------------------------ MODULE IecLines ------------------------------
(***************************************************************************)
(* The serial bus line by line: IEC::read(), writeByte() and doTurnAround() *)
(* against a C64 (external, as its KERNAL does it).  A line is low if       *)
(* anybody pulls it low.  Both sides poll: they react at once, and time     *)
(* passes only when neither can go on.  The unit of time is 10 microseconds. *)
(***************************************************************************)
EXTENDS Integers, Sequences

CONSTANTS
    Bits,          \* bits of a byte (8); a byte is the sequence of its bits, lowest first
    Finals, Talks, \* bytes to which addByte() answers FALSE, and for which it talks
    Replies,       \* what the drive may have to say: sequences of bytes
    SinkTimes,     \* what addByte(), the source or a print may take (the C64 allows a ms)
    Sessions,      \* what the C64 may do: sequences of [kind, byte, eoi]
    MaxSessions,   \* bound: sessions of the C64
    ClockDelays,   \* from "ready for data" until the C64 starts the byte: below 200 us
    ReadyDelays,   \* from "ready to send" until the C64 is ready
    Gap            \* from one byte of the C64 to the next: below the 170 us of IEC.cpp:76

ASSUME TimeAssumption ==
    /\ Bits \in Nat \ {0} /\ Gap \in 1..16 /\ MaxSessions \in Nat
    /\ ClockDelays \subseteq 1..19 /\ SinkTimes \cup ReadyDelays \subseteq Nat
\* After the last byte the drive loses time twice, in the source of the bytes and in a
\* print; the C64's next command must still find it after a millisecond.
ASSUME SinkAssumption == \A t, u \in SinkTimes : t + u < 84 + Gap

\* What the C64 sends.  After a byte the drive waits for more, has left the bus until the
\* next ATN, or is about to talk.
Byte == [1..Bits -> {0, 1}]
Step == [kind : {"atn", "data"}, byte : Byte, eoi : BOOLEAN]
        \cup [kind : {"release", "receive"}, byte : {<<>>}, eoi : {FALSE}]
AfterByte(byte, eoi) ==
    IF byte \in Talks THEN {"receive"}
    ELSE IF byte \in Finals \/ eoi THEN {"atn", "release"}
    ELSE {"atn", "data"}
MayFollow(step) ==
    IF step.kind \in {"atn", "data"} THEN AfterByte(step.byte, step.eoi) ELSE {"atn"}
WellFormed(s) ==
    /\ s \in Seq(Step)
    /\ s # <<>> => s[Len(s)].kind = "release"
    /\ \A i \in 1..Len(s) - 1 : s[i + 1].kind \in MayFollow(s[i])
ASSUME SessionAssumption ==
    /\ \A s \in Sessions : WellFormed(s) /\ (s # <<>> => s[1].kind = "atn")
    /\ \A r \in Replies : r \in Seq(Byte) /\ r # <<>>

VARIABLES
    pc, dt,              \* where the drive is, and its delay or time-out
    ddr, port,           \* lines it drives (DDRA), lines whose output bit is 1 (PORTA)
    hasEOI, accum,       \* of read(); accum also counts the bits of writeByte()
    isListener,
    reply,               \* what the drive still has to say
    cpc, ct,             \* the same for the C64
    held,                \* lines the C64 pulls low
    script, sessions,    \* the rest of its session; how many it has had
    cbits, ceoi,         \* bits of the current byte; it has got an EOI
    failed,              \* what it reports as an error
    said, heard,         \* history: bytes of the C64, bytes for addByte()
    spoken, received     \* history: bytes of the drive, bytes the C64 took

lines == <<ddr, port>>
reader == <<hasEOI, accum, isListener>>
talker == <<reply, spoken>>
c64Bits == <<cbits, ceoi>>
c64Talk == <<script, sessions, failed, said, received>>
c64Vars == <<cpc, ct, held, c64Bits, c64Talk>>
driveVars == <<pc, dt, lines, reader, talker, heard>>
vars == <<driveVars, c64Vars>>

Low(line) == line \in held \/ (line \in ddr /\ line \notin port)
High(line) == ~Low(line)
Level(line) == IF Low(line) THEN 0 ELSE 1

Init ==
    /\ pc = "atn" /\ dt = 0 /\ ddr = {} /\ port = {}
    /\ hasEOI = FALSE /\ accum = <<>> /\ isListener = TRUE
    /\ reply = <<>>
    /\ cpc = "idle" /\ ct = 0 /\ held = {} /\ script = <<>> /\ sessions = 0
    /\ cbits = <<>> /\ ceoi = FALSE /\ failed = ""
    /\ said = <<>> /\ heard = <<>> /\ spoken = <<>> /\ received = <<>>

----------------------------------------------------------------------------
(* A place in the program waits for a delay and then for a line; those of   *)
(* Timed wait for the line or the end of a time-out.                        *)

Awaited ==
    [atn |-> Low("ATN"), clk |-> Low("CLK"), ready |-> High("CLK"), low |-> Low("CLK"),
     first |-> Low("CLK"), bitLow |-> Low("CLK"), bitHigh |-> High("CLK"),
     taken |-> Low("CLK"), turn |-> High("CLK") \/ ~isListener, claimed |-> Low("CLK"),
     room |-> Low("DATA"), announce |-> High("DATA"), eoiLow |-> Low("DATA"),
     eoiHigh |-> High("DATA"), acked |-> Low("DATA")]

AwaitedByC64 ==
    [idle |-> sessions < MaxSessions, error |-> FALSE, rfd |-> High("DATA"), eoiLow |-> Low("DATA"),
     eoiHigh |-> High("DATA"), ack |-> Low("DATA"), clockLow |-> Low("CLK"),
     listen |-> High("CLK"), await |-> Low("CLK"), rHigh |-> High("CLK"), rLow |-> Low("CLK")]

Timed == {"low", "ack", "await"}
Ready(place, t, awaited) ==
    LET met == IF place \in DOMAIN awaited THEN awaited[place] ELSE TRUE
    IN IF place \in Timed THEN t = 0 \/ met ELSE t = 0 /\ met

DriveReady == Ready(pc, dt, Awaited)
C64Ready == Ready(cpc, ct, AwaitedByC64)
At(place) == pc = place /\ DriveReady
C64At(place) == cpc = place /\ C64Ready

To(place, delay) == pc' = place /\ dt' = delay
C64To(place, delay) == cpc' = place /\ ct' = delay

\* Time passes until somebody may go on.
Advance ==
    /\ ~DriveReady /\ ~C64Ready
    /\ dt + ct > 0
    /\ LET step == IF dt = 0 \/ (ct > 0 /\ ct < dt) THEN ct ELSE dt
       IN /\ dt' = IF dt = 0 THEN 0 ELSE dt - step
          /\ ct' = IF ct = 0 THEN 0 ELSE ct - step
    /\ UNCHANGED <<pc, lines, reader, talker, heard, cpc, held, c64Bits, c64Talk>>

----------------------------------------------------------------------------
(* IEC::read().                                                             *)

\* All lines are released: wait for ATN, then for CLK.
Attention ==
    /\ At("atn") /\ To("clk", 0)
    /\ UNCHANGED <<lines, reader, talker, heard, c64Vars>>

Commanded ==
    /\ At("clk") /\ To("present", 10)
    /\ UNCHANGED <<lines, reader, talker, heard, c64Vars>>

\* "We acknowledge that we exist".
Present ==
    /\ At("present") /\ To("ready", 2)
    /\ ddr' = {"DATA"} /\ port' = {}
    /\ UNCHANGED <<reader, talker, heard, c64Vars>>

\* Mutant: EOI after 100 microseconds.
ReadyForData_Hasty ==
    /\ At("ready") /\ To("low", 10)
    /\ port' = {"DATA"}
    /\ UNCHANGED <<ddr, reader, talker, heard, c64Vars>>
\* The C64 is ready to send: so is the drive.
ReadyForData ==
    /\ At("ready") /\ To("low", 20)
    /\ port' = {"DATA"}
    /\ UNCHANGED <<ddr, reader, talker, heard, c64Vars>>

\* CLK goes low within 200 microseconds, or this is the last byte.
NoEOI ==
    /\ At("low") /\ dt > 0 /\ To("first", 0)
    /\ UNCHANGED <<lines, reader, talker, heard, c64Vars>>

AnswerEOI ==
    /\ At("low") /\ dt = 0 /\ To("eoi", 6)
    /\ port' = {}
    /\ UNCHANGED <<ddr, reader, talker, heard, c64Vars>>

EOIAnswered ==
    /\ At("eoi") /\ To("first", 0)
    /\ port' = {"DATA"} /\ hasEOI' = TRUE
    /\ UNCHANGED <<ddr, accum, isListener, talker, heard, c64Vars>>

\* Mutant: accum keeps the bits of the byte before.
FirstBit_Keeps ==
    /\ At("first") /\ To("bitLow", 0)
    /\ ddr' = {}
    /\ UNCHANGED <<port, reader, talker, heard, c64Vars>>
FirstBit ==
    /\ At("first") /\ To("bitLow", 0)
    /\ ddr' = {} /\ accum' = <<>>
    /\ UNCHANGED <<port, hasEOI, isListener, talker, heard, c64Vars>>

ClockLow ==
    /\ At("bitLow") /\ To("bitHigh", 0)
    /\ UNCHANGED <<lines, reader, talker, heard, c64Vars>>

Sample ==
    /\ At("bitHigh")
    /\ accum' = Append(accum, Level("DATA"))
    /\ To(IF Len(accum') >= Bits THEN "taken" ELSE "bitLow", 0)
    /\ UNCHANGED <<lines, hasEOI, isListener, talker, heard, c64Vars>>

Taken ==
    /\ At("taken") /\ To("accept", 1)
    /\ UNCHANGED <<lines, reader, talker, heard, c64Vars>>

\* Mutant: DATA is taken over, but not pulled low.
Accept_Mute ==
    /\ At("accept")
    /\ \E t \in SinkTimes : To("sink", 17 + t)
    /\ ddr' = {"DATA"} /\ port' = {"DATA"}
    /\ UNCHANGED <<reader, talker, heard, c64Vars>>
\* DATA is low until addByte() has answered and CLK is high again.
Accept ==
    /\ At("accept")
    /\ \E t \in SinkTimes : To("sink", 17 + t)
    /\ ddr' = {"DATA"} /\ port' = {}
    /\ UNCHANGED <<reader, talker, heard, c64Vars>>

Heard == At("sink") /\ heard' = Append(heard, [byte |-> accum, eoi |-> hasEOI])

\* TRUE without EOI: the next byte.
SinkMore ==
    /\ Heard /\ accum \notin Talks \cup Finals /\ ~hasEOI
    /\ To("ready", 0)
    /\ UNCHANGED <<lines, reader, talker, c64Vars>>

\* FALSE, or the end of the inner loop: everything is released.
SinkDone ==
    /\ Heard /\ accum \notin Talks /\ (accum \in Finals \/ hasEOI)
    /\ To("atn", 0)
    /\ hasEOI' = FALSE /\ ddr' = {}
    /\ UNCHANGED <<port, accum, isListener, talker, c64Vars>>

\* doTalk().
SinkTalks ==
    /\ Heard /\ accum \in Talks
    /\ To("turn", 0)
    /\ reply' \in Replies
    /\ UNCHANGED <<lines, reader, spoken, c64Vars>>

----------------------------------------------------------------------------
(* doTurnAround(), called before and after the bytes of doTalk().           *)

\* The first thing after a turn: a byte; or doTalk() and addByte() return.
AfterTurn(delay) == To(IF reply # <<>> THEN "room" ELSE "back", delay)

\* Mutant: it remains a listener.
TakeClock_Listener ==
    /\ At("turn") /\ isListener
    /\ ddr' = {"CLK"} /\ port' = {}
    /\ AfterTurn(8)
    /\ UNCHANGED <<reader, talker, heard, c64Vars>>
\* The drive takes CLK and releases DATA.
TakeClock ==
    /\ At("turn") /\ isListener
    /\ ddr' = {"CLK"} /\ port' = {} /\ isListener' = FALSE
    /\ AfterTurn(8)
    /\ UNCHANGED <<hasEOI, accum, talker, heard, c64Vars>>

\* It pulls DATA, prints, releases CLK and waits for the C64 to pull it.
HoldData ==
    /\ At("turn") /\ ~isListener
    /\ port' = port \ {"DATA"}
    /\ \E t \in SinkTimes : To("giveClock", t)
    /\ UNCHANGED <<ddr, reader, talker, heard, c64Vars>>

GiveClock ==
    /\ At("giveClock") /\ To("claimed", 0)
    /\ port' = port \cup {"CLK"}
    /\ UNCHANGED <<ddr, reader, talker, heard, c64Vars>>

Claimed ==
    /\ At("claimed")
    /\ port' = {} /\ isListener' = TRUE
    /\ AfterTurn(0)
    /\ UNCHANGED <<ddr, hasEOI, accum, talker, heard, c64Vars>>

\* addByte() returns FALSE to read().
Back ==
    /\ At("back") /\ To("atn", 0)
    /\ hasEOI' = FALSE /\ ddr' = {}
    /\ UNCHANGED <<port, accum, isListener, talker, heard, c64Vars>>

----------------------------------------------------------------------------
(* IEC::writeByte().                                                        *)

isLast == Len(reply) = 1

\* Ready to send, as soon as the listener is there.
ReadyToSend ==
    /\ At("room") /\ To("announce", 6)
    /\ port' = port \cup {"CLK"}
    /\ UNCHANGED <<ddr, reader, talker, heard, c64Vars>>

\* Mutant: no EOI.
ListenerReady_NoEOI ==
    /\ At("announce")
    /\ accum' = <<>> /\ To("put", 3)
    /\ spoken' = Append(spoken, [byte |-> Head(reply), eoi |-> isLast])
    /\ UNCHANGED <<lines, hasEOI, isListener, reply, heard, c64Vars>>
\* The listener is ready for data; for the last byte it must answer an EOI first.
ListenerReady ==
    /\ At("announce")
    /\ accum' = <<>> /\ IF isLast THEN To("eoiLow", 0) ELSE To("put", 3)
    /\ spoken' = Append(spoken, [byte |-> Head(reply), eoi |-> isLast])
    /\ UNCHANGED <<lines, hasEOI, isListener, reply, heard, c64Vars>>

EOISeen ==
    /\ At("eoiLow") /\ To("eoiHigh", 0)
    /\ UNCHANGED <<lines, reader, talker, heard, c64Vars>>

EOIOver ==
    /\ At("eoiHigh") /\ To("put", 3)
    /\ UNCHANGED <<lines, reader, talker, heard, c64Vars>>

\* A bit: CLK low and DATA set, then CLK high.
PutBit ==
    /\ At("put") /\ To("clock", 8)
    /\ accum' = Append(accum, Head(reply)[Len(accum) + 1])
    /\ ddr' = {"CLK", "DATA"}
    /\ port' = IF Head(reply)[Len(accum) + 1] = 1 THEN {"DATA"} ELSE {}
    /\ UNCHANGED <<hasEOI, isListener, talker, heard, c64Vars>>

ClockBit ==
    /\ At("clock")
    /\ port' = port \cup {"CLK"}
    /\ To(IF Len(accum) = Bits THEN "end" ELSE "put", 8)
    /\ UNCHANGED <<ddr, reader, talker, heard, c64Vars>>

EndOfByte ==
    /\ At("end") /\ To("acked", 2)
    /\ port' = {"DATA"}
    /\ UNCHANGED <<ddr, reader, talker, heard, c64Vars>>

\* The listener has accepted the byte; the next one, or the turn-around.
Acked ==
    /\ At("acked")
    /\ reply' = Tail(reply)
    /\ \E t \in SinkTimes : To(IF isLast THEN "turn" ELSE "room", 10 + t)
    /\ UNCHANGED <<lines, reader, spoken, heard, c64Vars>>

read == Attention \/ Commanded \/ Present \/ ReadyForData \/ NoEOI \/ AnswerEOI
        \/ EOIAnswered \/ FirstBit \/ ClockLow \/ Sample \/ Taken \/ Accept
        \/ SinkMore \/ SinkDone \/ SinkTalks
doTurnAround == TakeClock \/ HoldData \/ GiveClock \/ Claimed \/ Back
writeByte == ReadyToSend \/ ListenerReady \/ EOISeen \/ EOIOver \/ PutBit \/ ClockBit
             \/ EndOfByte \/ Acked

----------------------------------------------------------------------------
(* The C64.                                                                 *)

c == Head(script)

Begin ==
    /\ C64At("idle") /\ C64To("next", 0)
    /\ script' \in Sessions /\ sessions' = sessions + 1
    /\ UNCHANGED <<driveVars, held, c64Bits, failed, said, received>>

\* A byte under ATN: devices have a millisecond to answer.
Command ==
    /\ C64At("next") /\ script # <<>> /\ c.kind = "atn"
    /\ held' = {"ATN", "CLK"} /\ C64To("check", 100)
    /\ UNCHANGED <<driveVars, c64Bits, c64Talk>>

DataByte ==
    /\ C64At("next") /\ script # <<>> /\ c.kind = "data"
    /\ held' = {"CLK"} /\ C64To("check", Gap)
    /\ UNCHANGED <<driveVars, c64Bits, c64Talk>>

\* What it has waited for has come, or it gives up with an error.
Unless(error, cond) ==
    /\ failed' = IF cond THEN error ELSE failed
    /\ UNCHANGED <<sessions, said, received>>

\* Ready to send, if a device holds DATA.
Offer ==
    /\ C64At("check")
    /\ Unless("device not present", High("DATA")) /\ UNCHANGED script
    /\ held' = held \ {"CLK"} /\ C64To(IF High("DATA") THEN "error" ELSE "rfd", 0)
    /\ UNCHANGED <<driveVars, c64Bits>>

Start(place) == \E t \in ClockDelays : C64To(place, t)

Accepted ==
    /\ C64At("rfd")
    /\ said' = Append(said, [byte |-> c.byte, eoi |-> c.eoi]) /\ cbits' = <<>>
    /\ IF c.eoi THEN C64To("eoiLow", 0) ELSE Start("clock")
    /\ UNCHANGED <<driveVars, held, ceoi, script, sessions, failed, received>>

EOITaken ==
    /\ C64At("eoiLow") /\ C64To("eoiHigh", 0)
    /\ UNCHANGED <<driveVars, held, c64Bits, c64Talk>>

AfterEOI ==
    /\ C64At("eoiHigh") /\ Start("clock")
    /\ UNCHANGED <<driveVars, held, c64Bits, c64Talk>>

\* CLK low; each bit is valid while CLK is high.
C64ClockLow ==
    /\ C64At("clock")
    /\ held' = (held \ {"DATA"}) \cup {"CLK"}
    /\ IF Len(cbits) = Bits THEN C64To("ack", 100) ELSE C64To("bit", 4)
    /\ UNCHANGED <<driveVars, c64Bits, c64Talk>>

C64Bit ==
    /\ C64At("bit") /\ C64To("clock", 2)
    /\ cbits' = Append(cbits, c.byte[Len(cbits) + 1])
    /\ held' = (held \ {"CLK"}) \cup (IF c.byte[Len(cbits) + 1] = 0 THEN {"DATA"} ELSE {})
    /\ UNCHANGED <<driveVars, ceoi, c64Talk>>

C64Acked ==
    /\ C64At("ack")
    /\ Unless("byte not accepted", High("DATA")) /\ script' = Tail(script)
    /\ IF High("DATA") THEN C64To("error", 0) ELSE C64To("next", Gap)
    /\ UNCHANGED <<driveVars, held, c64Bits>>

\* After UNLISTEN or UNTALK all lines are released.
Release ==
    /\ C64At("next") /\ script # <<>> /\ c.kind = "release"
    /\ held' = {} /\ script' = Tail(script) /\ C64To("next", Gap)
    /\ UNCHANGED <<driveVars, c64Bits, sessions, failed, said, received>>

End ==
    /\ C64At("next") /\ script = <<>> /\ C64To("idle", 0)
    /\ UNCHANGED <<driveVars, held, c64Bits, c64Talk>>

\* The turn-around: it holds DATA and releases ATN and CLK for the talker to take.
Listen ==
    /\ C64At("next") /\ script # <<>> /\ c.kind = "receive"
    /\ held' = {"DATA"} /\ ceoi' = FALSE /\ C64To("clockLow", 0)
    /\ UNCHANGED <<driveVars, cbits, c64Talk>>

TalkerThere ==
    /\ C64At("clockLow") /\ C64To("listen", 0)
    /\ UNCHANGED <<driveVars, held, c64Bits, c64Talk>>

Hear ==
    /\ C64At("listen") /\ \E t \in ReadyDelays : C64To("listening", t)
    /\ UNCHANGED <<driveVars, held, c64Bits, c64Talk>>

\* Ready for data, and after 256 microseconds without a byte an EOI; a second one
\* is an error.
Await ==
    /\ C64At("listening") /\ C64To("await", 25)
    /\ held' = held \ {"DATA"} /\ cbits' = <<>>
    /\ UNCHANGED <<driveVars, ceoi, c64Talk>>

GotEOI ==
    /\ C64At("await") /\ ct = 0
    /\ Unless("time-out", ceoi) /\ UNCHANGED script
    /\ held' = held \cup {"DATA"} /\ ceoi' = TRUE
    /\ IF ceoi THEN C64To("error", 0) ELSE C64To("listening", 4)
    /\ UNCHANGED <<driveVars, cbits>>

GotStart ==
    /\ C64At("await") /\ ct > 0 /\ C64To("rHigh", 0)
    /\ UNCHANGED <<driveVars, held, c64Bits, c64Talk>>

GetBit ==
    /\ C64At("rHigh") /\ C64To("rLow", 0)
    /\ cbits' = Append(cbits, Level("DATA"))
    /\ UNCHANGED <<driveVars, held, ceoi, c64Talk>>

NextBit ==
    /\ C64At("rLow") /\ Len(cbits) < Bits /\ C64To("rHigh", 0)
    /\ UNCHANGED <<driveVars, held, c64Bits, c64Talk>>

\* The byte is accepted; after the last one all lines are released.
GotByte ==
    /\ C64At("rLow") /\ Len(cbits) = Bits
    /\ received' = Append(received, [byte |-> cbits, eoi |-> ceoi])
    /\ held' = {"DATA"}
    /\ IF ceoi THEN script' = <<[kind |-> "release", byte |-> <<>>, eoi |-> FALSE]>> \o Tail(script)
                    /\ C64To("next", 6)
       ELSE UNCHANGED script /\ C64To("listen", 0)
    /\ UNCHANGED <<driveVars, c64Bits, sessions, failed, said>>

C64 == Begin \/ Command \/ DataByte \/ Offer \/ Accepted \/ EOITaken \/ AfterEOI
       \/ C64ClockLow \/ C64Bit \/ C64Acked \/ Release \/ End \/ Listen
       \/ TalkerThere \/ Hear \/ Await \/ GotEOI \/ GotStart \/ GetBit \/ NextBit
       \/ GotByte

----------------------------------------------------------------------------
Next == Advance \/ read \/ doTurnAround \/ writeByte \/ C64

Spec == Init /\ [][Next]_vars
\* Both processors run.
FairSpec == Spec /\ WF_vars(Next)

----------------------------------------------------------------------------
Bytes == UNION {[1..n -> {0, 1}] : n \in 0..Bits}
Items == [byte : [1..Bits -> {0, 1}], eoi : BOOLEAN]
Lines == {"ATN", "CLK", "DATA"}

\* Every variable is of its type.  What a run of the code could break: the counts of bits
\* (IEC.cpp:58, :156), and delays that would be negative.
TypeOK ==
    /\ dt \in Nat /\ ct \in Nat
    /\ ddr \subseteq {"CLK", "DATA"} /\ port \subseteq {"CLK", "DATA"} /\ held \subseteq Lines
    /\ hasEOI \in BOOLEAN /\ isListener \in BOOLEAN /\ ceoi \in BOOLEAN
    /\ accum \in Bytes /\ cbits \in Bytes
    /\ sessions \in 0..MaxSessions
    /\ \A history \in {said, heard, spoken, received} :
            \A i \in 1..Len(history) : history[i] \in Items

\* The C64 never gets "device not present", a byte that is not accepted or a time-out in the
\* turn-around or between bytes: the waits of IEC.cpp (:24-30, :67-78, :101-120, :136-186)
\* fit together with the time limits of the other side.
NoFailure == failed = ""

\* Every byte of the C64 reaches addByte() once, in order, with its bits and its EOI, and
\* before the C64 starts another (IEC.cpp:36-80): read() implements a channel.
DownChannel == INSTANCE Channel WITH Capacity <- 1, put <- said, got <- heard, broken <- FALSE
DownSpec == DownChannel!Spec

\* Every byte written by writeByte() is taken by the C64 once, in order, with its EOI, the
\* last one of a reply included (IEC.cpp:133-188).
UpChannel == INSTANCE Channel WITH Capacity <- 1, put <- spoken, got <- received, broken <- FALSE
UpSpec == UpChannel!Spec

\* Every session of the C64 comes to its end: in no order of the steps do both sides wait
\* for each other, although the drive waits for its lines without limit (IEC.cpp:24, :39,
\* :51-65, :101-117, :136-183).
SessionsEnd == cpc # "idle" ~> cpc = "idle"
=============================================================================
