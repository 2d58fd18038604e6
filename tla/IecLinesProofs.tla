--------------------------- MODULE IecLinesProofs ---------------------------
(***************************************************************************)
(* Theorems about IecLines, for every delay that the protocol allows, every *)
(* number of sessions of the C64 and all bytes: the drive and the C64 never *)
(* miss each other's edges, no byte is lost, doubled or altered in either   *)
(* direction, and the C64 reports no error.                                 *)
(***************************************************************************)
EXTENDS IecLines, SequenceTheorems, TLAPS

(* The inductive invariant: for every pair of places of the drive and of the *)
(* C64, which lines each holds, how their clocks relate, and which bits have *)
(* passed.                                                                   *)

TypeInv ==
    /\ dt \in Nat /\ ct \in Nat
    /\ hasEOI \in BOOLEAN /\ isListener \in BOOLEAN /\ ceoi \in BOOLEAN
    /\ accum \in Seq({0, 1}) /\ cbits \in Seq({0, 1})
    /\ sessions \in 0..MaxSessions
HistoryTypes ==
    said \in Seq(Items) /\ heard \in Seq(Items) /\ spoken \in Seq(Items) /\ received \in Seq(Items)

\* The lines of the drive where it listens.
DataBit(bits) == IF bits # <<>> /\ bits[Len(bits)] = 0 THEN {} ELSE {"DATA"}
ReadLines ==
    /\ pc \in {"atn", "clk", "present"} => ddr = {} /\ port = {}
    /\ pc \in {"ready", "eoi", "sink"} => ddr = {"DATA"} /\ port = {}
    /\ pc \in {"low", "first"} => ddr = {"DATA"} /\ port = {"DATA"}
    /\ pc \in {"bitLow", "bitHigh", "taken", "accept"} => ddr = {} /\ port = {"DATA"}
    /\ pc = "turn" /\ isListener => ddr = {"DATA"} /\ port = {}

\* Where it talks.  Before its first byte it does not drive DATA.
WriteLines ==
    /\ pc = "turn" /\ ~isListener => ddr = {"CLK", "DATA"} /\ port = {"DATA"}
    /\ pc \in {"giveClock", "back"} => ddr = {"CLK", "DATA"} /\ port = {}
    /\ pc = "claimed" => ddr = {"CLK", "DATA"} /\ port = {"CLK"}
    /\ pc = "room" => ddr \in {{"CLK"}, {"CLK", "DATA"}} /\ port = ddr \ {"CLK"}
    /\ pc \in {"announce", "eoiLow", "eoiHigh"} \/ (pc = "put" /\ accum = <<>>) =>
            ddr \in {{"CLK"}, {"CLK", "DATA"}} /\ port = ddr
    /\ pc = "clock" => ddr = {"CLK", "DATA"} /\ port = DataBit(accum)
    /\ pc = "end" \/ (pc = "put" /\ accum # <<>>) =>
            ddr = {"CLK", "DATA"} /\ port = {"CLK"} \cup DataBit(accum)
    /\ pc = "acked" => ddr = {"CLK", "DATA"} /\ port = {"DATA"}

Listens ==
    {"atn", "clk", "present", "ready", "low", "eoi", "first", "bitLow", "bitHigh", "taken",
     "accept", "sink"}
Writes == {"announce", "eoiLow", "eoiHigh", "put", "clock", "end", "acked", "room"}
Returns == {"giveClock", "claimed", "back"}
RoleInv ==
    /\ pc \in Listens \cup Writes \cup Returns \cup {"turn"}
    /\ pc \in Listens \cup {"back"} => isListener
    /\ pc \in Writes \cup {"giveClock", "claimed"} => ~isListener
    /\ reply \in Seq(Byte)
    /\ pc \in Writes \/ (pc = "turn" /\ isListener) => reply # <<>>
    /\ pc \in Returns \/ (pc = "turn" /\ ~isListener) => reply = <<>>

\* The lines of the C64, and what is left of its session.
Ctl == IF c.kind = "atn" THEN {"ATN"} ELSE {}
Sends == {"check", "rfd", "eoiLow", "eoiHigh", "clock", "bit", "ack"}
Hears == {"clockLow", "listen", "listening", "await", "rHigh", "rLow"}
C64Lines ==
    /\ cpc = "idle" => held = {}
    /\ cpc \in {"check", "bit", "ack"} => held = Ctl \cup {"CLK"}
    /\ cpc \in {"rfd", "eoiLow", "eoiHigh"} => held = Ctl
    /\ cpc = "clock" => held = Ctl \cup ({"DATA"} \ DataBit(cbits))
    /\ cpc \in {"clockLow", "listen", "listening"} => held = {"DATA"}
    /\ cpc \in {"await", "rHigh", "rLow"} => held = {}
ScriptInv ==
    /\ cpc \in {"idle", "next"} \cup Sends \cup Hears /\ failed = ""
    /\ WellFormed(script)
    /\ cpc = "idle" => script = <<>>
    /\ cpc \in Sends => script # <<>> /\ c.kind \in {"atn", "data"}
    /\ cpc \in Hears => script # <<>> /\ c.kind = "receive"
    /\ cpc = "next" =>
        \/ held = {} /\ (script = <<>> \/ c.kind = "atn")
        \/ held = {"DATA"} /\ script # <<>> /\ c.kind = "release" /\ Tail(script) # <<>>
        \/ pc = "sink" /\ held \in {{"CLK"}, {"ATN", "CLK"}} /\ script # <<>>
             /\ c.kind \in AfterByte(accum, hasEOI)

\* How they meet while the drive listens: where the C64 may be, and how the clocks relate.
Following == AfterByte(accum, hasEOI)
AtnPairs ==
    /\ dt = 0
    /\ \/ cpc = "idle" \/ (cpc = "next" /\ held = {})
       \/ cpc = "check" /\ c.kind = "atn" /\ ct > 10
ClkPairs == dt = 0 /\ cpc = "check" /\ c.kind = "atn" /\ ct > 10
PresentPairs == dt <= 10 /\ cpc = "check" /\ c.kind = "atn" /\ ct > dt
ReadyPairs == cpc \in {"check", "rfd"}
LowPairs ==
    \/ cpc = "rfd" /\ dt = 20
    \/ cpc = "clock" /\ dt > ct
    \/ cpc = "bit" /\ dt > 0 /\ ct > 0
    \/ cpc = "eoiLow"
EoiPairs == (cpc = "eoiLow" /\ dt > 0) \/ cpc = "eoiHigh"
FirstPairs == dt = 0 /\ (cpc \in {"eoiHigh", "clock"} \/ (cpc = "bit" /\ ct > 0))
BitLowPairs == dt = 0 /\ (cpc = "clock" \/ (cpc = "bit" /\ ct > 0))
BitHighPairs == dt = 0 /\ (cpc = "bit" \/ (cpc = "clock" /\ ct > 0))
TakenPairs == dt = 0 /\ (cpc = "clock" \/ (cpc = "ack" /\ ct = 100))
AcceptPairs == cpc = "ack" /\ dt <= 1 /\ ct = 99 + dt
SinkPairs ==
    /\ dt <= 66
    /\ \/ cpc = "ack" /\ dt >= 17
       \/ cpc = "next" /\ held = {} /\ "release" \in Following
       \/ cpc = "next" /\ held # {} /\ held # {"DATA"} /\ dt > ct
       \/ cpc = "idle" /\ "release" \in Following
       \/ cpc = "check" /\ c.kind \in Following /\ ("release" \in Following => ct > dt + 10)
       \/ cpc = "rfd" /\ "data" \in Following
       \/ cpc = "clockLow" /\ "receive" \in Following

\* How they meet while it talks; AskPairs is the turn to the drive.
AskPairs == dt = 0 /\ cpc = "clockLow"
RoomPairs == (cpc = "clockLow" /\ dt > 0) \/ cpc = "listen"
AnnouncePairs ==
    /\ dt <= 6
    /\ (cpc = "listen" /\ dt > 0) \/ cpc = "listening" \/ (cpc = "await" /\ ct > dt + 3)
EoiLowPairs == dt = 0 /\ ((cpc = "await" /\ ~ceoi) \/ (cpc = "listening" /\ ct > 0 /\ ceoi))
EoiHighPairs == dt = 0 /\ (cpc = "listening" \/ (cpc = "await" /\ ct > 3))
PutPairs ==
    \/ cpc = "await" /\ ct > dt /\ accum = <<>>
    \/ cpc = "rHigh" /\ dt > 0
    \/ cpc = "rLow"
ClockPairs ==
    \/ cpc = "await" /\ ct > 0 /\ dt > 0
    \/ cpc = "rHigh"
    \/ cpc = "rLow" /\ dt > 0
EndPairs == (cpc = "rHigh" /\ dt > 0) \/ cpc = "rLow"
AckedPairs ==
    /\ dt <= 2
    /\ \/ cpc = "rLow" /\ dt = 2
       \/ cpc = "listen" /\ ~isLast
       \/ cpc = "next" /\ isLast /\ held = {"DATA"} /\ ct = dt + 4

\* How they meet in the turn back: the drive must be through it before the C64 looks
\* for it under its next command.
StillToDo == IF cpc = "check" THEN 0 ELSE IF held = {} THEN 100 ELSE Gap + 100
UntilCheck == ct + StillToDo
ToCommand ==
    \/ cpc = "next" /\ held = {} /\ script # <<>>
    \/ cpc = "next" /\ held = {"DATA"}
    \/ cpc = "check" /\ c.kind = "atn"
BackTurnPairs == ToCommand /\ UntilCheck > dt + 10 /\ \A t \in SinkTimes : UntilCheck > dt + t + 10
GiveClockPairs == ToCommand /\ UntilCheck > dt + 10
ClaimedPairs == dt = 0 /\ ToCommand /\ (cpc = "check" => ct > 10)
BackPairs == dt = 0 /\ cpc = "check" /\ c.kind = "atn" /\ ct > 10

\* Where only a line is waited for.
WaitInv ==
    cpc \in {"idle", "rfd", "eoiLow", "eoiHigh", "clockLow", "listen", "rHigh", "rLow"} => ct = 0

\* The bits that have passed.
IsHead(bits, byte) == Len(bits) <= Bits /\ \A i \in 1..Len(bits) : bits[i] = byte[i]
C64Bits ==
    /\ cpc \in {"eoiLow", "eoiHigh", "await"} => cbits = <<>>
    /\ cpc \in {"clock", "bit", "ack"} => IsHead(cbits, c.byte)
    /\ cpc \in {"bit", "rHigh"} => Len(cbits) < Bits
    /\ cpc \in {"rHigh", "rLow"} => IsHead(cbits, Head(reply))
    /\ pc \in {"low", "first"} /\ cpc # "rfd" => cbits = <<>>
DriveBits ==
    /\ pc \in {"bitLow", "bitHigh", "taken", "accept"} \/ (pc = "sink" /\ cpc = "ack") =>
            IsHead(accum, c.byte) /\ hasEOI = c.eoi
    /\ pc \in {"put", "clock", "end", "acked"} => IsHead(accum, Head(reply))
    /\ pc \in {"bitLow", "bitHigh", "put"} => Len(accum) < Bits
    /\ pc \in {"taken", "accept", "sink", "end", "acked"} => Len(accum) = Bits
    /\ pc \in {"eoiLow", "eoiHigh"} => accum = <<>>
    /\ pc = "clock" => accum # <<>>
PairBits ==
    /\ pc \in {"bitLow", "taken"} => Len(cbits) = Len(accum)
    /\ pc = "bitHigh" => Len(cbits) = IF cpc = "bit" THEN Len(accum) ELSE Len(accum) + 1
    /\ pc \in {"put", "clock", "end", "acked"} =>
            /\ cpc = "rHigh" => Len(cbits) = Len(accum) - 1
            /\ cpc = "rLow" => Len(cbits) = IF pc = "clock" THEN Len(accum) - 1 ELSE Len(accum)
            /\ cpc = "await" /\ pc = "clock" => Len(accum) = 1

\* The end signalled with a byte.
EOIInv ==
    /\ pc \in {"atn", "clk", "present", "ready", "low", "eoi"} => ~hasEOI
    /\ pc = "low" /\ cpc \in {"clock", "bit"} => ~c.eoi
    /\ cpc \in {"eoiLow", "eoiHigh"} => c.eoi
    /\ pc = "first" => hasEOI = c.eoi
    /\ pc \in {"room", "announce"} \/ cpc \in {"clockLow", "listen"} => ~ceoi
    /\ pc \in {"eoiLow", "eoiHigh"} => isLast
    /\ pc = "eoiHigh" => ceoi
    /\ pc \in {"put", "clock", "end"} \/ (pc = "acked" /\ cpc = "rLow") => ceoi = isLast

\* What is under way in each direction.
DownInv ==
    said = IF cpc \in Sends \ {"check", "rfd"} THEN Append(heard, [byte |-> c.byte, eoi |-> c.eoi])
           ELSE IF pc = "sink" THEN Append(heard, [byte |-> accum, eoi |-> hasEOI])
           ELSE heard
UpInv ==
    spoken = IF pc \in {"eoiLow", "eoiHigh", "put", "clock", "end"} \/ (pc = "acked" /\ cpc = "rLow")
             THEN Append(received, [byte |-> Head(reply), eoi |-> isLast])
             ELSE received

LineInv == ReadLines /\ WriteLines /\ RoleInv /\ C64Lines
MeetInv ==
    /\ pc = "atn" => AtnPairs
    /\ pc = "clk" => ClkPairs
    /\ pc = "present" => PresentPairs
    /\ pc = "ready" => ReadyPairs
    /\ pc = "low" => LowPairs
    /\ pc = "eoi" => EoiPairs
    /\ pc = "first" => FirstPairs
    /\ pc = "bitLow" => BitLowPairs
    /\ pc = "bitHigh" => BitHighPairs
    /\ pc = "taken" => TakenPairs
    /\ pc = "accept" => AcceptPairs
    /\ pc = "sink" => SinkPairs
    /\ pc = "room" => RoomPairs
    /\ pc = "announce" => AnnouncePairs
    /\ pc = "eoiLow" => EoiLowPairs
    /\ pc = "eoiHigh" => EoiHighPairs
    /\ pc = "put" => PutPairs
    /\ pc = "clock" => ClockPairs
    /\ pc = "end" => EndPairs
    /\ pc = "acked" => AckedPairs
    /\ pc = "giveClock" => GiveClockPairs
    /\ pc = "claimed" => ClaimedPairs
    /\ pc = "back" => BackPairs
    /\ pc = "turn" => IF isListener THEN AskPairs ELSE BackTurnPairs
    /\ WaitInv
BitInv == C64Bits /\ DriveBits /\ PairBits /\ EOIInv
Inv == TypeInv /\ HistoryTypes /\ LineInv /\ ScriptInv /\ MeetInv /\ BitInv /\ DownInv /\ UpInv

----------------------------------------------------------------------------
(* When a place is left. *)

LEMMA ListenGuards ==
    /\ pc = "atn" => (DriveReady <=> dt = 0 /\ Low("ATN"))
    /\ pc = "clk" => (DriveReady <=> dt = 0 /\ Low("CLK"))
    /\ pc \in {"present", "eoi", "accept", "sink"} => (DriveReady <=> dt = 0)
    /\ pc = "ready" => (DriveReady <=> dt = 0 /\ High("CLK"))
    /\ pc = "low" => (DriveReady <=> dt = 0 \/ Low("CLK"))
    /\ pc \in {"first", "bitLow", "taken"} => (DriveReady <=> dt = 0 /\ Low("CLK"))
    /\ pc = "bitHigh" => (DriveReady <=> dt = 0 /\ High("CLK"))
  BY DEF DriveReady, Ready, Awaited, Timed

LEMMA TalkGuards ==
    /\ pc = "turn" => (DriveReady <=> dt = 0 /\ (High("CLK") \/ ~isListener))
    /\ pc \in {"giveClock", "back", "put", "clock", "end"} => (DriveReady <=> dt = 0)
    /\ pc = "claimed" => (DriveReady <=> dt = 0 /\ Low("CLK"))
    /\ pc \in {"room", "eoiLow", "acked"} => (DriveReady <=> dt = 0 /\ Low("DATA"))
    /\ pc \in {"announce", "eoiHigh"} => (DriveReady <=> dt = 0 /\ High("DATA"))
<1>1. pc = "turn" => (DriveReady <=> dt = 0 /\ (High("CLK") \/ ~isListener))
  <2>1. pc = "turn" => pc \in DOMAIN Awaited /\ pc \notin Timed
    BY DEF Awaited, Timed
  <2>2. pc = "turn" => (DriveReady <=> dt = 0 /\ Awaited[pc])
    BY <2>1, Zenon DEF DriveReady, Ready
  <2>3. pc = "turn" => Awaited[pc] = (High("CLK") \/ ~isListener)
    BY DEF Awaited
  <2> QED
    BY <2>2, <2>3, Zenon
<1>2. pc \in {"giveClock", "back", "put", "clock", "end"} => (DriveReady <=> dt = 0)
  BY DEF DriveReady, Ready, Awaited, Timed
<1>3. pc = "claimed" => (DriveReady <=> dt = 0 /\ Low("CLK"))
  BY DEF DriveReady, Ready, Awaited, Timed
<1>4. pc \in {"room", "eoiLow", "acked"} => (DriveReady <=> dt = 0 /\ Low("DATA"))
  BY DEF DriveReady, Ready, Awaited, Timed
<1>5. pc \in {"announce", "eoiHigh"} => (DriveReady <=> dt = 0 /\ High("DATA"))
  BY DEF DriveReady, Ready, Awaited, Timed
<1> QED
  BY <1>1, <1>2, <1>3, <1>4, <1>5

LEMMA C64Guards ==
    /\ cpc = "idle" => (C64Ready <=> ct = 0 /\ sessions < MaxSessions)
    /\ cpc \in {"next", "check", "clock", "bit", "listening"} => (C64Ready <=> ct = 0)
    /\ cpc \in {"rfd", "eoiHigh"} => (C64Ready <=> ct = 0 /\ High("DATA"))
    /\ cpc = "eoiLow" => (C64Ready <=> ct = 0 /\ Low("DATA"))
    /\ cpc = "ack" => (C64Ready <=> ct = 0 \/ Low("DATA"))
    /\ cpc = "await" => (C64Ready <=> ct = 0 \/ Low("CLK"))
    /\ cpc \in {"listen", "rHigh"} => (C64Ready <=> ct = 0 /\ High("CLK"))
    /\ cpc \in {"clockLow", "rLow"} => (C64Ready <=> ct = 0 /\ Low("CLK"))
<1>1. cpc = "idle" => (C64Ready <=> ct = 0 /\ sessions < MaxSessions)
  <2>1. cpc = "idle" => cpc \in DOMAIN AwaitedByC64 /\ cpc \notin Timed
    BY DEF AwaitedByC64, Timed
  <2>2. cpc = "idle" => (C64Ready <=> ct = 0 /\ AwaitedByC64[cpc])
    BY <2>1, Zenon DEF C64Ready, Ready
  <2>3. cpc = "idle" => AwaitedByC64[cpc] = (sessions < MaxSessions)
    BY DEF AwaitedByC64
  <2> QED
    BY <2>2, <2>3, Zenon
<1>2. cpc \in {"next", "check", "clock", "bit", "listening"} => (C64Ready <=> ct = 0)
  BY DEF C64Ready, Ready, AwaitedByC64, Timed
<1>3. cpc \in {"rfd", "eoiHigh"} => (C64Ready <=> ct = 0 /\ High("DATA"))
  BY DEF C64Ready, Ready, AwaitedByC64, Timed
<1>4. cpc = "eoiLow" => (C64Ready <=> ct = 0 /\ Low("DATA"))
  BY DEF C64Ready, Ready, AwaitedByC64, Timed
<1>5. cpc = "ack" => (C64Ready <=> ct = 0 \/ Low("DATA"))
  BY DEF C64Ready, Ready, AwaitedByC64, Timed
<1>6. cpc = "await" => (C64Ready <=> ct = 0 \/ Low("CLK"))
  BY DEF C64Ready, Ready, AwaitedByC64, Timed
<1>7. cpc \in {"listen", "rHigh"} => (C64Ready <=> ct = 0 /\ High("CLK"))
  BY DEF C64Ready, Ready, AwaitedByC64, Timed
<1>8. cpc \in {"clockLow", "rLow"} => (C64Ready <=> ct = 0 /\ Low("CLK"))
  BY DEF C64Ready, Ready, AwaitedByC64, Timed
<1> QED
  BY <1>1, <1>2, <1>3, <1>4, <1>5, <1>6, <1>7, <1>8

----------------------------------------------------------------------------
(* Who pulls which line. *)

Pulls(line) == line \in ddr /\ line \notin port
PullsClk == {"giveClock", "back", "room", "clock", "acked"}
FreesClk == Listens \cup {"claimed", "announce", "eoiLow", "eoiHigh", "put", "end"}
PullsData == {"ready", "eoi", "sink", "giveClock", "back", "claimed"}
FreesData ==
    {"atn", "clk", "present", "low", "first", "bitLow", "bitHigh", "taken", "accept", "room",
     "announce", "eoiLow", "eoiHigh", "acked"}

LEMMA Levels ==
    /\ Low("CLK") <=> "CLK" \in held \/ Pulls("CLK")
    /\ Low("DATA") <=> "DATA" \in held \/ Pulls("DATA")
    /\ High("CLK") <=> ~Low("CLK")
    /\ High("DATA") <=> ~Low("DATA")
  BY DEF Low, High, Pulls

LEMMA DriveClk ==
    ASSUME Inv
    PROVE  /\ pc \in PullsClk => Pulls("CLK")
           /\ pc \in FreesClk => ~Pulls("CLK")
           /\ pc = "turn" => (Pulls("CLK") <=> ~isListener)
<1>1. ReadLines /\ WriteLines
  BY DEF Inv, LineInv
<1>2. ASSUME pc \in Listens PROVE ~Pulls("CLK")
  BY <1>1, <1>2 DEF ReadLines, Listens, Pulls
<1>3. ASSUME pc \in FreesClk \ Listens PROVE ~Pulls("CLK")
  BY <1>1, <1>3 DEF WriteLines, FreesClk, Listens, Pulls
<1>4. ASSUME pc \in PullsClk PROVE Pulls("CLK")
  BY <1>1, <1>4 DEF WriteLines, PullsClk, Pulls, DataBit
<1>5. ASSUME pc = "turn" PROVE Pulls("CLK") <=> ~isListener
  BY <1>1, <1>5 DEF ReadLines, WriteLines, Pulls
<1> QED
  BY <1>2, <1>3, <1>4, <1>5 DEF FreesClk

LEMMA DriveData ==
    ASSUME Inv
    PROVE  /\ pc \in PullsData => Pulls("DATA")
           /\ pc \in FreesData => ~Pulls("DATA")
           /\ pc = "turn" => (Pulls("DATA") <=> isListener)
           /\ pc \in {"clock", "end"} \/ (pc = "put" /\ accum # <<>>) =>
                 (Pulls("DATA") <=> DataBit(accum) = {})
<1>1. ReadLines /\ WriteLines
  BY DEF Inv, LineInv
<1>2. ASSUME pc \in PullsData PROVE Pulls("DATA")
  BY <1>1, <1>2 DEF ReadLines, WriteLines, PullsData, Pulls
<1>3. ASSUME pc \in FreesData PROVE ~Pulls("DATA")
  BY <1>1, <1>3 DEF ReadLines, WriteLines, FreesData, Pulls
<1>4. ASSUME pc = "turn" PROVE Pulls("DATA") <=> isListener
  BY <1>1, <1>4 DEF ReadLines, WriteLines, Pulls
<1>5. ASSUME pc \in {"clock", "end"} \/ (pc = "put" /\ accum # <<>>)
      PROVE  Pulls("DATA") <=> DataBit(accum) = {}
  BY <1>1, <1>5 DEF WriteLines, Pulls, DataBit
<1> QED
  BY <1>2, <1>3, <1>4, <1>5

LEMMA C64Holds ==
    ASSUME Inv
    PROVE  /\ cpc \in {"check", "bit", "ack"} => "CLK" \in held /\ "DATA" \notin held
           /\ cpc \in {"idle", "rfd", "eoiLow", "eoiHigh", "await", "rHigh", "rLow"} =>
                 "CLK" \notin held /\ "DATA" \notin held
           /\ cpc \in {"clockLow", "listen", "listening"} => "CLK" \notin held /\ "DATA" \in held
           /\ cpc = "clock" => "CLK" \notin held /\ ("DATA" \in held <=> DataBit(cbits) = {})
           /\ cpc \in Sends => ("ATN" \in held <=> c.kind = "atn")
           /\ cpc \in {"idle"} \cup Hears => "ATN" \notin held
<1>1. C64Lines
  BY DEF Inv, LineInv
<1> QED
  BY <1>1 DEF C64Lines, Ctl, Sends, Hears, DataBit


----------------------------------------------------------------------------
(* Where the C64 is when the drive goes on. *)

LEMMA AtAtn ==
    ASSUME Inv, At("atn")
    PROVE  cpc = "check" /\ c.kind = "atn" /\ ct > 10 /\ dt = 0
<1>1. pc = "atn" /\ DriveReady
  BY DEF At
<1>2. AtnPairs /\ ReadLines
  BY <1>1 DEF Inv, MeetInv, LineInv
<1>3. "ATN" \in held
  BY <1>1, <1>2, ListenGuards DEF ReadLines, Low
<1> QED
  BY <1>1, <1>2, <1>3, C64Holds DEF AtnPairs

LEMMA AtClk ==
    ASSUME Inv, At("clk")
    PROVE  cpc = "check" /\ c.kind = "atn" /\ ct > 10 /\ dt = 0
<1>1. pc = "clk" /\ DriveReady
  BY DEF At
<1>2. dt \in Nat /\ ct \in Nat /\ ClkPairs
  BY <1>1 DEF Inv, MeetInv, TypeInv
<1> QED
  BY <1>1, <1>2, ListenGuards, Levels, DriveClk, C64Holds DEF ClkPairs, FreesClk, Listens

LEMMA AtPresent ==
    ASSUME Inv, At("present")
    PROVE  cpc = "check" /\ c.kind = "atn" /\ ct > 0 /\ dt = 0
<1>1. pc = "present" /\ DriveReady
  BY DEF At
<1>2. dt \in Nat /\ ct \in Nat /\ PresentPairs
  BY <1>1 DEF Inv, MeetInv, TypeInv
<1> QED
  BY <1>1, <1>2, ListenGuards, Levels, DriveClk, C64Holds DEF PresentPairs, FreesClk, Listens

LEMMA AtReady ==
    ASSUME Inv, At("ready")
    PROVE  cpc = "rfd" /\ dt = 0
<1>1. pc = "ready" /\ DriveReady
  BY DEF At
<1>2. dt \in Nat /\ ct \in Nat /\ ReadyPairs
  BY <1>1 DEF Inv, MeetInv, TypeInv
<1> QED
  BY <1>1, <1>2, ListenGuards, Levels, DriveClk, C64Holds DEF ReadyPairs, FreesClk, Listens

LEMMA AtLow ==
    ASSUME Inv, At("low")
    PROVE  (cpc = "bit" /\ ct > 0 /\ dt > 0) \/ (cpc = "eoiLow" /\ dt = 0)
<1>1. pc = "low" /\ DriveReady
  BY DEF At
<1>2. dt \in Nat /\ ct \in Nat /\ LowPairs
  BY <1>1 DEF Inv, MeetInv, TypeInv
<1> QED
  BY <1>1, <1>2, ListenGuards, Levels, DriveClk, C64Holds DEF LowPairs, FreesClk, Listens

LEMMA AtEoi ==
    ASSUME Inv, At("eoi")
    PROVE  cpc = "eoiHigh" /\ dt = 0
<1>1. pc = "eoi" /\ DriveReady
  BY DEF At
<1>2. dt \in Nat /\ ct \in Nat /\ EoiPairs
  BY <1>1 DEF Inv, MeetInv, TypeInv
<1> QED
  BY <1>1, <1>2, ListenGuards, Levels, DriveClk, DriveData, C64Holds DEF EoiPairs

LEMMA AtFirst ==
    ASSUME Inv, At("first")
    PROVE  cpc = "bit" /\ ct > 0 /\ dt = 0
<1>1. pc = "first" /\ DriveReady
  BY DEF At
<1>2. dt \in Nat /\ ct \in Nat /\ FirstPairs
  BY <1>1 DEF Inv, MeetInv, TypeInv
<1> QED
  BY <1>1, <1>2, ListenGuards, Levels, DriveClk, C64Holds DEF FirstPairs, FreesClk, Listens

LEMMA AtBitLow ==
    ASSUME Inv, At("bitLow")
    PROVE  cpc = "bit" /\ ct > 0 /\ dt = 0
<1>1. pc = "bitLow" /\ DriveReady
  BY DEF At
<1>2. dt \in Nat /\ ct \in Nat /\ BitLowPairs
  BY <1>1 DEF Inv, MeetInv, TypeInv
<1> QED
  BY <1>1, <1>2, ListenGuards, Levels, DriveClk, C64Holds DEF BitLowPairs, FreesClk, Listens

LEMMA AtBitHigh ==
    ASSUME Inv, At("bitHigh")
    PROVE  cpc = "clock" /\ ct > 0 /\ dt = 0
<1>1. pc = "bitHigh" /\ DriveReady
  BY DEF At
<1>2. dt \in Nat /\ ct \in Nat /\ BitHighPairs
  BY <1>1 DEF Inv, MeetInv, TypeInv
<1> QED
  BY <1>1, <1>2, ListenGuards, Levels, DriveClk, C64Holds DEF BitHighPairs, FreesClk, Listens

LEMMA AtTaken ==
    ASSUME Inv, At("taken")
    PROVE  cpc = "ack" /\ ct = 100 /\ dt = 0
<1>1. pc = "taken" /\ DriveReady
  BY DEF At
<1>2. dt \in Nat /\ ct \in Nat /\ TakenPairs
  BY <1>1 DEF Inv, MeetInv, TypeInv
<1> QED
  BY <1>1, <1>2, ListenGuards, Levels, DriveClk, C64Holds DEF TakenPairs, FreesClk, Listens

LEMMA AtAccept ==
    ASSUME Inv, At("accept")
    PROVE  cpc = "ack" /\ ct = 99 /\ dt = 0
<1>1. pc = "accept" /\ DriveReady
  BY DEF At
<1>2. dt \in Nat /\ ct \in Nat /\ AcceptPairs
  BY <1>1 DEF Inv, MeetInv, TypeInv
<1> QED
  BY <1>1, <1>2, ListenGuards, Levels, DriveClk, C64Holds DEF AcceptPairs, FreesClk, Listens

LEMMA AtSink ==
    ASSUME Inv, At("sink")
    PROVE  /\ dt = 0
           /\ \/ cpc = "idle" /\ "release" \in Following
              \/ cpc = "next" /\ held = {} /\ "release" \in Following
              \/ cpc = "check" /\ c.kind \in Following /\ ("release" \in Following => ct > 10)
              \/ cpc = "rfd" /\ "data" \in Following
              \/ cpc = "clockLow" /\ "receive" \in Following
<1>1. pc = "sink" /\ DriveReady
  BY DEF At
<1>2. dt \in Nat /\ ct \in Nat /\ SinkPairs
  BY <1>1 DEF Inv, MeetInv, TypeInv
<1> QED
  BY <1>1, <1>2, ListenGuards, Levels, DriveClk, C64Holds DEF SinkPairs, FreesClk, Listens

LEMMA AtClaimed ==
    ASSUME Inv, At("claimed")
    PROVE  cpc = "check" /\ c.kind = "atn" /\ ct > 10 /\ dt = 0
<1>1. pc = "claimed" /\ DriveReady
  BY DEF At
<1>2. dt \in Nat /\ ct \in Nat /\ ClaimedPairs
  BY <1>1 DEF Inv, MeetInv, TypeInv
<1> QED
  BY <1>1, <1>2, TalkGuards, Levels, DriveClk, C64Holds DEF ClaimedPairs, ToCommand, FreesClk

LEMMA AtBack ==
    ASSUME Inv, At("back")
    PROVE  cpc = "check" /\ c.kind = "atn" /\ ct > 10 /\ dt = 0
<1>1. pc = "back" /\ DriveReady
  BY DEF At
<1>2. dt \in Nat /\ ct \in Nat /\ BackPairs
  BY <1>1 DEF Inv, MeetInv, TypeInv
<1> QED
  BY <1>1, <1>2, TalkGuards, Levels, DriveClk, C64Holds DEF BackPairs, FreesClk, PullsClk

LEMMA AtRoom ==
    ASSUME Inv, At("room")
    PROVE  cpc = "listen" /\ dt = 0
<1>1. pc = "room" /\ DriveReady
  BY DEF At
<1>2. dt \in Nat /\ ct \in Nat /\ RoomPairs
  BY <1>1 DEF Inv, MeetInv, TypeInv
<1> QED
  BY <1>1, <1>2, TalkGuards, Levels, DriveClk, DriveData, C64Holds DEF RoomPairs

LEMMA AtAnnounce ==
    ASSUME Inv, At("announce")
    PROVE  cpc = "await" /\ ct > 3 /\ dt = 0
<1>1. pc = "announce" /\ DriveReady
  BY DEF At
<1>2. dt \in Nat /\ ct \in Nat /\ AnnouncePairs
  BY <1>1 DEF Inv, MeetInv, TypeInv
<1> QED
  BY <1>1, <1>2, TalkGuards, Levels, DriveClk, DriveData, C64Holds DEF AnnouncePairs

LEMMA AtEoiLow ==
    ASSUME Inv, At("eoiLow")
    PROVE  cpc = "listening" /\ ct > 0 /\ ceoi /\ dt = 0
<1>1. pc = "eoiLow" /\ DriveReady
  BY DEF At
<1>2. dt \in Nat /\ ct \in Nat /\ EoiLowPairs
  BY <1>1 DEF Inv, MeetInv, TypeInv
<1> QED
  BY <1>1, <1>2, TalkGuards, Levels, DriveData, C64Holds DEF EoiLowPairs, FreesData

LEMMA AtEoiHigh ==
    ASSUME Inv, At("eoiHigh")
    PROVE  cpc = "await" /\ ct > 3 /\ dt = 0
<1>1. pc = "eoiHigh" /\ DriveReady
  BY DEF At
<1>2. dt \in Nat /\ ct \in Nat /\ EoiHighPairs
  BY <1>1 DEF Inv, MeetInv, TypeInv
<1> QED
  BY <1>1, <1>2, TalkGuards, Levels, DriveClk, DriveData, C64Holds DEF EoiHighPairs

LEMMA AtPut ==
    ASSUME Inv, At("put")
    PROVE  dt = 0 /\ ((cpc = "await" /\ ct > 0 /\ accum = <<>>) \/ cpc = "rLow")
<1>1. pc = "put" /\ DriveReady
  BY DEF At
<1>2. dt \in Nat /\ ct \in Nat /\ PutPairs
  BY <1>1 DEF Inv, MeetInv, TypeInv
<1> QED
  BY <1>1, <1>2, TalkGuards, Levels, DriveClk, C64Holds DEF PutPairs, FreesClk, PullsClk

LEMMA AtClock ==
    ASSUME Inv, At("clock")
    PROVE  cpc = "rHigh" /\ dt = 0
<1>1. pc = "clock" /\ DriveReady
  BY DEF At
<1>2. dt \in Nat /\ ct \in Nat /\ ClockPairs
  BY <1>1 DEF Inv, MeetInv, TypeInv
<1> QED
  BY <1>1, <1>2, TalkGuards, Levels, DriveClk, C64Holds DEF ClockPairs, FreesClk, PullsClk

LEMMA AtEnd ==
    ASSUME Inv, At("end")
    PROVE  cpc = "rLow" /\ dt = 0
<1>1. pc = "end" /\ DriveReady
  BY DEF At
<1>2. dt \in Nat /\ ct \in Nat /\ EndPairs
  BY <1>1 DEF Inv, MeetInv, TypeInv
<1> QED
  BY <1>1, <1>2, TalkGuards, Levels, DriveClk, C64Holds DEF EndPairs, FreesClk, PullsClk

LEMMA AtAcked ==
    ASSUME Inv, At("acked")
    PROVE  /\ dt = 0
           /\ \/ cpc = "listen" /\ ~isLast
              \/ cpc = "next" /\ isLast /\ held = {"DATA"} /\ ct = 4
<1>1. pc = "acked" /\ DriveReady
  BY DEF At
<1>2. dt \in Nat /\ ct \in Nat /\ AckedPairs
  BY <1>1 DEF Inv, MeetInv, TypeInv
<1> QED
  BY <1>1, <1>2, TalkGuards, Levels, DriveClk, DriveData, C64Holds DEF AckedPairs


----------------------------------------------------------------------------
(* Where the drive is when the C64 goes on. *)

LEMMA FollowingCases ==
    /\ "receive" \in Following => Following = {"receive"}
    /\ "release" \in Following => Following = {"atn", "release"}
    /\ "data" \in Following => Following = {"atn", "data"}
    /\ "receive" \in Following \/ "release" \in Following \/ "data" \in Following
  BY DEF Following, AfterByte

LEMMA Partners ==
    ASSUME Inv
    PROVE  /\ cpc = "idle" => pc \in {"atn", "sink"}
           /\ cpc = "check" =>
                 pc \in {"atn", "clk", "present", "ready", "sink", "turn", "giveClock", "claimed", "back"}
           /\ cpc = "rfd" => pc \in {"ready", "low", "sink"}
           /\ cpc = "eoiLow" => pc \in {"low", "eoi"}
           /\ cpc = "eoiHigh" => pc \in {"eoi", "first"}
           /\ cpc = "clock" => pc \in {"low", "first", "bitLow", "bitHigh", "taken"}
           /\ cpc = "bit" => pc \in {"low", "first", "bitLow", "bitHigh"}
           /\ cpc = "ack" => pc \in {"taken", "accept", "sink"}
           /\ cpc = "clockLow" => pc \in {"sink", "turn", "room"}
           /\ cpc = "listen" => pc \in {"room", "announce", "acked"}
           /\ cpc = "listening" => pc \in {"announce", "eoiLow", "eoiHigh"}
           /\ cpc = "await" => pc \in {"announce", "eoiLow", "eoiHigh", "put", "clock"}
           /\ cpc = "rHigh" => pc \in {"put", "clock", "end"}
           /\ cpc = "rLow" => pc \in {"put", "clock", "end", "acked"}
           /\ cpc = "next" => pc \in {"atn", "sink", "acked", "turn", "giveClock", "claimed"}
<1>1. RoleInv /\ MeetInv
  BY DEF Inv, LineInv
<1>2. ASSUME cpc = "idle" PROVE pc \in {"atn", "sink"}
  BY ONLY <1>1, <1>2 DEF RoleInv, Listens, Writes, Returns, MeetInv, ClkPairs, PresentPairs,
         ReadyPairs, LowPairs, EoiPairs, FirstPairs, BitLowPairs, BitHighPairs, TakenPairs,
         AcceptPairs, RoomPairs, AnnouncePairs, EoiLowPairs, EoiHighPairs, PutPairs, ClockPairs,
         EndPairs, AckedPairs, GiveClockPairs, ClaimedPairs, BackPairs, AskPairs, BackTurnPairs,
         ToCommand
<1>3. ASSUME cpc = "check"
      PROVE  pc \in {"atn", "clk", "present", "ready", "sink", "turn", "giveClock", "claimed", "back"}
  BY ONLY <1>1, <1>3 DEF RoleInv, Listens, Writes, Returns, MeetInv, LowPairs, EoiPairs,
         FirstPairs, BitLowPairs, BitHighPairs, TakenPairs, AcceptPairs, RoomPairs,
         AnnouncePairs, EoiLowPairs, EoiHighPairs, PutPairs, ClockPairs, EndPairs, AckedPairs
<1>4. ASSUME cpc = "rfd" PROVE pc \in {"ready", "low", "sink"}
  BY ONLY <1>1, <1>4 DEF RoleInv, Listens, Writes, Returns, MeetInv, AtnPairs, ClkPairs,
         PresentPairs, EoiPairs, FirstPairs, BitLowPairs, BitHighPairs, TakenPairs, AcceptPairs,
         RoomPairs, AnnouncePairs, EoiLowPairs, EoiHighPairs, PutPairs, ClockPairs, EndPairs,
         AckedPairs, GiveClockPairs, ClaimedPairs, BackPairs, AskPairs, BackTurnPairs, ToCommand
<1>5. ASSUME cpc = "eoiLow" PROVE pc \in {"low", "eoi"}
  BY ONLY <1>1, <1>5 DEF RoleInv, Listens, Writes, Returns, MeetInv, AtnPairs, ClkPairs,
         PresentPairs, ReadyPairs, FirstPairs, BitLowPairs, BitHighPairs, TakenPairs,
         AcceptPairs, SinkPairs, RoomPairs, AnnouncePairs, EoiLowPairs, EoiHighPairs, PutPairs,
         ClockPairs, EndPairs, AckedPairs, GiveClockPairs, ClaimedPairs, BackPairs, AskPairs,
         BackTurnPairs, ToCommand
<1>6. ASSUME cpc = "eoiHigh" PROVE pc \in {"eoi", "first"}
  BY ONLY <1>1, <1>6 DEF RoleInv, Listens, Writes, Returns, MeetInv, AtnPairs, ClkPairs,
         PresentPairs, ReadyPairs, LowPairs, BitLowPairs, BitHighPairs, TakenPairs, AcceptPairs,
         SinkPairs, RoomPairs, AnnouncePairs, EoiLowPairs, EoiHighPairs, PutPairs, ClockPairs,
         EndPairs, AckedPairs, GiveClockPairs, ClaimedPairs, BackPairs, AskPairs, BackTurnPairs,
         ToCommand
<1>7. ASSUME cpc = "clock" PROVE pc \in {"low", "first", "bitLow", "bitHigh", "taken"}
  BY ONLY <1>1, <1>7 DEF RoleInv, Listens, Writes, Returns, MeetInv, AtnPairs, ClkPairs,
         PresentPairs, ReadyPairs, EoiPairs, AcceptPairs, SinkPairs, RoomPairs, AnnouncePairs,
         EoiLowPairs, EoiHighPairs, PutPairs, ClockPairs, EndPairs, AckedPairs, GiveClockPairs,
         ClaimedPairs, BackPairs, AskPairs, BackTurnPairs, ToCommand
<1>8. ASSUME cpc = "bit" PROVE pc \in {"low", "first", "bitLow", "bitHigh"}
  BY ONLY <1>1, <1>8 DEF RoleInv, Listens, Writes, Returns, MeetInv, AtnPairs, ClkPairs,
         PresentPairs, ReadyPairs, EoiPairs, TakenPairs, AcceptPairs, SinkPairs, RoomPairs,
         AnnouncePairs, EoiLowPairs, EoiHighPairs, PutPairs, ClockPairs, EndPairs, AckedPairs,
         GiveClockPairs, ClaimedPairs, BackPairs, AskPairs, BackTurnPairs, ToCommand
<1>9. ASSUME cpc = "ack" PROVE pc \in {"taken", "accept", "sink"}
  BY ONLY <1>1, <1>9 DEF RoleInv, Listens, Writes, Returns, MeetInv, AtnPairs, ClkPairs,
         PresentPairs, ReadyPairs, LowPairs, EoiPairs, FirstPairs, BitLowPairs, BitHighPairs,
         RoomPairs, AnnouncePairs, EoiLowPairs, EoiHighPairs, PutPairs, ClockPairs, EndPairs,
         AckedPairs, GiveClockPairs, ClaimedPairs, BackPairs, AskPairs, BackTurnPairs, ToCommand
<1>10. ASSUME cpc = "clockLow" PROVE pc \in {"sink", "turn", "room"}
  BY ONLY <1>1, <1>10 DEF RoleInv, Listens, Writes, Returns, MeetInv, AtnPairs, ClkPairs,
         PresentPairs, ReadyPairs, LowPairs, EoiPairs, FirstPairs, BitLowPairs, BitHighPairs,
         TakenPairs, AcceptPairs, AnnouncePairs, EoiLowPairs, EoiHighPairs, PutPairs,
         ClockPairs, EndPairs, AckedPairs, GiveClockPairs, ClaimedPairs, BackPairs, ToCommand
<1>11. ASSUME cpc = "listen" PROVE pc \in {"room", "announce", "acked"}
  BY ONLY <1>1, <1>11 DEF RoleInv, Listens, Writes, Returns, MeetInv, AtnPairs, ClkPairs,
         PresentPairs, ReadyPairs, LowPairs, EoiPairs, FirstPairs, BitLowPairs, BitHighPairs,
         TakenPairs, AcceptPairs, SinkPairs, EoiLowPairs, EoiHighPairs, PutPairs, ClockPairs,
         EndPairs, GiveClockPairs, ClaimedPairs, BackPairs, AskPairs, BackTurnPairs, ToCommand
<1>12. ASSUME cpc = "listening" PROVE pc \in {"announce", "eoiLow", "eoiHigh"}
  BY ONLY <1>1, <1>12 DEF RoleInv, Listens, Writes, Returns, MeetInv, AtnPairs, ClkPairs,
         PresentPairs, ReadyPairs, LowPairs, EoiPairs, FirstPairs, BitLowPairs, BitHighPairs,
         TakenPairs, AcceptPairs, SinkPairs, RoomPairs, PutPairs, ClockPairs, EndPairs,
         AckedPairs, GiveClockPairs, ClaimedPairs, BackPairs, AskPairs, BackTurnPairs, ToCommand
<1>13. ASSUME cpc = "await" PROVE pc \in {"announce", "eoiLow", "eoiHigh", "put", "clock"}
  BY ONLY <1>1, <1>13 DEF RoleInv, Listens, Writes, Returns, MeetInv, AtnPairs, ClkPairs,
         PresentPairs, ReadyPairs, LowPairs, EoiPairs, FirstPairs, BitLowPairs, BitHighPairs,
         TakenPairs, AcceptPairs, SinkPairs, RoomPairs, EndPairs, AckedPairs, GiveClockPairs,
         ClaimedPairs, BackPairs, AskPairs, BackTurnPairs, ToCommand
<1>14. ASSUME cpc = "rHigh" PROVE pc \in {"put", "clock", "end"}
  BY ONLY <1>1, <1>14 DEF RoleInv, Listens, Writes, Returns, MeetInv, AtnPairs, ClkPairs,
         PresentPairs, ReadyPairs, LowPairs, EoiPairs, FirstPairs, BitLowPairs, BitHighPairs,
         TakenPairs, AcceptPairs, SinkPairs, RoomPairs, AnnouncePairs, EoiLowPairs,
         EoiHighPairs, AckedPairs, GiveClockPairs, ClaimedPairs, BackPairs, AskPairs,
         BackTurnPairs, ToCommand
<1>15. ASSUME cpc = "rLow" PROVE pc \in {"put", "clock", "end", "acked"}
  BY ONLY <1>1, <1>15 DEF RoleInv, Listens, Writes, Returns, MeetInv, AtnPairs, ClkPairs,
         PresentPairs, ReadyPairs, LowPairs, EoiPairs, FirstPairs, BitLowPairs, BitHighPairs,
         TakenPairs, AcceptPairs, SinkPairs, RoomPairs, AnnouncePairs, EoiLowPairs,
         EoiHighPairs, GiveClockPairs, ClaimedPairs, BackPairs, AskPairs, BackTurnPairs,
         ToCommand
<1>16. ASSUME cpc = "next" PROVE pc \in {"atn", "sink", "acked", "turn", "giveClock", "claimed"}
  BY ONLY <1>1, <1>16 DEF RoleInv, Listens, Writes, Returns, MeetInv, ClkPairs, PresentPairs,
         ReadyPairs, LowPairs, EoiPairs, FirstPairs, BitLowPairs, BitHighPairs, TakenPairs,
         AcceptPairs, RoomPairs, AnnouncePairs, EoiLowPairs, EoiHighPairs, PutPairs, ClockPairs,
         EndPairs, BackPairs
<1> QED
  BY <1>2, <1>3, <1>4, <1>5, <1>6, <1>7, <1>8, <1>9, <1>10, <1>11, <1>12, <1>13, <1>14, <1>15,
     <1>16

LEMMA C64AtIdle ==
    ASSUME Inv, C64At("idle")
    PROVE  /\ pc \in {"atn", "sink"}
           /\ pc = "sink" => "release" \in Following
           /\ script = <<>> /\ held = {} /\ sessions < MaxSessions
<1>1. cpc = "idle" /\ C64Ready
  BY DEF C64At
<1>2. MeetInv /\ ScriptInv /\ C64Lines
  BY DEF Inv, LineInv
<1> QED
  BY <1>1, <1>2, C64Guards, Partners DEF MeetInv, SinkPairs, ScriptInv, C64Lines

LEMMA C64AtCheck ==
    ASSUME Inv, C64At("check")
    PROVE  /\ ct = 0 /\ Low("DATA") /\ pc \in {"ready", "sink"}
           /\ pc = "sink" => "data" \in Following
<1>1. cpc = "check" /\ C64Ready /\ ct = 0
  BY C64Guards DEF C64At
<1>2. dt \in Nat /\ MeetInv /\ ScriptInv
  BY DEF Inv, TypeInv
<1>3. pc \in {"ready", "sink"}
  BY <1>1, <1>2, Partners DEF MeetInv, AtnPairs, ClkPairs, PresentPairs, AskPairs,
         BackTurnPairs, GiveClockPairs, ClaimedPairs, BackPairs, UntilCheck, StillToDo
<1>4. pc = "sink" => "data" \in Following
  <2>1. pc = "sink" => c.kind \in Following /\ "release" \notin Following
    BY <1>1, <1>2 DEF MeetInv, SinkPairs
  <2>2. c.kind \in {"atn", "data"}
    BY <1>1, <1>2 DEF ScriptInv, Sends
  <2> QED
    BY ONLY <2>1, <2>2, FollowingCases
<1> QED
  BY <1>1, <1>3, <1>4, Levels, DriveData DEF PullsData

LEMMA C64AtRfd ==
    ASSUME Inv, C64At("rfd")
    PROVE  pc = "low" /\ dt = 20
<1>1. cpc = "rfd" /\ C64Ready
  BY DEF C64At
<1>2. dt \in Nat /\ ct \in Nat /\ MeetInv
  BY DEF Inv, TypeInv
<1> QED
  BY <1>1, <1>2, C64Guards, Partners, Levels, DriveData DEF MeetInv, LowPairs, PullsData

LEMMA C64AtEoiLow ==
    ASSUME Inv, C64At("eoiLow")
    PROVE  pc = "eoi" /\ dt > 0
<1>1. cpc = "eoiLow" /\ C64Ready
  BY DEF C64At
<1>2. dt \in Nat /\ ct \in Nat /\ MeetInv
  BY DEF Inv, TypeInv
<1> QED
  BY <1>1, <1>2, C64Guards, Partners, Levels, DriveData, C64Holds DEF MeetInv, EoiPairs, FreesData

LEMMA C64AtEoiHigh ==
    ASSUME Inv, C64At("eoiHigh")
    PROVE  pc = "first"
<1>1. cpc = "eoiHigh" /\ C64Ready
  BY DEF C64At
<1>2. dt \in Nat /\ ct \in Nat /\ MeetInv
  BY DEF Inv, TypeInv
<1> QED
  BY <1>1, <1>2, C64Guards, Partners, Levels, DriveClk, DriveData DEF PullsData

LEMMA C64AtClock ==
    ASSUME Inv, C64At("clock")
    PROVE  /\ ct = 0 /\ pc \in {"low", "first", "bitLow", "taken"}
           /\ pc = "low" => dt > 0
<1>1. cpc = "clock" /\ C64Ready
  BY DEF C64At
<1>2. dt \in Nat /\ ct \in Nat /\ MeetInv
  BY DEF Inv, TypeInv
<1> QED
  BY <1>1, <1>2, C64Guards, Partners, Levels DEF MeetInv, LowPairs, BitHighPairs

LEMMA C64AtBit ==
    ASSUME Inv, C64At("bit")
    PROVE  pc = "bitHigh"
<1>1. cpc = "bit" /\ C64Ready
  BY DEF C64At
<1>2. dt \in Nat /\ ct \in Nat /\ MeetInv
  BY DEF Inv, TypeInv
<1> QED
  BY <1>1, <1>2, C64Guards, Partners DEF MeetInv, LowPairs, FirstPairs, BitLowPairs

LEMMA C64AtAck ==
    ASSUME Inv, C64At("ack")
    PROVE  pc = "sink" /\ dt >= 17 /\ Low("DATA")
<1>1. cpc = "ack" /\ C64Ready
  BY DEF C64At
<1>2. dt \in Nat /\ ct \in Nat /\ MeetInv
  BY DEF Inv, TypeInv
<1> QED
  BY <1>1, <1>2, C64Guards, Partners, Levels, DriveData, C64Holds
     DEF MeetInv, TakenPairs, AcceptPairs, SinkPairs, FreesData, PullsData

LEMMA C64AtClockLow ==
    ASSUME Inv, C64At("clockLow")
    PROVE  pc = "room" /\ dt > 0
<1>1. cpc = "clockLow" /\ C64Ready
  BY DEF C64At
<1>2. dt \in Nat /\ ct \in Nat /\ MeetInv
  BY DEF Inv, TypeInv
<1> QED
  BY <1>1, <1>2, C64Guards, Partners, Levels, DriveClk, C64Holds
     DEF MeetInv, RoomPairs, BackTurnPairs, ToCommand, Listens, FreesClk

LEMMA C64AtListen ==
    ASSUME Inv, C64At("listen")
    PROVE  pc = "announce" /\ dt \in 1..6
<1>1. cpc = "listen" /\ C64Ready
  BY DEF C64At
<1>2. dt \in Nat /\ ct \in Nat /\ MeetInv
  BY DEF Inv, TypeInv
<1> QED
  BY <1>1, <1>2, C64Guards, Partners, Levels, DriveClk DEF MeetInv, AnnouncePairs, PullsClk

LEMMA C64AtListening ==
    ASSUME Inv, C64At("listening")
    PROVE  ct = 0 /\ pc \in {"announce", "eoiHigh"}
<1>1. cpc = "listening" /\ C64Ready
  BY DEF C64At
<1>2. dt \in Nat /\ ct \in Nat /\ MeetInv
  BY DEF Inv, TypeInv
<1> QED
  BY <1>1, <1>2, C64Guards, Partners, Levels, DriveClk DEF MeetInv, EoiLowPairs

LEMMA C64AtAwait ==
    ASSUME Inv, C64At("await")
    PROVE  \/ ct = 0 /\ pc = "eoiLow" /\ ~ceoi
           \/ ct > 0 /\ pc = "clock" /\ dt > 0
<1>1. cpc = "await" /\ C64Ready
  BY DEF C64At
<1>2. dt \in Nat /\ ct \in Nat /\ MeetInv
  BY DEF Inv, TypeInv
<1> QED
  BY <1>1, <1>2, C64Guards, Partners, Levels, DriveClk, C64Holds
     DEF MeetInv, AnnouncePairs, EoiLowPairs, EoiHighPairs, PutPairs, ClockPairs, FreesClk

LEMMA C64AtHigh ==
    ASSUME Inv, C64At("rHigh")
    PROVE  pc \in {"put", "end"} /\ dt > 0
<1>1. cpc = "rHigh" /\ C64Ready
  BY DEF C64At
<1>2. dt \in Nat /\ ct \in Nat /\ MeetInv
  BY DEF Inv, TypeInv
<1> QED
  BY <1>1, <1>2, C64Guards, Partners, Levels, DriveClk DEF MeetInv, PutPairs, EndPairs, PullsClk

LEMMA C64AtLow ==
    ASSUME Inv, C64At("rLow")
    PROVE  (pc = "clock" /\ dt > 0) \/ (pc = "acked" /\ dt = 2)
<1>1. cpc = "rLow" /\ C64Ready
  BY DEF C64At
<1>2. dt \in Nat /\ ct \in Nat /\ MeetInv
  BY DEF Inv, TypeInv
<1> QED
  BY <1>1, <1>2, C64Guards, Partners, Levels, DriveClk, C64Holds
     DEF MeetInv, ClockPairs, AckedPairs, FreesClk

----------------------------------------------------------------------------
(* Time passes. *)

\* Both clocks go on by the same time, until the first of them is at 0.
LEMMA Clocks ==
    ASSUME TypeInv, Advance
    PROVE  /\ dt \in Nat /\ ct \in Nat /\ dt' \in Nat /\ ct' \in Nat /\ dt' <= dt /\ ct' <= ct
           /\ \E p \in Nat : dt > 0 /\ ct > 0 => dt' = dt - p /\ ct' = ct - p
<1>1. dt \in Nat /\ ct \in Nat
  BY DEF TypeInv
<1>2. PICK step : /\ step = IF dt = 0 \/ (ct > 0 /\ ct < dt) THEN ct ELSE dt
                  /\ dt' = IF dt = 0 THEN 0 ELSE dt - step
                  /\ ct' = IF ct = 0 THEN 0 ELSE ct - step
  BY DEF Advance
<1> QED
  BY ONLY <1>1, <1>2

\* Where a clock is at 0 somebody goes on, and time does not pass.
LEMMA Standing ==
    ASSUME Inv, ~DriveReady, ~C64Ready
    PROVE  /\ pc \in {"present", "eoi", "accept", "sink", "giveClock", "back", "put", "clock", "end"} => dt # 0
           /\ cpc \in {"next", "check", "clock", "bit", "listening"} => ct # 0
           /\ pc = "turn" /\ ~isListener => dt # 0
  BY ListenGuards, TalkGuards, C64Guards

LEMMA Until == StillToDo \in Nat /\ (cpc = "check" => StillToDo = 0)
  BY TimeAssumption DEF StillToDo

LEMMA AdvanceMeets ==
    ASSUME Inv, Advance PROVE MeetInv'
<1>1. /\ ~DriveReady /\ ~C64Ready /\ MeetInv /\ TypeInv
      /\ UNCHANGED <<pc, cpc, held, script, accum, hasEOI, isListener, reply, ceoi>>
  BY DEF Inv, Advance, c64Talk, c64Bits, reader, talker
<1>0. PICK p \in Nat : dt > 0 /\ ct > 0 => dt' = dt - p /\ ct' = ct - p
  BY <1>1, Clocks
<1>2. /\ dt \in Nat /\ ct \in Nat /\ dt' \in Nat /\ ct' \in Nat /\ dt' <= dt /\ ct' <= ct
      /\ p \in Nat /\ (dt > 0 /\ ct > 0 => dt' = dt - p /\ ct' = ct - p)
  BY <1>0, <1>1, Clocks
<1>3. Following' = Following /\ c' = c /\ isLast' = isLast
  BY <1>1 DEF Following, c, isLast
<1>5. /\ cpc' = cpc /\ held' = held /\ accum' = accum /\ ceoi' = ceoi
      /\ Following' = Following /\ c' = c /\ isLast' = isLast
  BY <1>1, <1>3
<1>4. /\ cpc \in {"idle", "rfd", "eoiLow", "eoiHigh", "clockLow", "listen", "rHigh", "rLow"} => ct = 0
      /\ WaitInv'
  BY <1>1, <1>2 DEF MeetInv, WaitInv
<1>6. ASSUME pc = "atn" PROVE AtnPairs'
  <2>1. AtnPairs
    BY <1>1, <1>6 DEF MeetInv
  <2>2. dt = 0 /\ (cpc = "idle" \/ (cpc = "next" /\ held = {}))
    BY <1>1, <1>2, <1>4, <1>6, <2>1, ListenGuards, C64Holds DEF AtnPairs, Sends, Low
  <2> QED
    BY ONLY <1>2, <1>5, <2>2 DEF AtnPairs
<1>7. ASSUME pc = "clk" PROVE ClkPairs'
  <2>1. ClkPairs
    BY <1>1, <1>7 DEF MeetInv
  <2> QED
    BY <1>1, <1>2, <1>3, <1>4, <1>7, <2>1, ListenGuards, Levels, C64Holds DEF ClkPairs
<1>8. ASSUME pc = "present" PROVE PresentPairs'
  <2>1. PresentPairs
    BY <1>1, <1>8 DEF MeetInv
  <2>2. dt <= 10 /\ cpc = "check" /\ c.kind = "atn" /\ ct > dt /\ dt > 0
    BY <1>1, <1>2, <1>4, <1>8, <2>1, ListenGuards, C64Guards, Standing DEF PresentPairs
  <2> QED
    BY ONLY <1>2, <1>5, <2>2 DEF PresentPairs
<1>9. ASSUME pc = "ready" PROVE ReadyPairs'
  <2>1. ReadyPairs
    BY <1>1, <1>9 DEF MeetInv
  <2> QED
    BY <1>1, <1>2, <1>3, <1>4, <1>9, <2>1, ListenGuards, C64Guards DEF ReadyPairs
<1>10. ASSUME pc = "low" PROVE LowPairs'
  <2>1. LowPairs
    BY <1>1, <1>10 DEF MeetInv
  <2>2. cpc = "eoiLow" \/ (cpc = "clock" /\ dt > ct /\ ct > 0)
    BY <1>1, <1>2, <1>4, <1>10, <2>1, ListenGuards, C64Guards, Levels, DriveData, C64Holds
       DEF LowPairs, FreesData
  <2> QED
    BY ONLY <1>2, <1>5, <2>2 DEF LowPairs
<1>11. ASSUME pc = "eoi" PROVE EoiPairs'
  <2>1. EoiPairs
    BY <1>1, <1>11 DEF MeetInv
  <2> QED
    BY <1>1, <1>2, <1>3, <1>4, <1>11, <2>1, C64Guards, Levels, DriveData DEF EoiPairs, PullsData
<1>12. ASSUME pc = "first" PROVE FirstPairs'
  <2>1. FirstPairs
    BY <1>1, <1>12 DEF MeetInv
  <2> QED
    BY <1>1, <1>2, <1>3, <1>4, <1>12, <2>1, ListenGuards, Levels, C64Holds DEF FirstPairs
<1>13. ASSUME pc = "bitLow" PROVE BitLowPairs'
  <2>1. BitLowPairs
    BY <1>1, <1>13 DEF MeetInv
  <2> QED
    BY <1>1, <1>2, <1>3, <1>4, <1>13, <2>1, ListenGuards, Levels, C64Holds DEF BitLowPairs
<1>14. ASSUME pc = "bitHigh" PROVE BitHighPairs'
  <2>1. BitHighPairs
    BY <1>1, <1>14 DEF MeetInv
  <2> QED
    BY <1>1, <1>2, <1>3, <1>4, <1>14, <2>1, ListenGuards, Levels, DriveClk, C64Holds
       DEF BitHighPairs, Listens, FreesClk
<1>15. ASSUME pc = "taken" PROVE TakenPairs'
  <2>1. TakenPairs
    BY <1>1, <1>15 DEF MeetInv
  <2> QED
    BY <1>1, <1>2, <1>3, <1>4, <1>15, <2>1, ListenGuards, Levels, C64Holds DEF TakenPairs
<1>16. ASSUME pc = "accept" PROVE AcceptPairs'
  <2>1. AcceptPairs
    BY <1>1, <1>16 DEF MeetInv
  <2>2. cpc = "ack" /\ dt <= 1 /\ ct = 99 + dt /\ dt > 0 /\ ct > 0
    BY <1>1, <1>2, <1>4, <1>16, <2>1, ListenGuards, C64Guards, Standing DEF AcceptPairs
  <2> QED
    BY ONLY <1>2, <1>5, <2>2 DEF AcceptPairs
<1>17. ASSUME pc = "sink" PROVE SinkPairs'
  <2>1. SinkPairs
    BY <1>1, <1>17 DEF MeetInv
  <2>2. /\ dt <= 66 /\ dt > 0
        /\ \/ cpc = "next" /\ held = {} /\ "release" \in Following
           \/ cpc = "next" /\ held # {} /\ held # {"DATA"} /\ dt > ct /\ ct > 0
           \/ cpc = "idle" /\ "release" \in Following
           \/ cpc = "check" /\ c.kind \in Following /\ ("release" \in Following => ct > dt + 10) /\ ct > 0
           \/ cpc = "rfd" /\ "data" \in Following
           \/ cpc = "clockLow" /\ "receive" \in Following
    BY <1>1, <1>2, <1>4, <1>17, <2>1, ListenGuards, C64Guards, Levels, DriveData
       DEF SinkPairs, PullsData
  <2>5. cpc = "next" /\ held # {} => dt > ct /\ dt > 0 /\ ct > 0
    BY ONLY <2>2
  <2>6. cpc = "check" /\ "release" \in Following => ct > dt + 10 /\ dt > 0 /\ ct > 0
    BY ONLY <2>2
  <2>7. ASSUME dt > ct, dt > 0, ct > 0 PROVE dt' > ct'
    BY ONLY <1>2, <2>7
  <2>8. ASSUME ct > dt + 10, dt > 0, ct > 0 PROVE ct' > dt' + 10
    BY ONLY <1>2, <2>8
  <2>3. dt' <= 66
    BY ONLY <1>2, <2>2
  <2>4. /\ cpc = "next" /\ held # {} => dt' > ct'
        /\ cpc = "check" /\ "release" \in Following => ct' > dt' + 10
    BY ONLY <2>5, <2>6, <2>7, <2>8
  <2> QED
    BY ONLY <1>5, <2>2, <2>3, <2>4 DEF SinkPairs
<1>18. ASSUME pc = "room" PROVE RoomPairs'
  <2>1. RoomPairs
    BY <1>1, <1>18 DEF MeetInv
  <2> QED
    BY <1>1, <1>2, <1>3, <1>4, <1>18, <2>1, C64Guards, Levels, DriveClk DEF RoomPairs, PullsClk
<1>19. ASSUME pc = "announce" PROVE AnnouncePairs'
  <2>1. AnnouncePairs
    BY <1>1, <1>19 DEF MeetInv
  <2>2. dt <= 6 /\ (cpc = "listening" \/ (cpc = "await" /\ ct > dt + 3 /\ dt > 0 /\ ct > 0))
    BY <1>1, <1>2, <1>4, <1>19, <2>1, TalkGuards, C64Guards, Levels, DriveClk, DriveData,
       C64Holds DEF AnnouncePairs, FreesClk, FreesData
  <2>3. dt' <= 6
    BY ONLY <1>2, <2>2
  <2>4. cpc = "await" => ct' > dt' + 3
    BY ONLY <1>2, <2>2
  <2> QED
    BY ONLY <1>5, <2>2, <2>3, <2>4 DEF AnnouncePairs
<1>20. ASSUME pc = "eoiLow" PROVE EoiLowPairs'
  <2>1. EoiLowPairs
    BY <1>1, <1>20 DEF MeetInv
  <2> QED
    BY <1>1, <1>2, <1>3, <1>4, <1>20, <2>1, TalkGuards, Levels, C64Holds DEF EoiLowPairs
<1>21. ASSUME pc = "eoiHigh" PROVE EoiHighPairs'
  <2>1. EoiHighPairs
    BY <1>1, <1>21 DEF MeetInv
  <2> QED
    BY <1>1, <1>2, <1>3, <1>4, <1>21, <2>1, TalkGuards, Levels, DriveData, C64Holds
       DEF EoiHighPairs, FreesData
<1>22. ASSUME pc = "put" PROVE PutPairs'
  <2>1. PutPairs
    BY <1>1, <1>22 DEF MeetInv
  <2>2. (cpc = "await" /\ ct > dt /\ accum = <<>> /\ dt > 0) \/ cpc = "rLow"
    BY <1>1, <1>2, <1>4, <1>22, <2>1, TalkGuards, C64Guards, Levels, DriveClk, C64Holds
       DEF PutPairs, FreesClk
  <2> QED
    BY ONLY <1>2, <1>5, <2>2 DEF PutPairs
<1>23. ASSUME pc = "clock" PROVE ClockPairs'
  <2>1. ClockPairs
    BY <1>1, <1>23 DEF MeetInv
  <2> QED
    BY <1>1, <1>2, <1>3, <1>4, <1>23, <2>1, C64Guards, Levels, DriveClk DEF ClockPairs, PullsClk
<1>24. ASSUME pc = "end" PROVE EndPairs'
  <2>1. EndPairs
    BY <1>1, <1>24 DEF MeetInv
  <2> QED
    BY <1>1, <1>2, <1>3, <1>4, <1>24, <2>1, C64Guards, Levels, DriveClk, C64Holds
       DEF EndPairs, FreesClk
<1>25. ASSUME pc = "acked" PROVE AckedPairs'
  <2>1. AckedPairs
    BY <1>1, <1>25 DEF MeetInv
  <2>2. /\ dt <= 2
        /\ \/ cpc = "listen" /\ ~isLast
           \/ cpc = "next" /\ isLast /\ held = {"DATA"} /\ ct = dt + 4 /\ dt > 0 /\ ct > 0
    BY <1>1, <1>2, <1>4, <1>25, <2>1, TalkGuards, C64Guards, Levels, DriveClk
       DEF AckedPairs, PullsClk
  <2>3. dt' <= 2
    BY ONLY <1>2, <2>2
  <2>4. cpc = "next" => ct' = dt' + 4
    BY ONLY <1>2, <2>2
  <2> QED
    BY ONLY <1>5, <2>2, <2>3, <2>4 DEF AckedPairs
<1>26. ASSUME pc = "giveClock" PROVE GiveClockPairs'
  <2>1. GiveClockPairs
    BY <1>1, <1>26 DEF MeetInv
  <2>2. ToCommand /\ UntilCheck > dt + 10 /\ dt > 0 /\ ct > 0
    BY <1>1, <1>2, <1>4, <1>26, <2>1, TalkGuards, C64Guards DEF GiveClockPairs, ToCommand
  <2>5. StillToDo' = StillToDo
    BY <1>1 DEF StillToDo
  <2>3. UntilCheck \in Nat /\ UntilCheck' = UntilCheck - p
    BY ONLY <1>2, <2>2, Until, <2>5 DEF UntilCheck
  <2>4. ToCommand'
    BY <1>1, <1>3, <2>2 DEF ToCommand
  <2> QED
    BY ONLY <1>2, <2>2, <2>3, <2>4 DEF GiveClockPairs
<1>27. ASSUME pc = "claimed" PROVE ClaimedPairs'
  <2>1. ClaimedPairs
    BY <1>1, <1>27 DEF MeetInv
  <2> QED
    BY <1>1, <1>2, <1>3, <1>4, <1>27, <2>1, TalkGuards, Levels, C64Holds
       DEF ClaimedPairs, ToCommand
<1>28. ASSUME pc = "back" PROVE BackPairs'
  <2>1. BackPairs
    BY <1>1, <1>28 DEF MeetInv
  <2> QED
    BY <1>1, <1>2, <1>3, <1>4, <1>28, <2>1, TalkGuards, C64Guards DEF BackPairs
<1>29. ASSUME pc = "turn", isListener PROVE AskPairs'
  <2>1. AskPairs
    BY <1>1, <1>29 DEF MeetInv
  <2> QED
    BY <1>1, <1>29, <2>1, TalkGuards, Levels, DriveClk, C64Holds DEF AskPairs
<1>30. ASSUME pc = "turn", ~isListener PROVE BackTurnPairs'
  <2>1. BackTurnPairs
    BY <1>1, <1>30 DEF MeetInv
  <2>2. dt > 0 /\ ct > 0
    BY <1>1, <1>2, <1>30, <2>1, Standing DEF BackTurnPairs, ToCommand
  <2>5. StillToDo' = StillToDo
    BY <1>1 DEF StillToDo
  <2>3. UntilCheck \in Nat /\ UntilCheck' = UntilCheck - p
    BY ONLY <1>2, <2>2, Until, <2>5 DEF UntilCheck
  <2>4. ToCommand'
    BY <1>1, <1>3, <2>1 DEF BackTurnPairs, ToCommand
  <2> QED
    BY ONLY <1>2, <2>1, <2>2, <2>3, <2>4, TimeAssumption DEF BackTurnPairs
<1> QED
  BY <1>1, <1>4, <1>6, <1>7, <1>8, <1>9, <1>10, <1>11, <1>12, <1>13, <1>14, <1>15, <1>16, <1>17,
     <1>18, <1>19, <1>20, <1>21, <1>22, <1>23, <1>24, <1>25, <1>26, <1>27, <1>28, <1>29, <1>30 DEF
         MeetInv


----------------------------------------------------------------------------
(* The drive goes on: where it gets the C64 is as its new place wants it.   *)

\* The actions of the drive leave the C64 alone.
LEMMA WaitKept == ASSUME Inv, UNCHANGED c64Vars PROVE WaitInv'
  BY DEF Inv, MeetInv, WaitInv, c64Vars

LEMMA ReadMeets ==
    ASSUME Inv, read PROVE MeetInv'
<1>1. ASSUME Attention PROVE MeetInv'
  <2>1. At("atn") /\ pc' = "clk" /\ dt' = 0 /\ UNCHANGED c64Vars
    BY <1>1 DEF Attention, To
  <2>2. /\ dt \in Nat /\ ct \in Nat /\ UNCHANGED <<cpc, ct, held, script>> /\ c' = c
        /\ WaitInv'
    BY <2>1, WaitKept DEF Inv, TypeInv, c64Vars, c64Talk, c
  <2>3. ClkPairs'
    BY <1>1, <2>1, <2>2, AtAtn DEF Attention, ClkPairs
  <2> QED
    BY ONLY <2>1, <2>2, <2>3 DEF MeetInv
<1>2. ASSUME Commanded PROVE MeetInv'
  <2>1. At("clk") /\ pc' = "present" /\ dt' = 10 /\ UNCHANGED c64Vars
    BY <1>2 DEF Commanded, To
  <2>2. /\ dt \in Nat /\ ct \in Nat /\ UNCHANGED <<cpc, ct, held, script>> /\ c' = c
        /\ WaitInv'
    BY <2>1, WaitKept DEF Inv, TypeInv, c64Vars, c64Talk, c
  <2>3. PresentPairs'
    BY <1>2, <2>1, <2>2, AtClk DEF Commanded, PresentPairs
  <2> QED
    BY ONLY <2>1, <2>2, <2>3 DEF MeetInv
<1>3. ASSUME Present PROVE MeetInv'
  <2>1. At("present") /\ pc' = "ready" /\ dt' = 2 /\ UNCHANGED c64Vars
    BY <1>3 DEF Present, To
  <2>2. /\ dt \in Nat /\ ct \in Nat /\ UNCHANGED <<cpc, ct, held, script>> /\ c' = c
        /\ WaitInv'
    BY <2>1, WaitKept DEF Inv, TypeInv, c64Vars, c64Talk, c
  <2>3. ReadyPairs'
    BY <1>3, <2>1, <2>2, AtPresent DEF Present, ReadyPairs
  <2> QED
    BY ONLY <2>1, <2>2, <2>3 DEF MeetInv
<1>4. ASSUME ReadyForData PROVE MeetInv'
  <2>1. At("ready") /\ pc' = "low" /\ dt' = 20 /\ UNCHANGED c64Vars
    BY <1>4 DEF ReadyForData, To
  <2>2. /\ dt \in Nat /\ ct \in Nat /\ UNCHANGED <<cpc, ct, held, script>> /\ c' = c
        /\ WaitInv'
    BY <2>1, WaitKept DEF Inv, TypeInv, c64Vars, c64Talk, c
  <2>3. LowPairs'
    BY <1>4, <2>1, <2>2, AtReady DEF ReadyForData, LowPairs
  <2> QED
    BY ONLY <2>1, <2>2, <2>3 DEF MeetInv
<1>5. ASSUME NoEOI PROVE MeetInv'
  <2>1. At("low") /\ pc' = "first" /\ dt' = 0 /\ UNCHANGED c64Vars
    BY <1>5 DEF NoEOI, To
  <2>2. /\ dt \in Nat /\ ct \in Nat /\ UNCHANGED <<cpc, ct, held, script>> /\ c' = c
        /\ WaitInv'
    BY <2>1, WaitKept DEF Inv, TypeInv, c64Vars, c64Talk, c
  <2>3. FirstPairs'
    BY <1>5, <2>1, <2>2, AtLow DEF NoEOI, FirstPairs
  <2> QED
    BY ONLY <2>1, <2>2, <2>3 DEF MeetInv
<1>6. ASSUME AnswerEOI PROVE MeetInv'
  <2>1. At("low") /\ pc' = "eoi" /\ dt' = 6 /\ UNCHANGED c64Vars
    BY <1>6 DEF AnswerEOI, To
  <2>2. /\ dt \in Nat /\ ct \in Nat /\ UNCHANGED <<cpc, ct, held, script>> /\ c' = c
        /\ WaitInv'
    BY <2>1, WaitKept DEF Inv, TypeInv, c64Vars, c64Talk, c
  <2>3. EoiPairs'
    BY <1>6, <2>1, <2>2, AtLow DEF AnswerEOI, EoiPairs
  <2> QED
    BY ONLY <2>1, <2>2, <2>3 DEF MeetInv
<1>7. ASSUME EOIAnswered PROVE MeetInv'
  <2>1. At("eoi") /\ pc' = "first" /\ dt' = 0 /\ UNCHANGED c64Vars
    BY <1>7 DEF EOIAnswered, To
  <2>2. /\ dt \in Nat /\ ct \in Nat /\ UNCHANGED <<cpc, ct, held, script>> /\ c' = c
        /\ WaitInv'
    BY <2>1, WaitKept DEF Inv, TypeInv, c64Vars, c64Talk, c
  <2>3. FirstPairs'
    BY <1>7, <2>1, <2>2, AtEoi DEF EOIAnswered, FirstPairs
  <2> QED
    BY ONLY <2>1, <2>2, <2>3 DEF MeetInv
<1>8. ASSUME FirstBit PROVE MeetInv'
  <2>1. At("first") /\ pc' = "bitLow" /\ dt' = 0 /\ UNCHANGED c64Vars
    BY <1>8 DEF FirstBit, To
  <2>2. /\ dt \in Nat /\ ct \in Nat /\ UNCHANGED <<cpc, ct, held, script>> /\ c' = c
        /\ WaitInv'
    BY <2>1, WaitKept DEF Inv, TypeInv, c64Vars, c64Talk, c
  <2>3. BitLowPairs'
    BY <1>8, <2>1, <2>2, AtFirst DEF FirstBit, BitLowPairs
  <2> QED
    BY ONLY <2>1, <2>2, <2>3 DEF MeetInv
<1>9. ASSUME ClockLow PROVE MeetInv'
  <2>1. At("bitLow") /\ pc' = "bitHigh" /\ dt' = 0 /\ UNCHANGED c64Vars
    BY <1>9 DEF ClockLow, To
  <2>2. /\ dt \in Nat /\ ct \in Nat /\ UNCHANGED <<cpc, ct, held, script>> /\ c' = c
        /\ WaitInv'
    BY <2>1, WaitKept DEF Inv, TypeInv, c64Vars, c64Talk, c
  <2>3. BitHighPairs'
    BY <1>9, <2>1, <2>2, AtBitLow DEF ClockLow, BitHighPairs
  <2> QED
    BY ONLY <2>1, <2>2, <2>3 DEF MeetInv
<1>10. ASSUME Sample PROVE MeetInv'
  <2>1. At("bitHigh") /\ pc' \in {"taken", "bitLow"} /\ dt' = 0 /\ UNCHANGED c64Vars
    BY <1>10 DEF Sample, To
  <2>2. UNCHANGED <<cpc, ct>> /\ WaitInv'
    BY <2>1, WaitKept DEF c64Vars
  <2>3. TakenPairs' /\ BitLowPairs'
    BY <2>1, <2>2, AtBitHigh DEF TakenPairs, BitLowPairs
  <2> QED
    BY ONLY <2>1, <2>2, <2>3 DEF MeetInv
<1>11. ASSUME Taken PROVE MeetInv'
  <2>1. At("taken") /\ pc' = "accept" /\ dt' = 1 /\ UNCHANGED c64Vars
    BY <1>11 DEF Taken, To
  <2>2. /\ dt \in Nat /\ ct \in Nat /\ UNCHANGED <<cpc, ct, held, script>> /\ c' = c
        /\ WaitInv'
    BY <2>1, WaitKept DEF Inv, TypeInv, c64Vars, c64Talk, c
  <2>3. AcceptPairs'
    BY <1>11, <2>1, <2>2, AtTaken DEF Taken, AcceptPairs
  <2> QED
    BY ONLY <2>1, <2>2, <2>3 DEF MeetInv
<1>12. ASSUME Accept PROVE MeetInv'
  <2>1. PICK t \in SinkTimes : pc' = "sink" /\ dt' = 17 + t
    BY <1>12 DEF Accept, To
  <2>2. At("accept") /\ UNCHANGED <<cpc, ct>> /\ WaitInv'
    BY <1>12, WaitKept DEF Accept, c64Vars
  <2>3. t \in Nat /\ t + t < 100
    BY SinkAssumption, TimeAssumption
  <2>4. dt' \in 17..66
    BY ONLY <2>1, <2>3
  <2>5. SinkPairs'
    BY <2>2, <2>4, AtAccept DEF SinkPairs
  <2> QED
    BY ONLY <2>1, <2>2, <2>5 DEF MeetInv
<1>13. ASSUME SinkMore PROVE MeetInv'
  <2>1. Heard /\ pc' = "ready" /\ dt' = 0 /\ UNCHANGED c64Vars /\ UNCHANGED isListener
    BY <1>13 DEF SinkMore, To, reader
  <2>2. UNCHANGED <<cpc, ct, held, script>> /\ c' = c /\ WaitInv'
    BY <2>1, WaitKept DEF c64Vars, c64Talk, c
  <2>3. pc = "sink" /\ Following = {"atn", "data"}
    BY <1>13, <2>1 DEF SinkMore, Heard, At, Following, AfterByte
  <2>4. cpc = "check" => c.kind \in {"atn", "data"}
    BY DEF Inv, ScriptInv, Sends
  <2>5. ReadyPairs'
    BY <2>1, <2>2, <2>3, <2>4, AtSink DEF Heard, ReadyPairs
  <2> QED
    BY ONLY <2>1, <2>2, <2>5 DEF MeetInv
<1>14. ASSUME SinkDone PROVE MeetInv'
  <2>1. Heard /\ pc' = "atn" /\ dt' = 0 /\ UNCHANGED c64Vars /\ UNCHANGED isListener
    BY <1>14 DEF SinkDone, To, reader
  <2>2. UNCHANGED <<cpc, ct, held, script>> /\ c' = c /\ WaitInv'
    BY <2>1, WaitKept DEF c64Vars, c64Talk, c
  <2>3. pc = "sink" /\ Following = {"atn", "release"}
    BY <1>14, <2>1 DEF SinkDone, Heard, At, Following, AfterByte
  <2>4. cpc = "check" => c.kind \in {"atn", "data"}
    BY DEF Inv, ScriptInv, Sends
  <2>5. AtnPairs'
    BY <2>1, <2>2, <2>3, <2>4, AtSink DEF Heard, AtnPairs
  <2> QED
    BY ONLY <2>1, <2>2, <2>5 DEF MeetInv
<1>15. ASSUME SinkTalks PROVE MeetInv'
  <2>1. Heard /\ pc' = "turn" /\ dt' = 0 /\ UNCHANGED c64Vars /\ UNCHANGED isListener
    BY <1>15 DEF SinkTalks, To, reader
  <2>2. UNCHANGED <<cpc, ct, held, script>> /\ c' = c /\ WaitInv'
    BY <2>1, WaitKept DEF c64Vars, c64Talk, c
  <2>3. pc = "sink" /\ Following = {"receive"}
    BY <1>15, <2>1 DEF SinkTalks, Heard, At, Following, AfterByte
  <2>4. cpc = "check" => c.kind \in {"atn", "data"}
    BY DEF Inv, ScriptInv, Sends
  <2>5. AskPairs'
    BY <2>1, <2>2, <2>3, <2>4, AtSink DEF Heard, AskPairs
  <2>6. isListener'
    BY <2>1, <2>3 DEF Inv, LineInv, RoleInv, Listens
  <2> QED
    BY ONLY <2>1, <2>2, <2>5, <2>6 DEF MeetInv
<1> QED
  BY <1>1, <1>2, <1>3, <1>4, <1>5, <1>6, <1>7, <1>8, <1>9, <1>10, <1>11, <1>12, <1>13, <1>14,
     <1>15 DEF read

LEMMA TurnAroundMeets ==
    ASSUME Inv, doTurnAround PROVE MeetInv'
<1>1. ASSUME TakeClock PROVE MeetInv'
  <2>1. pc = "turn" /\ isListener /\ UNCHANGED c64Vars
    BY <1>1 DEF TakeClock, At
  <2>2. reply # <<>> /\ AskPairs /\ UNCHANGED <<cpc, ct>> /\ WaitInv'
    BY <2>1, WaitKept DEF Inv, LineInv, RoleInv, MeetInv, c64Vars
  <2>3. pc' = "room" /\ dt' = 8
    BY <1>1, <2>2 DEF TakeClock, AfterTurn, To
  <2>4. RoomPairs'
    BY <2>2, <2>3 DEF AskPairs, RoomPairs
  <2> QED
    BY ONLY <2>2, <2>3, <2>4 DEF MeetInv
<1>2. ASSUME HoldData PROVE MeetInv'
  <2>1. PICK t \in SinkTimes : pc' = "giveClock" /\ dt' = t
    BY <1>2 DEF HoldData, To
  <2>2. At("turn") /\ ~isListener /\ UNCHANGED c64Vars
    BY <1>2 DEF HoldData
  <2>3. BackTurnPairs /\ dt = 0
    BY <2>2, TalkGuards DEF Inv, MeetInv, At
  <2>4. /\ UNCHANGED <<cpc, ct, held, script>> /\ c' = c /\ WaitInv'
        /\ ct \in Nat
    BY <2>2, WaitKept DEF c64Vars, c64Talk, c, Inv, TypeInv
  <2>5. ToCommand' /\ UntilCheck' = UntilCheck /\ ToCommand /\ UntilCheck > 0 + t + 10
    BY <2>3, <2>4 DEF BackTurnPairs, ToCommand, UntilCheck, StillToDo
  <2>6. UntilCheck \in Nat /\ t \in Nat
    BY <2>4, Until, TimeAssumption DEF UntilCheck
  <2>7. GiveClockPairs'
    BY ONLY <2>1, <2>5, <2>6 DEF GiveClockPairs
  <2> QED
    BY ONLY <2>1, <2>4, <2>7 DEF MeetInv
<1>3. ASSUME GiveClock PROVE MeetInv'
  <2>1. At("giveClock") /\ pc' = "claimed" /\ dt' = 0 /\ UNCHANGED c64Vars
    BY <1>3 DEF GiveClock, To
  <2>2. GiveClockPairs /\ dt = 0
    BY <2>1, TalkGuards DEF Inv, MeetInv, At
  <2>3. UNCHANGED <<cpc, ct, held, script>> /\ c' = c /\ WaitInv' /\ ct \in Nat
    BY <2>1, WaitKept DEF c64Vars, c64Talk, c, Inv, TypeInv
  <2>4. cpc = "check" => ct > 10
    BY <2>2, <2>3 DEF GiveClockPairs, UntilCheck, StillToDo
  <2>5. ClaimedPairs'
    BY <2>1, <2>2, <2>3, <2>4 DEF GiveClockPairs, ClaimedPairs, ToCommand
  <2> QED
    BY ONLY <2>1, <2>3, <2>5 DEF MeetInv
<1>4. ASSUME Claimed PROVE MeetInv'
  <2>1. At("claimed") /\ UNCHANGED c64Vars /\ reply = <<>>
    BY <1>4 DEF Claimed, At, Inv, LineInv, RoleInv, Returns
  <2>2. pc' = "back" /\ dt' = 0
    BY <1>4, <2>1 DEF Claimed, AfterTurn, To
  <2>3. UNCHANGED <<cpc, ct, script>> /\ c' = c /\ WaitInv'
    BY <2>1, WaitKept DEF c64Vars, c64Talk, c
  <2>4. BackPairs'
    BY <2>1, <2>2, <2>3, AtClaimed DEF BackPairs
  <2> QED
    BY ONLY <2>2, <2>3, <2>4 DEF MeetInv
<1>5. ASSUME Back PROVE MeetInv'
  <2>1. At("back") /\ pc' = "atn" /\ dt' = 0 /\ UNCHANGED c64Vars
    BY <1>5 DEF Back, To
  <2>2. /\ dt \in Nat /\ ct \in Nat /\ UNCHANGED <<cpc, ct, held, script>> /\ c' = c
        /\ WaitInv'
    BY <2>1, WaitKept DEF Inv, TypeInv, c64Vars, c64Talk, c
  <2>3. AtnPairs'
    BY <1>5, <2>1, <2>2, AtBack DEF Back, AtnPairs
  <2> QED
    BY ONLY <2>1, <2>2, <2>3 DEF MeetInv
<1> QED
  BY <1>1, <1>2, <1>3, <1>4, <1>5 DEF doTurnAround

LEMMA WriteMeets ==
    ASSUME Inv, writeByte PROVE MeetInv'
<1>1. ASSUME ReadyToSend PROVE MeetInv'
  <2>1. At("room") /\ pc' = "announce" /\ dt' = 6 /\ UNCHANGED c64Vars
    BY <1>1 DEF ReadyToSend, To
  <2>2. /\ dt \in Nat /\ ct \in Nat /\ UNCHANGED <<cpc, ct, held, script>> /\ c' = c
        /\ WaitInv'
    BY <2>1, WaitKept DEF Inv, TypeInv, c64Vars, c64Talk, c
  <2>3. AnnouncePairs'
    BY <1>1, <2>1, <2>2, AtRoom DEF ReadyToSend, AnnouncePairs
  <2> QED
    BY ONLY <2>1, <2>2, <2>3 DEF MeetInv
<1>2. ASSUME ListenerReady PROVE MeetInv'
  <2>1. At("announce") /\ UNCHANGED c64Vars /\ ~ceoi /\ accum' = <<>>
    BY <1>2 DEF ListenerReady, At, Inv, BitInv, EOIInv
  <2>2. (pc' = "eoiLow" /\ dt' = 0) \/ (pc' = "put" /\ dt' = 3)
    BY <1>2 DEF ListenerReady, To
  <2>3. UNCHANGED <<cpc, ct, ceoi>> /\ WaitInv' /\ ct \in Nat
    BY <2>1, WaitKept DEF c64Vars, c64Bits, Inv, TypeInv
  <2>4. pc' = "eoiLow" => EoiLowPairs'
    BY <2>1, <2>2, <2>3, AtAnnounce DEF EoiLowPairs
  <2>5. pc' = "put" => PutPairs'
    BY <2>1, <2>2, <2>3, AtAnnounce DEF PutPairs
  <2> QED
    BY ONLY <2>2, <2>3, <2>4, <2>5 DEF MeetInv
<1>3. ASSUME EOISeen PROVE MeetInv'
  <2>1. At("eoiLow") /\ pc' = "eoiHigh" /\ dt' = 0 /\ UNCHANGED c64Vars
    BY <1>3 DEF EOISeen, To
  <2>2. /\ dt \in Nat /\ ct \in Nat /\ UNCHANGED <<cpc, ct, held, script>> /\ c' = c
        /\ WaitInv'
    BY <2>1, WaitKept DEF Inv, TypeInv, c64Vars, c64Talk, c
  <2>3. EoiHighPairs'
    BY <1>3, <2>1, <2>2, AtEoiLow DEF EOISeen, EoiHighPairs
  <2> QED
    BY ONLY <2>1, <2>2, <2>3 DEF MeetInv
<1>4. ASSUME EOIOver PROVE MeetInv'
  <2>1. At("eoiHigh") /\ UNCHANGED c64Vars /\ accum' = <<>> /\ pc' = "put" /\ dt' = 3
    BY <1>4 DEF EOIOver, To, At, reader, Inv, BitInv, DriveBits
  <2>2. UNCHANGED <<cpc, ct>> /\ WaitInv' /\ ct \in Nat
    BY <2>1, WaitKept DEF c64Vars, Inv, TypeInv
  <2>3. PutPairs'
    BY <2>1, <2>2, AtEoiHigh DEF PutPairs
  <2> QED
    BY ONLY <2>1, <2>2, <2>3 DEF MeetInv
<1>5. ASSUME PutBit PROVE MeetInv'
  <2>1. At("put") /\ pc' = "clock" /\ dt' = 8 /\ UNCHANGED c64Vars
    BY <1>5 DEF PutBit, To
  <2>2. /\ dt \in Nat /\ ct \in Nat /\ UNCHANGED <<cpc, ct, held, script>> /\ c' = c
        /\ WaitInv'
    BY <2>1, WaitKept DEF Inv, TypeInv, c64Vars, c64Talk, c
  <2>3. ClockPairs'
    BY <1>5, <2>1, <2>2, AtPut DEF PutBit, ClockPairs
  <2> QED
    BY ONLY <2>1, <2>2, <2>3 DEF MeetInv
<1>6. ASSUME ClockBit PROVE MeetInv'
  <2>1. At("clock") /\ UNCHANGED c64Vars /\ pc' \in {"end", "put"} /\ dt' = 8
    BY <1>6 DEF ClockBit, To
  <2>2. UNCHANGED cpc /\ WaitInv'
    BY <2>1, WaitKept DEF c64Vars
  <2>3. PutPairs' /\ EndPairs'
    BY <2>1, <2>2, AtClock DEF PutPairs, EndPairs
  <2> QED
    BY ONLY <2>1, <2>2, <2>3 DEF MeetInv
<1>7. ASSUME EndOfByte PROVE MeetInv'
  <2>1. At("end") /\ pc' = "acked" /\ dt' = 2 /\ UNCHANGED c64Vars
    BY <1>7 DEF EndOfByte, To
  <2>2. /\ dt \in Nat /\ ct \in Nat /\ UNCHANGED <<cpc, ct, held, script>> /\ c' = c
        /\ WaitInv'
    BY <2>1, WaitKept DEF Inv, TypeInv, c64Vars, c64Talk, c
  <2>3. AckedPairs'
    BY <1>7, <2>1, <2>2, AtEnd DEF EndOfByte, AckedPairs
  <2> QED
    BY ONLY <2>1, <2>2, <2>3 DEF MeetInv
<1>8. ASSUME Acked PROVE MeetInv'
  <2>1. PICK t \in SinkTimes : pc' = (IF isLast THEN "turn" ELSE "room") /\ dt' = 10 + t
    BY <1>8 DEF Acked, To
  <2>2. At("acked") /\ ~isListener' /\ UNCHANGED c64Vars
    BY <1>8 DEF Acked, At, reader, Inv, LineInv, RoleInv, Writes
  <2>3. UNCHANGED <<cpc, ct, held>> /\ WaitInv'
    BY <2>2, WaitKept DEF c64Vars
  <2>4. ASSUME isLast PROVE BackTurnPairs'
    <3>1. /\ ToCommand' /\ UntilCheck' = 4 + (Gap + 100)
      BY <2>2, <2>3, <2>4, AtAcked DEF ToCommand, UntilCheck, StillToDo
    <3>2. t \in Nat /\ Gap \in Nat /\ t + t < 84 + Gap /\ \A u \in SinkTimes : u \in Nat /\ t + u < 84 + Gap
      BY SinkAssumption, TimeAssumption
    <3> QED
      BY ONLY <2>1, <3>1, <3>2 DEF BackTurnPairs
  <2>5. ASSUME ~isLast PROVE RoomPairs'
    BY <2>2, <2>3, <2>5, AtAcked DEF RoomPairs
  <2> QED
    BY ONLY <2>1, <2>2, <2>3, <2>4, <2>5 DEF MeetInv
<1> QED
  BY <1>1, <1>2, <1>3, <1>4, <1>5, <1>6, <1>7, <1>8 DEF writeByte

----------------------------------------------------------------------------
(* The C64 goes on: the place of the drive bears where it goes.             *)

LEMMA DriveKept ==
    ASSUME Inv, UNCHANGED driveVars
    PROVE  /\ UNCHANGED <<pc, dt, accum, isListener, reply, hasEOI>>
           /\ Following' = Following /\ isLast' = isLast
           /\ dt \in Nat /\ ct \in Nat
  BY DEF Inv, TypeInv, driveVars, reader, talker, Following, isLast

\* Between two steps of its session it has nothing to wait for.
LEMMA C64AtNext ==
    ASSUME Inv, C64At("next")
    PROVE  /\ ct = 0 /\ script \in Seq(Step)
           /\ pc \in {"atn", "sink", "turn", "giveClock", "claimed"} /\ (pc = "turn" => ~isListener)
           /\ pc = "atn" => dt = 0 /\ held = {}
           /\ pc = "sink" =>
                dt <= 66 /\ ((held = {} /\ "release" \in Following)
                             \/ (held \in {{"CLK"}, {"ATN", "CLK"}} /\ script # <<>> /\ c.kind \in Following))
           /\ pc \in {"turn", "giveClock", "claimed"} =>
                ToCommand /\ ((held = {} /\ script # <<>>) \/ held = {"DATA"})
           /\ held = {} /\ script # <<>> => c.kind = "atn"
           /\ held = {"DATA"} => script # <<>> /\ c.kind = "release" /\ Tail(script) # <<>>
<1>1. cpc = "next" /\ ct = 0
  BY C64Guards DEF C64At
<1>2. /\ dt \in Nat /\ MeetInv /\ script \in Seq(Step)
      /\ \/ held = {} /\ (script = <<>> \/ c.kind = "atn")
         \/ held = {"DATA"} /\ script # <<>> /\ c.kind = "release" /\ Tail(script) # <<>>
         \/ pc = "sink" /\ held \in {{"CLK"}, {"ATN", "CLK"}} /\ script # <<>>
              /\ c.kind \in Following
  BY <1>1 DEF Inv, TypeInv, ScriptInv, Following, WellFormed
<1>3. pc # "acked"
  BY <1>1, <1>2 DEF MeetInv, AckedPairs
<1>4. pc \in {"atn", "sink", "turn", "giveClock", "claimed"}
  BY <1>1, <1>3, Partners
<1>5. pc = "turn" => ~isListener
  BY <1>1, <1>2 DEF MeetInv, AskPairs
<1>6. pc = "atn" => dt = 0 /\ held = {}
  BY <1>1, <1>2 DEF MeetInv, AtnPairs
<1>7. pc = "sink" => dt <= 66 /\ ((held = {} /\ "release" \in Following)
                                  \/ (held \in {{"CLK"}, {"ATN", "CLK"}} /\ script # <<>> /\ c.kind \in Following))
  <2>1. pc = "sink" => dt <= 66 /\ held # {"DATA"} /\ (held = {} => "release" \in Following)
    BY <1>1, <1>2 DEF MeetInv, SinkPairs
  <2> QED
    BY <1>2, <2>1
<1>8. pc \in {"turn", "giveClock", "claimed"} => ToCommand /\ ((held = {} /\ script # <<>>) \/ held = {"DATA"})
  BY <1>1, <1>2, <1>5 DEF MeetInv, BackTurnPairs, GiveClockPairs, ClaimedPairs, ToCommand
<1> QED
  BY <1>1, <1>2, <1>4, <1>5, <1>6, <1>7, <1>8

\* In the turn back a step of the C64 leaves the drive as much time as before.
LEMMA TurnKept ==
    ASSUME Inv, UNCHANGED <<pc, dt, isListener>>, ToCommand', UntilCheck' = UntilCheck
    PROVE  /\ pc = "turn" /\ ~isListener => BackTurnPairs'
           /\ pc = "giveClock" => GiveClockPairs'
  BY DEF Inv, MeetInv, BackTurnPairs, GiveClockPairs

LEMMA FirstDt == ASSUME Inv, pc = "first" PROVE dt = 0
  BY DEF Inv, MeetInv, FirstPairs

\* When the drive waits for the byte to be accepted, the C64 has all its bits; with the
\* clock low it does not have the last one.
LEMMA AckedFull == ASSUME Inv, C64At("rLow"), pc = "acked" PROVE Len(cbits) = Bits
  BY DEF C64At, Inv, BitInv, PairBits, DriveBits
LEMMA ClockOpen == ASSUME Inv, C64At("rLow"), pc = "clock" PROVE Len(cbits) < Bits
<1>1. Len(cbits) = Len(accum) - 1 /\ Len(accum) <= Bits
  BY DEF C64At, Inv, BitInv, PairBits, DriveBits, IsHead
<1>2. Len(accum) \in Nat
  BY DEF Inv, TypeInv
<1> QED
  BY <1>1, <1>2, TimeAssumption

LEMMA C64Meets ==
    ASSUME Inv, C64 PROVE MeetInv'
<1>1. ASSUME Begin PROVE MeetInv'
  <2>1. /\ C64At("idle") /\ UNCHANGED driveVars /\ cpc' = "next" /\ ct' = 0 /\ held' = {}
    BY <1>1, C64AtIdle DEF Begin, C64To
  <2>2. /\ UNCHANGED <<pc, dt, accum, isListener, reply, hasEOI>>
        /\ Following' = Following /\ isLast' = isLast
        /\ dt \in Nat /\ ct \in Nat
    BY <2>1, DriveKept
  <2>3. cpc = "idle"
    BY <2>1 DEF C64At
  <2>4. AtnPairs' \/ pc # "atn"
    BY <2>1, <2>2, <2>3 DEF AtnPairs, Inv, MeetInv
  <2>5. SinkPairs' \/ pc # "sink"
    BY <2>1, <2>2, <2>3 DEF SinkPairs, Inv, MeetInv
  <2>6. WaitInv'
    BY <2>1 DEF WaitInv
  <2> QED
    BY <2>1, <2>2, <2>4, <2>5, <2>6, C64AtIdle DEF MeetInv
<1>2. ASSUME Command PROVE MeetInv'
  <2>1. /\ C64At("next") /\ UNCHANGED driveVars /\ cpc' = "check" /\ ct' = 100
        /\ c.kind = "atn" /\ c' = c /\ script # <<>>
    BY <1>2 DEF Command, C64To, c64Talk, c
  <2>2. /\ UNCHANGED <<pc, dt, accum, isListener, reply, hasEOI>>
        /\ Following' = Following /\ isLast' = isLast
        /\ dt \in Nat /\ ct \in Nat
    BY <2>1, DriveKept
  <2>3. ct = 0 /\ pc \in {"atn", "sink", "turn", "giveClock", "claimed"} /\ (pc = "turn" => ~isListener)
    BY <2>1, C64AtNext
  <2>4. pc = "atn" => AtnPairs'
    BY <2>1, <2>2, C64AtNext DEF AtnPairs
  <2>5. pc = "sink" => SinkPairs'
    <3>1. pc = "sink" => dt <= 66 /\ ("release" \in Following \/ c.kind \in Following)
      BY <2>1, C64AtNext
    <3>2. pc = "sink" => c.kind \in Following
      BY <2>1, <3>1, FollowingCases
    <3> QED
      BY ONLY <2>1, <2>2, <3>1, <3>2 DEF SinkPairs
  <2>6. ASSUME pc \in {"turn", "giveClock", "claimed"} PROVE ToCommand' /\ UntilCheck' = UntilCheck
    <3>1. cpc = "next" /\ held = {}
      BY <2>1, <2>6, C64AtNext DEF C64At
    <3> QED
      BY <2>1, <2>3, <3>1 DEF ToCommand, UntilCheck, StillToDo
  <2>7. ClaimedPairs' \/ pc # "claimed"
    BY <2>1, <2>2, <2>6 DEF ClaimedPairs, Inv, MeetInv
  <2>8. WaitInv'
    BY <2>1 DEF WaitInv
  <2> QED
    BY <2>2, <2>3, <2>4, <2>5, <2>6, <2>7, <2>8, TurnKept DEF MeetInv
<1>3. ASSUME DataByte PROVE MeetInv'
  <2>1. /\ C64At("next") /\ UNCHANGED driveVars /\ cpc' = "check" /\ ct' = Gap
        /\ c.kind = "data" /\ c' = c /\ script # <<>>
    BY <1>3 DEF DataByte, C64To, c64Talk, c
  <2>2. /\ UNCHANGED <<pc, dt, accum, isListener, reply, hasEOI>>
        /\ Following' = Following /\ isLast' = isLast
        /\ dt \in Nat /\ ct \in Nat
    BY <2>1, DriveKept
  <2>3. pc = "sink" /\ dt <= 66 /\ c.kind \in Following
    BY <2>1, C64AtNext
  <2>4. "release" \notin Following
    BY <2>1, <2>3, FollowingCases
  <2>5. SinkPairs'
    BY <2>1, <2>2, <2>3, <2>4 DEF SinkPairs
  <2>6. WaitInv'
    BY <2>1 DEF WaitInv
  <2> QED
    BY ONLY <2>2, <2>3, <2>5, <2>6 DEF MeetInv
<1>4. ASSUME Offer PROVE MeetInv'
  <2>1. C64At("check") /\ UNCHANGED driveVars /\ cpc' = "rfd" /\ ct' = 0
    BY <1>4, C64AtCheck, Levels DEF Offer, C64To
  <2>2. /\ UNCHANGED <<pc, dt, accum, isListener, reply, hasEOI>>
        /\ Following' = Following /\ isLast' = isLast
        /\ dt \in Nat /\ ct \in Nat
    BY <2>1, DriveKept
  <2>3. pc = "sink" => dt <= 66
    BY DEF Inv, MeetInv, SinkPairs
  <2>4. ReadyPairs'
    BY <2>1 DEF ReadyPairs
  <2>5. pc = "sink" => SinkPairs'
    BY <2>1, <2>2, <2>3, C64AtCheck DEF SinkPairs
  <2>6. WaitInv'
    BY <2>1 DEF WaitInv
  <2>7. pc \in {"ready", "sink"}
    BY <2>1, C64AtCheck
  <2> QED
    BY ONLY <2>2, <2>4, <2>5, <2>6, <2>7 DEF MeetInv
<1>5. ASSUME Accepted PROVE MeetInv'
  <2>1. C64At("rfd") /\ UNCHANGED driveVars /\ ((cpc' = "eoiLow" /\ ct' = 0) \/ (cpc' = "clock" /\ ct' \in 1..19))
    BY <1>5, TimeAssumption DEF Accepted, C64To, Start
  <2>2. /\ UNCHANGED <<pc, dt, accum, isListener, reply, hasEOI>>
        /\ Following' = Following /\ isLast' = isLast
        /\ dt \in Nat /\ ct \in Nat
    BY <2>1, DriveKept
  <2>3. pc = "low" /\ LowPairs'
    BY <2>1, <2>2, C64AtRfd DEF LowPairs
  <2>4. WaitInv'
    BY <2>1 DEF WaitInv
  <2> QED
    BY ONLY <2>2, <2>3, <2>4 DEF MeetInv
<1>6. ASSUME EOITaken PROVE MeetInv'
  <2>1. C64At("eoiLow") /\ UNCHANGED driveVars /\ (cpc' = "eoiHigh" /\ ct' = 0)
    BY <1>6 DEF EOITaken, C64To
  <2>2. /\ UNCHANGED <<pc, dt, accum, isListener, reply, hasEOI>>
        /\ Following' = Following /\ isLast' = isLast
        /\ dt \in Nat /\ ct \in Nat
    BY <2>1, DriveKept
  <2>3. pc = "eoi" /\ EoiPairs'
    BY <2>1, <2>2, C64AtEoiLow DEF EoiPairs
  <2>4. WaitInv'
    BY <2>1 DEF WaitInv
  <2> QED
    BY ONLY <2>2, <2>3, <2>4 DEF MeetInv
<1>7. ASSUME AfterEOI PROVE MeetInv'
  <2>1. C64At("eoiHigh") /\ UNCHANGED driveVars /\ (cpc' = "clock")
    BY <1>7, TimeAssumption DEF AfterEOI, C64To, Start
  <2>2. /\ UNCHANGED <<pc, dt, accum, isListener, reply, hasEOI>>
        /\ Following' = Following /\ isLast' = isLast
        /\ dt \in Nat /\ ct \in Nat
    BY <2>1, DriveKept
  <2>3. pc = "first" /\ FirstPairs'
    BY <2>1, <2>2, C64AtEoiHigh, FirstDt DEF FirstPairs
  <2>4. WaitInv'
    BY <2>1 DEF WaitInv
  <2> QED
    BY ONLY <2>2, <2>3, <2>4 DEF MeetInv
<1>8. ASSUME C64ClockLow PROVE MeetInv'
  <2>1. C64At("clock") /\ UNCHANGED driveVars
        /\ IF Len(cbits) = Bits THEN cpc' = "ack" /\ ct' = 100 ELSE cpc' = "bit" /\ ct' = 4
    BY <1>8 DEF C64ClockLow, C64To
  <2>2. /\ UNCHANGED <<pc, dt, accum, isListener, reply, hasEOI>>
        /\ Following' = Following /\ isLast' = isLast
        /\ dt \in Nat /\ ct \in Nat
    BY <2>1, DriveKept
  <2>3. cpc = "clock" /\ pc \in {"low", "first", "bitLow", "taken"} /\ (pc = "low" => dt > 0)
    BY <2>1, C64AtClock DEF C64At
  <2>4. pc # "low" => dt = 0
    BY <2>3 DEF Inv, MeetInv, FirstPairs, BitLowPairs, TakenPairs
  <2>5. pc \in {"low", "first"} => cbits = <<>>
    BY <2>3 DEF Inv, BitInv, C64Bits
  <2>6. pc \in {"low", "first", "bitLow"} => Len(cbits) # Bits
    BY <2>5, TimeAssumption DEF Inv, BitInv, PairBits, DriveBits, TypeInv
  <2>7. pc = "taken" => Len(cbits) = Bits
    BY DEF Inv, BitInv, PairBits, DriveBits
  <2>8. /\ pc = "low" => LowPairs'
        /\ pc = "first" => FirstPairs'
        /\ pc = "bitLow" => BitLowPairs'
        /\ pc = "taken" => TakenPairs'
    BY ONLY <2>1, <2>2, <2>3, <2>4, <2>6, <2>7 DEF LowPairs, FirstPairs, BitLowPairs, TakenPairs
  <2>9. WaitInv'
    BY <2>1 DEF WaitInv
  <2> QED
    BY ONLY <2>2, <2>3, <2>8, <2>9 DEF MeetInv
<1>9. ASSUME C64Bit PROVE MeetInv'
  <2>1. C64At("bit") /\ UNCHANGED driveVars /\ (cpc' = "clock" /\ ct' = 2)
    BY <1>9 DEF C64Bit, C64To
  <2>2. /\ UNCHANGED <<pc, dt, accum, isListener, reply, hasEOI>>
        /\ Following' = Following /\ isLast' = isLast
        /\ dt \in Nat /\ ct \in Nat
    BY <2>1, DriveKept
  <2>3. pc = "bitHigh" /\ BitHighPairs'
    BY <2>1, <2>2, C64AtBit DEF BitHighPairs, Inv, MeetInv
  <2>4. WaitInv'
    BY <2>1 DEF WaitInv
  <2> QED
    BY ONLY <2>2, <2>3, <2>4 DEF MeetInv
<1>10. ASSUME C64Acked PROVE MeetInv'
  <2>1. /\ C64At("ack") /\ UNCHANGED driveVars /\ cpc' = "next" /\ ct' = Gap
        /\ held' = held
    BY <1>10, C64AtAck, Levels DEF C64Acked, C64To
  <2>2. /\ UNCHANGED <<pc, dt, accum, isListener, reply, hasEOI>>
        /\ Following' = Following /\ isLast' = isLast
        /\ dt \in Nat /\ ct \in Nat
    BY <2>1, DriveKept
  <2>3. pc = "sink" /\ dt >= 17 /\ "CLK" \in held
    BY <2>1, C64AtAck, C64Holds DEF C64At
  <2>4. dt <= 66
    BY <2>3 DEF Inv, MeetInv, SinkPairs
  <2>5. SinkPairs'
    BY <2>1, <2>2, <2>3, <2>4, TimeAssumption DEF SinkPairs
  <2>6. WaitInv'
    BY <2>1 DEF WaitInv
  <2> QED
    BY ONLY <2>2, <2>3, <2>5, <2>6 DEF MeetInv
<1>11. ASSUME Release PROVE MeetInv'
  <2>1. /\ C64At("next") /\ UNCHANGED driveVars /\ cpc' = "next" /\ ct' = Gap
        /\ c.kind = "release" /\ held' = {} /\ script' = Tail(script) /\ script # <<>>
    BY <1>11 DEF Release, C64To
  <2>2. /\ UNCHANGED <<pc, dt, accum, isListener, reply, hasEOI>>
        /\ Following' = Following /\ isLast' = isLast
        /\ dt \in Nat /\ ct \in Nat
    BY <2>1, DriveKept
  <2>3. /\ ct = 0 /\ pc \in {"sink", "turn", "giveClock", "claimed"} /\ (pc = "turn" => ~isListener)
        /\ cpc = "next"
    BY <2>1, C64AtNext DEF C64At
  <2>4. pc = "sink" => SinkPairs'
    BY <2>1, <2>2, C64AtNext DEF SinkPairs
  <2>5. ASSUME pc \in {"turn", "giveClock", "claimed"} PROVE ToCommand' /\ UntilCheck' = UntilCheck
    <3>1. held = {"DATA"} /\ Tail(script) # <<>>
      BY <2>1, <2>5, C64AtNext
    <3>2. ToCommand'
      BY <2>1, <3>1 DEF ToCommand
    <3>3. StillToDo = Gap + 100 /\ StillToDo' = 100
      BY <2>1, <2>3, <3>1 DEF StillToDo
    <3> QED
      BY <2>1, <2>3, <3>2, <3>3, TimeAssumption DEF UntilCheck
  <2>6. ClaimedPairs' \/ pc # "claimed"
    BY <2>1, <2>2, <2>5 DEF ClaimedPairs, Inv, MeetInv
  <2>7. WaitInv'
    BY <2>1 DEF WaitInv
  <2> QED
    BY <2>2, <2>3, <2>4, <2>5, <2>6, <2>7, TurnKept DEF MeetInv
<1>12. ASSUME End PROVE MeetInv'
  <2>1. /\ C64At("next") /\ UNCHANGED driveVars /\ cpc' = "idle" /\ ct' = 0 /\ script = <<>>
    BY <1>12 DEF End, C64To
  <2>2. /\ UNCHANGED <<pc, dt, accum, isListener, reply, hasEOI>>
        /\ Following' = Following /\ isLast' = isLast
        /\ dt \in Nat /\ ct \in Nat
    BY <2>1, DriveKept
  <2>3. pc \in {"atn", "sink"}
    BY <2>1, C64AtNext
  <2>4. pc = "atn" => AtnPairs'
    BY <2>1, <2>2, C64AtNext DEF AtnPairs
  <2>5. pc = "sink" => SinkPairs'
    BY <2>1, <2>2, C64AtNext DEF SinkPairs
  <2>6. WaitInv'
    BY <2>1 DEF WaitInv
  <2> QED
    BY ONLY <2>2, <2>3, <2>4, <2>5, <2>6 DEF MeetInv
<1>13. ASSUME Listen PROVE MeetInv'
  <2>1. /\ C64At("next") /\ UNCHANGED driveVars /\ cpc' = "clockLow" /\ ct' = 0
        /\ script # <<>> /\ c.kind = "receive"
    BY <1>13 DEF Listen, C64To
  <2>2. /\ UNCHANGED <<pc, dt, accum, isListener, reply, hasEOI>>
        /\ Following' = Following /\ isLast' = isLast
        /\ dt \in Nat /\ ct \in Nat
    BY <2>1, DriveKept
  <2>3. pc = "sink" /\ dt <= 66 /\ "receive" \in Following
    BY <2>1, C64AtNext
  <2>4. SinkPairs'
    BY <2>1, <2>2, <2>3 DEF SinkPairs
  <2>5. WaitInv'
    BY <2>1 DEF WaitInv
  <2> QED
    BY ONLY <2>2, <2>3, <2>4, <2>5 DEF MeetInv
<1>14. ASSUME TalkerThere PROVE MeetInv'
  <2>1. C64At("clockLow") /\ UNCHANGED driveVars /\ (cpc' = "listen" /\ ct' = 0)
    BY <1>14 DEF TalkerThere, C64To
  <2>2. /\ UNCHANGED <<pc, dt, accum, isListener, reply, hasEOI>>
        /\ Following' = Following /\ isLast' = isLast
        /\ dt \in Nat /\ ct \in Nat
    BY <2>1, DriveKept
  <2>3. pc = "room" /\ RoomPairs'
    BY <2>1, <2>2, C64AtClockLow DEF RoomPairs
  <2>4. WaitInv'
    BY <2>1 DEF WaitInv
  <2> QED
    BY ONLY <2>2, <2>3, <2>4 DEF MeetInv
<1>15. ASSUME Hear PROVE MeetInv'
  <2>1. C64At("listen") /\ UNCHANGED driveVars /\ (cpc' = "listening")
    BY <1>15 DEF Hear, C64To
  <2>2. /\ UNCHANGED <<pc, dt, accum, isListener, reply, hasEOI>>
        /\ Following' = Following /\ isLast' = isLast
        /\ dt \in Nat /\ ct \in Nat
    BY <2>1, DriveKept
  <2>3. pc = "announce" /\ AnnouncePairs'
    BY <2>1, <2>2, C64AtListen DEF AnnouncePairs
  <2>4. WaitInv'
    BY <2>1 DEF WaitInv
  <2> QED
    BY ONLY <2>2, <2>3, <2>4 DEF MeetInv
<1>16. ASSUME Await PROVE MeetInv'
  <2>1. C64At("listening") /\ UNCHANGED driveVars /\ cpc' = "await" /\ ct' = 25
    BY <1>16 DEF Await, C64To
  <2>2. /\ UNCHANGED <<pc, dt, accum, isListener, reply, hasEOI>>
        /\ Following' = Following /\ isLast' = isLast
        /\ dt \in Nat /\ ct \in Nat
    BY <2>1, DriveKept
  <2>3. pc \in {"announce", "eoiHigh"}
    BY <2>1, C64AtListening
  <2>4. /\ pc = "announce" => dt <= 6
        /\ pc = "eoiHigh" => dt = 0
    BY DEF Inv, MeetInv, AnnouncePairs, EoiHighPairs
  <2>5. pc = "announce" => AnnouncePairs'
    BY ONLY <2>1, <2>2, <2>4 DEF AnnouncePairs
  <2>6. pc = "eoiHigh" => EoiHighPairs'
    BY ONLY <2>1, <2>2, <2>4 DEF EoiHighPairs
  <2>7. WaitInv'
    BY <2>1 DEF WaitInv
  <2> QED
    BY ONLY <2>2, <2>3, <2>5, <2>6, <2>7 DEF MeetInv
<1>17. ASSUME GotEOI PROVE MeetInv'
  <2>1. C64At("await") /\ ct = 0 /\ UNCHANGED driveVars
    BY <1>17 DEF GotEOI
  <2>2. /\ UNCHANGED <<pc, dt, accum, isListener, reply, hasEOI>>
        /\ Following' = Following /\ isLast' = isLast
        /\ dt \in Nat /\ ct \in Nat
    BY <2>1, DriveKept
  <2>3. pc = "eoiLow" /\ ~ceoi /\ dt = 0
    BY <2>1, <2>2, C64AtAwait DEF Inv, MeetInv, EoiLowPairs
  <2>4. cpc' = "listening" /\ ct' = 4 /\ ceoi'
    BY <1>17, <2>3 DEF GotEOI, C64To
  <2>5. EoiLowPairs'
    BY <2>2, <2>3, <2>4 DEF EoiLowPairs
  <2>6. WaitInv'
    BY <2>4 DEF WaitInv
  <2> QED
    BY ONLY <2>2, <2>3, <2>5, <2>6 DEF MeetInv
<1>18. ASSUME GotStart PROVE MeetInv'
  <2>1. C64At("await") /\ UNCHANGED driveVars /\ (cpc' = "rHigh" /\ ct' = 0 /\ ct > 0)
    BY <1>18 DEF GotStart, C64To
  <2>2. /\ UNCHANGED <<pc, dt, accum, isListener, reply, hasEOI>>
        /\ Following' = Following /\ isLast' = isLast
        /\ dt \in Nat /\ ct \in Nat
    BY <2>1, DriveKept
  <2>3. pc = "clock" /\ ClockPairs'
    BY <2>1, <2>2, C64AtAwait DEF ClockPairs
  <2>4. WaitInv'
    BY <2>1 DEF WaitInv
  <2> QED
    BY ONLY <2>2, <2>3, <2>4 DEF MeetInv
<1>19. ASSUME GetBit PROVE MeetInv'
  <2>1. C64At("rHigh") /\ UNCHANGED driveVars /\ cpc' = "rLow" /\ ct' = 0
    BY <1>19 DEF GetBit, C64To
  <2>2. /\ UNCHANGED <<pc, dt, accum, isListener, reply, hasEOI>>
        /\ Following' = Following /\ isLast' = isLast
        /\ dt \in Nat /\ ct \in Nat
    BY <2>1, DriveKept
  <2>3. pc \in {"put", "end"}
    BY <2>1, C64AtHigh
  <2>4. PutPairs' /\ EndPairs'
    BY <2>1 DEF PutPairs, EndPairs
  <2>5. WaitInv'
    BY <2>1 DEF WaitInv
  <2> QED
    BY ONLY <2>2, <2>3, <2>4, <2>5 DEF MeetInv
<1>20. ASSUME NextBit PROVE MeetInv'
  <2>1. C64At("rLow") /\ UNCHANGED driveVars /\ cpc' = "rHigh" /\ ct' = 0 /\ Len(cbits) < Bits
    BY <1>20 DEF NextBit, C64To
  <2>2. /\ UNCHANGED <<pc, dt, accum, isListener, reply, hasEOI>>
        /\ Following' = Following /\ isLast' = isLast
        /\ dt \in Nat /\ ct \in Nat
    BY <2>1, DriveKept
  <2>3. pc # "acked"
    BY <2>1, C64AtLow, AckedFull
  <2>4. pc = "clock" /\ ClockPairs'
    BY <2>1, <2>3, C64AtLow DEF ClockPairs
  <2>5. WaitInv'
    BY <2>1 DEF WaitInv
  <2> QED
    BY ONLY <2>2, <2>4, <2>5 DEF MeetInv
<1>21. ASSUME GotByte PROVE MeetInv'
  <2>1. C64At("rLow") /\ UNCHANGED driveVars /\ Len(cbits) = Bits
    BY <1>21 DEF GotByte
  <2>2. /\ UNCHANGED <<pc, dt, accum, isListener, reply, hasEOI>>
        /\ Following' = Following /\ isLast' = isLast
        /\ dt \in Nat /\ ct \in Nat
    BY <2>1, DriveKept
  <2>3. cpc = "rLow" /\ pc = "acked" /\ dt = 2
    BY <2>1, C64AtLow, ClockOpen DEF C64At
  <2>4. ceoi = isLast
    BY <2>3 DEF Inv, BitInv, EOIInv
  <2>5. /\ held' = {"DATA"}
        /\ IF ceoi THEN cpc' = "next" /\ ct' = 6 ELSE cpc' = "listen" /\ ct' = 0
    BY <1>21 DEF GotByte, C64To
  <2>6. AckedPairs'
    BY <2>2, <2>3, <2>4, <2>5 DEF AckedPairs
  <2>7. WaitInv'
    BY <2>5 DEF WaitInv
  <2> QED
    BY ONLY <2>2, <2>3, <2>6, <2>7 DEF MeetInv
<1> QED
  BY <1>1, <1>2, <1>3, <1>4, <1>5, <1>6, <1>7, <1>8, <1>9, <1>10, <1>11, <1>12, <1>13, <1>14,
     <1>15, <1>16, <1>17, <1>18, <1>19, <1>20, <1>21 DEF C64

----------------------------------------------------------------------------
(* The lines of the drive, and its role. *)

LEMMA LinesKept ==
    ASSUME Inv, UNCHANGED <<pc, lines, reader, talker>> PROVE (ReadLines /\ WriteLines /\ RoleInv)'
<1>1. ReadLines /\ WriteLines /\ RoleInv /\ UNCHANGED <<pc, ddr, port, accum, isListener, reply>>
  BY DEF Inv, LineInv, lines, reader, talker
<1>2. ReadLines'
  BY ONLY <1>1 DEF ReadLines
<1>3. WriteLines'
  BY ONLY <1>1 DEF WriteLines, DataBit
<1>4. RoleInv'
  BY ONLY <1>1 DEF RoleInv
<1> QED
  BY <1>2, <1>3, <1>4

\* The bit that is put on the bus.
LEMMA PutBitFacts ==
    ASSUME Inv, PutBit
    PROVE  /\ Head(reply)[Len(accum) + 1] \in {0, 1} /\ Len(accum) + 1 \in 1..Bits
           /\ accum' \in Seq({0, 1}) /\ Len(accum') = Len(accum) + 1 /\ accum' # <<>>
           /\ accum'[Len(accum')] = Head(reply)[Len(accum) + 1]
           /\ \A i \in 1..Len(accum) : accum'[i] = accum[i]
<1>1. /\ accum \in Seq({0, 1}) /\ Len(accum) < Bits /\ reply \in Seq(Byte) /\ reply # <<>>
      /\ accum' = Append(accum, Head(reply)[Len(accum) + 1])
  BY DEF PutBit, At, Inv, TypeInv, BitInv, DriveBits, LineInv, RoleInv, Writes
<1>2. Head(reply) \in Byte
  BY <1>1, HeadTailProperties
<1>3. Len(accum) + 1 \in 1..Bits
  BY <1>1, TimeAssumption
<1>4. Head(reply)[Len(accum) + 1] \in {0, 1}
  BY <1>2, <1>3 DEF Byte
<1> QED
  BY <1>1, <1>3, <1>4, AppendProperties

LEMMA EmptyAtEoi == Inv /\ pc = "eoiHigh" => accum = <<>>
  BY DEF Inv, BitInv, DriveBits
LEMMA OpenAtClock == Inv /\ pc = "clock" => accum # <<>>
  BY DEF Inv, BitInv, DriveBits

LEMMA TailEmpty ==
    ASSUME NEW S, NEW s \in Seq(S), s # <<>>
    PROVE  Tail(s) \in Seq(S) /\ Len(Tail(s)) = Len(s) - 1 /\ (Tail(s) = <<>> <=> Len(s) = 1)
<1>1. Tail(s) \in Seq(S) /\ Len(Tail(s)) = Len(s) - 1 /\ Len(s) \in Nat
  BY HeadTailProperties, LenProperties
<1> QED
  BY <1>1, EmptySeq, LenProperties

LEMMA ReadLinesKept ==
    ASSUME Inv, read PROVE (ReadLines /\ WriteLines /\ RoleInv)'
<1>0. ReadLines /\ WriteLines /\ RoleInv
  BY DEF Inv, LineInv
<1>1. ASSUME Attention PROVE (ReadLines /\ WriteLines /\ RoleInv)'
  <2>1. UNCHANGED reply
    BY <1>1 DEF Attention, talker, Heard
  <2>2. ReadLines' /\ WriteLines'
    BY <1>0, <1>1 DEF Attention, At, To, reader, lines, ReadLines, WriteLines, RoleInv
  <2>3. RoleInv'
    BY <1>0, <1>1, <2>1 DEF Attention, At, To, reader, RoleInv, Listens, Writes, Returns
  <2> QED
    BY <2>2, <2>3
<1>2. ASSUME Commanded PROVE (ReadLines /\ WriteLines /\ RoleInv)'
  <2>1. UNCHANGED reply
    BY <1>2 DEF Commanded, talker, Heard
  <2>2. ReadLines' /\ WriteLines'
    BY <1>0, <1>2 DEF Commanded, At, To, reader, lines, ReadLines, WriteLines, RoleInv
  <2>3. RoleInv'
    BY <1>0, <1>2, <2>1 DEF Commanded, At, To, reader, RoleInv, Listens, Writes, Returns
  <2> QED
    BY <2>2, <2>3
<1>3. ASSUME Present PROVE (ReadLines /\ WriteLines /\ RoleInv)'
  <2>1. UNCHANGED reply
    BY <1>3 DEF Present, talker, Heard
  <2>2. ReadLines' /\ WriteLines'
    BY <1>0, <1>3 DEF Present, At, To, reader, ReadLines, WriteLines, RoleInv, Listens
  <2>3. RoleInv'
    BY <1>0, <1>3, <2>1 DEF Present, At, To, reader, RoleInv, Listens, Writes, Returns
  <2> QED
    BY <2>2, <2>3
<1>4. ASSUME ReadyForData PROVE (ReadLines /\ WriteLines /\ RoleInv)'
  <2>1. UNCHANGED reply
    BY <1>4 DEF ReadyForData, talker, Heard
  <2>2. ReadLines' /\ WriteLines'
    BY <1>0, <1>4 DEF ReadyForData, At, To, reader, ReadLines, WriteLines, RoleInv
  <2>3. RoleInv'
    BY <1>0, <1>4, <2>1 DEF ReadyForData, At, To, reader, RoleInv, Listens, Writes, Returns
  <2> QED
    BY <2>2, <2>3
<1>5. ASSUME NoEOI PROVE (ReadLines /\ WriteLines /\ RoleInv)'
  <2>1. UNCHANGED reply
    BY <1>5 DEF NoEOI, talker, Heard
  <2>2. ReadLines' /\ WriteLines'
    BY <1>0, <1>5 DEF NoEOI, At, To, reader, lines, ReadLines, WriteLines, RoleInv
  <2>3. RoleInv'
    BY <1>0, <1>5, <2>1 DEF NoEOI, At, To, reader, RoleInv, Listens, Writes, Returns
  <2> QED
    BY <2>2, <2>3
<1>6. ASSUME AnswerEOI PROVE (ReadLines /\ WriteLines /\ RoleInv)'
  <2>1. UNCHANGED reply
    BY <1>6 DEF AnswerEOI, talker, Heard
  <2>2. ReadLines' /\ WriteLines'
    BY <1>0, <1>6 DEF AnswerEOI, At, To, reader, ReadLines, WriteLines, RoleInv, Listens
  <2>3. RoleInv'
    BY <1>0, <1>6, <2>1 DEF AnswerEOI, At, To, reader, RoleInv, Listens, Writes, Returns
  <2> QED
    BY <2>2, <2>3
<1>7. ASSUME EOIAnswered PROVE (ReadLines /\ WriteLines /\ RoleInv)'
  <2>1. UNCHANGED reply
    BY <1>7 DEF EOIAnswered, talker, Heard
  <2>2. ReadLines' /\ WriteLines'
    BY <1>0, <1>7 DEF EOIAnswered, At, To, ReadLines, WriteLines, RoleInv, Listens
  <2>3. RoleInv'
    BY <1>0, <1>7, <2>1 DEF EOIAnswered, At, To, RoleInv, Listens, Writes, Returns
  <2> QED
    BY <2>2, <2>3
<1>8. ASSUME FirstBit PROVE (ReadLines /\ WriteLines /\ RoleInv)'
  <2>1. UNCHANGED reply
    BY <1>8 DEF FirstBit, talker, Heard
  <2>2. ReadLines' /\ WriteLines'
    BY <1>0, <1>8 DEF FirstBit, At, To, ReadLines, WriteLines, RoleInv, Listens, Writes
  <2>3. RoleInv'
    BY <1>0, <1>8, <2>1 DEF FirstBit, At, To, RoleInv, Listens, Writes, Returns
  <2> QED
    BY <2>2, <2>3
<1>9. ASSUME ClockLow PROVE (ReadLines /\ WriteLines /\ RoleInv)'
  <2>1. UNCHANGED reply
    BY <1>9 DEF ClockLow, talker, Heard
  <2>2. ReadLines' /\ WriteLines'
    BY <1>0, <1>9 DEF ClockLow, At, To, reader, lines, ReadLines, WriteLines, RoleInv
  <2>3. RoleInv'
    BY <1>0, <1>9, <2>1 DEF ClockLow, At, To, reader, RoleInv, Listens, Writes, Returns
  <2> QED
    BY <2>2, <2>3
<1>10. ASSUME Sample PROVE (ReadLines /\ WriteLines /\ RoleInv)'
  <2>1. UNCHANGED reply
    BY <1>10 DEF Sample, talker, Heard
  <2>2. ReadLines' /\ WriteLines'
    BY <1>0, <1>10 DEF Sample, At, To, lines, ReadLines, WriteLines, RoleInv, Listens
  <2>3. RoleInv'
    BY <1>0, <1>10, <2>1 DEF Sample, At, To, lines, RoleInv, Listens, Writes, Returns
  <2> QED
    BY <2>2, <2>3
<1>11. ASSUME Taken PROVE (ReadLines /\ WriteLines /\ RoleInv)'
  <2>1. UNCHANGED reply
    BY <1>11 DEF Taken, talker, Heard
  <2>2. ReadLines' /\ WriteLines'
    BY <1>0, <1>11 DEF Taken, At, To, reader, lines, ReadLines, WriteLines, RoleInv
  <2>3. RoleInv'
    BY <1>0, <1>11, <2>1 DEF Taken, At, To, reader, RoleInv, Listens, Writes, Returns
  <2> QED
    BY <2>2, <2>3
<1>12. ASSUME Accept PROVE (ReadLines /\ WriteLines /\ RoleInv)'
  <2>1. UNCHANGED reply
    BY <1>12 DEF Accept, talker, Heard
  <2>2. ReadLines' /\ WriteLines'
    BY <1>0, <1>12 DEF Accept, At, To, reader, ReadLines, WriteLines, RoleInv, Listens
  <2>3. RoleInv'
    BY <1>0, <1>12, <2>1 DEF Accept, At, To, reader, RoleInv, Listens, Writes, Returns
  <2> QED
    BY <2>2, <2>3
<1>13. ASSUME SinkMore PROVE (ReadLines /\ WriteLines /\ RoleInv)'
  <2>1. UNCHANGED reply
    BY <1>13 DEF SinkMore, talker, Heard
  <2>2. ReadLines' /\ WriteLines'
    BY <1>0, <1>13 DEF SinkMore, At, To, Heard, reader, lines, ReadLines, WriteLines
  <2>3. RoleInv'
    BY <1>0, <1>13, <2>1 DEF SinkMore, At, To, Heard, reader, RoleInv, Listens, Writes, Returns
  <2> QED
    BY <2>2, <2>3
<1>14. ASSUME SinkDone PROVE (ReadLines /\ WriteLines /\ RoleInv)'
  <2>1. UNCHANGED reply
    BY <1>14 DEF SinkDone, talker, Heard
  <2>2. ReadLines' /\ WriteLines'
    BY <1>0, <1>14 DEF SinkDone, At, To, Heard, ReadLines, WriteLines, RoleInv, Listens
  <2>3. RoleInv'
    BY <1>0, <1>14, <2>1 DEF SinkDone, At, To, Heard, RoleInv, Listens, Writes, Returns
  <2> QED
    BY <2>2, <2>3
<1>15. ASSUME SinkTalks PROVE (ReadLines /\ WriteLines /\ RoleInv)'
  <2>1. reply' \in Seq(Byte) /\ reply' # <<>>
    BY <1>15, SessionAssumption DEF SinkTalks
  <2>2. ReadLines' /\ WriteLines'
    BY <1>0, <1>15
       DEF SinkTalks, At, To, Heard, reader, lines, ReadLines, WriteLines, RoleInv, Listens
  <2>3. RoleInv'
    BY <1>0, <1>15, <2>1 DEF SinkTalks, At, To, Heard, reader, RoleInv, Listens, Writes, Returns
  <2> QED
    BY <2>2, <2>3
<1> QED
  BY <1>1, <1>2, <1>3, <1>4, <1>5, <1>6, <1>7, <1>8, <1>9, <1>10, <1>11, <1>12, <1>13, <1>14,
     <1>15 DEF read

LEMMA TurnLinesKept ==
    ASSUME Inv, doTurnAround PROVE (ReadLines /\ WriteLines /\ RoleInv)'
<1>0. ReadLines /\ WriteLines /\ RoleInv
  BY DEF Inv, LineInv
<1>1. ASSUME TakeClock PROVE (ReadLines /\ WriteLines /\ RoleInv)'
  <2>1. UNCHANGED reply
    BY <1>1 DEF TakeClock, talker, Heard
  <2>2. ReadLines' /\ WriteLines'
    BY <1>0, <1>1 DEF TakeClock, At, To, AfterTurn, ReadLines, WriteLines, RoleInv
  <2>3. RoleInv'
    BY <1>0, <1>1, <2>1 DEF TakeClock, At, To, AfterTurn, RoleInv, Listens, Writes, Returns
  <2> QED
    BY <2>2, <2>3
<1>2. ASSUME HoldData PROVE (ReadLines /\ WriteLines /\ RoleInv)'
  <2>1. UNCHANGED reply
    BY <1>2 DEF HoldData, talker, Heard
  <2>2. ReadLines' /\ WriteLines'
    BY <1>0, <1>2 DEF HoldData, At, To, reader, ReadLines, WriteLines, RoleInv, Listens
  <2>3. RoleInv'
    BY <1>0, <1>2, <2>1 DEF HoldData, At, To, reader, RoleInv, Listens, Writes, Returns
  <2> QED
    BY <2>2, <2>3
<1>3. ASSUME GiveClock PROVE (ReadLines /\ WriteLines /\ RoleInv)'
  <2>1. UNCHANGED reply
    BY <1>3 DEF GiveClock, talker, Heard
  <2>2. ReadLines' /\ WriteLines'
    BY <1>0, <1>3 DEF GiveClock, At, To, reader, ReadLines, WriteLines, RoleInv, Listens
  <2>3. RoleInv'
    BY <1>0, <1>3, <2>1 DEF GiveClock, At, To, reader, RoleInv, Listens, Writes, Returns
  <2> QED
    BY <2>2, <2>3
<1>4. ASSUME Claimed PROVE (ReadLines /\ WriteLines /\ RoleInv)'
  <2>1. UNCHANGED reply
    BY <1>4 DEF Claimed, talker, Heard
  <2>2. ReadLines' /\ WriteLines'
    BY <1>0, <1>4 DEF Claimed, At, To, AfterTurn, ReadLines, WriteLines, RoleInv, Writes
  <2>3. RoleInv'
    BY <1>0, <1>4, <2>1 DEF Claimed, At, To, AfterTurn, RoleInv, Writes, Returns
  <2> QED
    BY <2>2, <2>3
<1>5. ASSUME Back PROVE (ReadLines /\ WriteLines /\ RoleInv)'
  <2>1. UNCHANGED reply
    BY <1>5 DEF Back, talker, Heard
  <2>2. ReadLines' /\ WriteLines'
    BY <1>0, <1>5 DEF Back, At, To, ReadLines, WriteLines, RoleInv, Listens, Writes
  <2>3. RoleInv'
    BY <1>0, <1>5, <2>1 DEF Back, At, To, RoleInv, Listens, Writes, Returns
  <2> QED
    BY <2>2, <2>3
<1> QED
  BY <1>1, <1>2, <1>3, <1>4, <1>5 DEF doTurnAround

LEMMA WriteLinesKept ==
    ASSUME Inv, writeByte PROVE (ReadLines /\ WriteLines /\ RoleInv)'
<1>0. ReadLines /\ WriteLines /\ RoleInv
  BY DEF Inv, LineInv
<1>1. ASSUME ReadyToSend PROVE (ReadLines /\ WriteLines /\ RoleInv)'
  <2>1. UNCHANGED reply
    BY <1>1 DEF ReadyToSend, talker, Heard
  <2>2. ReadLines' /\ WriteLines'
    BY <1>0, <1>1 DEF ReadyToSend, At, To, reader, ReadLines, WriteLines, RoleInv
  <2>3. RoleInv'
    BY <1>0, <1>1, <2>1 DEF ReadyToSend, At, To, reader, RoleInv, Listens, Writes, Returns
  <2> QED
    BY <2>2, <2>3
<1>2. ASSUME ListenerReady PROVE (ReadLines /\ WriteLines /\ RoleInv)'
  <2>1. UNCHANGED reply
    BY <1>2 DEF ListenerReady, talker, Heard
  <2>2. ReadLines' /\ WriteLines'
    BY <1>0, <1>2 DEF ListenerReady, At, To, lines, ReadLines, WriteLines, RoleInv
  <2>3. RoleInv'
    BY <1>0, <1>2, <2>1 DEF ListenerReady, At, To, RoleInv, Listens, Writes, Returns
  <2> QED
    BY <2>2, <2>3
<1>3. ASSUME EOISeen PROVE (ReadLines /\ WriteLines /\ RoleInv)'
  <2>1. UNCHANGED reply
    BY <1>3 DEF EOISeen, talker, Heard
  <2>2. ReadLines' /\ WriteLines'
    BY <1>0, <1>3 DEF EOISeen, At, To, reader, lines, ReadLines, WriteLines, RoleInv
  <2>3. RoleInv'
    BY <1>0, <1>3, <2>1 DEF EOISeen, At, To, reader, RoleInv, Listens, Writes, Returns
  <2> QED
    BY <2>2, <2>3
<1>4. ASSUME EOIOver PROVE (ReadLines /\ WriteLines /\ RoleInv)'
  <2>1. UNCHANGED reply
    BY <1>4 DEF EOIOver, talker, Heard
  <2>2. ReadLines' /\ WriteLines'
    BY <1>0, <1>4, EmptyAtEoi DEF EOIOver, At, To, reader, lines, ReadLines, WriteLines
  <2>3. RoleInv'
    BY <1>0, <1>4, <2>1 DEF EOIOver, At, To, reader, RoleInv, Listens, Writes, Returns
  <2> QED
    BY <2>2, <2>3
<1>5. ASSUME PutBit PROVE (ReadLines /\ WriteLines /\ RoleInv)'
  <2>1. /\ pc' = "clock" /\ ddr' = {"CLK", "DATA"} /\ port' = DataBit(accum')
        /\ pc = "put" /\ UNCHANGED <<isListener, reply>>
    BY <1>5, PutBitFacts DEF PutBit, At, To, DataBit, talker
  <2>2. ReadLines' /\ WriteLines'
    BY ONLY <2>1 DEF ReadLines, WriteLines, DataBit
  <2>3. RoleInv'
    BY <1>0, <2>1 DEF RoleInv, Listens, Writes, Returns
  <2> QED
    BY <2>2, <2>3
<1>6. ASSUME ClockBit PROVE (ReadLines /\ WriteLines /\ RoleInv)'
  <2>1. /\ pc = "clock" /\ pc' \in {"end", "put"} /\ ddr' = ddr /\ port' = port \cup {"CLK"}
        /\ accum' = accum /\ accum # <<>> /\ UNCHANGED <<isListener, reply>>
    BY <1>6, OpenAtClock DEF ClockBit, At, To, reader, talker
  <2>2. ddr = {"CLK", "DATA"} /\ port = DataBit(accum)
    BY <1>0, <2>1 DEF WriteLines
  <2>3. ddr' = {"CLK", "DATA"} /\ port' = {"CLK"} \cup DataBit(accum')
    BY ONLY <2>1, <2>2 DEF DataBit
  <2>4. ReadLines' /\ WriteLines'
    BY ONLY <2>1, <2>3 DEF ReadLines, WriteLines
  <2>5. RoleInv'
    BY <1>0, <2>1 DEF RoleInv, Listens, Writes, Returns
  <2> QED
    BY <2>4, <2>5
<1>7. ASSUME EndOfByte PROVE (ReadLines /\ WriteLines /\ RoleInv)'
  <2>1. UNCHANGED reply
    BY <1>7 DEF EndOfByte, talker, Heard
  <2>2. ReadLines' /\ WriteLines'
    BY <1>0, <1>7 DEF EndOfByte, At, To, reader, ReadLines, WriteLines, RoleInv, Listens
  <2>3. RoleInv'
    BY <1>0, <1>7, <2>1 DEF EndOfByte, At, To, reader, RoleInv, Listens, Writes, Returns
  <2> QED
    BY <2>2, <2>3
<1>8. ASSUME Acked PROVE (ReadLines /\ WriteLines /\ RoleInv)'
  <2>1. /\ pc = "acked" /\ pc' = (IF isLast THEN "turn" ELSE "room") /\ reply' = Tail(reply)
        /\ UNCHANGED <<ddr, port, isListener>>
    BY <1>8 DEF Acked, At, To, reader, lines
  <2>2. reply \in Seq(Byte) /\ reply # <<>> /\ ~isListener
    BY <1>0, <2>1 DEF RoleInv, Writes
  <2>3. reply' \in Seq(Byte) /\ (reply' = <<>> <=> isLast)
    BY <2>1, <2>2, TailEmpty DEF isLast
  <2>4. ReadLines' /\ WriteLines'
    BY <1>0, <2>1, <2>2 DEF ReadLines, WriteLines
  <2>5. RoleInv'
    BY <2>1, <2>2, <2>3 DEF RoleInv, Listens, Writes, Returns
  <2> QED
    BY <2>4, <2>5
<1> QED
  BY <1>1, <1>2, <1>3, <1>4, <1>5, <1>6, <1>7, <1>8 DEF writeByte

----------------------------------------------------------------------------
(* The lines of the C64, and what is left of its session. *)

\* The drive is past its sink only when the C64 has nothing to hold there.
LEMMA DriveSteps ==
    ASSUME read \/ doTurnAround \/ writeByte
    PROVE  UNCHANGED c64Vars /\ (pc # "sink" \/ At("sink"))
<1>1. CASE read
  BY <1>1 DEF read, Attention, Commanded, Present, ReadyForData, NoEOI, AnswerEOI, EOIAnswered,
         FirstBit, ClockLow, Sample, Taken, Accept, SinkMore, SinkDone, SinkTalks, At, Heard
<1>2. CASE doTurnAround
  BY <1>2 DEF doTurnAround, TakeClock, HoldData, GiveClock, Claimed, Back, At, Heard
<1>3. CASE writeByte
  BY <1>3 DEF writeByte, ReadyToSend, ListenerReady, EOISeen, EOIOver, PutBit, ClockBit,
         EndOfByte, Acked, At, Heard
<1> QED
  BY <1>1, <1>2, <1>3

LEMMA ScriptKept ==
    ASSUME Inv, Advance \/ read \/ doTurnAround \/ writeByte
    PROVE  C64Lines' /\ ScriptInv'
<1>1. /\ C64Lines /\ ScriptInv /\ UNCHANGED <<cpc, held, script, failed, cbits>> /\ c' = c
      /\ pc # "sink" \/ At("sink") \/ UNCHANGED <<pc, accum, hasEOI>>
  BY DriveSteps DEF Inv, LineInv, Advance, c64Vars, c64Talk, c64Bits, reader, c
<1>2. C64Lines'
  BY ONLY <1>1 DEF C64Lines, Ctl, DataBit
<1>3. ASSUME cpc = "next" PROVE
        \/ held = {} /\ (script = <<>> \/ c.kind = "atn")
        \/ held = {"DATA"} /\ script # <<>> /\ c.kind = "release" /\ Tail(script) # <<>>
        \/ pc = "sink" /\ held \in {{"CLK"}, {"ATN", "CLK"}} /\ script # <<>>
             /\ c.kind \in AfterByte(accum, hasEOI) /\ UNCHANGED <<pc, accum, hasEOI>>
  <2>1. At("sink") => held = {}
    BY <1>3, AtSink
  <2> QED
    BY <1>1, <1>3, <2>1 DEF ScriptInv
<1>4. WellFormed(script)'
  BY <1>1 DEF ScriptInv, WellFormed
<1>5. ScriptInv'
  BY ONLY <1>1, <1>3, <1>4 DEF ScriptInv
<1> QED
  BY <1>2, <1>5

\* What is left of a session is one.
LEMMA RestWellFormed ==
    ASSUME NEW s, WellFormed(s), s # <<>>
    PROVE  /\ s \in Seq(Step) /\ Head(s) \in Step /\ Head(s) = s[1] /\ WellFormed(Tail(s))
           /\ Head(s).kind # "release" => Tail(s) # <<>>
           /\ Tail(s) # <<>> => Head(Tail(s)).kind \in MayFollow(Head(s))
<1>1. /\ s \in Seq(Step) /\ s[Len(s)].kind = "release"
      /\ \A i \in 1..Len(s) - 1 : s[i + 1].kind \in MayFollow(s[i])
  BY DEF WellFormed
<1>2. /\ Len(s) \in Nat \ {0} /\ Head(s) = s[1] /\ Head(s) \in Step
      /\ Tail(s) \in Seq(Step) /\ Len(Tail(s)) = Len(s) - 1
      /\ \A i \in 1..Len(Tail(s)) : Tail(s)[i] = s[i + 1]
  BY <1>1, HeadTailProperties, EmptySeq, LenProperties
<1>3. Tail(s) = <<>> <=> Len(s) = 1
  BY <1>1, TailEmpty
<1>4. ASSUME Tail(s) # <<>>
      PROVE  /\ Tail(s)[Len(Tail(s))] = s[Len(s)]
             /\ Head(Tail(s)) = s[2] /\ 1 \in 1..Len(s) - 1
  <2>1. Len(Tail(s)) \in 1..Len(Tail(s)) /\ 1 \in 1..Len(Tail(s)) /\ Len(Tail(s)) + 1 = Len(s)
    BY ONLY <1>2, <1>3, <1>4
  <2>2. Head(Tail(s)) = Tail(s)[1]
    BY <1>2, <1>4, HeadTailProperties
  <2>3. Tail(s)[1] = s[1 + 1]
    BY <1>2, <2>1
  <2> QED
    BY <1>2, <2>1, <2>2, <2>3
<1>5. \A i \in 1..Len(Tail(s)) - 1 : Tail(s)[i + 1].kind \in MayFollow(Tail(s)[i])
  <2>1. TAKE i \in 1..Len(Tail(s)) - 1
  <2>2. /\ i \in 1..Len(Tail(s)) /\ i + 1 \in 1..Len(Tail(s)) /\ i + 1 \in 1..Len(s) - 1
    BY <1>2
  <2>3. Tail(s)[i] = s[i + 1] /\ Tail(s)[i + 1] = s[(i + 1) + 1]
    BY <1>2, <2>2
  <2> QED
    BY <1>1, <2>2, <2>3
<1>6. WellFormed(Tail(s))
  BY <1>1, <1>2, <1>4, <1>5 DEF WellFormed
<1>7. Head(s).kind # "release" => Tail(s) # <<>>
  BY <1>1, <1>2, <1>3
<1>8. Tail(s) # <<>> => Head(Tail(s)).kind \in MayFollow(Head(s))
  <2>1. Tail(s) # <<>> => s[1 + 1].kind \in MayFollow(s[1])
    BY <1>1, <1>4
  <2> QED
    BY <1>2, <1>4, <2>1
<1> QED
  BY <1>1, <1>2, <1>6, <1>7, <1>8

LEMMA ReleaseWellFormed ==
    ASSUME NEW r, NEW s, r = [kind |-> "release", byte |-> <<>>, eoi |-> FALSE],
           WellFormed(s), s # <<>>, Head(s).kind = "atn"
    PROVE  WellFormed(<<r>> \o s) /\ <<r>> \o s # <<>> /\ Head(<<r>> \o s) = r /\ Tail(<<r>> \o s) = s
<1>1. s \in Seq(Step) /\ r \in Step /\ <<r>> \in Seq(Step) /\ Len(<<r>>) = 1 /\ <<r>>[1] = r
  BY DEF WellFormed, Step
<1>2. Len(s) \in Nat \ {0} /\ Head(s) = s[1]
  BY <1>1, EmptySeq, LenProperties, HeadTailProperties
<1> DEFINE t == <<r>> \o s
<1>3. t \in Seq(Step) /\ Len(t) = 1 + Len(s) /\ \A i \in 1..Len(t) : t[i] = IF i <= 1 THEN <<r>>[i] ELSE s[i - 1]
  BY <1>1, ConcatProperties
<1> HIDE DEF t
<1>4. t[1] = r /\ \A i \in 1..Len(s) : t[i + 1] = s[i]
  <2>1. 1 \in 1..Len(t)
    BY <1>2, <1>3
  <2>2. t[1] = r
    BY <1>1, <1>3, <2>1
  <2>3. ASSUME NEW i \in 1..Len(s) PROVE t[i + 1] = s[i]
    <3>1. i + 1 \in 1..Len(t) /\ ~(i + 1 <= 1) /\ (i + 1) - 1 = i
      BY <1>2, <1>3
    <3> QED
      BY <1>3, <3>1
  <2> QED
    BY <2>2, <2>3
<1>5. t # <<>> /\ Head(t) = t[1]
  BY <1>2, <1>3, EmptySeq, HeadTailProperties
<1>6. Tail(t) = s
  <2>1. /\ Tail(t) \in Seq(Step) /\ Len(Tail(t)) = Len(t) - 1
        /\ \A i \in 1..Len(Tail(t)) : Tail(t)[i] = t[i + 1]
    BY <1>3, <1>5, HeadTailProperties
  <2>2. Len(Tail(t)) = Len(s)
    BY <1>2, <1>3, <2>1
  <2>3. \A i \in 1..Len(s) : Tail(t)[i] = s[i]
    BY <1>4, <2>1, <2>2
  <2> QED
    BY <1>1, <2>1, <2>2, <2>3, SeqEqual
<1>7. t[Len(t)].kind = "release"
  <2>1. Len(s) \in 1..Len(s) /\ Len(s) + 1 = Len(t)
    BY <1>2, <1>3
  <2>2. t[Len(t)] = s[Len(s)]
    BY <1>4, <2>1
  <2> QED
    BY <2>2 DEF WellFormed
<1>8. \A i \in 1..Len(t) - 1 : t[i + 1].kind \in MayFollow(t[i])
  <2>1. TAKE i \in 1..Len(t) - 1
  <2>2. CASE i = 1
    <3>1. t[i + 1].kind = "atn" /\ t[i].kind = "release"
      BY <1>2, <1>4, <2>2
    <3> QED
      BY <3>1 DEF MayFollow
  <2>3. CASE i # 1
    <3>1. i - 1 \in 1..Len(s) - 1 /\ i \in 1..Len(s) /\ i - 1 \in 1..Len(s) /\ (i - 1) + 1 = i
      BY <1>2, <1>3, <2>3
    <3>2. t[i + 1] = s[i] /\ t[(i - 1) + 1] = s[i - 1]
      BY <1>4, <3>1
    <3>3. s[(i - 1) + 1].kind \in MayFollow(s[i - 1])
      BY <3>1 DEF WellFormed
    <3> QED
      BY <3>1, <3>2, <3>3
  <2> QED
    BY <2>2, <2>3
<1>9. WellFormed(t)
  BY <1>3, <1>7, <1>8 DEF WellFormed
<1> QED
  BY <1>4, <1>5, <1>6, <1>9 DEF t

\* The bit that the C64 puts on the bus.
LEMMA C64BitFacts ==
    ASSUME Inv, C64Bit
    PROVE  /\ c.byte \in Byte /\ c.byte[Len(cbits) + 1] \in {0, 1} /\ Len(cbits) + 1 \in 1..Bits
           /\ cbits' \in Seq({0, 1}) /\ Len(cbits') = Len(cbits) + 1 /\ cbits' # <<>>
           /\ cbits'[Len(cbits')] = c.byte[Len(cbits) + 1]
           /\ \A i \in 1..Len(cbits) : cbits'[i] = cbits[i]
<1>1. /\ cbits \in Seq({0, 1}) /\ Len(cbits) < Bits
      /\ cbits' = Append(cbits, c.byte[Len(cbits) + 1])
      /\ WellFormed(script) /\ script # <<>> /\ c.kind \in {"atn", "data"}
  BY DEF C64Bit, C64At, Inv, TypeInv, BitInv, C64Bits, ScriptInv, Sends
<1>2. c.byte \in Byte
  <2>1. c \in Step
    BY <1>1, RestWellFormed DEF c
  <2> QED
    BY <1>1, <2>1 DEF Step
<1>3. Len(cbits) + 1 \in 1..Bits
  BY <1>1, TimeAssumption
<1>4. c.byte[Len(cbits) + 1] \in {0, 1}
  BY <1>2, <1>3 DEF Byte
<1> QED
  BY <1>1, <1>2, <1>3, <1>4, AppendProperties

\* All bits of a byte are the byte.
LEMMA WholeByte ==
    ASSUME NEW bits \in Seq({0, 1}), NEW byte \in Byte, IsHead(bits, byte), Len(bits) = Bits
    PROVE  bits = byte
<1>1. bits \in [1..Bits -> {0, 1}]
  BY LenProperties
<1>2. \A i \in 1..Bits : bits[i] = byte[i]
  BY DEF IsHead
<1> QED
  BY <1>1, <1>2 DEF Byte

LEMMA ByteHeard ==
    ASSUME Inv, pc = "sink", cpc = "ack" PROVE accum = c.byte /\ hasEOI = c.eoi
<1>1. /\ accum \in Seq({0, 1}) /\ IsHead(accum, c.byte) /\ Len(accum) = Bits /\ hasEOI = c.eoi
      /\ WellFormed(script) /\ script # <<>> /\ c.kind \in {"atn", "data"}
  BY DEF Inv, TypeInv, BitInv, DriveBits, ScriptInv, Sends
<1>2. c.byte \in Byte
  <2>1. c \in Step
    BY <1>1, RestWellFormed DEF c
  <2> QED
    BY <1>1, <2>1 DEF Step
<1> QED
  BY <1>1, <1>2, WholeByte

LEMMA C64Script ==
    ASSUME Inv, C64 PROVE C64Lines' /\ ScriptInv'
<1>0. C64Lines /\ ScriptInv
  BY DEF Inv, LineInv
<1>1. ASSUME Begin PROVE C64Lines' /\ ScriptInv'
  <2>1. /\ cpc' = "next" /\ held' = {} /\ failed' = "" /\ script' \in Sessions
    BY <1>0, <1>1, C64AtIdle DEF Begin, C64To, ScriptInv
  <2>2. WellFormed(script)' /\ (script' # <<>> => c'.kind = "atn")
    <3>1. WellFormed(script') /\ (script' # <<>> => script'[1].kind = "atn")
      BY <2>1, SessionAssumption
    <3>2. script' # <<>> => Head(script') = script'[1]
      BY <3>1, RestWellFormed
    <3> QED
      BY <3>1, <3>2 DEF c, WellFormed
  <2>3. C64Lines' /\ ScriptInv'
    BY <2>1, <2>2 DEF C64Lines, ScriptInv, Sends, Hears
  <2> QED
    BY <2>3
<1>2. ASSUME Command PROVE C64Lines' /\ ScriptInv'
  <2>1. /\ cpc = "next" /\ cpc' = "check" /\ held' = {"ATN", "CLK"}
        /\ script # <<>> /\ c.kind = "atn"
        /\ UNCHANGED <<script, failed>> /\ c' = c
    BY <1>2 DEF Command, C64At, C64To, c64Talk, c
  <2>2. C64Lines'
    BY <2>1 DEF C64Lines, Ctl
  <2>3. ScriptInv'
    BY <1>0, <2>1 DEF ScriptInv, Sends, Hears, WellFormed
  <2> QED
    BY <2>2, <2>3
<1>3. ASSUME DataByte PROVE C64Lines' /\ ScriptInv'
  <2>1. /\ cpc = "next" /\ cpc' = "check" /\ held' = {"CLK"} /\ script # <<>> /\ c.kind = "data"
        /\ UNCHANGED <<script, failed>> /\ c' = c
    BY <1>3 DEF DataByte, C64At, C64To, c64Talk, c
  <2>2. C64Lines'
    BY <2>1 DEF C64Lines, Ctl
  <2>3. ScriptInv'
    BY <1>0, <2>1 DEF ScriptInv, Sends, Hears, WellFormed
  <2> QED
    BY <2>2, <2>3
<1>4. ASSUME Offer PROVE C64Lines' /\ ScriptInv'
  <2>1. /\ cpc = "check" /\ cpc' = "rfd" /\ held' = held \ {"CLK"} /\ failed' = failed
        /\ script' = script /\ c' = c
    BY <1>4, C64AtCheck, Levels DEF Offer, Unless, C64At, C64To, c
  <2>2. C64Lines'
    BY <1>0, <2>1 DEF C64Lines, Ctl
  <2>3. ScriptInv'
    BY <1>0, <2>1 DEF ScriptInv, Sends, Hears, WellFormed
  <2> QED
    BY <2>2, <2>3
<1>5. ASSUME Accepted PROVE C64Lines' /\ ScriptInv'
  <2>1. /\ cpc = "rfd" /\ cpc' \in {"eoiLow", "clock"} /\ held' = held /\ cbits' = <<>>
        /\ UNCHANGED <<script, failed>> /\ c' = c
    BY <1>5 DEF Accepted, C64At, C64To, c64Talk, c64Bits, c, Start
  <2>2. C64Lines'
    BY <1>0, <2>1 DEF C64Lines, Ctl, DataBit
  <2>3. ScriptInv'
    BY <1>0, <2>1 DEF ScriptInv, Sends, Hears, WellFormed
  <2> QED
    BY <2>2, <2>3
<1>6. ASSUME EOITaken PROVE C64Lines' /\ ScriptInv'
  <2>1. /\ cpc = "eoiLow" /\ cpc' = "eoiHigh" /\ held' = held
        /\ UNCHANGED <<script, failed>> /\ c' = c
    BY <1>6 DEF EOITaken, C64At, C64To, c64Talk, c64Bits, c
  <2>2. C64Lines'
    BY <1>0, <2>1 DEF C64Lines, Ctl, DataBit
  <2>3. ScriptInv'
    BY <1>0, <2>1 DEF ScriptInv, Sends, Hears, WellFormed
  <2> QED
    BY <2>2, <2>3
<1>7. ASSUME AfterEOI PROVE C64Lines' /\ ScriptInv'
  <2>1. /\ cpc = "eoiHigh" /\ cpc' = "clock" /\ held' = held /\ cbits' = cbits /\ cbits = <<>>
        /\ UNCHANGED <<script, failed>> /\ c' = c
    BY <1>7 DEF AfterEOI, C64At, C64To, c64Talk, c64Bits, c, Start, Inv, BitInv, C64Bits
  <2>2. C64Lines'
    BY <1>0, <2>1 DEF C64Lines, Ctl, DataBit
  <2>3. ScriptInv'
    BY <1>0, <2>1 DEF ScriptInv, Sends, Hears, WellFormed
  <2> QED
    BY <2>2, <2>3
<1>8. ASSUME C64ClockLow PROVE C64Lines' /\ ScriptInv'
  <2>1. /\ cpc = "clock" /\ cpc' \in {"ack", "bit"} /\ held' = (held \ {"DATA"}) \cup {"CLK"}
        /\ UNCHANGED <<script, failed>> /\ c' = c
    BY <1>8 DEF C64ClockLow, C64At, C64To, c64Talk, c64Bits, c
  <2>2. C64Lines'
    BY <1>0, <2>1 DEF C64Lines, Ctl, DataBit
  <2>3. ScriptInv'
    BY <1>0, <2>1 DEF ScriptInv, Sends, Hears, WellFormed
  <2> QED
    BY <2>2, <2>3
<1>9. ASSUME C64Bit PROVE C64Lines' /\ ScriptInv'
  <2>1. /\ cpc = "bit" /\ cpc' = "clock" /\ UNCHANGED <<script, failed>> /\ c' = c
        /\ held' = (held \ {"CLK"}) \cup ({"DATA"} \ DataBit(cbits'))
    BY <1>9, C64BitFacts DEF C64Bit, C64At, C64To, c64Talk, c, DataBit
  <2>2. C64Lines'
    BY <1>0, <2>1 DEF C64Lines, Ctl, DataBit
  <2>3. ScriptInv'
    BY <1>0, <2>1 DEF ScriptInv, Sends, Hears, WellFormed
  <2> QED
    BY <2>2, <2>3
<1>10. ASSUME C64Acked PROVE C64Lines' /\ ScriptInv'
  <2>1. /\ cpc = "ack" /\ cpc' = "next" /\ held' = held
        /\ failed' = failed /\ script' = Tail(script)
        /\ UNCHANGED driveVars /\ pc = "sink"
    BY <1>10, C64AtAck, Levels DEF C64Acked, Unless, C64At, C64To
  <2>2. /\ script # <<>> /\ c.kind \in {"atn", "data"} /\ held \in {{"CLK"}, {"ATN", "CLK"}}
        /\ WellFormed(script) /\ failed = ""
    BY <1>0, <2>1 DEF ScriptInv, C64Lines, Ctl, Sends
  <2>3. accum = c.byte /\ hasEOI = c.eoi
    BY <2>1, ByteHeard
  <2>4. MayFollow(c) = Following
    BY <2>2, <2>3 DEF MayFollow, Following
  <2>5. WellFormed(Tail(script)) /\ Tail(script) # <<>> /\ Head(Tail(script)).kind \in Following
    BY <2>2, <2>4, RestWellFormed DEF c
  <2>6. WellFormed(script)' /\ script' # <<>> /\ c'.kind \in Following /\ Following' = Following /\ pc' = "sink"
    BY <2>1, <2>5, DriveKept DEF WellFormed, c
  <2>7. C64Lines'
    BY <2>1 DEF C64Lines
  <2>8. ScriptInv'
    BY <2>1, <2>2, <2>6 DEF ScriptInv, Sends, Hears, Following
  <2> QED
    BY <2>7, <2>8
<1>11. ASSUME Release PROVE C64Lines' /\ ScriptInv'
  <2>1. /\ cpc' = "next" /\ held' = {} /\ failed' = failed /\ script' = Tail(script)
        /\ script # <<>> /\ c.kind = "release"
    BY <1>11 DEF Release, C64To
  <2>2. WellFormed(Tail(script)) /\ (Tail(script) # <<>> => Head(Tail(script)).kind \in MayFollow(c))
    BY <1>0, <2>1, RestWellFormed DEF ScriptInv, c
  <2>3. MayFollow(c) = {"atn"}
    BY <2>1 DEF MayFollow
  <2>4. WellFormed(script)' /\ (script' # <<>> => c'.kind = "atn")
    BY <2>1, <2>2, <2>3 DEF WellFormed, c
  <2>5. C64Lines'
    BY <2>1 DEF C64Lines
  <2>6. ScriptInv'
    BY <1>0, <2>1, <2>4 DEF ScriptInv, Sends, Hears
  <2> QED
    BY <2>5, <2>6
<1>12. ASSUME End PROVE C64Lines' /\ ScriptInv'
  <2>1. /\ cpc = "next" /\ cpc' = "idle" /\ script = <<>> /\ UNCHANGED <<held, script, failed>>
    BY <1>12 DEF End, C64At, C64To, c64Talk
  <2>2. held = {}
    BY <1>0, <2>1 DEF ScriptInv
  <2>3. C64Lines'
    BY <2>1, <2>2 DEF C64Lines
  <2>4. ScriptInv'
    BY <1>0, <2>1 DEF ScriptInv, Sends, Hears, WellFormed
  <2> QED
    BY <2>3, <2>4
<1>13. ASSUME Listen PROVE C64Lines' /\ ScriptInv'
  <2>1. /\ cpc = "next" /\ cpc' = "clockLow" /\ held' = {"DATA"}
        /\ script # <<>> /\ c.kind = "receive"
        /\ UNCHANGED <<script, failed>> /\ c' = c
    BY <1>13 DEF Listen, C64At, C64To, c64Talk, c
  <2>2. C64Lines'
    BY <2>1 DEF C64Lines, Ctl
  <2>3. ScriptInv'
    BY <1>0, <2>1 DEF ScriptInv, Sends, Hears, WellFormed
  <2> QED
    BY <2>2, <2>3
<1>14. ASSUME TalkerThere PROVE C64Lines' /\ ScriptInv'
  <2>1. /\ cpc = "clockLow" /\ cpc' = "listen" /\ held' = held
        /\ UNCHANGED <<script, failed>> /\ c' = c
    BY <1>14 DEF TalkerThere, C64At, C64To, c64Talk, c64Bits, c
  <2>2. C64Lines'
    BY <1>0, <2>1 DEF C64Lines, Ctl, DataBit
  <2>3. ScriptInv'
    BY <1>0, <2>1 DEF ScriptInv, Sends, Hears, WellFormed
  <2> QED
    BY <2>2, <2>3
<1>15. ASSUME Hear PROVE C64Lines' /\ ScriptInv'
  <2>1. /\ cpc = "listen" /\ cpc' = "listening" /\ held' = held
        /\ UNCHANGED <<script, failed>> /\ c' = c
    BY <1>15 DEF Hear, C64At, C64To, c64Talk, c64Bits, c
  <2>2. C64Lines'
    BY <1>0, <2>1 DEF C64Lines, Ctl, DataBit
  <2>3. ScriptInv'
    BY <1>0, <2>1 DEF ScriptInv, Sends, Hears, WellFormed
  <2> QED
    BY <2>2, <2>3
<1>16. ASSUME Await PROVE C64Lines' /\ ScriptInv'
  <2>1. /\ cpc = "listening" /\ cpc' = "await" /\ held' = held \ {"DATA"}
        /\ UNCHANGED <<script, failed>> /\ c' = c
    BY <1>16 DEF Await, C64At, C64To, c64Talk, c64Bits, c
  <2>2. C64Lines'
    BY <1>0, <2>1 DEF C64Lines, Ctl, DataBit
  <2>3. ScriptInv'
    BY <1>0, <2>1 DEF ScriptInv, Sends, Hears, WellFormed
  <2> QED
    BY <2>2, <2>3
<1>17. ASSUME GotEOI PROVE C64Lines' /\ ScriptInv'
  <2>1. /\ cpc = "await" /\ ~ceoi
    BY <1>17, C64AtAwait DEF GotEOI, C64At
  <2>2. /\ cpc' = "listening" /\ held' = held \cup {"DATA"}
        /\ failed' = failed /\ script' = script /\ c' = c
    BY <1>17, <2>1 DEF GotEOI, Unless, C64To, c
  <2>3. C64Lines'
    BY <1>0, <2>1, <2>2 DEF C64Lines
  <2>4. ScriptInv'
    BY <1>0, <2>1, <2>2 DEF ScriptInv, Sends, Hears, WellFormed
  <2> QED
    BY <2>3, <2>4
<1>18. ASSUME GotStart PROVE C64Lines' /\ ScriptInv'
  <2>1. /\ cpc = "await" /\ cpc' = "rHigh" /\ held' = held
        /\ UNCHANGED <<script, failed>> /\ c' = c
    BY <1>18 DEF GotStart, C64At, C64To, c64Talk, c64Bits, c
  <2>2. C64Lines'
    BY <1>0, <2>1 DEF C64Lines, Ctl, DataBit
  <2>3. ScriptInv'
    BY <1>0, <2>1 DEF ScriptInv, Sends, Hears, WellFormed
  <2> QED
    BY <2>2, <2>3
<1>19. ASSUME GetBit PROVE C64Lines' /\ ScriptInv'
  <2>1. /\ cpc = "rHigh" /\ cpc' = "rLow" /\ held' = held
        /\ UNCHANGED <<script, failed>> /\ c' = c
    BY <1>19 DEF GetBit, C64At, C64To, c64Talk, c64Bits, c
  <2>2. C64Lines'
    BY <1>0, <2>1 DEF C64Lines, Ctl, DataBit
  <2>3. ScriptInv'
    BY <1>0, <2>1 DEF ScriptInv, Sends, Hears, WellFormed
  <2> QED
    BY <2>2, <2>3
<1>20. ASSUME NextBit PROVE C64Lines' /\ ScriptInv'
  <2>1. /\ cpc = "rLow" /\ cpc' = "rHigh" /\ held' = held
        /\ UNCHANGED <<script, failed>> /\ c' = c
    BY <1>20 DEF NextBit, C64At, C64To, c64Talk, c64Bits, c
  <2>2. C64Lines'
    BY <1>0, <2>1 DEF C64Lines, Ctl, DataBit
  <2>3. ScriptInv'
    BY <1>0, <2>1 DEF ScriptInv, Sends, Hears, WellFormed
  <2> QED
    BY <2>2, <2>3
<1>21. ASSUME GotByte PROVE C64Lines' /\ ScriptInv'
  <2>1. /\ cpc = "rLow" /\ held' = {"DATA"} /\ failed' = failed
    BY <1>21 DEF GotByte, C64At
  <2>2. script # <<>> /\ c.kind = "receive" /\ WellFormed(script) /\ failed = ""
    BY <1>0, <2>1 DEF ScriptInv, Hears, Sends
  <2>3. CASE ~ceoi
    <3>1. cpc' = "listen" /\ script' = script /\ c' = c
      BY <1>21, <2>3 DEF GotByte, C64To, c
    <3>2. C64Lines'
      BY <2>1, <3>1 DEF C64Lines
    <3>3. ScriptInv'
      BY <2>1, <2>2, <3>1 DEF ScriptInv, Sends, Hears, WellFormed
    <3> QED
      BY <3>2, <3>3
  <2>4. CASE ceoi
    <3>1. PICK r : r = [kind |-> "release", byte |-> <<>>, eoi |-> FALSE]
      OBVIOUS
    <3>2. cpc' = "next" /\ script' = <<r>> \o Tail(script)
      BY <1>21, <2>4, <3>1 DEF GotByte, C64To
    <3>3. MayFollow(c) = {"atn"}
      BY <2>2 DEF MayFollow
    <3>4. WellFormed(Tail(script)) /\ Tail(script) # <<>> /\ Head(Tail(script)).kind = "atn"
      BY <2>2, <3>3, RestWellFormed DEF c
    <3>5. WellFormed(script') /\ script' # <<>> /\ Head(script') = r /\ Tail(script') = Tail(script)
      BY <3>1, <3>2, <3>4, ReleaseWellFormed
    <3>6. WellFormed(script)' /\ script' # <<>> /\ c'.kind = "release" /\ Tail(script') # <<>>
      BY <3>1, <3>4, <3>5 DEF WellFormed, c
    <3>7. C64Lines'
      BY <3>2 DEF C64Lines
    <3>8. ScriptInv'
      BY <2>1, <2>2, <3>2, <3>6 DEF ScriptInv, Sends, Hears
    <3> QED
      BY <3>7, <3>8
  <2> QED
    BY <2>3, <2>4
<1> QED
  BY <1>1, <1>2, <1>3, <1>4, <1>5, <1>6, <1>7, <1>8, <1>9, <1>10, <1>11, <1>12, <1>13, <1>14,
     <1>15, <1>16, <1>17, <1>18, <1>19, <1>20, <1>21 DEF C64

----------------------------------------------------------------------------
(* Types. *)

LEMMA LevelBit == Level("DATA") \in {0, 1}
  BY DEF Level

LEMMA CurrentByte ==
    ASSUME Inv, cpc \in Sends PROVE c.byte \in Byte /\ c.eoi \in BOOLEAN
<1>1. WellFormed(script) /\ script # <<>> /\ c.kind \in {"atn", "data"}
  BY DEF Inv, ScriptInv
<1>2. c \in Step
  BY <1>1, RestWellFormed DEF c
<1> QED
  BY <1>1, <1>2 DEF Step

LEMMA CurrentReply ==
    ASSUME Inv, reply # <<>> PROVE Head(reply) \in Byte
<1>1. reply \in Seq(Byte)
  BY DEF Inv, LineInv, RoleInv
<1> QED
  BY <1>1, HeadTailProperties

LEMMA AdvanceTypes == ASSUME Inv, Advance PROVE TypeInv'
  BY Clocks DEF Inv, TypeInv, Advance, reader, c64Bits, c64Talk

\* The drive changes its clock, its flags and the bits of the byte.
LEMMA DriveTypes ==
    ASSUME Inv, read \/ doTurnAround \/ writeByte PROVE TypeInv'
<1>0. TypeInv /\ UNCHANGED c64Vars /\ ct' \in Nat /\ ceoi' \in BOOLEAN /\ cbits' \in Seq({0, 1})
      /\ sessions' \in 0..MaxSessions
  BY DriveSteps DEF Inv, TypeInv, c64Vars, c64Bits, c64Talk
<1>1. dt' \in Nat
  <2>1. CASE read
    BY <2>1, TimeAssumption DEF read, Attention, Commanded, Present, ReadyForData, NoEOI,
           AnswerEOI, EOIAnswered, FirstBit, ClockLow, Sample, Taken, Accept, SinkMore,
           SinkDone, SinkTalks, To
  <2>2. CASE doTurnAround
    BY <2>2, TimeAssumption
       DEF doTurnAround, TakeClock, HoldData, GiveClock, Claimed, Back, To, AfterTurn
  <2>3. CASE writeByte
    BY <2>3, TimeAssumption DEF writeByte, ReadyToSend, ListenerReady, EOISeen, EOIOver, PutBit,
           ClockBit, EndOfByte, Acked, To
  <2> QED
    BY <2>1, <2>2, <2>3
<1>2. hasEOI' \in BOOLEAN /\ isListener' \in BOOLEAN /\ accum' \in Seq({0, 1})
  <2>0. hasEOI \in BOOLEAN /\ isListener \in BOOLEAN /\ accum \in Seq({0, 1})
    BY <1>0 DEF TypeInv
  <2>1. CASE Sample
    BY <2>0, <2>1, LevelBit, AppendProperties DEF Sample
  <2>2. CASE PutBit
    BY <2>0, <2>2, PutBitFacts DEF PutBit
  <2>3. CASE read /\ ~Sample
    <3>1. CASE EOIAnswered
      BY <2>0, <3>1 DEF EOIAnswered
    <3>2. CASE FirstBit
      BY <2>0, <3>2 DEF FirstBit
    <3>3. CASE SinkDone
      BY <2>0, <3>3 DEF SinkDone
    <3>4. CASE UNCHANGED reader
      BY <2>0, <3>4 DEF reader
    <3> QED
      BY <2>3, <3>1, <3>2, <3>3, <3>4 DEF read, Attention, Commanded, Present, ReadyForData,
             NoEOI, AnswerEOI, ClockLow, Taken, Accept, SinkMore, SinkTalks
  <2>4. CASE doTurnAround
    BY <2>0, <2>4 DEF doTurnAround, TakeClock, HoldData, GiveClock, Claimed, Back, reader
  <2>5. CASE writeByte /\ ~PutBit
    <3>1. CASE ListenerReady
      BY <2>0, <3>1 DEF ListenerReady
    <3>2. CASE UNCHANGED reader
      BY <2>0, <3>2 DEF reader
    <3> QED
      BY <2>5, <3>1, <3>2 DEF writeByte, ReadyToSend, EOISeen, EOIOver, ClockBit, EndOfByte, Acked
  <2> QED
    BY <2>1, <2>2, <2>3, <2>4, <2>5
<1> QED
  BY <1>0, <1>1, <1>2 DEF TypeInv

LEMMA C64Types ==
    ASSUME Inv, C64 PROVE TypeInv'
<1>0. TypeInv
  BY DEF Inv
<1>1. UNCHANGED driveVars
  BY DEF C64, Begin, Command, DataByte, Offer, Accepted, EOITaken, AfterEOI, C64ClockLow,
         C64Bit, C64Acked, Release, End, Listen, TalkerThere, Hear, Await, GotEOI, GotStart,
         GetBit, NextBit, GotByte
<1>2. ct' \in Nat
  <2>1. CASE Accepted \/ AfterEOI
    <3>1. (\E t \in ClockDelays : ct' = t) \/ ct' = 0
      BY <2>1 DEF Accepted, AfterEOI, Start, C64To
    <3> QED
      BY <3>1, TimeAssumption
  <2>2. CASE Hear
    BY <2>2, TimeAssumption DEF Hear, C64To
  <2>3. CASE DataByte \/ C64Acked \/ Release
    <3>1. ct' = Gap \/ ct' = 0
      BY <2>3 DEF DataByte, C64Acked, Release, C64To
    <3> QED
      BY <3>1, TimeAssumption
  <2>4. CASE Begin \/ Command \/ EOITaken \/ C64Bit \/ End \/ Listen
    BY <2>4 DEF Begin, Command, EOITaken, C64Bit, End, Listen, C64To
  <2>6. CASE Offer \/ C64ClockLow
    <3>1. ct' = 0 \/ ct' = 100 \/ ct' = 4
      BY <2>6 DEF Offer, C64ClockLow, C64To
    <3> QED
      BY <3>1
  <2>5. CASE TalkerThere \/ Await \/ GotEOI \/ GotStart \/ GetBit \/ NextBit \/ GotByte
    BY <2>5 DEF TalkerThere, Await, GotEOI, GotStart, GetBit, NextBit, GotByte, C64To
  <2> QED
    BY <2>1, <2>2, <2>3, <2>4, <2>5, <2>6 DEF C64
<1>3. sessions' \in 0..MaxSessions
  <2>1. CASE Begin
    <3>1. sessions < MaxSessions /\ sessions' = sessions + 1 /\ sessions \in 0..MaxSessions
      BY <1>0, <2>1, C64AtIdle DEF Begin, TypeInv
    <3> QED
      BY ONLY <3>1, TimeAssumption
  <2>2. CASE ~Begin
    <3>1. UNCHANGED sessions
      BY <2>2 DEF C64, Command, DataByte, Offer, Accepted, EOITaken, AfterEOI, C64ClockLow,
             C64Bit, C64Acked, Release, End, Listen, TalkerThere, Hear, Await, GotEOI, GotStart,
             GetBit, NextBit, GotByte, Unless, c64Talk
    <3> QED
      BY <1>0, <3>1 DEF TypeInv
  <2> QED
    BY <2>1, <2>2
<1>4. cbits' \in Seq({0, 1}) /\ ceoi' \in BOOLEAN
  <2>0. cbits \in Seq({0, 1}) /\ ceoi \in BOOLEAN
    BY <1>0 DEF TypeInv
  <2>1. CASE C64Bit
    BY <2>0, <2>1, C64BitFacts DEF C64Bit
  <2>2. CASE GetBit
    BY <2>0, <2>2, LevelBit, AppendProperties DEF GetBit
  <2>3. CASE Accepted \/ Await
    <3>1. cbits' = <<>> /\ ceoi' = ceoi
      BY <2>3 DEF Accepted, Await
    <3> QED
      BY <2>0, <3>1
  <2>5. CASE Listen \/ GotEOI
    <3>1. cbits' = cbits /\ ceoi' \in BOOLEAN
      BY <2>5 DEF Listen, GotEOI
    <3> QED
      BY <2>0, <3>1
  <2>4. CASE UNCHANGED c64Bits
    BY <2>0, <2>4 DEF c64Bits
  <2> QED
    BY <2>1, <2>2, <2>3, <2>4, <2>5 DEF C64, Begin, Command, DataByte, Offer, EOITaken,
           AfterEOI, C64ClockLow, C64Acked, Release, End, TalkerThere, Hear, GotStart, NextBit,
           GotByte
<1> QED
  BY <1>0, <1>1, <1>2, <1>3, <1>4 DEF TypeInv, driveVars, reader

----------------------------------------------------------------------------
(* The bits that have passed, when the drive goes on. *)

LEMMA C64BitsKept ==
    ASSUME Inv, read \/ doTurnAround \/ writeByte PROVE C64Bits'
<1>1. C64Bits /\ UNCHANGED <<cpc, cbits>> /\ c' = c
  BY DriveSteps DEF Inv, BitInv, c64Vars, c64Bits, c64Talk, c
<1>2. cpc \in {"rHigh", "rLow"} => reply' = reply
  <2>1. ASSUME SinkTalks \/ Acked PROVE cpc \notin {"rHigh", "rLow"}
    BY <2>1, AtSink, AtAcked DEF SinkTalks, Heard, Acked
  <2>2. ASSUME ~SinkTalks, ~Acked PROVE reply' = reply
    BY <2>2 DEF read, Attention, Commanded, Present, ReadyForData, NoEOI, AnswerEOI,
           EOIAnswered, FirstBit, ClockLow, Sample, Taken, Accept, SinkMore, SinkDone,
           doTurnAround, TakeClock, HoldData, GiveClock, Claimed, Back, writeByte, ReadyToSend,
           ListenerReady, EOISeen, EOIOver, PutBit, ClockBit, EndOfByte, talker
  <2> QED
    BY <2>1, <2>2
<1>3. pc' \in {"low", "first"} /\ cpc # "rfd" => cbits = <<>>
  <2>1. CASE ReadyForData
    BY <2>1, AtReady DEF ReadyForData
  <2>2. CASE NoEOI
    BY <1>1, <2>2, AtLow DEF NoEOI, C64Bits, At
  <2>3. CASE EOIAnswered
    BY <1>1, <2>3, AtEoi DEF EOIAnswered, C64Bits
  <2>4. ASSUME ~ReadyForData, ~NoEOI, ~EOIAnswered PROVE pc' \notin {"low", "first"}
    BY <2>4 DEF read, Attention, Commanded, Present, AnswerEOI, FirstBit, ClockLow, Sample,
           Taken, Accept, SinkMore, SinkDone, SinkTalks, doTurnAround, TakeClock, HoldData,
           GiveClock, Claimed, Back, writeByte, ReadyToSend, ListenerReady, EOISeen, EOIOver,
           PutBit, ClockBit, EndOfByte, Acked, To, AfterTurn
  <2> QED
    BY <2>1, <2>2, <2>3, <2>4
<1> QED
  BY <1>1, <1>2, <1>3 DEF C64Bits, IsHead

\* What the proofs for the actions start from.
LEMMA DriveBitFacts ==
    ASSUME Inv, read \/ doTurnAround \/ writeByte
    PROVE  /\ C64Bits /\ DriveBits /\ PairBits /\ EOIInv
           /\ UNCHANGED <<cpc, ct, held, cbits, ceoi>> /\ c' = c
           /\ accum \in Seq({0, 1}) /\ cbits \in Seq({0, 1}) /\ ceoi \in BOOLEAN /\ hasEOI \in BOOLEAN
           /\ cpc \in Sends => c.eoi \in BOOLEAN
  BY DriveSteps, CurrentByte DEF Inv, BitInv, TypeInv, c64Vars, c64Bits, c64Talk, c

\* Bits that are the first ones of a byte stay so with its next bit.
LEMMA HeadAppend ==
    ASSUME NEW bits \in Seq({0, 1}), NEW byte, IsHead(bits, byte), Len(bits) < Bits,
           byte[Len(bits) + 1] \in {0, 1}
    PROVE  LET longer == Append(bits, byte[Len(bits) + 1])
           IN longer \in Seq({0, 1}) /\ Len(longer) = Len(bits) + 1 /\ IsHead(longer, byte)
<1> DEFINE longer == Append(bits, byte[Len(bits) + 1])
<1>1. /\ longer \in Seq({0, 1}) /\ Len(longer) = Len(bits) + 1 /\ Len(bits) \in Nat
      /\ \A i \in 1..Len(bits) : longer[i] = bits[i]
      /\ longer[Len(longer)] = byte[Len(bits) + 1]
  BY AppendProperties, LenProperties
<1> HIDE DEF longer
<1>2. ASSUME NEW i \in 1..Len(longer) PROVE longer[i] = byte[i]
  <2>1. CASE i = Len(bits) + 1
    BY <1>1, <2>1
  <2>2. CASE i # Len(bits) + 1
    <3>1. i \in 1..Len(bits)
      BY ONLY <1>1, <1>2, <2>2
    <3> QED
      BY <1>1, <3>1 DEF IsHead
  <2> QED
    BY <2>1, <2>2
<1>3. Len(longer) <= Bits
  BY <1>1, TimeAssumption
<1>4. IsHead(longer, byte)
  BY <1>2, <1>3 DEF IsHead
<1> QED
  BY <1>1, <1>4 DEF longer

LEMMA NoBits == \A byte : IsHead(<<>>, byte) /\ Len(<<>>) < Bits
  BY TimeAssumption DEF IsHead

LEMMA LastBit ==
    ASSUME NEW bits \in Seq({0, 1}), bits # <<>>
    PROVE  /\ Len(bits) \in Nat \ {0} /\ bits[Len(bits)] \in {0, 1}
           /\ bits[Len(bits)] = IF DataBit(bits) = {} THEN 0 ELSE 1
<1>1. Len(bits) \in Nat \ {0}
  BY EmptySeq, LenProperties
<1>2. bits[Len(bits)] \in {0, 1}
  BY <1>1, ElementOfSeq
<1> QED
  BY <1>1, <1>2 DEF DataBit

\* What the drive reads is the bit of the C64.
LEMMA SampledBit ==
    ASSUME Inv, At("bitHigh")
    PROVE  /\ Len(accum) < Bits /\ IsHead(accum, c.byte) /\ hasEOI = c.eoi /\ Len(cbits) = Len(accum) + 1
           /\ c.byte[Len(accum) + 1] \in {0, 1} /\ Level("DATA") = c.byte[Len(accum) + 1]
<1>1. pc = "bitHigh" /\ cpc = "clock"
  BY AtBitHigh DEF At
<1>2. /\ Len(accum) < Bits /\ IsHead(accum, c.byte) /\ hasEOI = c.eoi /\ Len(cbits) = Len(accum) + 1
      /\ IsHead(cbits, c.byte) /\ accum \in Seq({0, 1}) /\ cbits \in Seq({0, 1})
  BY <1>1 DEF Inv, TypeInv, BitInv, DriveBits, PairBits, C64Bits
<1>3. cbits # <<>>
  BY <1>2, EmptySeq, LenProperties
<1>4. Low("DATA") <=> DataBit(cbits) = {}
  BY <1>1, Levels, DriveData, C64Holds DEF FreesData
<1>5. Level("DATA") = cbits[Len(cbits)] /\ cbits[Len(cbits)] \in {0, 1} /\ Len(cbits) \in Nat \ {0}
  BY <1>2, <1>3, <1>4, LastBit DEF Level
<1>6. cbits[Len(cbits)] = c.byte[Len(cbits)]
  BY <1>2, <1>5 DEF IsHead
<1> QED
  BY <1>2, <1>5, <1>6

LEMMA ReadBits ==
    ASSUME Inv, read PROVE DriveBits' /\ PairBits' /\ EOIInv'
<1>0. /\ C64Bits /\ DriveBits /\ PairBits /\ EOIInv
      /\ UNCHANGED <<cpc, ct, held, cbits, ceoi>> /\ c' = c
      /\ accum \in Seq({0, 1}) /\ cbits \in Seq({0, 1}) /\ ceoi \in BOOLEAN /\ hasEOI \in BOOLEAN
      /\ cpc \in Sends => c.eoi \in BOOLEAN
  BY DriveBitFacts
<1>1. ASSUME Attention PROVE DriveBits' /\ PairBits' /\ EOIInv'
  <2>1. DriveBits'
    BY <1>0, <1>1, AtAtn DEF Attention, At, To, reader, talker, DriveBits, C64Bits
  <2>2. PairBits'
    BY <1>0, <1>1, AtAtn DEF Attention, At, To, reader, talker, DriveBits, PairBits
  <2>3. EOIInv'
    BY <1>0, <1>1, AtAtn DEF Attention, At, To, reader, talker, EOIInv, isLast, Sends
  <2> QED
    BY <2>1, <2>2, <2>3
<1>2. ASSUME Commanded PROVE DriveBits' /\ PairBits' /\ EOIInv'
  <2>1. DriveBits'
    BY <1>0, <1>2, AtClk DEF Commanded, At, To, reader, talker, DriveBits, C64Bits
  <2>2. PairBits'
    BY <1>0, <1>2, AtClk DEF Commanded, At, To, reader, talker, DriveBits, PairBits
  <2>3. EOIInv'
    BY <1>0, <1>2, AtClk DEF Commanded, At, To, reader, talker, EOIInv, isLast, Sends
  <2> QED
    BY <2>1, <2>2, <2>3
<1>3. ASSUME Present PROVE DriveBits' /\ PairBits' /\ EOIInv'
  <2>1. DriveBits'
    BY <1>0, <1>3, AtPresent DEF Present, At, To, reader, talker, DriveBits, C64Bits
  <2>2. PairBits'
    BY <1>0, <1>3, AtPresent DEF Present, At, To, reader, talker, DriveBits, PairBits
  <2>3. EOIInv'
    BY <1>0, <1>3, AtPresent DEF Present, At, To, reader, talker, EOIInv, isLast, Sends
  <2> QED
    BY <2>1, <2>2, <2>3
<1>4. ASSUME ReadyForData PROVE DriveBits' /\ PairBits' /\ EOIInv'
  <2>1. DriveBits'
    BY <1>0, <1>4, AtReady DEF ReadyForData, At, To, reader, talker, DriveBits, C64Bits
  <2>2. PairBits'
    BY <1>0, <1>4, AtReady DEF ReadyForData, At, To, reader, talker, DriveBits, PairBits
  <2>3. EOIInv'
    BY <1>0, <1>4, AtReady DEF ReadyForData, At, To, reader, talker, EOIInv, isLast
  <2> QED
    BY <2>1, <2>2, <2>3
<1>5. ASSUME NoEOI PROVE DriveBits' /\ PairBits' /\ EOIInv'
  <2>1. DriveBits'
    BY <1>0, <1>5, AtLow DEF NoEOI, At, To, reader, talker, DriveBits, C64Bits, PairBits
  <2>2. PairBits'
    BY <1>0, <1>5, AtLow DEF NoEOI, At, To, reader, talker, DriveBits, C64Bits, PairBits
  <2>3. EOIInv'
    BY <1>0, <1>5, AtLow
       DEF NoEOI, At, To, AfterTurn, Heard, reader, talker, EOIInv, isLast, Sends
  <2> QED
    BY <2>1, <2>2, <2>3
<1>6. ASSUME AnswerEOI PROVE DriveBits' /\ PairBits' /\ EOIInv'
  <2>1. DriveBits'
    BY <1>0, <1>6, AtLow DEF AnswerEOI, At, To, reader, talker, DriveBits, C64Bits
  <2>2. PairBits'
    BY <1>0, <1>6, AtLow DEF AnswerEOI, At, To, reader, talker, DriveBits, PairBits
  <2>3. EOIInv'
    BY <1>0, <1>6, AtLow DEF AnswerEOI, At, To, reader, talker, EOIInv, isLast, Sends
  <2> QED
    BY <2>1, <2>2, <2>3
<1>7. ASSUME EOIAnswered PROVE DriveBits' /\ PairBits' /\ EOIInv'
  <2>1. DriveBits'
    BY <1>0, <1>7, AtEoi DEF EOIAnswered, At, To, talker, DriveBits, C64Bits, PairBits
  <2>2. PairBits'
    BY <1>0, <1>7, AtEoi DEF EOIAnswered, At, To, talker, DriveBits, C64Bits, PairBits
  <2>3. EOIInv'
    BY <1>0, <1>7, AtEoi DEF EOIAnswered, At, To, talker, EOIInv, isLast, Sends
  <2> QED
    BY <2>1, <2>2, <2>3
<1>8. ASSUME FirstBit PROVE DriveBits' /\ PairBits' /\ EOIInv'
  <2>1. DriveBits'
    BY <1>0, <1>8, AtFirst DEF FirstBit, At, To, talker, DriveBits, C64Bits, EOIInv
  <2>2. PairBits'
    BY <1>0, <1>8, AtFirst DEF FirstBit, At, To, talker, DriveBits, C64Bits, PairBits
  <2>3. EOIInv'
    BY <1>0, <1>8, AtFirst DEF FirstBit, At, To, talker, EOIInv, isLast, Sends
  <2> QED
    BY <2>1, <2>2, <2>3
<1>9. ASSUME ClockLow PROVE DriveBits' /\ PairBits' /\ EOIInv'
  <2>1. DriveBits'
    BY <1>0, <1>9, AtBitLow DEF ClockLow, At, To, reader, talker, DriveBits, C64Bits
  <2>2. PairBits'
    BY <1>0, <1>9, AtBitLow DEF ClockLow, At, To, reader, talker, DriveBits, PairBits
  <2>3. EOIInv'
    BY <1>0, <1>9, AtBitLow DEF ClockLow, At, To, reader, talker, EOIInv, isLast, Sends
  <2> QED
    BY <2>1, <2>2, <2>3
<1>10. ASSUME Sample PROVE DriveBits' /\ PairBits' /\ EOIInv'
  <2>1. DriveBits'
    <3>1. /\ At("bitHigh") /\ hasEOI' = hasEOI /\ accum' = Append(accum, c.byte[Len(accum) + 1])
          /\ pc' = IF Len(accum') >= Bits THEN "taken" ELSE "bitLow"
      BY <1>10, SampledBit DEF Sample, To
    <3>2. /\ accum' \in Seq({0, 1}) /\ Len(accum') = Len(accum) + 1 /\ IsHead(accum', c.byte)
      BY <1>0, <3>1, SampledBit, HeadAppend
    <3>3. Len(accum') <= Bits /\ Len(accum') \in Nat
      BY <3>2, LenProperties DEF IsHead
    <3>4. /\ pc' = "taken" => Len(accum') = Bits
          /\ pc' = "bitLow" => Len(accum') < Bits
      BY ONLY <3>1, <3>3, TimeAssumption
    <3>5. IsHead(accum, c.byte)' /\ hasEOI' = c'.eoi
      BY <1>0, <3>1, <3>2, SampledBit DEF IsHead
    <3> QED
      BY <3>1, <3>4, <3>5 DEF DriveBits
  <2>2. PairBits'
    BY <1>0, <1>10, AtBitHigh DEF Sample, At, To, reader, talker, DriveBits, C64Bits, PairBits
  <2>3. EOIInv'
    BY <1>0, <1>10, AtBitHigh DEF Sample, At, To, reader, talker, EOIInv, isLast, Sends
  <2> QED
    BY <2>1, <2>2, <2>3
<1>11. ASSUME Taken PROVE DriveBits' /\ PairBits' /\ EOIInv'
  <2>1. DriveBits'
    BY <1>0, <1>11, AtTaken DEF Taken, At, To, reader, talker, DriveBits, C64Bits
  <2>2. PairBits'
    BY <1>0, <1>11, AtTaken DEF Taken, At, To, reader, talker, DriveBits, PairBits
  <2>3. EOIInv'
    BY <1>0, <1>11, AtTaken DEF Taken, At, To, reader, talker, EOIInv, isLast, Sends
  <2> QED
    BY <2>1, <2>2, <2>3
<1>12. ASSUME Accept PROVE DriveBits' /\ PairBits' /\ EOIInv'
  <2>1. DriveBits'
    BY <1>0, <1>12, AtAccept DEF Accept, At, To, reader, talker, DriveBits, C64Bits
  <2>2. PairBits'
    BY <1>0, <1>12, AtAccept DEF Accept, At, To, reader, talker, DriveBits, PairBits
  <2>3. EOIInv'
    BY <1>0, <1>12, AtAccept DEF Accept, At, To, reader, talker, EOIInv, isLast, Sends
  <2> QED
    BY <2>1, <2>2, <2>3
<1>13. ASSUME SinkMore PROVE DriveBits' /\ PairBits' /\ EOIInv'
  <2>1. DriveBits'
    BY <1>0, <1>13, AtSink DEF SinkMore, At, To, Heard, reader, talker, DriveBits
  <2>2. PairBits'
    BY <1>0, <1>13, AtSink DEF SinkMore, At, To, Heard, reader, talker, PairBits
  <2>3. EOIInv'
    BY <1>0, <1>13, AtSink DEF SinkMore, At, To, Heard, reader, talker, EOIInv, isLast
  <2> QED
    BY <2>1, <2>2, <2>3
<1>14. ASSUME SinkDone PROVE DriveBits' /\ PairBits' /\ EOIInv'
  <2>1. DriveBits'
    BY <1>0, <1>14, AtSink DEF SinkDone, At, To, Heard, talker, DriveBits, C64Bits
  <2>2. PairBits'
    BY <1>0, <1>14, AtSink DEF SinkDone, At, To, Heard, talker, DriveBits, PairBits
  <2>3. EOIInv'
    BY <1>0, <1>14, AtSink DEF SinkDone, At, To, Heard, talker, EOIInv, isLast, Sends
  <2> QED
    BY <2>1, <2>2, <2>3
<1>15. ASSUME SinkTalks PROVE DriveBits' /\ PairBits' /\ EOIInv'
  <2>1. DriveBits'
    BY <1>0, <1>15, AtSink DEF SinkTalks, At, To, Heard, reader, DriveBits, C64Bits
  <2>2. PairBits'
    BY <1>0, <1>15, AtSink DEF SinkTalks, At, To, Heard, reader, DriveBits, PairBits
  <2>3. EOIInv'
    BY <1>0, <1>15, AtSink DEF SinkTalks, At, To, Heard, reader, EOIInv, isLast, Sends
  <2> QED
    BY <2>1, <2>2, <2>3
<1> QED
  BY <1>1, <1>2, <1>3, <1>4, <1>5, <1>6, <1>7, <1>8, <1>9, <1>10, <1>11, <1>12, <1>13, <1>14,
     <1>15 DEF read

LEMMA TurnBits ==
    ASSUME Inv, doTurnAround PROVE DriveBits' /\ PairBits' /\ EOIInv'
<1>0. /\ C64Bits /\ DriveBits /\ PairBits /\ EOIInv
      /\ UNCHANGED <<cpc, ct, held, cbits, ceoi>> /\ c' = c
      /\ accum \in Seq({0, 1}) /\ cbits \in Seq({0, 1}) /\ ceoi \in BOOLEAN /\ hasEOI \in BOOLEAN
      /\ cpc \in Sends => c.eoi \in BOOLEAN
  BY DriveBitFacts
<1>1. ASSUME TakeClock PROVE DriveBits' /\ PairBits' /\ EOIInv'
  <2>0. /\ pc = "turn" /\ isListener /\ pc' = "room" /\ cpc = "clockLow"
        /\ UNCHANGED <<hasEOI, accum>>
    <3>1. pc = "turn" /\ isListener /\ reply # <<>> /\ AskPairs
      BY <1>1 DEF TakeClock, At, Inv, LineInv, RoleInv, MeetInv
    <3> QED
      BY <1>1, <3>1 DEF TakeClock, AfterTurn, To, AskPairs
  <2>1. DriveBits'
    BY ONLY <2>0 DEF DriveBits
  <2>2. PairBits'
    BY ONLY <2>0 DEF PairBits
  <2>3. EOIInv'
    BY ONLY <1>0, <2>0 DEF EOIInv
  <2> QED
    BY <2>1, <2>2, <2>3
<1>2. ASSUME HoldData PROVE DriveBits' /\ PairBits' /\ EOIInv'
  <2>1. DriveBits'
    BY <1>0, <1>2 DEF HoldData, At, To, reader, talker, DriveBits, C64Bits, PairBits
  <2>2. PairBits'
    BY <1>0, <1>2 DEF HoldData, At, To, reader, talker, DriveBits, C64Bits, PairBits
  <2>3. EOIInv'
    BY <1>0, <1>2 DEF HoldData, At, To, AfterTurn, Heard, reader, talker, EOIInv, isLast, Sends
  <2> QED
    BY <2>1, <2>2, <2>3
<1>3. ASSUME GiveClock PROVE DriveBits' /\ PairBits' /\ EOIInv'
  <2>1. DriveBits'
    BY <1>0, <1>3 DEF GiveClock, At, To, reader, talker, DriveBits, C64Bits, PairBits
  <2>2. PairBits'
    BY <1>0, <1>3 DEF GiveClock, At, To, reader, talker, DriveBits, C64Bits, PairBits
  <2>3. EOIInv'
    BY <1>0, <1>3 DEF GiveClock, At, To, AfterTurn, Heard, reader, talker, EOIInv, isLast, Sends
  <2> QED
    BY <2>1, <2>2, <2>3
<1>4. ASSUME Claimed PROVE DriveBits' /\ PairBits' /\ EOIInv'
  <2>0. pc' = "back" /\ cpc = "check"
    <3>1. At("claimed") /\ reply = <<>>
      BY <1>4 DEF Claimed, At, Inv, LineInv, RoleInv, Returns
    <3> QED
      BY <1>4, <3>1, AtClaimed DEF Claimed, AfterTurn, To
  <2>1. DriveBits'
    BY ONLY <2>0 DEF DriveBits
  <2>2. PairBits'
    BY ONLY <2>0 DEF PairBits
  <2>3. EOIInv'
    BY ONLY <1>0, <2>0 DEF EOIInv
  <2> QED
    BY <2>1, <2>2, <2>3
<1>5. ASSUME Back PROVE DriveBits' /\ PairBits' /\ EOIInv'
  <2>1. DriveBits'
    BY <1>0, <1>5, AtBack DEF Back, At, To, talker, DriveBits, C64Bits, PairBits, EOIInv
  <2>2. PairBits'
    BY <1>0, <1>5, AtBack DEF Back, At, To, talker, DriveBits, C64Bits, PairBits
  <2>3. EOIInv'
    BY <1>0, <1>5, AtBack
       DEF Back, At, To, AfterTurn, Heard, reader, talker, EOIInv, isLast, Sends
  <2> QED
    BY <2>1, <2>2, <2>3
<1> QED
  BY <1>1, <1>2, <1>3, <1>4, <1>5 DEF doTurnAround

LEMMA WriteBits ==
    ASSUME Inv, writeByte PROVE DriveBits' /\ PairBits' /\ EOIInv'
<1>0. /\ C64Bits /\ DriveBits /\ PairBits /\ EOIInv
      /\ UNCHANGED <<cpc, ct, held, cbits, ceoi>> /\ c' = c
      /\ accum \in Seq({0, 1}) /\ cbits \in Seq({0, 1}) /\ ceoi \in BOOLEAN /\ hasEOI \in BOOLEAN
      /\ cpc \in Sends => c.eoi \in BOOLEAN
  BY DriveBitFacts
<1>1. ASSUME ReadyToSend PROVE DriveBits' /\ PairBits' /\ EOIInv'
  <2>1. DriveBits'
    BY <1>0, <1>1, AtRoom DEF ReadyToSend, At, To, reader, talker, DriveBits, C64Bits
  <2>2. PairBits'
    BY <1>0, <1>1, AtRoom DEF ReadyToSend, At, To, reader, talker, DriveBits, PairBits
  <2>3. EOIInv'
    BY <1>0, <1>1, AtRoom DEF ReadyToSend, At, To, reader, talker, EOIInv, isLast, Sends
  <2> QED
    BY <2>1, <2>2, <2>3
<1>2. ASSUME ListenerReady PROVE DriveBits' /\ PairBits' /\ EOIInv'
  <2>1. DriveBits'
    <3>1. accum' = <<>> /\ pc' \in {"eoiLow", "put"}
      BY <1>2 DEF ListenerReady, To
    <3>2. IsHead(accum, Head(reply))' /\ Len(accum') < Bits
      BY <3>1, NoBits DEF IsHead
    <3> QED
      BY <3>1, <3>2 DEF DriveBits
  <2>2. PairBits'
    BY <1>0, <1>2, AtAnnounce DEF ListenerReady, At, To, DriveBits, C64Bits, PairBits
  <2>3. EOIInv'
    BY <1>0, <1>2, AtAnnounce DEF ListenerReady, At, To, reader, talker, EOIInv, isLast, Sends
  <2> QED
    BY <2>1, <2>2, <2>3
<1>3. ASSUME EOISeen PROVE DriveBits' /\ PairBits' /\ EOIInv'
  <2>1. DriveBits'
    BY <1>0, <1>3, AtEoiLow DEF EOISeen, At, To, reader, talker, DriveBits, C64Bits
  <2>2. PairBits'
    BY <1>0, <1>3, AtEoiLow DEF EOISeen, At, To, reader, talker, DriveBits, PairBits
  <2>3. EOIInv'
    BY <1>0, <1>3, AtEoiLow DEF EOISeen, At, To, reader, talker, EOIInv, isLast, Sends
  <2> QED
    BY <2>1, <2>2, <2>3
<1>4. ASSUME EOIOver PROVE DriveBits' /\ PairBits' /\ EOIInv'
  <2>1. DriveBits'
    <3>1. accum' = <<>> /\ pc' = "put"
      BY <1>4, EmptyAtEoi DEF EOIOver, To, At, reader
    <3>2. IsHead(accum, Head(reply))' /\ Len(accum') < Bits
      BY <3>1, NoBits DEF IsHead
    <3> QED
      BY <3>1, <3>2 DEF DriveBits
  <2>2. PairBits'
    BY <1>0, <1>4, AtEoiHigh DEF EOIOver, At, To, reader, talker, DriveBits, C64Bits, PairBits
  <2>3. EOIInv'
    BY <1>0, <1>4, AtEoiHigh DEF EOIOver, At, To, reader, talker, EOIInv, isLast, Sends
  <2> QED
    BY <2>1, <2>2, <2>3
<1>5. ASSUME PutBit PROVE DriveBits' /\ PairBits' /\ EOIInv'
  <2>1. DriveBits'
    <3>1. /\ pc = "put" /\ pc' = "clock"
          /\ reply' = reply /\ accum' = Append(accum, Head(reply)[Len(accum) + 1])
          /\ IsHead(accum, Head(reply)) /\ Len(accum) < Bits
      BY <1>0, <1>5 DEF PutBit, At, To, talker, DriveBits
    <3>2. IsHead(accum', Head(reply))
      BY <1>0, <1>5, <3>1, PutBitFacts, HeadAppend
    <3>3. IsHead(accum, Head(reply))' /\ accum' # <<>>
      BY <1>5, <3>1, <3>2, PutBitFacts DEF IsHead
    <3> QED
      BY <3>1, <3>3 DEF DriveBits
  <2>2. PairBits'
    BY <1>0, <1>5, AtPut, PutBitFacts DEF PutBit, At, To, talker, DriveBits, PairBits
  <2>3. EOIInv'
    BY <1>0, <1>5, AtPut, PutBitFacts DEF PutBit, At, To, reader, talker, EOIInv, isLast, Sends
  <2> QED
    BY <2>1, <2>2, <2>3
<1>6. ASSUME ClockBit PROVE DriveBits' /\ PairBits' /\ EOIInv'
  <2>1. DriveBits'
    <3>1. /\ pc = "clock"
          /\ UNCHANGED <<accum, reply>> /\ IsHead(accum, Head(reply)) /\ accum # <<>>
          /\ pc' = IF Len(accum) = Bits THEN "end" ELSE "put"
      BY <1>0, <1>6 DEF ClockBit, At, To, reader, talker, DriveBits
    <3>2. Len(accum) <= Bits /\ Len(accum) \in Nat
      BY <1>0, <3>1, LenProperties DEF IsHead
    <3>3. pc' = "put" => Len(accum') < Bits
      BY ONLY <3>1, <3>2, TimeAssumption
    <3>4. IsHead(accum, Head(reply))' /\ (pc' = "end" => Len(accum') = Bits)
      BY ONLY <3>1 DEF IsHead
    <3> QED
      BY ONLY <3>1, <3>3, <3>4 DEF DriveBits
  <2>2. PairBits'
    BY <1>0, <1>6, AtClock DEF ClockBit, At, To, reader, talker, DriveBits, C64Bits, PairBits
  <2>3. EOIInv'
    BY <1>0, <1>6, AtClock DEF ClockBit, At, To, reader, talker, EOIInv, isLast, Sends
  <2> QED
    BY <2>1, <2>2, <2>3
<1>7. ASSUME EndOfByte PROVE DriveBits' /\ PairBits' /\ EOIInv'
  <2>1. DriveBits'
    BY <1>0, <1>7, AtEnd DEF EndOfByte, At, To, reader, talker, DriveBits, C64Bits
  <2>2. PairBits'
    BY <1>0, <1>7, AtEnd DEF EndOfByte, At, To, reader, talker, DriveBits, PairBits
  <2>3. EOIInv'
    BY <1>0, <1>7, AtEnd DEF EndOfByte, At, To, reader, talker, EOIInv, isLast, Sends
  <2> QED
    BY <2>1, <2>2, <2>3
<1>8. ASSUME Acked PROVE DriveBits' /\ PairBits' /\ EOIInv'
  <2>1. DriveBits'
    BY <1>0, <1>8, AtAcked DEF Acked, At, To, reader, DriveBits, C64Bits, PairBits
  <2>2. PairBits'
    BY <1>0, <1>8, AtAcked DEF Acked, At, To, reader, DriveBits, C64Bits, PairBits
  <2>3. EOIInv'
    BY <1>0, <1>8, AtAcked DEF Acked, At, To, reader, EOIInv, isLast, Sends
  <2> QED
    BY <2>1, <2>2, <2>3
<1> QED
  BY <1>1, <1>2, <1>3, <1>4, <1>5, <1>6, <1>7, <1>8 DEF writeByte

----------------------------------------------------------------------------
(* The bits that have passed, when the C64 goes on. *)

LEMMA C64Steps ==
    ASSUME Inv, C64
    PROVE  /\ UNCHANGED driveVars /\ UNCHANGED <<pc, dt, accum, hasEOI, reply, heard, spoken>> /\ isLast' = isLast
           /\ c' = c \/ pc \in {"atn", "sink", "turn", "giveClock", "claimed", "acked"}
           /\ cpc' = "ack" => pc # "sink"
<1>1. UNCHANGED driveVars
  BY DEF C64, Begin, Command, DataByte, Offer, Accepted, EOITaken, AfterEOI, C64ClockLow,
         C64Bit, C64Acked, Release, End, Listen, TalkerThere, Hear, Await, GotEOI, GotStart,
         GetBit, NextBit, GotByte
<1>2. c' = c \/ pc \in {"atn", "sink", "turn", "giveClock", "claimed", "acked"}
  <2>1. CASE Begin
    BY <2>1, C64AtIdle DEF Begin
  <2>2. CASE C64Acked
    BY <2>2, C64AtAck DEF C64Acked
  <2>3. CASE Release
    BY <2>3, C64AtNext DEF Release
  <2>4. CASE GotByte
    <3>1. C64At("rLow") /\ Len(cbits) = Bits /\ cbits \in Seq({0, 1})
      BY <2>4 DEF GotByte, Inv, TypeInv
    <3> QED
      BY <3>1, C64AtLow, ClockOpen, LenProperties, TimeAssumption
  <2>5. CASE UNCHANGED script
    BY <2>5 DEF c
  <2> QED
    BY <2>1, <2>2, <2>3, <2>4, <2>5 DEF C64, Command, DataByte, Offer, Accepted, EOITaken,
           AfterEOI, C64ClockLow, C64Bit, End, Listen, TalkerThere, Hear, Await, GotEOI,
           GotStart, GetBit, NextBit, c64Talk
<1>3. cpc' = "ack" => pc # "sink"
  <2>1. CASE C64ClockLow
    BY <2>1, C64AtClock DEF C64ClockLow
  <2>2. CASE ~C64ClockLow
    BY <2>2 DEF C64, Begin, Command, DataByte, Offer, Accepted, EOITaken, AfterEOI, C64Bit,
           C64Acked, Release, End, Listen, TalkerThere, Hear, Await, GotEOI, GotStart, GetBit,
           NextBit, GotByte, C64To, Start
  <2> QED
    BY <2>1, <2>2
<1> QED
  BY <1>1, <1>2, <1>3 DEF driveVars, reader, talker, isLast

LEMMA DriveBitsKept ==
    ASSUME Inv, C64 PROVE DriveBits'
<1>1. /\ DriveBits /\ UNCHANGED <<pc, accum, hasEOI, reply>>
      /\ c' = c \/ pc \in {"atn", "sink", "turn", "giveClock", "claimed", "acked"}
      /\ cpc' = "ack" => pc # "sink"
  BY C64Steps DEF Inv, BitInv
<1> QED
  BY ONLY <1>1 DEF DriveBits, IsHead

\* What the C64 reads is the bit of the drive.
LEMMA HeardBit ==
    ASSUME Inv, C64At("rHigh")
    PROVE  /\ pc \in {"put", "end"} /\ Len(cbits) < Bits /\ IsHead(cbits, Head(reply)) /\ Len(accum) = Len(cbits) + 1
           /\ Head(reply)[Len(cbits) + 1] \in {0, 1} /\ Level("DATA") = Head(reply)[Len(cbits) + 1]
<1>1. pc \in {"put", "end"} /\ cpc = "rHigh"
  BY C64AtHigh DEF C64At
<1>2. /\ Len(cbits) < Bits /\ IsHead(cbits, Head(reply)) /\ Len(cbits) = Len(accum) - 1
      /\ IsHead(accum, Head(reply)) /\ accum \in Seq({0, 1}) /\ cbits \in Seq({0, 1})
  BY <1>1 DEF Inv, TypeInv, BitInv, DriveBits, PairBits, C64Bits
<1>3. Len(accum) = Len(cbits) + 1 /\ accum # <<>>
  <2>1. Len(accum) \in Nat /\ Len(cbits) \in Nat
    BY <1>2, LenProperties
  <2>2. Len(accum) = Len(cbits) + 1
    BY <1>2, <2>1
  <2> QED
    BY <1>2, <2>1, <2>2, EmptySeq
<1>4. Low("DATA") <=> DataBit(accum) = {}
  BY <1>1, <1>3, Levels, DriveData, C64Holds
<1>5. Level("DATA") = accum[Len(accum)] /\ accum[Len(accum)] \in {0, 1} /\ Len(accum) \in Nat \ {0}
  BY <1>2, <1>3, <1>4, LastBit DEF Level
<1>6. accum[Len(accum)] = Head(reply)[Len(accum)]
  BY <1>2, <1>5 DEF IsHead
<1> QED
  BY <1>1, <1>2, <1>3, <1>5, <1>6

LEMMA C64BitsMeet ==
    ASSUME Inv, C64 PROVE C64Bits' /\ PairBits' /\ EOIInv'
<1>0. /\ C64Bits /\ DriveBits /\ PairBits /\ EOIInv
      /\ accum \in Seq({0, 1}) /\ cbits \in Seq({0, 1}) /\ ceoi \in BOOLEAN /\ hasEOI \in BOOLEAN
      /\ UNCHANGED <<pc, accum, hasEOI, reply>> /\ isLast' = isLast
  BY C64Steps DEF Inv, BitInv, TypeInv
<1>1. ASSUME Begin PROVE C64Bits' /\ PairBits' /\ EOIInv'
  <2>1. C64Bits'
    BY <1>0, <1>1, C64AtIdle DEF Begin, C64At, C64To, C64Bits, c64Bits, c, IsHead
  <2>2. PairBits'
    BY <1>0, <1>1, C64AtIdle DEF Begin, C64At, C64To, PairBits, DriveBits, C64Bits
  <2>3. EOIInv'
    BY <1>0, <1>1, C64AtIdle DEF Begin, C64At, C64To, Start, Unless, EOIInv, c64Bits, c64Talk, c
  <2> QED
    BY <2>1, <2>2, <2>3
<1>2. ASSUME Command PROVE C64Bits' /\ PairBits' /\ EOIInv'
  <2>1. C64Bits'
    BY <1>0, <1>2, C64AtNext DEF Command, C64At, C64To, C64Bits, c64Bits, c64Talk, c
  <2>2. PairBits'
    BY <1>0, <1>2, C64AtNext DEF Command, C64At, C64To, PairBits, DriveBits, C64Bits
  <2>3. EOIInv'
    BY <1>0, <1>2, C64AtNext DEF Command, C64At, C64To, Start, Unless, EOIInv, c64Bits, c64Talk, c
  <2> QED
    BY <2>1, <2>2, <2>3
<1>3. ASSUME DataByte PROVE C64Bits' /\ PairBits' /\ EOIInv'
  <2>1. C64Bits'
    BY <1>0, <1>3, C64AtNext DEF DataByte, C64At, C64To, C64Bits, c64Bits, c64Talk, c
  <2>2. PairBits'
    BY <1>0, <1>3, C64AtNext DEF DataByte, C64At, C64To, PairBits, DriveBits, C64Bits
  <2>3. EOIInv'
    BY <1>0, <1>3, C64AtNext
       DEF DataByte, C64At, C64To, Start, Unless, EOIInv, c64Bits, c64Talk, c
  <2> QED
    BY <2>1, <2>2, <2>3
<1>4. ASSUME Offer PROVE C64Bits' /\ PairBits' /\ EOIInv'
  <2>1. C64Bits'
    BY <1>0, <1>4, C64AtCheck DEF Offer, C64At, C64To, Unless, C64Bits, c64Bits, c
  <2>2. PairBits'
    BY <1>0, <1>4, C64AtCheck DEF Offer, C64At, C64To, Unless, PairBits, DriveBits
  <2>3. EOIInv'
    BY <1>0, <1>4, C64AtCheck DEF Offer, C64At, C64To, Start, Unless, EOIInv, c64Bits, c64Talk, c
  <2> QED
    BY <2>1, <2>2, <2>3
<1>5. ASSUME Accepted PROVE C64Bits' /\ PairBits' /\ EOIInv'
  <2>1. C64Bits'
    <3>1. cpc' \in {"eoiLow", "clock"} /\ cbits' = <<>>
      BY <1>5 DEF Accepted, C64To, Start
    <3>2. IsHead(cbits, c.byte)'
      BY <3>1, NoBits DEF IsHead
    <3> QED
      BY ONLY <3>1, <3>2 DEF C64Bits
  <2>2. PairBits'
    BY <1>0, <1>5, C64AtRfd DEF Accepted, C64At, C64To, Start, PairBits, DriveBits
  <2>3. EOIInv'
    BY <1>0, <1>5, C64AtRfd DEF Accepted, C64At, C64To, Start, Unless, EOIInv, c64Bits, c64Talk, c
  <2> QED
    BY <2>1, <2>2, <2>3
<1>6. ASSUME EOITaken PROVE C64Bits' /\ PairBits' /\ EOIInv'
  <2>1. C64Bits'
    BY <1>0, <1>6, C64AtEoiLow DEF EOITaken, C64At, C64To, C64Bits, c64Bits, c64Talk, c
  <2>2. PairBits'
    BY <1>0, <1>6, C64AtEoiLow DEF EOITaken, C64At, C64To, PairBits, DriveBits, C64Bits
  <2>3. EOIInv'
    BY <1>0, <1>6, C64AtEoiLow DEF EOITaken, C64At, C64To, EOIInv, c64Bits, c64Talk, c
  <2> QED
    BY <2>1, <2>2, <2>3
<1>7. ASSUME AfterEOI PROVE C64Bits' /\ PairBits' /\ EOIInv'
  <2>1. C64Bits'
    <3>1. cpc' = "clock" /\ cbits' = <<>>
      BY <1>0, <1>7 DEF AfterEOI, C64At, C64To, Start, C64Bits, c64Bits
    <3>2. IsHead(cbits, c.byte)'
      BY <3>1, NoBits DEF IsHead
    <3> QED
      BY ONLY <3>1, <3>2 DEF C64Bits
  <2>2. PairBits'
    BY <1>0, <1>7, C64AtEoiHigh DEF AfterEOI, C64At, C64To, Start, PairBits, DriveBits
  <2>3. EOIInv'
    BY <1>0, <1>7, C64AtEoiHigh DEF AfterEOI, C64At, C64To, Start, EOIInv, c64Talk, c
  <2> QED
    BY <2>1, <2>2, <2>3
<1>8. ASSUME C64ClockLow PROVE C64Bits' /\ PairBits' /\ EOIInv'
  <2>1. C64Bits'
    <3>1. /\ cpc = "clock" /\ cpc' = (IF Len(cbits) = Bits THEN "ack" ELSE "bit")
          /\ cbits' = cbits /\ c' = c
          /\ IsHead(cbits, c.byte)
      BY <1>0, <1>8 DEF C64ClockLow, C64At, C64To, c64Bits, c64Talk, c, C64Bits
    <3>2. Len(cbits) <= Bits /\ Len(cbits) \in Nat
      BY <1>0, <3>1, LenProperties DEF IsHead
    <3>3. cpc' = "bit" => Len(cbits') < Bits
      BY ONLY <3>1, <3>2, TimeAssumption
    <3>4. IsHead(cbits, c.byte)'
      BY ONLY <3>1 DEF IsHead
    <3>5. pc \in {"low", "first"} => cbits = <<>>
      BY <1>0, <3>1 DEF C64Bits
    <3> QED
      BY ONLY <1>0, <3>1, <3>3, <3>4, <3>5 DEF C64Bits
  <2>2. PairBits'
    BY <1>0, <1>8, C64AtClock DEF C64ClockLow, C64At, C64To, PairBits, c64Bits
  <2>3. EOIInv'
    BY <1>0, <1>8, C64AtClock DEF C64ClockLow, C64At, C64To, EOIInv, c64Bits, c64Talk, c
  <2> QED
    BY <2>1, <2>2, <2>3
<1>9. ASSUME C64Bit PROVE C64Bits' /\ PairBits' /\ EOIInv'
  <2>1. C64Bits'
    <3>1. /\ pc = "bitHigh" /\ cpc = "bit" /\ cpc' = "clock" /\ c' = c
          /\ cbits' = Append(cbits, c.byte[Len(cbits) + 1])
          /\ IsHead(cbits, c.byte) /\ Len(cbits) < Bits
      BY <1>0, <1>9, C64AtBit DEF C64Bit, C64At, C64To, c64Talk, c, C64Bits
    <3>2. IsHead(cbits', c.byte)
      BY <1>0, <1>9, <3>1, C64BitFacts, HeadAppend
    <3>3. IsHead(cbits, c.byte)' /\ pc' = "bitHigh"
      BY <1>0, <3>1, <3>2 DEF IsHead
    <3> QED
      BY ONLY <3>1, <3>3 DEF C64Bits
  <2>2. PairBits'
    BY <1>0, <1>9, C64AtBit DEF C64Bit, C64At, C64To, PairBits, DriveBits, C64Bits
  <2>3. EOIInv'
    BY <1>0, <1>9, C64AtBit DEF C64Bit, C64At, C64To, Start, Unless, EOIInv, c64Bits, c64Talk, c
  <2> QED
    BY <2>1, <2>2, <2>3
<1>10. ASSUME C64Acked PROVE C64Bits' /\ PairBits' /\ EOIInv'
  <2>1. C64Bits'
    BY <1>0, <1>10, C64AtAck DEF C64Acked, C64At, C64To, Unless, C64Bits, c64Bits, c
  <2>2. PairBits'
    BY <1>0, <1>10, C64AtAck DEF C64Acked, C64At, C64To, Unless, PairBits, DriveBits
  <2>3. EOIInv'
    BY <1>0, <1>10, C64AtAck
       DEF C64Acked, C64At, C64To, Start, Unless, EOIInv, c64Bits, c64Talk, c
  <2> QED
    BY <2>1, <2>2, <2>3
<1>11. ASSUME Release PROVE C64Bits' /\ PairBits' /\ EOIInv'
  <2>1. C64Bits'
    BY <1>0, <1>11, C64AtNext DEF Release, C64At, C64To, C64Bits, c64Bits, c, IsHead
  <2>2. PairBits'
    BY <1>0, <1>11, C64AtNext DEF Release, C64At, C64To, PairBits, DriveBits, C64Bits
  <2>3. EOIInv'
    BY <1>0, <1>11, C64AtNext
       DEF Release, C64At, C64To, Start, Unless, EOIInv, c64Bits, c64Talk, c
  <2> QED
    BY <2>1, <2>2, <2>3
<1>12. ASSUME End PROVE C64Bits' /\ PairBits' /\ EOIInv'
  <2>1. C64Bits'
    BY <1>0, <1>12, C64AtNext DEF End, C64At, C64To, C64Bits, c64Bits, c64Talk, c
  <2>2. PairBits'
    BY <1>0, <1>12, C64AtNext DEF End, C64At, C64To, PairBits, DriveBits, C64Bits
  <2>3. EOIInv'
    BY <1>0, <1>12, C64AtNext DEF End, C64At, C64To, Start, Unless, EOIInv, c64Bits, c64Talk, c
  <2> QED
    BY <2>1, <2>2, <2>3
<1>13. ASSUME Listen PROVE C64Bits' /\ PairBits' /\ EOIInv'
  <2>1. C64Bits'
    BY <1>0, <1>13, C64AtNext DEF Listen, C64At, C64To, C64Bits, c64Talk, c, IsHead
  <2>2. PairBits'
    BY <1>0, <1>13, C64AtNext DEF Listen, C64At, C64To, PairBits, DriveBits, C64Bits
  <2>3. EOIInv'
    BY <1>0, <1>13, C64AtNext DEF Listen, C64At, C64To, Start, Unless, EOIInv, c64Bits, c64Talk, c
  <2> QED
    BY <2>1, <2>2, <2>3
<1>14. ASSUME TalkerThere PROVE C64Bits' /\ PairBits' /\ EOIInv'
  <2>1. C64Bits'
    BY <1>0, <1>14, C64AtClockLow DEF TalkerThere, C64At, C64To, C64Bits, c64Bits
  <2>2. PairBits'
    BY <1>0, <1>14, C64AtClockLow DEF TalkerThere, C64At, C64To, PairBits, DriveBits
  <2>3. EOIInv'
    BY <1>0, <1>14, C64AtClockLow DEF TalkerThere, C64At, C64To, EOIInv, c64Bits
  <2> QED
    BY <2>1, <2>2, <2>3
<1>15. ASSUME Hear PROVE C64Bits' /\ PairBits' /\ EOIInv'
  <2>1. C64Bits'
    BY <1>0, <1>15, C64AtListen DEF Hear, C64At, C64To, C64Bits, c64Bits, c64Talk, c
  <2>2. PairBits'
    BY <1>0, <1>15, C64AtListen DEF Hear, C64At, C64To, PairBits, DriveBits, C64Bits
  <2>3. EOIInv'
    BY <1>0, <1>15, C64AtListen DEF Hear, C64At, C64To, Start, Unless, EOIInv, c64Bits, c64Talk, c
  <2> QED
    BY <2>1, <2>2, <2>3
<1>16. ASSUME Await PROVE C64Bits' /\ PairBits' /\ EOIInv'
  <2>1. C64Bits'
    BY <1>0, <1>16, C64AtListening DEF Await, C64At, C64To, C64Bits, c64Talk, c, IsHead
  <2>2. PairBits'
    BY <1>0, <1>16, C64AtListening DEF Await, C64At, C64To, PairBits, DriveBits, C64Bits
  <2>3. EOIInv'
    BY <1>0, <1>16, C64AtListening DEF Await, C64At, C64To, EOIInv, c64Talk, c
  <2> QED
    BY <2>1, <2>2, <2>3
<1>17. ASSUME GotEOI PROVE C64Bits' /\ PairBits' /\ EOIInv'
  <2>1. C64Bits'
    BY <1>0, <1>17, C64AtAwait DEF GotEOI, C64At, C64To, Unless, C64Bits, c, IsHead
  <2>2. PairBits'
    BY <1>0, <1>17, C64AtAwait DEF GotEOI, C64At, C64To, Unless, PairBits, DriveBits
  <2>3. EOIInv'
    BY <1>0, <1>17, C64AtAwait
       DEF GotEOI, C64At, C64To, Start, Unless, EOIInv, c64Bits, c64Talk, c
  <2> QED
    BY <2>1, <2>2, <2>3
<1>18. ASSUME GotStart PROVE C64Bits' /\ PairBits' /\ EOIInv'
  <2>1. C64Bits'
    <3>1. pc = "clock" /\ cpc' = "rHigh" /\ cbits' = <<>>
      BY <1>0, <1>18, C64AtAwait DEF GotStart, C64At, C64To, C64Bits, c64Bits
    <3>2. IsHead(cbits, Head(reply))' /\ Len(cbits') < Bits /\ pc' = "clock"
      BY <1>0, <3>1, NoBits DEF IsHead
    <3> QED
      BY ONLY <3>1, <3>2 DEF C64Bits
  <2>2. PairBits'
    BY <1>0, <1>18, C64AtAwait DEF GotStart, C64At, C64To, PairBits, C64Bits, c64Bits
  <2>3. EOIInv'
    BY <1>0, <1>18, C64AtAwait DEF GotStart, C64At, C64To, EOIInv, c64Bits, c64Talk, c
  <2> QED
    BY <2>1, <2>2, <2>3
<1>19. ASSUME GetBit PROVE C64Bits' /\ PairBits' /\ EOIInv'
  <2>1. C64Bits'
    <3>1. cpc' = "rLow" /\ cbits' = Append(cbits, Head(reply)[Len(cbits) + 1]) /\ C64At("rHigh")
      BY <1>19, HeardBit DEF GetBit, C64To
    <3>2. IsHead(cbits', Head(reply)) /\ pc \in {"put", "end"}
      BY <1>0, <3>1, HeardBit, HeadAppend
    <3>3. IsHead(cbits, Head(reply))' /\ pc' \in {"put", "end"}
      BY <1>0, <3>2 DEF IsHead
    <3> QED
      BY ONLY <3>1, <3>3 DEF C64Bits
  <2>2. PairBits'
    BY <1>0, <1>19, C64AtHigh DEF GetBit, C64At, C64To, PairBits, DriveBits, C64Bits
  <2>3. EOIInv'
    BY <1>0, <1>19, C64AtHigh DEF GetBit, C64At, C64To, Start, Unless, EOIInv, c64Bits, c64Talk, c
  <2> QED
    BY <2>1, <2>2, <2>3
<1>20. ASSUME NextBit PROVE C64Bits' /\ PairBits' /\ EOIInv'
  <2>1. C64Bits'
    BY <1>0, <1>20, C64AtLow DEF NextBit, C64At, C64To, C64Bits, c64Bits, c64Talk, c
  <2>2. PairBits'
    BY <1>0, <1>20, C64AtLow DEF NextBit, C64At, C64To, PairBits, DriveBits, c64Bits
  <2>3. EOIInv'
    BY <1>0, <1>20, C64AtLow DEF NextBit, C64At, C64To, Start, Unless, EOIInv, c64Bits, c64Talk, c
  <2> QED
    BY <2>1, <2>2, <2>3
<1>21. ASSUME GotByte PROVE C64Bits' /\ PairBits' /\ EOIInv'
  <2>1. C64Bits'
    BY <1>0, <1>21, C64AtLow DEF GotByte, C64At, C64To, C64Bits, c64Bits, c, IsHead
  <2>2. PairBits'
    BY <1>0, <1>21, C64AtLow DEF GotByte, C64At, C64To, PairBits, DriveBits, C64Bits
  <2>3. EOIInv'
    BY <1>0, <1>21, C64AtLow DEF GotByte, C64At, C64To, Start, Unless, EOIInv, c64Bits, c64Talk, c
  <2> QED
    BY <2>1, <2>2, <2>3
<1> QED
  BY <1>1, <1>2, <1>3, <1>4, <1>5, <1>6, <1>7, <1>8, <1>9, <1>10, <1>11, <1>12, <1>13, <1>14,
     <1>15, <1>16, <1>17, <1>18, <1>19, <1>20, <1>21 DEF C64

----------------------------------------------------------------------------
(* The bytes of the C64. *)

LEMMA ReadByte == ASSUME Inv, pc = "sink" PROVE [byte |-> accum, eoi |-> hasEOI] \in Items
<1>1. accum \in Seq({0, 1}) /\ Len(accum) = Bits /\ hasEOI \in BOOLEAN
  BY DEF Inv, TypeInv, BitInv, DriveBits
<1>2. accum \in [1..Bits -> {0, 1}]
  BY <1>1, LenProperties
<1> QED
  BY <1>1, <1>2 DEF Items

Sending == Sends \ {"check", "rfd"}
LEMMA DownStep ==
    ASSUME Inv, Next
    PROVE  /\ DownInv'
           /\ \/ UNCHANGED <<said, heard>>
              \/ /\ said = heard /\ heard' = heard
                 /\ \E item \in Items : said' = Append(said, item)
              \/ /\ said' = said
                 /\ \E item \in Items : said = Append(heard, item) /\ heard' = Append(heard, item)
<1>0. DownInv
  BY DEF Inv
<1>1. CASE Advance
  <2>1. UNCHANGED <<pc, cpc, said, heard, accum, hasEOI>> /\ c' = c
    BY <1>1 DEF Advance, reader, c64Talk, c
  <2> QED
    BY ONLY <1>0, <2>1 DEF DownInv
<1>2. CASE SinkMore \/ SinkDone \/ SinkTalks
  <2>1. /\ At("sink") /\ heard' = Append(heard, [byte |-> accum, eoi |-> hasEOI]) /\ pc' # "sink"
        /\ UNCHANGED <<said, cpc>>
    BY <1>2 DEF SinkMore, SinkDone, SinkTalks, Heard, To, c64Vars, c64Talk
  <2>2. pc = "sink" /\ cpc \notin Sending
    BY <2>1, AtSink DEF At, Sending, Sends
  <2>3. said = Append(heard, [byte |-> accum, eoi |-> hasEOI])
    BY <1>0, <2>2 DEF DownInv, Sending
  <2>4. said' = heard'
    BY <2>1, <2>3
  <2>5. DownInv'
    BY <2>1, <2>2, <2>4 DEF DownInv, Sending
  <2> QED
    BY <2>1, <2>2, <2>3, <2>5, ReadByte
<1>3. CASE Accept
  <2>1. cpc = "ack" /\ pc = "accept" /\ UNCHANGED <<said, heard, cpc>> /\ c' = c
    BY <1>3, AtAccept DEF Accept, At, c64Vars, c64Talk, c
  <2> QED
    BY ONLY <1>0, <2>1 DEF DownInv, Sends
<1>4. CASE read /\ ~SinkMore /\ ~SinkDone /\ ~SinkTalks /\ ~Accept
  <2>1. pc # "sink" /\ pc' # "sink" /\ UNCHANGED <<said, heard, cpc>> /\ c' = c
    BY <1>4 DEF read, Attention, Commanded, Present, ReadyForData, NoEOI, AnswerEOI,
           EOIAnswered, FirstBit, ClockLow, Sample, Taken, At, To, c64Vars, c64Talk, c
  <2> QED
    BY ONLY <1>0, <2>1 DEF DownInv
<1>5. CASE doTurnAround \/ writeByte
  <2>1. pc # "sink" /\ pc' # "sink" /\ UNCHANGED <<said, heard, cpc>> /\ c' = c
    BY <1>5 DEF doTurnAround, TakeClock, HoldData, GiveClock, Claimed, Back, writeByte,
           ReadyToSend, ListenerReady, EOISeen, EOIOver, PutBit, ClockBit, EndOfByte, Acked, At,
           To, AfterTurn, c64Vars, c64Talk, c
  <2> QED
    BY ONLY <1>0, <2>1 DEF DownInv
<1>6. CASE Accepted
  <2>1. /\ cpc = "rfd" /\ pc = "low" /\ said' = Append(said, [byte |-> c.byte, eoi |-> c.eoi])
        /\ cpc' \in {"eoiLow", "clock"} /\ UNCHANGED heard /\ c' = c
    BY <1>6, C64AtRfd DEF Accepted, C64At, C64To, Start, driveVars, c
  <2>2. said = heard
    BY <1>0, <2>1 DEF DownInv
  <2>3. [byte |-> c.byte, eoi |-> c.eoi] \in Items
    BY <2>1, CurrentByte DEF Items, Byte, Sends
  <2>4. DownInv'
    BY <2>1, <2>2 DEF DownInv, Sends
  <2> QED
    BY <2>1, <2>2, <2>3, <2>4
<1>7. CASE C64Acked
  <2>1. cpc = "ack" /\ pc = "sink" /\ cpc' = "next" /\ UNCHANGED <<said, heard, pc, accum, hasEOI>>
    BY <1>7, C64AtAck, Levels DEF C64Acked, C64At, C64To, Unless, driveVars, reader
  <2>2. said = Append(heard, [byte |-> accum, eoi |-> hasEOI])
    BY <1>0, <2>1, ByteHeard DEF DownInv, Sends
  <2>3. DownInv'
    BY <2>1, <2>2 DEF DownInv, Sends
  <2> QED
    BY <2>1, <2>3
<1>8. CASE EOITaken \/ AfterEOI \/ C64ClockLow \/ C64Bit
  <2>1. cpc \in Sending /\ cpc' \in Sending /\ UNCHANGED <<said, heard>> /\ c' = c
    BY <1>8 DEF EOITaken, AfterEOI, C64ClockLow, C64Bit, C64At, C64To, Start, Sending, Sends,
           driveVars, c64Talk, c
  <2> QED
    BY ONLY <1>0, <2>1 DEF DownInv, Sending
<1>9. CASE C64 /\ ~Accepted /\ ~C64Acked /\ ~(EOITaken \/ AfterEOI \/ C64ClockLow \/ C64Bit)
  <2>1. cpc \notin Sending
    BY <1>9 DEF C64, Begin, Command, DataByte, Offer, Release, End, Listen, TalkerThere, Hear,
           Await, GotEOI, GotStart, GetBit, NextBit, GotByte, C64At, Sending, Sends
  <2>2. cpc' \notin Sending /\ UNCHANGED said
    BY <1>9, C64AtCheck, Levels DEF C64, Begin, Command, DataByte, Offer, Release, End, Listen,
           TalkerThere, Hear, Await, GotEOI, GotStart, GetBit, NextBit, GotByte, C64To, Unless,
           c64Talk, Sending, Sends
  <2>3. UNCHANGED <<heard, pc, accum, hasEOI>>
    BY <1>9, C64Steps
  <2> QED
    BY ONLY <1>0, <2>1, <2>2, <2>3 DEF DownInv, Sending
<1> QED
  BY <1>1, <1>2, <1>3, <1>4, <1>5, <1>6, <1>7, <1>8, <1>9 DEF Next

----------------------------------------------------------------------------
(* The bytes of the drive. *)

LEMMA SpokenByte ==
    ASSUME Inv, reply # <<>> PROVE [byte |-> Head(reply), eoi |-> isLast] \in Items
  BY CurrentReply DEF Items, Byte, isLast

LEMMA ByteReceived ==
    ASSUME Inv, GotByte
    PROVE  pc = "acked" /\ cpc = "rLow" /\ cbits = Head(reply) /\ ceoi = isLast
<1>1. C64At("rLow") /\ Len(cbits) = Bits
  BY DEF GotByte
<1>2. cpc = "rLow" /\ pc = "acked"
  <2>1. Len(cbits) \in Nat
    BY LenProperties DEF Inv, TypeInv
  <2> QED
    BY <1>1, <2>1, C64AtLow, ClockOpen, TimeAssumption DEF C64At
<1>3. /\ cbits \in Seq({0, 1}) /\ IsHead(cbits, Head(reply)) /\ ceoi = isLast /\ reply # <<>>
  BY <1>2 DEF Inv, TypeInv, BitInv, C64Bits, EOIInv, LineInv, RoleInv, Writes
<1> QED
  BY <1>1, <1>2, <1>3, CurrentReply, WholeByte

Speaking == {"eoiLow", "eoiHigh", "put", "clock", "end"}
LEMMA UpStep ==
    ASSUME Inv, Next
    PROVE  /\ UpInv'
           /\ \/ UNCHANGED <<spoken, received>>
              \/ /\ spoken = received /\ received' = received
                 /\ \E item \in Items : spoken' = Append(spoken, item)
              \/ /\ spoken' = spoken
                 /\ \E item \in Items : spoken = Append(received, item) /\ received' = Append(received, item)
<1>0. UpInv
  BY DEF Inv
<1>1. CASE Advance
  <2>1. UNCHANGED <<pc, cpc, spoken, received, reply>> /\ isLast' = isLast
    BY <1>1 DEF Advance, talker, c64Talk, isLast
  <2> QED
    BY ONLY <1>0, <2>1 DEF UpInv
<1>2. CASE read
  <2>1. /\ pc \notin Speaking \cup {"acked"}
        /\ pc' \notin Speaking \cup {"acked"} /\ UNCHANGED <<spoken, received>>
    BY <1>2 DEF read, Attention, Commanded, Present, ReadyForData, NoEOI, AnswerEOI,
           EOIAnswered, FirstBit, ClockLow, Sample, Taken, Accept, SinkMore, SinkDone,
           SinkTalks, Heard, At, To, c64Vars, c64Talk, talker, Speaking
  <2> QED
    BY ONLY <1>0, <2>1 DEF UpInv, Speaking
<1>3. CASE doTurnAround \/ ReadyToSend
  <2>1. /\ pc \notin Speaking \cup {"acked"}
        /\ pc' \notin Speaking \cup {"acked"} /\ UNCHANGED <<spoken, received>>
    BY <1>3 DEF doTurnAround, TakeClock, HoldData, GiveClock, Claimed, Back, ReadyToSend, At,
           To, AfterTurn, c64Vars, c64Talk, talker, Speaking
  <2> QED
    BY ONLY <1>0, <2>1 DEF UpInv, Speaking
<1>4. CASE ListenerReady
  <2>1. /\ pc = "announce" /\ pc' \in {"eoiLow", "put"} /\ UNCHANGED <<received, reply>>
        /\ spoken' = Append(spoken, [byte |-> Head(reply), eoi |-> isLast])
    BY <1>4 DEF ListenerReady, At, To, c64Vars, c64Talk
  <2>2. spoken = received /\ reply # <<>> /\ isLast' = isLast
    BY <1>0, <2>1 DEF UpInv, Inv, LineInv, RoleInv, Writes, isLast
  <2>3. UpInv'
    BY <2>1, <2>2 DEF UpInv
  <2> QED
    BY <2>1, <2>2, <2>3, SpokenByte
<1>5. CASE EOISeen \/ EOIOver \/ PutBit \/ ClockBit
  <2>1. /\ pc \in Speaking /\ pc' \in Speaking
        /\ UNCHANGED <<spoken, received, reply>> /\ isLast' = isLast
    BY <1>5 DEF EOISeen, EOIOver, PutBit, ClockBit, At, To, c64Vars, c64Talk, talker, Speaking,
           isLast
  <2> QED
    BY ONLY <1>0, <2>1 DEF UpInv, Speaking
<1>6. CASE EndOfByte
  <2>1. /\ pc = "end" /\ pc' = "acked" /\ cpc' = "rLow"
        /\ UNCHANGED <<spoken, received, reply>> /\ isLast' = isLast
    BY <1>6, AtEnd DEF EndOfByte, At, To, c64Vars, c64Talk, talker, isLast
  <2> QED
    BY ONLY <1>0, <2>1 DEF UpInv
<1>7. CASE Acked
  <2>1. /\ pc = "acked" /\ cpc # "rLow" /\ pc' \in {"turn", "room"}
        /\ UNCHANGED <<spoken, received>>
    BY <1>7, AtAcked DEF Acked, At, To, c64Vars, c64Talk
  <2> QED
    BY ONLY <1>0, <2>1 DEF UpInv
<1>8. CASE GotByte
  <2>1. /\ pc = "acked" /\ cpc = "rLow" /\ cpc' # "rLow" /\ UNCHANGED <<pc, spoken>>
        /\ received' = Append(received, [byte |-> Head(reply), eoi |-> isLast])
    BY <1>8, ByteReceived DEF GotByte, C64To, driveVars, talker
  <2>2. spoken = Append(received, [byte |-> Head(reply), eoi |-> isLast]) /\ reply # <<>>
    BY <1>0, <2>1 DEF UpInv, Inv, LineInv, RoleInv, Writes
  <2>3. spoken' = received'
    BY <2>1, <2>2
  <2>4. UpInv'
    BY <2>1, <2>3 DEF UpInv
  <2> QED
    BY <2>1, <2>2, <2>4, SpokenByte
<1>9. CASE C64 /\ ~GotByte
  <2>1. UNCHANGED <<pc, reply, spoken>> /\ isLast' = isLast
    BY <1>9, C64Steps
  <2>2. UNCHANGED received
    BY <1>9 DEF C64, Begin, Command, DataByte, Offer, Accepted, EOITaken, AfterEOI, C64ClockLow,
           C64Bit, C64Acked, Release, End, Listen, TalkerThere, Hear, Await, GotEOI, GotStart,
           GetBit, NextBit, Unless, c64Talk
  <2>3. pc = "acked" => cpc # "rLow" /\ cpc' # "rLow"
    <3>1. CASE GetBit
      BY <3>1, C64AtHigh DEF GetBit
    <3>2. CASE NextBit
      <4>1. C64At("rLow") /\ Len(cbits) < Bits /\ Len(cbits) \in Nat
        BY <3>2, LenProperties DEF NextBit, Inv, TypeInv
      <4> QED
        BY <4>1, AckedFull, TimeAssumption
    <3>3. CASE ~GetBit /\ ~NextBit
      BY <1>9, <3>3 DEF C64, Begin, Command, DataByte, Offer, Accepted, EOITaken, AfterEOI,
             C64ClockLow, C64Bit, C64Acked, Release, End, Listen, TalkerThere, Hear, Await,
             GotEOI, GotStart, C64At, C64To, Start
    <3> QED
      BY <3>1, <3>2, <3>3
  <2> QED
    BY ONLY <1>0, <2>1, <2>2, <2>3 DEF UpInv
<1> QED
  BY <1>1, <1>2, <1>3, <1>4, <1>5, <1>6, <1>7, <1>8, <1>9 DEF Next, writeByte

----------------------------------------------------------------------------
(* The invariant. *)

LEMMA HistoryKept == ASSUME Inv, Next PROVE HistoryTypes'
<1>1. HistoryTypes
  BY DEF Inv
<1>2. \A s \in Seq(Items), item \in Items : Append(s, item) \in Seq(Items)
  BY AppendProperties
<1>3. said' \in Seq(Items) /\ heard' \in Seq(Items)
  <2>1. said \in Seq(Items) /\ heard \in Seq(Items)
    BY <1>1 DEF HistoryTypes
  <2>2. CASE UNCHANGED <<said, heard>>
    BY <2>1, <2>2
  <2>3. CASE heard' = heard /\ \E item \in Items : said' = Append(said, item)
    BY ONLY <1>2, <2>1, <2>3
  <2>4. CASE said' = said /\ \E item \in Items : heard' = Append(heard, item)
    BY ONLY <1>2, <2>1, <2>4
  <2> QED
    BY <2>2, <2>3, <2>4, DownStep
<1>4. spoken' \in Seq(Items) /\ received' \in Seq(Items)
  <2>1. spoken \in Seq(Items) /\ received \in Seq(Items)
    BY <1>1 DEF HistoryTypes
  <2>2. CASE UNCHANGED <<spoken, received>>
    BY <2>1, <2>2
  <2>3. CASE received' = received /\ \E item \in Items : spoken' = Append(spoken, item)
    BY ONLY <1>2, <2>1, <2>3
  <2>4. CASE spoken' = spoken /\ \E item \in Items : received' = Append(received, item)
    BY ONLY <1>2, <2>1, <2>4
  <2> QED
    BY <2>2, <2>3, <2>4, UpStep
<1> QED
  BY <1>3, <1>4 DEF HistoryTypes

LEMMA AdvanceBits == ASSUME Inv, Advance PROVE BitInv'
<1>1. /\ BitInv /\ UNCHANGED <<pc, cpc, cbits, accum, hasEOI, ceoi, reply>>
      /\ c' = c /\ isLast' = isLast
  BY DEF Inv, Advance, reader, talker, c64Bits, c64Talk, c, isLast
<1>2. C64Bits'
  BY <1>1 DEF BitInv, C64Bits, IsHead
<1>3. DriveBits'
  BY <1>1 DEF BitInv, DriveBits, IsHead
<1>4. PairBits'
  BY <1>1 DEF BitInv, PairBits
<1>5. EOIInv'
  BY <1>1 DEF BitInv, EOIInv
<1> QED
  BY <1>2, <1>3, <1>4, <1>5 DEF BitInv

LEMMA NextInv == Inv /\ Next => Inv'
<1> SUFFICES ASSUME Inv, Next PROVE Inv'
  OBVIOUS
<1>1. HistoryTypes' /\ DownInv' /\ UpInv'
  BY HistoryKept, DownStep, UpStep
<1>2. CASE Advance
  <2>1. UNCHANGED <<pc, lines, reader, talker>>
    BY <1>2 DEF Advance
  <2>2. TypeInv' /\ LineInv' /\ ScriptInv' /\ MeetInv' /\ BitInv'
    BY <1>2, <2>1, AdvanceTypes, LinesKept, ScriptKept, AdvanceMeets, AdvanceBits DEF LineInv
  <2> QED
    BY <1>1, <2>2 DEF Inv
<1>3. CASE read
  <2>1. TypeInv' /\ LineInv' /\ ScriptInv' /\ MeetInv' /\ BitInv'
    BY <1>3, DriveTypes, ReadLinesKept, ScriptKept, ReadMeets, C64BitsKept, ReadBits
       DEF LineInv, BitInv
  <2> QED
    BY <1>1, <2>1 DEF Inv
<1>4. CASE doTurnAround
  <2>1. TypeInv' /\ LineInv' /\ ScriptInv' /\ MeetInv' /\ BitInv'
    BY <1>4, DriveTypes, TurnLinesKept, ScriptKept, TurnAroundMeets, C64BitsKept, TurnBits
       DEF LineInv, BitInv
  <2> QED
    BY <1>1, <2>1 DEF Inv
<1>5. CASE writeByte
  <2>1. TypeInv' /\ LineInv' /\ ScriptInv' /\ MeetInv' /\ BitInv'
    BY <1>5, DriveTypes, WriteLinesKept, ScriptKept, WriteMeets, C64BitsKept, WriteBits
       DEF LineInv, BitInv
  <2> QED
    BY <1>1, <2>1 DEF Inv
<1>6. CASE C64
  <2>1. UNCHANGED <<pc, lines, reader, talker>>
    BY <1>6, C64Steps DEF driveVars
  <2>2. TypeInv' /\ LineInv' /\ ScriptInv' /\ MeetInv' /\ BitInv'
    BY <1>6, <2>1, C64Types, LinesKept, C64Script, C64Meets, DriveBitsKept, C64BitsMeet
       DEF LineInv, BitInv
  <2> QED
    BY <1>1, <2>2 DEF Inv
<1> QED
  BY <1>2, <1>3, <1>4, <1>5, <1>6 DEF Next

LEMMA StandInv == Inv /\ UNCHANGED vars => Inv'
<1> SUFFICES ASSUME Inv, UNCHANGED vars PROVE Inv'
  OBVIOUS
<1>1. UNCHANGED <<pc, dt, ddr, port, hasEOI, accum, isListener, reply, cpc, ct, held, script,
                  sessions, cbits, ceoi, failed, said, heard, spoken, received>>
  BY DEF vars, driveVars, c64Vars, lines, reader, talker, c64Bits, c64Talk
<1>2. TypeInv' /\ HistoryTypes'
  BY <1>1 DEF Inv, TypeInv, HistoryTypes
<1>3. c' = c /\ isLast' = isLast /\ Following' = Following /\ StillToDo' = StillToDo
  BY <1>1 DEF c, isLast, Following, StillToDo
<1>4. LineInv' /\ ScriptInv'
  <2>1. ReadLines' /\ WriteLines' /\ RoleInv'
    BY <1>1, LinesKept DEF lines, reader, talker
  <2>2. C64Lines'
    BY <1>1, <1>3 DEF Inv, LineInv, C64Lines, Ctl
  <2>3. ScriptInv'
    BY <1>1, <1>3 DEF Inv, ScriptInv
  <2> QED
    BY <2>1, <2>2, <2>3 DEF LineInv
<1>5. MeetInv'
  BY <1>1, <1>3 DEF Inv, MeetInv, AtnPairs, ClkPairs, PresentPairs, ReadyPairs, LowPairs,
         EoiPairs, FirstPairs, BitLowPairs, BitHighPairs, TakenPairs, AcceptPairs, SinkPairs,
         AskPairs, RoomPairs, AnnouncePairs, EoiLowPairs, EoiHighPairs, PutPairs, ClockPairs,
         EndPairs, AckedPairs, UntilCheck, ToCommand, BackTurnPairs, GiveClockPairs,
         ClaimedPairs, BackPairs, WaitInv
<1>6. BitInv'
  BY <1>1, <1>3 DEF Inv, BitInv, C64Bits, DriveBits, PairBits, EOIInv, IsHead
<1>7. DownInv' /\ UpInv'
  BY <1>1, <1>3 DEF Inv, DownInv, UpInv
<1> QED
  BY <1>2, <1>4, <1>5, <1>6, <1>7 DEF Inv

LEMMA InitInv == Init => Inv
<1> SUFFICES ASSUME Init PROVE Inv
  OBVIOUS
<1>1. /\ pc = "atn" /\ dt = 0 /\ ddr = {} /\ port = {} /\ hasEOI = FALSE /\ accum = <<>>
      /\ isListener = TRUE /\ reply = <<>> /\ cpc = "idle" /\ ct = 0 /\ held = {} /\ script = <<>>
      /\ sessions = 0 /\ cbits = <<>> /\ ceoi = FALSE /\ failed = ""
      /\ said = <<>> /\ heard = <<>> /\ spoken = <<>> /\ received = <<>>
  BY DEF Init
<1>2. TypeInv
  <2>1. <<>> \in Seq({0, 1}) /\ 0 \in 0..MaxSessions
    BY EmptySeq, TimeAssumption
  <2> QED
    BY ONLY <1>1, <2>1 DEF TypeInv
<1>3. HistoryTypes
  BY <1>1, EmptySeq DEF HistoryTypes
<1>4. LineInv
  <2>1. ReadLines
    BY <1>1 DEF ReadLines
  <2>2. WriteLines
    BY <1>1 DEF WriteLines
  <2>3. RoleInv
    BY <1>1, EmptySeq DEF RoleInv, Listens, Writes, Returns
  <2>4. C64Lines
    BY <1>1 DEF C64Lines
  <2> QED
    BY <2>1, <2>2, <2>3, <2>4 DEF LineInv
<1>5. ScriptInv
  <2>1. WellFormed(script)
    <3>1. <<>> \in Seq(Step) /\ Len(<<>>) = 0
      BY EmptySeq
    <3>2. WellFormed(<<>>)
      BY ONLY <3>1 DEF WellFormed
    <3> QED
      BY <1>1, <3>2
  <2> QED
    BY <1>1, <2>1 DEF ScriptInv, Sends, Hears
<1>6. MeetInv
  BY <1>1 DEF MeetInv, AtnPairs, WaitInv
<1>7. BitInv
  BY <1>1 DEF BitInv, C64Bits, DriveBits, PairBits, EOIInv
<1>8. DownInv /\ UpInv
  BY <1>1 DEF DownInv, UpInv, Sends
<1> QED
  BY <1>2, <1>3, <1>4, <1>5, <1>6, <1>7, <1>8 DEF Inv

\* In every reachable state the drive and the C64 are at places that belong together, each
\* holds the lines that the other expects, and their delays relate as the protocol of
\* IEC::read(), doTurnAround() and writeByte() needs.
THEOREM InvHolds == Spec => []Inv
<1>1. Inv /\ [Next]_vars => Inv'
  BY NextInv, StandInv
<1> QED
  BY InitInv, <1>1, PTL DEF Spec

----------------------------------------------------------------------------
(* The properties. *)

\* The C64 is never told "device not present", that a byte is not accepted, or that nobody
\* answers: the waits of IEC.cpp end within the time limits of the other side, for every
\* delay and every session that the assumptions allow.
THEOREM NoErrors == Spec => []NoFailure
<1>1. Inv => NoFailure
  BY DEF Inv, ScriptInv, NoFailure
<1> QED
  BY <1>1, InvHolds, PTL

\* Neither side takes more bits than a byte has.
BitBound == Len(accum) <= Bits /\ Len(cbits) <= Bits

LEMMA BitBoundKept == Inv /\ BitBound /\ [Next]_vars => BitBound'
<1> SUFFICES ASSUME Inv, BitBound, [Next]_vars PROVE BitBound'
  OBVIOUS
<1>1. /\ accum \in Seq({0, 1}) /\ cbits \in Seq({0, 1}) /\ Bits \in Nat \ {0}
      /\ Len(accum) \in Nat /\ Len(cbits) \in Nat
  BY LenProperties, TimeAssumption DEF Inv, TypeInv
<1>2. Len(accum') <= Bits
  <2>1. CASE UNCHANGED accum
    BY <2>1 DEF BitBound
  <2>2. CASE accum' = <<>>
    BY <1>1, <2>2
  <2>3. CASE Sample \/ PutBit
    <3>1. pc \in {"bitHigh", "put"}
      BY <2>3 DEF Sample, PutBit, At
    <3>2. Len(accum) < Bits
      BY <3>1 DEF Inv, BitInv, DriveBits
    <3>3. Len(accum') = Len(accum) + 1
      BY <1>1, <2>3, AppendProperties DEF Sample, PutBit
    <3> QED
      BY <1>1, <3>2, <3>3
  <2>4. CASE Next /\ ~Sample /\ ~PutBit
    <3>1. UNCHANGED accum \/ accum' = <<>>
      <4>1. CASE Advance
        BY <4>1 DEF Advance, reader
      <4>2. CASE read
        BY <2>4, <4>2 DEF read, Attention, Commanded, Present, ReadyForData, NoEOI, AnswerEOI,
               EOIAnswered, FirstBit, ClockLow, Taken, Accept, SinkMore, SinkDone, SinkTalks,
               reader
      <4>3. CASE doTurnAround
        BY <4>3 DEF doTurnAround, TakeClock, HoldData, GiveClock, Claimed, Back, reader
      <4>4. CASE writeByte
        BY <2>4, <4>4 DEF writeByte, ReadyToSend, ListenerReady, EOISeen, EOIOver, ClockBit,
               EndOfByte, Acked, reader
      <4>5. CASE C64
        BY <4>5, C64Steps
      <4> QED
        BY <2>4, <4>1, <4>2, <4>3, <4>4, <4>5 DEF Next
    <3> QED
      BY <2>1, <2>2, <3>1
  <2>5. CASE UNCHANGED vars
    BY <2>1, <2>5 DEF vars, driveVars, reader
  <2> QED
    BY <2>3, <2>4, <2>5
<1>3. Len(cbits') <= Bits
  <2>1. CASE UNCHANGED cbits
    BY <2>1 DEF BitBound
  <2>2. CASE cbits' = <<>>
    BY <1>1, <2>2
  <2>3. CASE C64Bit \/ GetBit
    <3>1. cpc \in {"bit", "rHigh"}
      BY <2>3 DEF C64Bit, GetBit, C64At
    <3>2. Len(cbits) < Bits
      BY <3>1 DEF Inv, BitInv, C64Bits
    <3>3. Len(cbits') = Len(cbits) + 1
      BY <1>1, <2>3, AppendProperties DEF C64Bit, GetBit
    <3> QED
      BY <1>1, <3>2, <3>3
  <2>4. CASE Next /\ ~C64Bit /\ ~GetBit
    <3>1. UNCHANGED cbits \/ cbits' = <<>>
      <4>1. CASE Advance
        BY <4>1 DEF Advance, c64Bits
      <4>2. CASE read \/ doTurnAround \/ writeByte
        BY <4>2, DriveSteps DEF c64Vars, c64Bits
      <4>3. CASE C64
        BY <2>4, <4>3 DEF C64, Begin, Command, DataByte, Offer, Accepted, EOITaken, AfterEOI,
               C64ClockLow, C64Acked, Release, End, Listen, TalkerThere, Hear, Await, GotEOI,
               GotStart, NextBit, GotByte, c64Bits
      <4> QED
        BY <2>4, <4>1, <4>2, <4>3 DEF Next
    <3> QED
      BY <2>1, <2>2, <3>1
  <2>5. CASE UNCHANGED vars
    BY <2>1, <2>5 DEF vars, c64Vars, c64Bits
  <2> QED
    BY <2>3, <2>4, <2>5
<1> QED
  BY <1>2, <1>3 DEF BitBound

LEMMA ShortBits ==
    ASSUME NEW bits \in Seq({0, 1}), Len(bits) <= Bits PROVE bits \in Bytes
<1>1. Len(bits) \in 0..Bits /\ bits \in [1..Len(bits) -> {0, 1}]
  BY LenProperties, TimeAssumption
<1> QED
  BY <1>1 DEF Bytes

LEMMA InvTypes == Inv /\ BitBound => TypeOK
<1> SUFFICES ASSUME Inv, BitBound PROVE TypeOK
  OBVIOUS
<1>1. /\ dt \in Nat /\ ct \in Nat /\ sessions \in 0..MaxSessions
      /\ hasEOI \in BOOLEAN /\ isListener \in BOOLEAN /\ ceoi \in BOOLEAN
  BY DEF Inv, TypeInv
<1>2. accum \in Bytes /\ cbits \in Bytes
  BY ShortBits DEF Inv, TypeInv, BitBound
<1>3. ddr \subseteq {"CLK", "DATA"} /\ port \subseteq {"CLK", "DATA"}
  <2>1. ReadLines /\ WriteLines /\ pc \in Listens \cup Writes \cup Returns \cup {"turn"}
    BY DEF Inv, LineInv, RoleInv
  <2>2. CASE pc \in Listens
    BY <2>1, <2>2 DEF ReadLines, Listens
  <2>3. CASE pc \in Writes \cup Returns
    BY <2>1, <2>3 DEF WriteLines, Writes, Returns, DataBit
  <2>4. CASE pc = "turn"
    BY <2>1, <2>4 DEF ReadLines, WriteLines
  <2> QED
    BY <2>1, <2>2, <2>3, <2>4
<1>4. held \subseteq Lines
  <2>1. C64Lines /\ ScriptInv
    BY DEF Inv, LineInv
  <2>2. CASE cpc = "next"
    BY <2>1, <2>2 DEF ScriptInv, Lines
  <2>3. CASE cpc # "next"
    BY <2>1, <2>3 DEF C64Lines, ScriptInv, Ctl, Sends, Hears, Lines, DataBit
  <2> QED
    BY <2>2, <2>3
<1>5. \A history \in {said, heard, spoken, received} : \A i \in 1..Len(history) : history[i] \in Items
  BY ElementOfSeq DEF Inv, HistoryTypes
<1> QED
  BY <1>1, <1>2, <1>3, <1>4, <1>5 DEF TypeOK

\* Every variable is of its type: the inner loops of IEC::read() and writeByte() take and put
\* as many bits as a byte has, never more, and no delay becomes negative.
THEOREM TypeCorrect == Spec => []TypeOK
<1>1. Init => BitBound
  <2> SUFFICES ASSUME Init PROVE BitBound
    OBVIOUS
  <2>1. accum = <<>> /\ cbits = <<>> /\ Len(<<>>) = 0 /\ Bits \in Nat
    BY EmptySeq, TimeAssumption DEF Init
  <2> QED
    BY ONLY <2>1 DEF BitBound
<1>2. Spec => []BitBound
  BY <1>1, BitBoundKept, InvHolds, PTL DEF Spec
<1> QED
  BY <1>2, InvTypes, InvHolds, PTL

----------------------------------------------------------------------------
(* Both directions implement a channel for one byte. *)

LEMMA OneUnderWay ==
    ASSUME NEW s \in Seq(Items), NEW item \in Items
    PROVE  /\ Len(s) - Len(s) < 1 /\ Len(Append(s, item)) = Len(s) + 1
           /\ SubSeq(Append(s, item), 1, Len(s)) = s
           /\ Append(s, item)[Len(s) + 1] = item /\ Len(s) < Len(Append(s, item))
<1>1. /\ Len(s) \in Nat /\ Append(s, item) \in Seq(Items) /\ Len(Append(s, item)) = Len(s) + 1
      /\ Append(s, item)[Len(s) + 1] = item
      /\ \A i \in 1..Len(s) : Append(s, item)[i] = s[i]
  BY LenProperties, AppendProperties
<1>2. SubSeq(Append(s, item), 1, Len(s)) = s
  <2>1. /\ SubSeq(Append(s, item), 1, Len(s)) \in Seq(Items)
        /\ Len(SubSeq(Append(s, item), 1, Len(s))) = Len(s)
        /\ \A i \in 1..Len(s) : SubSeq(Append(s, item), 1, Len(s))[i] = Append(s, item)[i]
    BY <1>1, SubSeqProperties
  <2> QED
    BY <1>1, <2>1, SeqEqual
<1> QED
  BY <1>1, <1>2

LEMMA DownStepMaps == Inv /\ [Next]_vars => [DownChannel!Next]_(DownChannel!vars)
<1> SUFFICES ASSUME Inv, [Next]_vars PROVE [DownChannel!Next]_(DownChannel!vars)
  OBVIOUS
<1>0. said \in Seq(Items) /\ heard \in Seq(Items)
  BY DEF Inv, HistoryTypes
<1>1. CASE UNCHANGED <<said, heard>>
  BY <1>1 DEF DownChannel!vars
<1>2. CASE /\ said = heard /\ heard' = heard
           /\ \E item \in Items : said' = Append(said, item)
  <2>1. DownChannel!Put
    BY <1>0, <1>2, OneUnderWay DEF DownChannel!Put
  <2> QED
    BY <2>1 DEF DownChannel!Next
<1>3. CASE /\ said' = said
           /\ \E item \in Items : said = Append(heard, item) /\ heard' = Append(heard, item)
  <2>1. DownChannel!Get
    BY <1>0, <1>3, OneUnderWay DEF DownChannel!Get
  <2> QED
    BY <2>1 DEF DownChannel!Next
<1>4. CASE UNCHANGED vars
  BY <1>1, <1>4 DEF vars, driveVars, c64Vars, c64Talk
<1> QED
  BY <1>1, <1>2, <1>3, <1>4, DownStep

\* Every byte of the C64 reaches addByte() once, in order, with its bits and its EOI, and
\* before the C64 starts another: IEC::read() implements a channel.
THEOREM DownImplementsChannel == Spec => DownSpec
<1>1. Init => DownChannel!Init
  BY DEF Init, DownChannel!Init
<1> QED
  BY <1>1, DownStepMaps, InvHolds, PTL DEF Spec, DownSpec, DownChannel!Spec

LEMMA UpStepMaps == Inv /\ [Next]_vars => [UpChannel!Next]_(UpChannel!vars)
<1> SUFFICES ASSUME Inv, [Next]_vars PROVE [UpChannel!Next]_(UpChannel!vars)
  OBVIOUS
<1>0. spoken \in Seq(Items) /\ received \in Seq(Items)
  BY DEF Inv, HistoryTypes
<1>1. CASE UNCHANGED <<spoken, received>>
  BY <1>1 DEF UpChannel!vars
<1>2. CASE /\ spoken = received /\ received' = received
           /\ \E item \in Items : spoken' = Append(spoken, item)
  <2>1. UpChannel!Put
    BY <1>0, <1>2, OneUnderWay DEF UpChannel!Put
  <2> QED
    BY <2>1 DEF UpChannel!Next
<1>3. CASE /\ spoken' = spoken
           /\ \E item \in Items : spoken = Append(received, item) /\ received' = Append(received, item)
  <2>1. UpChannel!Get
    BY <1>0, <1>3, OneUnderWay DEF UpChannel!Get
  <2> QED
    BY <2>1 DEF UpChannel!Next
<1>4. CASE UNCHANGED vars
  BY <1>1, <1>4 DEF vars, driveVars, c64Vars, c64Talk, talker
<1> QED
  BY <1>1, <1>2, <1>3, <1>4, UpStep

\* Every byte that writeByte() sends is taken by the C64 once, in order, with its bits and
\* its EOI, the last one of a reply included: IEC::writeByte() implements a channel.
THEOREM UpImplementsChannel == Spec => UpSpec
<1>1. Init => UpChannel!Init
  BY DEF Init, UpChannel!Init
<1> QED
  BY <1>1, UpStepMaps, InvHolds, PTL DEF Spec, UpSpec, UpChannel!Spec
====
