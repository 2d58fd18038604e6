----------------------------- MODULE MCIecLines -----------------------------
(* IecLines for TLC: a LOAD, and an OPEN followed by a CLOSE, with their real bytes. *)
EXTENDS IecLines

Bit8(n) == [i \in 1..Bits |-> (n \div 2 ^ (i - 1)) % 2]

Atn(n) == [kind |-> "atn", byte |-> Bit8(n), eoi |-> FALSE]
Data(n) == [kind |-> "data", byte |-> Bit8(n), eoi |-> FALSE]
Last(n) == [kind |-> "data", byte |-> Bit8(n), eoi |-> TRUE]
Silent(kind) == [kind |-> kind, byte |-> <<>>, eoi |-> FALSE]

\* LISTEN 8 is 40, OPEN 240, CLOSE 224, UNLISTEN 63, TALK 8 72, SECOND 96, UNTALK 95.
MCFinals == {Bit8(n) : n \in {63, 72, 95, 224}}
MCTalks == {Bit8(96)}
MCReplies == {<<Bit8(141)>>, <<Bit8(1), Bit8(8), Bit8(170)>>}
MCSinkTimes == {0, 20, 47}   \* 48 is too long: the turn-around then misses the UNTALK
MCClockDelays == {1, 10, 19}
MCReadyDelays == {0, 30}

CloseSteps == <<Atn(40), Atn(224), Atn(63), Silent("release")>>

\* A name of two bytes, then the drive talks.
LoadSession ==
    <<Atn(40), Atn(240), Data(36), Last(42), Atn(63), Silent("release"),
      Atn(72), Atn(96), Silent("receive"), Atn(95), Silent("release")>> \o CloseSteps

\* A name of one byte; the channel is closed at once.
OpenSession == <<Atn(40), Atn(240), Last(36), Atn(63), Silent("release")>> \o CloseSteps

MCSessions == {LoadSession, OpenSession}
=============================================================================
