CONSTANTS
    Bits = 8
    Finals <- MCFinals
    Talks <- MCTalks
    Replies <- MCReplies
    SinkTimes <- MCSinkTimes
    Sessions <- MCSessions
    MaxSessions = 3
    ClockDelays <- MCClockDelays
    ReadyDelays <- MCReadyDelays
    Gap = 12
SPECIFICATION FairSpec
INVARIANTS TypeOK NoFailure
PROPERTIES DownSpec UpSpec SessionsEnd
CHECK_DEADLOCK FALSE
