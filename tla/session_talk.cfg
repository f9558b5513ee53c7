\* Two events at a time, every failure, a /reset or restart.
SPECIFICATION FairSpec
CONSTANTS
    Threads = {t1, t2}
    MaxTurns = 4
    MaxMessages = 3
    MaxSessions = 2
    CallsFail = TRUE
    SlackFails = TRUE
INVARIANTS
    TypeOK
    WaitsForSomething
    OnlyWritesAreForwarded
    OneYesOneBatch
    CorrectionsWin
    ResetIsClean
PROPERTIES
    ReplacedSessionsAreFrozen
    EventsAreHandled
CHECK_DEADLOCK FALSE
