SPECIFICATION FairSpec
CONSTANTS
    irc = irc
    telegram = telegram
    p1 = p1
    p2 = p2
    Arms = {irc, telegram}
    Operator = Operator
    Empty = Empty
    Broken = Broken
    Unreadable = Unreadable
    Patterns = {p1, p2}
    Saves <- Short
    WritesFail = TRUE
    MaxLen = 2
    MaxChanges = 2
    MaxSaves = 2
INVARIANTS
    SettledAgrees
PROPERTIES
    SavesTakeEffect
    BadFilesAreReported
CHECK_DEADLOCK FALSE
