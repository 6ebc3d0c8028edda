\* A non-interactive session; the race is within one line.
CONSTANTS
    Threads = {t1, t2, t3}
    Addrs = {x, y}
    Line <- OneNumber
    StopLine <- OneNumber
    Source <- OneText
    WAIT_TIME = 0
    KILL_TIME = 1
    TERM_TIME = 1
    INTERACTIVE = FALSE
    AbruptExit = FALSE
    MaxHits = 2
SPECIFICATION FairSpec
PROPERTIES SessionEnds
