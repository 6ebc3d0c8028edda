\* The target exits while a thread is suspended.
CONSTANTS
    Threads = {t1, t2}
    Addrs = {x}
    Line <- TwoLines
    StopLine <- TwoLines
    Source <- TwoTexts
    WAIT_TIME = 0
    KILL_TIME = 1
    TERM_TIME = 1
    INTERACTIVE = FALSE
    AbruptExit = TRUE
    MaxHits = 2
SPECIFICATION FairSpec
PROPERTIES SessionEnds
