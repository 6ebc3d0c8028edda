\* No thread stays suspended in an interactive session.
CONSTANTS
    Threads = {t1, t2}
    Addrs = {x, y}
    Line <- TwoLines
    StopLine <- TwoLines
    Source <- TwoTexts
    WAIT_TIME = 0
    KILL_TIME = 1
    TERM_TIME = 1
    INTERACTIVE = TRUE
    AbruptExit = FALSE
    MaxHits = 3
SPECIFICATION FairSpec
PROPERTIES StallResolved HeldIsReleased
