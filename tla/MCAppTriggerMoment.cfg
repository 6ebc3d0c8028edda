\* The interactive copy; three threads, two of which stop together.
CONSTANTS
    Threads = {t1, t2, t3}
    Addrs = {x}
    AbruptExit = FALSE
    MaxHits = 2
    Modes <- Attended
SPECIFICATION Spec
INVARIANTS MatchInTheMoment
