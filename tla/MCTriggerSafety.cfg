\* Two lines; the target may exit at any time.
CONSTANTS
    Threads = {t1, t2, t3}
    Addrs = {x, y}
    Line <- TwoLines
    StopLine <- TwoLines
    Source <- TwoTexts
    WAIT_TIME = 0
    KILL_TIME = 1
    TERM_TIME = 1
    INTERACTIVE = FALSE
    AbruptExit = TRUE
    MaxHits = 2
SPECIFICATION Spec
SYMMETRY Symmetry
INVARIANTS TriggerInv TrackedPaused SuspendedTracked NoUnnoticedRace MatchInTheMoment
PROPERTIES OneAccessAtATime ImplementsVerifier
