\* The copies with their switches; the target may exit at any time.
CONSTANTS
    Threads = {t1, t2}
    Addrs = {x, y}
    AbruptExit = TRUE
    MaxHits = 2
    Modes <- AllModes
SPECIFICATION FairSpec
INVARIANTS AppInv SuspendedTracked NoUnnoticedRace
PROPERTIES HeldIsReleased
