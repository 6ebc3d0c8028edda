\* Two heads that share the cached result.
CONSTANTS
    Block <- Four
    entry = 1
    Cfgs <- FourCfgs
    danOps <- FourOps
    MaxHeads = 2
SPECIFICATION FairSpec
INVARIANTS DomInv DominatorsSound DominatorsComplete ReportExact
PROPERTIES OnlyShrinks PassEnds
