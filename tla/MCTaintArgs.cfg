\* A corrupted argument of a call that is skipped.
CONSTANTS
    Inst <- MCInst
    Value <- MCValue
    Func <- MCFunc
    Line <- MCLine
    null = null
    Code <- MCCode
    Params <- MCParams
    LineOf <- MCLineOf
    danOps = {"d"}
    Blk <- MCBlk
    influences <- MCInfluences
    Body <- MCBody
    HeadLists <- One
    Programs <- CallPrograms
SPECIFICATION Spec
INVARIANTS ArgsHandled
