\* Programs with calls, recursion, stores, branches and array elements.
CONSTANTS
    Inst <- MCInst
    Value <- MCValue
    Func <- MCFunc
    Line <- MCLine
    null = null
    Code <- MCCode
    Params <- MCParams
    LineOf <- MCLineOf
    danOps = {"d"}
    Blk <- MCBlk
    influences <- MCInfluences
    Body <- MCBody
    HeadLists <- OneOrTwo
    Programs <- AllPrograms
SPECIFICATION FairSpec
INVARIANTS TaintInv Justified SkippedIsSettled CrossDepHasBranch
PROPERTIES NotesStay AnalysisEnds
