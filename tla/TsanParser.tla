----------------------------- MODULE TsanParser -----------------------------
(***************************************************************************)
(* tsanOutputParser.py: reports of ThreadSanitizer to race files.  In the  *)
(* modes "syncloop" and "verifier" a race file has the write and the read  *)
(* site of a race; in "conanalysis" and in "overnight" it has the call     *)
(* stack of the read.  The overnight loop never ends, and the report may   *)
(* grow meanwhile.                                                         *)
(***************************************************************************)
EXTENDS ReportFile

SyncModes  == {"syncloop", "verifier"}
ReadModes  == {"conanalysis", "overnight"}

\* A block: two accesses and the number of its lines that got into the
\* report.  The header of an atomic access is not recognised.
TsanHeader(k) == IF k = "atomic" THEN "other" ELSE k

TsanLines(n, b) ==
    SubSeq(<<Line("break"), Line("warning")>>
           \o Stack(n, 1, TsanHeader(b.acc[1].kind), b.acc[1].frames) \o <<Line("blank")>>
           \o Stack(n, 2, TsanHeader(b.acc[2].kind), b.acc[2].frames) \o <<Line("blank")>>
           \o Stack(n, 3, "other", <<"icp", "app">>) \o <<Line("blank")>>
           \o <<Line("summary"), Line("break")>>, 1, b.kept)

\* The lines up to the end of the second stack, and of the whole block.
StacksLen(b) == 6 + Len(b.acc[1].frames) + Len(b.acc[2].frames)
BlockLen(b)  == StacksLen(b) + 6

TsanReport(bs) == FlattenSeq([n \in DOMAIN bs |-> TsanLines(n, bs[n])])

----------------------------------------------------------------------------
BlockStart ==
    /\ Reads("warning")
    /\ flagBlockStart' = TRUE
    /\ UNCHANGED <<flagReadStart, flagWriteStart, lists, files>>

WriteStart ==
    /\ mode \in SyncModes
    /\ Reads("write")
    /\ flagWriteStart' = TRUE
    /\ flagReadStart' = FALSE
    /\ flagBlockStart' = TRUE
    /\ UNCHANGED <<lists, files>>

ReadStart ==
    /\ Reads("read")
    /\ flagReadStart' = TRUE
    /\ flagBlockStart' = TRUE
    /\ UNCHANGED <<flagWriteStart, lists, files>>

\* Variant: every frame is kept, as in the other loop.
SyncCallStackLineAll ==
    LET l == raw[fp + 1] IN
    /\ mode \in SyncModes
    /\ Reads("frame")
    /\ readResultList' = IF flagReadStart THEN Append(readResultList, l.site) ELSE readResultList
    /\ writeResultList' = IF flagWriteStart THEN Append(writeResultList, l.site) ELSE writeResultList
    /\ UNCHANGED <<flags, files>>

\* Only the first frame of an access is kept.  A frame of an interceptor is
\* skipped, and makes the rest of the stack be skipped but for the verifier.
SyncCallStackLine ==
    LET l       == raw[fp + 1]
        inRead  == flagReadStart /\ flagBlockStart
        inWrite == flagWriteStart /\ flagBlockStart
        off     == l.fn = "icp" /\ (inRead \/ inWrite) /\ mode # "verifier"
        First(list, in) == IF in /\ l.fn # "icp" /\ list = <<>> THEN <<l.site>> ELSE list
    IN  /\ mode \in SyncModes
        /\ Reads("frame")
        /\ readResultList' = First(readResultList, inRead)
        /\ writeResultList' = First(writeResultList, inWrite)
        /\ flagReadStart' = (flagReadStart /\ ~off)
        /\ flagWriteStart' = (flagWriteStart /\ ~(off /\ ~inRead))
        /\ flagBlockStart' = (flagBlockStart /\ ~off)
        /\ UNCHANGED files

\* Every frame of a read is kept, in the overnight loop interceptors too.
ReadCallStackLine ==
    LET l == raw[fp + 1] IN
    /\ mode \in ReadModes
    /\ Reads("frame")
    /\ readResultList' =
          IF flagReadStart /\ flagBlockStart /\ (l.fn # "icp" \/ mode = "overnight")
          THEN Append(readResultList, l.site) ELSE readResultList
    /\ UNCHANGED <<flags, writeResultList, files>>

\* A race file is written when the mode has all it needs.
Flush ==
    \/ mode \in SyncModes /\ WriteRace(writeResultList, readResultList)
    \/ /\ mode \in ReadModes
       /\ files' = IF readResultList = <<>> THEN files ELSE Append(files, readResultList)
       /\ readResultList' = <<>>
       /\ UNCHANGED writeResultList

\* Variant: an access that is still alone is dropped.
LineBreakDrops ==
    /\ Reads("blank")
    /\ files' = IF writeResultList # <<>> /\ readResultList # <<>>
                THEN Append(files, writeResultList \o readResultList) ELSE files
    /\ writeResultList' = <<>>
    /\ readResultList' = <<>>
    /\ flagReadStart' = FALSE
    /\ flagWriteStart' = FALSE
    /\ UNCHANGED flagBlockStart

LineBreak ==
    /\ Reads("blank")
    /\ Flush
    /\ flagReadStart' = FALSE
    /\ flagWriteStart' = FALSE
    /\ UNCHANGED flagBlockStart

\* Variant: what a block has left behind is kept.
BlockBreakKeeps ==
    /\ mode \in SyncModes
    /\ Reads("break")
    /\ flagReadStart' = FALSE
    /\ flagWriteStart' = FALSE
    /\ flagBlockStart' = FALSE
    /\ UNCHANGED <<lists, files>>

BlockBreak ==
    /\ mode \in SyncModes
    /\ Reads("break")
    /\ flagReadStart' = FALSE
    /\ flagWriteStart' = FALSE
    /\ flagBlockStart' = FALSE
    /\ writeResultList' = <<>>
    /\ readResultList' = <<>>
    /\ UNCHANGED files

BlockEnd ==
    /\ Reads("summary")
    /\ Flush
    /\ flagBlockStart' = FALSE
    /\ flagReadStart' = FALSE
    /\ flagWriteStart' = FALSE

OtherLine ==
    /\ \/ Reads("other")
       \/ mode \in ReadModes /\ (Reads("write") \/ Reads("break"))
    /\ UNCHANGED <<flags, lists, files>>

\* Normal modes end; the overnight loop goes on behind the boundary unless
\* it is within a block.
EndOfScan ==
    /\ AtBoundary
    /\ pc' = IF mode = "overnight" THEN "check" ELSE "done"
    /\ baseIndex' = IF mode = "overnight" /\ ~flagBlockStart /\ ~flagReadStart
                    THEN boundaryIndex ELSE baseIndex
    /\ UNCHANGED <<mode, blocks, raw, boundaryIndex, flags, lists, files>>

\* main() chooses the loop.
TsanInit(modes, reports) ==
    /\ mode \in modes
    /\ blocks \in reports
    /\ FileInit(TsanReport(blocks))

TsanNext ==
    /\ mode \in SyncModes \cup ReadModes
    /\ \/ checkBlockIntegrity("break")
       \/ SkipLine \/ EndOfScan
       \/ BlockStart \/ WriteStart \/ ReadStart
       \/ SyncCallStackLine \/ ReadCallStackLine
       \/ LineBreak \/ BlockBreak \/ BlockEnd \/ OtherLine

\* The detector is still writing (external): the report gets more lines.
Detector ==
    LET whole == TsanReport(blocks) IN
    /\ pc = "check"
    /\ \E k \in Len(raw) + 1 .. Len(whole) : raw' = SubSeq(whole, 1, k)
    /\ UNCHANGED <<mode, blocks, fp, pc, baseIndex, boundaryIndex, flags, lists, files>>

\* The overnight loop starts before the detector has written anything.
GrowingInit(reports) ==
    /\ mode = "overnight"
    /\ blocks \in reports
    /\ FileInit(<<>>)

ReportLine == LineOf({"warning", "write", "read", "blank", "break", "summary", "other"})

\* Any report file at all, of blocks or not, which gets more lines only while
\* it is not being read.
AnyReport ==
    /\ mode \in SyncModes \cup ReadModes
    /\ \E report \in Seq(ReportLine) : FileInit(report)

MoreLines ==
    /\ pc = "check"
    /\ \E more \in Seq(ReportLine) : raw' = raw \o more
    /\ UNCHANGED <<mode, blocks, fp, pc, baseIndex, boundaryIndex, flags, lists, files>>

TsanSpec == AnyReport /\ [][TsanNext \/ MoreLines]_rfVars

----------------------------------------------------------------------------
(* What the race files should be, from the blocks.                         *)

AppSites(n, a) == Sites(n, a, blocks[n].acc[a].frames, {"app"})

\* The site of an access: its innermost frame; without the verifier, an
\* access within an interceptor has none.
AccessSite(n, a) ==
    LET frames == blocks[n].acc[a].frames IN
    IF mode = "verifier" \/ frames[1] = "app" THEN SubSeq(AppSites(n, a), 1, 1) ELSE <<>>

ReadSites(n, a) ==
    Sites(n, a, blocks[n].acc[a].frames, IF mode = "overnight" THEN FrameKinds ELSE {"app"})

OfKind(n, k) == {a \in 1 .. 2 : blocks[n].acc[a].kind = k}

\* The race file of block n, if it should have one.
RaceFiles(n) ==
    LET sited(k) == {a \in OfKind(n, k) : AccessSite(n, a) # <<>>}
    IN  SetToSeq(IF mode \in SyncModes
                 THEN {AccessSite(n, w) \o AccessSite(n, r) : w \in sited("write"), r \in sited("read")}
                 ELSE {ReadSites(n, r) : r \in OfKind(n, "read")} \ {<<>>})

\* Both stacks of block n are complete and before the boundary.
Complete(n) ==
    LET start == Len(TsanReport(SubSeq(blocks, 1, n - 1)))
    IN  blocks[n].kept >= StacksLen(blocks[n]) /\ start + StacksLen(blocks[n]) < boundaryIndex

TsanExpected ==
    FlattenSeq([n \in DOMAIN blocks |-> IF Complete(n) THEN RaceFiles(n) ELSE <<>>])

\* Types of the parser's variables; the loops of the normal modes keep one
\* site of an access.
TsanTypeOK ==
    mode \in SyncModes \cup ReadModes =>
    /\ pc \in {"check", "scan", "done"}
    /\ raw \in Seq(ReportLine)
    /\ fp \in 0 .. Len(raw)
    /\ baseIndex \in 0 .. Len(raw)
    /\ boundaryIndex \in baseIndex .. Len(raw)
    /\ {flagBlockStart, flagReadStart, flagWriteStart} \subseteq BOOLEAN
    /\ readResultList \in Seq(Site) /\ writeResultList \in Seq(Site) /\ files \in Seq(Seq(Site))
    /\ mode \in SyncModes => Len(readResultList) <= 1 /\ Len(writeResultList) <= 1
    /\ mode \in ReadModes => writeResultList = <<>>

\* What ends a stack, and what a block; runNormalConAnalysis does not look
\* at block breaks.
Breaks    == IF mode \in SyncModes THEN {"break"} ELSE {}
StackEnds == {"blank", "summary"} \cup Breaks

\* What a race file should be made of.
RaceOf(f) ==
    \E i, j \in DOMAIN raw :
        /\ InStack(i, "write", StackEnds) /\ InStack(j, "read", StackEnds)
        /\ SameBlock(i, j, Breaks)
        /\ f = <<raw[i].site, raw[j].site>>

ReadOf(x) == \E i \in DOMAIN raw : InStack(i, "read", StackEnds) /\ x = raw[i].site

\* Whatever the lines of the report are, complete blocks or not, a race file
\* has the sites of frames that stand below a header of their kind, and the
\* write and the read of a race are of one block.
TsanSound ==
    /\ mode \in SyncModes => \A f \in ToSet(files) : RaceOf(f)
    /\ mode = "conanalysis" => \A f \in ToSet(files) : \A x \in ToSet(f) : ReadOf(x)

\* In the loops of the normal modes a flag that is on stands for a header
\* above, and what is in a list was taken since the last block break.
ScanInv ==
    mode \in SyncModes \cup {"conanalysis"} =>
    /\ baseIndex = 0
    /\ pc = "check" =>
          /\ ~flagReadStart /\ ~flagWriteStart
          /\ readResultList = <<>> /\ writeResultList = <<>> /\ files = <<>>
    /\ pc = "scan" =>
          /\ flagReadStart => Under(fp, "read", StackEnds)
          /\ flagWriteStart => Under(fp, "write", StackEnds)
          /\ \A x \in ToSet(readResultList) : Taken(x, "read", StackEnds, Breaks)
          /\ \A x \in ToSet(writeResultList) : Taken(x, "write", StackEnds, Breaks)

TsanLeads(i, k) == Leads(i, k, StackEnds, Breaks, mode = "verifier")
Reported(i)     == \E f \in ToSet(files) : raw[i].site \in ToSet(f)

\* Line e ends a stack, and another one ends its block.
Flushes(e)   == raw[e].kind \in {"blank", "summary"}
BlockEnds(e) == \E t \in e + 1 .. Len(raw) : raw[t].kind = "break"

\* The accesses of kind k above line e in its block.
Ended(k, e) ==
    {i \in 1 .. e - 1 : raw[i].kind = "frame" /\ SameBlock(i, e, Breaks) /\ TsanLeads(i, k)}

\* Whatever the lines of the report are: when it has been scanned, there is
\* a race file for the first write and the first read of a block, if their
\* stacks end and the block does; the loops differ in whether a frame of an
\* interceptor may be above.  In runNormalConAnalysis every frame of a read
\* is in a race file.
TsanMissesNone ==
    pc = "done" =>
    /\ mode \in SyncModes =>
          \A e \in DOMAIN raw : Flushes(e) /\ BlockEnds(e) =>
             \A i \in Ended("write", e), j \in Ended("read", e) : Written(i, j)
    /\ mode = "conanalysis" =>
          \A e \in DOMAIN raw : Flushes(e) /\ BlockEnds(e) =>
             \A i \in 1 .. e - 1 : InStack(i, "read", StackEnds) => Reported(i)

\* What the scan has read is written or in the lists, in the loops that pair
\* accesses: an access waits in its list until the other one is there.
PairInv ==
    LET leads(k) == {i \in 1 .. fp : raw[i].kind = "frame" /\ Current(i, Breaks) /\ TsanLeads(i, k)}
        seen(k)  == \E i \in 1 .. fp : InStack(i, k, StackEnds) /\ Current(i, Breaks)
    IN  /\ Opens(fp, "read", mode = "verifier") => flagReadStart /\ flagBlockStart
        /\ Opens(fp, "write", mode = "verifier") => flagWriteStart /\ flagBlockStart
        /\ \A i \in leads("write") : writeResultList = <<raw[i].site>> \/ seen("read")
        /\ \A j \in leads("read") : readResultList = <<raw[j].site>> \/ seen("write")
        /\ \A i \in leads("write"), j \in leads("read") :
              \/ Written(i, j)
              \/ /\ writeResultList = <<raw[i].site>> /\ readResultList = <<raw[j].site>>
                 /\ \A e \in 1 .. fp : i < e /\ j < e => ~Flushes(e)
        /\ \A e \in 1 .. fp : Flushes(e) =>
              \A i \in Ended("write", e), j \in Ended("read", e) : Written(i, j)

\* In runNormalConAnalysis a frame of a read waits until its stack ends.
StackInv ==
    /\ Under(fp, "read", StackEnds) => flagReadStart /\ flagBlockStart
    /\ \A i \in 1 .. fp : InStack(i, "read", StackEnds) =>
          \/ Reported(i)
          \/ raw[i].site \in ToSet(readResultList) /\ \A e \in i .. fp : ~Flushes(e)

\* The frames that race file f is made of are behind line a and not behind b.
From(f, a, b) ==
    IF mode = "conanalysis"
    THEN \A x \in ToSet(f) : Within(x, "read", StackEnds, a, b)
    ELSE Within(f[1], "write", StackEnds, a, b) /\ Within(f[2], "read", StackEnds, a, b)

\* The race files are in the order of the report: a line parts the frames of
\* one from those of a later one, so that no frame is used for two of them.
TsanInOrder ==
    mode \in SyncModes \cup {"conanalysis"} =>
    \A n \in DOMAIN files : \A m \in 1 .. n - 1 :
        \E c \in 0 .. Len(raw) : From(files[m], 0, c) /\ From(files[n], c, Len(raw))

\* What is in the lists was read behind all that has been written.
OrderInv ==
    mode \in SyncModes \cup {"conanalysis"} /\ pc = "scan" =>
    \E c \in 0 .. fp :
        /\ \A f \in ToSet(files) : From(f, 0, c)
        /\ \A x \in ToSet(writeResultList) : Within(x, "write", StackEnds, c, fp)
        /\ \A x \in ToSet(readResultList) : Within(x, "read", StackEnds, c, fp)

MissInv ==
    mode \in SyncModes \cup {"conanalysis"} =>
    /\ pc = "check" => fp = 0
    /\ pc = "scan" => \A t \in DOMAIN raw : raw[t].kind = "break" => t <= boundaryIndex
    /\ pc = "scan" /\ mode \in SyncModes => PairInv
    /\ pc = "scan" /\ mode = "conanalysis" => StackInv

\* The inductive invariant.
TsanInv ==
    /\ TsanTypeOK
    /\ TsanSound /\ ScanInv
    /\ TsanMissesNone /\ MissInv
    /\ TsanInOrder /\ OrderInv

\* One race file for each complete block with a write and a read, with the
\* sites of that block and of no other, whatever was left of blocks that
\* the target could not finish; nothing for the other blocks.
TsanExact ==
    mode \in SyncModes \cup ReadModes =>
    /\ IsPrefix(files, TsanExpected)
    /\ pc # "scan" => files = TsanExpected

\* The overnight loop feeds every race to the backend once.
NoRaceTwice ==
    \A i, j \in DOMAIN files : files[i] = files[j] => i = j
=============================================================================
