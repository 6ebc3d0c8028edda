--------------------------- MODULE ValgrindParser ---------------------------
(***************************************************************************)
(* valgrindOutputParser.py, the loop runNormalSyncLoop: reports of         *)
(* Helgrind to race files.  Unlike the other parser it also reports races  *)
(* of two writes: the site of the first is kept over the blank line, and   *)
(* pendingWriteFlag tells that a second one may follow.  The other loops   *)
(* that main() names do not exist.                                         *)
(***************************************************************************)
EXTENDS ReportFile

VARIABLES
    writeResultList2,
    pendingWriteFlag

vgVars == <<writeResultList2, pendingWriteFlag>>

\* A block: an announcement of a thread or a lock, the stacks of one or two
\* accesses (Helgrind does not always know the second one), and whose memory
\* it is: an address with the stack of its allocation, or the location of a
\* variable.
VgBlock(n, b) ==
    <<Line("start"), Line("blank")>>
    \o Stack(n, 0, "other", <<"app">>) \o <<Line("blank")>>
    \o Stack(n, 1, b.acc[1].kind, b.acc[1].frames)
    \o (IF Len(b.acc) = 2
        THEN <<Line("blank")>> \o Stack(n, 2, b.acc[2].kind, b.acc[2].frames) ELSE <<>>)
    \o (IF b.memory = "address" THEN Stack(n, 3, "address", <<"app">>) ELSE <<Line("other")>>)
    \o <<Line("blank")>>

\* The lines of it that got into the report.
VgLines(n, b) == SubSeq(VgBlock(n, b), 1, b.kept)

VgReport(bs) == FlattenSeq([n \in DOMAIN bs |-> VgLines(n, bs[n])])

----------------------------------------------------------------------------
\* Variant: what the last block has left behind is kept.
VgBlockStartKeeps ==
    /\ Reads("start")
    /\ flagBlockStart' = TRUE
    /\ flagReadStart' = FALSE
    /\ flagWriteStart' = FALSE
    /\ UNCHANGED <<lists, files, vgVars>>

VgBlockStart ==
    /\ Reads("start")
    /\ flagBlockStart' = TRUE
    /\ flagReadStart' = FALSE
    /\ flagWriteStart' = FALSE
    /\ writeResultList' = <<>>
    /\ readResultList' = <<>>
    /\ UNCHANGED <<files, vgVars>>

VgReadStart ==
    /\ Reads("read")
    /\ flagReadStart' = TRUE
    /\ flagBlockStart' = TRUE
    /\ UNCHANGED <<flagWriteStart, lists, files, vgVars>>

VgWriteStart ==
    /\ Reads("write")
    /\ flagWriteStart' = TRUE
    /\ flagBlockStart' = TRUE
    /\ UNCHANGED <<flagReadStart, lists, files, vgVars>>

VgReadEnd ==
    /\ Reads("address")
    /\ flagReadStart' = FALSE
    /\ flagWriteStart' = FALSE
    /\ UNCHANGED <<flagBlockStart, lists, files, vgVars>>

\* A frame of mythread_wrapper ends the stack.
VgCallStackLine ==
    LET l       == raw[fp + 1]
        inRead  == flagReadStart /\ flagBlockStart
        inWrite == flagWriteStart /\ flagBlockStart
        own     == l.fn # "icp"
    IN  /\ Reads("frame")
        /\ readResultList' =
              IF inRead /\ own /\ readResultList = <<>> THEN <<l.site>> ELSE readResultList
        /\ writeResultList' =
              IF inWrite /\ own /\ writeResultList = <<>> THEN <<l.site>> ELSE writeResultList
        /\ writeResultList2' =
              IF /\ inWrite /\ own
                 /\ writeResultList # <<>> /\ pendingWriteFlag /\ writeResultList2 = <<>>
              THEN <<l.site>> ELSE writeResultList2
        /\ flagReadStart' = (flagReadStart /\ (own \/ ~inRead))
        /\ flagWriteStart' = (flagWriteStart /\ (own \/ ~inWrite))
        /\ UNCHANGED <<flagBlockStart, files, pendingWriteFlag>>

\* Variant: pendingWriteFlag is not reset with the first race file.
WriteRacePending ==
    /\ writeResultList # <<>>
    /\ readResultList # <<>>
    /\ WriteRace(writeResultList, readResultList)
    /\ UNCHANGED vgVars

\* A write and a read are a race.
WriteAndRead ==
    /\ writeResultList # <<>>
    /\ readResultList # <<>>
    /\ WriteRace(writeResultList, readResultList)
    /\ pendingWriteFlag' = FALSE
    /\ UNCHANGED writeResultList2

\* So are two writes.
WriteAndWrite ==
    /\ writeResultList # <<>>
    /\ readResultList = <<>>
    /\ writeResultList2 # <<>>
    /\ files' = Append(files, writeResultList \o writeResultList2)
    /\ pendingWriteFlag' = FALSE
    /\ writeResultList' = <<>>
    /\ writeResultList2' = <<>>
    /\ UNCHANGED readResultList

\* Variant: a write does not wait for another one.
NoRaceYetNever ==
    /\ writeResultList = <<>> \/ (readResultList = <<>> /\ writeResultList2 = <<>>)
    /\ UNCHANGED <<lists, files, vgVars>>

\* Otherwise a write waits for another one.
NoRaceYet ==
    /\ writeResultList = <<>> \/ (readResultList = <<>> /\ writeResultList2 = <<>>)
    /\ pendingWriteFlag' = (pendingWriteFlag \/ writeResultList # <<>>)
    /\ UNCHANGED <<lists, files, writeResultList2>>

VgLineBreak ==
    /\ Reads("blank")
    /\ WriteAndRead \/ WriteAndWrite \/ NoRaceYet
    /\ flagReadStart' = FALSE
    /\ flagWriteStart' = FALSE
    /\ UNCHANGED flagBlockStart

VgOtherLine ==
    /\ Reads("other")
    /\ UNCHANGED <<flags, lists, files, vgVars>>

VgEndOfScan ==
    /\ AtBoundary
    /\ pc' = "done"
    /\ UNCHANGED <<mode, blocks, raw, baseIndex, boundaryIndex, flags, lists, files, vgVars>>

\* What main() is asked for: runNormalSyncLoop, or one of the loops that
\* do not exist.
VgModes == {"valgrind", "undefined"}

VgInit(reports) ==
    /\ mode \in VgModes
    /\ blocks \in reports
    /\ FileInit(VgReport(blocks))
    /\ writeResultList2 = <<>>
    /\ pendingWriteFlag = FALSE

\* The name of the loop is not found, and nothing is parsed.
VgMainFails ==
    /\ mode = "undefined"
    /\ pc = "check"
    /\ pc' = "NameError"
    /\ UNCHANGED <<mode, blocks, raw, fp, baseIndex, boundaryIndex, flags, lists, files, vgVars>>

runNormalSyncLoop ==
    /\ mode = "valgrind"
    /\ \/ checkBlockIntegrity("blank") /\ UNCHANGED vgVars
       \/ VgBlockStart \/ VgReadStart \/ VgWriteStart \/ VgReadEnd
       \/ VgCallStackLine \/ VgLineBreak \/ VgOtherLine \/ VgEndOfScan

VgNext == VgMainFails \/ runNormalSyncLoop

\* Any report file at all, of blocks or not.
VgReportLine == LineOf({"start", "blank", "read", "write", "address", "other"})

VgAnyReport ==
    /\ mode \in VgModes
    /\ \E report \in Seq(VgReportLine) : FileInit(report)
    /\ writeResultList2 = <<>>
    /\ pendingWriteFlag = FALSE

VgSpec == VgAnyReport /\ [][VgNext]_<<rfVars, vgVars>>

----------------------------------------------------------------------------
(* What the race files should be.                                          *)

VgTypeOK ==
    mode \in VgModes =>
    /\ pc \in {"check", "scan", "done", "NameError"}
    /\ raw \in Seq(VgReportLine)
    /\ fp \in 0 .. Len(raw) /\ boundaryIndex \in 0 .. Len(raw) /\ baseIndex = 0
    /\ {flagBlockStart, flagReadStart, flagWriteStart, pendingWriteFlag} \subseteq BOOLEAN
    /\ readResultList \in Seq(Site) /\ Len(readResultList) <= 1
    /\ writeResultList \in Seq(Site) /\ Len(writeResultList) <= 1
    /\ writeResultList2 \in Seq(Site) /\ Len(writeResultList2) <= 1
    /\ files \in Seq(Seq(Site))

VgStackEnds == {"start", "blank", "address"}

\* A write and a read of one block, or two writes.
VgRaceOf(f) ==
    \E i, j \in DOMAIN raw :
        /\ InStack(i, "write", VgStackEnds)
        /\ \/ InStack(j, "read", VgStackEnds) /\ SameBlock(i, j, {"start"})
           \/ InStack(j, "write", VgStackEnds) /\ i # j
        /\ f = <<raw[i].site, raw[j].site>>

\* Whatever the lines of the report are, a race file is made of a write and
\* a read of one block, or of two different frames of writes.  These need
\* not be of one block: pendingWriteFlag and writeResultList2 are not reset
\* when a block starts.
VgSound == mode = "valgrind" => \A f \in ToSet(files) : VgRaceOf(f)

\* Two writes that have been read are not the same frame.
TwoWrites(w, r) ==
    \E i, j \in 1 .. fp :
        /\ InStack(i, "write", VgStackEnds) /\ InStack(j, "write", VgStackEnds)
        /\ i # j /\ w = raw[i].site /\ r = raw[j].site

VgScanInv ==
    mode = "valgrind" =>
    /\ pc = "check" =>
          /\ ~flagReadStart /\ ~flagWriteStart
          /\ readResultList = <<>> /\ writeResultList = <<>> /\ writeResultList2 = <<>>
    /\ pc = "scan" =>
          /\ flagReadStart => Under(fp, "read", VgStackEnds)
          /\ flagWriteStart => Under(fp, "write", VgStackEnds)
          /\ \A x \in ToSet(readResultList) : Taken(x, "read", VgStackEnds, {"start"})
          /\ \A x \in ToSet(writeResultList) : Taken(x, "write", VgStackEnds, {"start"})
          /\ \A x \in ToSet(writeResultList2) : Taken(x, "write", VgStackEnds, {})
          /\ \A w \in ToSet(writeResultList), r \in ToSet(writeResultList2) : TwoWrites(w, r)

VgLeads(i, k) == Leads(i, k, VgStackEnds, {"start"}, FALSE)
Begins(i)     == \E f \in ToSet(files) : f[1] = raw[i].site
Blank(e)      == raw[e].kind = "blank"

\* The accesses of kind k above line e in its block, and the first frames of
\* the stacks of writes that begin between a line break behind i and line e.
VgEnded(k, e) ==
    {i \in 1 .. e - 1 : raw[i].kind = "frame" /\ SameBlock(i, e, {"start"}) /\ VgLeads(i, k)}
Again(i, e) ==
    {j \in i + 1 .. e - 1 :
        /\ raw[j].kind = "frame" /\ raw[j].fn = "app" /\ Opens(j - 1, "write", FALSE)
        /\ \E d \in i + 1 .. j - 1 : Blank(d)}

\* The first write of the block of line e has a race file when its stack and
\* that of a read or of another write have ended; it is a file of the read
\* if that comes first.
RaceKept(e) ==
    \A i \in VgEnded("write", e) :
        /\ \A j \in VgEnded("read", e) : Begins(i) /\ (j < i => Written(i, j))
        /\ Again(i, e) # {} => Begins(i)

\* Whatever the lines of the report are: when it has been scanned, no block
\* with a write and another access is left without a race file.  Its write
\* may have met another one that was left over (VgSound).
VgMissesNone ==
    mode = "valgrind" /\ pc = "done" =>
    \A e \in DOMAIN raw : Blank(e) /\ (\E t \in e + 1 .. Len(raw) : Blank(t)) => RaceKept(e)

\* What the scan has read is written or in the lists.
VgPairInv ==
    LET leads(k) == {i \in 1 .. fp : raw[i].kind = "frame" /\ Current(i, {"start"}) /\ VgLeads(i, k)}
    IN  /\ Opens(fp, "read", FALSE) => flagReadStart /\ flagBlockStart
        /\ Opens(fp, "write", FALSE) => flagWriteStart /\ flagBlockStart
        /\ \A j \in leads("read") :
              \/ readResultList = <<raw[j].site>>
              \/ \E i \in 1 .. fp : InStack(i, "write", VgStackEnds) /\ Current(i, {"start"})
        /\ \A i \in leads("write") :
              /\ Begins(i) \/ writeResultList = <<raw[i].site>>
              /\ (\E d \in i .. fp : Blank(d)) => Begins(i) \/ pendingWriteFlag
              /\ \A j \in leads("read") :
                    \/ Begins(i) /\ (j < i => Written(i, j))
                    \/ /\ writeResultList = <<raw[i].site>> /\ readResultList = <<raw[j].site>>
                       /\ \A e \in 1 .. fp : i < e /\ j < e => ~Blank(e)
              /\ \A j \in Again(i, fp + 1) :
                    \/ Begins(i)
                    \/ writeResultList2 # <<>> /\ \A e \in j .. fp : ~Blank(e)
        /\ \A e \in 1 .. fp : Blank(e) => RaceKept(e)

VgMissInv ==
    mode = "valgrind" =>
    /\ pc = "check" => fp = 0
    /\ pc = "scan" => VgPairInv /\ \A t \in DOMAIN raw : Blank(t) => t <= boundaryIndex

\* The race files begin with different frames, in the order of the report.
VgInOrder ==
    mode = "valgrind" =>
    \A n \in DOMAIN files : \A m \in 1 .. n - 1 :
        \E c \in 0 .. Len(raw) : /\ Within(files[m][1], "write", VgStackEnds, 0, c)
                               /\ Within(files[n][1], "write", VgStackEnds, c, Len(raw))

\* The first write that is kept was read behind those that have a race file.
VgOrderInv ==
    mode = "valgrind" =>
    /\ pc = "check" => files = <<>>
    /\ pc = "scan" =>
          \E c \in 0 .. fp :
              /\ \A f \in ToSet(files) : Within(f[1], "write", VgStackEnds, 0, c)
              /\ \A x \in ToSet(writeResultList) : Within(x, "write", VgStackEnds, c, fp)

\* The inductive invariant.
VgInv ==
    /\ VgTypeOK
    /\ VgSound /\ VgScanInv
    /\ VgMissesNone /\ VgMissInv
    /\ VgInOrder /\ VgOrderInv

\* The innermost frame of a stack.
VgSite(n, a) == <<n, a, 1>>

VgRace(n) == IF blocks[n].acc[1].kind = "write" THEN <<VgSite(n, 1), VgSite(n, 2)>>
                                                ELSE <<VgSite(n, 2), VgSite(n, 1)>>

IsWhole(n) == blocks[n].kept = Len(VgBlock(n, blocks[n]))

\* A race is written at the line break behind its block, which has to be
\* before the boundary: another line break must follow.
VgComplete(n) ==
    LET start == Len(VgReport(SubSeq(blocks, 1, n - 1)))
    IN  /\ Len(blocks[n].acc) = 2
        /\ IsWhole(n) /\ start + blocks[n].kept < boundaryIndex

VgExpected ==
    FlattenSeq([n \in DOMAIN blocks |-> IF VgComplete(n) THEN <<VgRace(n)>> ELSE <<>>])

\* No block but the last is cut off, and a write has a second access.
Paired ==
    \A n \in DOMAIN blocks :
        /\ n = Len(blocks) \/ IsWhole(n)
        /\ Len(blocks[n].acc) = 1 => blocks[n].acc[1].kind = "read"

\* Then there is one race file for each complete block with two accesses,
\* with their innermost frames, the write first: a write that waits never
\* meets the write of another block, nor another frame of its own stack.
VgExact ==
    mode = "valgrind" /\ Paired =>
    /\ IsPrefix(files, VgExpected)
    /\ pc # "scan" => files = VgExpected
=============================================================================
