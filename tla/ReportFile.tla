----------------------------- MODULE ReportFile -----------------------------
(***************************************************************************)
(* What the two report parsers have in common: a file of report lines,     *)
(* the boundary up to which its blocks are complete, the flags and lists   *)
(* of the line loop, and the race files written.                           *)
(*                                                                         *)
(* A line has a kind, which is the regular expression that it matches, and *)
(* for a line of a call stack the site, <<block, stack, frame>>, and what  *)
(* function or file it names.                                              *)
(***************************************************************************)
EXTENDS Integers, Sequences, SequencesExt, FiniteSetsExt

VARIABLES
    mode,             \* which of the parsers' loops runs
    blocks,           \* the races the detector reports
    raw,              \* the lines of the report file
    fp,               \* number of lines read from it
    pc,               \* "check", "scan" or "done"
    baseIndex,
    boundaryIndex,
    flagBlockStart,
    flagReadStart,
    flagWriteStart,
    writeResultList,
    readResultList,
    files             \* the race files written, each a list of sites

flags    == <<flagBlockStart, flagReadStart, flagWriteStart>>
lists    == <<writeResultList, readResultList>>
scanning == <<mode, blocks, raw, pc, baseIndex, boundaryIndex>>
rfVars   == <<scanning, fp, flags, lists, files>>

FrameKinds == {"app", "icp"}
Line(k)    == [kind |-> k]

\* A call stack of block n: a header and its frames.
Stack(n, a, header, frames) ==
    <<Line(header)>>
    \o [f \in 1 .. Len(frames) |-> [kind |-> "frame", site |-> <<n, a, f>>, fn |-> frames[f]]]

\* The sites of the frames of one kind, innermost first.
Sites(n, a, frames, K) ==
    LET in(f) == frames[f] \in K
    IN  [k \in 1 .. Len(SelectSeq(frames, LAMBDA x : x \in K)) |->
            <<n, a, CHOOSE f \in DOMAIN frames :
                        in(f) /\ Cardinality({g \in 1 .. f : in(g)}) = k>>]

\* A line of a report; a frame names a site.
Site          == Nat \X Nat \X Nat
LineOf(kinds) == [kind : kinds] \cup [kind : {"frame"}, site : Site, fn : FrameKinds]

FileInit(report) ==
    /\ raw = report
    /\ fp = 0
    /\ pc = "check"
    /\ baseIndex = 0
    /\ boundaryIndex = 0
    /\ flagBlockStart = FALSE
    /\ flagReadStart = FALSE
    /\ flagWriteStart = FALSE
    /\ writeResultList = <<>>
    /\ readResultList = <<>>
    /\ files = <<>>

\* The last end of a block in what is left of the file, counted from where
\* the file is read on; then the file is read from its beginning.
checkBlockIntegrity(end) ==
    LET ends == {k \in 1 .. Len(raw) - fp : k >= baseIndex /\ raw[fp + k].kind = end}
    IN  /\ pc = "check"
        /\ boundaryIndex' = IF ends = {} THEN baseIndex ELSE Max(ends)
        /\ fp' = 0
        /\ pc' = "scan"
        /\ UNCHANGED <<mode, blocks, raw, baseIndex, flags, lists, files>>

\* The next line is within the boundary and of kind k.
Reads(k) ==
    /\ pc = "scan"
    /\ baseIndex <= fp + 1
    /\ fp + 1 < boundaryIndex
    /\ raw[fp + 1].kind = k
    /\ fp' = fp + 1
    /\ UNCHANGED scanning

SkipLine ==
    /\ pc = "scan"
    /\ fp < Len(raw)
    /\ fp + 1 < baseIndex
    /\ fp' = fp + 1
    /\ UNCHANGED <<scanning, flags, lists, files>>

\* The line at the boundary, or the end of the file.
AtBoundary ==
    /\ pc = "scan"
    /\ fp = Len(raw) \/ (baseIndex <= fp + 1 /\ boundaryIndex <= fp + 1)
    /\ fp' = IF fp = Len(raw) THEN fp ELSE fp + 1

\* A race file with the lists ws and rs, if both are there.
WriteRace(ws, rs) ==
    IF ws # <<>> /\ rs # <<>>
    THEN files' = Append(files, ws \o rs) /\ writeResultList' = <<>> /\ readResultList' = <<>>
    ELSE UNCHANGED <<files, lists>>

----------------------------------------------------------------------------
(* Where in the report a site comes from.                                  *)

\* There is a header of kind k above line i, in the same stack: none of the
\* lines in between ends it.
Under(i, k, ends) ==
    \E h \in 1 .. i : raw[h].kind = k /\ \A m \in h .. i : raw[m].kind \notin ends

\* Line i is a frame of the program's own in a stack of kind k.
InStack(i, k, ends) == raw[i].kind = "frame" /\ raw[i].fn = "app" /\ Under(i, k, ends)

\* Between lines i and j no block breaks.
SameBlock(i, j, breaks) ==
    \A m \in DOMAIN raw : (i < m /\ m < j) \/ (j < m /\ m < i) => raw[m].kind \notin breaks

\* Site x was read in a stack of kind k of the current block.
Taken(x, k, ends, breaks) ==
    \E i \in 1 .. fp :
        /\ InStack(i, k, ends) /\ x = raw[i].site
        /\ \A m \in i .. fp : raw[m].kind \notin breaks

\* Right above line n is a header of kind k, or only frames of interceptors
\* are in between, if these are skipped.
Opens(n, k, skips) ==
    \E h \in 1 .. n :
        /\ raw[h].kind = k
        /\ \A m \in h + 1 .. n : skips /\ raw[m].kind = "frame" /\ raw[m].fn = "icp"

\* Line i is the innermost frame of the program's own in a stack of kind k,
\* the first one of such a stack in its block.
Leads(i, k, ends, breaks, skips) ==
    /\ raw[i].kind = "frame" /\ raw[i].fn = "app" /\ Opens(i - 1, k, skips)
    /\ \A m \in 1 .. i - 1 : InStack(m, k, ends) => ~SameBlock(m, i, breaks)

\* The block of line i is the current one.
Current(i, breaks) == \A m \in i .. fp : raw[m].kind \notin breaks

\* Site x is that of a frame in a stack of kind k, behind line a and not
\* behind line b.
Within(x, k, ends, a, b) == \E i \in a + 1 .. b : InStack(i, k, ends) /\ x = raw[i].site

\* There is a race file of the frames i and j.
Written(i, j) == <<raw[i].site, raw[j].site>> \in ToSet(files)
=============================================================================
