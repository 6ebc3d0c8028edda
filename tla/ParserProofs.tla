---------------------------- MODULE ParserProofs ----------------------------
(***************************************************************************)
(* Proofs about the report parsers, for every report file: whatever lines  *)
(* it has, however often it is scanned and however it grows in between.    *)
(***************************************************************************)
EXTENDS TsanParser, ValgrindParser, SequenceLemmas

\* The report and the position in it.
Position(kinds) ==
    raw \in Seq(LineOf(kinds)) /\ fp \in 0 .. Len(raw) /\ boundaryIndex \in 0 .. Len(raw)

\* The line that a loop is at, and the kind that lets it be read.
LEMMA ReadsLine ==
    ASSUME NEW kinds, Position(kinds), NEW k, Reads(k)
    PROVE  /\ fp + 1 \in DOMAIN raw /\ fp + 1 \in 1 .. Len(raw) /\ raw[fp + 1].kind = k
           /\ raw[fp + 1] \in LineOf(kinds)
           /\ pc = "scan" /\ fp \in Nat /\ fp' = fp + 1
           /\ mode' = mode /\ raw' = raw /\ pc' = pc
           /\ baseIndex' = baseIndex /\ boundaryIndex' = boundaryIndex /\ blocks' = blocks
  BY DEF Position, Reads, scanning

\* The lines with a site are the frames.
LEMMA FrameFields ==
    ASSUME NEW kinds, "frame" \notin kinds, NEW l \in LineOf(kinds), l.kind = "frame"
    PROVE  l.site \in Site /\ l.fn \in FrameKinds
  BY DEF LineOf

\* Lists of sites.
LEMMA SiteLists ==
    /\ <<>> \in Seq(Site)
    /\ <<>> \in Seq(Seq(Site))
    /\ \A s \in Site : <<s>> \in Seq(Site)
    /\ \A s \in Site : Len(<<s>>) = 1
    /\ Len(<<>>) = 0
  OBVIOUS

\* Lists of one element, and the two of a race put together.
LEMMA ShortLists ==
    /\ ToSet(<<>>) = {}
    /\ \A x : ToSet(<<x>>) = {x}
    /\ \A s \in Seq(Site) : s # <<>> /\ Len(s) <= 1 => \E x \in Site : s = <<x>>
    /\ \A x, y \in Site : <<x>> \o <<y>> = <<x, y>>
  <1>1. ToSet(<<>>) = {}
    BY DEF ToSet
  <1>2. \A x : ToSet(<<x>>) = {x}
    BY DEF ToSet
  <1>3. ASSUME NEW s \in Seq(Site), s # <<>>, Len(s) <= 1
        PROVE  \E x \in Site : s = <<x>>
    <2>1. Len(s) \in Nat /\ Len(s) # 0
      BY <1>3, EmptySeq
    <2>2. Len(s) = 1
      BY <1>3, <2>1
    <2>3. s[1] \in Site
      BY <2>2, ElementOfSeq
    <2>4. s = <<s[1]>>
      BY <2>2
    <2> QED
      BY <2>3, <2>4
  <1>4. ASSUME NEW x \in Site, NEW y \in Site
        PROVE  <<x>> \o <<y>> = <<x, y>>
    <2>1. <<x>> \in Seq(Site) /\ <<y>> \in Seq(Site) /\ <<x, y>> \in Seq(Site)
      OBVIOUS
    <2>2. /\ <<x>> \o <<y>> \in Seq(Site) /\ Len(<<x>> \o <<y>>) = 2
          /\ (<<x>> \o <<y>>)[1] = x /\ (<<x>> \o <<y>>)[2] = y
      BY <2>1
    <2> DEFINE c == <<x>> \o <<y>>
    <2> HIDE DEF c
    <2>3. c \in Seq(Site) /\ Len(c) = 2 /\ c[1] = x /\ c[2] = y
      BY <2>2 DEF c
    <2>4. c = <<x, y>>
      BY <2>1, <2>3
    <2> QED
      BY <2>4 DEF c
  <1> QED
    BY <1>1, <1>2, <1>3, <1>4

\* The boundary is a line of the file behind baseIndex.
LEMMA Boundary ==
    ASSUME NEW kinds, Position(kinds), baseIndex \in 0 .. Len(raw), NEW end, checkBlockIntegrity(end)
    PROVE  boundaryIndex' \in baseIndex .. Len(raw)
  <1> DEFINE ends == {k \in 1 .. Len(raw) - fp : k >= baseIndex /\ raw[fp + k].kind = end}
  <1>0. fp \in 0 .. Len(raw) /\ Len(raw) \in Nat
    BY DEF Position
  <1>1. CASE ends = {}
    BY <1>0, <1>1 DEF checkBlockIntegrity
  <1>2. CASE ends # {}
    <2>1. ends \in SUBSET (0 .. Len(raw)) /\ \A k \in ends : k \in baseIndex .. Len(raw)
      BY <1>0
    <2> HIDE DEF ends
    <2>2. Max(ends) \in ends
      BY <1>0, <1>2, <2>1, Greatest
    <2>3. boundaryIndex' = Max(ends)
      BY <1>2 DEF checkBlockIntegrity, ends
    <2> QED
      BY <2>1, <2>2, <2>3
  <1> QED
    BY <1>1, <1>2

\* No line of the kind that is looked for is behind the boundary.
LEMMA AllBefore ==
    ASSUME NEW kinds, Position(kinds), baseIndex = 0, fp = 0, NEW end, checkBlockIntegrity(end)
    PROVE  \A t \in DOMAIN raw : raw[t].kind = end => t <= boundaryIndex'
  <1> DEFINE ends == {k \in 1 .. Len(raw) - fp : k >= baseIndex /\ raw[fp + k].kind = end}
  <1>0. Len(raw) \in Nat /\ DOMAIN raw = 1 .. Len(raw)
    BY DEF Position
  <1>1. boundaryIndex' = IF ends = {} THEN baseIndex ELSE Max(ends)
    BY DEF checkBlockIntegrity
  <1> SUFFICES ASSUME NEW t \in DOMAIN raw, raw[t].kind = end
               PROVE  t <= boundaryIndex'
    OBVIOUS
  <1>2. t \in ends /\ ends \in SUBSET (0 .. Len(raw))
    BY <1>0
  <1> HIDE DEF ends
  <1>3. \A k \in ends : k <= Max(ends)
    BY <1>0, <1>2, Greatest
  <1> QED
    BY <1>1, <1>2, <1>3

----------------------------------------------------------------------------
(* Where the sites come from.                                              *)

\* What is said of lines of the report depends on nothing else.
LEMMA SameReport ==
    ASSUME raw' = raw
    PROVE  /\ \A i, k, ends : Under(i, k, ends)' <=> Under(i, k, ends)
           /\ \A i, k, ends : InStack(i, k, ends)' <=> InStack(i, k, ends)
           /\ \A i, j, breaks : SameBlock(i, j, breaks)' <=> SameBlock(i, j, breaks)
  <1>1. \A i, k, ends : Under(i, k, ends)' <=> Under(i, k, ends)
    BY DEF Under
  <1>2. \A i, k, ends : InStack(i, k, ends)' <=> InStack(i, k, ends)
    BY <1>1 DEF InStack
  <1>3. \A i, j, breaks : SameBlock(i, j, breaks)' <=> SameBlock(i, j, breaks)
    BY DEF SameBlock
  <1> QED
    BY <1>1, <1>2, <1>3

\* A header opens a stack, and any line but its ends is in it.
LEMMA HeaderOpens ==
    ASSUME NEW i \in Nat \ {0}, NEW ends, raw[i].kind \notin ends
    PROVE  Under(i, raw[i].kind, ends)
  <1>1. i \in 1 .. i /\ \A m \in i .. i : m = i
    OBVIOUS
  <1> QED
    BY <1>1 DEF Under

\* A line that does not end the stack.
LEMMA StaysUnder ==
    ASSUME NEW n \in Nat, NEW k, NEW ends, Under(n, k, ends), raw[n + 1].kind \notin ends
    PROVE  Under(n + 1, k, ends)
  <1>1. PICK h \in 1 .. n : raw[h].kind = k /\ \A m \in h .. n : raw[m].kind \notin ends
    BY DEF Under
  <1>2. h \in 1 .. n + 1 /\ \A m \in h .. n + 1 : m \in h .. n \/ m = n + 1
    OBVIOUS
  <1> QED
    BY <1>1, <1>2 DEF Under

\* The flag of an access: its header is read, or the stack goes on.
LEMMA FlagStep ==
    ASSUME NEW kinds, Position(kinds), NEW kk, Reads(kk), NEW k, NEW ends, k \notin ends,
           kk = k \/ (Under(fp, k, ends) /\ kk \notin ends)
    PROVE  Under(fp, k, ends)'
  <1>1. fp \in Nat /\ fp' = fp + 1 /\ raw[fp + 1].kind = kk /\ raw' = raw
    BY ReadsLine
  <1>2. PICK n \in Nat : n = fp
    BY <1>1
  <1>3. Under(n + 1, k, ends)
    BY <1>1, <1>2, HeaderOpens, StaysUnder
  <1> QED
    BY <1>1, <1>2, <1>3 DEF Under

\* The frame that is read is in the stack.
LEMMA FrameInStack ==
    ASSUME NEW kinds, Position(kinds), Reads("frame"), NEW k, NEW ends, "frame" \notin ends,
           Under(fp, k, ends), raw[fp + 1].fn = "app", NEW i, i = fp + 1
    PROVE  InStack(i, k, ends) /\ InStack(i, k, ends)'
  <1>1. fp \in Nat /\ raw[fp + 1].kind = "frame" /\ raw' = raw
    BY ReadsLine
  <1>2. PICK n \in Nat : n = fp
    BY <1>1
  <1>3. Under(n + 1, k, ends)
    BY <1>1, <1>2, StaysUnder
  <1>4. InStack(i, k, ends)
    BY <1>1, <1>2, <1>3 DEF InStack
  <1> QED
    BY <1>1, <1>4, SameReport

\* The site of the next line is taken into a list.
LEMMA Takes ==
    ASSUME NEW kinds, Position(kinds), Reads("frame"), NEW k, NEW ends, "frame" \notin ends,
           NEW breaks, "frame" \notin breaks, Under(fp, k, ends), raw[fp + 1].fn = "app",
           NEW x, x = raw[fp + 1].site
    PROVE  Taken(x, k, ends, breaks)'
  <1>1. fp \in Nat /\ raw[fp + 1].kind = "frame" /\ fp' = fp + 1 /\ raw' = raw
    BY ReadsLine
  <1>2. PICK i : i = fp + 1
    OBVIOUS
  <1>3. InStack(i, k, ends)'
    BY <1>2, FrameInStack
  <1>4. i \in 1 .. fp' /\ \A m \in i .. fp' : m = i
    BY <1>1, <1>2
  <1>5. raw'[i].kind \notin breaks /\ x = raw'[i].site
    BY <1>1, <1>2
  <1> QED
    BY <1>3, <1>4, <1>5 DEF Taken

\* A site stays taken until the block breaks.
LEMMA KeepsTaken ==
    ASSUME NEW kinds, Position(kinds), NEW kk, Reads(kk), NEW breaks, kk \notin breaks,
           NEW x, NEW k, NEW ends, Taken(x, k, ends, breaks)
    PROVE  Taken(x, k, ends, breaks)'
  <1>1. fp \in Nat /\ raw[fp + 1].kind = kk /\ fp' = fp + 1 /\ raw' = raw
    BY ReadsLine
  <1>2. PICK i \in 1 .. fp :
           /\ InStack(i, k, ends) /\ x = raw[i].site
           /\ \A m \in i .. fp : raw[m].kind \notin breaks
    BY DEF Taken
  <1>3. InStack(i, k, ends)'
    BY <1>1, SameReport, <1>2
  <1>4. i \in 1 .. fp' /\ \A m \in i .. fp' : m \in i .. fp \/ m = fp + 1
    BY <1>1
  <1>5. \A m \in i .. fp' : raw'[m].kind \notin breaks
    BY <1>1, <1>2, <1>4
  <1> QED
    BY <1>1, <1>2, <1>3, <1>4, <1>5 DEF Taken

\* Two sites that are taken at the same time are of one block.
LEMMA Meets ==
    ASSUME NEW kinds, Position(kinds), NEW w, NEW r, NEW ends, NEW breaks,
           Taken(w, "write", ends, breaks), Taken(r, "read", ends, breaks)
    PROVE  \E i, j \in DOMAIN raw :
              /\ InStack(i, "write", ends) /\ InStack(j, "read", ends) /\ SameBlock(i, j, breaks)
              /\ <<w, r>> = <<raw[i].site, raw[j].site>>
  <1>1. fp \in 0 .. Len(raw) /\ Len(raw) \in Nat /\ DOMAIN raw = 1 .. Len(raw)
    BY DEF Position
  <1>2. PICK i \in 1 .. fp :
           /\ InStack(i, "write", ends) /\ w = raw[i].site
           /\ \A m \in i .. fp : raw[m].kind \notin breaks
    BY DEF Taken
  <1>3. PICK j \in 1 .. fp :
           /\ InStack(j, "read", ends) /\ r = raw[j].site
           /\ \A m \in j .. fp : raw[m].kind \notin breaks
    BY DEF Taken
  <1>4. i \in DOMAIN raw /\ j \in DOMAIN raw
    BY <1>1
  <1>5. ASSUME NEW m \in DOMAIN raw, (i < m /\ m < j) \/ (j < m /\ m < i)
        PROVE  m \in i .. fp \/ m \in j .. fp
    BY <1>1, <1>5
  <1>6. SameBlock(i, j, breaks)
    BY <1>2, <1>3, <1>5 DEF SameBlock
  <1> QED
    BY <1>2, <1>3, <1>4, <1>6

\* So do the headers above a line and the first frames of accesses.
LEMMA SameLeads ==
    ASSUME raw' = raw
    PROVE  /\ \A n, k, skips : Opens(n, k, skips)' <=> Opens(n, k, skips)
           /\ \A i, k, ends, breaks, skips :
                 Leads(i, k, ends, breaks, skips)' <=> Leads(i, k, ends, breaks, skips)
  <1>1. \A n, k, skips : Opens(n, k, skips)' <=> Opens(n, k, skips)
    BY DEF Opens
  <1>2. \A i, k, ends, breaks, skips :
           Leads(i, k, ends, breaks, skips)' <=> Leads(i, k, ends, breaks, skips)
    BY <1>1, SameReport DEF Leads
  <1> QED
    BY <1>1, <1>2

\* Line i and the lines up to n are of one block; an access of kind k among them.
UpTo(n, i, breaks)         == \A m \in i .. n : raw[m].kind \notin breaks
SeenAt(n, k, ends, breaks) == \E m \in 1 .. n : InStack(m, k, ends) /\ UpTo(n, m, breaks)

\* The first frames of the stacks of accesses of kind k, in the block of line n
\* and above line e in its block.
LeadsAt(n, k, ends, breaks, skips) ==
    {i \in 1 .. n : raw[i].kind = "frame" /\ UpTo(n, i, breaks) /\ Leads(i, k, ends, breaks, skips)}
EndedAt(e, k, ends, breaks, skips) ==
    {i \in 1 .. e - 1 :
        raw[i].kind = "frame" /\ SameBlock(i, e, breaks) /\ Leads(i, k, ends, breaks, skips)}

\* A header right above line n.
LEMMA OpensNext ==
    ASSUME NEW n \in Nat, NEW k, NEW skips, Opens(n + 1, k, skips)
    PROVE  \/ raw[n + 1].kind = k
           \/ skips /\ raw[n + 1].kind = "frame" /\ raw[n + 1].fn = "icp" /\ Opens(n, k, skips)
  <1>1. PICK h \in 1 .. n + 1 :
           /\ raw[h].kind = k
           /\ \A m \in h + 1 .. n + 1 : skips /\ raw[m].kind = "frame" /\ raw[m].fn = "icp"
    BY DEF Opens
  <1>2. CASE h = n + 1
    BY <1>1, <1>2
  <1>3. CASE h # n + 1
    <2>1. h \in 1 .. n /\ n + 1 \in h + 1 .. n + 1 /\ \A m \in h + 1 .. n : m \in h + 1 .. n + 1
      BY <1>3
    <2> QED
      BY <1>1, <2>1 DEF Opens
  <1> QED
    BY <1>2, <1>3

\* The first frame of a stack is in it, and in no other one.
LEMMA LeadsInStack ==
    ASSUME NEW i \in Nat \ {0}, NEW k, NEW ends, NEW breaks, NEW skips,
           k \notin ends, "frame" \notin ends, Leads(i, k, ends, breaks, skips)
    PROVE  InStack(i, k, ends)
  <1>1. raw[i].kind = "frame" /\ raw[i].fn = "app" /\ Opens(i - 1, k, skips)
    BY DEF Leads
  <1>2. PICK h \in 1 .. i - 1 :
           /\ raw[h].kind = k
           /\ \A m \in h + 1 .. i - 1 : skips /\ raw[m].kind = "frame" /\ raw[m].fn = "icp"
    BY <1>1 DEF Opens
  <1>3. h \in 1 .. i /\ \A m \in h .. i : m = h \/ m \in h + 1 .. i - 1 \/ m = i
    OBVIOUS
  <1>4. Under(i, k, ends)
    BY <1>1, <1>2, <1>3 DEF Under
  <1> QED
    BY <1>1, <1>4 DEF InStack

\* A frame is not below two headers.
LEMMA LeadsOne ==
    ASSUME NEW i \in Nat \ {0}, NEW ends, NEW breaks, NEW skips,
           Leads(i, "write", ends, breaks, skips), Leads(i, "read", ends, breaks, skips)
    PROVE  FALSE
  <1>1. Opens(i - 1, "write", skips) /\ Opens(i - 1, "read", skips)
    BY DEF Leads
  <1>2. PICK w \in 1 .. i - 1 :
           raw[w].kind = "write" /\ \A m \in w + 1 .. i - 1 : raw[m].kind = "frame"
    BY <1>1 DEF Opens
  <1>3. PICK r \in 1 .. i - 1 :
           raw[r].kind = "read" /\ \A m \in r + 1 .. i - 1 : raw[m].kind = "frame"
    BY <1>1 DEF Opens
  <1>4. w = r \/ w \in r + 1 .. i - 1 \/ r \in w + 1 .. i - 1
    OBVIOUS
  <1> QED
    BY <1>2, <1>3, <1>4

\* No line of the stack's kind has been read in the block before its first one.
LEMMA LeadsFirst ==
    ASSUME NEW kinds, raw \in Seq(LineOf(kinds)), NEW n \in Nat, n + 1 \in 1 .. Len(raw),
           NEW k, NEW ends, NEW breaks, NEW skips, Leads(n + 1, k, ends, breaks, skips)
    PROVE  ~SeenAt(n, k, ends, breaks)
  <1> SUFFICES ASSUME NEW m \in 1 .. n, InStack(m, k, ends), UpTo(n, m, breaks)
               PROVE  FALSE
    BY DEF SeenAt
  <1>1. m \in 1 .. (n + 1) - 1
    OBVIOUS
  <1>2. ~SameBlock(m, n + 1, breaks)
    BY <1>1 DEF Leads
  <1>3. \A d \in DOMAIN raw : (m < d /\ d < n + 1) \/ (n + 1 < d /\ d < m) => d \in m .. n
    OBVIOUS
  <1>4. SameBlock(m, n + 1, breaks)
    BY <1>3 DEF SameBlock, UpTo
  <1> QED
    BY <1>2, <1>4

\* What was of the current block stays so unless it breaks.
LEMMA UpToNext ==
    ASSUME NEW n \in Nat, NEW i \in 1 .. n + 1, NEW breaks
    PROVE  UpTo(n + 1, i, breaks) <=> raw[n + 1].kind \notin breaks /\ (i <= n => UpTo(n, i, breaks))
  <1>1. \A m \in i .. n + 1 : m = n + 1 \/ (i <= n /\ m \in i .. n)
    OBVIOUS
  <1>2. n + 1 \in i .. n + 1 /\ \A m \in i .. n : m \in i .. n + 1
    OBVIOUS
  <1> QED
    BY <1>1, <1>2 DEF UpTo

\* An access of the block stays one while the block goes on.
LEMMA SeenNext ==
    ASSUME NEW n \in Nat, NEW k, NEW ends, NEW breaks, SeenAt(n, k, ends, breaks),
           raw[n + 1].kind \notin breaks
    PROVE  SeenAt(n + 1, k, ends, breaks)
  <1>1. PICK m \in 1 .. n : InStack(m, k, ends) /\ UpTo(n, m, breaks)
    BY DEF SeenAt
  <1>2. m \in 1 .. n + 1 /\ UpTo(n + 1, m, breaks)
    BY <1>1, UpToNext
  <1> QED
    BY <1>1, <1>2 DEF SeenAt

\* A first frame is one of before, or the line that is read.
LEMMA LeadsNext ==
    ASSUME NEW n \in Nat, NEW k, NEW ends, NEW breaks, NEW skips
    PROVE  \A i \in LeadsAt(n + 1, k, ends, breaks, skips) :
              /\ raw[n + 1].kind \notin breaks
              /\ \/ i \in LeadsAt(n, k, ends, breaks, skips)
                 \/ i = n + 1 /\ raw[i].kind = "frame" /\ Leads(i, k, ends, breaks, skips)
  <1> SUFFICES ASSUME NEW i \in LeadsAt(n + 1, k, ends, breaks, skips)
               PROVE  /\ raw[n + 1].kind \notin breaks
                      /\ \/ i \in LeadsAt(n, k, ends, breaks, skips)
                         \/ i = n + 1 /\ raw[i].kind = "frame" /\ Leads(i, k, ends, breaks, skips)
    OBVIOUS
  <1>1. /\ i \in 1 .. n + 1 /\ raw[i].kind = "frame" /\ UpTo(n + 1, i, breaks)
        /\ Leads(i, k, ends, breaks, skips)
    BY DEF LeadsAt
  <1>2. raw[n + 1].kind \notin breaks /\ (i <= n => UpTo(n, i, breaks))
    BY <1>1, UpToNext
  <1>3. i = n + 1 \/ i \in 1 .. n
    BY <1>1
  <1> QED
    BY <1>1, <1>2, <1>3 DEF LeadsAt

\* What ended at the next line is what led up to this one.
LEMMA EndedLeads ==
    ASSUME NEW kinds, raw \in Seq(LineOf(kinds)), NEW n \in Nat, n + 1 \in 1 .. Len(raw),
           NEW k, NEW ends, NEW breaks, NEW skips, "frame" \notin breaks
    PROVE  EndedAt(n + 1, k, ends, breaks, skips) \subseteq LeadsAt(n, k, ends, breaks, skips)
  <1> SUFFICES ASSUME NEW i \in EndedAt(n + 1, k, ends, breaks, skips)
               PROVE  i \in LeadsAt(n, k, ends, breaks, skips)
    OBVIOUS
  <1>1. /\ i \in 1 .. n /\ raw[i].kind = "frame" /\ SameBlock(i, n + 1, breaks)
        /\ Leads(i, k, ends, breaks, skips)
    BY DEF EndedAt
  <1>2. \A m \in i .. n : m = i \/ (m \in DOMAIN raw /\ i < m /\ m < n + 1)
    BY <1>1
  <1>3. UpTo(n, i, breaks)
    BY <1>1, <1>2 DEF UpTo, SameBlock
  <1> QED
    BY <1>1, <1>3 DEF LeadsAt

\* What was taken into a list has been seen.
LEMMA TakenSeen ==
    ASSUME NEW x, NEW k, NEW ends, NEW breaks, Taken(x, k, ends, breaks)
    PROVE  SeenAt(fp, k, ends, breaks)
  BY DEF Taken, SeenAt, UpTo

\* A line below a header is the header, or so is the line above it.
LEMMA UnderNext ==
    ASSUME NEW n \in Nat, NEW k, NEW ends, Under(n + 1, k, ends)
    PROVE  raw[n + 1].kind \notin ends /\ (raw[n + 1].kind = k \/ Under(n, k, ends))
  <1>1. PICK h \in 1 .. n + 1 : raw[h].kind = k /\ \A m \in h .. n + 1 : raw[m].kind \notin ends
    BY DEF Under
  <1>2. n + 1 \in h .. n + 1 /\ \A m \in h .. n : m \in h .. n + 1
    OBVIOUS
  <1>3. h = n + 1 \/ h \in 1 .. n
    OBVIOUS
  <1> QED
    BY <1>1, <1>2, <1>3 DEF Under

\* The lines that a site is within may be more.
LEMMA WithinMore ==
    ASSUME NEW x, NEW k, NEW ends, NEW a \in Nat, NEW b \in Nat, Within(x, k, ends, a, b),
           NEW c \in Nat, c <= a, NEW d \in Nat, b <= d
    PROVE  Within(x, k, ends, c, d)
  <1>1. PICK i \in a + 1 .. b : InStack(i, k, ends) /\ x = raw[i].site
    BY DEF Within
  <1>2. i \in c + 1 .. d
    OBVIOUS
  <1> QED
    BY <1>1, <1>2 DEF Within

\* The line after those that have been read.
LEMMA WithinNext ==
    ASSUME NEW n \in Nat, NEW k, NEW ends, NEW x, NEW a \in 0 .. n,
           \/ Within(x, k, ends, a, n)
           \/ InStack(n + 1, k, ends) /\ x = raw[n + 1].site
    PROVE  Within(x, k, ends, a, n + 1)
  <1>1. CASE Within(x, k, ends, a, n)
    BY <1>1, WithinMore
  <1>2. CASE InStack(n + 1, k, ends) /\ x = raw[n + 1].site
    BY <1>2 DEF Within
  <1> QED
    BY <1>1, <1>2

\* The lines of a report stay where they are.
LEMMA SameWithin ==
    ASSUME raw' = raw
    PROVE  \A x, k, ends, a, b : Within(x, k, ends, a, b)' <=> Within(x, k, ends, a, b)
  BY SameReport DEF Within

----------------------------------------------------------------------------
(* tsanOutputParser.py                                                     *)

Loop   == mode \in SyncModes \cup ReadModes
Normal == mode \in SyncModes \cup {"conanalysis"}

TsanKinds == {"warning", "write", "read", "blank", "break", "summary", "other"}

LEMMA TsanPosition ==
    ASSUME TsanTypeOK, Loop
    PROVE  Position(TsanKinds)
  <1>1. /\ raw \in Seq(LineOf(TsanKinds)) /\ fp \in 0 .. Len(raw) /\ baseIndex \in 0 .. Len(raw)
        /\ boundaryIndex \in baseIndex .. Len(raw)
    BY DEF TsanTypeOK, Loop, ReportLine, TsanKinds
  <1> QED
    BY <1>1 DEF Position

\* The line that the loops are at.
LEMMA TsanReads ==
    ASSUME TsanTypeOK, Loop, NEW k, Reads(k)
    PROVE  /\ fp + 1 \in 1 .. Len(raw) /\ raw[fp + 1].kind = k
           /\ k = "frame" => raw[fp + 1].site \in Site /\ raw[fp + 1].fn \in FrameKinds
           /\ pc = "scan" /\ fp \in Nat /\ fp' = fp + 1
           /\ mode' = mode /\ raw' = raw /\ pc' = pc
           /\ baseIndex' = baseIndex /\ boundaryIndex' = boundaryIndex /\ blocks' = blocks
  <1>1. "frame" \notin TsanKinds
    BY DEF TsanKinds
  <1> QED
    BY <1>1, TsanPosition, ReadsLine, FrameFields

\* A race file is added, or none.
LEMMA FlushType ==
    ASSUME TsanTypeOK, Loop, Flush
    PROVE  /\ readResultList' \in Seq(Site) /\ writeResultList' \in Seq(Site)
           /\ files' \in Seq(Seq(Site))
           /\ readResultList' \in {readResultList, <<>>}
           /\ writeResultList' \in {writeResultList, <<>>}
  <1>1. /\ readResultList \in Seq(Site) /\ writeResultList \in Seq(Site) /\ files \in Seq(Seq(Site))
    BY DEF TsanTypeOK, Loop
  <1>2. writeResultList \o readResultList \in Seq(Site)
    BY <1>1
  <1>3. \A f \in Seq(Site) : Append(files, f) \in Seq(Seq(Site))
    BY <1>1
  <1> QED
    BY <1>1, <1>2, <1>3, SiteLists DEF Flush, WriteRace, lists

\* Every step keeps the types, a report that grows too.
LEMMA TypeStep == TsanTypeOK /\ Loop /\ [TsanNext \/ MoreLines]_rfVars => TsanTypeOK'
  <1> SUFFICES ASSUME TsanTypeOK, Loop, [TsanNext \/ MoreLines]_rfVars
               PROVE  TsanTypeOK'
    OBVIOUS
  <1>0. /\ pc \in {"check", "scan", "done"}
        /\ raw \in Seq(ReportLine)
        /\ fp \in 0 .. Len(raw)
        /\ baseIndex \in 0 .. Len(raw)
        /\ boundaryIndex \in baseIndex .. Len(raw)
        /\ flagBlockStart \in BOOLEAN /\ flagReadStart \in BOOLEAN /\ flagWriteStart \in BOOLEAN
        /\ readResultList \in Seq(Site) /\ writeResultList \in Seq(Site) /\ files \in Seq(Seq(Site))
        /\ mode \in SyncModes => Len(readResultList) <= 1 /\ Len(writeResultList) <= 1
        /\ mode \in ReadModes => writeResultList = <<>>
    BY DEF TsanTypeOK, Loop
  <1>a. SyncModes \cap ReadModes = {}
    BY DEF SyncModes, ReadModes
  <1>r. ASSUME NEW k, Reads(k),
               flagBlockStart' \in BOOLEAN, flagReadStart' \in BOOLEAN, flagWriteStart' \in BOOLEAN,
               readResultList' \in Seq(Site), writeResultList' \in Seq(Site), files' \in Seq(Seq(Site)),
               mode \in SyncModes => Len(readResultList') <= 1 /\ Len(writeResultList') <= 1,
               mode \in ReadModes => writeResultList' = <<>>
        PROVE  TsanTypeOK'
    <2>1. /\ fp' = fp + 1 /\ fp + 1 \in 1 .. Len(raw) /\ mode' = mode /\ raw' = raw /\ pc' = pc
          /\ baseIndex' = baseIndex /\ boundaryIndex' = boundaryIndex
      BY <1>r, TsanReads
    <2>2. fp' \in 0 .. Len(raw')
      BY <2>1
    <2> QED
      BY <1>0, <1>r, <2>1, <2>2 DEF TsanTypeOK
  <1>b. ASSUME flagBlockStart' \in BOOLEAN, flagReadStart' \in BOOLEAN, flagWriteStart' \in BOOLEAN,
               UNCHANGED <<lists, files>>, NEW k, Reads(k)
        PROVE  TsanTypeOK'
    BY <1>0, <1>b, <1>r DEF lists
  <1>1. CASE checkBlockIntegrity("break")
    <2>1. boundaryIndex' \in baseIndex .. Len(raw)
      BY <1>0, <1>1, TsanPosition, Boundary
    <2>2. /\ fp' = 0 /\ pc' = "scan"
          /\ mode' = mode /\ raw' = raw /\ baseIndex' = baseIndex
          /\ UNCHANGED <<flags, lists, files>>
      BY <1>1 DEF checkBlockIntegrity
    <2>3. fp' \in 0 .. Len(raw')
      BY <1>0, <2>2
    <2> QED
      BY <1>0, <2>1, <2>2, <2>3 DEF TsanTypeOK, flags, lists
  <1>2. CASE SkipLine
    <2>1. fp' \in 0 .. Len(raw) /\ UNCHANGED <<scanning, flags, lists, files>>
      BY <1>0, <1>2 DEF SkipLine
    <2> QED
      BY <1>0, <2>1 DEF TsanTypeOK, scanning, flags, lists
  <1>3. CASE EndOfScan
    <2>1. fp' \in 0 .. Len(raw)
      BY <1>0, <1>3 DEF EndOfScan, AtBoundary
    <2>2. /\ mode' = mode /\ raw' = raw /\ boundaryIndex' = boundaryIndex
          /\ UNCHANGED <<flags, lists, files>>
          /\ pc' \in {"check", "done"}
          /\ baseIndex' \in {baseIndex, boundaryIndex}
      BY <1>3 DEF EndOfScan
    <2>3. baseIndex' \in 0 .. Len(raw) /\ boundaryIndex' \in baseIndex' .. Len(raw)
      BY <1>0, <2>2
    <2> QED
      BY <1>0, <2>1, <2>2, <2>3 DEF TsanTypeOK, flags, lists
  <1>4. CASE BlockStart \/ WriteStart \/ ReadStart \/ OtherLine
    BY <1>0, <1>4, <1>b DEF BlockStart, WriteStart, ReadStart, OtherLine, flags
  <1>5. CASE SyncCallStackLine
    <2>1. Reads("frame") /\ mode \in SyncModes
      BY <1>5 DEF SyncCallStackLine
    <2>2. raw[fp + 1].site \in Site
      BY <2>1, TsanReads
    <2>3. /\ readResultList' \in {readResultList, <<raw[fp + 1].site>>}
          /\ writeResultList' \in {writeResultList, <<raw[fp + 1].site>>}
          /\ flagBlockStart' \in BOOLEAN /\ flagReadStart' \in BOOLEAN /\ flagWriteStart' \in BOOLEAN
          /\ files' = files
      BY <1>0, <1>5, Zenon DEF SyncCallStackLine
    <2> DEFINE l == <<raw[fp + 1].site>>
    <2>4. l \in Seq(Site) /\ Len(l) <= 1
      BY <2>2
    <2> HIDE DEF l
    <2>5. /\ readResultList' \in Seq(Site) /\ writeResultList' \in Seq(Site)
          /\ Len(readResultList') <= 1 /\ Len(writeResultList') <= 1
      BY <1>0, <2>1, <2>3, <2>4 DEF l
    <2> QED
      BY <1>0, <1>a, <1>r, <2>1, <2>3, <2>5
  <1>6. CASE ReadCallStackLine
    <2>1. Reads("frame") /\ mode \in ReadModes
      BY <1>6 DEF ReadCallStackLine
    <2>2. raw[fp + 1].site \in Site
      BY <2>1, TsanReads
    <2>3. Append(readResultList, raw[fp + 1].site) \in Seq(Site)
      BY <1>0, <2>2
    <2>4. /\ readResultList' \in {readResultList, Append(readResultList, raw[fp + 1].site)}
          /\ UNCHANGED <<flags, writeResultList, files>>
      BY <1>6 DEF ReadCallStackLine
    <2> QED
      BY <1>0, <1>a, <1>r, <2>1, <2>3, <2>4 DEF flags
  <1>7. CASE LineBreak \/ BlockEnd
    <2>1. Flush /\ (Reads("blank") \/ Reads("summary"))
      BY <1>7 DEF LineBreak, BlockEnd
    <2>2. flagBlockStart' \in BOOLEAN /\ flagReadStart' \in BOOLEAN /\ flagWriteStart' \in BOOLEAN
      BY <1>0, <1>7 DEF LineBreak, BlockEnd
    <2>3. /\ readResultList' \in Seq(Site) /\ writeResultList' \in Seq(Site)
          /\ files' \in Seq(Seq(Site))
          /\ readResultList' \in {readResultList, <<>>}
          /\ writeResultList' \in {writeResultList, <<>>}
      BY <2>1, FlushType
    <2>4. mode \in SyncModes => Len(readResultList') <= 1 /\ Len(writeResultList') <= 1
      BY <1>0, <2>3, SiteLists
    <2>5. mode \in ReadModes => writeResultList' = <<>>
      BY <1>0, <2>3
    <2>6. CASE Reads("blank")
      BY <1>r, <2>2, <2>3, <2>4, <2>5, <2>6
    <2>7. CASE Reads("summary")
      BY <1>r, <2>2, <2>3, <2>4, <2>5, <2>7
    <2> QED
      BY <2>1, <2>6, <2>7
  <1>8. CASE BlockBreak
    <2>1. /\ Reads("break") /\ readResultList' = <<>> /\ writeResultList' = <<>> /\ files' = files
          /\ flagBlockStart' = FALSE /\ flagReadStart' = FALSE /\ flagWriteStart' = FALSE
      BY <1>8 DEF BlockBreak
    <2>2. /\ readResultList' \in Seq(Site) /\ writeResultList' \in Seq(Site) /\ files' \in Seq(Seq(Site))
          /\ Len(readResultList') <= 1 /\ Len(writeResultList') <= 1
      BY <1>0, <2>1, SiteLists
    <2> QED
      BY <1>r, <2>1, <2>2
  <1>9. CASE MoreLines
    <2>1. PICK more \in Seq(ReportLine) : raw' = raw \o more
      BY <1>9 DEF MoreLines
    <2>2. /\ raw' \in Seq(ReportLine) /\ Len(raw') = Len(raw) + Len(more)
          /\ Len(more) \in Nat /\ Len(raw) \in Nat
      BY <1>0, <2>1
    <2>3. UNCHANGED <<mode, pc, fp, baseIndex, boundaryIndex, flags, lists, files>>
      BY <1>9 DEF MoreLines
    <2> DEFINE n == Len(raw)
               m == Len(raw')
    <2>4. n \in Nat /\ m \in Nat /\ n <= m
      BY <2>2
    <2>5. fp \in 0 .. n /\ baseIndex \in 0 .. n /\ boundaryIndex \in baseIndex .. n
      BY <1>0
    <2> HIDE DEF n, m
    <2>6. fp \in 0 .. m /\ baseIndex \in 0 .. m /\ boundaryIndex \in baseIndex .. m
      BY <2>4, <2>5
    <2> QED
      BY <1>0, <2>2, <2>3, <2>6 DEF TsanTypeOK, flags, lists, m
  <1>10. CASE UNCHANGED rfVars
    BY <1>0, <1>10 DEF TsanTypeOK, rfVars, scanning, flags, lists
  <1> QED
    BY <1>1, <1>2, <1>3, <1>4, <1>5, <1>6, <1>7, <1>8, <1>9, <1>10 DEF TsanNext

\* What ends a stack and a block depends on the loop only.
LEMMA SameLoop ==
    ASSUME mode' = mode
    PROVE  StackEnds' = StackEnds /\ Breaks' = Breaks
  BY DEF StackEnds, Breaks

\* The lines that end neither a stack nor a block.
LEMMA EndKinds ==
    /\ {"frame", "read", "write", "warning", "other"} \cap StackEnds = {}
    /\ "frame" \notin Breaks /\ Breaks \subseteq {"break"} /\ Breaks \subseteq StackEnds
    /\ mode \notin SyncModes => "break" \notin StackEnds
  BY DEF StackEnds, Breaks

\* What runNormalConAnalysis has taken is of a read.
LEMMA TakenIsRead ==
    ASSUME TsanTypeOK, Loop, NEW x, Taken(x, "read", StackEnds, Breaks)
    PROVE  ReadOf(x)
  <1>1. fp \in 0 .. Len(raw) /\ Len(raw) \in Nat /\ DOMAIN raw = 1 .. Len(raw)
    BY TsanPosition DEF Position
  <1>2. PICK i \in 1 .. fp : InStack(i, "read", StackEnds) /\ x = raw[i].site
    BY DEF Taken
  <1>3. i \in DOMAIN raw
    BY <1>1
  <1> QED
    BY <1>2, <1>3 DEF ReadOf

\* Race files stay what they were, and new ones are made of what was taken.
LEMMA SoundStep ==
    ASSUME raw' = raw, mode' = mode, TsanSound,
           \A f \in ToSet(files') :
               \/ f \in ToSet(files)
               \/ mode \in SyncModes /\ RaceOf(f)
               \/ mode = "conanalysis" /\ \A x \in ToSet(f) : ReadOf(x)
    PROVE  TsanSound'
  <1>1. "conanalysis" \notin SyncModes
    BY DEF SyncModes
  <1>2. /\ mode \in SyncModes => \A f \in ToSet(files') : RaceOf(f)
        /\ mode = "conanalysis" => \A f \in ToSet(files') : \A x \in ToSet(f) : ReadOf(x)
    BY <1>1 DEF TsanSound
  <1>3. PICK ends, breaks : ends = StackEnds /\ breaks = Breaks
    OBVIOUS
  <1>4. ends = StackEnds' /\ breaks = Breaks'
    BY <1>3, SameLoop
  <1>5. ASSUME NEW f, RaceOf(f)
        PROVE  RaceOf(f)'
    <2>1. PICK i, j \in DOMAIN raw :
             /\ InStack(i, "write", ends) /\ InStack(j, "read", ends) /\ SameBlock(i, j, breaks)
             /\ f = <<raw[i].site, raw[j].site>>
      BY <1>3, <1>5 DEF RaceOf
    <2>2. InStack(i, "write", ends)' /\ InStack(j, "read", ends)' /\ SameBlock(i, j, breaks)'
      BY <2>1, SameReport
    <2> QED
      BY <1>4, <2>1, <2>2 DEF RaceOf
  <1>6. ASSUME NEW x, ReadOf(x)
        PROVE  ReadOf(x)'
    <2>1. PICK i \in DOMAIN raw : InStack(i, "read", ends) /\ x = raw[i].site
      BY <1>3, <1>6 DEF ReadOf
    <2>2. InStack(i, "read", ends)'
      BY <2>1, SameReport
    <2> QED
      BY <1>4, <2>1, <2>2 DEF ReadOf
  <1> QED
    BY <1>2, <1>5, <1>6 DEF TsanSound

\* A line that is read keeps the flags and the lists to what they stand for.
LEMMA ScanStep ==
    ASSUME TsanTypeOK, ScanInv, Normal, NEW kk, Reads(kk),
           flagReadStart' => kk = "read" \/ (flagReadStart /\ kk \notin StackEnds),
           flagWriteStart' => kk = "write" \/ (flagWriteStart /\ kk \notin StackEnds),
           \A x \in ToSet(readResultList') :
               \/ x \in ToSet(readResultList) /\ kk \notin Breaks
               \/ Taken(x, "read", StackEnds, Breaks)',
           \A x \in ToSet(writeResultList') :
               \/ x \in ToSet(writeResultList) /\ kk \notin Breaks
               \/ Taken(x, "write", StackEnds, Breaks)'
    PROVE  ScanInv'
  <1>1. Loop
    BY DEF Normal, Loop, ReadModes
  <1>2. /\ pc = "scan" /\ mode' = mode /\ raw' = raw /\ pc' = pc /\ baseIndex' = baseIndex
        /\ Position(TsanKinds)
    BY <1>1, TsanReads, TsanPosition
  <1>3. PICK ends, breaks : ends = StackEnds /\ breaks = Breaks
    OBVIOUS
  <1>4. ends = StackEnds' /\ breaks = Breaks'
    BY <1>2, <1>3, SameLoop
  <1>5. "read" \notin ends /\ "write" \notin ends
    BY <1>3, EndKinds
  <1>6. /\ baseIndex = 0
        /\ flagReadStart => Under(fp, "read", ends)
        /\ flagWriteStart => Under(fp, "write", ends)
        /\ \A x \in ToSet(readResultList) : Taken(x, "read", ends, breaks)
        /\ \A x \in ToSet(writeResultList) : Taken(x, "write", ends, breaks)
    BY <1>2, <1>3 DEF ScanInv, Normal
  <1>7. flagReadStart' => Under(fp, "read", ends)'
    BY <1>2, <1>3, <1>5, <1>6, FlagStep
  <1>8. flagWriteStart' => Under(fp, "write", ends)'
    BY <1>2, <1>3, <1>5, <1>6, FlagStep
  <1>9. ASSUME NEW x \in ToSet(readResultList')
        PROVE  Taken(x, "read", ends, breaks)'
    <2>1. CASE Taken(x, "read", StackEnds, Breaks)'
      BY <1>4, <2>1 DEF Taken
    <2>2. CASE x \in ToSet(readResultList) /\ kk \notin breaks
      BY <1>2, <1>6, <2>2, KeepsTaken
    <2> QED
      BY <1>3, <1>9, <2>1, <2>2
  <1>10. ASSUME NEW x \in ToSet(writeResultList')
         PROVE  Taken(x, "write", ends, breaks)'
    <2>1. CASE Taken(x, "write", StackEnds, Breaks)'
      BY <1>4, <2>1 DEF Taken
    <2>2. CASE x \in ToSet(writeResultList) /\ kk \notin breaks
      BY <1>2, <1>6, <2>2, KeepsTaken
    <2> QED
      BY <1>3, <1>10, <2>1, <2>2
  <1> QED
    BY <1>2, <1>4, <1>6, <1>7, <1>8, <1>9, <1>10 DEF ScanInv

\* A site that is taken now, in the words of the loops.
LEMMA TsanTakes ==
    ASSUME TsanTypeOK, Loop, Reads("frame"), NEW k, Under(fp, k, StackEnds),
           raw[fp + 1].fn = "app", NEW x, x = raw[fp + 1].site
    PROVE  Taken(x, k, StackEnds, Breaks)'
  <1>1. mode' = mode /\ Position(TsanKinds)
    BY TsanReads, TsanPosition
  <1>2. PICK ends, breaks : ends = StackEnds /\ breaks = Breaks
    OBVIOUS
  <1>3. ends = StackEnds' /\ breaks = Breaks'
    BY <1>1, <1>2, SameLoop
  <1>4. "frame" \notin ends /\ "frame" \notin breaks
    BY <1>2, EndKinds
  <1>5. Taken(x, k, ends, breaks)'
    BY <1>1, <1>2, <1>4, Takes
  <1> QED
    BY <1>3, <1>5 DEF Taken

\* What a race file is made of when it is written.
LEMMA FlushSound ==
    ASSUME TsanTypeOK, ScanInv, TsanSound, Normal, NEW kk, Reads(kk), Flush
    PROVE  /\ TsanSound'
           /\ ToSet(readResultList') \subseteq ToSet(readResultList)
           /\ ToSet(writeResultList') \subseteq ToSet(writeResultList)
  <1>0. Loop /\ mode' = mode /\ raw' = raw /\ pc = "scan"
    BY TsanReads DEF Normal, Loop, ReadModes
  <1>1. /\ readResultList \in Seq(Site) /\ writeResultList \in Seq(Site) /\ files \in Seq(Seq(Site))
        /\ mode \in SyncModes => Len(readResultList) <= 1 /\ Len(writeResultList) <= 1
    BY <1>0 DEF TsanTypeOK, Loop
  <1>2. /\ \A x \in ToSet(readResultList) : Taken(x, "read", StackEnds, Breaks)
        /\ \A x \in ToSet(writeResultList) : Taken(x, "write", StackEnds, Breaks)
    BY <1>0 DEF ScanInv, Normal
  <1>3. /\ readResultList' \in {readResultList, <<>>}
        /\ writeResultList' \in {writeResultList, <<>>}
    BY <1>0, FlushType
  <1>4. ASSUME files' = files
        PROVE  TsanSound'
    BY <1>0, <1>4, SoundStep
  <1>5. ASSUME NEW g \in Seq(Site), files' = Append(files, g),
               \/ mode \in SyncModes /\ RaceOf(g)
               \/ mode = "conanalysis" /\ \A x \in ToSet(g) : ReadOf(x)
        PROVE  TsanSound'
    <2>1. ToSet(files') = ToSet(files) \cup {g}
      BY <1>1, <1>5, AppendToSet
    <2> QED
      BY <1>0, <1>5, <2>1, SoundStep
  <1>6. TsanSound'
    <2>1. CASE mode \in SyncModes
      <3>1. mode \notin ReadModes
        BY <2>1 DEF SyncModes, ReadModes
      <3>2. WriteRace(writeResultList, readResultList)
        BY <3>1 DEF Flush
      <3>3. CASE writeResultList # <<>> /\ readResultList # <<>>
        <4>1. PICK w \in Site : writeResultList = <<w>>
          BY <1>1, <2>1, <3>3, ShortLists
        <4>2. PICK r \in Site : readResultList = <<r>>
          BY <1>1, <2>1, <3>3, ShortLists
        <4>3. Taken(w, "write", StackEnds, Breaks) /\ Taken(r, "read", StackEnds, Breaks)
          BY <1>2, <4>1, <4>2, ShortLists
        <4>4. RaceOf(<<w, r>>)
          BY <1>0, <4>3, TsanPosition, Meets DEF RaceOf
        <4>5. files' = Append(files, <<w, r>>)
          BY <3>2, <3>3, <4>1, <4>2, ShortLists DEF WriteRace
        <4>6. <<w, r>> \in Seq(Site)
          OBVIOUS
        <4> QED
          BY <1>5, <2>1, <4>4, <4>5, <4>6
      <3>4. CASE ~(writeResultList # <<>> /\ readResultList # <<>>)
        BY <1>4, <3>2, <3>4 DEF WriteRace
      <3> QED
        BY <3>3, <3>4
    <2>2. CASE mode = "conanalysis"
      <3>1. files' = IF readResultList = <<>> THEN files ELSE Append(files, readResultList)
        BY <2>2 DEF Flush, SyncModes
      <3>2. \A x \in ToSet(readResultList) : ReadOf(x)
        BY <1>0, <1>2, TakenIsRead
      <3> QED
        BY <1>1, <1>4, <1>5, <2>2, <3>1, <3>2
    <2> QED
      BY <2>1, <2>2 DEF Normal
  <1> QED
    BY <1>3, <1>6, ShortLists

\* The first line of a report is never skipped: in the loops of the normal
\* modes baseIndex stays 0.
LEMMA SoundScanStep ==
    TsanInv /\ Normal /\ [TsanNext \/ MoreLines]_rfVars => TsanSound' /\ ScanInv'
  <1> SUFFICES ASSUME TsanTypeOK, TsanSound, ScanInv, Normal, [TsanNext \/ MoreLines]_rfVars
               PROVE  TsanSound' /\ ScanInv'
    BY DEF TsanInv
  <1>0. /\ Loop /\ mode # "overnight"
        /\ mode \in SyncModes \/ mode = "conanalysis"
        /\ mode \in SyncModes <=> mode # "conanalysis"
        /\ mode \in ReadModes <=> mode = "conanalysis"
    BY DEF Normal, Loop, SyncModes, ReadModes
  <1>i. baseIndex = 0
    BY DEF ScanInv, Normal
  <1>k. ASSUME raw' = raw, mode' = mode, files' = files
        PROVE  TsanSound'
    BY <1>k, SoundStep
  <1>1. CASE checkBlockIntegrity("break")
    <2>1. /\ pc = "check" /\ pc' = "scan" /\ fp' = 0
          /\ mode' = mode /\ raw' = raw /\ baseIndex' = baseIndex
          /\ UNCHANGED <<flags, lists, files>>
      BY <1>1 DEF checkBlockIntegrity
    <2>2. /\ ~flagReadStart /\ ~flagWriteStart
          /\ readResultList = <<>> /\ writeResultList = <<>>
      BY <2>1 DEF ScanInv, Normal
    <2>3. ScanInv'
      BY <1>i, <2>1, <2>2, ShortLists DEF ScanInv, flags, lists
    <2> QED
      BY <1>k, <2>1, <2>3
  <1>2. CASE SkipLine
    <2>1. fp + 1 < 0 /\ fp \in Nat
      BY <1>0, <1>2, <1>i DEF SkipLine, TsanTypeOK, Loop
    <2> QED
      BY <2>1
  <1>3. CASE EndOfScan
    <2>1. /\ pc' = "done" /\ mode' = mode /\ raw' = raw /\ baseIndex' = baseIndex
          /\ UNCHANGED <<flags, lists, files>>
      BY <1>0, <1>3 DEF EndOfScan
    <2>2. ScanInv'
      BY <1>i, <2>1 DEF ScanInv
    <2> QED
      BY <1>k, <2>1, <2>2
  <1>4. CASE BlockStart \/ WriteStart \/ ReadStart \/ OtherLine
    <2>1. PICK kk \in {"warning", "write", "read", "other", "break"} :
             /\ Reads(kk)
             /\ UNCHANGED <<lists, files>>
             /\ flagReadStart' => kk = "read" \/ flagReadStart
             /\ flagWriteStart' => kk = "write" \/ flagWriteStart
             /\ kk = "break" => mode \in ReadModes
      BY <1>4 DEF BlockStart, WriteStart, ReadStart, OtherLine, flags
    <2>2. kk \notin StackEnds /\ kk \notin Breaks
      BY <1>0, <2>1, EndKinds DEF ReadModes, SyncModes
    <2>3. ScanInv'
      BY <2>1, <2>2, ScanStep DEF lists
    <2>4. raw' = raw /\ mode' = mode
      BY <1>0, <2>1, TsanReads
    <2> QED
      BY <1>k, <2>1, <2>3, <2>4
  <1>5. CASE SyncCallStackLine
    <2>1. Reads("frame") /\ mode \in SyncModes /\ files' = files
      BY <1>5 DEF SyncCallStackLine
    <2>2. raw' = raw /\ mode' = mode /\ pc = "scan" /\ raw[fp + 1].fn \in FrameKinds
      BY <1>0, <2>1, TsanReads
    <2>3. PICK x : x = raw[fp + 1].site
      OBVIOUS
    <2>4. /\ flagReadStart' => flagReadStart
          /\ flagWriteStart' => flagWriteStart
          /\ \/ readResultList' = readResultList
             \/ flagReadStart /\ raw[fp + 1].fn # "icp" /\ readResultList' = <<x>>
          /\ \/ writeResultList' = writeResultList
             \/ flagWriteStart /\ raw[fp + 1].fn # "icp" /\ writeResultList' = <<x>>
      BY <1>5, <2>3, Zenon DEF SyncCallStackLine
    <2>5. raw[fp + 1].fn # "icp" => raw[fp + 1].fn = "app"
      BY <2>2 DEF FrameKinds
    <2>6. /\ flagReadStart => Under(fp, "read", StackEnds)
          /\ flagWriteStart => Under(fp, "write", StackEnds)
      BY <2>2 DEF ScanInv, Normal
    <2>7. ASSUME readResultList' # readResultList
          PROVE  readResultList' = <<x>> /\ Taken(x, "read", StackEnds, Breaks)'
      BY <1>0, <2>1, <2>3, <2>4, <2>5, <2>6, <2>7, TsanTakes
    <2>8. ASSUME writeResultList' # writeResultList
          PROVE  writeResultList' = <<x>> /\ Taken(x, "write", StackEnds, Breaks)'
      BY <1>0, <2>1, <2>3, <2>4, <2>5, <2>6, <2>8, TsanTakes
    <2>9. \A y \in ToSet(readResultList') :
             y \in ToSet(readResultList) \/ Taken(y, "read", StackEnds, Breaks)'
      <3>1. CASE readResultList' = readResultList
        BY <3>1
      <3>2. CASE readResultList' # readResultList
        <4>1. ToSet(readResultList') = {x}
          BY <2>7, <3>2, ShortLists
        <4>2. Taken(x, "read", StackEnds, Breaks)'
          BY <2>7, <3>2
        <4> QED
          BY <4>1, <4>2
      <3> QED
        BY <3>1, <3>2
    <2>10. \A y \in ToSet(writeResultList') :
             y \in ToSet(writeResultList) \/ Taken(y, "write", StackEnds, Breaks)'
      <3>1. CASE writeResultList' = writeResultList
        BY <3>1
      <3>2. CASE writeResultList' # writeResultList
        <4>1. ToSet(writeResultList') = {x}
          BY <2>8, <3>2, ShortLists
        <4>2. Taken(x, "write", StackEnds, Breaks)'
          BY <2>8, <3>2
        <4> QED
          BY <4>1, <4>2
      <3> QED
        BY <3>1, <3>2
    <2>11. "frame" \notin StackEnds /\ "frame" \notin Breaks
      BY EndKinds
    <2>12. ScanInv'
      BY <2>1, <2>4, <2>9, <2>10, <2>11, ScanStep
    <2> QED
      BY <1>k, <2>1, <2>2, <2>12
  <1>6. CASE ReadCallStackLine
    <2>1. Reads("frame") /\ mode = "conanalysis" /\ UNCHANGED <<flags, writeResultList, files>>
      BY <1>0, <1>6 DEF ReadCallStackLine
    <2>2. /\ raw' = raw /\ mode' = mode /\ pc = "scan"
          /\ raw[fp + 1].fn \in FrameKinds /\ raw[fp + 1].site \in Site
      BY <1>0, <2>1, TsanReads
    <2>3. PICK x \in Site : x = raw[fp + 1].site
      BY <2>2
    <2>4. \/ readResultList' = readResultList
          \/ flagReadStart /\ raw[fp + 1].fn # "icp" /\ readResultList' = Append(readResultList, x)
      BY <1>0, <1>6, <2>3 DEF ReadCallStackLine
    <2>5. raw[fp + 1].fn # "icp" => raw[fp + 1].fn = "app"
      BY <2>2 DEF FrameKinds
    <2>6. flagReadStart => Under(fp, "read", StackEnds)
      BY <2>2 DEF ScanInv, Normal
    <2>7. \A y \in ToSet(readResultList') :
             y \in ToSet(readResultList) \/ Taken(y, "read", StackEnds, Breaks)'
      <3>1. CASE readResultList' = readResultList
        BY <3>1
      <3>2. CASE readResultList' # readResultList
        <4>1. Taken(x, "read", StackEnds, Breaks)'
          BY <1>0, <2>1, <2>3, <2>4, <2>5, <2>6, <3>2, TsanTakes
        <4>2. readResultList \in Seq(Site)
          BY <1>0 DEF TsanTypeOK, Loop
        <4>3. ToSet(Append(readResultList, x)) = ToSet(readResultList) \cup {x}
          BY <4>2, AppendToSet
        <4>4. readResultList' = Append(readResultList, x)
          BY <2>4, <3>2
        <4> QED
          BY <4>1, <4>3, <4>4
      <3> QED
        BY <3>1, <3>2
    <2>8. "frame" \notin StackEnds /\ "frame" \notin Breaks
      BY EndKinds
    <2>9. ScanInv'
      BY <2>1, <2>7, <2>8, ScanStep DEF flags
    <2> QED
      BY <1>k, <2>1, <2>2, <2>9
  <1>7. CASE LineBreak \/ BlockEnd
    <2>1. PICK kk \in {"blank", "summary"} : Reads(kk) /\ Flush
      BY <1>7 DEF LineBreak, BlockEnd
    <2>2. flagReadStart' = FALSE /\ flagWriteStart' = FALSE
      BY <1>7 DEF LineBreak, BlockEnd
    <2>3. /\ TsanSound'
          /\ ToSet(readResultList') \subseteq ToSet(readResultList)
          /\ ToSet(writeResultList') \subseteq ToSet(writeResultList)
      BY <2>1, FlushSound
    <2>4. kk \notin Breaks
      BY EndKinds
    <2>5. ScanInv'
      BY <2>1, <2>2, <2>3, <2>4, ScanStep
    <2> QED
      BY <2>3, <2>5
  <1>8. CASE BlockBreak
    <2>1. /\ Reads("break") /\ readResultList' = <<>> /\ writeResultList' = <<>> /\ files' = files
          /\ flagReadStart' = FALSE /\ flagWriteStart' = FALSE
      BY <1>8 DEF BlockBreak
    <2>2. ToSet(readResultList') = {} /\ ToSet(writeResultList') = {}
      BY <2>1, ShortLists
    <2>3. ScanInv'
      BY <2>1, <2>2, ScanStep
    <2>4. raw' = raw /\ mode' = mode
      BY <1>0, <2>1, TsanReads
    <2> QED
      BY <1>k, <2>1, <2>3, <2>4
  <1>9. CASE MoreLines
    <2>1. /\ pc = "check" /\ pc' = pc /\ mode' = mode /\ baseIndex' = baseIndex
          /\ UNCHANGED <<flags, lists, files>>
      BY <1>9 DEF MoreLines
    <2>2. /\ ~flagReadStart /\ ~flagWriteStart
          /\ readResultList = <<>> /\ writeResultList = <<>> /\ files = <<>>
      BY <2>1 DEF ScanInv, Normal
    <2>3. ScanInv'
      BY <1>i, <2>1, <2>2 DEF ScanInv, flags, lists
    <2>4. ToSet(files') = {}
      BY <2>1, <2>2, ShortLists
    <2>5. TsanSound'
      BY <2>4 DEF TsanSound
    <2> QED
      BY <2>3, <2>5
  <1>10. CASE UNCHANGED rfVars
    <2>1. UNCHANGED <<mode, raw, fp, pc, baseIndex, flags, lists, files>>
      BY <1>10 DEF rfVars, scanning
    <2>2. \A x, k : Taken(x, k, StackEnds, Breaks)' <=> Taken(x, k, StackEnds, Breaks)
      BY <2>1 DEF Taken, InStack, Under, StackEnds, Breaks
    <2>3. \A k : Under(fp, k, StackEnds)' <=> Under(fp, k, StackEnds)
      BY <2>1 DEF Under, StackEnds, Breaks
    <2>4. ScanInv'
      BY <2>1, <2>2, <2>3 DEF ScanInv, flags, lists
    <2> QED
      BY <1>k, <2>1, <2>4
  <1> QED
    BY <1>1, <1>2, <1>3, <1>4, <1>5, <1>6, <1>7, <1>8, <1>9, <1>10 DEF TsanNext

----------------------------------------------------------------------------
(* No race is missed: what the loops have read is written or in the lists. *)

TsanSeen(n, k)   == SeenAt(n, k, StackEnds, Breaks)
TsanLed(n, k)    == LeadsAt(n, k, StackEnds, Breaks, mode = "verifier")
TsanEnded(e, k)  == EndedAt(e, k, StackEnds, Breaks, mode = "verifier")
PairOf(i, j)     == <<raw[i].site, raw[j].site>>

\* PairInv, when the first n lines are read, of lists ws and rs and race files fs.
LoneAt(n, k, other, list) ==
    \A i \in TsanLed(n, k) : list = <<raw[i].site>> \/ TsanSeen(n, other)
PairsAt(n, ws, rs, fs) ==
    \A i \in TsanLed(n, "write"), j \in TsanLed(n, "read") :
        \/ PairOf(i, j) \in ToSet(fs)
        \/ /\ ws = <<raw[i].site>> /\ rs = <<raw[j].site>>
           /\ \A e \in 1 .. n : i < e /\ j < e => ~Flushes(e)
EndsAt(n, fs) ==
    \A e \in 1 .. n : Flushes(e) =>
        \A i \in TsanEnded(e, "write"), j \in TsanEnded(e, "read") : PairOf(i, j) \in ToSet(fs)

PairAt(n, ws, rs, fs) ==
    /\ LoneAt(n, "write", "read", ws)
    /\ LoneAt(n, "read", "write", rs)
    /\ PairsAt(n, ws, rs, fs)
    /\ EndsAt(n, fs)

\* The line behind line n of the report.
AtLine(n) ==
    raw \in Seq(LineOf(TsanKinds)) /\ n \in Nat /\ n + 1 \in 1 .. Len(raw) /\ mode \in SyncModes

\* LeadsNext, SeenNext and LeadsFirst for the blocks of this parser.
LEMMA TsanLedNext ==
    ASSUME NEW n, AtLine(n), NEW k
    PROVE  \A i \in TsanLed(n + 1, k) :
              /\ raw[n + 1].kind \notin Breaks
              /\ \/ i \in TsanLed(n, k)
                 \/ i = n + 1 /\ raw[i].kind = "frame" /\ TsanLeads(i, k)
  BY LeadsNext DEF AtLine, TsanLed, TsanLeads

LEMMA TsanSeenNext ==
    ASSUME NEW n, AtLine(n), NEW k, raw[n + 1].kind \notin Breaks, TsanSeen(n, k)
    PROVE  TsanSeen(n + 1, k)
  BY SeenNext DEF AtLine, TsanSeen

\* The first frame of an access in a block is read when there is none of it yet.
LEMMA TsanFirst ==
    ASSUME NEW n, AtLine(n), NEW k, TsanLeads(n + 1, k)
    PROVE  ~TsanSeen(n, k)
  BY LeadsFirst DEF AtLine, TsanSeen, TsanLeads

\* A list that is empty or full, with a line that does not end a stack.
LEMMA LoneNext ==
    ASSUME NEW n, AtLine(n), NEW k, NEW other, NEW list, NEW new,
           raw[n + 1].kind \notin Breaks, LoneAt(n, k, other, list),
           \A i \in TsanLed(n, k) : list = <<raw[i].site>> => new = list \/ TsanSeen(n, other),
           raw[n + 1].kind = "frame" /\ TsanLeads(n + 1, k) => new = <<raw[n + 1].site>>
    PROVE  LoneAt(n + 1, k, other, new)
  <1> SUFFICES ASSUME NEW i \in TsanLed(n + 1, k)
               PROVE  new = <<raw[i].site>> \/ TsanSeen(n + 1, other)
    BY DEF LoneAt
  <1>1. CASE i \in TsanLed(n, k)
    <2>1. list = <<raw[i].site>> \/ TsanSeen(n, other)
      BY <1>1 DEF LoneAt
    <2> QED
      BY <1>1, <2>1, TsanSeenNext
  <1>2. CASE i = n + 1 /\ raw[i].kind = "frame" /\ TsanLeads(i, k)
    BY <1>2
  <1> QED
    BY <1>1, <1>2, TsanLedNext

\* The end of a line that flushes nothing.
LEMMA EndsNext ==
    ASSUME NEW n, AtLine(n), NEW fs, EndsAt(n, fs), ~Flushes(n + 1)
    PROVE  EndsAt(n + 1, fs)
  <1>1. \A e \in 1 .. n + 1 : e = n + 1 \/ e \in 1 .. n
    BY DEF AtLine
  <1> QED
    BY <1>1 DEF EndsAt

\* A line of no frame, no stack's end and no block's.
LEMMA QuietPairs ==
    ASSUME NEW n, AtLine(n), NEW ws, NEW rs, NEW fs, PairAt(n, ws, rs, fs),
           raw[n + 1].kind \in {"warning", "write", "read", "other"}
    PROVE  PairAt(n + 1, ws, rs, fs)
  <1>1. raw[n + 1].kind \notin Breaks /\ raw[n + 1].kind # "frame" /\ ~Flushes(n + 1)
    BY EndKinds DEF Flushes
  <1>2. LoneAt(n + 1, "write", "read", ws) /\ LoneAt(n + 1, "read", "write", rs)
    BY <1>1, LoneNext DEF PairAt
  <1>3. PairsAt(n + 1, ws, rs, fs)
    <2>1. \A e \in 1 .. n + 1 : e = n + 1 \/ e \in 1 .. n
      BY DEF AtLine
    <2>2. \A k : \A i \in TsanLed(n + 1, k) : i \in TsanLed(n, k)
      BY <1>1, TsanLedNext
    <2> QED
      BY <1>1, <2>1, <2>2 DEF PairAt, PairsAt
  <1> QED
    BY <1>1, <1>2, <1>3, EndsNext DEF PairAt

\* A frame fills the list of its access, if it is the first one.
LEMMA FramePairs ==
    ASSUME NEW n, AtLine(n), NEW ws, NEW rs, NEW fs, PairAt(n, ws, rs, fs),
           raw[n + 1].kind = "frame",
           ws # <<>> => TsanSeen(n, "write"), rs # <<>> => TsanSeen(n, "read"),
           NEW ws2, ws # <<>> => ws2 = ws,
           ws = <<>> /\ TsanLeads(n + 1, "write") => ws2 = <<raw[n + 1].site>>,
           NEW rs2, rs # <<>> => rs2 = rs,
           rs = <<>> /\ TsanLeads(n + 1, "read") => rs2 = <<raw[n + 1].site>>
    PROVE  PairAt(n + 1, ws2, rs2, fs)
  <1>1. raw[n + 1].kind \notin Breaks /\ ~Flushes(n + 1) /\ n \in Nat
    BY EndKinds DEF Flushes, AtLine
  <1>2. /\ TsanLeads(n + 1, "write") => ws = <<>> /\ ws2 = <<raw[n + 1].site>>
        /\ TsanLeads(n + 1, "read") => rs = <<>> /\ rs2 = <<raw[n + 1].site>>
    BY TsanFirst
  <1>3. \A x : ws = <<x>> => ws2 = ws
    OBVIOUS
  <1>4. \A x : rs = <<x>> => rs2 = rs
    OBVIOUS
  <1>5. LoneAt(n + 1, "write", "read", ws2)
    BY <1>1, <1>2, <1>3, LoneNext DEF PairAt
  <1>6. LoneAt(n + 1, "read", "write", rs2)
    BY <1>1, <1>2, <1>4, LoneNext DEF PairAt
  <1>7. PairsAt(n + 1, ws2, rs2, fs)
    <2> SUFFICES ASSUME NEW i \in TsanLed(n + 1, "write"), NEW j \in TsanLed(n + 1, "read")
                 PROVE  \/ PairOf(i, j) \in ToSet(fs)
                        \/ /\ ws2 = <<raw[i].site>> /\ rs2 = <<raw[j].site>>
                           /\ \A e \in 1 .. n + 1 : i < e /\ j < e => ~Flushes(e)
      BY DEF PairsAt
    <2>1. \/ i \in TsanLed(n, "write")
          \/ i = n + 1 /\ TsanLeads(i, "write")
      BY TsanLedNext
    <2>2. \/ j \in TsanLed(n, "read")
          \/ j = n + 1 /\ TsanLeads(j, "read")
      BY TsanLedNext
    <2>3. \A e \in 1 .. n + 1 : e = n + 1 \/ e \in 1 .. n
      BY <1>1
    <2>4. CASE i \in TsanLed(n, "write") /\ j \in TsanLed(n, "read")
      <3>1. CASE PairOf(i, j) \in ToSet(fs)
        BY <3>1
      <3>2. CASE /\ ws = <<raw[i].site>> /\ rs = <<raw[j].site>>
                 /\ \A e \in 1 .. n : i < e /\ j < e => ~Flushes(e)
        <4>1. ws2 = <<raw[i].site>> /\ rs2 = <<raw[j].site>>
          BY <1>3, <1>4, <3>2
        <4>2. \A e \in 1 .. n + 1 : i < e /\ j < e => ~Flushes(e)
          BY <1>1, <2>3, <3>2
        <4> QED
          BY <4>1, <4>2
      <3> QED
        BY <2>4, <3>1, <3>2 DEF PairAt, PairsAt
    <2>5. CASE i = n + 1 /\ TsanLeads(i, "write") /\ j \in TsanLed(n, "read")
      <3>1. ~TsanSeen(n, "write") /\ ws2 = <<raw[i].site>>
        BY <1>2, <2>5, TsanFirst
      <3>2. rs = <<raw[j].site>>
        BY <2>5, <3>1 DEF PairAt, LoneAt
      <3>3. \A e \in 1 .. n + 1 : ~(i < e)
        BY <1>1, <2>5
      <3> QED
        BY <1>4, <3>1, <3>2, <3>3
    <2>6. CASE j = n + 1 /\ TsanLeads(j, "read") /\ i \in TsanLed(n, "write")
      <3>1. ~TsanSeen(n, "read") /\ rs2 = <<raw[j].site>>
        BY <1>2, <2>6, TsanFirst
      <3>2. ws = <<raw[i].site>>
        BY <2>6, <3>1 DEF PairAt, LoneAt
      <3>3. \A e \in 1 .. n + 1 : ~(j < e)
        BY <1>1, <2>6
      <3> QED
        BY <1>3, <3>1, <3>2, <3>3
    <2>7. CASE i = n + 1 /\ TsanLeads(i, "write") /\ j = n + 1 /\ TsanLeads(j, "read")
      BY <1>1, <2>7, LeadsOne DEF TsanLeads
    <2> QED
      BY <2>1, <2>2, <2>4, <2>5, <2>6, <2>7
  <1> QED
    BY <1>1, <1>5, <1>6, <1>7, EndsNext DEF PairAt

\* The end of a stack: both accesses are written, or one waits.
LEMMA FlushPairs ==
    ASSUME NEW n, AtLine(n), NEW ws, NEW rs, NEW fs, PairAt(n, ws, rs, fs),
           Flushes(n + 1),
           ws # <<>> => TsanSeen(n, "write"), rs # <<>> => TsanSeen(n, "read"),
           NEW ws2, NEW rs2, NEW fs2, \A f \in ToSet(fs) : f \in ToSet(fs2),
           ws = <<>> \/ rs = <<>> => ws2 = ws /\ rs2 = rs,
           \A x, y : ws = <<x>> /\ rs = <<y>> => <<x, y>> \in ToSet(fs2)
    PROVE  PairAt(n + 1, ws2, rs2, fs2)
  <1>1. raw[n + 1].kind \notin Breaks /\ raw[n + 1].kind # "frame" /\ n \in Nat
    BY EndKinds DEF Flushes, AtLine
  <1>2. \A k : \A i \in TsanLed(n + 1, k) : i \in TsanLed(n, k)
    BY <1>1, TsanLedNext
  <1>3. LoneAt(n + 1, "write", "read", ws2)
    BY <1>1, LoneNext DEF PairAt
  <1>4. LoneAt(n + 1, "read", "write", rs2)
    BY <1>1, LoneNext DEF PairAt
  <1>5. \A i \in TsanLed(n, "write"), j \in TsanLed(n, "read") : PairOf(i, j) \in ToSet(fs2)
    BY DEF PairAt, PairsAt, PairOf
  <1>6. PairsAt(n + 1, ws2, rs2, fs2)
    BY <1>2, <1>5 DEF PairsAt
  <1>7. EndsAt(n + 1, fs2)
    <2>1. \A k : TsanEnded(n + 1, k) \subseteq TsanLed(n, k)
      BY EndKinds, EndedLeads DEF AtLine, TsanEnded, TsanLed
    <2>2. \A e \in 1 .. n + 1 : e = n + 1 \/ e \in 1 .. n
      BY <1>1
    <2> QED
      BY <1>5, <2>1, <2>2 DEF EndsAt, PairAt
  <1> QED
    BY <1>3, <1>4, <1>6, <1>7 DEF PairAt

\* A block's end.
LEMMA BreakPairs ==
    ASSUME NEW n, AtLine(n), NEW ws, NEW rs, NEW fs, PairAt(n, ws, rs, fs),
           raw[n + 1].kind = "break", NEW ws2, NEW rs2
    PROVE  PairAt(n + 1, ws2, rs2, fs)
  <1>1. raw[n + 1].kind \in Breaks /\ ~Flushes(n + 1)
    BY DEF AtLine, Breaks, Flushes
  <1>2. \A k : \A i \in TsanLed(n + 1, k) : FALSE
    BY <1>1, TsanLedNext
  <1> QED
    BY <1>1, <1>2, EndsNext DEF PairAt, LoneAt, PairsAt

\* It is PairInv when n is the line that has been reached.
LEMMA PairInvAt ==
    PairInv <=> /\ Opens(fp, "read", mode = "verifier") => flagReadStart /\ flagBlockStart
                /\ Opens(fp, "write", mode = "verifier") => flagWriteStart /\ flagBlockStart
                /\ PairAt(fp, writeResultList, readResultList, files)
  BY Zenon DEF PairInv, PairAt, LoneAt, PairsAt, EndsAt, TsanLed, TsanSeen, TsanEnded, Ended,
               Current, LeadsAt, SeenAt, EndedAt, UpTo, TsanLeads, Written, PairOf

\* What does not depend on the lists is the same as long as the report is.
LEMMA TsanSame ==
    ASSUME raw' = raw, mode' = mode
    PROVE  /\ \A n, k : Opens(n, k, mode = "verifier")' <=> Opens(n, k, mode = "verifier")
           /\ \A i, k : TsanLeads(i, k)' <=> TsanLeads(i, k)
           /\ \A i, k : InStack(i, k, StackEnds)' <=> InStack(i, k, StackEnds)
           /\ \A i, k : Under(i, k, StackEnds)' <=> Under(i, k, StackEnds)
           /\ \A i, j : SameBlock(i, j, Breaks)' <=> SameBlock(i, j, Breaks)
           /\ \A e : Flushes(e)' <=> Flushes(e)
           /\ \A e : BlockEnds(e)' <=> BlockEnds(e)
  <1>1. PICK ends, breaks, skips : ends = StackEnds /\ breaks = Breaks /\ skips = (mode = "verifier")
    OBVIOUS
  <1>2. ends = StackEnds' /\ breaks = Breaks' /\ skips = (mode = "verifier")'
    BY <1>1, SameLoop
  <1>3. \A n, k : Opens(n, k, mode = "verifier")' <=> Opens(n, k, mode = "verifier")
    BY <1>1, <1>2, SameLeads
  <1>4. \A i, k : TsanLeads(i, k)' <=> TsanLeads(i, k)
    BY <1>1, <1>2, SameLeads DEF TsanLeads
  <1>5. \A i, k : InStack(i, k, StackEnds)' <=> InStack(i, k, StackEnds)
    BY <1>1, <1>2, SameReport
  <1>6. \A i, k : Under(i, k, StackEnds)' <=> Under(i, k, StackEnds)
    BY <1>1, <1>2, SameReport
  <1>7. \A i, j : SameBlock(i, j, Breaks)' <=> SameBlock(i, j, Breaks)
    BY <1>1, <1>2, SameReport
  <1>8. \A e : Flushes(e)' <=> Flushes(e)
    BY DEF Flushes
  <1>9. \A e : BlockEnds(e)' <=> BlockEnds(e)
    BY DEF BlockEnds
  <1> QED
    BY <1>3, <1>4, <1>5, <1>6, <1>7, <1>8, <1>9

\* The invariant of the next state, in the words of this one.
LEMMA PairInvNext ==
    ASSUME raw' = raw, mode' = mode, NEW n, n = fp',
           Opens(n, "read", mode = "verifier") => flagReadStart' /\ flagBlockStart',
           Opens(n, "write", mode = "verifier") => flagWriteStart' /\ flagBlockStart',
           PairAt(n, writeResultList', readResultList', files')
    PROVE  PairInv'
  <1>1. PICK ws, rs, fs : ws = writeResultList' /\ rs = readResultList' /\ fs = files'
    OBVIOUS
  <1>2. \A i, j : Written(i, j)' <=> PairOf(i, j) \in ToSet(fs)
    BY <1>1 DEF Written, PairOf
  <1>3. PICK breaks : breaks = Breaks
    OBVIOUS
  <1>4. \A i : Current(i, breaks)' <=> UpTo(n, i, breaks)
    BY DEF Current, UpTo
  <1>5. breaks = Breaks'
    BY <1>3, SameLoop
  <1>6. \A i : Current(i, Breaks)' <=> UpTo(n, i, Breaks)
    BY <1>3, <1>4, <1>5
  <1>7. \A k : {i \in 1 .. n : raw[i].kind = "frame" /\ Current(i, Breaks)' /\ TsanLeads(i, k)'}
               = TsanLed(n, k)
    BY <1>6, TsanSame DEF TsanLed, LeadsAt, TsanLeads
  <1>8. \A k : (\E i \in 1 .. n : InStack(i, k, StackEnds)' /\ Current(i, Breaks)') <=> TsanSeen(n, k)
    BY <1>6, TsanSame DEF TsanSeen, SeenAt
  <1>9. \A e, k : {i \in 1 .. e - 1 : raw[i].kind = "frame" /\ SameBlock(i, e, Breaks)' /\ TsanLeads(i, k)'}
                  = TsanEnded(e, k)
    BY TsanSame DEF TsanEnded, EndedAt, TsanLeads
  <1>a. \A e, k : Ended(k, e)' = TsanEnded(e, k)
    BY <1>9 DEF Ended
  <1>10. PairAt(n, ws, rs, fs)
    BY <1>1
  <1>11. \A i \in TsanLed(n, "write") : ws = <<raw[i].site>> \/ TsanSeen(n, "read")
    BY <1>10 DEF PairAt, LoneAt
  <1>12. \A i \in TsanLed(n, "read") : rs = <<raw[i].site>> \/ TsanSeen(n, "write")
    BY <1>10 DEF PairAt, LoneAt
  <1>13. \A i \in TsanLed(n, "write"), j \in TsanLed(n, "read") :
              \/ Written(i, j)'
              \/ /\ ws = <<raw[i].site>> /\ rs = <<raw[j].site>>
                 /\ \A e \in 1 .. n : i < e /\ j < e => ~Flushes(e)'
    BY <1>2, <1>10, TsanSame DEF PairAt, PairsAt
  <1>14. \A e \in 1 .. n : Flushes(e)' =>
              \A i \in Ended("write", e)', j \in Ended("read", e)' : Written(i, j)'
    BY <1>2, <1>a, <1>10, TsanSame DEF PairAt, EndsAt
  <1>15. /\ Opens(n, "read", mode = "verifier")' => flagReadStart' /\ flagBlockStart'
         /\ Opens(n, "write", mode = "verifier")' => flagWriteStart' /\ flagBlockStart'
    BY TsanSame
  <1> QED
    BY <1>1, <1>7, <1>8, <1>11, <1>12, <1>13, <1>14, <1>15 DEF PairInv

\* StackInv, when the first n lines are read, of a list and race files fs.
StackAt(n, list, fs) ==
    \A i \in 1 .. n : InStack(i, "read", StackEnds) =>
        \/ \E f \in ToSet(fs) : raw[i].site \in ToSet(f)
        \/ raw[i].site \in ToSet(list) /\ \A e \in i .. n : ~Flushes(e)

\* It is StackInv of the next state.
LEMMA StackInvNext ==
    ASSUME raw' = raw, mode' = mode, NEW n, n = fp',
           Under(n, "read", StackEnds) => flagReadStart' /\ flagBlockStart',
           StackAt(n, readResultList', files')
    PROVE  StackInv'
  <1>1. PICK rs, fs : rs = readResultList' /\ fs = files'
    OBVIOUS
  <1>2. StackAt(n, rs, fs)
    BY <1>1
  <1>3. \A i : Reported(i)' <=> \E f \in ToSet(fs) : raw[i].site \in ToSet(f)
    BY <1>1 DEF Reported
  <1>4. \A i \in 1 .. n : InStack(i, "read", StackEnds)' =>
           Reported(i)' \/ (raw[i].site \in ToSet(rs) /\ \A e \in i .. n : ~Flushes(e)')
    BY <1>2, <1>3, TsanSame DEF StackAt
  <1>5. Under(n, "read", StackEnds)' => flagReadStart' /\ flagBlockStart'
    BY TsanSame
  <1> QED
    BY <1>1, <1>4, <1>5 DEF StackInv

\* A line that leaves the lists and the files as they are, or adds to them.
LEMMA StackNext ==
    ASSUME NEW n \in Nat, NEW list, NEW fs, StackAt(n, list, fs), NEW list2, NEW fs2,
           \A f \in ToSet(fs) : f \in ToSet(fs2),
           \/ ~Flushes(n + 1) /\ ToSet(list) \subseteq ToSet(list2)
           \/ \A x \in ToSet(list) : \E f \in ToSet(fs2) : x \in ToSet(f),
           InStack(n + 1, "read", StackEnds) => raw[n + 1].site \in ToSet(list2) /\ ~Flushes(n + 1)
    PROVE  StackAt(n + 1, list2, fs2)
  <1> SUFFICES ASSUME NEW i \in 1 .. n + 1, InStack(i, "read", StackEnds)
               PROVE  \/ \E f \in ToSet(fs2) : raw[i].site \in ToSet(f)
                      \/ raw[i].site \in ToSet(list2) /\ \A e \in i .. n + 1 : ~Flushes(e)
    BY DEF StackAt
  <1>1. CASE i = n + 1
    <2>1. \A e \in i .. n + 1 : e = n + 1
      BY <1>1
    <2> QED
      BY <1>1, <2>1
  <1>2. CASE i \in 1 .. n
    <2>1. \A e \in i .. n + 1 : e = n + 1 \/ e \in i .. n
      BY <1>2
    <2>2. \/ \E f \in ToSet(fs) : raw[i].site \in ToSet(f)
          \/ raw[i].site \in ToSet(list) /\ \A e \in i .. n : ~Flushes(e)
      BY <1>2 DEF StackAt
    <2> QED
      BY <2>1, <2>2
  <1> QED
    BY <1>1, <1>2

\* While the file is read nothing else changes.
LEMMA ReadMiss ==
    ASSUME TsanTypeOK, MissInv, Normal, NEW kk, Reads(kk),
           mode \in SyncModes => PairInv', mode = "conanalysis" => StackInv'
    PROVE  MissInv' /\ TsanMissesNone'
  <1>1. Loop
    BY DEF Normal, Loop, ReadModes
  <1>2. pc = "scan" /\ mode' = mode /\ raw' = raw /\ pc' = pc /\ boundaryIndex' = boundaryIndex
    BY <1>1, TsanReads
  <1>3. \A t \in DOMAIN raw : raw[t].kind = "break" => t <= boundaryIndex
    BY <1>2 DEF MissInv, Normal
  <1>4. SyncModes' = SyncModes
    BY DEF SyncModes
  <1> QED
    BY <1>2, <1>3, <1>4 DEF MissInv, TsanMissesNone

\* At the end every line above the last block break has been read.
LEMMA EndMisses ==
    ASSUME TsanTypeOK, MissInv, Normal, EndOfScan
    PROVE  MissInv' /\ TsanMissesNone'
  <1>1. Loop /\ mode # "overnight"
    BY DEF Normal, Loop, SyncModes, ReadModes
  <1>2. /\ pc = "scan" /\ pc' = "done" /\ mode' = mode /\ raw' = raw /\ files' = files
        /\ fp = Len(raw) \/ boundaryIndex <= fp + 1
    BY <1>1 DEF EndOfScan, AtBoundary
  <1>3. /\ fp \in 0 .. Len(raw) /\ Len(raw) \in Nat /\ boundaryIndex \in 0 .. Len(raw)
        /\ DOMAIN raw = 1 .. Len(raw)
    BY <1>1, TsanPosition DEF Position
  <1>4. \A t \in DOMAIN raw : raw[t].kind = "break" => t <= boundaryIndex
    BY <1>2 DEF MissInv, Normal
  <1>5. \A e \in DOMAIN raw : BlockEnds(e) => e \in 1 .. fp
    <2> SUFFICES ASSUME NEW e \in DOMAIN raw, BlockEnds(e)
                 PROVE  e \in 1 .. fp
      OBVIOUS
    <2>1. PICK t \in e + 1 .. Len(raw) : raw[t].kind = "break"
      BY DEF BlockEnds
    <2> PICK len \in Nat : len = Len(raw)
      BY <1>3
    <2>2. e \in 1 .. len /\ t \in e + 1 .. len /\ t \in DOMAIN raw
      BY <1>3, <2>1
    <2>3. t <= boundaryIndex
      BY <1>4, <2>1, <2>2
    <2> QED
      BY <1>2, <1>3, <2>2, <2>3
  <1>6. \A i, j : Written(i, j)' <=> Written(i, j)
    BY <1>2 DEF Written
  <1>7. \A i : Reported(i)' <=> Reported(i)
    BY <1>2 DEF Reported
  <1>8. \A e, k : Ended(k, e)' = Ended(k, e)
    BY <1>2, TsanSame DEF Ended
  <1>9. SyncModes' = SyncModes
    BY DEF SyncModes
  <1>10. mode \in SyncModes => \A e \in 1 .. fp : Flushes(e) =>
              \A i \in Ended("write", e), j \in Ended("read", e) : Written(i, j)
    <2> SUFFICES ASSUME mode \in SyncModes
                 PROVE  \A e \in 1 .. fp : Flushes(e) =>
                           \A i \in Ended("write", e), j \in Ended("read", e) : Written(i, j)
      OBVIOUS
    <2>1. PairInv
      BY <1>2 DEF MissInv
    <2> QED
      BY <2>1, Zenon DEF PairInv
  <1>11. mode = "conanalysis" => \A e \in 1 .. fp : Flushes(e) =>
              \A i \in 1 .. e - 1 : InStack(i, "read", StackEnds) => Reported(i)
    <2> SUFFICES ASSUME mode = "conanalysis", NEW e \in 1 .. fp, Flushes(e),
                        NEW i \in 1 .. e - 1, InStack(i, "read", StackEnds)
                 PROVE  Reported(i)
      OBVIOUS
    <2>1. StackInv
      BY <1>2 DEF MissInv
    <2>2. i \in 1 .. fp /\ e \in i .. fp
      BY <1>3
    <2> QED
      BY <2>1, <2>2 DEF StackInv
  <1>12. mode \in SyncModes => \A e \in DOMAIN raw : Flushes(e)' /\ BlockEnds(e)' =>
             \A i \in Ended("write", e)', j \in Ended("read", e)' : Written(i, j)'
    BY <1>2, <1>5, <1>6, <1>8, <1>10, TsanSame
  <1>13. mode = "conanalysis" => \A e \in DOMAIN raw : Flushes(e)' /\ BlockEnds(e)' =>
             \A i \in 1 .. e - 1 : InStack(i, "read", StackEnds)' => Reported(i)'
    BY <1>2, <1>5, <1>7, <1>11, TsanSame
  <1>14. MissInv'
    BY <1>2 DEF MissInv
  <1>15. TsanMissesNone'
    BY <1>2, <1>9, <1>12, <1>13 DEF TsanMissesNone
  <1> QED
    BY <1>14, <1>15

\* What is in the lists was read in the current block.
LEMMA ListsSeen ==
    ASSUME TsanTypeOK, ScanInv, mode \in SyncModes, pc = "scan"
    PROVE  /\ writeResultList # <<>> => TsanSeen(fp, "write")
           /\ readResultList # <<>> => TsanSeen(fp, "read")
  <1>1. /\ readResultList \in Seq(Site) /\ writeResultList \in Seq(Site)
        /\ Len(readResultList) <= 1 /\ Len(writeResultList) <= 1
    BY DEF TsanTypeOK
  <1>2. /\ \A x \in ToSet(readResultList) : Taken(x, "read", StackEnds, Breaks)
        /\ \A x \in ToSet(writeResultList) : Taken(x, "write", StackEnds, Breaks)
    BY DEF ScanInv
  <1>3. ASSUME writeResultList # <<>>
        PROVE  TsanSeen(fp, "write")
    <2>1. PICK x \in Site : writeResultList = <<x>>
      BY <1>1, <1>3, ShortLists
    <2>2. Taken(x, "write", StackEnds, Breaks)
      BY <1>2, <2>1, ShortLists
    <2> QED
      BY <2>2, TakenSeen DEF TsanSeen
  <1>4. ASSUME readResultList # <<>>
        PROVE  TsanSeen(fp, "read")
    <2>1. PICK x \in Site : readResultList = <<x>>
      BY <1>1, <1>4, ShortLists
    <2>2. Taken(x, "read", StackEnds, Breaks)
      BY <1>2, <2>1, ShortLists
    <2> QED
      BY <2>2, TakenSeen DEF TsanSeen
  <1> QED
    BY <1>3, <1>4

\* What the loops of the verifier and of the sync loop analysis have read
\* stays written or in the lists.
LEMMA PairStep ==
    ASSUME TsanTypeOK, ScanInv, mode \in SyncModes, pc = "scan", PairInv,
           BlockStart \/ WriteStart \/ ReadStart \/ OtherLine \/ SyncCallStackLine
           \/ LineBreak \/ BlockBreak \/ BlockEnd
    PROVE  PairInv'
  <1>0. Loop /\ mode \notin ReadModes
    BY DEF Loop, SyncModes, ReadModes
  <1>1. PICK kk \in {"warning", "write", "read", "other", "frame", "blank", "break", "summary"} : Reads(kk)
    BY DEF BlockStart, WriteStart, ReadStart, OtherLine, SyncCallStackLine, LineBreak, BlockBreak, BlockEnd
  <1>2. /\ fp + 1 \in 1 .. Len(raw) /\ raw[fp + 1].kind = kk /\ fp \in Nat /\ fp' = fp + 1
        /\ mode' = mode /\ raw' = raw
        /\ kk = "frame" => raw[fp + 1].site \in Site /\ raw[fp + 1].fn \in FrameKinds
    BY <1>0, <1>1, TsanReads
  <1>3. PICK n \in Nat : n = fp
    BY <1>2
  <1>4. AtLine(n)
    BY <1>0, <1>2, <1>3, TsanPosition DEF AtLine, Position
  <1>5. /\ Opens(n, "read", mode = "verifier") => flagReadStart /\ flagBlockStart
        /\ Opens(n, "write", mode = "verifier") => flagWriteStart /\ flagBlockStart
        /\ PairAt(n, writeResultList, readResultList, files)
    BY <1>3, PairInvAt
  <1>6. /\ writeResultList # <<>> => TsanSeen(n, "write")
        /\ readResultList # <<>> => TsanSeen(n, "read")
    BY <1>3, ListsSeen
  <1>7. PICK m : m = n + 1 /\ m = fp'
    BY <1>2, <1>3
  <1>9. kk = raw[n + 1].kind
    BY <1>2, <1>3
  <1>8. \A k : Opens(m, k, mode = "verifier") =>
             \/ kk = k
             \/ mode = "verifier" /\ kk = "frame" /\ Opens(n, k, mode = "verifier")
    <2>1. PICK skips : skips = (mode = "verifier")
      OBVIOUS
    <2>2. \A k : Opens(n + 1, k, skips) => kk = k \/ (skips /\ kk = "frame" /\ Opens(n, k, skips))
      BY <1>9, OpensNext
    <2> QED
      BY <1>7, <2>1, <2>2
  <1>10. CASE BlockStart \/ WriteStart \/ ReadStart \/ OtherLine
    <2>1. /\ kk \in {"warning", "write", "read", "other"}
          /\ UNCHANGED <<lists, files>>
          /\ kk = "read" => flagReadStart' /\ flagBlockStart'
          /\ kk = "write" => flagWriteStart' /\ flagBlockStart'
      BY <1>0, <1>1, <1>10 DEF BlockStart, WriteStart, ReadStart, OtherLine, Reads
    <2>2. PairAt(m, writeResultList, readResultList, files)
      BY <1>4, <1>5, <1>7, <1>9, <2>1, QuietPairs
    <2>3. PairAt(m, writeResultList', readResultList', files')
      BY <2>1, <2>2 DEF lists
    <2> QED
      BY <1>2, <1>7, <1>8, <2>1, <2>3, PairInvNext
  <1>11. CASE SyncCallStackLine
    <2>1. Reads("frame") /\ files' = files
      BY <1>11 DEF SyncCallStackLine
    <2>2. kk = "frame" /\ raw[fp + 1].fn \in FrameKinds
      BY <1>1, <1>2, <2>1 DEF Reads
    <2>3. PICK l : l = raw[fp + 1]
      OBVIOUS
    <2>4. /\ readResultList # <<>> => readResultList' = readResultList
          /\ writeResultList # <<>> => writeResultList' = writeResultList
          /\ readResultList = <<>> /\ flagReadStart /\ flagBlockStart /\ l.fn # "icp"
             => readResultList' = <<l.site>>
          /\ writeResultList = <<>> /\ flagWriteStart /\ flagBlockStart /\ l.fn # "icp"
             => writeResultList' = <<l.site>>
          /\ mode = "verifier" /\ flagReadStart /\ flagBlockStart => flagReadStart' /\ flagBlockStart'
          /\ mode = "verifier" /\ flagWriteStart /\ flagBlockStart => flagWriteStart' /\ flagBlockStart'
      BY <1>11, <2>3 DEF SyncCallStackLine
    <2>5. \A k : TsanLeads(n + 1, k) => l.fn # "icp" /\ Opens(n, k, mode = "verifier")
      <3>1. (n + 1) - 1 = n /\ raw[n + 1].fn = l.fn
        BY <1>3, <2>3
      <3> QED
        BY <3>1 DEF TsanLeads, Leads
    <2>6. raw[n + 1].site = l.site
      BY <1>3, <2>3
    <2>7. PairAt(m, writeResultList', readResultList', files)
      BY <1>4, <1>5, <1>6, <1>7, <1>9, <2>2, <2>4, <2>5, <2>6, FramePairs
    <2>8. PairAt(m, writeResultList', readResultList', files')
      BY <2>1, <2>7
    <2>9. /\ Opens(m, "read", mode = "verifier") => flagReadStart' /\ flagBlockStart'
          /\ Opens(m, "write", mode = "verifier") => flagWriteStart' /\ flagBlockStart'
      BY <1>5, <1>8, <2>2, <2>4
    <2> QED
      BY <1>2, <1>7, <2>8, <2>9, PairInvNext
  <1>12. CASE LineBreak \/ BlockEnd
    <2>1. kk \in {"blank", "summary"} /\ Flush
      BY <1>1, <1>12 DEF LineBreak, BlockEnd, Reads
    <2>2. WriteRace(writeResultList, readResultList)
      BY <1>0, <2>1 DEF Flush
    <2>3. /\ readResultList \in Seq(Site) /\ writeResultList \in Seq(Site) /\ files \in Seq(Seq(Site))
          /\ Len(readResultList) <= 1 /\ Len(writeResultList) <= 1
      BY DEF TsanTypeOK
    <2>4. /\ \A f \in ToSet(files) : f \in ToSet(files')
          /\ writeResultList = <<>> \/ readResultList = <<>> =>
                writeResultList' = writeResultList /\ readResultList' = readResultList
          /\ \A x, y : writeResultList = <<x>> /\ readResultList = <<y>> => <<x, y>> \in ToSet(files')
      <3>1. CASE writeResultList # <<>> /\ readResultList # <<>>
        <4>1. PICK w \in Site : writeResultList = <<w>>
          BY <2>3, <3>1, ShortLists
        <4>2. PICK r \in Site : readResultList = <<r>>
          BY <2>3, <3>1, ShortLists
        <4>3. files' = Append(files, <<w, r>>)
          BY <2>2, <3>1, <4>1, <4>2, ShortLists DEF WriteRace
        <4>a. <<w, r>> \in Seq(Site)
          OBVIOUS
        <4>4. PICK g \in Seq(Site) : g = <<w, r>>
          BY <4>a
        <4>b. files' = Append(files, g)
          BY <4>3, <4>4
        <4>5. ToSet(files') = ToSet(files) \cup {g}
          BY <2>3, <4>b, AppendToSet
        <4>6. \A x, y : writeResultList = <<x>> /\ readResultList = <<y>> => x = w /\ y = r
          BY <4>1, <4>2
        <4> QED
          BY <3>1, <4>4, <4>5, <4>6
      <3>2. CASE ~(writeResultList # <<>> /\ readResultList # <<>>)
        <4>1. UNCHANGED <<files, lists>>
          BY <2>2, <3>2 DEF WriteRace
        <4>2. \A x : <<x>> # <<>>
          OBVIOUS
        <4>3. ~(\E x, y : writeResultList = <<x>> /\ readResultList = <<y>>)
          BY <3>2, <4>2
        <4> QED
          BY <4>1, <4>3 DEF lists
      <3> QED
        BY <3>1, <3>2
    <2>5. Flushes(n + 1)
      BY <1>9, <2>1 DEF Flushes
    <2>6. PairAt(m, writeResultList', readResultList', files')
      BY <1>4, <1>5, <1>6, <1>7, <2>4, <2>5, FlushPairs
    <2> QED
      BY <1>2, <1>7, <1>8, <2>1, <2>6, PairInvNext
  <1>13. CASE BlockBreak
    <2>1. kk = "break" /\ files' = files
      BY <1>1, <1>13 DEF BlockBreak, Reads
    <2>2. PairAt(m, writeResultList', readResultList', files')
      BY <1>4, <1>5, <1>7, <1>9, <2>1, BreakPairs
    <2> QED
      BY <1>2, <1>7, <1>8, <2>1, <2>2, PairInvNext
  <1> QED
    BY <1>10, <1>11, <1>12, <1>13

\* runNormalConAnalysis keeps every frame of a read until its stack ends.
LEMMA StackStep ==
    ASSUME TsanTypeOK, mode = "conanalysis", pc = "scan", StackInv,
           BlockStart \/ ReadStart \/ OtherLine \/ ReadCallStackLine \/ LineBreak \/ BlockEnd
    PROVE  StackInv'
  <1>0. Loop /\ mode \notin SyncModes /\ mode \in ReadModes
    BY DEF Loop, SyncModes, ReadModes
  <1>1. PICK kk \in {"warning", "write", "read", "other", "frame", "blank", "break", "summary"} : Reads(kk)
    BY DEF BlockStart, ReadStart, OtherLine, ReadCallStackLine, LineBreak, BlockEnd
  <1>2. /\ fp + 1 \in 1 .. Len(raw) /\ raw[fp + 1].kind = kk /\ fp \in Nat /\ fp' = fp + 1
        /\ mode' = mode /\ raw' = raw
        /\ kk = "frame" => raw[fp + 1].site \in Site /\ raw[fp + 1].fn \in FrameKinds
    BY <1>0, <1>1, TsanReads
  <1>3. PICK n \in Nat : n = fp
    BY <1>2
  <1>4. /\ Under(n, "read", StackEnds) => flagReadStart /\ flagBlockStart
        /\ StackAt(n, readResultList, files)
    BY <1>3 DEF StackInv, StackAt, Reported
  <1>5. PICK m : m = n + 1 /\ m = fp'
    BY <1>2, <1>3
  <1>7. kk = raw[n + 1].kind
    BY <1>2, <1>3
  <1>6. Under(m, "read", StackEnds) =>
             kk \notin StackEnds /\ (kk = "read" \/ Under(n, "read", StackEnds))
    <2>1. Under(n + 1, "read", StackEnds) =>
             kk \notin StackEnds /\ (kk = "read" \/ Under(n, "read", StackEnds))
      BY <1>7, UnderNext
    <2> QED
      BY <1>5, <2>1
  <1>8. CASE BlockStart \/ ReadStart \/ OtherLine
    <2>1. /\ kk \in {"warning", "write", "read", "other", "break"}
          /\ UNCHANGED <<lists, files>>
          /\ kk = "read" => flagReadStart' /\ flagBlockStart'
          /\ flagReadStart /\ flagBlockStart => flagReadStart' /\ flagBlockStart'
      BY <1>1, <1>8 DEF BlockStart, ReadStart, OtherLine, Reads, flags
    <2>2. ~Flushes(n + 1) /\ ~InStack(n + 1, "read", StackEnds)
      BY <1>7, <2>1 DEF Flushes, InStack
    <2>3. StackAt(m, readResultList', files')
      BY <1>4, <1>5, <2>1, <2>2, StackNext DEF lists
    <2> QED
      BY <1>2, <1>4, <1>5, <1>6, <2>1, <2>3, StackInvNext
  <1>9. CASE ReadCallStackLine
    <2>1. Reads("frame") /\ UNCHANGED <<flags, files>>
      BY <1>9 DEF ReadCallStackLine
    <2>2. kk = "frame" /\ raw[fp + 1].site \in Site
      BY <1>1, <1>2, <2>1 DEF Reads
    <2>3. PICK x \in Site : x = raw[fp + 1].site
      BY <2>2
    <2>4. /\ flagReadStart /\ flagBlockStart /\ raw[fp + 1].fn # "icp"
             => readResultList' = Append(readResultList, x)
          /\ readResultList' \in {readResultList, Append(readResultList, x)}
      BY <1>9, <2>3 DEF ReadCallStackLine
    <2>5. readResultList \in Seq(Site)
      BY <1>0 DEF TsanTypeOK, Loop
    <2>6. ToSet(Append(readResultList, x)) = ToSet(readResultList) \cup {x}
      BY <2>5, AppendToSet
    <2>7. ToSet(readResultList) \subseteq ToSet(readResultList')
      BY <2>4, <2>6
    <2>8. ~Flushes(n + 1)
      BY <1>7, <2>2 DEF Flushes
    <2>9. ASSUME InStack(n + 1, "read", StackEnds)
          PROVE  raw[n + 1].site \in ToSet(readResultList')
      <3>1. raw[n + 1].fn = "app" /\ Under(n + 1, "read", StackEnds)
        BY <2>9 DEF InStack
      <3>2. flagReadStart /\ flagBlockStart
        BY <1>4, <1>5, <1>6, <2>2, <3>1
      <3>3. readResultList' = Append(readResultList, x)
        BY <1>3, <2>4, <3>1, <3>2
      <3> QED
        BY <1>3, <2>3, <2>6, <3>3
    <2>10. StackAt(m, readResultList', files')
      BY <1>4, <1>5, <2>1, <2>7, <2>8, <2>9, StackNext
    <2> QED
      BY <1>2, <1>4, <1>5, <1>6, <2>1, <2>2, <2>10, StackInvNext DEF flags
  <1>10. CASE LineBreak \/ BlockEnd
    <2>1. kk \in {"blank", "summary"} /\ Flush
      BY <1>1, <1>10 DEF LineBreak, BlockEnd, Reads
    <2>2. files' = IF readResultList = <<>> THEN files ELSE Append(files, readResultList)
      BY <1>0, <2>1 DEF Flush
    <2>3. /\ \A f \in ToSet(files) : f \in ToSet(files')
          /\ \A x \in ToSet(readResultList) : \E f \in ToSet(files') : x \in ToSet(f)
      <3>1. CASE readResultList = <<>>
        BY <2>2, <3>1, ShortLists
      <3>2. CASE readResultList # <<>>
        <4>1. PICK g \in Seq(Site) : g = readResultList
          BY <1>0 DEF TsanTypeOK, Loop
        <4>2. files \in Seq(Seq(Site)) /\ files' = Append(files, g)
          BY <1>0, <2>2, <3>2, <4>1 DEF TsanTypeOK, Loop
        <4>3. ToSet(files') = ToSet(files) \cup {g}
          BY <4>2, AppendToSet
        <4> QED
          BY <4>1, <4>3
      <3> QED
        BY <3>1, <3>2
    <2>4. kk \in StackEnds /\ ~InStack(n + 1, "read", StackEnds)
      BY <1>7, <2>1 DEF StackEnds, InStack
    <2>5. StackAt(n + 1, readResultList', files')
      BY <1>4, <2>3, <2>4, StackNext
    <2>6. StackAt(m, readResultList', files')
      BY <1>5, <2>5
    <2> QED
      BY <1>2, <1>5, <1>6, <2>4, <2>6, StackInvNext
  <1> QED
    BY <1>8, <1>9, <1>10

\* Every step keeps that no race is missed.
LEMMA MissStep ==
    TsanInv /\ Normal /\ [TsanNext \/ MoreLines]_rfVars => MissInv' /\ TsanMissesNone'
  <1> SUFFICES ASSUME TsanTypeOK, ScanInv, MissInv, TsanMissesNone, Normal, [TsanNext \/ MoreLines]_rfVars
               PROVE  MissInv' /\ TsanMissesNone'
    BY DEF TsanInv
  <1>0. /\ Loop /\ baseIndex = 0 /\ Position(TsanKinds)
        /\ mode \in SyncModes \/ mode = "conanalysis"
        /\ mode \in SyncModes => mode \notin ReadModes
        /\ mode = "conanalysis" => mode \notin SyncModes
    BY TsanPosition DEF Normal, Loop, SyncModes, ReadModes, ScanInv
  <1>1. CASE checkBlockIntegrity("break")
    <2>1. /\ pc = "check" /\ pc' = "scan" /\ fp' = 0 /\ mode' = mode /\ raw' = raw
      BY <1>1 DEF checkBlockIntegrity
    <2>2. fp = 0
      BY <2>1 DEF MissInv, Normal
    <2>3. \A t \in DOMAIN raw : raw[t].kind = "break" => t <= boundaryIndex'
      BY <1>0, <1>1, <2>2, AllBefore
    <2>4. 1 .. 0 = {}
      OBVIOUS
    <2>5. \A k, skips : ~Opens(0, k, skips)
      BY <2>4 DEF Opens
    <2>6. \A k, ends : ~Under(0, k, ends)
      BY <2>4 DEF Under
    <2>7. \A ws, rs, fs : PairAt(0, ws, rs, fs)
      BY <2>4 DEF PairAt, LoneAt, PairsAt, EndsAt, TsanLed, LeadsAt
    <2>8. \A list, fs : StackAt(0, list, fs)
      BY <2>4 DEF StackAt
    <2>9. PairInv'
      BY <2>1, <2>5, <2>7, PairInvNext
    <2>10. StackInv'
      BY <2>1, <2>6, <2>8, StackInvNext
    <2> QED
      BY <2>1, <2>3, <2>9, <2>10 DEF MissInv, TsanMissesNone
  <1>2. CASE SkipLine
    <2>1. fp + 1 < 0 /\ fp \in Nat
      BY <1>0, <1>2 DEF SkipLine, TsanTypeOK, Loop
    <2> QED
      BY <2>1
  <1>3. CASE EndOfScan
    BY <1>3, EndMisses
  <1>4. CASE \/ BlockStart \/ WriteStart \/ ReadStart \/ OtherLine \/ SyncCallStackLine
             \/ ReadCallStackLine \/ LineBreak \/ BlockBreak \/ BlockEnd
    <2>1. PICK kk : Reads(kk)
      BY <1>4 DEF BlockStart, WriteStart, ReadStart, OtherLine, SyncCallStackLine, ReadCallStackLine,
                  LineBreak, BlockBreak, BlockEnd
    <2>2. pc = "scan"
      BY <1>0, <2>1, TsanReads
    <2>3. ASSUME mode \in SyncModes
          PROVE  PairInv'
      <3>1. ~ReadCallStackLine
        BY <1>0, <2>3 DEF ReadCallStackLine
      <3>2. PairInv
        BY <2>2, <2>3 DEF MissInv
      <3> QED
        BY <1>4, <2>2, <2>3, <3>1, <3>2, PairStep
    <2>4. ASSUME mode = "conanalysis"
          PROVE  StackInv'
      <3>1. ~SyncCallStackLine /\ ~WriteStart /\ ~BlockBreak
        BY <1>0, <2>4 DEF SyncCallStackLine, WriteStart, BlockBreak
      <3>2. StackInv
        BY <2>2, <2>4 DEF MissInv
      <3> QED
        BY <1>4, <2>2, <2>4, <3>1, <3>2, StackStep
    <2> QED
      BY <2>1, <2>3, <2>4, ReadMiss
  <1>5. CASE MoreLines
    <2>1. pc = "check" /\ pc' = pc /\ mode' = mode /\ fp' = fp
      BY <1>5 DEF MoreLines
    <2>2. fp = 0
      BY <2>1 DEF MissInv, Normal
    <2> QED
      BY <2>1, <2>2 DEF MissInv, TsanMissesNone
  <1>6. CASE UNCHANGED rfVars
    <2>1. UNCHANGED <<mode, raw, fp, pc, boundaryIndex, flags, lists, files>>
      BY <1>6 DEF rfVars, scanning
    <2>2. ASSUME PairInv PROVE PairInv'
      BY <2>1, <2>2, PairInvAt, PairInvNext DEF flags, lists
    <2>3. ASSUME StackInv PROVE StackInv'
      BY <2>1, <2>3, StackInvNext DEF flags, lists, StackInv, StackAt, Reported
    <2>4. SyncModes' = SyncModes
      BY DEF SyncModes
    <2>5. MissInv'
      BY <2>1, <2>2, <2>3, <2>4 DEF MissInv
    <2>6. \A i, j : Written(i, j)' <=> Written(i, j)
      BY <2>1 DEF Written
    <2>7. \A i : Reported(i)' <=> Reported(i)
      BY <2>1 DEF Reported
    <2>8. \A e, k : Ended(k, e)' = Ended(k, e)
      BY <2>1, TsanSame DEF Ended
    <2>9. TsanMissesNone'
      BY <2>1, <2>4, <2>6, <2>7, <2>8, TsanSame DEF TsanMissesNone
    <2> QED
      BY <2>5, <2>9
  <1> QED
    BY <1>1, <1>2, <1>3, <1>4, <1>5, <1>6 DEF TsanNext

----------------------------------------------------------------------------
(* The race files are in the order of the report, and share no frame.      *)

\* The lists ws and rs and the race files fs, when the first n lines are read.
OrderAt(n, ws, rs, fs) ==
    \E c \in 0 .. n :
        /\ \A f \in ToSet(fs) : From(f, 0, c)
        /\ \A x \in ToSet(ws) : Within(x, "write", StackEnds, c, n)
        /\ \A x \in ToSet(rs) : Within(x, "read", StackEnds, c, n)
InOrder(fs) ==
    \A n \in DOMAIN fs : \A m \in 1 .. n - 1 :
        \E c \in 0 .. Len(raw) : From(fs[m], 0, c) /\ From(fs[n], c, Len(raw))

\* The lines that the frames of a race file are behind and not behind may be more.
LEMMA FromMore ==
    ASSUME NEW f, NEW a \in Nat, NEW b \in Nat, From(f, a, b),
           NEW c \in Nat, c <= a, NEW d \in Nat, b <= d
    PROVE  From(f, c, d)
  <1>1. CASE mode = "conanalysis"
    <2>1. \A x \in ToSet(f) : Within(x, "read", StackEnds, a, b)
      BY <1>1 DEF From
    <2>2. \A x \in ToSet(f) : Within(x, "read", StackEnds, c, d)
      BY <2>1, WithinMore
    <2> QED
      BY <1>1, <2>2 DEF From
  <1>2. CASE mode # "conanalysis"
    <2>1. Within(f[1], "write", StackEnds, a, b) /\ Within(f[2], "read", StackEnds, a, b)
      BY <1>2 DEF From
    <2>2. Within(f[1], "write", StackEnds, c, d) /\ Within(f[2], "read", StackEnds, c, d)
      BY <2>1, WithinMore
    <2> QED
      BY <1>2, <2>2 DEF From
  <1> QED
    BY <1>1, <1>2

\* A line is read, and its site is taken or not.
LEMMA OrderNext ==
    ASSUME NEW n \in Nat, NEW ws, NEW rs, NEW fs, OrderAt(n, ws, rs, fs), NEW ws2, NEW rs2,
           \A x \in ToSet(ws2) :
               x \in ToSet(ws) \/ (InStack(n + 1, "write", StackEnds) /\ x = raw[n + 1].site),
           \A x \in ToSet(rs2) :
               x \in ToSet(rs) \/ (InStack(n + 1, "read", StackEnds) /\ x = raw[n + 1].site)
    PROVE  OrderAt(n + 1, ws2, rs2, fs)
  <1>1. PICK c \in 0 .. n :
           /\ \A f \in ToSet(fs) : From(f, 0, c)
           /\ \A x \in ToSet(ws) : Within(x, "write", StackEnds, c, n)
           /\ \A x \in ToSet(rs) : Within(x, "read", StackEnds, c, n)
    BY DEF OrderAt
  <1>2. /\ \A x \in ToSet(ws2) : Within(x, "write", StackEnds, c, n + 1)
        /\ \A x \in ToSet(rs2) : Within(x, "read", StackEnds, c, n + 1)
    BY <1>1, WithinNext
  <1>3. c \in 0 .. n + 1
    OBVIOUS
  <1> QED
    BY <1>1, <1>2, <1>3 DEF OrderAt

\* A race file is written, of sites that are behind all others.
LEMMA OrderFile ==
    ASSUME NEW n \in Nat, n <= Len(raw), Len(raw) \in Nat, NEW fs \in Seq(Seq(Site)),
           NEW ws, NEW rs, OrderAt(n, ws, rs, fs), InOrder(fs),
           NEW g \in Seq(Site), \A c \in 0 .. n :
               /\ \A x \in ToSet(ws) : Within(x, "write", StackEnds, c, n)
               /\ \A x \in ToSet(rs) : Within(x, "read", StackEnds, c, n)
               => From(g, c, n)
    PROVE  OrderAt(n, <<>>, <<>>, Append(fs, g)) /\ InOrder(Append(fs, g))
  <1>1. PICK c \in 0 .. n :
           /\ \A f \in ToSet(fs) : From(f, 0, c)
           /\ \A x \in ToSet(ws) : Within(x, "write", StackEnds, c, n)
           /\ \A x \in ToSet(rs) : Within(x, "read", StackEnds, c, n)
    BY DEF OrderAt
  <1>2. From(g, c, n)
    BY <1>1
  <1>3. ToSet(Append(fs, g)) = ToSet(fs) \cup {g}
    BY AppendToSet
  <1>4. OrderAt(n, <<>>, <<>>, Append(fs, g))
    <2>1. \A f \in ToSet(Append(fs, g)) : From(f, 0, n)
      BY <1>1, <1>2, <1>3, FromMore
    <2>2. n \in 0 .. n
      OBVIOUS
    <2> QED
      BY <2>1, <2>2, ShortLists DEF OrderAt
  <1>5. ASSUME NEW k \in DOMAIN Append(fs, g), NEW m \in 1 .. k - 1
        PROVE  \E b \in 0 .. Len(raw) : From(Append(fs, g)[m], 0, b) /\ From(Append(fs, g)[k], b, Len(raw))
    <2>1. CASE k \in DOMAIN fs
      <3>1. m \in DOMAIN fs /\ Append(fs, g)[m] = fs[m] /\ Append(fs, g)[k] = fs[k]
        BY <2>1
      <3> QED
        BY <2>1, <3>1 DEF InOrder
    <2>2. CASE k = Len(fs) + 1
      <3>1. m \in DOMAIN fs /\ Append(fs, g)[m] = fs[m] /\ Append(fs, g)[k] = g
        BY <2>2
      <3>2. From(fs[m], 0, c)
        BY <1>1, <3>1 DEF ToSet
      <3>3. From(g, c, Len(raw)) /\ c \in 0 .. Len(raw)
        BY <1>2, FromMore
      <3> QED
        BY <3>1, <3>2, <3>3
    <2>3. DOMAIN Append(fs, g) = 1 .. Len(fs) + 1 /\ Len(fs) \in Nat /\ DOMAIN fs = 1 .. Len(fs)
      OBVIOUS
    <2>4. k \in DOMAIN fs \/ k = Len(fs) + 1
      BY <2>3
    <2> QED
      BY <2>1, <2>2, <2>4
  <1> QED
    BY <1>4, <1>5 DEF InOrder

\* The frames of a race file stay where they are.
LEMMA SameFrom ==
    ASSUME raw' = raw, mode' = mode
    PROVE  \A f, a, b : From(f, a, b)' <=> From(f, a, b)
  <1>1. PICK ends : ends = StackEnds
    OBVIOUS
  <1>2. ends = StackEnds'
    BY <1>1, SameLoop
  <1>3. \A x, k, a, b : Within(x, k, StackEnds, a, b)' <=> Within(x, k, StackEnds, a, b)
    <2>1. ASSUME NEW x, NEW k, NEW a, NEW b
          PROVE  Within(x, k, StackEnds, a, b)' <=> Within(x, k, StackEnds, a, b)
      <3>1. Within(x, k, ends, a, b)' <=> Within(x, k, ends, a, b)
        BY SameWithin
      <3>2. Within(x, k, ends, a, b)' <=> Within(x, k, StackEnds, a, b)'
        BY <1>2 DEF Within
      <3> QED
        BY <1>1, <3>1, <3>2
    <2> QED
      BY <2>1
  <1> QED
    BY <1>3 DEF From

\* The order of the next state, in the words of this one.
LEMMA OrderKeeps ==
    ASSUME raw' = raw, mode' = mode, NEW n, n = fp', InOrder(files'),
           OrderAt(n, writeResultList', readResultList', files')
    PROVE  TsanInOrder' /\ OrderInv'
  <1>1. PICK ws, rs, fs : ws = writeResultList' /\ rs = readResultList' /\ fs = files'
    OBVIOUS
  <1>2. \A f, a, b : From(f, a, b)' <=> From(f, a, b)
    BY SameFrom
  <1>3. PICK ends : ends = StackEnds
    OBVIOUS
  <1>4. ends = StackEnds'
    BY <1>3, SameLoop
  <1>5. \A x, k, a, b : Within(x, k, ends, a, b)' <=> Within(x, k, ends, a, b)
    BY SameWithin
  <1>6. TsanInOrder'
    <2>1. \A k \in DOMAIN fs : \A m \in 1 .. k - 1 :
             \E c \in 0 .. Len(raw) : From(fs[m], 0, c)' /\ From(fs[k], c, Len(raw))'
      BY <1>1, <1>2 DEF InOrder
    <2> QED
      BY <1>1, <2>1 DEF TsanInOrder, From
  <1>7. PICK c \in 0 .. n :
           /\ \A f \in ToSet(fs) : From(f, 0, c)
           /\ \A x \in ToSet(ws) : Within(x, "write", ends, c, n)
           /\ \A x \in ToSet(rs) : Within(x, "read", ends, c, n)
    BY <1>1, <1>3 DEF OrderAt
  <1>8. /\ \A f \in ToSet(fs) : From(f, 0, c)'
        /\ \A x \in ToSet(ws) : Within(x, "write", ends, c, n)'
        /\ \A x \in ToSet(rs) : Within(x, "read", ends, c, n)'
    BY <1>2, <1>5, <1>7
  <1> QED
    BY <1>1, <1>4, <1>6, <1>7, <1>8 DEF OrderInv, From

\* The lists keep what they have, lose it, or take the site of the line.
LEMMA TakenInOrder ==
    ASSUME TsanTypeOK, TsanInOrder, OrderInv, Normal, NEW kk, Reads(kk), files' = files,
           \A x \in ToSet(writeResultList') :
               \/ x \in ToSet(writeResultList)
               \/ InStack(fp + 1, "write", StackEnds) /\ x = raw[fp + 1].site,
           \A x \in ToSet(readResultList') :
               \/ x \in ToSet(readResultList)
               \/ InStack(fp + 1, "read", StackEnds) /\ x = raw[fp + 1].site
    PROVE  TsanInOrder' /\ OrderInv'
  <1>1. /\ Loop /\ pc = "scan" /\ fp \in Nat /\ fp' = fp + 1 /\ raw' = raw /\ mode' = mode
    BY TsanReads DEF Normal, Loop, ReadModes
  <1>2. PICK n \in Nat : n = fp
    BY <1>1
  <1>3. OrderAt(n, writeResultList, readResultList, files) /\ InOrder(files)
    BY <1>1, <1>2 DEF OrderInv, TsanInOrder, OrderAt, InOrder, Normal
  <1>4. OrderAt(n + 1, writeResultList', readResultList', files)
    BY <1>2, <1>3, OrderNext
  <1>5. PICK m : m = n + 1
    OBVIOUS
  <1> QED
    BY <1>1, <1>2, <1>3, <1>4, <1>5, OrderKeeps

\* A race file is written at the end of a stack.
LEMMA FlushInOrder ==
    ASSUME TsanTypeOK, TsanInOrder, OrderInv, Normal, NEW kk, Reads(kk), Flush
    PROVE  TsanInOrder' /\ OrderInv'
  <1>0. /\ Loop
        /\ mode \in SyncModes \/ mode = "conanalysis"
        /\ mode \in SyncModes => mode \notin ReadModes /\ mode # "conanalysis"
    BY DEF Normal, Loop, ReadModes, SyncModes
  <1>1. /\ pc = "scan" /\ fp \in Nat /\ fp' = fp + 1 /\ raw' = raw /\ mode' = mode
        /\ fp + 1 \in 1 .. Len(raw)
    BY <1>0, TsanReads
  <1>2. /\ readResultList \in Seq(Site) /\ writeResultList \in Seq(Site) /\ files \in Seq(Seq(Site))
        /\ mode \in SyncModes => Len(readResultList) <= 1 /\ Len(writeResultList) <= 1
        /\ raw \in Seq(ReportLine)
        /\ mode = "conanalysis" => writeResultList = <<>>
    BY <1>0 DEF TsanTypeOK, Loop, ReadModes
  <1>3. PICK n \in Nat : n = fp + 1
    BY <1>1
  <1>4. OrderAt(n, writeResultList, readResultList, files) /\ InOrder(files)
    <2>1. PICK m \in Nat : m = fp
      BY <1>1
    <2>2. OrderAt(m, writeResultList, readResultList, files) /\ InOrder(files)
      BY <1>1, <2>1 DEF OrderInv, TsanInOrder, OrderAt, InOrder, Normal
    <2>3. OrderAt(m + 1, writeResultList, readResultList, files)
      BY <2>2, OrderNext
    <2> QED
      BY <1>3, <2>1, <2>2, <2>3
  <1>5. CASE UNCHANGED <<lists, files>>
    BY <1>1, <1>3, <1>4, <1>5, OrderKeeps DEF lists
  <1>6. n <= Len(raw) /\ Len(raw) \in Nat
    BY <1>1, <1>2, <1>3
  <1>7. CASE mode \in SyncModes /\ ~UNCHANGED <<lists, files>>
    <2>1. /\ writeResultList # <<>> /\ readResultList # <<>>
          /\ files' = Append(files, writeResultList \o readResultList)
          /\ writeResultList' = <<>> /\ readResultList' = <<>>
      BY <1>0, <1>7 DEF Flush, WriteRace
    <2>2. PICK w \in Site : writeResultList = <<w>>
      BY <1>2, <1>7, <2>1, ShortLists
    <2>3. PICK r \in Site : readResultList = <<r>>
      BY <1>2, <1>7, <2>1, ShortLists
    <2>4. PICK g \in Seq(Site) : g = <<w, r>>
      <3>1. <<w, r>> \in Seq(Site)
        OBVIOUS
      <3> QED
        BY <3>1
    <2>5. files' = Append(files, g)
      BY <2>1, <2>2, <2>3, <2>4, ShortLists
    <2>6. ASSUME NEW c \in 0 .. n,
                 \A x \in ToSet(writeResultList) : Within(x, "write", StackEnds, c, n),
                 \A x \in ToSet(readResultList) : Within(x, "read", StackEnds, c, n)
          PROVE  From(g, c, n)
      <3>1. Within(w, "write", StackEnds, c, n) /\ Within(r, "read", StackEnds, c, n)
        BY <2>2, <2>3, <2>6, ShortLists
      <3>2. g[1] = w /\ g[2] = r
        BY <2>4
      <3> QED
        BY <1>0, <1>7, <3>1, <3>2 DEF From
    <2>7. OrderAt(n, <<>>, <<>>, Append(files, g)) /\ InOrder(Append(files, g))
      BY <1>2, <1>4, <1>6, <2>6, OrderFile
    <2> QED
      BY <1>1, <1>3, <2>1, <2>5, <2>7, OrderKeeps
  <1>8. CASE mode = "conanalysis" /\ ~UNCHANGED <<lists, files>>
    <2>1. /\ files' = Append(files, readResultList)
          /\ writeResultList' = <<>> /\ readResultList' = <<>>
      BY <1>0, <1>2, <1>8 DEF Flush, lists, SyncModes
    <2>2. ASSUME NEW c \in 0 .. n,
                 \A x \in ToSet(writeResultList) : Within(x, "write", StackEnds, c, n),
                 \A x \in ToSet(readResultList) : Within(x, "read", StackEnds, c, n)
          PROVE  From(readResultList, c, n)
      BY <1>8, <2>2 DEF From
    <2>3. /\ OrderAt(n, <<>>, <<>>, Append(files, readResultList))
          /\ InOrder(Append(files, readResultList))
      BY <1>2, <1>4, <1>6, <2>2, OrderFile
    <2> QED
      BY <1>1, <1>3, <2>1, <2>3, OrderKeeps
  <1> QED
    BY <1>0, <1>5, <1>7, <1>8

\* A frame that is taken is in a stack of its list's kind.
LEMMA TsanInStack ==
    ASSUME TsanTypeOK, ScanInv, Normal, Reads("frame")
    PROVE  raw[fp + 1].fn # "icp" =>
              /\ flagReadStart => InStack(fp + 1, "read", StackEnds)
              /\ flagWriteStart => InStack(fp + 1, "write", StackEnds)
  <1>1. Loop
    BY DEF Normal, Loop, ReadModes
  <1>2. pc = "scan" /\ raw[fp + 1].fn \in FrameKinds /\ Position(TsanKinds)
    BY <1>1, TsanReads, TsanPosition
  <1>3. /\ flagReadStart => Under(fp, "read", StackEnds)
        /\ flagWriteStart => Under(fp, "write", StackEnds)
    BY <1>2 DEF ScanInv, Normal
  <1>4. raw[fp + 1].fn # "icp" => raw[fp + 1].fn = "app"
    BY <1>2 DEF FrameKinds
  <1> QED
    BY <1>2, <1>3, <1>4, EndKinds, FrameInStack

\* Every step keeps the order.
LEMMA OrderStep ==
    TsanInv /\ Normal /\ [TsanNext \/ MoreLines]_rfVars => TsanInOrder' /\ OrderInv'
  <1> SUFFICES ASSUME TsanTypeOK, ScanInv, TsanInOrder, OrderInv, Normal,
                      [TsanNext \/ MoreLines]_rfVars
               PROVE  TsanInOrder' /\ OrderInv'
    BY DEF TsanInv
  <1>0. /\ Loop
        /\ mode \in SyncModes \/ mode = "conanalysis"
        /\ mode \in ReadModes <=> mode = "conanalysis"
    BY DEF Normal, Loop, SyncModes, ReadModes
  <1>k. ASSUME raw' = raw, mode' = mode, files' = files
        PROVE  TsanInOrder'
    BY <1>k, SameFrom DEF TsanInOrder
  <1>e. ASSUME pc = "check"
        PROVE  readResultList = <<>> /\ writeResultList = <<>> /\ files = <<>>
    BY <1>e DEF ScanInv, Normal
  <1>f. ASSUME files' = <<>>
        PROVE  TsanInOrder'
    BY <1>f DEF TsanInOrder
  <1>1. CASE checkBlockIntegrity("break")
    <2>1. /\ pc = "check" /\ fp' = 0 /\ UNCHANGED <<lists, files>>
      BY <1>1 DEF checkBlockIntegrity
    <2>2. OrderInv'
      BY <1>e, <2>1, ShortLists DEF OrderInv, lists
    <2> QED
      BY <1>e, <1>f, <2>1, <2>2
  <1>2. CASE SkipLine
    <2>1. fp + 1 < 0 /\ fp \in Nat
      BY <1>0, <1>2 DEF SkipLine, TsanTypeOK, Loop, ScanInv, Normal
    <2> QED
      BY <2>1
  <1>3. CASE EndOfScan
    <2>1. pc' = "done" /\ mode' = mode /\ raw' = raw /\ files' = files
      BY <1>0, <1>3 DEF EndOfScan, Normal, SyncModes
    <2> QED
      BY <1>k, <2>1 DEF OrderInv
  <1>4. CASE BlockStart \/ WriteStart \/ ReadStart \/ OtherLine \/ BlockBreak
    <2>1. PICK kk \in {"warning", "write", "read", "other", "break"} :
             /\ Reads(kk) /\ files' = files
             /\ readResultList' \in {readResultList, <<>>}
             /\ writeResultList' \in {writeResultList, <<>>}
      BY <1>4 DEF BlockStart, WriteStart, ReadStart, OtherLine, BlockBreak, lists
    <2>2. /\ \A x \in ToSet(readResultList') : x \in ToSet(readResultList)
          /\ \A x \in ToSet(writeResultList') : x \in ToSet(writeResultList)
      BY <2>1, ShortLists
    <2> QED
      BY <2>1, <2>2, TakenInOrder
  <1>5. CASE SyncCallStackLine
    <2>1. Reads("frame") /\ files' = files
      BY <1>5 DEF SyncCallStackLine
    <2>2. PICK x : x = raw[fp + 1].site
      OBVIOUS
    <2>3. /\ \/ readResultList' = readResultList
             \/ flagReadStart /\ raw[fp + 1].fn # "icp" /\ readResultList' = <<x>>
          /\ \/ writeResultList' = writeResultList
             \/ flagWriteStart /\ raw[fp + 1].fn # "icp" /\ writeResultList' = <<x>>
      BY <1>5, <2>2, Zenon DEF SyncCallStackLine
    <2>4. \A y \in ToSet(readResultList') :
             y \in ToSet(readResultList) \/ (InStack(fp + 1, "read", StackEnds) /\ y = x)
      BY <2>1, <2>3, TsanInStack, ShortLists
    <2>5. \A y \in ToSet(writeResultList') :
             y \in ToSet(writeResultList) \/ (InStack(fp + 1, "write", StackEnds) /\ y = x)
      BY <2>1, <2>3, TsanInStack, ShortLists
    <2> QED
      BY <2>1, <2>2, <2>4, <2>5, TakenInOrder
  <1>6. CASE ReadCallStackLine
    <2>1. Reads("frame") /\ files' = files /\ writeResultList' = writeResultList /\ mode = "conanalysis"
      BY <1>0, <1>6 DEF ReadCallStackLine
    <2>t. raw[fp + 1].site \in Site
      BY <1>0, <2>1, TsanReads
    <2>2. PICK x \in Site : x = raw[fp + 1].site
      BY <2>t
    <2>3. \/ readResultList' = readResultList
          \/ flagReadStart /\ raw[fp + 1].fn # "icp" /\ readResultList' = Append(readResultList, x)
      BY <1>6, <2>1, <2>2 DEF ReadCallStackLine
    <2>4. readResultList \in Seq(Site)
      BY <1>0 DEF TsanTypeOK, Loop
    <2>5. ToSet(Append(readResultList, x)) = ToSet(readResultList) \cup {x}
      BY <2>4, AppendToSet
    <2>6. \A y \in ToSet(readResultList') :
             y \in ToSet(readResultList) \/ (InStack(fp + 1, "read", StackEnds) /\ y = x)
      BY <2>1, <2>3, <2>5, TsanInStack
    <2> QED
      BY <2>1, <2>2, <2>6, TakenInOrder
  <1>7. CASE LineBreak \/ BlockEnd
    <2>1. PICK kk \in {"blank", "summary"} : Reads(kk) /\ Flush
      BY <1>7 DEF LineBreak, BlockEnd
    <2> QED
      BY <2>1, FlushInOrder
  <1>9. CASE MoreLines
    <2>1. pc = "check" /\ pc' = pc /\ files' = files
      BY <1>9 DEF MoreLines
    <2> QED
      BY <1>e, <1>f, <2>1 DEF OrderInv
  <1>10. CASE UNCHANGED rfVars
    <2>1. UNCHANGED <<mode, raw, fp, pc, lists, files>>
      BY <1>10 DEF rfVars, scanning
    <2>2. PICK n : n = fp
      OBVIOUS
    <2>3. CASE pc = "scan"
      <3>1. OrderAt(n, writeResultList', readResultList', files') /\ InOrder(files')
        BY <2>1, <2>2, <2>3 DEF OrderInv, TsanInOrder, OrderAt, InOrder, Normal, lists
      <3> QED
        BY <2>1, <2>2, <3>1, OrderKeeps
    <2>4. CASE pc # "scan"
      BY <1>k, <2>1, <2>4 DEF OrderInv
    <2> QED
      BY <2>3, <2>4
  <1> QED
    BY <1>1, <1>2, <1>3, <1>4, <1>5, <1>6, <1>7, <1>9, <1>10 DEF TsanNext

----------------------------------------------------------------------------
(* All of it.                                                              *)

\* In the overnight loop only the types are kept: what it has of the last
\* scan, flags and read list, stays when it reads the file from its start.
LEMMA InvStep == TsanInv /\ Loop /\ [TsanNext \/ MoreLines]_rfVars => TsanInv' /\ Loop'
  <1> SUFFICES ASSUME TsanInv, Loop, [TsanNext \/ MoreLines]_rfVars
               PROVE  TsanInv' /\ Loop'
    OBVIOUS
  <1>1. mode' = mode
    <2>1. CASE MoreLines \/ UNCHANGED rfVars
      BY <2>1 DEF MoreLines, rfVars, scanning
    <2>2. CASE TsanNext
      <3>1. \A k : Reads(k) => mode' = mode
        BY DEF Reads, scanning
      <3> QED
        BY <2>2, <3>1 DEF TsanNext, checkBlockIntegrity, SkipLine, scanning, EndOfScan, BlockStart,
                          WriteStart, ReadStart, SyncCallStackLine, ReadCallStackLine, LineBreak,
                          BlockBreak, BlockEnd, OtherLine
    <2> QED
      BY <2>1, <2>2
  <1>2. Loop'
    BY <1>1 DEF Loop, SyncModes, ReadModes
  <1>3. TsanTypeOK'
    BY TypeStep DEF TsanInv
  <1>4. CASE Normal
    BY <1>2, <1>3, <1>4, SoundScanStep, MissStep, OrderStep DEF TsanInv
  <1>5. CASE ~Normal
    <2>1. mode' = "overnight"
      BY <1>1, <1>5 DEF Loop, Normal, ReadModes
    <2>2. mode' \notin SyncModes /\ mode' # "conanalysis"
      BY <2>1 DEF SyncModes
    <2>3. SyncModes' = SyncModes
      BY DEF SyncModes
    <2> QED
      BY <1>2, <1>3, <2>2, <2>3
      DEF TsanInv, TsanSound, ScanInv, MissInv, TsanMissesNone, TsanInOrder, OrderInv
  <1> QED
    BY <1>4, <1>5

\* A scan begins with nothing in the lists.
LEMMA InvInit == AnyReport => TsanInv /\ Loop
  <1> SUFFICES ASSUME AnyReport PROVE TsanInv /\ Loop
    OBVIOUS
  <1>1. /\ Loop
        /\ raw \in Seq(ReportLine) /\ fp = 0 /\ pc = "check" /\ baseIndex = 0 /\ boundaryIndex = 0
        /\ flagBlockStart = FALSE /\ flagReadStart = FALSE /\ flagWriteStart = FALSE
        /\ writeResultList = <<>> /\ readResultList = <<>> /\ files = <<>>
    BY DEF AnyReport, FileInit, Loop
  <1>2. TsanTypeOK
    <2>1. Len(raw) \in Nat
      BY <1>1
    <2>2. fp \in 0 .. Len(raw) /\ baseIndex \in 0 .. Len(raw) /\ boundaryIndex \in baseIndex .. Len(raw)
      BY <1>1, <2>1
    <2>3. /\ readResultList \in Seq(Site) /\ writeResultList \in Seq(Site) /\ files \in Seq(Seq(Site))
          /\ Len(readResultList) <= 1 /\ Len(writeResultList) <= 1
      BY <1>1, SiteLists
    <2>4. {flagBlockStart, flagReadStart, flagWriteStart} \subseteq BOOLEAN
      BY <1>1
    <2> QED
      BY <1>1, <2>2, <2>3, <2>4, Zenon DEF TsanTypeOK
  <1>3. TsanSound
    BY <1>1, ShortLists DEF TsanSound
  <1>4. ScanInv /\ MissInv /\ TsanMissesNone /\ TsanInOrder /\ OrderInv
    BY <1>1 DEF ScanInv, MissInv, TsanMissesNone, TsanInOrder, OrderInv
  <1> QED
    BY <1>1, <1>2, <1>3, <1>4 DEF TsanInv

\* For every report file, of complete blocks or not, and however it grows
\* before it is scanned: the variables of the loops keep their types, a flag
\* stands for a header above, the lists were taken since the last block
\* break, and the race files are made of frames of one block.
THEOREM TsanInvariant == TsanSpec => []TsanInv
  <1>1. AnyReport => TsanInv /\ Loop
    BY InvInit
  <1>2. TsanInv /\ Loop /\ [TsanNext \/ MoreLines]_rfVars => TsanInv' /\ Loop'
    BY InvStep
  <1> QED
    BY <1>1, <1>2, PTL DEF TsanSpec

\* Whatever the detector wrote, a race file of the verifier and of the sync
\* loop analysis is the write and the read of one block, each from a frame
\* below a header of its kind; runNormalConAnalysis takes frames of reads.
THEOREM TsanFilesSound == TsanSpec => []TsanSound
  <1>1. TsanInv => TsanSound
    BY DEF TsanInv
  <1> QED
    BY <1>1, TsanInvariant, PTL

\* Whatever the detector wrote, at the end of a scan no race of a block is
\* missed: the first write and the first read of every block have a race
\* file, if their stacks and the block end, and runNormalConAnalysis has
\* every frame of a read in one.
THEOREM TsanFilesComplete == TsanSpec => []TsanMissesNone
  <1>1. TsanInv => TsanMissesNone
    BY DEF TsanInv
  <1> QED
    BY <1>1, TsanInvariant, PTL

\* Whatever the detector wrote, the race files are in the order of the
\* report: of two of them, a line parts the frames of the first from those
\* of the second, so that no frame is used for both.
THEOREM TsanFilesInOrder == TsanSpec => []TsanInOrder
  <1>1. TsanInv => TsanInOrder
    BY DEF TsanInv
  <1> QED
    BY <1>1, TsanInvariant, PTL

----------------------------------------------------------------------------
(* valgrindOutputParser.py                                                 *)

VgLoop  == mode \in VgModes
VgKinds == {"start", "blank", "read", "write", "address", "other"}
vgAll   == <<rfVars, vgVars>>

LEMMA VgPosition ==
    ASSUME VgTypeOK, VgLoop
    PROVE  Position(VgKinds) /\ baseIndex = 0
  BY DEF VgTypeOK, VgLoop, VgReportLine, VgKinds, Position

\* The line that the loop is at.
LEMMA VgReads ==
    ASSUME VgTypeOK, VgLoop, NEW k, Reads(k)
    PROVE  /\ raw[fp + 1].kind = k
           /\ k = "frame" => raw[fp + 1].site \in Site /\ raw[fp + 1].fn \in FrameKinds
           /\ pc = "scan" /\ fp \in Nat /\ fp' = fp + 1 /\ fp' \in 0 .. Len(raw)
           /\ mode' = mode /\ raw' = raw /\ pc' = pc
           /\ baseIndex' = baseIndex /\ boundaryIndex' = boundaryIndex /\ blocks' = blocks
  <1>1. "frame" \notin VgKinds
    BY DEF VgKinds
  <1>2. fp + 1 \in 1 .. Len(raw) /\ fp' = fp + 1
    BY VgPosition, ReadsLine
  <1> QED
    BY <1>1, <1>2, VgPosition, ReadsLine, FrameFields

\* What is in the lists after a line.
Grown(list, new, k) ==
    new \in {list, <<>>} \/ (k = "frame" /\ new = <<raw[fp + 1].site>>)

\* A list that has grown has at most one site.
LEMMA GrownType ==
    ASSUME VgTypeOK, VgLoop, NEW k, Reads(k), NEW list \in Seq(Site), Len(list) <= 1,
           NEW new, Grown(list, new, k)
    PROVE  new \in Seq(Site) /\ Len(new) <= 1
  <1>1. CASE new = list
    BY <1>1
  <1>2. CASE new = <<>>
    BY <1>2, SiteLists
  <1>3. CASE k = "frame" /\ new = <<raw[fp + 1].site>>
    <2>1. PICK x \in Site : x = raw[fp + 1].site
      BY <1>3, VgReads
    <2>2. new = <<x>>
      BY <1>3, <2>1
    <2> QED
      BY <2>2, SiteLists
  <1> QED
    BY <1>1, <1>2, <1>3 DEF Grown

\* A race file is added, or none.
LEMMA VgFlushType ==
    ASSUME VgTypeOK, VgLoop, WriteAndRead \/ WriteAndWrite \/ NoRaceYet
    PROVE  /\ files' \in Seq(Seq(Site)) /\ pendingWriteFlag' \in BOOLEAN
           /\ readResultList' \in {readResultList, <<>>}
           /\ writeResultList' \in {writeResultList, <<>>}
           /\ writeResultList2' \in {writeResultList2, <<>>}
  <1>1. /\ readResultList \in Seq(Site) /\ writeResultList \in Seq(Site)
        /\ writeResultList2 \in Seq(Site) /\ files \in Seq(Seq(Site)) /\ pendingWriteFlag \in BOOLEAN
    BY DEF VgTypeOK, VgLoop
  <1>2. /\ writeResultList \o readResultList \in Seq(Site)
        /\ writeResultList \o writeResultList2 \in Seq(Site)
    BY <1>1
  <1>3. \A f \in Seq(Site) : Append(files, f) \in Seq(Seq(Site))
    BY <1>1
  <1>4. CASE WriteAndRead
    BY <1>1, <1>2, <1>3, <1>4 DEF WriteAndRead, WriteRace, lists
  <1>5. CASE WriteAndWrite
    BY <1>1, <1>2, <1>3, <1>5 DEF WriteAndWrite
  <1>6. CASE NoRaceYet
    BY <1>1, <1>6 DEF NoRaceYet, lists
  <1> QED
    BY <1>4, <1>5, <1>6

\* Every step keeps the types.
LEMMA VgTypeStep == VgTypeOK /\ VgLoop /\ [VgNext]_vgAll => VgTypeOK' /\ mode' = mode
  <1> SUFFICES ASSUME VgTypeOK, VgLoop, [VgNext]_vgAll
               PROVE  VgTypeOK' /\ mode' = mode
    OBVIOUS
  <1>0. /\ pc \in {"check", "scan", "done", "NameError"}
        /\ raw \in Seq(VgReportLine)
        /\ fp \in 0 .. Len(raw) /\ boundaryIndex \in 0 .. Len(raw) /\ baseIndex = 0
        /\ flagBlockStart \in BOOLEAN /\ flagReadStart \in BOOLEAN /\ flagWriteStart \in BOOLEAN
        /\ pendingWriteFlag \in BOOLEAN
        /\ readResultList \in Seq(Site) /\ Len(readResultList) <= 1
        /\ writeResultList \in Seq(Site) /\ Len(writeResultList) <= 1
        /\ writeResultList2 \in Seq(Site) /\ Len(writeResultList2) <= 1
        /\ files \in Seq(Seq(Site))
    BY DEF VgTypeOK, VgLoop
  <1>r. ASSUME NEW k, Reads(k),
               flagBlockStart' \in BOOLEAN, flagReadStart' \in BOOLEAN, flagWriteStart' \in BOOLEAN,
               pendingWriteFlag' \in BOOLEAN, files' \in Seq(Seq(Site)),
               Grown(readResultList, readResultList', k), Grown(writeResultList, writeResultList', k),
               Grown(writeResultList2, writeResultList2', k)
        PROVE  VgTypeOK' /\ mode' = mode
    <2>1. /\ fp' \in 0 .. Len(raw) /\ mode' = mode /\ raw' = raw /\ pc' = pc
          /\ baseIndex' = baseIndex /\ boundaryIndex' = boundaryIndex
      BY <1>r, VgReads
    <2>2. readResultList' \in Seq(Site) /\ Len(readResultList') <= 1
      BY <1>0, <1>r, GrownType
    <2>3. writeResultList' \in Seq(Site) /\ Len(writeResultList') <= 1
      BY <1>0, <1>r, GrownType
    <2>4. writeResultList2' \in Seq(Site) /\ Len(writeResultList2') <= 1
      BY <1>0, <1>r, GrownType
    <2> QED
      BY <1>0, <1>r, <2>1, <2>2, <2>3, <2>4 DEF VgTypeOK
  <1>1. CASE VgMainFails
    BY <1>0, <1>1 DEF VgMainFails, VgTypeOK, flags, lists, vgVars
  <1>2. CASE checkBlockIntegrity("blank") /\ UNCHANGED vgVars
    <2>1. boundaryIndex' \in 0 .. Len(raw)
      <3>1. baseIndex = 0 /\ Len(raw) \in Nat
        BY <1>0
      <3>2. baseIndex \in 0 .. Len(raw) /\ Position(VgKinds)
        BY <3>1, VgPosition
      <3>3. boundaryIndex' \in baseIndex .. Len(raw)
        BY <1>2, <3>2, Boundary
      <3> QED
        BY <3>1, <3>3
    <2>2. /\ fp' = 0 /\ pc' = "scan"
          /\ mode' = mode /\ raw' = raw /\ baseIndex' = baseIndex
          /\ UNCHANGED <<flags, lists, files, vgVars>>
      BY <1>2 DEF checkBlockIntegrity
    <2>3. fp' \in 0 .. Len(raw')
      BY <1>0, <2>2
    <2> QED
      BY <1>0, <2>1, <2>2, <2>3 DEF VgTypeOK, flags, lists, vgVars
  <1>3. CASE VgBlockStart \/ VgReadStart \/ VgWriteStart \/ VgReadEnd \/ VgOtherLine
    <2>1. PICK k \in {"start", "read", "write", "address", "other"} :
             /\ Reads(k)
             /\ flagBlockStart' \in BOOLEAN /\ flagReadStart' \in BOOLEAN /\ flagWriteStart' \in BOOLEAN
             /\ UNCHANGED <<files, vgVars>>
             /\ readResultList' \in {readResultList, <<>>}
             /\ writeResultList' \in {writeResultList, <<>>}
      BY <1>0, <1>3 DEF VgBlockStart, VgReadStart, VgWriteStart, VgReadEnd, VgOtherLine, flags, lists
    <2> QED
      BY <1>0, <1>r, <2>1 DEF Grown, vgVars
  <1>4. CASE VgCallStackLine
    <2>1. /\ Reads("frame")
          /\ flagBlockStart' = flagBlockStart /\ files' = files /\ pendingWriteFlag' = pendingWriteFlag
          /\ flagReadStart' \in BOOLEAN /\ flagWriteStart' \in BOOLEAN
      BY <1>0, <1>4 DEF VgCallStackLine
    <2>2. /\ Grown(readResultList, readResultList', "frame")
          /\ Grown(writeResultList, writeResultList', "frame")
          /\ Grown(writeResultList2, writeResultList2', "frame")
      BY <1>4, Zenon DEF VgCallStackLine, Grown
    <2> QED
      BY <1>0, <1>r, <2>1, <2>2
  <1>5. CASE VgLineBreak
    <2>1. /\ Reads("blank") /\ flagReadStart' = FALSE /\ flagWriteStart' = FALSE
          /\ flagBlockStart' = flagBlockStart
          /\ WriteAndRead \/ WriteAndWrite \/ NoRaceYet
      BY <1>5 DEF VgLineBreak
    <2>2. /\ files' \in Seq(Seq(Site)) /\ pendingWriteFlag' \in BOOLEAN
          /\ readResultList' \in {readResultList, <<>>}
          /\ writeResultList' \in {writeResultList, <<>>}
          /\ writeResultList2' \in {writeResultList2, <<>>}
      BY <2>1, VgFlushType
    <2> QED
      BY <1>0, <1>r, <2>1, <2>2 DEF Grown
  <1>6. CASE VgEndOfScan
    <2>1. fp' \in 0 .. Len(raw)
      BY <1>0, <1>6 DEF VgEndOfScan, AtBoundary
    <2>2. /\ mode' = mode /\ raw' = raw /\ boundaryIndex' = boundaryIndex /\ baseIndex' = baseIndex
          /\ UNCHANGED <<flags, lists, files, vgVars>> /\ pc' = "done"
      BY <1>6 DEF VgEndOfScan
    <2> QED
      BY <1>0, <2>1, <2>2 DEF VgTypeOK, flags, lists, vgVars
  <1>7. CASE UNCHANGED vgAll
    BY <1>0, <1>7 DEF VgTypeOK, vgAll, rfVars, scanning, flags, lists, vgVars
  <1> QED
    BY <1>1, <1>2, <1>3, <1>4, <1>5, <1>6, <1>7 DEF VgNext, runNormalSyncLoop

LEMMA VgEndKinds ==
    /\ {"frame", "read", "write", "other"} \cap VgStackEnds = {}
    /\ {"start", "blank", "address"} = VgStackEnds
  BY DEF VgStackEnds

\* Race files stay what they were, and a new one is made of what was taken.
LEMMA VgSoundStep ==
    ASSUME raw' = raw, mode' = mode, VgSound,
           mode = "valgrind" => \A f \in ToSet(files') : f \in ToSet(files) \/ VgRaceOf(f)
    PROVE  VgSound'
  <1>1. mode = "valgrind" => \A f \in ToSet(files') : VgRaceOf(f)
    BY DEF VgSound
  <1>2. PICK ends : ends = VgStackEnds
    OBVIOUS
  <1>3. ends = VgStackEnds'
    BY <1>2 DEF VgStackEnds
  <1>4. ASSUME NEW f, VgRaceOf(f)
        PROVE  VgRaceOf(f)'
    <2>1. PICK i, j \in DOMAIN raw :
             /\ InStack(i, "write", ends)
             /\ \/ InStack(j, "read", ends) /\ SameBlock(i, j, {"start"})
                \/ InStack(j, "write", ends) /\ i # j
             /\ f = <<raw[i].site, raw[j].site>>
      BY <1>2, <1>4 DEF VgRaceOf
    <2>2. /\ InStack(i, "write", ends)'
          /\ \/ InStack(j, "read", ends)' /\ SameBlock(i, j, {"start"})'
             \/ InStack(j, "write", ends)' /\ i # j
      BY <2>1, SameReport
    <2> QED
      BY <1>3, <2>1, <2>2 DEF VgRaceOf
  <1> QED
    BY <1>1, <1>4 DEF VgSound

\* Two different frames of writes stay that.
LEMMA TwoWritesStay ==
    ASSUME VgTypeOK, VgLoop, NEW kk, Reads(kk), NEW w, NEW r, TwoWrites(w, r)
    PROVE  TwoWrites(w, r)'
  <1>1. raw' = raw /\ fp' = fp + 1 /\ fp \in Nat
    BY VgReads
  <1>2. PICK ends : ends = VgStackEnds
    OBVIOUS
  <1>3. ends = VgStackEnds'
    BY <1>2 DEF VgStackEnds
  <1>4. PICK i, j \in 1 .. fp :
           /\ InStack(i, "write", ends) /\ InStack(j, "write", ends)
           /\ i # j /\ w = raw[i].site /\ r = raw[j].site
    BY <1>2 DEF TwoWrites
  <1>5. i \in 1 .. fp' /\ j \in 1 .. fp'
    BY <1>1
  <1>6. InStack(i, "write", ends)' /\ InStack(j, "write", ends)'
    BY <1>1, <1>4, SameReport
  <1> QED
    BY <1>1, <1>3, <1>4, <1>5, <1>6 DEF TwoWrites

\* The frame that is read is another one than those before.
LEMMA Another ==
    ASSUME VgTypeOK, VgLoop, Reads("frame"), Under(fp, "write", VgStackEnds),
           raw[fp + 1].fn = "app", NEW x, x = raw[fp + 1].site,
           NEW y, NEW breaks, Taken(y, "write", VgStackEnds, breaks)
    PROVE  TwoWrites(x, y)' /\ TwoWrites(y, x)'
  <1>1. raw' = raw /\ fp' = fp + 1 /\ fp \in Nat /\ Position(VgKinds)
    BY VgReads, VgPosition
  <1>2. PICK ends : ends = VgStackEnds
    OBVIOUS
  <1>3. ends = VgStackEnds' /\ "frame" \notin ends
    BY <1>2, VgEndKinds DEF VgStackEnds
  <1>4. PICK j \in 1 .. fp : InStack(j, "write", ends) /\ y = raw[j].site
    BY <1>2 DEF Taken
  <1>5. PICK i : i = fp + 1
    OBVIOUS
  <1>6. InStack(i, "write", ends)'
    BY <1>1, <1>2, <1>3, <1>5, FrameInStack
  <1>7. InStack(j, "write", ends)'
    BY <1>1, <1>4, SameReport
  <1>8. i \in 1 .. fp' /\ j \in 1 .. fp' /\ i # j
    BY <1>1, <1>5
  <1>9. x = raw'[i].site /\ y = raw'[j].site
    BY <1>1, <1>4, <1>5
  <1> QED
    BY <1>3, <1>6, <1>7, <1>8, <1>9 DEF TwoWrites

\* A site that is taken now, and one that stays taken.
LEMMA VgTakes ==
    ASSUME VgTypeOK, VgLoop, Reads("frame"), NEW k, Under(fp, k, VgStackEnds),
           raw[fp + 1].fn = "app", NEW x, x = raw[fp + 1].site, NEW breaks, "frame" \notin breaks
    PROVE  Taken(x, k, VgStackEnds, breaks)'
  <1>1. PICK ends : ends = VgStackEnds
    OBVIOUS
  <1>2. ends = VgStackEnds' /\ "frame" \notin ends
    BY <1>1, VgEndKinds DEF VgStackEnds
  <1>3. Taken(x, k, ends, breaks)'
    BY <1>1, <1>2, VgPosition, Takes
  <1> QED
    BY <1>2, <1>3 DEF Taken

\* A line that is read keeps the flags and the lists to what they stand for.
LEMMA VgScanStep ==
    ASSUME VgTypeOK, VgScanInv, mode = "valgrind", NEW kk, Reads(kk),
           flagReadStart' => kk = "read" \/ (flagReadStart /\ kk \notin VgStackEnds),
           flagWriteStart' => kk = "write" \/ (flagWriteStart /\ kk \notin VgStackEnds),
           \A x \in ToSet(readResultList') :
               \/ x \in ToSet(readResultList) /\ kk # "start"
               \/ Taken(x, "read", VgStackEnds, {"start"})',
           \A x \in ToSet(writeResultList') :
               \/ x \in ToSet(writeResultList) /\ kk # "start"
               \/ Taken(x, "write", VgStackEnds, {"start"})',
           \A x \in ToSet(writeResultList2') :
               x \in ToSet(writeResultList2) \/ Taken(x, "write", VgStackEnds, {})',
           \A w \in ToSet(writeResultList'), r \in ToSet(writeResultList2') :
               \/ w \in ToSet(writeResultList) /\ r \in ToSet(writeResultList2)
               \/ TwoWrites(w, r)'
    PROVE  VgScanInv'
  <1>1. VgLoop
    BY DEF VgLoop, VgModes
  <1>2. pc = "scan" /\ mode' = mode /\ raw' = raw /\ pc' = pc /\ Position(VgKinds)
    BY <1>1, VgReads, VgPosition
  <1>3. PICK ends : ends = VgStackEnds
    OBVIOUS
  <1>4. ends = VgStackEnds' /\ "read" \notin ends /\ "write" \notin ends
    BY <1>3, VgEndKinds DEF VgStackEnds
  <1>6. /\ flagReadStart => Under(fp, "read", ends)
        /\ flagWriteStart => Under(fp, "write", ends)
        /\ \A x \in ToSet(readResultList) : Taken(x, "read", ends, {"start"})
        /\ \A x \in ToSet(writeResultList) : Taken(x, "write", ends, {"start"})
        /\ \A x \in ToSet(writeResultList2) : Taken(x, "write", ends, {})
        /\ \A w \in ToSet(writeResultList), r \in ToSet(writeResultList2) : TwoWrites(w, r)
    BY <1>2, <1>3 DEF VgScanInv
  <1>7. flagReadStart' => Under(fp, "read", ends)'
    BY <1>2, <1>3, <1>4, <1>6, FlagStep
  <1>8. flagWriteStart' => Under(fp, "write", ends)'
    BY <1>2, <1>3, <1>4, <1>6, FlagStep
  <1>t. ASSUME NEW x, NEW k, NEW breaks, Taken(x, k, ends, breaks), kk \notin breaks
        PROVE  Taken(x, k, ends, breaks)'
    BY <1>2, <1>t, KeepsTaken
  <1>e. ASSUME NEW x, NEW k, NEW breaks, Taken(x, k, VgStackEnds, breaks)'
        PROVE  Taken(x, k, ends, breaks)'
    BY <1>4, <1>e DEF Taken
  <1>9. \A x \in ToSet(readResultList') : Taken(x, "read", ends, {"start"})'
    BY <1>6, <1>t, <1>e
  <1>10. \A x \in ToSet(writeResultList') : Taken(x, "write", ends, {"start"})'
    BY <1>6, <1>t, <1>e
  <1>11. \A x \in ToSet(writeResultList2') : Taken(x, "write", ends, {})'
    BY <1>6, <1>t, <1>e
  <1>12. \A w \in ToSet(writeResultList'), r \in ToSet(writeResultList2') : TwoWrites(w, r)'
    BY <1>1, <1>6, TwoWritesStay
  <1> QED
    BY <1>2, <1>4, <1>7, <1>8, <1>9, <1>10, <1>11, <1>12 DEF VgScanInv

\* What a race file is made of when it is written.
LEMMA VgFlushSound ==
    ASSUME VgTypeOK, VgScanInv, VgSound, mode = "valgrind", NEW kk, Reads(kk),
           WriteAndRead \/ WriteAndWrite \/ NoRaceYet
    PROVE  /\ VgSound'
           /\ ToSet(readResultList') \subseteq ToSet(readResultList)
           /\ ToSet(writeResultList') \subseteq ToSet(writeResultList)
           /\ ToSet(writeResultList2') \subseteq ToSet(writeResultList2)
  <1>0. VgLoop
    BY DEF VgLoop, VgModes
  <1>1. mode' = mode /\ raw' = raw /\ pc = "scan" /\ Position(VgKinds)
    BY <1>0, VgReads, VgPosition
  <1>2. /\ readResultList \in Seq(Site) /\ Len(readResultList) <= 1
        /\ writeResultList \in Seq(Site) /\ Len(writeResultList) <= 1
        /\ writeResultList2 \in Seq(Site) /\ Len(writeResultList2) <= 1
        /\ files \in Seq(Seq(Site))
    BY <1>0 DEF VgTypeOK, VgLoop
  <1>3. /\ \A x \in ToSet(readResultList) : Taken(x, "read", VgStackEnds, {"start"})
        /\ \A x \in ToSet(writeResultList) : Taken(x, "write", VgStackEnds, {"start"})
        /\ \A w \in ToSet(writeResultList), r \in ToSet(writeResultList2) : TwoWrites(w, r)
    BY <1>1 DEF VgScanInv
  <1>4. /\ readResultList' \in {readResultList, <<>>}
        /\ writeResultList' \in {writeResultList, <<>>}
        /\ writeResultList2' \in {writeResultList2, <<>>}
    BY <1>0, VgFlushType
  <1>5. ASSUME files' = files
        PROVE  VgSound'
    BY <1>1, <1>5, VgSoundStep
  <1>6. ASSUME NEW g \in Seq(Site), files' = Append(files, g), VgRaceOf(g)
        PROVE  VgSound'
    <2>1. ToSet(files') = ToSet(files) \cup {g}
      BY <1>2, <1>6, AppendToSet
    <2> QED
      BY <1>1, <1>6, <2>1, VgSoundStep
  <1>7. CASE WriteAndRead
    <2>1. PICK w \in Site : writeResultList = <<w>>
      BY <1>2, <1>7, ShortLists DEF WriteAndRead
    <2>2. PICK r \in Site : readResultList = <<r>>
      BY <1>2, <1>7, ShortLists DEF WriteAndRead
    <2>3. Taken(w, "write", VgStackEnds, {"start"}) /\ Taken(r, "read", VgStackEnds, {"start"})
      BY <1>3, <2>1, <2>2, ShortLists
    <2>4. VgRaceOf(<<w, r>>)
      BY <1>1, <2>3, Meets DEF VgRaceOf
    <2>5. files' = Append(files, <<w, r>>)
      BY <1>7, <2>1, <2>2, ShortLists DEF WriteAndRead, WriteRace
    <2>6. <<w, r>> \in Seq(Site)
      OBVIOUS
    <2> QED
      BY <1>4, <1>6, <2>4, <2>5, <2>6, ShortLists
  <1>8. CASE WriteAndWrite
    <2>1. PICK w \in Site : writeResultList = <<w>>
      BY <1>2, <1>8, ShortLists DEF WriteAndWrite
    <2>2. PICK r \in Site : writeResultList2 = <<r>>
      BY <1>2, <1>8, ShortLists DEF WriteAndWrite
    <2>3. TwoWrites(w, r)
      BY <1>3, <2>1, <2>2, ShortLists
    <2>4. VgRaceOf(<<w, r>>)
      <3>1. PICK i, j \in 1 .. fp :
               /\ InStack(i, "write", VgStackEnds) /\ InStack(j, "write", VgStackEnds)
               /\ i # j /\ w = raw[i].site /\ r = raw[j].site
        BY <2>3 DEF TwoWrites
      <3>2. fp \in 0 .. Len(raw) /\ Len(raw) \in Nat /\ DOMAIN raw = 1 .. Len(raw)
        BY <1>1 DEF Position
      <3>3. i \in DOMAIN raw /\ j \in DOMAIN raw
        BY <3>2
      <3> QED
        BY <3>1, <3>3 DEF VgRaceOf
    <2>5. files' = Append(files, <<w, r>>)
      BY <1>8, <2>1, <2>2, ShortLists DEF WriteAndWrite
    <2>6. <<w, r>> \in Seq(Site)
      OBVIOUS
    <2> QED
      BY <1>4, <1>6, <2>4, <2>5, <2>6, ShortLists
  <1>9. CASE NoRaceYet
    BY <1>4, <1>5, <1>9, ShortLists DEF NoRaceYet
  <1> QED
    BY <1>7, <1>8, <1>9

\* A frame is taken into one of the lists of writes, never into both.
LEMMA VgFrameStep ==
    ASSUME VgTypeOK, VgScanInv, mode = "valgrind", VgCallStackLine
    PROVE  VgScanInv'
  <1>0. VgLoop
    BY DEF VgLoop, VgModes
  <1>1. Reads("frame")
    BY DEF VgCallStackLine
  <1>2. pc = "scan" /\ raw[fp + 1].fn \in FrameKinds
    BY <1>0, <1>1, VgReads
  <1>3. PICK x : x = raw[fp + 1].site
    OBVIOUS
  <1>4. /\ flagReadStart' => flagReadStart
        /\ flagWriteStart' => flagWriteStart
        /\ \/ readResultList' = readResultList
           \/ flagReadStart /\ raw[fp + 1].fn # "icp" /\ readResultList' = <<x>>
        /\ \/ writeResultList' = writeResultList
           \/ /\ flagWriteStart /\ raw[fp + 1].fn # "icp"
              /\ writeResultList = <<>> /\ writeResultList' = <<x>>
        /\ \/ writeResultList2' = writeResultList2
           \/ /\ flagWriteStart /\ raw[fp + 1].fn # "icp"
              /\ writeResultList # <<>> /\ writeResultList2' = <<x>>
    BY <1>3, Zenon DEF VgCallStackLine
  <1>5. raw[fp + 1].fn # "icp" => raw[fp + 1].fn = "app"
    BY <1>2 DEF FrameKinds
  <1>6. /\ flagReadStart => Under(fp, "read", VgStackEnds)
        /\ flagWriteStart => Under(fp, "write", VgStackEnds)
        /\ \A y \in ToSet(writeResultList) : Taken(y, "write", VgStackEnds, {"start"})
        /\ \A y \in ToSet(writeResultList2) : Taken(y, "write", VgStackEnds, {})
    BY <1>2 DEF VgScanInv
  <1>7. \A y \in ToSet(readResultList') :
           y \in ToSet(readResultList) \/ Taken(y, "read", VgStackEnds, {"start"})'
    <2>1. CASE readResultList' = readResultList
      BY <2>1
    <2>2. CASE readResultList' # readResultList
      <3>1. Taken(x, "read", VgStackEnds, {"start"})'
        BY <1>0, <1>1, <1>3, <1>4, <1>5, <1>6, <2>2, VgTakes
      <3>2. ToSet(readResultList') = {x}
        BY <1>4, <2>2, ShortLists
      <3> QED
        BY <3>1, <3>2
    <2> QED
      BY <2>1, <2>2
  <1>8. CASE writeResultList' = writeResultList /\ writeResultList2' = writeResultList2
    <2>1. /\ \A y \in ToSet(writeResultList') : y \in ToSet(writeResultList)
          /\ \A y \in ToSet(writeResultList2') : y \in ToSet(writeResultList2)
      BY <1>8
    <2> QED
      BY <1>1, <1>4, <1>7, <2>1, VgEndKinds, VgScanStep
  <1>9. CASE writeResultList' # writeResultList
    <2>1. /\ Under(fp, "write", VgStackEnds) /\ raw[fp + 1].fn = "app"
          /\ writeResultList' = <<x>> /\ writeResultList2' = writeResultList2
      BY <1>4, <1>5, <1>6, <1>9
    <2>2. ToSet(writeResultList') = {x} /\ ToSet(writeResultList2') = ToSet(writeResultList2)
      BY <2>1, ShortLists
    <2>3. Taken(x, "write", VgStackEnds, {"start"})'
      BY <1>0, <1>1, <1>3, <2>1, VgTakes
    <2>4. \A r \in ToSet(writeResultList2) : TwoWrites(x, r)'
      BY <1>0, <1>1, <1>3, <1>6, <2>1, Another
    <2> QED
      BY <1>1, <1>4, <1>7, <2>2, <2>3, <2>4, VgEndKinds, VgScanStep
  <1>10. CASE writeResultList2' # writeResultList2
    <2>1. /\ Under(fp, "write", VgStackEnds) /\ raw[fp + 1].fn = "app"
          /\ writeResultList' = writeResultList /\ writeResultList2' = <<x>>
      BY <1>4, <1>5, <1>6, <1>10
    <2>2. ToSet(writeResultList') = ToSet(writeResultList) /\ ToSet(writeResultList2') = {x}
      BY <2>1, ShortLists
    <2>3. Taken(x, "write", VgStackEnds, {})'
      BY <1>0, <1>1, <1>3, <2>1, VgTakes
    <2>4. \A w \in ToSet(writeResultList) : TwoWrites(w, x)'
      BY <1>0, <1>1, <1>3, <1>6, <2>1, Another
    <2> QED
      BY <1>1, <1>4, <1>7, <2>2, <2>3, <2>4, VgEndKinds, VgScanStep
  <1> QED
    BY <1>8, <1>9, <1>10

\* Every step keeps what race files, flags and lists stand for.
LEMMA VgSoundScanStep ==
    VgInv /\ mode = "valgrind" /\ [VgNext]_vgAll => VgSound' /\ VgScanInv'
  <1> SUFFICES ASSUME VgTypeOK, VgSound, VgScanInv, mode = "valgrind", [VgNext]_vgAll
               PROVE  VgSound' /\ VgScanInv'
    BY DEF VgInv
  <1>0. VgLoop
    BY DEF VgLoop, VgModes
  <1>k. ASSUME raw' = raw, mode' = mode, files' = files
        PROVE  VgSound'
    BY <1>k, VgSoundStep
  <1>1. CASE VgMainFails
    BY <1>1 DEF VgMainFails
  <1>2. CASE checkBlockIntegrity("blank") /\ UNCHANGED vgVars
    <2>1. /\ pc = "check" /\ pc' = "scan" /\ fp' = 0 /\ mode' = mode /\ raw' = raw
          /\ UNCHANGED <<flags, lists, files, vgVars>>
      BY <1>2 DEF checkBlockIntegrity
    <2>2. /\ ~flagReadStart /\ ~flagWriteStart
          /\ readResultList = <<>> /\ writeResultList = <<>> /\ writeResultList2 = <<>>
      BY <2>1 DEF VgScanInv
    <2>3. VgScanInv'
      BY <2>1, <2>2, ShortLists DEF VgScanInv, flags, lists, vgVars
    <2> QED
      BY <1>k, <2>1, <2>3
  <1>3. CASE VgReadStart \/ VgWriteStart \/ VgReadEnd \/ VgOtherLine
    <2>1. PICK kk \in {"read", "write", "address", "other"} :
             /\ Reads(kk)
             /\ UNCHANGED <<lists, files, vgVars>>
             /\ flagReadStart' => kk = "read" \/ (flagReadStart /\ kk # "address")
             /\ flagWriteStart' => kk = "write" \/ (flagWriteStart /\ kk # "address")
      BY <1>3 DEF VgReadStart, VgWriteStart, VgReadEnd, VgOtherLine, flags
    <2>2. VgScanInv'
      BY <2>1, VgEndKinds, VgScanStep DEF lists, vgVars
    <2> QED
      BY <1>0, <1>k, <2>1, <2>2, VgReads
  <1>4. CASE VgBlockStart
    <2>1. /\ Reads("start") /\ readResultList' = <<>> /\ writeResultList' = <<>>
          /\ UNCHANGED <<files, vgVars>> /\ flagReadStart' = FALSE /\ flagWriteStart' = FALSE
      BY <1>4 DEF VgBlockStart
    <2>2. ToSet(readResultList') = {} /\ ToSet(writeResultList') = {}
      BY <2>1, ShortLists
    <2>3. VgScanInv'
      BY <2>1, <2>2, VgScanStep DEF vgVars
    <2> QED
      BY <1>0, <1>k, <2>1, <2>3, VgReads
  <1>5. CASE VgCallStackLine
    <2>1. Reads("frame") /\ files' = files
      BY <1>5 DEF VgCallStackLine
    <2> QED
      BY <1>0, <1>5, <1>k, <2>1, VgReads, VgFrameStep
  <1>6. CASE VgLineBreak
    <2>1. /\ Reads("blank") /\ flagReadStart' = FALSE /\ flagWriteStart' = FALSE
          /\ WriteAndRead \/ WriteAndWrite \/ NoRaceYet
      BY <1>6 DEF VgLineBreak
    <2>2. /\ VgSound'
          /\ ToSet(readResultList') \subseteq ToSet(readResultList)
          /\ ToSet(writeResultList') \subseteq ToSet(writeResultList)
          /\ ToSet(writeResultList2') \subseteq ToSet(writeResultList2)
      BY <2>1, VgFlushSound
    <2>3. VgScanInv'
      BY <2>1, <2>2, VgScanStep
    <2> QED
      BY <2>2, <2>3
  <1>7. CASE VgEndOfScan
    <2>1. pc' = "done" /\ mode' = mode /\ raw' = raw /\ files' = files
      BY <1>7 DEF VgEndOfScan
    <2> QED
      BY <1>k, <2>1 DEF VgScanInv
  <1>8. CASE UNCHANGED vgAll
    <2>1. UNCHANGED <<mode, raw, fp, pc, flags, lists, files, vgVars>>
      BY <1>8 DEF vgAll, rfVars, scanning
    <2>2. \A x, k, breaks : Taken(x, k, VgStackEnds, breaks)' <=> Taken(x, k, VgStackEnds, breaks)
      BY <2>1 DEF Taken, InStack, Under, VgStackEnds
    <2>3. \A k : Under(fp, k, VgStackEnds)' <=> Under(fp, k, VgStackEnds)
      BY <2>1 DEF Under, VgStackEnds
    <2>4. \A w, r : TwoWrites(w, r)' <=> TwoWrites(w, r)
      BY <2>1 DEF TwoWrites, InStack, Under, VgStackEnds
    <2>5. VgScanInv'
      BY <2>1, <2>2, <2>3, <2>4 DEF VgScanInv, flags, lists, vgVars
    <2> QED
      BY <1>k, <2>1, <2>5
  <1> QED
    BY <1>1, <1>2, <1>3, <1>4, <1>5, <1>6, <1>7, <1>8 DEF VgNext, runNormalSyncLoop

----------------------------------------------------------------------------
(* Nor by the other parser.                                                *)

VgSeen(n, k)      == SeenAt(n, k, VgStackEnds, {"start"})
VgLed(n, k)       == LeadsAt(n, k, VgStackEnds, {"start"}, FALSE)
VgEndedAt(e, k)   == EndedAt(e, k, VgStackEnds, {"start"}, FALSE)
BeginsIn(fs, i)   == \E f \in ToSet(fs) : f[1] = raw[i].site

\* What becomes of the reads and of the writes that line n has been reached with.
ReadsAt(n, rs) ==
    \A j \in VgLed(n, "read") : rs = <<raw[j].site>> \/ VgSeen(n, "write")
WritesAt(n, ws, pend, fs) ==
    \A i \in VgLed(n, "write") :
        /\ BeginsIn(fs, i) \/ ws = <<raw[i].site>>
        /\ (\E d \in i .. n : Blank(d)) => BeginsIn(fs, i) \/ pend
BothAt(n, ws, rs, fs) ==
    \A i \in VgLed(n, "write"), j \in VgLed(n, "read") :
        \/ BeginsIn(fs, i) /\ (j < i => PairOf(i, j) \in ToSet(fs))
        \/ /\ ws = <<raw[i].site>> /\ rs = <<raw[j].site>>
           /\ \A e \in 1 .. n : i < e /\ j < e => ~Blank(e)
TwoAt(n, vs, fs) ==
    \A i \in VgLed(n, "write") : \A j \in Again(i, n + 1) :
        \/ BeginsIn(fs, i)
        \/ vs # <<>> /\ \A e \in j .. n : ~Blank(e)
KeptAt(e, fs) ==
    \A i \in VgEndedAt(e, "write") :
        /\ \A j \in VgEndedAt(e, "read") : BeginsIn(fs, i) /\ (j < i => PairOf(i, j) \in ToSet(fs))
        /\ Again(i, e) # {} => BeginsIn(fs, i)
VgEndsAt(n, fs) == \A e \in 1 .. n : Blank(e) => KeptAt(e, fs)

\* VgPairInv, when the first n lines are read, of the lists and race files fs.
VgPairAt(n, ws, rs, vs, pend, fs) ==
    /\ ReadsAt(n, rs) /\ WritesAt(n, ws, pend, fs) /\ BothAt(n, ws, rs, fs)
    /\ TwoAt(n, vs, fs) /\ VgEndsAt(n, fs)

VgAtLine(n) ==
    raw \in Seq(LineOf(VgKinds)) /\ n \in Nat /\ n + 1 \in 1 .. Len(raw)

\* LeadsNext, SeenNext and LeadsFirst for the blocks of Helgrind.
LEMMA VgLedNext ==
    ASSUME NEW n, VgAtLine(n), NEW k
    PROVE  \A i \in VgLed(n + 1, k) :
              /\ raw[n + 1].kind # "start"
              /\ i \in 1 .. n + 1
              /\ \/ i \in VgLed(n, k)
                 \/ i = n + 1 /\ raw[i].kind = "frame" /\ VgLeads(i, k)
  <1>1. PICK ends, breaks, skips : ends = VgStackEnds /\ breaks = {"start"} /\ skips = FALSE
    OBVIOUS
  <1>2. \A i \in LeadsAt(n + 1, k, ends, breaks, skips) :
           /\ raw[n + 1].kind \notin breaks
           /\ \/ i \in LeadsAt(n, k, ends, breaks, skips)
              \/ i = n + 1 /\ raw[i].kind = "frame" /\ Leads(i, k, ends, breaks, skips)
    BY LeadsNext DEF VgAtLine
  <1>3. /\ \A m : VgLed(m, k) = LeadsAt(m, k, ends, breaks, skips)
        /\ \A i : VgLeads(i, k) <=> Leads(i, k, ends, breaks, skips)
    BY <1>1 DEF VgLed, VgLeads
  <1>4. \A i \in VgLed(n + 1, k) : i \in 1 .. n + 1
    BY DEF VgLed, LeadsAt
  <1> QED
    BY <1>1, <1>2, <1>3, <1>4

LEMMA VgLedLines ==
    ASSUME NEW n, NEW k, NEW i \in VgLed(n, k)
    PROVE  i \in 1 .. n
  BY DEF VgLed, LeadsAt

LEMMA VgSeenNext ==
    ASSUME NEW n, VgAtLine(n), NEW k, raw[n + 1].kind # "start", VgSeen(n, k)
    PROVE  VgSeen(n + 1, k)
  BY SeenNext DEF VgAtLine, VgSeen

LEMMA VgFirst ==
    ASSUME NEW n, VgAtLine(n), NEW k, VgLeads(n + 1, k)
    PROVE  ~VgSeen(n, k)
  BY LeadsFirst DEF VgAtLine, VgSeen, VgLeads

\* Only a frame of a write is another one of the block.
LEMMA AgainNext ==
    ASSUME NEW n \in Nat, NEW i \in 1 .. n + 1
    PROVE  \A j \in Again(i, n + 2) :
              \/ i \in 1 .. n /\ j \in Again(i, n + 1)
              \/ /\ j = n + 1 /\ i \in 1 .. n /\ raw[j].kind = "frame" /\ raw[j].fn = "app"
                 /\ Opens(n, "write", FALSE)
                 /\ \E d \in i .. n : Blank(d)
  <1> SUFFICES ASSUME NEW j \in Again(i, n + 2)
               PROVE  \/ i \in 1 .. n /\ j \in Again(i, n + 1)
                      \/ /\ j = n + 1 /\ i \in 1 .. n /\ raw[j].kind = "frame" /\ raw[j].fn = "app"
                         /\ Opens(n, "write", FALSE)
                         /\ \E d \in i .. n : Blank(d)
    OBVIOUS
  <1>1. /\ j \in i + 1 .. n + 1
        /\ raw[j].kind = "frame" /\ raw[j].fn = "app" /\ Opens(j - 1, "write", FALSE)
        /\ \E d \in i + 1 .. j - 1 : Blank(d)
    <2>1. (n + 2) - 1 = n + 1
      OBVIOUS
    <2> QED
      BY <2>1, Zenon DEF Again
  <1>2. i \in 1 .. n
    BY <1>1
  <1>3. CASE j = n + 1
    <2>1. j - 1 = n /\ \A d \in i + 1 .. j - 1 : d \in i .. n
      BY <1>2, <1>3
    <2> QED
      BY <1>1, <1>2, <1>3, <2>1
  <1>4. CASE j # n + 1
    <2>1. j \in i + 1 .. (n + 1) - 1
      BY <1>1, <1>4
    <2> QED
      BY <1>1, <1>2, <2>1 DEF Again
  <1> QED
    BY <1>3, <1>4

\* More race files keep what fewer have kept.
LEMMA KeptGrows ==
    ASSUME NEW e, NEW fs, NEW fs2, \A f \in ToSet(fs) : f \in ToSet(fs2), KeptAt(e, fs)
    PROVE  KeptAt(e, fs2)
  <1>1. \A i : BeginsIn(fs, i) => BeginsIn(fs2, i)
    BY DEF BeginsIn
  <1>2. \A i, j : PairOf(i, j) \in ToSet(fs) => PairOf(i, j) \in ToSet(fs2)
    OBVIOUS
  <1> QED
    BY <1>1, <1>2 DEF KeptAt

\* A line that is neither a frame nor a break.
LEMMA VgQuietPairs ==
    ASSUME NEW n, VgAtLine(n), NEW ws, NEW rs, NEW vs, NEW pend, NEW fs,
           VgPairAt(n, ws, rs, vs, pend, fs),
           raw[n + 1].kind \in {"read", "write", "address", "other"}
    PROVE  VgPairAt(n + 1, ws, rs, vs, pend, fs)
  <1>1. raw[n + 1].kind # "start" /\ raw[n + 1].kind # "frame" /\ ~Blank(n + 1) /\ n \in Nat
    BY DEF Blank, VgAtLine
  <1>2. \A k : \A i \in VgLed(n + 1, k) : i \in VgLed(n, k) /\ i \in 1 .. n
    BY <1>1, VgLedNext, VgLedLines
  <1>3. \A e \in 1 .. n + 1 : e = n + 1 \/ e \in 1 .. n
    BY <1>1
  <1>4. \A i \in 1 .. n : \A e \in i .. n + 1 : e = n + 1 \/ e \in i .. n
    BY <1>1
  <1>5. ReadsAt(n + 1, rs)
    BY <1>1, <1>2, VgSeenNext DEF VgPairAt, ReadsAt
  <1>6. WritesAt(n + 1, ws, pend, fs)
    BY <1>1, <1>2, <1>4 DEF VgPairAt, WritesAt
  <1>7. BothAt(n + 1, ws, rs, fs)
    BY <1>1, <1>2, <1>3 DEF VgPairAt, BothAt
  <1>8. TwoAt(n + 1, vs, fs)
    <2> SUFFICES ASSUME NEW i \in VgLed(n + 1, "write"), NEW j \in Again(i, (n + 1) + 1)
                 PROVE  \/ BeginsIn(fs, i)
                        \/ vs # <<>> /\ \A e \in j .. n + 1 : ~Blank(e)
      BY DEF TwoAt
    <2>1. (n + 1) + 1 = n + 2 /\ i \in VgLed(n, "write") /\ i \in 1 .. n /\ i \in 1 .. n + 1
      BY <1>1, <1>2
    <2>2. j \in Again(i, n + 1)
      BY <1>1, <2>1, AgainNext
    <2>3. \A e \in j .. n + 1 : e = n + 1 \/ e \in j .. n
      BY <1>1, <2>2 DEF Again
    <2> QED
      BY <1>1, <2>1, <2>2, <2>3 DEF VgPairAt, TwoAt
  <1>9. VgEndsAt(n + 1, fs)
    BY <1>1, <1>3 DEF VgPairAt, VgEndsAt
  <1> QED
    BY <1>5, <1>6, <1>7, <1>8, <1>9 DEF VgPairAt

\* A frame fills the list of its access, or the second list of writes.
LEMMA VgFramePairs ==
    ASSUME NEW n, VgAtLine(n), NEW ws, NEW rs, NEW vs, NEW pend, NEW fs,
           VgPairAt(n, ws, rs, vs, pend, fs),
           raw[n + 1].kind = "frame",
           ws # <<>> => VgSeen(n, "write"), rs # <<>> => VgSeen(n, "read"),
           NEW ws2, ws # <<>> => ws2 = ws,
           ws = <<>> /\ VgLeads(n + 1, "write") => ws2 = <<raw[n + 1].site>>,
           NEW rs2, rs # <<>> => rs2 = rs,
           rs = <<>> /\ VgLeads(n + 1, "read") => rs2 = <<raw[n + 1].site>>,
           NEW vs2, vs # <<>> => vs2 # <<>>,
           raw[n + 1].fn = "app" /\ Opens(n, "write", FALSE) /\ ws # <<>> /\ pend => vs2 # <<>>
    PROVE  VgPairAt(n + 1, ws2, rs2, vs2, pend, fs)
  <1>1. raw[n + 1].kind # "start" /\ ~Blank(n + 1) /\ n \in Nat
    BY DEF Blank, VgAtLine
  <1>2. /\ VgLeads(n + 1, "write") => ~VgSeen(n, "write") /\ ws = <<>> /\ ws2 = <<raw[n + 1].site>>
        /\ VgLeads(n + 1, "read") => ~VgSeen(n, "read") /\ rs = <<>> /\ rs2 = <<raw[n + 1].site>>
    BY VgFirst
  <1>3. (\A x : ws = <<x>> => ws2 = ws /\ ws # <<>>) /\ (\A x : rs = <<x>> => rs2 = rs)
    OBVIOUS
  <1>4. \A k : \A i \in VgLed(n + 1, k) :
           \/ i \in VgLed(n, k) /\ i \in 1 .. n
           \/ i = n + 1 /\ VgLeads(n + 1, k)
    BY VgLedNext, VgLedLines
  <1>5. \A e \in 1 .. n + 1 : e = n + 1 \/ e \in 1 .. n
    BY <1>1
  <1>6. \A i \in 1 .. n : \A e \in i .. n + 1 : e = n + 1 \/ e \in i .. n
    BY <1>1
  <1>7. ReadsAt(n + 1, rs2)
    <2> SUFFICES ASSUME NEW j \in VgLed(n + 1, "read")
                 PROVE  rs2 = <<raw[j].site>> \/ VgSeen(n + 1, "write")
      BY DEF ReadsAt
    <2>1. CASE j \in VgLed(n, "read")
      BY <1>1, <1>3, <2>1, VgSeenNext DEF VgPairAt, ReadsAt
    <2>2. CASE j = n + 1 /\ VgLeads(n + 1, "read")
      BY <1>2, <2>2
    <2> QED
      BY <1>4, <2>1, <2>2
  <1>8. WritesAt(n + 1, ws2, pend, fs)
    <2> SUFFICES ASSUME NEW i \in VgLed(n + 1, "write")
                 PROVE  /\ BeginsIn(fs, i) \/ ws2 = <<raw[i].site>>
                        /\ (\E d \in i .. n + 1 : Blank(d)) => BeginsIn(fs, i) \/ pend
      BY DEF WritesAt
    <2>1. CASE i \in VgLed(n, "write") /\ i \in 1 .. n
      BY <1>1, <1>3, <1>6, <2>1 DEF VgPairAt, WritesAt
    <2>2. CASE i = n + 1 /\ VgLeads(n + 1, "write")
      <3>1. \A d \in i .. n + 1 : d = n + 1
        BY <1>1, <2>2
      <3> QED
        BY <1>1, <1>2, <2>2, <3>1
    <2> QED
      BY <1>4, <2>1, <2>2
  <1>9. BothAt(n + 1, ws2, rs2, fs)
    <2> SUFFICES ASSUME NEW i \in VgLed(n + 1, "write"), NEW j \in VgLed(n + 1, "read")
                 PROVE  \/ BeginsIn(fs, i) /\ (j < i => PairOf(i, j) \in ToSet(fs))
                        \/ /\ ws2 = <<raw[i].site>> /\ rs2 = <<raw[j].site>>
                           /\ \A e \in 1 .. n + 1 : i < e /\ j < e => ~Blank(e)
      BY DEF BothAt
    <2>1. CASE i \in VgLed(n, "write") /\ j \in VgLed(n, "read")
      <3>1. CASE BeginsIn(fs, i) /\ (j < i => PairOf(i, j) \in ToSet(fs))
        BY <3>1
      <3>2. CASE /\ ws = <<raw[i].site>> /\ rs = <<raw[j].site>>
                 /\ \A e \in 1 .. n : i < e /\ j < e => ~Blank(e)
        <4>1. ws2 = <<raw[i].site>> /\ rs2 = <<raw[j].site>>
          BY <1>3, <3>2
        <4>2. \A e \in 1 .. n + 1 : i < e /\ j < e => ~Blank(e)
          BY <1>1, <1>5, <3>2
        <4> QED
          BY <4>1, <4>2
      <3> QED
        BY <2>1, <3>1, <3>2 DEF VgPairAt, BothAt
    <2>2. CASE i = n + 1 /\ VgLeads(n + 1, "write") /\ j \in VgLed(n, "read")
      <3>1. rs = <<raw[j].site>>
        BY <1>2, <2>2 DEF VgPairAt, ReadsAt
      <3>2. \A e \in 1 .. n + 1 : ~(i < e)
        BY <1>1, <2>2
      <3> QED
        BY <1>2, <1>3, <2>2, <3>1, <3>2
    <2>3. CASE i \in VgLed(n, "write") /\ i \in 1 .. n /\ j = n + 1 /\ VgLeads(n + 1, "read")
      <3>1. BeginsIn(fs, i) \/ ws = <<raw[i].site>>
        BY <2>3 DEF VgPairAt, WritesAt
      <3>2. ~(j < i) /\ \A e \in 1 .. n + 1 : ~(j < e)
        BY <1>1, <2>3
      <3> QED
        BY <1>2, <1>3, <2>3, <3>1, <3>2
    <2>4. CASE i = n + 1 /\ VgLeads(n + 1, "write") /\ j = n + 1 /\ VgLeads(n + 1, "read")
      <3>1. PICK ends, breaks, skips : ends = VgStackEnds /\ breaks = {"start"} /\ skips = FALSE
        OBVIOUS
      <3>2. Leads(n + 1, "write", ends, breaks, skips) /\ Leads(n + 1, "read", ends, breaks, skips)
        BY <2>4, <3>1 DEF VgLeads
      <3> QED
        BY <1>1, <3>2, LeadsOne
    <2> QED
      BY <1>4, <2>1, <2>2, <2>3, <2>4
  <1>10. TwoAt(n + 1, vs2, fs)
    <2> SUFFICES ASSUME NEW i \in VgLed(n + 1, "write"), NEW j \in Again(i, (n + 1) + 1)
                 PROVE  \/ BeginsIn(fs, i)
                        \/ vs2 # <<>> /\ \A e \in j .. n + 1 : ~Blank(e)
      BY DEF TwoAt
    <2>1. (n + 1) + 1 = n + 2 /\ i \in 1 .. n + 1
      BY <1>1, VgLedNext
    <2>2. CASE i \in 1 .. n /\ j \in Again(i, n + 1)
      <3>1. i \in VgLed(n, "write")
        BY <1>1, <1>4, <2>2
      <3>2. \A e \in j .. n + 1 : e = n + 1 \/ e \in j .. n
        BY <1>1, <2>2 DEF Again
      <3>3. BeginsIn(fs, i) \/ (vs # <<>> /\ \A e \in j .. n : ~Blank(e))
        BY <2>2, <3>1 DEF VgPairAt, TwoAt
      <3> QED
        BY <1>1, <3>2, <3>3
    <2>3. CASE /\ j = n + 1 /\ i \in 1 .. n /\ raw[j].kind = "frame" /\ raw[j].fn = "app"
               /\ Opens(n, "write", FALSE)
               /\ \E d \in i .. n : Blank(d)
      <3>1. i \in VgLed(n, "write")
        BY <1>1, <1>4, <2>3
      <3>2. BeginsIn(fs, i) \/ (ws = <<raw[i].site>> /\ pend)
        BY <2>3, <3>1 DEF VgPairAt, WritesAt
      <3>3. \A e \in j .. n + 1 : e = n + 1
        BY <1>1, <2>3
      <3> QED
        BY <1>1, <1>3, <2>3, <3>2, <3>3
    <2> QED
      BY <1>1, <2>1, <2>2, <2>3, AgainNext
  <1>11. VgEndsAt(n + 1, fs)
    BY <1>1, <1>5 DEF VgPairAt, VgEndsAt
  <1> QED
    BY <1>7, <1>8, <1>9, <1>10, <1>11 DEF VgPairAt

\* What a line break does to the lists, pendingWriteFlag and the race files.
BreakOf(ws, rs, vs, pend, fs, ws2, rs2, pend2, fs2) ==
    /\ \A f \in ToSet(fs) : f \in ToSet(fs2)
    /\ rs # <<>> /\ ws = <<>> => rs2 = rs
    /\ \A x, y : ws = <<x>> /\ rs = <<y>> => <<x, y>> \in ToSet(fs2)
    /\ \/ /\ ws = <<>> \/ (rs = <<>> /\ vs = <<>>)
          /\ ws2 = ws
          /\ pend \/ ws # <<>> => pend2
       \/ \A x : ws = <<x>> => \E f \in ToSet(fs2) : f[1] = x

\* A line break: what is in the list of writes gets a race file if there is
\* another access to it, and waits otherwise.
LEMMA VgBlankPairs ==
    ASSUME NEW n, VgAtLine(n), NEW ws, NEW rs, NEW vs, NEW pend, NEW fs,
           VgPairAt(n, ws, rs, vs, pend, fs),
           raw[n + 1].kind = "blank",
           ws # <<>> => VgSeen(n, "write"),
           NEW ws2, NEW rs2, NEW vs2, NEW pend2, NEW fs2,
           BreakOf(ws, rs, vs, pend, fs, ws2, rs2, pend2, fs2)
    PROVE  VgPairAt(n + 1, ws2, rs2, vs2, pend2, fs2)
  <1>0. /\ \A f \in ToSet(fs) : f \in ToSet(fs2)
        /\ rs # <<>> /\ ws = <<>> => rs2 = rs
        /\ \A x, y : ws = <<x>> /\ rs = <<y>> => <<x, y>> \in ToSet(fs2)
        /\ \/ /\ ws = <<>> \/ (rs = <<>> /\ vs = <<>>)
              /\ ws2 = ws
              /\ pend \/ ws # <<>> => pend2
           \/ \A x : ws = <<x>> => \E f \in ToSet(fs2) : f[1] = x
    BY DEF BreakOf
  <1>1. raw[n + 1].kind # "start" /\ raw[n + 1].kind # "frame" /\ n \in Nat
    BY DEF VgAtLine
  <1>2. \A k : \A i \in VgLed(n + 1, k) : i \in VgLed(n, k) /\ i \in 1 .. n
    BY <1>1, VgLedNext, VgLedLines
  <1>3. \A e \in 1 .. n + 1 : e = n + 1 \/ e \in 1 .. n
    BY <1>1
  <1>4. /\ \A i : BeginsIn(fs, i) => BeginsIn(fs2, i)
        /\ \A i, j : PairOf(i, j) \in ToSet(fs) => PairOf(i, j) \in ToSet(fs2)
    BY <1>0 DEF BeginsIn
  <1>5. \A x : <<x>> # <<>>
    OBVIOUS
  <1>6. ReadsAt(n + 1, rs2)
    BY <1>0, <1>1, <1>2, <1>5, VgSeenNext DEF VgPairAt, ReadsAt
  <1>7. WritesAt(n + 1, ws2, pend2, fs2)
    <2> SUFFICES ASSUME NEW i \in VgLed(n, "write")
                 PROVE  BeginsIn(fs2, i) \/ (ws2 = <<raw[i].site>> /\ pend2)
      BY <1>2 DEF WritesAt
    <2>1. BeginsIn(fs, i) \/ ws = <<raw[i].site>>
      BY DEF VgPairAt, WritesAt
    <2> QED
      BY <1>0, <1>4, <1>5, <2>1 DEF BeginsIn
  <1>8. \A i \in VgLed(n, "write"), j \in VgLed(n, "read") :
           BeginsIn(fs2, i) /\ (j < i => PairOf(i, j) \in ToSet(fs2))
    <2> SUFFICES ASSUME NEW i \in VgLed(n, "write"), NEW j \in VgLed(n, "read"),
                        ws = <<raw[i].site>>, rs = <<raw[j].site>>
                 PROVE  BeginsIn(fs2, i) /\ PairOf(i, j) \in ToSet(fs2)
      BY <1>4 DEF VgPairAt, BothAt
    <2>1. PairOf(i, j) \in ToSet(fs2) /\ PairOf(i, j)[1] = raw[i].site
      BY <1>0, <1>5 DEF PairOf
    <2> QED
      BY <2>1 DEF BeginsIn
  <1>9. \A i \in VgLed(n, "write") : Again(i, n + 1) # {} => BeginsIn(fs2, i)
    <2> SUFFICES ASSUME NEW i \in VgLed(n, "write"), ~BeginsIn(fs2, i), NEW j \in Again(i, n + 1)
                 PROVE  FALSE
      OBVIOUS
    <2>1. ws = <<raw[i].site>> /\ vs # <<>>
      BY <1>4 DEF VgPairAt, WritesAt, TwoAt
    <2> QED
      BY <1>0, <1>5, <2>1 DEF BeginsIn
  <1>10. BothAt(n + 1, ws2, rs2, fs2)
    BY <1>2, <1>8 DEF BothAt
  <1>11. TwoAt(n + 1, vs2, fs2)
    <2> SUFFICES ASSUME NEW i \in VgLed(n + 1, "write"), NEW j \in Again(i, (n + 1) + 1)
                 PROVE  BeginsIn(fs2, i)
      BY DEF TwoAt
    <2>1. (n + 1) + 1 = n + 2 /\ i \in VgLed(n, "write") /\ i \in 1 .. n + 1
      BY <1>1, <1>2
    <2>2. j \in Again(i, n + 1)
      BY <1>1, <2>1, AgainNext
    <2> QED
      BY <1>9, <2>1, <2>2
  <1>12. VgEndsAt(n + 1, fs2)
    <2>1. \A k : VgEndedAt(n + 1, k) \subseteq VgLed(n, k)
      BY EndedLeads DEF VgAtLine, VgEndedAt, VgLed
    <2>2. KeptAt(n + 1, fs2)
      BY <1>8, <1>9, <2>1 DEF KeptAt
    <2>3. \A e \in 1 .. n : Blank(e) => KeptAt(e, fs2)
      BY <1>0, KeptGrows DEF VgPairAt, VgEndsAt
    <2> QED
      BY <1>3, <2>2, <2>3 DEF VgEndsAt
  <1> QED
    BY <1>6, <1>7, <1>10, <1>11, <1>12 DEF VgPairAt

\* A block start: the block has no access yet.
LEMMA VgStartPairs ==
    ASSUME NEW n, VgAtLine(n), NEW ws, NEW rs, NEW vs, NEW pend, NEW fs,
           VgPairAt(n, ws, rs, vs, pend, fs), raw[n + 1].kind = "start", NEW ws2, NEW rs2
    PROVE  VgPairAt(n + 1, ws2, rs2, vs, pend, fs)
  <1>1. ~Blank(n + 1) /\ n \in Nat
    BY DEF VgAtLine, Blank
  <1>2. \A k : \A i \in VgLed(n + 1, k) : FALSE
    BY VgLedNext
  <1>3. \A e \in 1 .. n + 1 : e = n + 1 \/ e \in 1 .. n
    BY <1>1
  <1> QED
    BY <1>1, <1>2, <1>3 DEF VgPairAt, ReadsAt, WritesAt, BothAt, TwoAt, VgEndsAt

\* What does not depend on the lists is the same as long as the report is.
LEMMA VgSame ==
    ASSUME raw' = raw
    PROVE  /\ \A n, k : Opens(n, k, FALSE)' <=> Opens(n, k, FALSE)
           /\ \A i, k : VgLeads(i, k)' <=> VgLeads(i, k)
           /\ \A i, k : InStack(i, k, VgStackEnds)' <=> InStack(i, k, VgStackEnds)
           /\ \A i, j : SameBlock(i, j, {"start"})' <=> SameBlock(i, j, {"start"})
           /\ \A e : Blank(e)' <=> Blank(e)
           /\ \A i, e : Again(i, e)' = Again(i, e)
           /\ \A e, k : VgEnded(k, e)' = VgEndedAt(e, k)
           /\ \A e, k : VgEnded(k, e) = VgEndedAt(e, k)
  <1>1. PICK ends, breaks, skips : ends = VgStackEnds /\ breaks = {"start"} /\ skips = FALSE
    OBVIOUS
  <1>2. ends = VgStackEnds'
    BY <1>1 DEF VgStackEnds
  <1>3. \A n, k : Opens(n, k, FALSE)' <=> Opens(n, k, FALSE)
    BY <1>1, SameLeads
  <1>4. \A i, k : VgLeads(i, k)' <=> VgLeads(i, k)
    BY <1>1, <1>2, SameLeads DEF VgLeads
  <1>5. \A i, k : InStack(i, k, VgStackEnds)' <=> InStack(i, k, VgStackEnds)
    BY <1>1, <1>2, SameReport
  <1>6. \A i, j : SameBlock(i, j, {"start"})' <=> SameBlock(i, j, {"start"})
    BY SameReport
  <1>7. \A e : Blank(e)' <=> Blank(e)
    BY DEF Blank
  <1>8. \A i, e : Again(i, e)' = Again(i, e)
    BY <1>3, <1>7 DEF Again
  <1>9. \A e, k : VgEnded(k, e)' = VgEnded(k, e)
    BY <1>4, <1>6 DEF VgEnded
  <1>10. \A e, k : VgEnded(k, e) = VgEndedAt(e, k)
    BY DEF VgEnded, VgEndedAt, EndedAt, VgLeads
  <1>11. \A e, k : VgEnded(k, e)' = VgEndedAt(e, k)
    BY <1>9, <1>10
  <1> QED
    BY <1>3, <1>4, <1>5, <1>6, <1>7, <1>8, <1>10, <1>11

\* RaceKept of the race files of this state and of the next one.
LEMMA RaceKeptAt == \A e : RaceKept(e) <=> KeptAt(e, files)
  BY Zenon DEF RaceKept, KeptAt, VgEnded, VgEndedAt, EndedAt, VgLeads, Begins, BeginsIn, Written, PairOf

LEMMA RaceKeptNext ==
    ASSUME raw' = raw, NEW fs, fs = files'
    PROVE  \A e : RaceKept(e)' <=> KeptAt(e, fs)
  <1>1. \A i : Begins(i)' <=> BeginsIn(fs, i)
    BY DEF Begins, BeginsIn
  <1>2. \A i, j : Written(i, j)' <=> PairOf(i, j) \in ToSet(fs)
    BY DEF Written, PairOf
  <1> QED
    BY <1>1, <1>2, VgSame DEF RaceKept, KeptAt

\* VgPairAt is VgPairInv of this state and of the next one.
LEMMA VgPairInvAt ==
    VgPairInv <=>
      /\ Opens(fp, "read", FALSE) => flagReadStart /\ flagBlockStart
      /\ Opens(fp, "write", FALSE) => flagWriteStart /\ flagBlockStart
      /\ VgPairAt(fp, writeResultList, readResultList, writeResultList2, pendingWriteFlag, files)
  <1>1. \A k : {i \in 1 .. fp : raw[i].kind = "frame" /\ Current(i, {"start"}) /\ VgLeads(i, k)}
               = VgLed(fp, k)
    BY DEF Current, VgLeads, VgLed, LeadsAt, UpTo
  <1>2. \A k : (\E i \in 1 .. fp : InStack(i, k, VgStackEnds) /\ Current(i, {"start"})) <=> VgSeen(fp, k)
    BY DEF Current, VgSeen, SeenAt, UpTo
  <1>3. /\ \A i : Begins(i) <=> BeginsIn(files, i)
        /\ \A i, j : Written(i, j) <=> PairOf(i, j) \in ToSet(files)
    BY DEF Begins, BeginsIn, Written, PairOf
  <1> QED
    BY <1>1, <1>2, <1>3, RaceKeptAt
       DEF VgPairInv, VgPairAt, ReadsAt, WritesAt, BothAt, TwoAt, VgEndsAt

LEMMA VgPairInvNext ==
    ASSUME raw' = raw, NEW n, n = fp',
           Opens(n, "read", FALSE) => flagReadStart' /\ flagBlockStart',
           Opens(n, "write", FALSE) => flagWriteStart' /\ flagBlockStart',
           VgPairAt(n, writeResultList', readResultList', writeResultList2', pendingWriteFlag', files')
    PROVE  VgPairInv'
  <1>1. PICK ws, rs, vs, pend, fs :
           /\ ws = writeResultList' /\ rs = readResultList' /\ vs = writeResultList2'
           /\ pend = pendingWriteFlag' /\ fs = files'
    OBVIOUS
  <1>2. \A i, breaks : Current(i, breaks)' <=> UpTo(n, i, breaks)
    BY DEF Current, UpTo
  <1>3. \A k : {i \in 1 .. n : raw[i].kind = "frame" /\ Current(i, {"start"})' /\ VgLeads(i, k)'}
               = VgLed(n, k)
    BY <1>2, VgSame DEF VgLed, LeadsAt, VgLeads
  <1>4. \A k : (\E i \in 1 .. n : InStack(i, k, VgStackEnds)' /\ Current(i, {"start"})') <=> VgSeen(n, k)
    BY <1>2, VgSame DEF VgSeen, SeenAt
  <1>5. /\ \A i : Begins(i)' <=> BeginsIn(fs, i)
        /\ \A i, j : Written(i, j)' <=> PairOf(i, j) \in ToSet(fs)
        /\ \A e : RaceKept(e)' <=> KeptAt(e, fs)
    BY <1>1, RaceKeptNext DEF Begins, BeginsIn, Written, PairOf
  <1>6. /\ ReadsAt(n, rs) /\ WritesAt(n, ws, pend, fs) /\ BothAt(n, ws, rs, fs)
        /\ TwoAt(n, vs, fs) /\ VgEndsAt(n, fs)
    BY <1>1 DEF VgPairAt
  <1>7. \A j \in VgLed(n, "read") : rs = <<raw[j].site>> \/ VgSeen(n, "write")
    BY <1>6 DEF ReadsAt
  <1>8. \A i \in VgLed(n, "write") :
           /\ Begins(i)' \/ ws = <<raw[i].site>>
           /\ (\E d \in i .. n : Blank(d)') => Begins(i)' \/ pend
    BY <1>5, <1>6, VgSame DEF WritesAt
  <1>9. \A i \in VgLed(n, "write"), j \in VgLed(n, "read") :
           \/ Begins(i)' /\ (j < i => Written(i, j)')
           \/ /\ ws = <<raw[i].site>> /\ rs = <<raw[j].site>>
              /\ \A e \in 1 .. n : i < e /\ j < e => ~Blank(e)'
    BY <1>5, <1>6, VgSame DEF BothAt
  <1>10. \A i \in VgLed(n, "write") : \A j \in Again(i, n + 1)' :
           \/ Begins(i)'
           \/ vs # <<>> /\ \A e \in j .. n : ~Blank(e)'
    BY <1>5, <1>6, VgSame DEF TwoAt
  <1>11. \A e \in 1 .. n : Blank(e)' => RaceKept(e)'
    BY <1>5, <1>6, VgSame DEF VgEndsAt
  <1>12. /\ Opens(n, "read", FALSE)' => flagReadStart' /\ flagBlockStart'
         /\ Opens(n, "write", FALSE)' => flagWriteStart' /\ flagBlockStart'
    BY VgSame
  <1> QED
    BY <1>1, <1>3, <1>4, <1>7, <1>8, <1>9, <1>10, <1>11, <1>12 DEF VgPairInv

\* What is in the lists was read in the current block.
LEMMA VgListsSeen ==
    ASSUME VgTypeOK, VgScanInv, mode = "valgrind", pc = "scan"
    PROVE  /\ writeResultList # <<>> => VgSeen(fp, "write")
           /\ readResultList # <<>> => VgSeen(fp, "read")
  <1>1. /\ readResultList \in Seq(Site) /\ writeResultList \in Seq(Site)
        /\ Len(readResultList) <= 1 /\ Len(writeResultList) <= 1
    BY DEF VgTypeOK, VgModes
  <1>2. /\ \A x \in ToSet(readResultList) : Taken(x, "read", VgStackEnds, {"start"})
        /\ \A x \in ToSet(writeResultList) : Taken(x, "write", VgStackEnds, {"start"})
    BY DEF VgScanInv
  <1>3. ASSUME writeResultList # <<>>
        PROVE  VgSeen(fp, "write")
    <2>1. PICK x \in Site : writeResultList = <<x>>
      BY <1>1, <1>3, ShortLists
    <2>2. Taken(x, "write", VgStackEnds, {"start"})
      BY <1>2, <2>1, ShortLists
    <2> QED
      BY <2>2, TakenSeen DEF VgSeen
  <1>4. ASSUME readResultList # <<>>
        PROVE  VgSeen(fp, "read")
    <2>1. PICK x \in Site : readResultList = <<x>>
      BY <1>1, <1>4, ShortLists
    <2>2. Taken(x, "read", VgStackEnds, {"start"})
      BY <1>2, <2>1, ShortLists
    <2> QED
      BY <2>2, TakenSeen DEF VgSeen
  <1> QED
    BY <1>3, <1>4

\* The file that is written at a line break.
LEMMA VgFlushes ==
    ASSUME VgTypeOK, mode = "valgrind", WriteAndRead \/ WriteAndWrite \/ NoRaceYet
    PROVE  BreakOf(writeResultList, readResultList, writeResultList2, pendingWriteFlag, files,
                   writeResultList', readResultList', pendingWriteFlag', files')
  <1>1. /\ readResultList \in Seq(Site) /\ Len(readResultList) <= 1
        /\ writeResultList \in Seq(Site) /\ Len(writeResultList) <= 1
        /\ writeResultList2 \in Seq(Site) /\ Len(writeResultList2) <= 1
        /\ files \in Seq(Seq(Site))
    BY DEF VgTypeOK, VgModes
  <1>2. ASSUME NEW w \in Site, NEW r \in Site, files' = Append(files, <<w, r>>)
        PROVE  ToSet(files') = ToSet(files) \cup {<<w, r>>}
    <2>1. <<w, r>> \in Seq(Site)
      OBVIOUS
    <2>2. PICK g \in Seq(Site) : g = <<w, r>>
      BY <2>1
    <2>3. files' = Append(files, g)
      BY <1>2, <2>2
    <2>4. ToSet(files') = ToSet(files) \cup {g}
      BY <1>1, <2>3, AppendToSet
    <2> QED
      BY <2>2, <2>4
  <1>3. CASE WriteAndRead
    <2>1. PICK w \in Site : writeResultList = <<w>>
      BY <1>1, <1>3, ShortLists DEF WriteAndRead
    <2>2. PICK r \in Site : readResultList = <<r>>
      BY <1>1, <1>3, ShortLists DEF WriteAndRead
    <2>3. files' = Append(files, <<w, r>>)
      BY <1>3, <2>1, <2>2, ShortLists DEF WriteAndRead, WriteRace
    <2>4. ToSet(files') = ToSet(files) \cup {<<w, r>>}
      BY <1>2, <2>3
    <2>5. (\A x : writeResultList = <<x>> => x = w) /\ (\A y : readResultList = <<y>> => y = r)
      BY <2>1, <2>2
    <2>6. <<w, r>>[1] = w
      OBVIOUS
    <2>7. \A x : writeResultList = <<x>> => \E f \in ToSet(files') : f[1] = x
      BY <2>4, <2>5, <2>6
    <2>8. writeResultList # <<>>
      BY <1>3 DEF WriteAndRead
    <2> QED
      BY <2>4, <2>5, <2>7, <2>8 DEF BreakOf
  <1>4. CASE WriteAndWrite
    <2>1. PICK w \in Site : writeResultList = <<w>>
      BY <1>1, <1>4, ShortLists DEF WriteAndWrite
    <2>2. PICK r \in Site : writeResultList2 = <<r>>
      BY <1>1, <1>4, ShortLists DEF WriteAndWrite
    <2>3. files' = Append(files, <<w, r>>)
      BY <1>4, <2>1, <2>2, ShortLists DEF WriteAndWrite
    <2>4. ToSet(files') = ToSet(files) \cup {<<w, r>>}
      BY <1>2, <2>3
    <2>5. \A x : writeResultList = <<x>> => x = w
      BY <2>1
    <2>6. <<w, r>>[1] = w
      OBVIOUS
    <2>7. \A x : writeResultList = <<x>> => \E f \in ToSet(files') : f[1] = x
      BY <2>4, <2>5, <2>6
    <2>8. readResultList = <<>>
      BY <1>4 DEF WriteAndWrite
    <2> QED
      BY <2>4, <2>7, <2>8 DEF BreakOf
  <1>5. CASE NoRaceYet
    <2>1. /\ writeResultList = <<>> \/ (readResultList = <<>> /\ writeResultList2 = <<>>)
          /\ writeResultList' = writeResultList /\ readResultList' = readResultList /\ files' = files
      BY <1>5 DEF NoRaceYet, lists
    <2>2. pendingWriteFlag \/ writeResultList # <<>> => pendingWriteFlag'
      BY <1>5, Zenon DEF NoRaceYet
    <2>3. ~(\E x, y : writeResultList = <<x>> /\ readResultList = <<y>>)
      <3>1. \A x : <<x>> # <<>>
        OBVIOUS
      <3> QED
        BY <2>1, <3>1
    <2> QED
      BY <2>1, <2>2, <2>3 DEF BreakOf
  <1> QED
    BY <1>3, <1>4, <1>5

\* A line is read: flags and lists are what VgPairInv says.
LEMMA VgPairStep ==
    ASSUME VgTypeOK, VgScanInv, mode = "valgrind", pc = "scan", VgPairInv,
           VgBlockStart \/ VgReadStart \/ VgWriteStart \/ VgReadEnd \/ VgCallStackLine
           \/ VgLineBreak \/ VgOtherLine
    PROVE  VgPairInv'
  <1>0. VgLoop
    BY DEF VgLoop, VgModes
  <1>1. PICK kk \in {"start", "read", "write", "address", "frame", "blank", "other"} : Reads(kk)
    BY DEF VgBlockStart, VgReadStart, VgWriteStart, VgReadEnd, VgCallStackLine, VgLineBreak, VgOtherLine
  <1>2. /\ fp + 1 \in 1 .. Len(raw) /\ raw[fp + 1].kind = kk /\ fp \in Nat /\ fp' = fp + 1
        /\ raw' = raw /\ Position(VgKinds)
    BY <1>0, <1>1, VgPosition, ReadsLine
  <1>3. PICK n \in Nat : n = fp
    BY <1>2
  <1>4. VgAtLine(n)
    BY <1>2, <1>3 DEF VgAtLine, Position
  <1>5. /\ Opens(n, "read", FALSE) => flagReadStart /\ flagBlockStart
        /\ Opens(n, "write", FALSE) => flagWriteStart /\ flagBlockStart
        /\ VgPairAt(n, writeResultList, readResultList, writeResultList2, pendingWriteFlag, files)
    BY <1>3, VgPairInvAt
  <1>6. /\ writeResultList # <<>> => VgSeen(n, "write")
        /\ readResultList # <<>> => VgSeen(n, "read")
    BY <1>3, VgListsSeen
  <1>7. PICK m : m = n + 1 /\ m = fp'
    BY <1>2, <1>3
  <1>8. kk = raw[n + 1].kind
    BY <1>2, <1>3
  <1>9. \A k : Opens(m, k, FALSE) => kk = k
    <2>1. PICK skips : skips = FALSE
      OBVIOUS
    <2>2. \A k : Opens(n + 1, k, skips) => kk = k \/ skips
      BY <1>8, OpensNext
    <2> QED
      BY <1>7, <2>1, <2>2
  <1>10. CASE VgReadStart \/ VgWriteStart \/ VgReadEnd \/ VgOtherLine
    <2>1. /\ kk \in {"read", "write", "address", "other"}
          /\ UNCHANGED <<lists, files, vgVars>>
          /\ kk = "read" => flagReadStart' /\ flagBlockStart'
          /\ kk = "write" => flagWriteStart' /\ flagBlockStart'
      BY <1>1, <1>10 DEF VgReadStart, VgWriteStart, VgReadEnd, VgOtherLine, Reads
    <2>2. VgPairAt(m, writeResultList, readResultList, writeResultList2, pendingWriteFlag, files)
      BY <1>4, <1>5, <1>7, <1>8, <2>1, VgQuietPairs
    <2>3. VgPairAt(m, writeResultList', readResultList', writeResultList2', pendingWriteFlag', files')
      BY <2>1, <2>2 DEF lists, vgVars
    <2> QED
      BY <1>2, <1>7, <1>9, <2>1, <2>3, VgPairInvNext
  <1>11. CASE VgCallStackLine
    <2>1. Reads("frame") /\ files' = files /\ pendingWriteFlag' = pendingWriteFlag
      BY <1>11 DEF VgCallStackLine
    <2>2. kk = "frame"
      BY <1>1, <2>1 DEF Reads
    <2>3. PICK l : l = raw[fp + 1]
      OBVIOUS
    <2>4. /\ readResultList # <<>> => readResultList' = readResultList
          /\ writeResultList # <<>> => writeResultList' = writeResultList
          /\ readResultList = <<>> /\ flagReadStart /\ flagBlockStart /\ l.fn # "icp"
             => readResultList' = <<l.site>>
          /\ writeResultList = <<>> /\ flagWriteStart /\ flagBlockStart /\ l.fn # "icp"
             => writeResultList' = <<l.site>>
          /\ writeResultList2 # <<>> => writeResultList2' # <<>>
          /\ /\ flagWriteStart /\ flagBlockStart /\ l.fn # "icp"
             /\ writeResultList # <<>> /\ pendingWriteFlag
             => writeResultList2' # <<>>
      BY <1>11, <2>3 DEF VgCallStackLine
    <2>5. \A k : VgLeads(n + 1, k) => l.fn # "icp" /\ Opens(n, k, FALSE)
      <3>1. (n + 1) - 1 = n /\ raw[n + 1].fn = l.fn
        BY <1>3, <2>3
      <3> QED
        BY <3>1 DEF VgLeads, Leads
    <2>6. raw[n + 1].site = l.site /\ raw[n + 1].fn = l.fn
      BY <1>3, <2>3
    <2>a. /\ writeResultList = <<>> /\ VgLeads(n + 1, "write") => writeResultList' = <<raw[n + 1].site>>
          /\ readResultList = <<>> /\ VgLeads(n + 1, "read") => readResultList' = <<raw[n + 1].site>>
          /\ /\ raw[n + 1].fn = "app" /\ Opens(n, "write", FALSE)
             /\ writeResultList # <<>> /\ pendingWriteFlag
             => writeResultList2' # <<>>
      BY <1>5, <2>4, <2>5, <2>6
    <2>7. VgPairAt(n + 1, writeResultList', readResultList', writeResultList2', pendingWriteFlag, files)
      <3>1. raw[n + 1].kind = "frame"
        BY <1>8, <2>2
      <3>2. /\ readResultList # <<>> => readResultList' = readResultList
            /\ writeResultList # <<>> => writeResultList' = writeResultList
            /\ writeResultList2 # <<>> => writeResultList2' # <<>>
        BY <2>4
      <3>3. VgPairAt(n, writeResultList, readResultList, writeResultList2, pendingWriteFlag, files)
        BY <1>5
      <3> QED
        BY <1>4, <1>6, <2>a, <3>1, <3>2, <3>3, VgFramePairs, ZenonT(60)
    <2>8. VgPairAt(m, writeResultList', readResultList', writeResultList2', pendingWriteFlag', files')
      BY <1>7, <2>1, <2>7
    <2> QED
      BY <1>2, <1>7, <1>9, <2>2, <2>8, VgPairInvNext
  <1>12. CASE VgLineBreak
    <2>1. Reads("blank") /\ (WriteAndRead \/ WriteAndWrite \/ NoRaceYet)
      BY <1>12 DEF VgLineBreak
    <2>2. kk = "blank"
      BY <1>1, <2>1 DEF Reads
    <2>a. BreakOf(writeResultList, readResultList, writeResultList2, pendingWriteFlag, files,
                  writeResultList', readResultList', pendingWriteFlag', files')
      BY <2>1, VgFlushes
    <2>3. VgPairAt(n + 1, writeResultList', readResultList', writeResultList2', pendingWriteFlag', files')
      <3>1. raw[n + 1].kind = "blank"
        BY <1>8, <2>2
      <3>3. VgPairAt(n, writeResultList, readResultList, writeResultList2, pendingWriteFlag, files)
        BY <1>5
      <3> QED
        BY <1>4, <1>6, <2>a, <3>1, <3>3, VgBlankPairs, ZenonT(60)
    <2> QED
      BY <1>2, <1>7, <1>9, <2>2, <2>3, VgPairInvNext
  <1>13. CASE VgBlockStart
    <2>1. kk = "start" /\ UNCHANGED <<files, vgVars>>
      BY <1>1, <1>13 DEF VgBlockStart, Reads
    <2>2. VgPairAt(m, writeResultList', readResultList', writeResultList2, pendingWriteFlag, files)
      BY <1>4, <1>5, <1>7, <1>8, <2>1, VgStartPairs
    <2>3. VgPairAt(m, writeResultList', readResultList', writeResultList2', pendingWriteFlag', files')
      BY <2>1, <2>2 DEF vgVars
    <2> QED
      BY <1>2, <1>7, <1>9, <2>1, <2>3, VgPairInvNext
  <1> QED
    BY <1>10, <1>11, <1>12, <1>13

\* At the end every line above the last line break has been read.
LEMMA VgEndMisses ==
    ASSUME VgTypeOK, VgMissInv, mode = "valgrind", VgEndOfScan
    PROVE  VgMissInv' /\ VgMissesNone'
  <1>1. VgLoop
    BY DEF VgLoop, VgModes
  <1>2. /\ pc = "scan" /\ pc' = "done" /\ mode' = mode /\ raw' = raw /\ files' = files
        /\ fp = Len(raw) \/ boundaryIndex <= fp + 1
    BY DEF VgEndOfScan, AtBoundary
  <1>3. /\ fp \in 0 .. Len(raw) /\ Len(raw) \in Nat /\ boundaryIndex \in 0 .. Len(raw)
        /\ DOMAIN raw = 1 .. Len(raw)
    BY <1>1, VgPosition DEF Position
  <1>4. VgPairInv /\ \A t \in DOMAIN raw : Blank(t) => t <= boundaryIndex
    BY <1>2 DEF VgMissInv
  <1>5. \A e \in DOMAIN raw : (\E t \in e + 1 .. Len(raw) : Blank(t)) => e \in 1 .. fp
    <2> SUFFICES ASSUME NEW e \in DOMAIN raw, NEW t \in e + 1 .. Len(raw), Blank(t)
                 PROVE  e \in 1 .. fp
      OBVIOUS
    <2> PICK len \in Nat : len = Len(raw)
      BY <1>3
    <2>2. e \in 1 .. len /\ t \in e + 1 .. len /\ t \in DOMAIN raw
      BY <1>3
    <2>3. t <= boundaryIndex
      BY <1>4, <2>2
    <2> QED
      BY <1>2, <1>3, <2>2, <2>3
  <1>6. \A e \in 1 .. fp : Blank(e) => KeptAt(e, files)
    <2>1. VgEndsAt(fp, files)
      BY <1>4, VgPairInvAt DEF VgPairAt
    <2> QED
      BY <2>1 DEF VgEndsAt
  <1>7. PICK fs : fs = files
    OBVIOUS
  <1>8. \A e : RaceKept(e)' <=> KeptAt(e, fs)
    BY <1>2, <1>7, RaceKeptNext
  <1>9. \A e \in DOMAIN raw : Blank(e)' /\ (\E t \in e + 1 .. Len(raw) : Blank(t)') => RaceKept(e)'
    BY <1>2, <1>5, <1>6, <1>7, <1>8, VgSame
  <1> QED
    BY <1>2, <1>9 DEF VgMissInv, VgMissesNone

\* Every step keeps that no race is missed.
LEMMA VgMissStep ==
    VgInv /\ mode = "valgrind" /\ [VgNext]_vgAll => VgMissInv' /\ VgMissesNone'
  <1> SUFFICES ASSUME VgTypeOK, VgScanInv, VgMissInv, VgMissesNone, mode = "valgrind", [VgNext]_vgAll
               PROVE  VgMissInv' /\ VgMissesNone'
    BY DEF VgInv
  <1>0. VgLoop /\ Position(VgKinds) /\ baseIndex = 0
    BY VgPosition DEF VgLoop, VgModes
  <1>1. CASE VgMainFails
    BY <1>1 DEF VgMainFails
  <1>2. CASE checkBlockIntegrity("blank") /\ UNCHANGED vgVars
    <2>1. pc = "check" /\ pc' = "scan" /\ fp' = 0 /\ mode' = mode /\ raw' = raw
      BY <1>2 DEF checkBlockIntegrity
    <2>2. fp = 0
      BY <2>1 DEF VgMissInv
    <2>3. \A t \in DOMAIN raw : raw[t].kind = "blank" => t <= boundaryIndex'
      BY <1>0, <1>2, <2>2, AllBefore
    <2>4. 1 .. 0 = {}
      OBVIOUS
    <2>5. \A k, skips : ~Opens(0, k, skips)
      BY <2>4 DEF Opens
    <2>6. \A ws, rs, vs, pend, fs : VgPairAt(0, ws, rs, vs, pend, fs)
      BY <2>4 DEF VgPairAt, ReadsAt, WritesAt, BothAt, TwoAt, VgEndsAt, VgLed, LeadsAt
    <2>7. VgPairInv'
      BY <2>1, <2>5, <2>6, VgPairInvNext
    <2> QED
      BY <2>1, <2>3, <2>7 DEF VgMissInv, VgMissesNone, Blank
  <1>3. CASE \/ VgBlockStart \/ VgReadStart \/ VgWriteStart \/ VgReadEnd
             \/ VgCallStackLine \/ VgLineBreak \/ VgOtherLine
    <2>1. PICK kk : Reads(kk)
      BY <1>3 DEF VgBlockStart, VgReadStart, VgWriteStart, VgReadEnd, VgCallStackLine, VgLineBreak,
                  VgOtherLine
    <2>2. pc = "scan" /\ pc' = pc /\ raw' = raw /\ boundaryIndex' = boundaryIndex
      BY <1>0, <2>1, VgReads
    <2>3. VgPairInv /\ \A t \in DOMAIN raw : Blank(t) => t <= boundaryIndex
      BY <2>2 DEF VgMissInv
    <2>4. VgPairInv'
      BY <1>3, <2>2, <2>3, VgPairStep
    <2> QED
      BY <2>2, <2>3, <2>4, VgSame DEF VgMissInv, VgMissesNone
  <1>4. CASE VgEndOfScan
    BY <1>4, VgEndMisses
  <1>5. CASE UNCHANGED vgAll
    <2>1. UNCHANGED <<mode, raw, fp, pc, boundaryIndex, flags, lists, files, vgVars>>
      BY <1>5 DEF vgAll, rfVars, scanning
    <2>2. ASSUME VgPairInv PROVE VgPairInv'
      BY <2>1, <2>2, VgPairInvAt, VgPairInvNext DEF flags, lists, vgVars
    <2>3. VgMissInv'
      BY <2>1, <2>2, VgSame DEF VgMissInv
    <2>4. PICK fs : fs = files
      OBVIOUS
    <2>5. \A e : RaceKept(e)' <=> RaceKept(e)
      BY <2>1, <2>4, RaceKeptAt, RaceKeptNext
    <2>6. VgMissesNone'
      BY <2>1, <2>5, VgSame DEF VgMissesNone
    <2> QED
      BY <2>3, <2>6
  <1> QED
    BY <1>1, <1>2, <1>3, <1>4, <1>5 DEF VgNext, runNormalSyncLoop

----------------------------------------------------------------------------
(* These race files begin in the order of the report.                      *)

\* The write that is kept and the race files, when the first n lines are read.
VgOrderAt(n, ws, fs) ==
    \E c \in 0 .. n :
        /\ \A f \in ToSet(fs) : Within(f[1], "write", VgStackEnds, 0, c)
        /\ \A x \in ToSet(ws) : Within(x, "write", VgStackEnds, c, n)
VgOrdered(fs) ==
    \A n \in DOMAIN fs : \A m \in 1 .. n - 1 :
        \E c \in 0 .. Len(raw) : /\ Within(fs[m][1], "write", VgStackEnds, 0, c)
                               /\ Within(fs[n][1], "write", VgStackEnds, c, Len(raw))

\* A line is read, and its site is taken or not.
LEMMA VgOrderNext ==
    ASSUME NEW n \in Nat, NEW ws, NEW fs, VgOrderAt(n, ws, fs), NEW ws2,
           \A x \in ToSet(ws2) :
               x \in ToSet(ws) \/ (InStack(n + 1, "write", VgStackEnds) /\ x = raw[n + 1].site)
    PROVE  VgOrderAt(n + 1, ws2, fs)
  <1>1. PICK c \in 0 .. n :
           /\ \A f \in ToSet(fs) : Within(f[1], "write", VgStackEnds, 0, c)
           /\ \A x \in ToSet(ws) : Within(x, "write", VgStackEnds, c, n)
    BY DEF VgOrderAt
  <1>2. \A x \in ToSet(ws2) : Within(x, "write", VgStackEnds, c, n + 1)
    BY <1>1, WithinNext
  <1>3. c \in 0 .. n + 1
    OBVIOUS
  <1> QED
    BY <1>1, <1>2, <1>3 DEF VgOrderAt

\* A race file is written, which begins with the write that was kept.
LEMMA VgOrderFile ==
    ASSUME NEW n \in Nat, n <= Len(raw), Len(raw) \in Nat, NEW fs \in Seq(Seq(Site)),
           NEW w, VgOrderAt(n, <<w>>, fs), VgOrdered(fs), NEW g \in Seq(Site), g[1] = w
    PROVE  VgOrderAt(n, <<>>, Append(fs, g)) /\ VgOrdered(Append(fs, g))
  <1>1. PICK c \in 0 .. n :
           /\ \A f \in ToSet(fs) : Within(f[1], "write", VgStackEnds, 0, c)
           /\ \A x \in ToSet(<<w>>) : Within(x, "write", VgStackEnds, c, n)
    BY DEF VgOrderAt
  <1>2. Within(g[1], "write", VgStackEnds, c, n)
    BY <1>1, ShortLists
  <1>3. ToSet(Append(fs, g)) = ToSet(fs) \cup {g}
    BY AppendToSet
  <1>4. VgOrderAt(n, <<>>, Append(fs, g))
    <2>1. ASSUME NEW f \in ToSet(Append(fs, g))
          PROVE  Within(f[1], "write", VgStackEnds, 0, n)
      <3>1. CASE f \in ToSet(fs)
        <4>1. Within(f[1], "write", VgStackEnds, 0, c)
          BY <1>1, <3>1
        <4> QED
          BY <4>1, WithinMore
      <3>2. CASE f = g
        <4>1. Within(f[1], "write", VgStackEnds, c, n)
          BY <1>2, <3>2
        <4> QED
          BY <4>1, WithinMore
      <3> QED
        BY <1>3, <3>1, <3>2
    <2>2. n \in 0 .. n
      OBVIOUS
    <2> QED
      BY <2>1, <2>2, ShortLists DEF VgOrderAt
  <1>5. ASSUME NEW k \in DOMAIN Append(fs, g), NEW m \in 1 .. k - 1
        PROVE  \E b \in 0 .. Len(raw) :
                  /\ Within(Append(fs, g)[m][1], "write", VgStackEnds, 0, b)
                  /\ Within(Append(fs, g)[k][1], "write", VgStackEnds, b, Len(raw))
    <2>1. DOMAIN Append(fs, g) = 1 .. Len(fs) + 1 /\ Len(fs) \in Nat /\ DOMAIN fs = 1 .. Len(fs)
      OBVIOUS
    <2>2. CASE k \in DOMAIN fs
      <3>1. m \in DOMAIN fs /\ Append(fs, g)[m] = fs[m] /\ Append(fs, g)[k] = fs[k]
        BY <2>2
      <3> QED
        BY <2>2, <3>1 DEF VgOrdered
    <2>3. CASE k = Len(fs) + 1
      <3>1. m \in DOMAIN fs /\ Append(fs, g)[m] = fs[m] /\ Append(fs, g)[k] = g
        BY <2>3
      <3>2. Within(fs[m][1], "write", VgStackEnds, 0, c)
        BY <1>1, <3>1 DEF ToSet
      <3>3. Within(g[1], "write", VgStackEnds, c, Len(raw)) /\ c \in 0 .. Len(raw)
        BY <1>2, WithinMore
      <3> QED
        BY <3>1, <3>2, <3>3
    <2>4. k \in DOMAIN fs \/ k = Len(fs) + 1
      BY <2>1
    <2> QED
      BY <2>2, <2>3, <2>4
  <1> QED
    BY <1>4, <1>5 DEF VgOrdered

\* The order of the next state, in the words of this one.
LEMMA VgOrderKeeps ==
    ASSUME raw' = raw, pc' # "check", NEW n, n = fp', VgOrdered(files'),
           VgOrderAt(n, writeResultList', files')
    PROVE  VgInOrder' /\ VgOrderInv'
  <1>1. PICK ws, fs : ws = writeResultList' /\ fs = files'
    OBVIOUS
  <1>2. PICK ends : ends = VgStackEnds
    OBVIOUS
  <1>3. ends = VgStackEnds'
    BY <1>2 DEF VgStackEnds
  <1>4. \A x, k, a, b : Within(x, k, ends, a, b)' <=> Within(x, k, ends, a, b)
    BY SameWithin
  <1>5. \A k \in DOMAIN fs : \A m \in 1 .. k - 1 :
           \E c \in 0 .. Len(raw) : /\ Within(fs[m][1], "write", ends, 0, c)'
                                  /\ Within(fs[k][1], "write", ends, c, Len(raw))'
    BY <1>1, <1>2, <1>4 DEF VgOrdered
  <1>6. PICK c \in 0 .. n :
           /\ \A f \in ToSet(fs) : Within(f[1], "write", ends, 0, c)
           /\ \A x \in ToSet(ws) : Within(x, "write", ends, c, n)
    BY <1>1, <1>2 DEF VgOrderAt
  <1>7. /\ \A f \in ToSet(fs) : Within(f[1], "write", ends, 0, c)'
        /\ \A x \in ToSet(ws) : Within(x, "write", ends, c, n)'
    BY <1>4, <1>6
  <1>8. VgInOrder'
    BY <1>1, <1>3, <1>5 DEF VgInOrder, Within
  <1> QED
    BY <1>1, <1>3, <1>6, <1>7, <1>8 DEF VgOrderInv, Within

\* The first n lines are those that have been read.
LEMMA VgOrderNow ==
    ASSUME VgInOrder, VgOrderInv, mode = "valgrind", pc = "scan", NEW n, n = fp
    PROVE  VgOrderAt(n, writeResultList, files) /\ VgOrdered(files)
  BY DEF VgOrderInv, VgInOrder, VgOrderAt, VgOrdered

\* The list keeps what it has, loses it, or takes the site of the line.
LEMMA VgTakenInOrder ==
    ASSUME VgTypeOK, VgInOrder, VgOrderInv, mode = "valgrind", NEW kk, Reads(kk), files' = files,
           \A x \in ToSet(writeResultList') :
               \/ x \in ToSet(writeResultList)
               \/ InStack(fp + 1, "write", VgStackEnds) /\ x = raw[fp + 1].site
    PROVE  VgInOrder' /\ VgOrderInv'
  <1>1. VgLoop
    BY DEF VgLoop, VgModes
  <1>2. pc = "scan" /\ pc' = "scan" /\ fp \in Nat /\ fp' = fp + 1 /\ raw' = raw
    BY <1>1, VgReads
  <1>3. PICK n \in Nat : n = fp
    BY <1>2
  <1>4. VgOrderAt(n, writeResultList, files) /\ VgOrdered(files)
    BY <1>2, <1>3, VgOrderNow
  <1>5. VgOrderAt(n + 1, writeResultList', files)
    BY <1>3, <1>4, VgOrderNext
  <1>6. PICK m : m = n + 1
    OBVIOUS
  <1> QED
    BY <1>2, <1>3, <1>4, <1>5, <1>6, VgOrderKeeps

\* A race file is written at a line break.
LEMMA VgFlushInOrder ==
    ASSUME VgTypeOK, VgInOrder, VgOrderInv, mode = "valgrind", NEW kk, Reads(kk),
           WriteAndRead \/ WriteAndWrite
    PROVE  VgInOrder' /\ VgOrderInv'
  <1>0. VgLoop
    BY DEF VgLoop, VgModes
  <1>1. pc = "scan" /\ pc' = "scan" /\ fp \in Nat /\ fp' = fp + 1 /\ raw' = raw /\ fp' \in 0 .. Len(raw)
    BY <1>0, VgReads
  <1>2. /\ readResultList \in Seq(Site) /\ Len(readResultList) <= 1
        /\ writeResultList \in Seq(Site) /\ Len(writeResultList) <= 1
        /\ writeResultList2 \in Seq(Site) /\ Len(writeResultList2) <= 1
        /\ files \in Seq(Seq(Site)) /\ raw \in Seq(VgReportLine)
    BY <1>0 DEF VgTypeOK, VgLoop
  <1>3. PICK w \in Site : writeResultList = <<w>>
    BY <1>2, ShortLists DEF WriteAndRead, WriteAndWrite
  <1>4. PICK n \in Nat : n = fp + 1
    BY <1>1
  <1>5. VgOrderAt(n, <<w>>, files) /\ VgOrdered(files)
    <2>1. PICK m \in Nat : m = fp
      BY <1>1
    <2>2. VgOrderAt(m, <<w>>, files) /\ VgOrdered(files)
      BY <1>1, <1>3, <2>1, VgOrderNow
    <2>3. VgOrderAt(m + 1, <<w>>, files)
      BY <2>2, VgOrderNext
    <2> QED
      BY <1>4, <2>1, <2>2, <2>3
  <1>6. PICK r \in Site : files' = Append(files, <<w, r>>) /\ writeResultList' = <<>>
    <2>1. CASE WriteAndRead
      <3>1. PICK r \in Site : readResultList = <<r>>
        BY <1>2, <2>1, ShortLists DEF WriteAndRead
      <3>2. files' = Append(files, <<w, r>>) /\ writeResultList' = <<>>
        BY <1>3, <2>1, <3>1, ShortLists DEF WriteAndRead, WriteRace
      <3> QED
        BY <3>2
    <2>2. CASE WriteAndWrite
      <3>1. PICK r \in Site : writeResultList2 = <<r>>
        BY <1>2, <2>2, ShortLists DEF WriteAndWrite
      <3>2. files' = Append(files, <<w, r>>) /\ writeResultList' = <<>>
        BY <1>3, <2>2, <3>1, ShortLists DEF WriteAndWrite
      <3> QED
        BY <3>2
    <2> QED
      BY <2>1, <2>2
  <1>7. PICK g \in Seq(Site) : g = <<w, r>>
    <2>1. <<w, r>> \in Seq(Site)
      OBVIOUS
    <2> QED
      BY <2>1
  <1>8. g[1] = w
    BY <1>7
  <1>9. n <= Len(raw) /\ Len(raw) \in Nat
    BY <1>1, <1>2, <1>4
  <1>10. VgOrderAt(n, <<>>, Append(files, g)) /\ VgOrdered(Append(files, g))
    BY <1>2, <1>5, <1>8, <1>9, VgOrderFile
  <1> QED
    BY <1>1, <1>4, <1>6, <1>7, <1>10, VgOrderKeeps

\* Every step keeps the order.
LEMMA VgOrderStep ==
    VgInv /\ mode = "valgrind" /\ [VgNext]_vgAll => VgInOrder' /\ VgOrderInv'
  <1> SUFFICES ASSUME VgTypeOK, VgScanInv, VgInOrder, VgOrderInv, mode = "valgrind", [VgNext]_vgAll
               PROVE  VgInOrder' /\ VgOrderInv'
    BY DEF VgInv
  <1>0. VgLoop
    BY DEF VgLoop, VgModes
  <1>1. CASE VgMainFails
    BY <1>1 DEF VgMainFails
  <1>2. CASE checkBlockIntegrity("blank") /\ UNCHANGED vgVars
    <2>1. pc = "check" /\ pc' = "scan" /\ fp' = 0 /\ UNCHANGED <<lists, files>>
      BY <1>2 DEF checkBlockIntegrity
    <2>2. writeResultList' = <<>> /\ files' = <<>>
      BY <2>1 DEF VgScanInv, VgOrderInv, lists
    <2> QED
      BY <2>1, <2>2, ShortLists DEF VgOrderInv, VgInOrder
  <1>3. CASE VgReadStart \/ VgWriteStart \/ VgReadEnd \/ VgOtherLine \/ VgBlockStart
    <2>1. PICK kk \in {"read", "write", "address", "other", "start"} :
             Reads(kk) /\ files' = files /\ writeResultList' \in {writeResultList, <<>>}
      BY <1>3 DEF VgReadStart, VgWriteStart, VgReadEnd, VgOtherLine, VgBlockStart, lists
    <2>2. \A x \in ToSet(writeResultList') : x \in ToSet(writeResultList)
      BY <2>1, ShortLists
    <2> QED
      BY <2>1, <2>2, VgTakenInOrder
  <1>4. CASE VgCallStackLine
    <2>1. Reads("frame") /\ files' = files
      BY <1>4 DEF VgCallStackLine
    <2>2. pc = "scan" /\ raw[fp + 1].fn \in FrameKinds /\ Position(VgKinds)
      BY <1>0, <2>1, VgReads, VgPosition
    <2>3. PICK x : x = raw[fp + 1].site
      OBVIOUS
    <2>4. \/ writeResultList' = writeResultList
          \/ flagWriteStart /\ raw[fp + 1].fn # "icp" /\ writeResultList' = <<x>>
      BY <1>4, <2>3, Zenon DEF VgCallStackLine
    <2>5. flagWriteStart => Under(fp, "write", VgStackEnds)
      BY <2>2 DEF VgScanInv
    <2>6. raw[fp + 1].fn # "icp" => raw[fp + 1].fn = "app"
      BY <2>2 DEF FrameKinds
    <2>7. \A y \in ToSet(writeResultList') :
             y \in ToSet(writeResultList) \/ (InStack(fp + 1, "write", VgStackEnds) /\ y = x)
      <3>1. CASE writeResultList' = writeResultList
        BY <3>1
      <3>2. CASE writeResultList' # writeResultList
        <4>1. InStack(fp + 1, "write", VgStackEnds)
          BY <2>1, <2>2, <2>4, <2>5, <2>6, <3>2, VgEndKinds, FrameInStack
        <4>2. ToSet(writeResultList') = {x}
          BY <2>4, <3>2, ShortLists
        <4> QED
          BY <4>1, <4>2
      <3> QED
        BY <3>1, <3>2
    <2> QED
      BY <2>1, <2>3, <2>7, VgTakenInOrder
  <1>5. CASE VgLineBreak
    <2>1. Reads("blank") /\ (WriteAndRead \/ WriteAndWrite \/ NoRaceYet)
      BY <1>5 DEF VgLineBreak
    <2>2. CASE NoRaceYet
      <3>1. files' = files /\ writeResultList' = writeResultList
        BY <2>2 DEF NoRaceYet, lists
      <3> QED
        BY <2>1, <3>1, VgTakenInOrder
    <2> QED
      BY <2>1, <2>2, VgFlushInOrder
  <1>6. CASE VgEndOfScan
    <2>1. pc' = "done" /\ raw' = raw /\ files' = files /\ mode' = mode
      BY <1>6 DEF VgEndOfScan
    <2>2. VgInOrder'
      <3>1. PICK ends : ends = VgStackEnds
        OBVIOUS
      <3>2. ends = VgStackEnds'
        BY <3>1 DEF VgStackEnds
      <3>3. \A x, k, a, b : Within(x, k, ends, a, b)' <=> Within(x, k, ends, a, b)
        BY <2>1, SameWithin
      <3>4. PICK fs : fs = files
        OBVIOUS
      <3>5. VgOrdered(fs)
        BY <3>4 DEF VgInOrder, VgOrdered
      <3>6. \A k \in DOMAIN fs : \A m \in 1 .. k - 1 :
               \E c \in 0 .. Len(raw) : /\ Within(fs[m][1], "write", ends, 0, c)'
                                      /\ Within(fs[k][1], "write", ends, c, Len(raw))'
        BY <2>1, <3>1, <3>3, <3>5 DEF VgOrdered
      <3> QED
        BY <2>1, <3>2, <3>4, <3>6 DEF VgInOrder, Within
    <2> QED
      BY <2>1, <2>2 DEF VgOrderInv
  <1>7. CASE UNCHANGED vgAll
    <2>1. UNCHANGED <<mode, raw, fp, pc, writeResultList, files>>
      BY <1>7 DEF vgAll, rfVars, scanning, lists
    <2> QED
      BY <2>1 DEF VgInOrder, VgOrderInv, Within, InStack, Under, VgStackEnds
  <1> QED
    BY <1>1, <1>2, <1>3, <1>4, <1>5, <1>6, <1>7 DEF VgNext, runNormalSyncLoop

----------------------------------------------------------------------------
(* All of it.                                                              *)

\* The name that is not found parses nothing.
LEMMA VgInvStep == VgInv /\ VgLoop /\ [VgNext]_vgAll => VgInv' /\ VgLoop'
  <1> SUFFICES ASSUME VgInv, VgLoop, [VgNext]_vgAll
               PROVE  VgInv' /\ VgLoop'
    OBVIOUS
  <1>1. VgTypeOK' /\ mode' = mode
    BY VgTypeStep DEF VgInv
  <1>2. VgLoop'
    BY <1>1 DEF VgLoop, VgModes
  <1>3. CASE mode = "valgrind"
    BY <1>1, <1>2, <1>3, VgSoundScanStep, VgMissStep, VgOrderStep DEF VgInv
  <1>4. CASE mode # "valgrind"
    BY <1>1, <1>2, <1>4
    DEF VgInv, VgSound, VgScanInv, VgMissInv, VgMissesNone, VgInOrder, VgOrderInv
  <1> QED
    BY <1>3, <1>4

\* So does a scan of a Helgrind report.
LEMMA VgInvInit == VgAnyReport => VgInv /\ VgLoop
  <1> SUFFICES ASSUME VgAnyReport PROVE VgInv /\ VgLoop
    OBVIOUS
  <1>1. /\ VgLoop
        /\ raw \in Seq(VgReportLine) /\ fp = 0 /\ pc = "check" /\ baseIndex = 0 /\ boundaryIndex = 0
        /\ flagBlockStart = FALSE /\ flagReadStart = FALSE /\ flagWriteStart = FALSE
        /\ writeResultList = <<>> /\ readResultList = <<>> /\ files = <<>>
        /\ writeResultList2 = <<>> /\ pendingWriteFlag = FALSE
    BY DEF VgAnyReport, FileInit, VgLoop
  <1>2. VgTypeOK
    <2>1. Len(raw) \in Nat
      BY <1>1
    <2>2. fp \in 0 .. Len(raw) /\ boundaryIndex \in 0 .. Len(raw)
      BY <1>1, <2>1
    <2>3. /\ readResultList \in Seq(Site) /\ Len(readResultList) <= 1
          /\ writeResultList \in Seq(Site) /\ Len(writeResultList) <= 1
          /\ writeResultList2 \in Seq(Site) /\ Len(writeResultList2) <= 1
          /\ files \in Seq(Seq(Site))
      BY <1>1, SiteLists
    <2>4. {flagBlockStart, flagReadStart, flagWriteStart, pendingWriteFlag} \subseteq BOOLEAN
      BY <1>1
    <2> QED
      BY <1>1, <2>2, <2>3, <2>4, Zenon DEF VgTypeOK
  <1>3. VgSound
    BY <1>1, ShortLists DEF VgSound
  <1>4. VgScanInv /\ VgMissInv /\ VgMissesNone /\ VgInOrder /\ VgOrderInv
    BY <1>1 DEF VgScanInv, VgMissInv, VgMissesNone, VgInOrder, VgOrderInv
  <1> QED
    BY <1>1, <1>2, <1>3, <1>4 DEF VgInv

\* For every Helgrind report, of complete blocks or not: the variables of the
\* loop keep their types, a flag stands for a header above it in the same
\* stack, what is in the lists was read below such headers, the read and the
\* first write since the last block start, and the two writes are not the
\* same frame.
THEOREM VgInvariant == VgSpec => []VgInv
  <1>1. VgAnyReport => VgInv /\ VgLoop
    BY VgInvInit
  <1>2. VgInv /\ VgLoop /\ [VgNext]_vgAll => VgInv' /\ VgLoop'
    BY VgInvStep
  <1> QED
    BY <1>1, <1>2, PTL DEF VgSpec, vgAll

\* Whatever Helgrind wrote, a race file is a write and a read of one block,
\* or two different frames of writes, and never a frame of an announcement,
\* an allocation or mythread_wrapper.
THEOREM VgFilesSound == VgSpec => []VgSound
  <1>1. VgInv => VgSound
    BY DEF VgInv
  <1> QED
    BY <1>1, VgInvariant, PTL

\* Whatever Helgrind wrote, at the end no block is missed that has a write
\* and another access: there is a race file that begins with its first
\* write, and if the read was before it, the one of the two.
THEOREM VgFilesComplete == VgSpec => []VgMissesNone
  <1>1. VgInv => VgMissesNone
    BY DEF VgInv
  <1> QED
    BY <1>1, VgInvariant, PTL

\* Whatever Helgrind wrote, the writes that the race files begin with are
\* in the order of the report, and no two of them are the same frame.  The
\* second ones need not be: a second write may be left over from above.
THEOREM VgFilesInOrder == VgSpec => []VgInOrder
  <1>1. VgInv => VgInOrder
    BY DEF VgInv
  <1> QED
    BY <1>1, VgInvariant, PTL
=============================================================================
