----------------------------- MODULE MCParsers ------------------------------
(***************************************************************************)
(* Small reports for the two parsers.                                      *)
(***************************************************************************)
EXTENDS TsanParser, ValgrindParser

Frames   == {<<"app">>, <<"app", "icp">>, <<"icp", "app">>, <<"app", "app">>}
Accesses == [kind : {"read", "write", "atomic"}, frames : Frames]
Races    == {r \in Accesses \X Accesses : \E a \in 1 .. 2 : r[a].kind = "write"}
Whole(r) == [acc |-> r, kept |-> 12 + Len(r[1].frames) + Len(r[2].frames)]
Second   == {Whole(r) : r \in {p \in Races : /\ p[1].frames = <<"app">> /\ p[2].frames = <<"icp", "app">>
                                             /\ \A a \in 1 .. 2 : p[a].kind # "atomic"}}

Cut(b)  == {[b EXCEPT !.kept = k] : k \in 1 .. b.kept}
First   == {Whole(r) : r \in Races}
WholeReports == {<<b>> : b \in First} \cup {<<b, c>> : b \in First, c \in Second}
Short        == {b \in First : \A a \in 1 .. 2 : b.acc[a].frames # <<"app", "app">>}
CutReports   == UNION {{<<x, c>>, <<c, x>>} : x \in UNION {Cut(b) : b \in Short}, c \in Second}

VgStacks(F) == [kind : {"read", "write"}, frames : F]
VgAccesses(F) == {<<s>> : s \in VgStacks(F)}
                 \cup {p \in VgStacks(F) \X VgStacks(F) : \E a \in 1 .. 2 : p[a].kind = "write"}
VgWhole(acc, m) == LET b == [acc |-> acc, memory |-> m, kept |-> 0]
                   IN  [b EXCEPT !.kept = Len(VgBlock(1, b))]
VgBlocks(F, M) == {VgWhole(acc, m) : acc \in VgAccesses(F), m \in M}
Memory         == {"address", "location"}
VgReports ==
    {<<b, c, b>> : b \in VgBlocks({<<"app", "app">>, <<"app", "icp">>}, Memory),
                   c \in VgBlocks({<<"app">>}, {"location"})}
    \cup UNION {{<<x, c, c>> : x \in Cut(b)} \cup {<<b, c, x>> : x \in Cut(b)} :
                   b \in VgBlocks({<<"app">>}, Memory), c \in VgBlocks({<<"app", "app">>}, {"address"})}

allVars == <<rfVars, vgVars>>

Init ==
    \/ /\ TsanInit(SyncModes, CutReports) \/ TsanInit(ReadModes, WholeReports)
       /\ writeResultList2 = <<>>
       /\ pendingWriteFlag = FALSE
    \/ VgInit(VgReports)

Next == (TsanNext /\ UNCHANGED vgVars) \/ VgNext
Spec == Init /\ [][Next]_allVars

\* The report grows while the overnight loop runs.
OneRace == {<<Whole(<<[kind |-> "write", frames |-> <<"app">>], [kind |-> "read", frames |-> <<"app">>]>>)>>}

OvernightInit == GrowingInit(OneRace) /\ writeResultList2 = <<>> /\ pendingWriteFlag = FALSE
OvernightNext == (TsanNext \/ Detector) /\ UNCHANGED vgVars
OvernightSpec == OvernightInit /\ [][OvernightNext]_allVars
=============================================================================
