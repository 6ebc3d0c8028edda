------------------------------ MODULE MCTaint ------------------------------
(***************************************************************************)
(* Small programs for Taint.  r calls m, m calls f and the external        *)
(* function e, f may call h, and h may call back.  The race is in m, at    *)
(* m1 or at m2; m3 .. m5, f1, f2 and h1 vary.                              *)
(***************************************************************************)
EXTENDS Taint

MCInst == {"r1", "r2", "r3", "m1", "m2", "m3", "m4", "m5", "f1", "f2", "h1"}
MCFunc == {"r", "m", "f", "h", "e"}
MCLine == {"d", "n"}

\* g, p, b: globals; x, y, z: parameters; c: a clean value; i, j: indices.
MCValue == MCInst \cup {"g", "p", "b", "x", "y", "z", "c", "i", "j"}

MCCode == "r" :> <<"r1", "r2", "r3">> @@ "m" :> <<"m1", "m2", "m3", "m4", "m5">>
          @@ "f" :> <<"f1", "f2">> @@ "h" :> <<"h1">> @@ "e" :> <<>>
MCParams == "r" :> <<>> @@ "m" :> <<>> @@ "f" :> <<"x">> @@ "h" :> <<"y">> @@ "e" :> <<"z">>
MCLineOf == [i \in MCInst |-> IF i \in {"f2", "h1"} THEN "d" ELSE "n"]
MCBlk == "r1" :> "R" @@ "r2" :> "R" @@ "r3" :> "R" @@ "m1" :> "M1" @@ "m2" :> "M1" @@ "m3" :> "M1"
         @@ "m4" :> "M2" @@ "m5" :> "M3" @@ "f1" :> "F1" @@ "f2" :> "F2" @@ "h1" :> "H"
MCInfluences == {<<"M1", "M2">>, <<"M1", "M3">>, <<"M2", "M3">>, <<"F1", "F2">>}
MCBody == <<"r1">>

I(k, a) == [kind |-> k, args |-> a, callee |-> null]
C(f, a) == [kind |-> "call", args |-> a, callee |-> f]

Slots(R1, R2, M1, M3, M4, M5, F1, F2, H1) ==
    {"r1" :> t[1] @@ "r2" :> t[2] @@ "r3" :> C("f", <<"r1">>)
     @@ "m1" :> t[3] @@ "m2" :> I("other", <<"g">>)
     @@ "m3" :> t[4] @@ "m4" :> t[5] @@ "m5" :> t[6]
     @@ "f1" :> t[7] @@ "f2" :> t[8] @@ "h1" :> t[9] :
        t \in R1 \X R2 \X M1 \X M3 \X M4 \X M5 \X F1 \X F2 \X H1}

Load == {I("other", <<"g">>)}
Calls == {C("f", <<"m1">>), C("f", <<"c">>), C("h", <<"m2">>),
          I("store", <<"m1", "p">>), I("br", <<"m1">>)}

\* Calls, recursion, stores and branches; one or two heads.
OneOrTwo == {<<"m1">>, <<"m1", "m2">>}
CallPrograms ==
    Slots({C("m", <<>>)}, {I("store", <<"r1", "p">>)}, Load, Calls, Calls, Calls,
          {I("other", <<"x">>), I("br", <<"x">>), I("other", <<"p">>)},
          {I("other", <<"f1">>), C("h", <<"f1">>), C("m", <<>>)},
          {I("other", <<"y">>), C("f", <<"y">>)})

\* Elements of arrays and structures, external and unknown functions.
Gep2 == I("gep", <<"b", "i">>)
Gep3 == I("gep", <<"b", "i", "j">>)
Gep4 == I("gep", <<"m1", "i", "j", "i">>)
GepPrograms ==
    Slots({C("m", <<>>)}, {I("store", <<"r1", "p">>)}, {Gep2, Gep3, I("gep", <<"b", "i", "j", "i">>)},
          {Gep2, Gep3, Gep4, I("gep", <<"m1", "i">>), C("f", <<"m1">>), C(null, <<"m1">>)},
          {Gep2, I("gep", <<"b", "m1">>), C("e", <<"m3">>), C("f", <<"m3">>)},
          {Gep3, C("e", <<"m4">>), C("e", <<"m2">>), I("intrinsic", <<"m1">>)},
          {I("gep", <<"x", "i">>), I("other", <<"x">>)},
          {I("other", <<"f1">>), C("e", <<"f1">>)}, {I("other", <<"y">>)})

AllPrograms == CallPrograms \cup GepPrograms

One == {<<"m1">>}
=============================================================================
