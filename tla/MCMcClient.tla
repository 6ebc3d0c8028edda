----------------------------- MODULE MCMcClient -----------------------------
(***************************************************************************)
(* The tests, and programs that use a client after some of its calls have  *)
(* failed.                                                                 *)
(***************************************************************************)
EXTENDS McTests

MCKeys == {"", "x", "y", "z", "v", "PLAIN", "CRAM-MD5"}

SomeCalls ==
    <<get("x"), set("y", 2, Text(<<"b">>)), delete("x", "none"), getMulti(<<"x", "y">>),
      getMulti(<<"y", "z", "x">>), stats, sasl_auth_cram_md5, noop>>

FirstCalls ==
    SomeCalls \o
    <<sasl_mechanisms, sasl_auth_plain, set_vbucket_state("v", Text(<<"active">>)), delete_vbucket("v")>>

\* x is set, then any three calls follow.
Program(a, b, c) ==
    [calls |-> <<Try(set("x", 1, Text(<<"a">>))), Try(FirstCalls[a]), Try(SomeCalls[b]), Try(SomeCalls[c])>>,
     reliable |-> FALSE]

MCPrograms ==
    ComplianceTest \cup
    {Program(a, b, c) : a \in DOMAIN FirstCalls, b \in DOMAIN SomeCalls, c \in DOMAIN SomeCalls}
=============================================================================
