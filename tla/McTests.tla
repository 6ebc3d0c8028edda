------------------------------ MODULE McTests -------------------------------
(***************************************************************************)
(* testClient.py, the compliance tests of the memcached client: programs   *)
(* of calls, each with what the test asserts of its result.                *)
(***************************************************************************)
EXTENDS McClient

Call(q, want) == [req |-> q, want |-> want, keep |-> FALSE]
Do(q)         == Call(q, [st |-> "ok"])
Keep(q)       == [Do(q) EXCEPT !.keep = TRUE]
Try(q)        == Call(q, <<>>)
Fails(q, st)  == Call(q, [st |-> st])
Returns(q, v) == Call(q, [st |-> "ok", val |-> v])

assertNotExists(k)  == Fails(get(k), "not_found")
assertGet(k, f, v)  == Call(get(k), [st |-> "ok", flags |-> f, val |-> v])
assertValidCas(k)   == Call(get(k), [st |-> "ok", cas |-> TRUE])

\* A test between setUp and tearDown.
Test(calls) == [calls |-> <<Do(flush(0))>> \o calls \o <<Do(flush(0))>>, reliable |-> TRUE]

testVersion == Test(<<Do(version)>>)

testSimpleSetGet == Test(<<Do(set("x", 19, Text(<<"value">>))), assertGet("x", 19, Text(<<"value">>))>>)

testZeroExpiration ==
    Test(<<Do(set("x", 19, Text(<<"value">>))), Do(sleep), assertGet("x", 19, Text(<<"value">>))>>)

testDelete ==
    Test(<<Do(set("x", 19, Text(<<"value">>))), assertGet("x", 19, Text(<<"value">>)),
           Do(delete("x", "none")), assertNotExists("x")>>)

testFlush ==
    Test(<<Do(set("x", 19, Text(<<"valuex">>))), Do(set("y", 17, Text(<<"valuey">>))),
           assertGet("x", 19, Text(<<"valuex">>)), assertGet("y", 17, Text(<<"valuey">>)),
           Do(flush(0)), assertNotExists("x"), assertNotExists("y")>>)

testNoop == Test(<<Do(noop)>>)

testAdd ==
    Test(<<assertNotExists("x"), Do(add("x", 19, Text(<<"ex">>))), assertGet("x", 19, Text(<<"ex">>)),
           Fails(add("x", 19, Text(<<"ex2">>)), "exists"), assertGet("x", 19, Text(<<"ex">>))>>)

testReplace ==
    Test(<<assertNotExists("x"), Fails(replace("x", 19, Text(<<"ex">>)), "not_found"),
           Do(add("x", 19, Text(<<"ex">>))), assertGet("x", 19, Text(<<"ex">>)),
           Do(replace("x", 19, Text(<<"ex2">>))), assertGet("x", 19, Text(<<"ex2">>))>>)

testMultiGet ==
    Test(<<Do(add("x", 1, Text(<<"ex">>))), Do(add("y", 2, Text(<<"why">>))),
           Returns(getMulti(<<"x", "y", "z">>), [x |-> <<1, Text(<<"ex">>)>>, y |-> <<2, Text(<<"why">>)>>])>>)

testIncrDoesntExistNoCreate ==
    Test(<<Fails(incrdecr("incr", "x", 1, 0, FALSE), "not_found"), assertNotExists("x")>>)

testIncrDoesntExistCreate == Test(<<assertNotExists("x"), Returns(incr("x", 1, 19), Number(19))>>)

testDecrDoesntExistNoCreate ==
    Test(<<Fails(incrdecr("decr", "x", 1, 0, FALSE), "not_found"), assertNotExists("x")>>)

testDecrDoesntExistCreate == Test(<<assertNotExists("x"), Returns(decr("x", 1, 19), Number(19))>>)

\* Without its last step, an increment by 2**33.
testIncr ==
    Test(<<Returns(incr("x", 1, 0), Number(0)), Returns(incr("x", 1, 0), Number(1)),
           Returns(incr("x", 211, 0), Number(212))>>)

testDecr ==
    Test(<<Returns(incr("x", 1, 5), Number(5)), Returns(decr("x", 1, 0), Number(4)),
           Returns(decr("x", 211, 0), Number(0))>>)

testCas ==
    Test(<<Fails(cas("x", 19, "other", Text(<<"bad">>)), "not_found"),
           Do(add("x", 19, Text(<<"original">>))),
           [assertGet("x", 19, Text(<<"original">>)) EXCEPT !.keep = TRUE],
           Fails(cas("x", 19, "other", Text(<<"broken">>)), "exists"),
           Do(cas("x", 19, "saved", Text(<<"new">>))), assertGet("x", 19, Text(<<"new">>)),
           Fails(cas("x", 19, "saved", Text(<<"crap">>)), "exists"), assertGet("x", 19, Text(<<"new">>))>>)

testSetReturnsCas == Test(<<Keep(set("x", 19, Text(<<"some">>))), assertValidCas("x")>>)

testAddReturnsCas == Test(<<Keep(add("x", 19, Text(<<"some">>))), assertValidCas("x")>>)

testReplaceReturnsCas ==
    Test(<<Keep(add("x", 19, Text(<<"some">>))), Keep(replace("x", 19, Text(<<"other">>))),
           assertValidCas("x")>>)

testIncrReturnsCAS ==
    Test(<<Do(set("x", 19, Number(4))), [Returns(incr("x", 1, 5), Number(5)) EXCEPT !.keep = TRUE],
           assertValidCas("x")>>)

testDecrReturnsCAS ==
    Test(<<Do(set("x", 19, Number(4))), [Returns(decr("x", 1, 5), Number(3)) EXCEPT !.keep = TRUE],
           assertValidCas("x")>>)

testDeletionCAS ==
    Test(<<Try(delete("x", "none")), Keep(set("x", 19, Number(4))),
           Fails(delete("x", "other"), "exists"), assertGet("x", 19, Number(4)),
           Do(delete("x", "saved")), assertNotExists("x")>>)

testAppend ==
    Test(<<Do(set("x", 19, Text(<<"some">>))), Do(append("x", Text(<<"thing">>), "none")),
           assertGet("x", 19, Text(<<"some", "thing">>))>>)

testAppendCAS ==
    Test(<<Keep(set("x", 19, Text(<<"some">>))), Fails(append("x", Text(<<"thing">>), "other"), "exists"),
           assertGet("x", 19, Text(<<"some">>))>>)

testPrepend ==
    Test(<<Do(set("x", 19, Text(<<"some">>))), Do(prepend("x", Text(<<"thing">>), "none")),
           assertGet("x", 19, Text(<<"thing", "some">>))>>)

testPrependCAS ==
    Test(<<Keep(set("x", 19, Text(<<"some">>))), Fails(prepend("x", Text(<<"thing">>), "other"), "exists"),
           assertGet("x", 19, Text(<<"some">>))>>)

testTimeBombedFlush ==
    Test(<<Do(set("x", 19, Text(<<"some">>))), Do(flush(2)), assertGet("x", 19, Text(<<"some">>)),
           Do(sleep), assertNotExists("x")>>)

ComplianceTest ==
    {testVersion, testSimpleSetGet, testZeroExpiration, testDelete, testFlush, testNoop,
      testAdd, testReplace, testMultiGet, testIncrDoesntExistNoCreate,
      testIncrDoesntExistCreate, testDecrDoesntExistNoCreate, testDecrDoesntExistCreate,
      testIncr, testDecr, testCas, testSetReturnsCas, testAddReturnsCas,
      testReplaceReturnsCas, testIncrReturnsCAS, testDecrReturnsCAS, testDeletionCAS,
      testAppend, testAppendCAS, testPrepend, testPrependCAS, testTimeBombedFlush}
=============================================================================
