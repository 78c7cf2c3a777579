--------------------------- MODULE MCResultTransfer ---------------------------
(* Small instances of ResultTransfer. *)
EXTENDS ResultTransfer

Class   == [type |-> ofTestClass, text |-> <<67, 0>>]
File    == [type |-> ofTestFile, text |-> <<70, 0>>]
TestA   == [type |-> ofTestName, text |-> <<65, 0>>]
TestBB  == [type |-> ofTestName, text |-> <<66, 66, 0>>]
Note    == [type |-> ofGdbMessage, text |-> <<33, 0>>]
TooLong == [type |-> ofTestName, text |-> [k \in 1..30 |-> IF k < 30 THEN 90 ELSE 0]]

ExpectTrue == [is |-> 0, should |-> 1, size |-> 1, type |-> typeCompBool, eq |-> TRUE,
               line |-> 7, junk |-> 0]
AssertEq32 == [is |-> -1, should |-> 258, size |-> 4, type |-> typeCompEqual, eq |-> TRUE,
               line |-> 8, junk |-> 0]
AssertNe16 == [is |-> 3, should |-> 3, size |-> 2, type |-> typeCompEqual, eq |-> FALSE,
               line |-> 9, junk |-> 0]

StrShort == [is |-> <<65>>, should |-> <<65, 66>>, line |-> 11]
StrLong  == [is |-> <<1, 2, 3, 4>>, should |-> <<1, 2, 3, 5>>, line |-> 12]

OnlyStatuses == {justSuccess}
OnlyNames == {testNames}
AllRecords == testNames..lineNumbers

StatusStrings == {TestA}
StatusInts == {ExpectTrue}
StatusMems == {StrShort}

NameStrings == {Class, TestA, Note, TooLong}

RecordStrings == {File, Class, TestA, TestBB, Note, TooLong}
RecordInts == {ExpectTrue, AssertNe16, AssertEq32}
RecordMems == {StrShort, StrLong}
=============================================================================
