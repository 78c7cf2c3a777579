---------------------------- MODULE MCEUnitBuffer ----------------------------
(* Small instances of EUnitBuffer: arbitrary orders of calls, no bound on  *)
(* their number (the buffer itself bounds the state).                      *)
EXTENDS EUnitBuffer

OnlyNames    == {testNames}
RecordLevels == {testResults, lineNumbers}

Name == [type |-> ofTestName, text |-> <<65, 0>>]
Long == [type |-> ofGdbMessage, text |-> [k \in 1..20 |-> IF k < 20 THEN 66 ELSE 0]]

Bytes2 == [is |-> <<1, 2>>, should |-> <<1, 3>>, line |-> 4]

SomeStrings == {Name, Long}
SomeInts == {}   \* the failure of a timeout is an integer assertion
SomeMems == {Bytes2}
=============================================================================
