---------------------------- MODULE ResultTransfer ----------------------------
(***************************************************************************)
(* A whole test run: the generated test code (src/awk/parseSingleFile.awk) *)
(* calls the result buffer of EUnitBuffer on the target, and the host      *)
(* (TestMode.cpp, ComGnuDebugger.cpp) drains it into TestAnalyser whenever *)
(* the target stops in MessageToDebugger.  While the target is stopped the *)
(* host is the only one that runs, so that handling one message is one     *)
(* step; GdbSession looks inside it.                                       *)
(***************************************************************************)
EXTENDS EUnitBuffer, TestAnalyser

CONSTANTS
  WRITE_TEST_NAME,   \* eUnit.h: does the test code announce its tests?
  MaxCalls           \* bound on the calls that reach the buffer

ASSUME TransferAssumption == WRITE_TEST_NAME \in BOOLEAN /\ MaxCalls \in Nat

VARIABLES
  phase,        \* where the test code is
  testSuccess,  \* the generated local variable of the current test
  analyser,     \* the state of the host's testAnalyser
  closed,       \* executeAllTest has handled finishAllTest
  names,        \* history: the names and groups announced so far
  sent,         \* history: the results reported so far
  calls         \* calls that reached the buffer

testVars == <<phase, testSuccess, names, sent, calls>>
hostVars == <<analyser, closed>>
vars == <<bufferVars, testVars, hostVars>>

Phases == {"outside", "inTest", "finished"}

(* Will the record be shown by the debugger instead of being stored? *)
IsTooLarge(res) == calcResultLength(res) >= SIZE_OF_RESULT_BUFFER

(* What the host can learn of a result at this level. *)
View(res) ==
  LET line == IF level = lineNumbers THEN res.line ELSE << >>
  IN  IF res.status = testSucceed THEN OkEvent
      ELSE IF level <= testNames \/ IsTooLarge(res)
      THEN FailEvent(<< >>, << >>, << >>)
      ELSE IF (res.flags \div typeTimeOut) % 2 = 1 THEN TimeoutEvent(line)
      ELSE FailEvent(res.is, res.should, line)

Reports(res) ==
  sent' = Append(sent, [class |-> names.class, test |-> names.test,
                        file |-> names.file, of |-> View(res)])

NulEnd(text) == SubSeq(text, 1, Len(text) - 1)

(* A class name ends the group before it, if that had any tests; tests     *)
(* before the first class name count for the group it begins.              *)
NextGroup(text) ==
  LET ends == names.class # << >> /\ names.tests > 0
  IN  [names EXCEPT !.class = text,
                    !.tests = IF ends THEN 0 ELSE @,
                    !.groups = IF ends
                               THEN Append(@, [class |-> names.class, tests |-> names.tests])
                               ELSE @]

(* A requested string that fits becomes the name of what follows. *)
Announces(s) ==
  names' = IF ~IsRequested(s) \/ StringLength(s) > SizeofBuffer THEN names
           ELSE CASE s.type = ofTestName  -> [names EXCEPT !.test = NulEnd(s.text),
                                                           !.tests = @ + 1]
                  [] s.type = ofTestClass -> NextGroup(NulEnd(s.text))
                  [] s.type = ofTestFile  -> [names EXCEPT !.file = NulEnd(s.text)]
                  [] OTHER -> names

Call == calls < MaxCalls /\ calls' = calls + 1
-----------------------------------------------------------------------------
(* The generated test code. *)

(* __eUnitFile_ and __eUnitGroup_ announce the file and the group. *)
BeginGroup(s) ==
  /\ Call /\ phase = "outside"
  /\ s.type \in {ofTestFile, ofTestClass}
  /\ AddString(s)
  /\ Announces(s)
  /\ UNCHANGED <<phase, testSuccess, sent>>
  /\ UNCHANGED hostVars

(* The head of a test: its name, unless the configuration leaves it out. *)
BeginTest(s) ==
  /\ Running /\ phase = "outside"
  /\ s.type = ofTestName
  /\ \/ /\ WRITE_TEST_NAME /\ IsRequested(s)
        /\ Call /\ AddString(s) /\ Announces(s)
     \/ /\ ~(WRITE_TEST_NAME /\ IsRequested(s))
        /\ UNCHANGED <<names, calls>>
        /\ UNCHANGED bufferVars
  /\ phase' = "inTest"
  /\ testSuccess' = TRUE
  /\ UNCHANGED sent
  /\ UNCHANGED hostVars

(* EXPECT_TRUE, EXPECT_FALSE: a failure is noted and the test goes on. *)
ExpectFails(a) ==
  /\ Call /\ phase = "inTest"
  /\ a.type = typeCompBool
  /\ CompareInt(a)
  /\ Reports(FailedInt(a))
  /\ testSuccess' = FALSE
  /\ UNCHANGED <<phase, names>>
  /\ UNCHANGED hostVars

(* ASSERT_EQ, ASSERT_NE, ASSERT_TRUE...: a failure leaves the test by longjmp. *)
AssertFails(a) ==
  /\ Call /\ phase = "inTest"
  /\ CompareInt(a)
  /\ Reports(FailedInt(a))
  /\ phase' = "outside"
  /\ UNCHANGED <<testSuccess, names>>
  /\ UNCHANGED hostVars

(* ASSERT_STREQ *)
AssertMemFails(a) ==
  /\ Call /\ phase = "inTest"
  /\ byteComp(a)
  /\ Reports(FailedMem(a))
  /\ phase' = "outside"
  /\ UNCHANGED <<testSuccess, names>>
  /\ UNCHANGED hostVars

PrintOverGdb(s) ==
  /\ Call /\ phase = "inTest"
  /\ s.type = ofGdbMessage
  /\ AddString(s)
  /\ UNCHANGED <<phase, testSuccess, names, sent>>
  /\ UNCHANGED hostVars

(* The end of a test: testCaseSuccess(testSuccess). *)
EndTest ==
  /\ Running /\ phase = "inTest"
  /\ \/ testSuccess /\ Call /\ testCaseSuccess /\ Reports(Success)
     \/ ~testSuccess /\ UNCHANGED <<calls, sent>> /\ UNCHANGED bufferVars
  /\ phase' = "outside"
  /\ UNCHANGED <<testSuccess, names>>
  /\ UNCHANGED hostVars

(* invokeAllTest ends. *)
InvokeAllTestEnds ==
  /\ phase = "outside"
  /\ FinishAllTest
  /\ phase' = "finished"
  /\ UNCHANGED <<testSuccess, names, sent, calls>>
  /\ UNCHANGED hostVars
-----------------------------------------------------------------------------
(* The host. *)

(* getResultData reads as many bytes as the index says. *)
Dump == [k \in 1..index |-> memory[k - 1]]

(* gdbMessagesToDebugger: the buffer is analysed unless it is empty. *)
Drained ==
  IF index > 0 THEN Analyse(level, analyser, Dump) ELSE {analyser}

(* Mutant: the loop ends with the first message. *)
EndsWithFirstMessage ==
  /\ message = bufferIsFull
  /\ analyser' \in Drained
  /\ ContinueAfterMessage
  /\ closed' = TRUE
  /\ UNCHANGED testVars

HandleBufferIsFull ==
  /\ message = bufferIsFull
  /\ analyser' \in Drained
  /\ ContinueAfterMessage
  /\ UNCHANGED closed
  /\ UNCHANGED testVars

(* Mutant: only a result that is too large is answered, a string is not. *)
IgnoresLongStrings ==
  /\ message = bufferToSmall /\ rest.kind = "result"
  /\ analyser' \in {AnalyseDirect(drained, View(rest)) : drained \in Drained}
  /\ ReturnFromFunction
  /\ UNCHANGED closed
  /\ UNCHANGED testVars

(* buffToSmall: the record that does not fit is read from the stack frame  *)
(* when it is a result, and only logged when it is a string.               *)
HandleBufferToSmall ==
  /\ message = bufferToSmall
  /\ analyser' \in IF rest.kind = "result"
                   THEN {AnalyseDirect(drained, View(rest)) : drained \in Drained}
                   ELSE Drained
  /\ ReturnFromFunction
  /\ UNCHANGED closed
  /\ UNCHANGED testVars

(* Mutant: the end is only handled when there is something left to read. *)
FinishNeedsResults ==
  /\ message = finishAllTest /\ index > 0
  /\ analyser' \in Drained
  /\ closed' = TRUE
  /\ ContinueAfterMessage
  /\ UNCHANGED testVars

HandleFinishAllTest ==
  /\ message = finishAllTest
  /\ analyser' \in Drained
  /\ closed' = TRUE
  /\ IF index = 0 THEN ReturnFromFunction ELSE ContinueAfterMessage
  /\ UNCHANGED testVars

(* A test that runs too long is interrupted; the host has the target call  *)
(* CompareInt(0,1,1,16,1,-1) and returns from the function it stopped in:  *)
(* the test itself or one the test has called.                             *)
HandleTimeout ==
  /\ Call /\ phase = "inTest"
  /\ CompareInt(TimeoutAssert)
  /\ Running'   \* a flush inside the evaluated call is not modelled here
  /\ Reports(FailedInt(TimeoutAssert))
  /\ phase' \in {"inTest", "outside"}
  /\ UNCHANGED <<testSuccess, names>>
  /\ UNCHANGED hostVars
-----------------------------------------------------------------------------
Init ==
  /\ BufferInit
  /\ phase = "outside"
  /\ testSuccess = TRUE
  /\ analyser = AnalyserInit
  /\ closed = FALSE
  /\ names = [class |-> << >>, test |-> << >>, file |-> << >>,
              tests |-> 0, groups |-> << >>]
  /\ sent = << >>
  /\ calls = 0

TestCode ==
  \/ \E s \in Strings : BeginGroup(s) \/ BeginTest(s) \/ PrintOverGdb(s)
  \/ \E a \in IntAsserts : ExpectFails(a) \/ AssertFails(a)
  \/ \E a \in MemAsserts : AssertMemFails(a)
  \/ EndTest
  \/ InvokeAllTestEnds

Host ==
  \/ HandleBufferIsFull
  \/ HandleBufferToSmall
  \/ HandleFinishAllTest
  \/ HandleTimeout

Next == TestCode \/ Host

Spec == Init /\ [][Next]_vars

(* The host polls for stop frames until finishAllTest has come, so a       *)
(* target that has stopped is always answered; the test code owes nothing. *)
FairSpec ==
  /\ Spec
  /\ WF_vars(HandleBufferIsFull)
  /\ WF_vars(HandleBufferToSmall)
  /\ WF_vars(HandleFinishAllTest)
-----------------------------------------------------------------------------
(* Properties *)

Shown(event) == [class |-> names.class, test |-> names.test, file |-> names.file,
                 of |-> event]

(* What the host will have shown once it has drained the buffer and the    *)
(* target has stored, or the host has read, the record it stopped with.    *)
ShownAfterDrain(drained) ==
  drained.shown \o (IF rest.kind = "result" THEN <<Shown(View(rest))>> ELSE << >>)

(* At any moment the buffer, read the way testAnalyser::analyse reads it,  *)
(* holds exactly the results that were reported and not yet shown, with    *)
(* their values, line and names, and nothing the decoder counts as an      *)
(* error: packing, padding, size fields and the clearing after each drain  *)
(* (eUnit.c coppySuccess, coppyResult, addStringToBuffer) agree with it.   *)
BufferHoldsTheRest ==
  \A drained \in Analyse(level, analyser, Dump) :
    ShownAfterDrain(drained) = sent /\ drained.errors = 0

(* The whole chain implements the abstract channel: results are delivered  *)
(* in order, none is lost, none twice, and all of them before the run is   *)
(* closed (TestMode::gdbMessagesToDebugger).                               *)
Channel == INSTANCE ResultChannel WITH received <- analyser.shown
ImplementsChannel == Channel!ChannelSpec

(* A run that is closed has shown every result: "all test-results are      *)
(* read" (GDBManipulator/Readme.md:102).                                   *)
AllResultsRead == closed => analyser.shown = sent

(* The number of tests the analyser prints for the group before ("<n>      *)
(* tests from <group>", TestAnalyser.cpp analyseResults) is the number of  *)
(* tests it had.  At level testNames analyseSuccess counts strings instead. *)
GroupsAreCounted ==
  level >= testResults =>
    /\ Len(analyser.groups) <= Len(names.groups)
    /\ analyser.groups = SubSeq(names.groups, 1, Len(analyser.groups))
    /\ closed => analyser.groups = names.groups

(* A target that has stopped to be drained is always answered, and a run   *)
(* whose test code has ended is always closed.                             *)
StoppedTargetIsAnswered == message # noMessage ~> message = noMessage
FinishedRunIsClosed == phase = "finished" ~> closed
=============================================================================
