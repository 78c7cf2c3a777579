-------------------------------- MODULE TestRun --------------------------------
(***************************************************************************)
(* testMode::executeAllTest (src/GDBManipulator/src/runModes/TestMode.cpp) *)
(* with the calls it makes on com_gnu_debugger, and the timer thread that  *)
(* interrupts a test that takes too long.                                  *)
(*                                                                         *)
(* What the loop has to do before it looks for the next frame is the list  *)
(* todo of operations: each sends a command, waits for it and uses its     *)
(* result, which may put further operations in front.                      *)
(***************************************************************************)
EXTENDS GdbSession

CONSTANTS
  targetTimeout,  \* does the timer thread run?
  MaxTimeouts,    \* bound on the number of times it interrupts the target
  Signals         \* may a signal end the run?

ASSUME TimerAssumption == {targetTimeout, Signals} \subseteq BOOLEAN /\ MaxTimeouts \in Nat

VARIABLES
  mode,          \* "testing", "aborting" (modeFailed), and the ends "ended",
                 \* "exited" (cleanUpAndExit), "rescued" and "crashed"
  todo,          \* what the main thread does before it looks for a frame
  frame,         \* the frame executeAllTest handles
  testNotFinYet,
  isTimeout,     \* set by the timer thread
  mocks,         \* targetMock::toMock: what to do when, oldest first
  handled,       \* history: the frames the loop has taken
  analysed,      \* history: the steps whose dump was analysed
  timeouts       \* number of timeouts so far

runVars == <<mode, todo, frame, testNotFinYet, isTimeout, mocks, handled, analysed,
             timeouts>>
vars == <<sessionVars, runVars>>

IsTesting == mode \in {"testing", "aborting"}

(* The operations of the main thread. *)
Op(name, command, waitForStopped) ==
  [name |-> name, command |-> command, waitForStopped |-> waitForStopped]

Execute(do, arg) == Op("execute", Command(do, arg), FALSE)
EvaluateOp(expression) ==
  Op("evaluate", Command("-data-evaluate-expression", expression), FALSE)
ReadIndex == Op("readIndex", Command("-data-evaluate-expression", "test_result_index"), FALSE)
ReadDump == Op("readDump", Command("-data-read-memory-bytes", ""), FALSE)
checkForDisabledTests ==
  Op("disabledTests", Command("-data-evaluate-expression", "disabledTest"), FALSE)
JumpOut(name) == Op(name, Command("-exec-return", ""), TRUE)
ContinueOp(waitForStopped) == Op("execute", Command("-exec-continue", ""), waitForStopped)
InsertBreakpoint(function) == Execute("-break-insert", function)
renewEUnitBreakpoints ==
  <<InsertBreakpoint("detachTarget"), InsertBreakpoint("MessageToDebugger")>>
-----------------------------------------------------------------------------
(* What each stop asks of the main thread. *)

step == program[frame'.step]

hasMocks == mocks # << >>

deleteAllDependencies ==
  IF hasMocks THEN <<Execute("-break-delete", "")>> \o renewEUnitBreakpoints ELSE << >>

(* Mutant: the buffer is not read for bufferToSmall. *)
SmallWithoutRead ==
  CASE step.kind = "bufferIsFull" -> <<ReadIndex, ContinueOp(TRUE)>>
    [] step.kind = "finishAllTest" ->
         <<ReadIndex, checkForDisabledTests, ContinueOp(FALSE)>>
    [] step.kind = "bufferToSmall" ->
         <<Execute("set", "memset"), Execute("set", "test_result_index"),
           JumpOut("buffToSmall"), ContinueOp(TRUE)>>
    [] step.kind \in {"addStub", "addMock"} -> <<JumpOut(step.kind), ContinueOp(TRUE)>>
    [] step.kind = "deleteMocks" -> deleteAllDependencies \o <<ContinueOp(TRUE)>>

MessageTodo ==
  CASE step.kind = "bufferIsFull" -> <<ReadIndex, ContinueOp(TRUE)>>
    [] step.kind = "finishAllTest" ->
         <<ReadIndex, checkForDisabledTests, ContinueOp(FALSE)>>
    [] step.kind = "bufferToSmall" ->
         <<ReadIndex, Execute("set", "memset"), Execute("set", "test_result_index"),
           JumpOut("buffToSmall"), ContinueOp(TRUE)>>
    [] step.kind \in {"addStub", "addMock"} -> <<JumpOut(step.kind), ContinueOp(TRUE)>>
    [] step.kind = "deleteMocks" -> deleteAllDependencies \o <<ContinueOp(TRUE)>>

HandleMessage ==
  /\ frame'.fn = "MessageToDebugger"
  /\ todo' = MessageTodo
  /\ mocks' = IF step.kind = "deleteMocks" THEN << >> ELSE mocks
  /\ testNotFinYet' = FALSE
  /\ UNCHANGED isTimeout

HandleDetach ==
  /\ frame'.fn = "detachTarget"
  /\ todo' = deleteAllDependencies \o
             <<Execute("set", "breaksMode"), JumpOut("jumpOut"),
               Op("exit", Command("set", "-target-detach"), FALSE)>>
  /\ mocks' = << >>
  /\ testNotFinYet' = FALSE
  /\ UNCHANGED isTimeout

(* Mutants: the loop ends with a timeout; the test is not left.            *)
TimeoutEnds ==
  /\ frame'.fn \notin {"MessageToDebugger", "detachTarget"}
  /\ isTimeout /\ isTimeout' = FALSE
  /\ todo' = <<EvaluateOp("CompareInt(0,1,1,16,1,-1)"), JumpOut("jumpOut"),
               ContinueOp(TRUE)>>
  /\ testNotFinYet' = FALSE
  /\ UNCHANGED mocks
TestIsNotLeft ==
  /\ frame'.fn \notin {"MessageToDebugger", "detachTarget"}
  /\ isTimeout /\ isTimeout' = FALSE
  /\ todo' = <<EvaluateOp("CompareInt(0,1,1,16,1,-1)"), ContinueOp(TRUE)>>
  /\ testNotFinYet' = TRUE
  /\ UNCHANGED mocks

HandleTimeout ==
  /\ frame'.fn \notin {"MessageToDebugger", "detachTarget"}
  /\ isTimeout /\ isTimeout' = FALSE
  /\ todo' = <<EvaluateOp("CompareInt(0,1,1,16,1,-1)"), JumpOut("jumpOut"),
               ContinueOp(TRUE)>>
  /\ testNotFinYet' = TRUE
  /\ UNCHANGED mocks

(* reduceDependency: the first mock that was added for the function. *)
HasMock(function) == \E k \in 1..Len(mocks) : mocks[k].when = function
(* Mutant: the latest. *)
LatestThen(function) ==
  mocks[CHOOSE k \in 1..Len(mocks) :
          /\ mocks[k].when = function
          /\ \A j \in (k + 1)..Len(mocks) : mocks[j].when # function].then
getThen(function) ==
  mocks[CHOOSE k \in 1..Len(mocks) :
          /\ mocks[k].when = function
          /\ \A j \in 1..(k - 1) : mocks[j].when # function].then

HandleMockStub ==
  /\ frame'.fn \notin {"MessageToDebugger", "detachTarget"} /\ ~isTimeout
  /\ IF HasMock(frame'.fn)
     THEN /\ todo' = <<Op("reduce", getThen(frame'.fn), FALSE), ContinueOp(TRUE)>>
          /\ testNotFinYet' = TRUE
     ELSE /\ todo' = <<ContinueOp(TRUE)>>
          /\ testNotFinYet' = FALSE
  /\ UNCHANGED <<mocks, isTimeout>>

(* The loop takes the latest frame; without one it waits for the next.     *)
TakeFrame ==
  /\ mode = "testing" /\ todo = << >> /\ waits["main"] = "no"
  /\ frame = NoFrame /\ stopFrames # << >>
  /\ frame' = stopFrames[Len(stopFrames)]
  /\ stopFrames' = SubSeq(stopFrames, 1, Len(stopFrames) - 1)
  /\ handled' = Append(handled, frame')
  /\ HandleMessage \/ HandleDetach \/ HandleTimeout \/ HandleMockStub
  /\ UNCHANGED <<mode, analysed, timeouts, targetVars, breakpoints, toGdb, fromGdb,
                 decoderVars, values, dumps, waits, stops>>

(* The condition of the loop, once a stop has been handled. *)
EndOfLoop ==
  /\ mode = "testing" /\ todo = << >> /\ frame # NoFrame
  /\ frame' = NoFrame
  /\ mode' = IF \/ frame.fn = "MessageToDebugger"
                     /\ program[frame.step].kind # "finishAllTest"
                \/ testNotFinYet
             THEN "testing" ELSE "ended"
  /\ UNCHANGED <<todo, testNotFinYet, isTimeout, mocks, handled, analysed, timeouts>>
  /\ UNCHANGED sessionVars
-----------------------------------------------------------------------------
(* The main thread sends the command of the next operation and waits. *)

MainSends ==
  /\ IsTesting /\ todo # << >>
  /\ Send("main", Head(todo).command, Head(todo).waitForStopped)
  /\ UNCHANGED <<targetVars, breakpoints, fromGdb, decoded, streamVars, stops>>
  /\ UNCHANGED runVars

MainSeesStop == IsTesting /\ SeesStop("main") /\ UNCHANGED runVars

(* The operation at the head of todo is over and next takes its place. *)
Ends(name, next) ==
  /\ IsTesting /\ todo # << >> /\ Head(todo).name = name
  /\ Succeeds("main") \/ Fails("main")
  /\ Returns("main")
  /\ todo' = next \o Tail(todo)
  /\ UNCHANGED <<frame, testNotFinYet, isTimeout, handled, timeouts>>
  /\ UNCHANGED <<targetVars, breakpoints, toGdb, fromGdb, decoderVars, stops>>

TakeValue == values' = IF values = << >> THEN values ELSE Tail(values)

ExecuteEnds == Ends("execute", << >>) /\ UNCHANGED <<streamVars, mode, mocks, analysed>>

EvaluateEnds ==
  /\ Ends("evaluate", << >>)
  /\ TakeValue
  /\ UNCHANGED <<stopFrames, dumps, mode, mocks, analysed>>

(* Mutant: the value of an expression nobody uses stays in the queue. *)
ValueStays ==
  /\ Ends("disabledTests", << >>)
  /\ UNCHANGED <<streamVars, mode, mocks, analysed>>

(* Without a value the host gives up: cleanUpAndExit(-10). *)
DisabledTestsEnds ==
  /\ Ends("disabledTests", << >>)
  /\ TakeValue
  /\ mode' = IF values = << >> THEN "exited" ELSE mode
  /\ UNCHANGED <<stopFrames, dumps, mocks, analysed>>

(* getResultData: where the index is positive the buffer is read.  The     *)
(* value of another expression may count as one.                           *)
MayBePositive ==
  values # << >> /\ (Head(values).of = "test_result_index" => Head(values).positive)
MayBeZero ==
  (values # << >> /\ Head(values).of = "test_result_index") => ~Head(values).positive

(* Without a dump the loop tries buffToSmall; modeFailed does not.         *)
WithoutDump == IF mode = "testing" THEN <<JumpOut("buffToSmall")>> ELSE << >>

ReadIndexEnds ==
  /\ \/ MayBePositive /\ Ends("readIndex", <<ReadDump>>)
     \/ MayBeZero /\ Ends("readIndex", WithoutDump)
  /\ TakeValue
  /\ UNCHANGED <<stopFrames, dumps, mode, mocks, analysed>>

(* Mutant: the dump stays in the queue. *)
DumpStays ==
  /\ \/ dumps # << >> /\ Ends("readDump", << >>)
        /\ analysed' = Append(analysed, Head(dumps))
     \/ dumps = << >> /\ Ends("readDump", WithoutDump)
        /\ UNCHANGED analysed
  /\ UNCHANGED <<streamVars, mode, mocks>>

ReadDumpEnds ==
  /\ \/ dumps # << >> /\ Ends("readDump", << >>)
        /\ analysed' = Append(analysed, Head(dumps)) /\ dumps' = Tail(dumps)
     \/ dumps = << >> /\ Ends("readDump", WithoutDump)
        /\ UNCHANGED <<analysed, dumps>>
  /\ UNCHANGED <<stopFrames, values, mode, mocks>>

(* Mutant: the frame is looked at and stays. *)
FrameStays == UNCHANGED stopFrames

(* jumpOutOfCurrentFunction takes the latest frame, if there is one. *)
TakeLatestFrame ==
  stopFrames' = IF stopFrames = << >> THEN << >>
                ELSE SubSeq(stopFrames, 1, Len(stopFrames) - 1)
Latest == IF stopFrames = << >> THEN NoFrame ELSE stopFrames[Len(stopFrames)]

JumpOutEnds ==
  /\ Ends("jumpOut", << >>)
  /\ TakeLatestFrame
  /\ UNCHANGED <<values, dumps, mode, mocks, analysed>>

(* buffToSmall and addStub use the frame without a test for nullptr, and   *)
(* its arguments without a test for their number.                          *)
Crash(name) ==
  /\ Ends(name, << >>)
  /\ mode' = "crashed"
  /\ UNCHANGED <<streamVars, mocks, analysed>>

BuffToSmallEnds ==
  \/ /\ Latest # NoFrame
     /\ Ends("buffToSmall",
             IF Latest.fn = "addResult" THEN <<EvaluateOp("*res")>> ELSE << >>)
     /\ TakeLatestFrame
     /\ UNCHANGED <<values, dumps, mode, mocks, analysed>>
  \/ Latest = NoFrame /\ Crash("buffToSmall")

Then(s) ==
  IF s.kind = "addStub" THEN Command("-exec-return", s.by) ELSE Command("set $pc", s.by)

AddMockStubEnds(name) ==
  LET registered == program[Latest.step]
  IN  \/ /\ Latest.fn \in {"whenStub", "whenMock"}
         /\ Ends(name, <<InsertBreakpoint(registered.fn)>>)
         /\ mocks' = Append(mocks, [when |-> registered.fn, then |-> Then(registered)])
         /\ TakeLatestFrame
         /\ UNCHANGED <<values, dumps, mode, analysed>>
      \/ Latest.fn \notin {"whenStub", "whenMock"} /\ Crash(name)

(* A command that fails leaves the loop after the next continue.           *)
ReduceEnds ==
  /\ mode = "testing" /\ todo # << >> /\ Head(todo).name = "reduce"
  /\ \/ Succeeds("main") /\ UNCHANGED testNotFinYet
     \/ Fails("main") /\ testNotFinYet' = FALSE
  /\ Returns("main")
  /\ todo' = Tail(todo)
  /\ UNCHANGED <<mode, frame, isTimeout, mocks, handled, analysed, timeouts>>
  /\ UNCHANGED <<targetVars, breakpoints, toGdb, fromGdb, decoderVars, streamVars, stops>>

(* cleanUpAndExit(-11) *)
ExitEnds ==
  /\ Ends("exit", << >>)
  /\ mode' = "exited"
  /\ UNCHANGED <<streamVars, mocks, analysed>>

(* Mutant: the handler does not sleep. *)
RescueAtOnce ==
  \/ Ends("interruptTarget", << >>) /\ UNCHANGED <<streamVars, mode, mocks, analysed>>
  \/ /\ Ends("disconnect", << >>)
     /\ mode' = "rescued"
     /\ UNCHANGED <<streamVars, mocks, analysed>>

(* The handler has slept, and the target is told to stop no more. *)
RescueEnds ==
  \/ /\ todo # << >> /\ Head(todo).name = "interruptTarget"
     /\ Prompt => toGdb = << >> /\ fromGdb = << >> /\ ~interrupted
     /\ Ends("interruptTarget", << >>)
     /\ UNCHANGED <<streamVars, mode, mocks, analysed>>
  \/ /\ Ends("disconnect", << >>)
     /\ mode' = "rescued"
     /\ UNCHANGED <<streamVars, mocks, analysed>>

CommandEnds ==
  \/ ExecuteEnds \/ EvaluateEnds \/ DisabledTestsEnds \/ ReadIndexEnds
  \/ ReadDumpEnds \/ JumpOutEnds
  \/ BuffToSmallEnds \/ AddMockStubEnds("addStub") \/ AddMockStubEnds("addMock")
  \/ ReduceEnds \/ ExitEnds \/ RescueEnds

Main == TakeFrame \/ EndOfLoop \/ MainSends \/ MainSeesStop \/ CommandEnds
-----------------------------------------------------------------------------
(* A signal: its handler runs modeFailed on the main thread, over whatever *)
(* that is waiting for, to rescue the results in the buffer.               *)

modeFailed ==
  <<Op("interruptTarget", Command("interrupt", ""), TRUE)>> \o deleteAllDependencies
  \o <<Execute("set", "breaksMode"), ReadIndex,
       Op("disconnect", Command("set", "-target-disconnect"), FALSE)>>

Signal ==
  /\ Signals /\ mode = "testing"
  /\ mode' = "aborting"
  /\ todo' = modeFailed
  /\ mocks' = << >>
  /\ waits' = [waits EXCEPT !["main"] = "no"]
  /\ UNCHANGED <<targetVars, breakpoints, toGdb, fromGdb, decoderVars, streamVars, stops>>
  /\ UNCHANGED <<frame, testNotFinYet, isTimeout, handled, analysed, timeouts>>

(* The alarm thread does not wait longer than three seconds. *)
AlarmRings ==
  /\ mode = "aborting"
  /\ mode' = "exited"
  /\ UNCHANGED sessionVars
  /\ UNCHANGED <<todo, frame, testNotFinYet, isTimeout, mocks, handled, analysed, timeouts>>

Abort == Signal \/ AlarmRings
-----------------------------------------------------------------------------
(* The timer thread.  The timeout is long enough for everything but a slow *)
(* or an endless test, and for gdb to carry out the interrupt before.      *)

TimerEnds ==
  /\ targetTimeout /\ IsTesting /\ timeouts < MaxTimeouts
  /\ running /\ at <= Len(program) /\ program[at].kind \in {"slow", "hang"}
  /\ ~interrupted /\ toGdb = << >>
  /\ isTimeout' = TRUE
  /\ timeouts' = timeouts + 1
  /\ Send("timer", Command("interrupt", ""), TRUE)
  /\ UNCHANGED <<mode, todo, frame, testNotFinYet, mocks, handled, analysed>>
  /\ UNCHANGED <<targetVars, breakpoints, fromGdb, decoded, streamVars, stops>>

TimerSeesStop == SeesStop("timer") /\ UNCHANGED runVars

InterruptEnds ==
  /\ Succeeds("timer") \/ Fails("timer")
  /\ Returns("timer")
  /\ UNCHANGED <<targetVars, breakpoints, toGdb, fromGdb, decoderVars, streamVars, stops>>
  /\ UNCHANGED runVars

Timer == TimerEnds \/ TimerSeesStop \/ InterruptEnds
-----------------------------------------------------------------------------
Init ==
  /\ SessionInit
  /\ mode = "testing"
  /\ todo = <<ContinueOp(TRUE)>>
  /\ frame = NoFrame /\ testNotFinYet = FALSE
  /\ isTimeout = FALSE /\ mocks = << >>
  /\ handled = << >> /\ analysed = << >> /\ timeouts = 0

Session == (Reader \/ GdbStep \/ TargetStep) /\ UNCHANGED runVars

Next == Main \/ Abort \/ Timer \/ Session

Spec == Init /\ [][Next]_vars

(* Every thread and process is scheduled; only the test code may be slow.  *)
FairSpec ==
  /\ Spec
  /\ WF_vars(Main) /\ WF_vars(Timer)
  /\ WF_vars(Reader /\ UNCHANGED runVars)
  /\ WF_vars(GdbStep /\ UNCHANGED runVars)
  /\ WF_vars(TargetStep /\ UNCHANGED runVars)
-----------------------------------------------------------------------------
(* Properties *)

(* Every stop of the target is handled, once and in the order of the       *)
(* stops, and no frame that is not a stop is taken for one: although       *)
(* getLatestStopFrame takes the last frame and "-exec-return" adds frames   *)
(* of its own.                                                              *)
StopsHandledInOrder == \A k \in 1..Len(handled) : handled[k].stop = k

(* No command that needs a stopped target reaches gdb while the target     *)
(* runs: sendCommand never returns too early.                               *)
NothingRefused == \A k \in 1..Len(fromGdb) : fromGdb[k] # Error

(* storedValues is a queue that outlives the command: it only ever holds   *)
(* the value of the expression the main thread is waiting for.              *)
ValuesAreAwaited ==
  values # << >> =>
    /\ Len(values) = 1 /\ waits["main"] = "done"
    /\ Head(todo).command = Command("-data-evaluate-expression", Head(values).of)

(* The buffer of every message that reports one is analysed once, in order: *)
(* before the loop looks for the next frame, and before the run ends.       *)
Reports(k) ==
  program[k].data /\ program[k].kind \in {"bufferIsFull", "bufferToSmall", "finishAllTest"}
HasBatch(f) == f.fn = "MessageToDebugger" /\ Reports(f.step)
BatchesAnalysed ==
  /\ \A i, j \in 1..Len(analysed) : i < j => analysed[i] < analysed[j]
  /\ \A i \in 1..Len(analysed) :
       \E k \in 1..Len(handled) : HasBatch(handled[k]) /\ handled[k].step = analysed[i]
  /\ \A k \in 1..Len(handled) :
       HasBatch(handled[k]) =>
         \/ \E i \in 1..Len(analysed) : analysed[i] = handled[k].step
         \/ k = Len(handled) /\ todo # << >>

(* Whatever the timing, no buffer is analysed twice or out of order. *)
BatchesOnce == \A i, j \in 1..Len(analysed) : i < j => analysed[i] < analysed[j]

(* A signal may arrive at any time, also between a command and its answer: *)
(* when modeFailed comes to its end without the alarm, or the loop to its  *)
(* own, every batch up to the step the target is in has been analysed.     *)
EndLosesNothing ==
  mode \in {"ended", "rescued"} =>
    \A k \in 1..Len(program) :
      k <= at /\ Reports(k) => \E i \in 1..Len(analysed) : analysed[i] = k

(* The target clears its buffer only when it goes on, so that modeFailed   *)
(* may count a batch the loop has already analysed; that is the only one.  *)
OnlyLastTwice ==
  \A i, j \in 1..Len(analysed) :
    i < j => \/ analysed[i] < analysed[j]
             \/ mode # "testing" /\ analysed[i] = analysed[j]
                /\ i = j - 1 /\ j = Len(analysed)

(* The run ends with finishAllTest and with nothing else: exit code 0 is   *)
(* for runs whose results were all read (GDBManipulator/Readme.md:101-102). *)
EndsWithFinish ==
  mode = "ended" => /\ handled[Len(handled)].fn = "MessageToDebugger"
                    /\ handled[Len(handled)].step = Len(program)

(* What a call of a replaced function executes: the first replacement that *)
(* was added for it after the last deleteAllMocks, or the function itself.  *)
Replacement(k) ==
  LET Deleted == {0} \union {j \in 1..(k - 1) : program[j].kind = "deleteMocks"}
      Added == {j \in 1..(k - 1) :
                  /\ program[j].kind \in {"addStub", "addMock"}
                  /\ program[j].fn = program[k].fn
                  /\ \A d \in Deleted : d < j}
  IN  IF Added = {} THEN program[k].fn
      ELSE program[CHOOSE j \in Added : \A i \in Added : j <= i].by

(* Stubs and mocks are active until deleteAllMocks (eUnit/Readme.md:110):  *)
(* the list of mocks, the breakpoints in gdb and the way a stop is answered *)
(* agree whenever the target calls a function.                              *)
CallsAreReplaced == \A c \in called : c[2] = Replacement(c[1])

(* The host never uses a frame that is not there. *)
NeverCrashes == mode # "crashed"

(* A test run comes to an end, also when a test does not. *)
RunEnds == <>(mode # "testing")
===============================================================================
