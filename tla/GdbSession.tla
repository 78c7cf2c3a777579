------------------------------ MODULE GdbSession ------------------------------
(***************************************************************************)
(* The command channel of the GDBManipulator                               *)
(* (src/GDBManipulator/src/comChain): threads of the host send commands to *)
(* gdb and poll two shared flags until the reader thread has decoded the   *)
(* answer.  gdb and the target are modelled from how the host uses them.   *)
(*                                                                         *)
(* The target runs a program: a sequence of steps, each of which may stop  *)
(* it.  What a test computes between two such steps is left out.           *)
(***************************************************************************)
EXTENDS Integers, Sequences, FiniteSets

CONSTANTS
  Programs,  \* the programs the target may run
  Prompt     \* is the usleep(1000) of sendCommand long enough for the others?

Threads == {"main", "timer"}

(* A step: a message with a buffer that holds results or not, a call of a  *)
(* function, a test that takes long or forever, or detachTarget.           *)
Step == [kind: {"startTesting", "bufferIsFull", "bufferToSmall", "finishAllTest", "addStub",
                "addMock", "deleteMocks", "call", "slow", "hang", "detachTarget"},
         data: BOOLEAN,    \* is test_result_index positive?
         fn: STRING,       \* the function that is called or replaced
         by: STRING]       \* the value or the function it is replaced by

(* The functions a test calls or replaces are those under test, and a stub *)
(* has a value.                                                            *)
ASSUME SessionAssumption ==
  /\ Prompt \in BOOLEAN
  /\ \A p \in Programs :
       /\ p \in Seq(Step) /\ Len(p) > 1
       /\ \A k \in 1..Len(p) :
            /\ p[k].kind = "startTesting" <=> k = 1
            /\ p[k].kind = "finishAllTest" <=> k = Len(p)
            /\ p[k].fn \notin {"MessageToDebugger", "detachTarget", "test"}
            /\ p[k].kind = "addStub" => p[k].by # ""

VARIABLES
  (* the target and gdb *)
  program,       \* what the target runs
  at,            \* the step the target is in, or the next one it will be in
  stack,         \* its functions, innermost first, while it is stopped
  running,
  interrupted,   \* an interrupt is on its way to the target
  cleared,       \* has the host set test_result_index to 0 in this step?
  breakpoints,   \* the functions with a breakpoint
  toGdb,         \* commands gdb has not read yet
  fromGdb,       \* lines the host has not read yet
  (* the host *)
  lastCommand,   \* decoderState::lastCommand1
  debuggerState, \* decoderState::debuggerState1
  decoded,       \* the state and the frame the reader has still to pass on
  stopFrames,    \* gdbOutputStream::stopFrames
  values,        \* valueDecoder::storedValues
  dumps,         \* gdbDecoder::storedMemoryDumps
  waits,         \* where each thread is in sendCommand
  (* history *)
  stops,         \* number of times the target has stopped
  called         \* the calls of the target with what was executed for them

targetVars == <<program, at, stack, running, interrupted, called, cleared>>
streamVars == <<stopFrames, values, dumps>>
decoderVars == <<lastCommand, debuggerState, decoded>>
sessionVars == <<targetVars, breakpoints, toGdb, fromGdb, decoderVars, streamVars,
                 waits, stops>>

(* A frame: the function, the step the target was in and, for the frame of *)
(* a "*stopped", the number of the stop.                                   *)
NoFrame == [fn |-> "", stop |-> 0, step |-> 0]

(* What the reader has decoded of a line and not yet passed on. *)
Nothing == [state |-> "none", frame |-> NoFrame]

Line(msg) == [msg |-> msg, frame |-> NoFrame, values |-> << >>, dumps |-> << >>]
Done == Line("^done")
Error == Line("^error")

Command(do, arg) == [do |-> do, arg |-> arg]
-----------------------------------------------------------------------------
(* sendCommand *)

(* Mutant: the flags of the command before are not reset. *)
SendWithoutReset(t, command, waitForStopped) ==
  /\ waits[t] = "no"
  /\ UNCHANGED <<lastCommand, debuggerState>>
  /\ toGdb' = Append(toGdb, command)
  /\ waits' = [waits EXCEPT ![t] = IF waitForStopped THEN "stopped" ELSE "done"]

(* The flags are reset and the command is written. *)
Send(t, command, waitForStopped) ==
  /\ waits[t] = "no"
  /\ lastCommand' = "waitForResult"
  /\ debuggerState' = "reset"
  /\ toGdb' = Append(toGdb, command)
  /\ waits' = [waits EXCEPT ![t] = IF waitForStopped THEN "stopped" ELSE "done"]

(* The first loop ends: the state is "stopped". *)
SeesStop(t) ==
  /\ waits[t] = "stopped" /\ debuggerState = "stopped"
  /\ waits' = [waits EXCEPT ![t] = "done"]
  /\ UNCHANGED <<targetVars, breakpoints, toGdb, fromGdb, decoderVars, streamVars, stops>>

(* The timer thread, which polls every 100 microseconds, has seen the      *)
(* flags it waits for.                                                      *)
TimerHasPolled ==
  /\ waits["timer"] = "stopped" => debuggerState # "stopped"
  /\ waits["timer"] = "done" => lastCommand # "done"

(* The second loop ends, and usleep(1000) gives the others some time.      *)
Succeeds(t) ==
  /\ waits[t] = "done" /\ lastCommand = "done"
  /\ Prompt => decoded = Nothing /\ (t = "main" => TimerHasPolled)

(* Either loop ends with an error; sendCommand returns false. *)
Fails(t) == waits[t] # "no" /\ lastCommand = "error"

Returns(t) == waits' = [waits EXCEPT ![t] = "no"]
-----------------------------------------------------------------------------
(* The reader: gdbOutputStream::run with gdbDecoder::analyseLine. *)

(* The flags that are set while a line is decoded. *)
SetFlags(msg) ==
  CASE msg = "^running" -> lastCommand' = "done" /\ debuggerState' = "running"
    [] msg = "*running" -> debuggerState' = "running" /\ UNCHANGED lastCommand
    [] msg = "^done"    -> lastCommand' = "done" /\ UNCHANGED debuggerState
    [] msg = "^error"   -> lastCommand' = "error" /\ UNCHANGED debuggerState
    [] msg = "*stopped" -> debuggerState' = "stopped" /\ UNCHANGED lastCommand

(* The end of decodeSyncMessage sets the state as well; for an error it is *)
(* the state that was read at the start.                                   *)
LateState(msg) ==
  CASE msg = "^running" -> "running"
    [] msg = "^done"    -> "stopped"
    [] msg = "^error"   -> debuggerState
    [] OTHER            -> "none"

(* A line is decoded: values and dumps are stored, then flags are set. *)
DecodeLine ==
  /\ fromGdb # << >> /\ decoded = Nothing
  /\ LET line == Head(fromGdb)
     IN  /\ values' = values \o line.values
         /\ dumps' = dumps \o line.dumps
         /\ SetFlags(line.msg)
         /\ decoded' = [state |-> LateState(line.msg), frame |-> line.frame]
  /\ fromGdb' = Tail(fromGdb)
  /\ UNCHANGED <<targetVars, breakpoints, toGdb, stopFrames, waits, stops>>

SetLateState ==
  /\ decoded.state # "none"
  /\ debuggerState' = decoded.state
  /\ decoded' = [decoded EXCEPT !.state = "none"]
  /\ UNCHANGED <<targetVars, breakpoints, toGdb, fromGdb, lastCommand, stopFrames,
                 values, dumps, waits, stops>>

(* Only then the frame of the line is pushed. *)
PushFrame ==
  /\ decoded.state = "none" /\ decoded.frame # NoFrame
  /\ stopFrames' = Append(stopFrames, decoded.frame)
  /\ decoded' = Nothing
  /\ UNCHANGED <<targetVars, breakpoints, toGdb, fromGdb, lastCommand, debuggerState,
                 values, dumps, waits, stops>>

Reader == DecodeLine \/ SetLateState \/ PushFrame
-----------------------------------------------------------------------------
(* The target. *)

Messages == {"bufferIsFull", "bufferToSmall", "finishAllTest",
             "addStub", "addMock", "deleteMocks"}

(* Who calls MessageToDebugger. *)
Caller(step) ==
  CASE step.kind \in {"bufferIsFull", "bufferToSmall"} -> "addResult"
    [] step.kind = "finishAllTest" -> "eUnitExecuteAllTests"
    [] step.kind = "addStub" -> "whenStub"
    [] step.kind = "addMock" -> "whenMock"
    [] step.kind = "deleteMocks" -> "deleteAllMocks"

(* The functions the target is in when a step has a function to stop in. *)
StackIn(step) ==
  CASE step.kind \in Messages -> <<"MessageToDebugger", Caller(step), "test">>
    [] step.kind = "call" -> <<step.fn, "test">>
    [] step.kind = "detachTarget" -> <<"detachTarget", "test">>
    [] OTHER -> <<"test", "group">>

Stops(functions) ==
  /\ running' = FALSE /\ interrupted' = FALSE
  /\ stack' = functions
  /\ stops' = stops + 1
  /\ fromGdb' = Append(fromGdb, [Line("*stopped") EXCEPT
                   !.frame = [fn |-> Head(functions), stop |-> stops', step |-> at]])
  /\ UNCHANGED <<program, at, called, cleared>>

Proceeds ==
  /\ at' = at + 1
  /\ UNCHANGED <<program, stack, running, interrupted, fromGdb, stops, cleared>>

TargetStep ==
  /\ running /\ at <= Len(program)
  /\ LET step == program[at]
         entry == Head(StackIn(step))
     IN  \/ interrupted /\ Stops(<<"test", "group">>)
         \/ entry \in breakpoints /\ Stops(StackIn(step))
         \/ entry \notin breakpoints /\ step.kind \notin {"hang", "slow"} /\ Proceeds
              /\ called' = IF step.kind = "call" THEN called \union {<<at, step.fn>>}
                           ELSE called
         \/ step.kind = "slow" /\ Proceeds /\ UNCHANGED called
  /\ UNCHANGED <<breakpoints, toGdb, decoderVars, streamVars, waits>>

(* Where the target goes on: after the step it was stopped in, in the code *)
(* it was interrupted in, or after a test it was made to return from.      *)
GoesOn ==
  LET step == program[at]
  IN  CASE stack = <<"test", "group">> -> {at}
        [] stack = <<"group">> /\ step.kind \in {"hang", "slow"} -> (at + 1)..Len(program)
        [] stack = <<"group">> -> at..Len(program)
        [] OTHER -> {at + 1}
-----------------------------------------------------------------------------
(* gdb answers the next command.  While the target runs it refuses every   *)
(* command but interrupt.                                                  *)

Answer(lines) == fromGdb' = fromGdb \o lines

Interrupt ==
  /\ interrupted' = running
  /\ Answer(<<Done>>)
  /\ UNCHANGED <<program, at, stack, running, called, cleared, breakpoints>>

Refuse ==
  /\ running
  /\ Answer(<<Error>>)
  /\ UNCHANGED <<targetVars, breakpoints>>

Continue ==
  /\ ~running
  /\ Answer(<<Line("^running"), Line("*running")>>)
  /\ running' = TRUE
  /\ at' \in GoesOn
  /\ stack' = << >>
  /\ called' = IF program[at].kind = "call" /\ at' = at + 1
               THEN called \union {<<at, Head(stack)>>} ELSE called
  /\ cleared' = FALSE
  /\ UNCHANGED <<program, interrupted, breakpoints>>

(* A call that is returned from with a value counts as executed by that    *)
(* value, which stays on top of the caller.                                *)
ExecReturn(value) ==
  LET outer == IF Len(stack) > 1 THEN Tail(stack) ELSE stack
  IN  /\ ~running
      /\ stack' = IF value = "" THEN outer ELSE <<value>> \o outer
      /\ Answer(<<[Done EXCEPT !.frame = [fn |-> Head(outer), stop |-> 0, step |-> at]]>>)
      /\ UNCHANGED <<program, at, running, interrupted, called, cleared, breakpoints>>

SetProgramCounter(function) ==
  /\ ~running
  /\ stack' = <<function>> \o Tail(stack)
  /\ Answer(<<Done>>)
  /\ UNCHANGED <<program, at, running, interrupted, called, cleared, breakpoints>>

Evaluate(expression) ==
  /\ ~running
  /\ Answer(<<[Done EXCEPT !.values =
                  <<[of |-> expression, positive |-> program[at].data /\ ~cleared]>>]>>)
  /\ UNCHANGED <<targetVars, breakpoints>>

ReadMemory ==
  /\ ~running
  /\ Answer(<<[Done EXCEPT !.dumps = <<at>>]>>)
  /\ UNCHANGED <<targetVars, breakpoints>>

SetBreakpoints(functions) ==
  /\ ~running
  /\ breakpoints' = functions
  /\ Answer(<<Done>>)
  /\ UNCHANGED targetVars

SetVariable(variable) ==
  /\ ~running
  /\ cleared' = (cleared \/ variable = "test_result_index")
  /\ Answer(<<Done>>)
  /\ UNCHANGED <<program, at, stack, running, interrupted, called, breakpoints>>

GdbStep ==
  /\ toGdb # << >> /\ toGdb' = Tail(toGdb)
  /\ LET c == Head(toGdb)
     IN  \/ c.do = "interrupt" /\ Interrupt
         \/ c.do # "interrupt" /\ Refuse
         \/ c.do = "-exec-continue" /\ Continue
         \/ c.do = "-exec-return" /\ ExecReturn(c.arg)
         \/ c.do = "set $pc" /\ SetProgramCounter(c.arg)
         \/ c.do = "-data-evaluate-expression" /\ Evaluate(c.arg)
         \/ c.do = "-data-read-memory-bytes" /\ ReadMemory
         \/ c.do = "-break-insert" /\ SetBreakpoints(breakpoints \union {c.arg})
         \/ c.do = "-break-delete" /\ SetBreakpoints({})
         \/ c.do = "set" /\ SetVariable(c.arg)
  /\ UNCHANGED <<decoderVars, streamVars, waits, stops>>
-----------------------------------------------------------------------------
EUnitBreakpoints == {"MessageToDebugger", "detachTarget"}

(* The session starts when executeMode sends the first continue: the host  *)
(* has removed the frames of the first stop, startTesting.                 *)
SessionInit ==
  /\ program \in Programs
  /\ at = 1 /\ stack = <<"MessageToDebugger", "eUnitExecuteAllTests", "test">>
  /\ running = FALSE /\ interrupted = FALSE /\ cleared = FALSE
  /\ breakpoints = EUnitBreakpoints
  /\ toGdb = << >> /\ fromGdb = << >>
  /\ lastCommand = "done" /\ debuggerState = "stopped"
  /\ decoded = Nothing
  /\ stopFrames = << >> /\ values = << >> /\ dumps = << >>
  /\ waits = [t \in Threads |-> "no"]
  /\ stops = 0 /\ called = {}
=============================================================================
