------------------------------ MODULE HostProgram ------------------------------
(***************************************************************************)
(* What the main thread of the GDBManipulator does before and after the    *)
(* loop of TestRun (src/GDBManipulator/src: main.cpp, runModes, comChain): *)
(* the start-up of the two chains, the three run modes, the script and the *)
(* end.                                                                    *)
(*                                                                         *)
(* One command is sent after the other, so gdb's answer is one step here;  *)
(* GdbSession says when that is so.  The list todo holds what main has     *)
(* still to do: commands, and calls that decide what follows.              *)
(***************************************************************************)
EXTENDS Integers, Sequences, FiniteSets

CONSTANTS
  Options,   \* the command lines
  Targets,   \* the ways the target was compiled
  MaxStops   \* bound on the number of times the target stops

Modes == {"testMode", "runMode", "flashMode"}

(* The options the flow depends on. *)
OptionType ==
  [executionMode: Modes,
   runOnTarget: BOOLEAN,       \* the Arm chain, else the chain of the host
   flashTar: BOOLEAN,
   enabledTestGroups: BOOLEAN, \* is a filter given?
   disabedTestGroups: BOOLEAN,
   gdbScript: BOOLEAN,
   failByFailedTests: BOOLEAN]

TargetType ==
  [testMode: BOOLEAN, bistMode: BOOLEAN, longJump: BOOLEAN, swBreakpoints: BOOLEAN,
   version: 0..7]

ASSUME ProgramAssumption ==
  /\ Options \subseteq OptionType /\ Targets \subseteq TargetType
  /\ \A o \in Options : o.executionMode = "flashMode" => o.flashTar
  /\ MaxStops \in Nat

VARIABLES
  options, target,
  (* main *)
  todo,          \* what main has still to do
  sent,          \* has the first command of todo been sent?
  isOpen,        \* com_gnu_debugger::isOpen
  defines,       \* what getTargetDefines has read
  errors,        \* has the analyser counted an error?
  frame,         \* the frame the loop of runMode has in hand
  exitCode,      \* how the host has ended
  (* decoder, gdb and target *)
  flag,          \* does the shared memory hold "true"?
  lastCommand,   \* decoderState::lastCommand1
  hasStopped,    \* decoderState::debuggerState1 is debuggerHasStopped
  frames,        \* gdbOutputStream::stopFrames
  inferior,      \* "none", "halted", "running" or "detached"
  breakpoints,
  told,          \* the variables of the target the host has set
  (* history *)
  stops,         \* the number of stops
  result         \* of executeAllTest

programVars == <<options, target>>
mainVars == <<todo, sent, isOpen, defines, errors, frame, exitCode>>
decoderVars == <<flag, lastCommand, hasStopped, frames>>
gdbVars == <<inferior, breakpoints, told>>
vars == <<programVars, mainVars, decoderVars, gdbVars, stops, result>>

Alive == 1      \* no exit code of the host
Crashed == 139  \* by SIGSEGV
Aborted == 6    \* an exception nobody catches, and the handler of SIGABRT
gone == exitCode # Alive

(* An operation: a command, what its end is called, and the flags          *)
(* sendCommand waits for; or a call that sends nothing by itself.          *)
Op(name, do, waits) == [name |-> name, do |-> do, waits |-> waits]
Call(name) == Op(name, "", {})
Command(do) == Op("ignored", do, {"done"})       \* the result is not used
Execute(do) == Op("executeCommand", do, {"done"})
-----------------------------------------------------------------------------
(* sendCommand *)

head == todo[1]
Turn == ~gone /\ todo # << >>

Send ==
  /\ Turn /\ head.do # "" /\ isOpen /\ ~sent
  /\ sent' = TRUE
  /\ lastCommand' = "waitForResult" /\ hasStopped' = FALSE
  /\ UNCHANGED <<programVars, todo, isOpen, defines, errors, frame, exitCode, flag, frames,
                 gdbVars, stops, result>>

Succeeds ==
  IF head.do = "" THEN TRUE
  ELSE /\ sent
       /\ "stopped" \in head.waits => hasStopped
       /\ "done" \in head.waits => lastCommand = "done"
(* Mutant: the second loop does not look for an error. *)
FailsBeforeStop ==
  /\ head.do # ""
  /\ ~isOpen \/ (sent /\ lastCommand = "error" /\ "stopped" \in head.waits)
Fails == head.do # "" /\ (~isOpen \/ (sent /\ lastCommand = "error"))

(* An operation ends and what follows takes its place. *)
Ends(name, next) ==
  /\ Turn /\ head.name = name
  /\ todo' = next \o Tail(todo)
  /\ sent' = FALSE

Exits(n) == exitCode' = n

Elsewhere == UNCHANGED <<programVars, gdbVars, stops>>
DecoderStays == UNCHANGED decoderVars
MainStays == UNCHANGED <<isOpen, defines, errors, exitCode, result, frame>>
-----------------------------------------------------------------------------
(* gdb: the effect of a command on the target, and its answer. *)

(* EUNIT_TARGET_MODE as the target stores it, and as the host reads it. *)
Bit(b, weight) == IF b THEN weight ELSE 0
EUNIT_TARGET_MODE ==
  Bit(target.testMode, 1) + Bit(target.bistMode, 2) + Bit(target.longJump, 4)
  + Bit(target.swBreakpoints, 8) + target.version * 32

NoDefines == [testMode |-> FALSE, swBreakpoints |-> FALSE, version |-> 0]
IsSet(s, weight) == (s \div weight) % 2 = 1
(* Mutant: the version is taken from the bit below. *)
ShiftedByFour(s) ==
  [testMode |-> IsSet(s, 1), swBreakpoints |-> IsSet(s, 8), version |-> s \div 16]
TargetDefines(s) ==
  [testMode |-> IsSet(s, 1), swBreakpoints |-> IsSet(s, 8), version |-> s \div 32]

(* What gdb may refuse: there is no server, no such symbol, nothing to     *)
(* write to, nothing to disconnect from; a script holds any command.       *)
MayFail(do) ==
  do \in {"target-select", "load", "defines", "-target-disconnect", "-target-detach",
          "-exec-interrupt", "-exec-return", "script"}

NeedsHalted(do) ==
  do \in {"-exec-continue", "-exec-return", "set $pc", "set $pc +=2", "level",
          "optInTestGroups", "optOutTestGroups"}

(* ^error: while the host fails silently, decodeSyncMessage sets           *)
(* lastCommand to whatever its local variable holds, and what it returns   *)
(* may look like a failure to decode the line.                             *)
AnswerError ==
  /\ \/ ~flag /\ lastCommand' = "error" /\ UNCHANGED exitCode
     \/ flag /\ lastCommand' \in {"garbage", "done", "error"} /\ exitCode' \in {exitCode, -2}
  /\ UNCHANGED <<gdbVars, frames, hasStopped>>

Interrupts(do) == do \in {"interrupt", "-exec-interrupt"} /\ inferior = "running"

(* ^done, after which the state is "stopped"; "*stopped" follows where the *)
(* target stops.                                                           *)
AnswerDone(do) ==
  /\ lastCommand' = "done" /\ hasStopped' = TRUE
  /\ told' = IF do \in {"level", "optInTestGroups", "optOutTestGroups"}
             THEN told \union {do} ELSE told
  /\ breakpoints' = IF do \in {"detachTarget", "MessageToDebugger", "printOverGdb"}
                    THEN breakpoints \union {do} ELSE breakpoints
  /\ inferior' = CASE do = "target-select" -> "halted"
                   [] Interrupts(do) -> "halted"
                   [] do \in {"-target-detach", "-target-disconnect"} -> "detached"
                   [] OTHER -> inferior
  /\ frames' \in CASE do = "target-select" -> {frames, Append(frames, "other")}
                   [] Interrupts(do) -> {Append(frames, "other")}
                   [] OTHER -> {frames}
  /\ UNCHANGED exitCode

(* ^running *)
Resume ==
  /\ lastCommand' = "done" /\ hasStopped' = FALSE
  /\ inferior' = "running"
  /\ UNCHANGED <<breakpoints, told, frames, exitCode>>

GdbStep ==
  /\ Turn /\ sent /\ lastCommand = "waitForResult"
  /\ LET do == head.do
         halted == inferior = "halted"
     IN  \/ /\ MayFail(do) \/ (NeedsHalted(do) /\ ~halted)
            /\ AnswerError
         \/ do = "run" /\ Resume
         \/ do = "-exec-continue" /\ halted /\ Resume
         \/ /\ do \notin {"run", "-exec-continue"} /\ (NeedsHalted(do) => halted)
            /\ AnswerDone(do)
  /\ UNCHANGED <<programVars, todo, sent, isOpen, defines, errors, frame, flag, stops,
                 result>>

(* The places the target may stop in: a message, the two functions with a  *)
(* breakpoint, and any other function, with an argument or without.        *)
Places ==
  {"startTesting", "bufferIsFull", "bufferToSmall", "finishAllTest", "other", "noArgument"}
  \union (breakpoints \intersect {"detachTarget", "printOverGdb"})

(* "*stopped", without a frame when the program has ended. *)
TargetStops ==
  /\ Turn /\ inferior = "running" /\ stops < MaxStops
  /\ sent /\ "stopped" \in head.waits /\ lastCommand = "done"
  /\ stops' = stops + 1
  /\ hasStopped' = TRUE
  /\ \/ \E place \in Places : frames' = Append(frames, place) /\ inferior' = "halted"
     \/ frames' = frames /\ inferior' = "none"
  /\ UNCHANGED <<programVars, mainVars, flag, lastCommand, breakpoints, told, result>>
-----------------------------------------------------------------------------
(* Version checks: FeatureCheck.cpp with the table of                      *)
(* eUnitVersionsChecker.cpp.                                               *)

knownVersion == 1
Features == [UseSoftwareBreakpoints |-> [first |-> 1, last |-> -1],
             RunTimeTestFiler |-> [first |-> 0, last |-> -1]]

(* Mutant: unknown versions pass. *)
CheckWithoutKnown(feature, version) ==
  LET f == Features[feature]
  IN  f.first <= version /\ ~(f.last < version /\ f.last > 0)

FeatureSupported(feature, version) ==
  LET f == Features[feature]
  IN  /\ f.first <= version
      /\ ~(f.last < version /\ f.last > 0)
      /\ version <= knownVersion
-----------------------------------------------------------------------------
(* The chains. *)

continueAfterMessage ==
  (IF options.runOnTarget /\ (defines.testMode \/ ~defines.swBreakpoints)
   THEN <<Command("set $pc +=2")>> ELSE << >>)
  \o <<Op("ignored", "-exec-continue", {"done", "stopped"})>>

continueAfterMockStub == Op("ignored", "-exec-continue", {"done", "stopped"})

Ignored ==
  /\ Turn
  /\ Succeeds \/ Fails
  /\ Ends("ignored", << >>)
  /\ DecoderStays /\ MainStays /\ Elsewhere

(* executeCommand: where a command fails the next chain is asked; there is *)
(* none, and its pointer is not tested.                                    *)
ExecuteEnds ==
  /\ Ends("executeCommand", << >>)
  /\ \/ Succeeds /\ UNCHANGED exitCode
     \/ Fails /\ Exits(Crashed)
  /\ UNCHANGED <<isOpen, defines, errors, result, frame>> /\ DecoderStays /\ Elsewhere

initSystem ==
  /\ Ends("initSystem",
          <<Command("-gdb-set mi-async on")>>
          \o (IF options.runOnTarget
              THEN <<Op("connected", "target-select", {"stopped", "done"})>>
              ELSE <<Op("getTargetDefines", "defines", {"done"})>>))
  /\ isOpen' = TRUE
  /\ UNCHANGED <<defines, errors, exitCode, result, frame>> /\ DecoderStays /\ Elsewhere

(* The frame of the connection is removed only when the target is flashed. *)
flashTarget ==
  IF options.flashTar
  THEN <<Command("set_parallelism_mode"), Command("load"), Command("set $pc"),
         Call("removeFrame")>>
  ELSE << >>

(* closeComChain; main goes on after the mode. *)
StartFails ==
  /\ todo' = <<Call("afterMode")>> /\ sent' = FALSE
  /\ isOpen' = FALSE /\ flag' = TRUE /\ errors' = TRUE
  /\ UNCHANGED <<exitCode, defines, result, frame, lastCommand, hasStopped, frames>>

Connected ==
  /\ Turn /\ head.name = "connected"
  /\ \/ /\ Succeeds /\ frames # << >>
        /\ Ends("connected", flashTarget \o <<Op("getTargetDefines", "defines", {"done"})>>)
        /\ DecoderStays /\ MainStays
     \/ /\ Fails \/ (Succeeds /\ frames = << >>)
        /\ IF options.executionMode # "flashMode" THEN StartFails
           ELSE \* the second operand of "&" is evaluated on a closed chain
                /\ todo' = <<Execute("-exec-continue")>> /\ sent' = FALSE
                /\ isOpen' = FALSE
                /\ UNCHANGED <<defines, errors, exitCode, result, frame>> /\ DecoderStays
  /\ Elsewhere

removeFrame ==
  /\ Ends("removeFrame", << >>)
  /\ frames' = SubSeq(frames, 1, Len(frames) - 1)
  /\ UNCHANGED <<flag, lastCommand, hasStopped>> /\ MainStays /\ Elsewhere

(* A value that could not be read counts as 0. *)
getTargetDefines ==
  /\ Turn
  /\ Succeeds \/ Fails
  /\ Ends("getTargetDefines", << >>)
  /\ defines' = IF Fails THEN NoDefines ELSE TargetDefines(EUNIT_TARGET_MODE)
  /\ UNCHANGED <<isOpen, errors, exitCode, result, frame>> /\ DecoderStays /\ Elsewhere

renewEUnitBreakpoints ==
  /\ LET own == IF defines.testMode THEN "MessageToDebugger" ELSE "printOverGdb"
         hardware == IF defines.swBreakpoints THEN << >>
                     ELSE <<Command("detachTarget"), Command(own)>>
         prints == IF defines.testMode THEN << >> ELSE <<Command("printOverGdb")>>
     IN  Ends("renewEUnitBreakpoints", hardware \o prints)
  /\ IF ~defines.swBreakpoints /\ ~FeatureSupported("UseSoftwareBreakpoints", defines.version)
     THEN Exits(-14) ELSE UNCHANGED exitCode
  /\ UNCHANGED <<isOpen, defines, errors, result, frame>> /\ DecoderStays /\ Elsewhere

(* startTestMode of both chains. *)
startTestMode ==
  /\ Turn /\ head.name = "startTestMode"
  /\ \/ ~defines.testMode /\ StartFails
     \/ /\ defines.testMode
        /\ Ends("startTestMode",
                <<Call("renewEUnitBreakpoints"),
                  Op("firstStop", IF options.runOnTarget THEN "-exec-continue" ELSE "run",
                     {"stopped"})>>)
        /\ DecoderStays /\ MainStays
  /\ Elsewhere

(* The first stop has to be startTesting.  The chain of the host reports   *)
(* another with its first argument, which need not exist.                  *)
FirstStop ==
  /\ Turn /\ head.name = "firstStop"
  /\ Succeeds \/ Fails
  /\ LET latest == IF frames = << >> THEN "none" ELSE frames[Len(frames)]
     IN  \/ /\ latest = "startTesting"
            /\ Ends("firstStop", << >>) /\ MainStays
            /\ frames' = << >>   \* this frame and, in executeMode, all others
            /\ UNCHANGED <<flag, lastCommand, hasStopped>>
         \/ /\ latest = "noArgument" /\ ~options.runOnTarget
            /\ Ends("firstStop", << >>) /\ Exits(Aborted)
            /\ UNCHANGED <<isOpen, defines, errors, result, frame>> /\ DecoderStays
         \/ /\ latest # "startTesting"
            /\ latest # "noArgument" \/ options.runOnTarget
            /\ StartFails
  /\ Elsewhere

Chain ==
  \/ Ignored \/ ExecuteEnds \/ initSystem \/ Connected \/ removeFrame \/ getTargetDefines
  \/ renewEUnitBreakpoints \/ startTestMode \/ FirstStop
-----------------------------------------------------------------------------
(* The modes. *)

Filter(given, name) == IF given THEN <<Call(name)>> ELSE << >>

(* Mutant: the target goes on before it is told the level. *)
LevelTooLate ==
  <<Call("initSystem"), Call("startTestMode"), Call("renewEUnitBreakpoints")>>
  \o Filter(options.enabledTestGroups, "optInTestGroups")
  \o Filter(options.disabedTestGroups, "optOutTestGroups")
  \o <<Call("continue"), Command("level"), Call("executeAllTest")>>

testMode ==
  <<Call("initSystem"), Call("startTestMode"), Call("renewEUnitBreakpoints"),
    Command("level")>>
  \o Filter(options.enabledTestGroups, "optInTestGroups")
  \o Filter(options.disabedTestGroups, "optOutTestGroups")
  \o <<Call("continue"), Call("executeAllTest")>>

runMode ==
  <<Call("initSystem"), Call("renewEUnitBreakpoints"), Call("continue"), Call("loop")>>

flashMode == <<Call("initSystem"), Execute("-exec-continue")>>

executeMode ==
  (CASE options.executionMode = "testMode" -> testMode
     [] options.executionMode = "runMode" -> runMode
     [] options.executionMode = "flashMode" -> flashMode) \o <<Call("afterMode")>>

SetFilter(name) ==
  /\ Ends(name, <<Op("fits", "sizeof", {"done"}), Command(name)>>)
  /\ IF ~FeatureSupported("RunTimeTestFiler", defines.version)
     THEN Exits(-14) ELSE UNCHANGED exitCode
  /\ UNCHANGED <<isOpen, defines, errors, result, frame>> /\ DecoderStays /\ Elsewhere

(* A filter that does not fit into the array of the target is not sent.    *)
FilterFits ==
  /\ Turn /\ head.name = "fits"
  /\ Succeeds \/ Fails
  /\ sent' = FALSE
  /\ \/ todo' = Tail(todo) /\ UNCHANGED errors
     \/ todo' = SubSeq(todo, 3, Len(todo)) /\ errors' = TRUE
  /\ UNCHANGED <<isOpen, defines, exitCode, result, frame>> /\ DecoderStays /\ Elsewhere

Continue ==
  /\ Ends("continue", continueAfterMessage)
  /\ DecoderStays /\ MainStays /\ Elsewhere

(* executeAllTest is TestRun.  It ends well, with failed tests or errors,  *)
(* or through cleanUpAndExit.                                              *)
executeAllTest ==
  /\ Ends("executeAllTest", << >>)
  /\ \/ result' = "ok" /\ UNCHANGED <<errors, exitCode>>
     \/ result' = "failed" /\ UNCHANGED <<errors, exitCode>>
     \/ errors' = TRUE /\ (\E n \in {-10, -11} : Exits(n)) /\ UNCHANGED result
  /\ UNCHANGED <<isOpen, defines, frame>> /\ DecoderStays /\ Elsewhere

(* The loop of runMode: the latest frame decides what it does.  Messages   *)
(* about stubs and mocks are handled as in TestRun.                        *)
Messages == {"startTesting", "bufferIsFull", "bufferToSmall", "finishAllTest"}
Handle(place) ==
  CASE place = "startTesting" -> <<Command("level"), Call("continue")>>
    [] place \in {"bufferIsFull", "finishAllTest"} ->
         <<Command("getResultData"), Call("continue")>>
    [] place = "bufferToSmall" ->
         <<Command("getResultData"), Execute("memset"), Command("test_result_index"),
           continueAfterMockStub>>
    [] place = "printOverGdb" -> <<Execute("-exec-return"), continueAfterMockStub>>
    [] place = "detachTarget" ->
         (IF defines.testMode THEN <<Command("breaksMode")>> ELSE << >>)
         \o <<Execute("-target-detach"), Call("detached")>>
    [] OTHER -> <<continueAfterMockStub>>

TakesFrame ==
  /\ Turn /\ head.name = "loop" /\ frames # << >>
  /\ frame' = frames[Len(frames)]
  /\ frames' = SubSeq(frames, 1, Len(frames) - 1)
  /\ Ends("loop", Handle(frame')
                  \o (IF frame' \in Messages \union {"printOverGdb"} THEN <<Call("loop")>>
                      ELSE << >>))
  /\ UNCHANGED <<flag, lastCommand, hasStopped, isOpen, defines, errors, exitCode, result>>
  /\ Elsewhere

(* Without a new frame the one in hand decides whether the loop goes on;   *)
(* in the first round there is none.                                       *)
NoNewFrame ==
  /\ Turn /\ head.name = "loop" /\ frames = << >>
  /\ IF frame = "" THEN Exits(Crashed) ELSE UNCHANGED exitCode
  /\ Ends("loop", IF frame \in Messages THEN <<Call("loop")>> ELSE << >>)
  /\ UNCHANGED <<isOpen, defines, errors, result, frame>> /\ DecoderStays /\ Elsewhere

Detached ==
  /\ Ends("detached", << >>)
  /\ Exits(-11) /\ errors' = TRUE
  /\ UNCHANGED <<isOpen, defines, result, frame>> /\ DecoderStays /\ Elsewhere

Mode ==
  \/ (\E name \in {"optInTestGroups", "optOutTestGroups"} : SetFilter(name)) \/ FilterFits
  \/ Continue \/ executeAllTest \/ TakesFrame \/ NoNewFrame \/ Detached
-----------------------------------------------------------------------------
(* The end of main. *)

(* Mutant: the disconnect goes through executeCommand. *)
DisconnectOrCrash ==
  /\ Ends("afterMode",
          <<Call("failSilent"), Execute("-target-disconnect"), Call("cleanUpAndExit")>>)
  /\ DecoderStays /\ MainStays /\ Elsewhere

(* main after analyseResult. *)
AfterMode ==
  /\ Ends("afterMode",
          (IF options.gdbScript THEN <<Execute("-exec-interrupt"), Execute("script")>>
           ELSE << >>)
          \o <<Call("failSilent")>>
          \o (IF options.executionMode = "testMode" THEN <<Command("-target-disconnect")>>
              ELSE <<Op("ignored", "interrupt", {"done", "stopped"}),
                     Command("-target-detach")>>)
          \o <<Call("cleanUpAndExit")>>)
  /\ DecoderStays /\ MainStays /\ Elsewhere

failSilent ==
  /\ Ends("failSilent", << >>)
  /\ flag' = TRUE
  /\ UNCHANGED <<lastCommand, hasStopped, frames>> /\ MainStays /\ Elsewhere

(* The result of executeMode: run mode is always successful. *)
ModeWasSuccessful ==
  CASE options.executionMode = "testMode" -> result = "ok" /\ ~errors
    [] OTHER -> ~errors

(* Mutant: only failed tests count. *)
ExitWithoutErrors ==
  /\ Ends("cleanUpAndExit", << >>)
  /\ Exits(IF result = "failed" /\ options.failByFailedTests THEN -1 ELSE 0)
  /\ UNCHANGED <<isOpen, defines, errors, result, frame>> /\ DecoderStays /\ Elsewhere

cleanUpAndExit ==
  /\ Ends("cleanUpAndExit", << >>)
  /\ Exits(IF ~ModeWasSuccessful /\ options.failByFailedTests THEN -1 ELSE 0)
  /\ UNCHANGED <<isOpen, defines, errors, result, frame>> /\ DecoderStays /\ Elsewhere

EndOfMain == AfterMode \/ failSilent \/ cleanUpAndExit
-----------------------------------------------------------------------------
Init ==
  /\ options \in Options /\ target \in Targets
  /\ todo = executeMode /\ sent = FALSE
  /\ isOpen = FALSE /\ defines = NoDefines /\ errors = FALSE /\ exitCode = Alive
  /\ frame = ""
  /\ flag = FALSE /\ lastCommand = "done" /\ hasStopped = FALSE /\ frames = << >>
  /\ inferior = "none" /\ breakpoints = {} /\ told = {}
  /\ stops = 0 /\ result = "none"

Main == Send \/ Chain \/ Mode \/ EndOfMain
Next == Main \/ GdbStep \/ TargetStops

Spec == Init /\ [][Next]_vars
FairSpec == Spec /\ WF_vars(Main) /\ WF_vars(GdbStep) /\ WF_vars(TargetStops)
-----------------------------------------------------------------------------
(* Properties *)

TypeOK ==
  /\ options \in Options /\ target \in Targets
  /\ \A k \in 1..Len(todo) : todo[k].waits \subseteq {"done", "stopped"}
  /\ sent \in BOOLEAN /\ isOpen \in BOOLEAN /\ errors \in BOOLEAN /\ flag \in BOOLEAN
  /\ sent => todo # << >> /\ head.do # ""
  /\ defines \in [testMode: BOOLEAN, swBreakpoints: BOOLEAN, version: 0..7]
  /\ exitCode \in {Alive, Crashed, Aborted, 0, -1, -2, -10, -11, -14}
  /\ lastCommand \in {"waitForResult", "done", "error", "garbage"}
  /\ hasStopped \in BOOLEAN
  /\ inferior \in {"none", "halted", "running", "detached"}
  /\ breakpoints \subseteq {"detachTarget", "MessageToDebugger", "printOverGdb"}
  /\ told \subseteq {"level", "optInTestGroups", "optOutTestGroups"}
  /\ stops \in 0..MaxStops /\ result \in {"none", "ok", "failed"}

(* In test mode the target leaves startTesting only when it knows the test *)
(* level, and its filters unless an error was recorded: otherwise it would *)
(* store other data than the analyser expects, or run other tests.         *)
LevelBeforeTests ==
  options.executionMode = "testMode" /\ inferior = "running" /\ stops > 0 =>
    /\ "level" \in told
    /\ ~errors /\ options.enabledTestGroups => "optInTestGroups" \in told
    /\ ~errors /\ options.disabedTestGroups => "optOutTestGroups" \in told

(* Whenever the host lets the target run, other than after flashing, the   *)
(* target is one it can watch: it breaks by itself, or is of a version     *)
(* that is known to work with breakpoints and has those for its messages   *)
(* and for detachTarget.                                                   *)
ObservedRun ==
  inferior = "running" /\ options.executionMode # "flashMode" =>
    \/ target.swBreakpoints
    \/ /\ target.version = 1
       /\ "detachTarget" \in breakpoints
       /\ (IF target.testMode THEN "MessageToDebugger" ELSE "printOverGdb") \in breakpoints

(* A target is refused (-14) only for its version: what the target encodes *)
(* in EUNIT_TARGET_MODE is what the host decodes, if it can be read.       *)
OnlyUnknownRefused ==
  exitCode = -14 =>
    \/ defines = NoDefines
    \/ target.version > 1
    \/ target.version = 0 /\ ~target.swBreakpoints

(* executeCommand follows the null pointer of the next chain when gdb      *)
(* refuses a command or the chain is closed, and SIGSEGV leaves gdb and    *)
(* the server behind.  That needs flash mode, run mode or a script: test   *)
(* mode sends nothing that may be refused that way.                        *)
TestModeNeverCrashes ==
  options.executionMode = "testMode" /\ ~options.gdbScript => exitCode # Crashed

(* With --failgdbManIfOneTestWasNotSuccessfull, exit code 0 is for runs    *)
(* that were started, filtered as asked and successful: "all test-results  *)
(* are read/executed correctly" (GDBManipulator/Readme.md:101-102).        *)
FailureIsReported ==
  exitCode = 0 /\ options.failByFailedTests /\ options.executionMode = "testMode" =>
    /\ result = "ok"
    /\ options.enabledTestGroups => "optInTestGroups" \in told
    /\ options.disabedTestGroups => "optOutTestGroups" \in told

(* Test mode and flash mode end, whatever gdb refuses.  All that can keep  *)
(* main waiting is an ^error while the host fails silently: it leaves      *)
(* lastCommand undefined.                                                  *)
HostEnds ==
  <>(options.executionMode = "runMode" \/ gone \/ (flag /\ lastCommand = "garbage"))
===============================================================================
