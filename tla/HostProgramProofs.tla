--------------------------- MODULE HostProgramProofs ---------------------------
(***************************************************************************)
(* What the host believes about its target, what it does in test mode, and *)
(* in which order: for every set of command lines and every way to compile *)
(* the target that fits into EUNIT_TARGET_MODE.                            *)
(***************************************************************************)
EXTENDS HostProgram, SequenceTheorems, TLAPS

(* The bits of a target, as the host should read them. *)
Compiled ==
  [testMode |-> target.testMode, swBreakpoints |-> target.swBreakpoints,
   version |-> target.version]

(* getTargetDefines undoes what the preprocessor does to EUNIT_TARGET_MODE. *)
LEMMA DecodesWhatIsEncoded ==
  ASSUME target \in TargetType
  PROVE  TargetDefines(EUNIT_TARGET_MODE) = Compiled
<1> DEFINE low == Bit(target.testMode, 1) + Bit(target.bistMode, 2)
                  + Bit(target.longJump, 4) + Bit(target.swBreakpoints, 8)
<1>1. /\ target.testMode \in BOOLEAN /\ target.bistMode \in BOOLEAN
      /\ target.longJump \in BOOLEAN /\ target.swBreakpoints \in BOOLEAN
      /\ target.version \in 0..7
  BY DEF TargetType
<1>2. low \in 0..15 /\ EUNIT_TARGET_MODE = low + target.version * 32
  BY <1>1 DEF Bit, EUNIT_TARGET_MODE
<1>3. EUNIT_TARGET_MODE \div 32 = target.version
  BY <1>1, <1>2
<1>4. IsSet(EUNIT_TARGET_MODE, 1) = target.testMode
  BY <1>1 DEF Bit, EUNIT_TARGET_MODE, IsSet
<1>5. IsSet(EUNIT_TARGET_MODE, 8) = target.swBreakpoints
  BY <1>1 DEF Bit, EUNIT_TARGET_MODE, IsSet
<1> QED BY <1>3, <1>4, <1>5 DEF TargetDefines, Compiled
-----------------------------------------------------------------------------
(* OnlyUnknownRefused alone is not inductive: it needs that the host has   *)
(* either read nothing or what the target was compiled with.               *)
ReadAsCompiled == defines = NoDefines \/ defines = Compiled

RefusalInv == target \in Targets /\ ReadAsCompiled /\ OnlyUnknownRefused

(* Where neither the target's bits nor what was read of them changes, only *)
(* an exit with -14 can disturb the invariant.                             *)
LEMMA OtherStepsKeep ==
  ASSUME RefusalInv, target' = target, defines' = defines,
         exitCode' = exitCode \/ exitCode' # -14
  PROVE  RefusalInv'
BY DEF RefusalInv, ReadAsCompiled, OnlyUnknownRefused, Compiled, NoDefines

(* The two features a target may lack: both refuse no version but those    *)
(* OnlyUnknownRefused names.                                               *)
LEMMA RefusalsAreRight ==
  ASSUME RefusalInv, target' = target, defines' = defines,
         \/ ~defines.swBreakpoints
            /\ ~FeatureSupported("UseSoftwareBreakpoints", defines.version)
         \/ ~FeatureSupported("RunTimeTestFiler", defines.version)
  PROVE  RefusalInv'
<1>1. target \in TargetType
  BY ProgramAssumption DEF RefusalInv
<1>2. target.version \in 0..7 /\ target.swBreakpoints \in BOOLEAN
  BY <1>1 DEF TargetType
<1>3. ReadAsCompiled' /\ target' \in Targets
  BY DEF RefusalInv, ReadAsCompiled, Compiled, NoDefines
<1>4. CASE defines = NoDefines
  BY <1>3, <1>4 DEF RefusalInv, OnlyUnknownRefused, NoDefines
<1>5. CASE defines = Compiled
  <2>1. defines.version = target.version /\ defines.swBreakpoints = target.swBreakpoints
    BY <1>5 DEF Compiled
  <2>2. target.version > 1 \/ (target.version = 0 /\ ~target.swBreakpoints)
    BY <1>2, <2>1 DEF FeatureSupported, Features, knownVersion
  <2> QED BY <1>3, <2>2 DEF RefusalInv, OnlyUnknownRefused
<1> QED BY <1>4, <1>5 DEF RefusalInv, ReadAsCompiled

LEMMA RefusalInit == Init => RefusalInv
BY DEF Init, RefusalInv, ReadAsCompiled, OnlyUnknownRefused, Alive

LEMMA ChainRefuses == RefusalInv /\ Chain => RefusalInv'
<1> SUFFICES ASSUME RefusalInv, Chain PROVE RefusalInv'
  OBVIOUS
<1> USE DEF Elsewhere, MainStays, programVars
<1>1. CASE Ignored
  BY <1>1, OtherStepsKeep DEF Ignored
<1>2. CASE ExecuteEnds
  BY <1>2, OtherStepsKeep DEF ExecuteEnds, Exits, Crashed
<1>3. CASE initSystem
  BY <1>3, OtherStepsKeep DEF initSystem
<1>4. CASE Connected
  BY <1>4, OtherStepsKeep DEF Connected, StartFails
<1>5. CASE removeFrame
  BY <1>5, OtherStepsKeep DEF removeFrame
<1>6. CASE getTargetDefines
  <2>1. target \in TargetType
    BY ProgramAssumption DEF RefusalInv
  <2>2. target' = target /\ exitCode' = Alive
    BY <1>6 DEF getTargetDefines, Turn, gone
  <2>3. defines' = NoDefines \/ defines' = Compiled
    BY <1>6, <2>1, DecodesWhatIsEncoded DEF getTargetDefines
  <2> QED BY <2>2, <2>3
          DEF RefusalInv, ReadAsCompiled, OnlyUnknownRefused, Compiled, NoDefines, Alive
<1>7. CASE renewEUnitBreakpoints
  BY <1>7, OtherStepsKeep, RefusalsAreRight DEF renewEUnitBreakpoints, Exits
<1>8. CASE startTestMode
  BY <1>8, OtherStepsKeep DEF startTestMode, StartFails
<1>9. CASE FirstStop
  BY <1>9, OtherStepsKeep DEF FirstStop, StartFails, Exits, Aborted
<1> QED BY <1>1, <1>2, <1>3, <1>4, <1>5, <1>6, <1>7, <1>8, <1>9 DEF Chain

LEMMA ModeRefuses == RefusalInv /\ Mode => RefusalInv'
<1> SUFFICES ASSUME RefusalInv, Mode PROVE RefusalInv'
  OBVIOUS
<1> USE DEF Elsewhere, MainStays, programVars
<1>1. ASSUME NEW name, SetFilter(name) PROVE RefusalInv'
  BY <1>1, OtherStepsKeep, RefusalsAreRight DEF SetFilter, Exits
<1>2. CASE FilterFits
  BY <1>2, OtherStepsKeep DEF FilterFits
<1>3. CASE Continue
  BY <1>3, OtherStepsKeep DEF Continue
<1>4. CASE executeAllTest
  BY <1>4, OtherStepsKeep DEF executeAllTest, Exits
<1>5. CASE TakesFrame
  BY <1>5, OtherStepsKeep DEF TakesFrame
<1>6. CASE NoNewFrame
  <2>1. target' = target /\ defines' = defines
    BY <1>6 DEF NoNewFrame
  <2>2. exitCode' = exitCode \/ exitCode' = Crashed
    BY <1>6, Zenon DEF NoNewFrame, Exits
  <2> QED BY <2>1, <2>2, OtherStepsKeep DEF Crashed
<1>7. CASE Detached
  BY <1>7, OtherStepsKeep DEF Detached, Exits
<1> QED BY <1>1, <1>2, <1>3, <1>4, <1>5, <1>6, <1>7 DEF Mode

LEMMA EndRefuses == RefusalInv /\ EndOfMain => RefusalInv'
<1> SUFFICES ASSUME RefusalInv, EndOfMain PROVE RefusalInv'
  OBVIOUS
<1> USE DEF Elsewhere, MainStays, programVars
<1>1. CASE AfterMode
  BY <1>1, OtherStepsKeep DEF AfterMode
<1>2. CASE failSilent
  BY <1>2, OtherStepsKeep DEF failSilent
<1>3. CASE cleanUpAndExit
  BY <1>3, OtherStepsKeep DEF cleanUpAndExit, Exits
<1> QED BY <1>1, <1>2, <1>3 DEF EndOfMain

LEMMA RefusalStep == RefusalInv /\ [Next]_vars => RefusalInv'
<1> SUFFICES ASSUME RefusalInv, [Next]_vars PROVE RefusalInv'
  OBVIOUS
<1> USE DEF programVars
<1>1. CASE Send
  BY <1>1, OtherStepsKeep DEF Send
<1>2. CASE Chain \/ Mode \/ EndOfMain
  BY <1>2, ChainRefuses, ModeRefuses, EndRefuses
<1>3. CASE GdbStep
  BY <1>3, OtherStepsKeep DEF GdbStep, AnswerError, AnswerDone, Resume
<1>4. CASE TargetStops
  BY <1>4, OtherStepsKeep DEF TargetStops, mainVars
<1>5. CASE UNCHANGED vars
  BY <1>5, OtherStepsKeep DEF vars, mainVars
<1> QED BY <1>1, <1>2, <1>3, <1>4, <1>5 DEF Next, Main

(* The host refuses no target but those of an unknown version, and those   *)
(* it could not read: the encoding and the decoding of EUNIT_TARGET_MODE   *)
(* agree for every target, and the table of versions for every option.     *)
THEOREM RefusedForVersion == Spec => []OnlyUnknownRefused
<1>1. RefusalInv => OnlyUnknownRefused
  BY DEF RefusalInv
<1> QED BY <1>1, RefusalInit, RefusalStep, PTL DEF Spec
-----------------------------------------------------------------------------
(* Test mode without a script only ever has the following operations to    *)
(* do: none goes through executeCommand, and its loop is executeAllTest.   *)
Names ==
  {"ignored", "initSystem", "connected", "removeFrame", "getTargetDefines",
   "startTestMode", "renewEUnitBreakpoints", "firstStop", "optInTestGroups",
   "optOutTestGroups", "fits", "continue", "executeAllTest", "afterMode", "failSilent",
   "cleanUpAndExit"}
Commands ==
  {"", "-gdb-set mi-async on", "target-select", "set_parallelism_mode", "load", "set $pc",
   "defines", "detachTarget", "MessageToDebugger", "printOverGdb", "run", "-exec-continue",
   "level", "sizeof", "optInTestGroups", "optOutTestGroups", "set $pc +=2",
   "-target-disconnect"}
Flags == {"done", "stopped"}
TestModeOps == [name: Names, do: Commands, waits: SUBSET Flags]

Plain == options.executionMode = "testMode" /\ ~options.gdbScript

SafeInv == Plain => todo \in Seq(TestModeOps) /\ exitCode # Crashed

LEMMA OpIsSafe ==
  ASSUME NEW name \in Names, NEW do \in Commands, NEW waits \in SUBSET Flags
  PROVE  Op(name, do, waits) \in TestModeOps
BY DEF Op, TestModeOps

LEMMA CallIsSafe == ASSUME NEW name \in Names PROVE Call(name) \in TestModeOps
BY OpIsSafe DEF Call, Commands

LEMMA CommandIsSafe == ASSUME NEW do \in Commands PROVE Command(do) \in TestModeOps
BY OpIsSafe DEF Command, Names, Flags

LEMMA SafeOne == ASSUME NEW a \in TestModeOps PROVE <<a>> \in Seq(TestModeOps)
OBVIOUS

LEMMA SafeTwo ==
  ASSUME NEW a \in TestModeOps, NEW b \in TestModeOps PROVE <<a, b>> \in Seq(TestModeOps)
OBVIOUS

LEMMA SafeFour ==
  ASSUME NEW a \in TestModeOps, NEW b \in TestModeOps,
         NEW c \in TestModeOps, NEW d \in TestModeOps
  PROVE  <<a, b, c, d>> \in Seq(TestModeOps)
OBVIOUS

LEMMA SafeNone == << >> \in Seq(TestModeOps)
OBVIOUS

LEMMA SafeConcat ==
  ASSUME NEW s \in Seq(TestModeOps), NEW t \in Seq(TestModeOps)
  PROVE  s \o t \in Seq(TestModeOps)
BY ConcatProperties

(* What an operation leaves to do is safe when what takes its place is. *)
LEMMA SafeEnds ==
  ASSUME todo \in Seq(TestModeOps), NEW name, NEW next \in Seq(TestModeOps),
         Ends(name, next)
  PROVE  todo' \in Seq(TestModeOps)
<1>1. todo # << >> /\ todo' = next \o Tail(todo)
  BY DEF Ends, Turn
<1>2. Tail(todo) \in Seq(TestModeOps)
  BY <1>1, HeadTailProperties
<1> QED BY <1>1, <1>2, SafeConcat

(* The name of what main does next. *)
LEMMA HeadIsSafe ==
  ASSUME todo \in Seq(TestModeOps), Turn PROVE head.name \in Names
<1>1. todo # << >> BY DEF Turn
<1>2. Head(todo) \in TestModeOps /\ Head(todo) = todo[1]
  BY <1>1, HeadTailProperties
<1> QED BY <1>2 DEF head, TestModeOps

LEMMA SafeInit == Init => SafeInv
<1> SUFFICES ASSUME Init, Plain PROVE todo \in Seq(TestModeOps) /\ exitCode # Crashed
  BY DEF SafeInv
<1>1. exitCode = Alive /\ todo = executeMode
  BY DEF Init
<1>2. executeMode = testMode \o <<Call("afterMode")>>
  BY DEF Plain, executeMode
<1> DEFINE start == <<Call("initSystem"), Call("startTestMode"), Call("renewEUnitBreakpoints"),
                      Command("level")>>
           optIn == Filter(options.enabledTestGroups, "optInTestGroups")
           optOut == Filter(options.disabedTestGroups, "optOutTestGroups")
           tests == <<Call("continue"), Call("executeAllTest")>>
           after == <<Call("afterMode")>>
<1>3. /\ Call("initSystem") \in TestModeOps /\ Call("startTestMode") \in TestModeOps
      /\ Call("renewEUnitBreakpoints") \in TestModeOps /\ Command("level") \in TestModeOps
      /\ Call("continue") \in TestModeOps /\ Call("executeAllTest") \in TestModeOps
      /\ Call("afterMode") \in TestModeOps
      /\ Call("optInTestGroups") \in TestModeOps /\ Call("optOutTestGroups") \in TestModeOps
  BY CallIsSafe, CommandIsSafe DEF Names, Commands
<1>4. start \in Seq(TestModeOps) /\ tests \in Seq(TestModeOps) /\ after \in Seq(TestModeOps)
  BY <1>3
<1>5. optIn \in Seq(TestModeOps) /\ optOut \in Seq(TestModeOps)
  BY <1>3 DEF Filter
<1>6. testMode = ((start \o optIn) \o optOut) \o tests
  BY DEF testMode
<1> HIDE DEF start, optIn, optOut, tests, after
<1>7. testMode \o after \in Seq(TestModeOps)
  BY <1>4, <1>5, <1>6, SafeConcat
<1> QED BY <1>1, <1>2, <1>7 DEF after, Alive, Crashed

LEMMA SafeStep ==
  ASSUME SafeInv, options' = options,
         Plain => todo' \in Seq(TestModeOps) /\ exitCode' # Crashed
  PROVE  SafeInv'
BY DEF SafeInv, Plain

LEMMA ChainIsSafe ==
  ASSUME todo \in Seq(TestModeOps), exitCode # Crashed, Plain, Chain
  PROVE  todo' \in Seq(TestModeOps) /\ exitCode' # Crashed
<1>1. \A name \in Names : Call(name) \in TestModeOps
  BY CallIsSafe
<1>2. \A do \in Commands : Command(do) \in TestModeOps
  BY CommandIsSafe
<1>3. \A name \in Names, do \in Commands, waits \in SUBSET Flags :
        Op(name, do, waits) \in TestModeOps
  BY OpIsSafe
<1>4. << >> \in Seq(TestModeOps) /\ \A a \in TestModeOps : <<a>> \in Seq(TestModeOps)
  BY SafeNone, SafeOne
<1>5. \A s, t \in Seq(TestModeOps) : s \o t \in Seq(TestModeOps)
  BY SafeConcat
<1>6. StartFails => todo' \in Seq(TestModeOps) /\ exitCode' = exitCode
  BY <1>1, <1>4 DEF StartFails, Names
<1>7. CASE Ignored
  BY <1>7, <1>4, SafeEnds DEF Ignored, MainStays
<1>8. CASE ExecuteEnds
  BY <1>8, HeadIsSafe DEF ExecuteEnds, Ends, Names
<1>9. CASE initSystem
  <2> DEFINE first == <<Command("-gdb-set mi-async on")>>
             connects == IF options.runOnTarget
                         THEN <<Op("connected", "target-select", {"stopped", "done"})>>
                         ELSE <<Op("getTargetDefines", "defines", {"done"})>>
  <2>1. first \in Seq(TestModeOps)
    BY <1>2, <1>4 DEF Commands
  <2>2. connects \in Seq(TestModeOps)
    BY <1>3, <1>4 DEF Names, Commands, Flags
  <2>3. Ends("initSystem", first \o connects) /\ exitCode' = exitCode
    BY <1>9 DEF initSystem
  <2> HIDE DEF first, connects
  <2> QED BY <2>1, <2>2, <2>3, <1>5, SafeEnds
<1>10. CASE Connected
  <2> DEFINE reads == <<Op("getTargetDefines", "defines", {"done"})>>
  <2>1. reads \in Seq(TestModeOps)
    BY <1>3, <1>4 DEF Names, Commands, Flags
  <2>2. flashTarget \in Seq(TestModeOps)
    <3>1. /\ Command("set_parallelism_mode") \in TestModeOps
          /\ Command("load") \in TestModeOps /\ Command("set $pc") \in TestModeOps
      BY <1>2 DEF Commands
    <3>2. Call("removeFrame") \in TestModeOps
      BY <1>1 DEF Names
    <3> DEFINE flashes == <<Command("set_parallelism_mode"), Command("load"),
                            Command("set $pc"), Call("removeFrame")>>
    <3>3. flashes \in Seq(TestModeOps)
      BY <3>1, <3>2, SafeFour
    <3>4. flashTarget \in {flashes, << >>}
      BY DEF flashTarget
    <3> HIDE DEF flashes
    <3> QED BY <3>3, <3>4, <1>4
  <2>3. \/ Ends("connected", flashTarget \o reads) /\ exitCode' = exitCode
        \/ StartFails
    BY <1>10 DEF Connected, MainStays, Plain
  <2> HIDE DEF reads
  <2> QED BY <2>1, <2>2, <2>3, <1>5, <1>6, SafeEnds
<1>11. CASE removeFrame
  BY <1>11, <1>4, SafeEnds DEF removeFrame, MainStays
<1>12. CASE getTargetDefines
  BY <1>12, <1>4, SafeEnds DEF getTargetDefines
<1>13. CASE renewEUnitBreakpoints
  <2> DEFINE own == IF defines.testMode THEN "MessageToDebugger" ELSE "printOverGdb"
             hardware == IF defines.swBreakpoints THEN << >>
                         ELSE <<Command("detachTarget"), Command(own)>>
             prints == IF defines.testMode THEN << >> ELSE <<Command("printOverGdb")>>
  <2>1. own \in Commands
    BY DEF Commands
  <2>2. hardware \in Seq(TestModeOps)
    BY <2>1, <1>2, <1>4, SafeTwo DEF Commands
  <2>3. prints \in Seq(TestModeOps)
    BY <1>2, <1>4 DEF Commands
  <2>4. Ends("renewEUnitBreakpoints", hardware \o prints) /\ exitCode' \in {exitCode, -14}
    BY <1>13 DEF renewEUnitBreakpoints, Exits
  <2> HIDE DEF hardware, prints
  <2>5. todo' \in Seq(TestModeOps)
    BY <2>2, <2>3, <2>4, <1>5, SafeEnds
  <2> QED BY <2>4, <2>5 DEF Crashed
<1>14. CASE startTestMode
  <2> DEFINE starts == IF options.runOnTarget THEN "-exec-continue" ELSE "run"
             first == Op("firstStop", starts, {"stopped"})
  <2>1. starts \in Commands
    BY DEF Commands
  <2>2. first \in TestModeOps
    BY <2>1, <1>3 DEF Names, Flags
  <2>3. first \in TestModeOps /\ Call("renewEUnitBreakpoints") \in TestModeOps
    BY <2>2, <1>1 DEF Names
  <2>4. \/ StartFails
        \/ Ends("startTestMode", <<Call("renewEUnitBreakpoints"), first>>)
           /\ exitCode' = exitCode
    BY <1>14 DEF startTestMode, MainStays
  <2> HIDE DEF first
  <2> QED BY <2>3, <2>4, <1>6, SafeTwo, SafeEnds
<1>15. CASE FirstStop
  <2>1. \/ Ends("firstStop", << >>) /\ exitCode' \in {exitCode, Aborted}
        \/ StartFails
    BY <1>15 DEF FirstStop, MainStays, Exits
  <2>2. todo' \in Seq(TestModeOps)
    BY <2>1, <1>4, <1>6, SafeEnds
  <2>3. exitCode' \in {exitCode, Aborted}
    BY <2>1, <1>6
  <2> QED BY <2>2, <2>3 DEF Aborted, Crashed
<1> QED BY <1>7, <1>8, <1>9, <1>10, <1>11, <1>12, <1>13, <1>14, <1>15 DEF Chain

LEMMA ModeIsSafe ==
  ASSUME todo \in Seq(TestModeOps), exitCode # Crashed, Plain, Mode
  PROVE  todo' \in Seq(TestModeOps) /\ exitCode' # Crashed
<1>1. ASSUME NEW name \in {"optInTestGroups", "optOutTestGroups"}, SetFilter(name)
      PROVE  todo' \in Seq(TestModeOps) /\ exitCode' # Crashed
  <2> DEFINE fits == Op("fits", "sizeof", {"done"})
  <2>1. fits \in TestModeOps
    BY OpIsSafe DEF Names, Commands, Flags
  <2>2. Command(name) \in TestModeOps
    BY CommandIsSafe DEF Commands
  <2>3. Ends(name, <<fits, Command(name)>>) /\ exitCode' \in {exitCode, -14}
    BY <1>1 DEF SetFilter, Exits
  <2> HIDE DEF fits
  <2>4. todo' \in Seq(TestModeOps)
    BY <2>1, <2>2, <2>3, SafeTwo, SafeEnds
  <2> QED BY <2>3, <2>4 DEF Crashed
<1>2. CASE FilterFits
  <2>1. todo # << >> /\ exitCode' = exitCode
        /\ (todo' = Tail(todo) \/ todo' = SubSeq(todo, 3, Len(todo)))
    BY <1>2 DEF FilterFits, Turn
  <2>2. Tail(todo) \in Seq(TestModeOps)
    BY <2>1, HeadTailProperties
  <2>3. SubSeq(todo, 3, Len(todo)) \in Seq(TestModeOps)
    <3>1. Len(todo) \in Int /\ \A k \in 3..Len(todo) : todo[k] \in TestModeOps
      OBVIOUS
    <3> QED BY <3>1, SubSeqProperties
  <2> QED BY <2>1, <2>2, <2>3
<1>3. CASE Continue
  <2> DEFINE skip == IF options.runOnTarget /\ (defines.testMode \/ ~defines.swBreakpoints)
                     THEN <<Command("set $pc +=2")>> ELSE << >>
             go == <<Op("ignored", "-exec-continue", {"done", "stopped"})>>
  <2>1. skip \in Seq(TestModeOps)
    BY CommandIsSafe, SafeOne, SafeNone DEF Commands
  <2>2. go \in Seq(TestModeOps)
    BY OpIsSafe, SafeOne DEF Names, Commands, Flags
  <2>3. Ends("continue", skip \o go) /\ exitCode' = exitCode
    BY <1>3 DEF Continue, continueAfterMessage, MainStays
  <2> HIDE DEF skip, go
  <2> QED BY <2>1, <2>2, <2>3, SafeConcat, SafeEnds
<1>4. CASE executeAllTest
  <2>1. todo' \in Seq(TestModeOps)
    BY <1>4, SafeNone, SafeEnds DEF executeAllTest
  <2>2. exitCode' \in {exitCode, -10, -11}
    BY <1>4 DEF executeAllTest, Exits
  <2> QED BY <2>1, <2>2 DEF Crashed
<1>5. CASE TakesFrame \/ NoNewFrame
  BY <1>5, HeadIsSafe DEF TakesFrame, NoNewFrame, Names
<1>6. CASE Detached
  BY <1>6, HeadIsSafe DEF Detached, Ends, Names
<1> QED BY <1>1, <1>2, <1>3, <1>4, <1>5, <1>6 DEF Mode

LEMMA EndIsSafe ==
  ASSUME todo \in Seq(TestModeOps), exitCode # Crashed, Plain, EndOfMain
  PROVE  todo' \in Seq(TestModeOps) /\ exitCode' # Crashed
<1>1. CASE AfterMode
  <2> DEFINE silent == <<Call("failSilent")>>
             ends == <<Command("-target-disconnect")>>
             exits == <<Call("cleanUpAndExit")>>
  <2>1. silent \in Seq(TestModeOps) /\ exits \in Seq(TestModeOps)
    BY CallIsSafe, SafeOne DEF Names
  <2>2. ends \in Seq(TestModeOps)
    BY CommandIsSafe, SafeOne DEF Commands
  <2>3. Ends("afterMode", ((<< >> \o silent) \o ends) \o exits) /\ exitCode' = exitCode
    BY <1>1 DEF AfterMode, MainStays, Plain
  <2> HIDE DEF silent, ends, exits
  <2> QED BY <2>1, <2>2, <2>3, SafeNone, SafeConcat, SafeEnds
<1>2. CASE failSilent
  BY <1>2, SafeNone, SafeEnds DEF failSilent, MainStays
<1>3. CASE cleanUpAndExit
  <2>1. todo' \in Seq(TestModeOps)
    BY <1>3, SafeNone, SafeEnds DEF cleanUpAndExit
  <2>2. exitCode' \in {0, -1}
    BY <1>3 DEF cleanUpAndExit, Exits
  <2> QED BY <2>1, <2>2 DEF Crashed
<1> QED BY <1>1, <1>2, <1>3 DEF EndOfMain

LEMMA SafeNext == SafeInv /\ [Next]_vars => SafeInv'
<1> SUFFICES ASSUME SafeInv, [Next]_vars PROVE SafeInv'
  OBVIOUS
<1>1. CASE Send
  BY <1>1 DEF Send, SafeInv, Plain, programVars
<1>2. CASE Chain \/ Mode \/ EndOfMain
  <2>1. options' = options
    <3> USE DEF Elsewhere, programVars
    <3>1. CASE Chain
      BY <3>1 DEF Chain, Ignored, ExecuteEnds, initSystem, Connected, removeFrame,
         getTargetDefines, renewEUnitBreakpoints, startTestMode, FirstStop
    <3>2. CASE Mode
      BY <3>2 DEF Mode, SetFilter, FilterFits, Continue, executeAllTest, TakesFrame,
         NoNewFrame, Detached
    <3>3. CASE EndOfMain
      BY <3>3 DEF EndOfMain, AfterMode, failSilent, cleanUpAndExit
    <3> QED BY <1>2, <3>1, <3>2, <3>3
  <2>2. Plain => todo' \in Seq(TestModeOps) /\ exitCode' # Crashed
    BY <1>2, ChainIsSafe, ModeIsSafe, EndIsSafe DEF SafeInv
  <2> QED BY <2>1, <2>2, SafeStep
<1>3. CASE GdbStep
  <2>1. todo' = todo /\ options' = options
    BY <1>3 DEF GdbStep, programVars
  <2>2. exitCode' \in {exitCode, -2}
    BY <1>3 DEF GdbStep, AnswerError, AnswerDone, Resume
  <2> QED BY <2>1, <2>2 DEF SafeInv, Plain, Crashed
<1>4. CASE TargetStops
  BY <1>4 DEF TargetStops, SafeInv, Plain, programVars, mainVars
<1>5. CASE UNCHANGED vars
  BY <1>5 DEF SafeInv, Plain, vars, programVars, mainVars
<1> QED BY <1>1, <1>2, <1>3, <1>4, <1>5 DEF Next, Main

(* Test mode without a script never follows the null pointer of the next   *)
(* chain, whatever gdb refuses and wherever the target stops.              *)
THEOREM TestModeIsSafe == Spec => []TestModeNeverCrashes
<1>1. SafeInv => TestModeNeverCrashes
  BY DEF SafeInv, Plain, TestModeNeverCrashes
<1> QED BY <1>1, SafeInit, SafeNext, PTL DEF Spec
-----------------------------------------------------------------------------
(* The order of the start-up in test mode: the target is told its level    *)
(* and its filters before it is resumed.                                   *)

TestMode == options.executionMode = "testMode"

Things == {"level", "optInTestGroups", "optOutTestGroups"}

(* Operations that resume the target after its first stop, that may let it *)
(* run up to its first stop, and that tell it something.                   *)
IsContinue(op) == op.name = "continue" \/ (op.do = "-exec-continue" /\ op.name # "firstStop")
Starts(op) == op.name \in {"initSystem", "connected", "startTestMode", "firstStop"}
Tells(op, x) == op.name = x \/ op.do = x

(* The operations of test mode, with a script. *)
AnyOp ==
  [name: Names \union {"executeCommand"},
   do: Commands \union {"-exec-interrupt", "script"},
   waits: SUBSET Flags]
Shape(op) ==
  /\ "stopped" \in op.waits => op.name \in {"ignored", "connected", "firstStop"} /\ op.do # ""
  /\ op.do # "" => op.name \in {"ignored", "executeCommand", "connected", "getTargetDefines",
                               "firstStop", "fits"}
  /\ op.do \in {"-exec-continue", "run"} => "stopped" \in op.waits
  /\ op.do = "-exec-continue" => op.name \in {"ignored", "firstStop"}
  /\ op.do = "run" => op.name = "firstStop"
  /\ op.do = "target-select" => op.name = "connected"
  /\ op.do \in Things => op.name = "ignored" /\ "done" \in op.waits
OrderOps == {op \in AnyOp : Shape(op)}

(* Those that neither resume, start nor tell, and need no successor. *)
Quiet(op) ==
  /\ ~IsContinue(op) /\ ~Starts(op) /\ op.name # "fits"
  /\ \A x \in Things : ~Tells(op, x)
QuietOps == {op \in OrderOps : Quiet(op)}

Ops == 1..Len(todo)
NoContinue == \A k \in Ops : ~IsContinue(todo[k])
NoStart == \A k \in Ops : ~Starts(todo[k])
-----------------------------------------------------------------------------
(* The invariant. *)

Typed ==
  /\ todo \in Seq(OrderOps)
  /\ inferior \in {"none", "halted", "running", "detached"}
  /\ sent => isOpen /\ todo # << >> /\ head.do # ""

(* Once the target has been resumed, nothing starts it any more but the    *)
(* operation that has just done so.                                        *)
StartsFirst ==
  stops > 0 \/ inferior = "running" =>
    \A k \in Ops : Starts(todo[k]) => k = 1 /\ sent /\ lastCommand # "waitForResult"

(* Nothing starts behind what belongs to a target that has been started. *)
BelongsBehind(op) ==
  op.name \in {"startTestMode", "firstStop"} \/ IsContinue(op) \/ \E x \in Things : Tells(op, x)
StartsBefore ==
  \A j, k \in Ops : j < k /\ BelongsBehind(todo[j]) => ~Starts(todo[k])

(* While the target runs, main waits for its stop and for nothing else. *)
OnlyWaits ==
  inferior = "running" =>
    /\ todo # << >> /\ sent /\ "stopped" \in head.waits
    /\ lastCommand = "done" /\ ~hasStopped

(* A chain that is closed is not used to resume the target. *)
ClosedEnds == ~isOpen => (todo # << >> /\ head.name = "initSystem") \/ NoContinue

FitsFollowed ==
  \A k \in Ops : todo[k].name = "fits" => k < Len(todo) /\ todo[k + 1].do # "level"

(* The target is gone for good. *)
Lost == inferior \in {"none", "detached"} /\ NoStart

(* A target that is told something knows it then, or is gone. *)
ToldOrLost ==
  \A x \in Things :
    todo # << >> /\ head.do = x /\ sent /\ lastCommand # "waitForResult" =>
      x \in told \/ Lost

(* What the target has to know it is told before it is resumed. *)
Needed(x) ==
  /\ x = "optInTestGroups" => options.enabledTestGroups /\ ~errors
  /\ x = "optOutTestGroups" => options.disabedTestGroups /\ ~errors
ToldFirst ==
  \A x \in Things :
    Needed(x) =>
      \/ x \in told \/ Lost
      \/ \A j \in Ops : IsContinue(todo[j]) => \E i \in 1..(j - 1) : Tells(todo[i], x)

KnowsAll == inferior = "running" /\ stops > 0 => \A x \in Things : Needed(x) => x \in told

OrderInv ==
  /\ Typed /\ StartsFirst /\ StartsBefore /\ OnlyWaits /\ ClosedEnds /\ FitsFollowed
  /\ ToldOrLost /\ ToldFirst /\ KnowsAll
-----------------------------------------------------------------------------
(* What an operation becomes, index by index. *)
LEMMA EndsShape ==
  ASSUME todo \in Seq(OrderOps), NEW name, NEW next \in Seq(OrderOps), Ends(name, next)
  PROVE  /\ todo # << >> /\ Len(todo) \in Nat /\ Len(todo) >= 1 /\ Len(next) \in Nat
         /\ todo' \in Seq(OrderOps) /\ ~sent' /\ head.name = name
         /\ Len(todo') = Len(next) + Len(todo) - 1
         /\ \A k \in 1..Len(next) : todo'[k] = next[k]
         /\ \A k \in (Len(next) + 1)..Len(todo') : todo'[k] = todo[k + 1 - Len(next)]
<1>1. todo # << >> /\ todo' = next \o Tail(todo) /\ sent' = FALSE /\ head.name = name
  BY DEF Ends, Turn
<1>2. /\ Tail(todo) \in Seq(OrderOps) /\ Len(Tail(todo)) = Len(todo) - 1
      /\ \A i \in 1..Len(Tail(todo)) : Tail(todo)[i] = todo[i + 1]
  BY <1>1, HeadTailProperties
<1>3. Len(todo) \in Nat /\ Len(next) \in Nat /\ Len(Tail(todo)) \in Nat
  BY <1>2, LenProperties
<1>4. /\ todo' \in Seq(OrderOps) /\ Len(todo') = Len(next) + Len(Tail(todo))
      /\ \A i \in 1..(Len(next) + Len(Tail(todo))) :
           todo'[i] = IF i <= Len(next) THEN next[i] ELSE Tail(todo)[i - Len(next)]
  BY <1>1, <1>2, ConcatProperties
<1>5. \A k \in 1..Len(next) : todo'[k] = next[k]
  BY <1>3, <1>4
<1>6. ASSUME NEW k \in (Len(next) + 1)..Len(todo') PROVE todo'[k] = todo[k + 1 - Len(next)]
  <2>1. k - Len(next) \in 1..Len(Tail(todo)) /\ k \in 1..(Len(next) + Len(Tail(todo)))
    BY <1>3, <1>4
  <2>2. todo'[k] = Tail(todo)[k - Len(next)]
    BY <2>1, <1>3, <1>4
  <2>3. Tail(todo)[k - Len(next)] = todo[(k - Len(next)) + 1]
    BY <2>1, <1>2
  <2>4. (k - Len(next)) + 1 = k + 1 - Len(next)
    BY <1>3
  <2> QED BY <2>2, <2>3, <2>4
<1>7. Len(todo) >= 1
  BY <1>2, <1>3
<1> QED BY <1>1, <1>2, <1>3, <1>4, <1>5, <1>6, <1>7
-----------------------------------------------------------------------------
(* An operation that may take the place of the head: it starts, resumes,   *)
(* or belongs to a started target only if the head did.                    *)
Fits(op) ==
  /\ Starts(op) => Starts(head) /\ ~(stops > 0)
  /\ IsContinue(op) => IsContinue(head)
  /\ BelongsBehind(op) => BelongsBehind(head)
InPlace(next) ==
  /\ \A k \in 1..Len(next) :
       Fits(next[k]) /\ (next[k].name = "fits" => k < Len(next) /\ next[k + 1].do # "level")
  /\ \A j, k \in 1..Len(next) : j < k /\ BelongsBehind(next[j]) => ~Starts(next[k])

(* An operation ends, and what takes its place keeps the order.            *)
LEMMA Replace ==
  ASSUME OrderInv, NEW name, NEW next \in Seq(OrderOps), Ends(name, next), InPlace(next),
         inferior # "running",
         \A x \in Things : Tells(head, x) =>
           (\E i \in 1..Len(next) : Tells(next[i], x)) \/ x \in told \/ Lost \/ NoContinue,
         options' = options, stops' = stops, inferior' = inferior, told' = told,
         errors => errors', isOpen => isOpen', name = "initSystem" => isOpen'
  PROVE  OrderInv'
<1> DEFINE n == Len(next)
           at(k) == k + 1 - n
<1>1. /\ todo # << >> /\ Len(todo) \in Nat /\ Len(todo) >= 1 /\ n \in Nat
      /\ todo' \in Seq(OrderOps) /\ ~sent' /\ head.name = name
      /\ Len(todo') = n + Len(todo) - 1
      /\ \A k \in 1..n : todo'[k] = next[k]
      /\ \A k \in (n + 1)..Len(todo') : todo'[k] = todo[at(k)]
  BY EndsShape DEF OrderInv, Typed
<1> HIDE DEF n
<1>2. /\ Ops' = 1..Len(todo') /\ Len(todo') \in Nat
      /\ \A k \in Ops' : k \in 1..n \/ k \in (n + 1)..Len(todo')
      /\ \A k \in (n + 1)..Len(todo') : at(k) \in Ops /\ at(k) > 1
      /\ \A k \in 1..n : k \in Ops'
  BY <1>1 DEF Ops
<1>3. Typed'
  BY <1>1 DEF OrderInv, Typed
<1>4. \A k \in Ops' :
        \/ k \in 1..n /\ todo'[k] = next[k]
        \/ k \in (n + 1)..Len(todo') /\ todo'[k] = todo[at(k)] /\ at(k) \in Ops /\ at(k) > 1
  BY <1>1, <1>2
<1>5. \A k \in 1..n : Fits(next[k])
  BY DEF InPlace, n
<1>6. StartsFirst'
  <2> SUFFICES ASSUME stops > 0, NEW k \in Ops', Starts(todo'[k]) PROVE FALSE
    BY DEF StartsFirst
  <2>1. CASE k \in 1..n /\ todo'[k] = next[k]
    BY <2>1, <1>5 DEF Fits
  <2>2. CASE todo'[k] = todo[at(k)] /\ at(k) \in Ops /\ at(k) > 1
    BY <2>2 DEF OrderInv, StartsFirst
  <2> QED BY <2>1, <2>2, <1>4
<1>7. StartsBefore'
  <2> SUFFICES ASSUME NEW j \in Ops', NEW k \in Ops', j < k, BelongsBehind(todo'[j]),
                      Starts(todo'[k])
               PROVE  FALSE
    BY DEF StartsBefore
  <2>1. CASE k \in 1..n
    <3>1. j \in 1..n
      BY <2>1, <1>1, <1>2
    <3> QED BY <2>1, <3>1, <1>1 DEF InPlace, n
  <2>2. CASE j \in 1..n /\ k \in (n + 1)..Len(todo')
    <3>1. BelongsBehind(head) /\ 1 \in Ops /\ head = todo[1]
      BY <2>2, <1>1, <1>5 DEF Fits, Ops, head
    <3>2. Starts(todo[at(k)]) /\ at(k) \in Ops /\ at(k) > 1
      BY <2>2, <1>1, <1>2
    <3> QED BY <3>1, <3>2 DEF OrderInv, StartsBefore
  <2>3. CASE j \in (n + 1)..Len(todo') /\ k \in (n + 1)..Len(todo')
    <3>1. /\ BelongsBehind(todo[at(j)]) /\ Starts(todo[at(k)])
          /\ at(j) \in Ops /\ at(k) \in Ops
      BY <2>3, <1>1, <1>2
    <3>2. at(j) < at(k)
      BY <1>1, <1>2
    <3> QED BY <3>1, <3>2 DEF OrderInv, StartsBefore
  <2> QED BY <2>1, <2>2, <2>3, <1>2
<1>8. ClosedEnds'
  <2> SUFFICES ASSUME ~isOpen' PROVE NoContinue'
    BY DEF ClosedEnds
  <2>1. NoContinue
    BY <1>1 DEF OrderInv, ClosedEnds
  <2>2. ~IsContinue(head)
    BY <2>1, <1>1 DEF NoContinue, head, Ops
  <2> SUFFICES ASSUME NEW k \in Ops' PROVE ~IsContinue(todo'[k])
    BY DEF NoContinue
  <2> QED BY <2>1, <2>2, <1>4, <1>5 DEF NoContinue, Fits
<1>9. FitsFollowed'
  <2> SUFFICES ASSUME NEW k \in Ops', todo'[k].name = "fits"
               PROVE  k < Len(todo') /\ todo'[k + 1].do # "level"
    BY DEF FitsFollowed
  <2>1. CASE k \in 1..n
    <3>1. k < n /\ next[k + 1].do # "level"
      BY <2>1, <1>1 DEF InPlace, n
    <3>2. k + 1 \in 1..n /\ k < Len(todo')
      BY <2>1, <3>1, <1>1
    <3> QED BY <3>1, <3>2, <1>1
  <2>2. CASE k \in (n + 1)..Len(todo')
    <3>1. at(k) < Len(todo) /\ todo[at(k) + 1].do # "level"
      BY <2>2, <1>1, <1>2 DEF OrderInv, FitsFollowed
    <3>2. k + 1 \in (n + 1)..Len(todo') /\ at(k) + 1 = at(k + 1) /\ k < Len(todo')
      BY <2>2, <3>1, <1>1
    <3> QED BY <3>1, <3>2, <1>1
  <2> QED BY <2>1, <2>2, <1>2
<1>10. ASSUME Lost PROVE Lost'
  <2>1. ~Starts(head)
    BY <1>1, <1>10 DEF Lost, NoStart, head, Ops
  <2>2. ASSUME NEW k \in Ops' PROVE ~Starts(todo'[k])
    BY <2>1, <1>4, <1>5, <1>10 DEF Lost, NoStart, Fits
  <2> QED BY <2>2, <1>10 DEF Lost, NoStart
<1>11. ToldFirst'
  <2> SUFFICES ASSUME NEW x \in Things, Needed(x)', x \notin told, ~Lost,
                      NEW j \in Ops', IsContinue(todo'[j])
               PROVE  \E i \in 1..(j - 1) : Tells(todo'[i], x)
    BY <1>10 DEF ToldFirst
  <2>1. \A m \in Ops : IsContinue(todo[m]) => \E i \in 1..(m - 1) : Tells(todo[i], x)
    BY DEF OrderInv, ToldFirst, Needed
  <2>2. CASE j \in 1..n /\ todo'[j] = next[j]
    <3>1. IsContinue(head) /\ 1 \in Ops /\ head = todo[1]
      BY <2>2, <1>1, <1>5 DEF Fits, Ops, head
    <3> QED BY <3>1, <2>1
  <2>3. CASE j \in (n + 1)..Len(todo')
    <3>1. IsContinue(todo[at(j)]) /\ at(j) \in Ops
      BY <2>3, <1>1, <1>2
    <3>2. PICK i \in 1..(at(j) - 1) : Tells(todo[i], x)
      BY <3>1, <2>1
    <3>3. CASE i = 1
      <4>1. PICK k \in 1..n : Tells(next[k], x)
        BY <3>1, <3>2, <3>3 DEF n, head, NoContinue
      <4>2. k \in 1..(j - 1) /\ todo'[k] = next[k]
        BY <2>3, <1>1
      <4> QED BY <4>1, <4>2
    <3>4. CASE i > 1
      <4> DEFINE k == i + n - 1
      <4>1. k \in 1..(j - 1) /\ k \in (n + 1)..Len(todo') /\ at(k) = i
        BY <2>3, <3>2, <3>4, <1>1
      <4>2. Tells(todo'[k], x)
        BY <4>1, <3>2, <1>1
      <4> QED BY <4>1, <4>2
    <3> QED BY <3>2, <3>3, <3>4
  <2> QED BY <2>2, <2>3, <1>4
<1>12. OnlyWaits' /\ ToldOrLost' /\ KnowsAll'
  BY <1>1 DEF OnlyWaits, ToldOrLost, KnowsAll
<1> QED BY <1>3, <1>6, <1>7, <1>8, <1>9, <1>11, <1>12 DEF OrderInv
(* The usual case: what follows neither starts, resumes nor tells.         *)
LEMMA ReplaceQuietly ==
  ASSUME OrderInv, NEW name, NEW next \in Seq(QuietOps), Ends(name, next),
         inferior # "running",
         \A x \in Things : Tells(head, x) => x \in told \/ Lost \/ NoContinue,
         options' = options, stops' = stops, inferior' = inferior, told' = told,
         errors => errors', isOpen => isOpen', name # "initSystem"
  PROVE  OrderInv'
<1>1. \A k \in 1..Len(next) : next[k] \in OrderOps /\ Quiet(next[k])
  BY DEF QuietOps
<1>2. next \in Seq(OrderOps)
  BY DEF QuietOps
<1>3. InPlace(next)
  BY <1>1 DEF InPlace, Fits, BelongsBehind, Quiet, Starts
<1> QED BY <1>2, <1>3, Replace

(* What main has to do next. *)
LEMMA HeadTyped ==
  ASSUME OrderInv, todo # << >>
  PROVE  1 \in Ops /\ head = todo[1] /\ head \in OrderOps /\ head \in AnyOp /\ Shape(head)
<1>1. todo \in Seq(OrderOps)
  BY DEF OrderInv, Typed
<1>2. /\ Head(todo) \in OrderOps /\ Head(todo) = todo[1]
      /\ Tail(todo) \in Seq(OrderOps) /\ Len(Tail(todo)) = Len(todo) - 1
  BY <1>1, HeadTailProperties
<1>3. Len(todo) \in Nat /\ Len(Tail(todo)) \in Nat
  BY <1>1, <1>2, LenProperties
<1>4. Len(todo) >= 1
  BY <1>2, <1>3
<1> QED BY <1>2, <1>3, <1>4 DEF head, OrderOps, Ops

(* While the target runs, main can do nothing. *)
LEMMA RunningBlocks ==
  ASSUME OrderInv, Turn, inferior = "running"
  PROVE  head.name \in {"ignored", "connected", "firstStop"} /\ ~Succeeds /\ ~Fails
<1>1. /\ sent /\ isOpen /\ "stopped" \in head.waits /\ lastCommand = "done" /\ ~hasStopped
      /\ head.do # "" /\ head.name \in {"ignored", "connected", "firstStop"}
  BY HeadTyped DEF OrderInv, OnlyWaits, Typed, Turn, Shape
<1> QED BY <1>1 DEF Succeeds, Fails

(* The mode is given up. *)
LEMMA GivingUpKeeps ==
  ASSUME OrderInv, StartFails, inferior # "running",
         options' = options, stops' = stops, inferior' = inferior, told' = told
  PROVE  OrderInv'
<1> DEFINE after == Call("afterMode")
<1>1. after \in OrderOps
  BY DEF Call, Op, OrderOps, AnyOp, Shape, Names, Commands, Things
<1>2. ~Starts(after) /\ ~IsContinue(after) /\ after.name # "fits"
  BY DEF Starts, IsContinue, Call, Op
<1>3. todo' = <<after>> /\ ~sent' /\ errors'
  BY DEF StartFails
<1> HIDE DEF after
<1>4. Len(todo') = 1 /\ todo'[1] = after /\ todo' \in Seq(OrderOps)
  BY <1>1, <1>3
<1>5. Typed'
  BY <1>3, <1>4 DEF OrderInv, Typed
<1>6. \A k \in Ops' : ~Starts(todo'[k]) /\ ~IsContinue(todo'[k]) /\ todo'[k].name # "fits"
  BY <1>2, <1>4 DEF Ops
<1>7. StartsFirst' /\ StartsBefore' /\ ClosedEnds' /\ FitsFollowed' /\ ToldFirst'
  BY <1>6 DEF StartsFirst, StartsBefore, ClosedEnds, NoContinue, FitsFollowed, ToldFirst
<1>8. OnlyWaits' /\ ToldOrLost' /\ KnowsAll'
  BY <1>3 DEF OnlyWaits, ToldOrLost, KnowsAll
<1> QED BY <1>5, <1>7, <1>8 DEF OrderInv

(* A command is sent: its answer is still to come.                         *)
LEMMA SendKeeps ==
  ASSUME OrderInv, Send PROVE OrderInv'
<1>1. /\ todo # << >> /\ head.do # "" /\ isOpen /\ ~sent /\ sent' = TRUE
      /\ lastCommand' = "waitForResult" /\ head' = head
      /\ todo' = todo /\ options' = options /\ isOpen' = isOpen /\ errors' = errors
      /\ inferior' = inferior /\ told' = told /\ stops' = stops
  BY DEF Send, Turn, programVars, gdbVars, head
<1>2. inferior # "running"
  BY <1>1 DEF OrderInv, OnlyWaits
<1>3. Ops' = Ops /\ (NoStart' <=> NoStart) /\ (NoContinue' <=> NoContinue) /\ (Lost' <=> Lost)
  BY <1>1 DEF Ops, NoStart, NoContinue, Lost
<1>4. Typed'
  BY <1>1 DEF OrderInv, Typed
<1>5. StartsFirst'
  BY <1>1, <1>2, <1>3 DEF OrderInv, StartsFirst
<1>6. StartsBefore' /\ FitsFollowed' /\ ClosedEnds'
  BY <1>1, <1>3 DEF OrderInv, StartsBefore, FitsFollowed, ClosedEnds
<1>7. ToldFirst'
  BY <1>1, <1>3 DEF OrderInv, ToldFirst, Needed
<1>8. OnlyWaits' /\ ToldOrLost' /\ KnowsAll'
  BY <1>1, <1>2 DEF OnlyWaits, ToldOrLost, KnowsAll
<1> QED BY <1>4, <1>5, <1>6, <1>7, <1>8 DEF OrderInv
(* gdb and the target do not touch main's list. *)
LEMMA ListStays ==
  ASSUME OrderInv, todo' = todo, sent' = sent, isOpen' = isOpen, options' = options,
         errors' = errors, inferior' \in {"none", "halted", "running", "detached"}
  PROVE  /\ Typed' /\ StartsBefore' /\ ClosedEnds' /\ FitsFollowed'
         /\ head' = head /\ Ops' = Ops /\ (NoStart' <=> NoStart)
         /\ \A x \in Things : Needed(x)' <=> Needed(x)
<1>1. head' = head /\ Ops' = Ops /\ (NoStart' <=> NoStart) /\ (NoContinue' <=> NoContinue)
  BY DEF head, Ops, NoStart, NoContinue
<1>2. Typed'
  BY <1>1 DEF OrderInv, Typed
<1>3. StartsBefore' /\ FitsFollowed' /\ ClosedEnds'
  BY <1>1 DEF OrderInv, StartsBefore, FitsFollowed, ClosedEnds
<1>4. \A x \in Things : Needed(x)' <=> Needed(x)
  BY DEF Needed
<1> QED BY <1>1, <1>2, <1>3, <1>4

(* The target stops: nothing has to be known until it is resumed.          *)
LEMMA TargetStopsKeeps ==
  ASSUME OrderInv, TargetStops PROVE OrderInv'
<1>1. /\ inferior = "running" /\ sent /\ "stopped" \in head.waits /\ lastCommand = "done"
      /\ todo' = todo /\ sent' = sent /\ isOpen' = isOpen /\ options' = options
      /\ errors' = errors /\ told' = told /\ lastCommand' = lastCommand
      /\ inferior' \in {"none", "halted"}
  BY DEF TargetStops, programVars, mainVars
<1>2. /\ Typed' /\ StartsBefore' /\ ClosedEnds' /\ FitsFollowed'
      /\ head' = head /\ Ops' = Ops /\ (NoStart' <=> NoStart)
      /\ \A x \in Things : Needed(x)' <=> Needed(x)
  BY <1>1, ListStays
<1>3. ~Lost
  BY <1>1 DEF Lost
<1>4. StartsFirst'
  BY <1>1, <1>2 DEF OrderInv, StartsFirst
<1>5. ToldOrLost'
  BY <1>1, <1>2, <1>3 DEF OrderInv, ToldOrLost
<1>6. ToldFirst'
  BY <1>1, <1>2, <1>3 DEF OrderInv, ToldFirst
<1>7. OnlyWaits' /\ KnowsAll'
  BY <1>1 DEF OnlyWaits, KnowsAll
<1> QED BY <1>2, <1>4, <1>5, <1>6, <1>7 DEF OrderInv

(* gdb answers.  A command that resumes the target is the first of the     *)
(* list: nothing the target needs can still be to be told.                 *)
LEMMA GdbStepKeeps ==
  ASSUME OrderInv, GdbStep PROVE OrderInv'
<1> DEFINE do == head.do
<1>1. /\ todo # << >> /\ sent /\ lastCommand = "waitForResult" /\ stops' = stops
      /\ todo' = todo /\ sent' = sent /\ isOpen' = isOpen /\ options' = options
      /\ errors' = errors
  BY DEF GdbStep, Turn, programVars
<1>2. inferior # "running" /\ isOpen
  BY <1>1 DEF OrderInv, OnlyWaits, Typed
<1>3. stops > 0 => NoStart
  BY <1>1 DEF OrderInv, StartsFirst, NoStart
<1>4. 1 \in Ops /\ head = todo[1] /\ head \in AnyOp /\ Shape(head)
  BY <1>1, HeadTyped
<1>5. BelongsBehind(head) => \A k \in Ops : Starts(todo[k]) => k = 1
  <2> SUFFICES ASSUME BelongsBehind(head), NEW k \in Ops, Starts(todo[k]), k # 1 PROVE FALSE
    OBVIOUS
  <2>1. Len(todo) \in Nat
    BY LenProperties DEF OrderInv, Typed
  <2>2. 1 < k
    BY <2>1 DEF Ops
  <2> QED BY <2>2, <1>4 DEF OrderInv, StartsBefore
<1>6. inferior \in {"none", "halted", "running", "detached"}
  BY DEF OrderInv, Typed
<1>7. CASE AnswerError /\ (MayFail(do) \/ (NeedsHalted(do) /\ inferior # "halted"))
  <2>1. told' = told /\ inferior' = inferior /\ lastCommand' # "waitForResult"
    BY <1>7 DEF AnswerError, gdbVars
  <2>2. /\ Typed' /\ StartsBefore' /\ ClosedEnds' /\ FitsFollowed'
        /\ head' = head /\ Ops' = Ops /\ (NoStart' <=> NoStart)
        /\ \A x \in Things : Needed(x)' <=> Needed(x)
    BY <1>1, <1>6, <2>1, ListStays
  <2>3. do \in Things => Lost
    <3> SUFFICES ASSUME do \in Things PROVE Lost
      OBVIOUS
    <3>1. ~MayFail(do)
      BY DEF MayFail, Things
    <3>2. inferior \in {"none", "detached"}
      BY <3>1, <1>2, <1>6, <1>7
    <3>3. ~Starts(head) /\ BelongsBehind(head)
      BY <1>4 DEF Shape, Starts, BelongsBehind, Tells
    <3> QED BY <3>2, <3>3, <1>4, <1>5 DEF Lost, NoStart
  <2>4. ToldOrLost'
    BY <2>1, <2>2, <2>3 DEF ToldOrLost, Lost
  <2>5. StartsFirst'
    BY <1>1, <1>2, <1>3, <2>1, <2>2 DEF StartsFirst, NoStart
  <2>6. ToldFirst'
    BY <1>1, <2>1, <2>2 DEF OrderInv, ToldFirst, Lost
  <2>7. OnlyWaits' /\ KnowsAll'
    BY <1>2, <2>1 DEF OnlyWaits, KnowsAll
  <2> QED BY <2>2, <2>4, <2>5, <2>6, <2>7 DEF OrderInv
<1>8. CASE Resume /\ (do = "run" \/ (do = "-exec-continue" /\ inferior = "halted"))
  <2>1. told' = told /\ inferior' = "running" /\ lastCommand' = "done" /\ ~hasStopped'
    BY <1>8 DEF Resume
  <2>2. /\ Typed' /\ StartsBefore' /\ ClosedEnds' /\ FitsFollowed'
        /\ head' = head /\ Ops' = Ops /\ (NoStart' <=> NoStart)
        /\ \A x \in Things : Needed(x)' <=> Needed(x)
    BY <1>1, <2>1, ListStays
  <2>3. "stopped" \in head.waits /\ head.name \in {"ignored", "firstStop"}
    BY <1>4, <1>8 DEF Shape
  <2>4. BelongsBehind(head)
    BY <1>4, <1>8 DEF BelongsBehind, IsContinue, Shape
  <2>5. StartsFirst'
    BY <1>1, <1>5, <2>1, <2>2, <2>4 DEF StartsFirst
  <2>6. OnlyWaits'
    BY <1>1, <2>1, <2>2, <2>3 DEF OnlyWaits
  <2>7. ToldOrLost'
    BY <1>8, <2>2 DEF ToldOrLost, Things
  <2>8. ~Lost
    <3>1. CASE inferior = "halted"
      BY <3>1 DEF Lost
    <3>2. CASE do = "run"
      BY <3>2, <1>4 DEF Shape, Starts, Lost, NoStart
    <3> QED BY <3>1, <3>2, <1>8
  <2>9. ToldFirst'
    BY <1>1, <2>1, <2>2, <2>8 DEF OrderInv, ToldFirst
  <2>10. KnowsAll'
    <3> SUFFICES ASSUME stops > 0, NEW x \in Things, Needed(x) PROVE x \in told
      BY <1>1, <2>1, <2>2 DEF KnowsAll
    <3>1. head.name # "firstStop"
      BY <1>3, <1>4 DEF NoStart, Starts
    <3>2. IsContinue(head)
      BY <3>1, <1>4, <1>8 DEF IsContinue, Shape
    <3>3. ~\E i \in 1..(1 - 1) : Tells(todo[i], x)
      OBVIOUS
    <3> QED BY <3>2, <3>3, <2>8, <1>4 DEF OrderInv, ToldFirst
  <2> QED BY <2>2, <2>5, <2>6, <2>7, <2>9, <2>10 DEF OrderInv
<1>9. CASE AnswerDone(do) /\ do \notin {"run", "-exec-continue"}
  <2>1. /\ told \subseteq told' /\ (do \in Things => do \in told')
        /\ inferior' \in {inferior, "halted", "detached"}
        /\ inferior' = "halted" => inferior = "halted" \/ do = "target-select"
    BY <1>2, <1>9 DEF AnswerDone, Interrupts, Things
  <2>2. /\ Typed' /\ StartsBefore' /\ ClosedEnds' /\ FitsFollowed'
        /\ head' = head /\ Ops' = Ops /\ (NoStart' <=> NoStart)
        /\ \A x \in Things : Needed(x)' <=> Needed(x)
    BY <1>1, <1>6, <2>1, ListStays
  <2>3. Lost => Lost'
    <3>1. do = "target-select" => ~NoStart
      BY <1>4 DEF Shape, Starts, NoStart
    <3> QED BY <3>1, <1>6, <2>1, <2>2 DEF Lost
  <2>4. StartsFirst'
    BY <1>1, <1>2, <1>3, <2>1, <2>2 DEF StartsFirst, NoStart
  <2>5. ToldFirst'
    BY <1>1, <2>1, <2>2, <2>3 DEF OrderInv, ToldFirst
  <2>6. ToldOrLost'
    BY <2>1, <2>2 DEF ToldOrLost
  <2>7. OnlyWaits' /\ KnowsAll'
    BY <1>2, <2>1 DEF OnlyWaits, KnowsAll
  <2> QED BY <2>2, <2>4, <2>5, <2>6, <2>7 DEF OrderInv
<1> QED BY <1>7, <1>8, <1>9 DEF GdbStep
(* A filter that does not fit leaves with the command behind it; from then *)
(* on no filter is needed.                                                 *)
LEMMA SkipKeeps ==
  ASSUME OrderInv, todo # << >>, head.name = "fits", inferior # "running",
         todo' = SubSeq(todo, 3, Len(todo)), ~sent', errors',
         options' = options, stops' = stops, inferior' = inferior, told' = told,
         isOpen' = isOpen
  PROVE  OrderInv'
<1>1. 1 \in Ops /\ head = todo[1] /\ head \in AnyOp /\ Shape(head)
  BY HeadTyped
<1>2. todo \in Seq(OrderOps)
  BY DEF OrderInv, Typed
<1>3. Len(todo) \in Nat
  BY <1>2, LenProperties
<1>4. Len(todo) > 1 /\ todo[2].do # "level"
  BY <1>1 DEF OrderInv, FitsFollowed
<1>5. /\ todo' \in Seq(OrderOps) /\ Len(todo') = Len(todo) - 2
      /\ \A k \in 1..(Len(todo) - 2) : todo'[k] = todo[k + 2]
  <2>1. \A k \in 3..Len(todo) : todo[k] \in OrderOps
    BY <1>2, <1>3, ElementOfSeq
  <2>2. /\ SubSeq(todo, 3, Len(todo)) \in Seq(OrderOps)
        /\ Len(SubSeq(todo, 3, Len(todo))) =
             (IF 3 <= Len(todo) THEN Len(todo) - 3 + 1 ELSE 0)
        /\ \A i \in 1..(Len(todo) - 3 + 1) : SubSeq(todo, 3, Len(todo))[i] = todo[3 + i - 1]
    BY <2>1, <1>3, SubSeqProperties
  <2>3. Len(todo) - 3 + 1 = Len(todo) - 2 /\ (3 > Len(todo) => Len(todo) - 2 = 0)
    <3>1. \A n \in Nat : n > 1 => n - 3 + 1 = n - 2 /\ (3 > n => n - 2 = 0)
      OBVIOUS
    <3> QED BY <3>1, <1>3, <1>4
  <2>4. Len(todo') = Len(todo) - 2 /\ todo' \in Seq(OrderOps)
    BY <2>2, <2>3, <1>3
  <2>5. ASSUME NEW k \in 1..(Len(todo) - 2) PROVE todo'[k] = todo[k + 2]
    <3>1. 3 + k - 1 = k + 2
      BY <1>3
    <3>2. todo'[k] = todo[3 + k - 1]
      BY <2>2, <2>3
    <3> QED BY <3>1, <3>2
  <2> QED BY <2>4, <2>5
<1>6. \A k \in Ops' : k + 2 \in Ops /\ k + 2 > 1 /\ todo'[k] = todo[k + 2]
  BY <1>3, <1>5 DEF Ops
<1>7. Ops' \subseteq Nat /\ \A k \in Ops' : k >= 1 /\ k + 2 <= Len(todo)
  BY <1>3, <1>5 DEF Ops
<1>8. Typed'
  BY <1>5 DEF OrderInv, Typed
<1>9. StartsFirst'
  <2> SUFFICES ASSUME stops > 0, NEW k \in Ops', Starts(todo'[k]) PROVE FALSE
    BY DEF StartsFirst
  <2>1. k + 2 \in Ops /\ k + 2 > 1 /\ Starts(todo[k + 2])
    BY <1>6
  <2> QED BY <2>1 DEF OrderInv, StartsFirst
<1>10. StartsBefore'
  BY <1>6, <1>7 DEF OrderInv, StartsBefore
<1>11. ClosedEnds'
  BY <1>6 DEF OrderInv, ClosedEnds, NoContinue
<1>12. FitsFollowed'
  <2> SUFFICES ASSUME NEW k \in Ops', todo'[k].name = "fits"
               PROVE  k < Len(todo') /\ todo'[k + 1].do # "level"
    BY DEF FitsFollowed
  <2>1. k + 2 < Len(todo) /\ todo[(k + 2) + 1].do # "level"
    BY <1>6 DEF OrderInv, FitsFollowed
  <2>2. k + 1 \in 1..(Len(todo) - 2) /\ (k + 2) + 1 = (k + 1) + 2 /\ k < Len(todo')
    BY <2>1, <1>3, <1>5, <1>7
  <2> QED BY <2>1, <2>2, <1>5
<1>13. Lost => Lost'
  BY <1>6 DEF Lost, NoStart
<1>14. ToldFirst'
  <2> SUFFICES ASSUME NEW x \in Things, Needed(x)', x \notin told, ~Lost,
                      NEW j \in Ops', IsContinue(todo'[j])
               PROVE  \E i \in 1..(j - 1) : Tells(todo'[i], x)
    BY <1>13 DEF ToldFirst
  <2>1. x = "level"
    BY DEF Needed, Things
  <2>2. j + 2 \in Ops /\ IsContinue(todo[j + 2])
    BY <1>6
  <2>3. PICK i \in 1..((j + 2) - 1) : Tells(todo[i], x)
    BY <2>1, <2>2 DEF OrderInv, ToldFirst, Needed
  <2>4. i \in Ops
    BY <2>2, <2>3, <1>3, <1>7 DEF Ops
  <2>5. todo[i] \in AnyOp
    BY <2>4, <1>2, <1>3, ElementOfSeq DEF Ops, OrderOps
  <2>6. todo[i].do = "level"
    BY <2>1, <2>3, <2>5 DEF Tells, AnyOp, Names
  <2>7. i # 1 /\ i # 2
    BY <2>6, <1>1, <1>4 DEF Shape, Things
  <2>8. i - 2 \in 1..(j - 1) /\ i - 2 \in Ops' /\ (i - 2) + 2 = i
    BY <2>3, <2>7, <1>3, <1>5, <1>7 DEF Ops
  <2>9. Tells(todo'[i - 2], x)
    BY <2>3, <2>8, <1>6
  <2> QED BY <2>8, <2>9
<1>15. OnlyWaits' /\ ToldOrLost' /\ KnowsAll'
  BY DEF OnlyWaits, ToldOrLost, KnowsAll
<1> QED BY <1>8, <1>9, <1>10, <1>11, <1>12, <1>14, <1>15 DEF OrderInv
(* Operations that neither start, resume nor tell. *)
LEMMA QuietCalls ==
  /\ \A name \in {"removeFrame", "renewEUnitBreakpoints", "executeAllTest", "afterMode",
                  "failSilent", "cleanUpAndExit"} : Call(name) \in QuietOps
  /\ \A do \in {"-gdb-set mi-async on", "set_parallelism_mode", "load", "set $pc",
                "detachTarget", "MessageToDebugger", "printOverGdb", "set $pc +=2",
                "-target-disconnect"} : Command(do) \in QuietOps
  /\ \A do \in {"-exec-interrupt", "script"} : Execute(do) \in QuietOps
  /\ Op("getTargetDefines", "defines", {"done"}) \in QuietOps
<1> USE DEF Op, QuietOps, OrderOps, AnyOp, Shape, Quiet, IsContinue, Starts, Tells, Things,
            Names, Commands, Flags
<1>1. \A name \in {"removeFrame", "renewEUnitBreakpoints", "executeAllTest", "afterMode",
                  "failSilent", "cleanUpAndExit"} : Call(name) \in QuietOps
  BY DEF Call
<1>2. \A do \in {"-gdb-set mi-async on", "set_parallelism_mode", "load", "set $pc",
                "detachTarget", "MessageToDebugger", "printOverGdb", "set $pc +=2",
                "-target-disconnect"} : Command(do) \in QuietOps
  BY DEF Command
<1>3. \A do \in {"-exec-interrupt", "script"} : Execute(do) \in QuietOps
  BY DEF Execute
<1>4. Op("getTargetDefines", "defines", {"done"}) \in QuietOps
  OBVIOUS
<1> QED BY <1>1, <1>2, <1>3, <1>4

(* Lists of quiet operations. *)
LEMMA QuietOne == ASSUME NEW a \in QuietOps PROVE <<a>> \in Seq(QuietOps)
OBVIOUS

LEMMA QuietTwo ==
  ASSUME NEW a \in QuietOps, NEW b \in QuietOps PROVE <<a, b>> \in Seq(QuietOps)
OBVIOUS

LEMMA QuietFour ==
  ASSUME NEW a \in QuietOps, NEW b \in QuietOps, NEW c \in QuietOps, NEW d \in QuietOps
  PROVE  <<a, b, c, d>> \in Seq(QuietOps)
OBVIOUS

(* Two lists of one operation each, in a row. *)
LEMMA Pair ==
  ASSUME NEW S, NEW a \in S, NEW b \in S PROVE <<a>> \o <<b>> = <<a, b>>
<1>1. <<a>> \in Seq(S) /\ <<b>> \in Seq(S) /\ <<a, b>> \in Seq(S)
  OBVIOUS
<1>2. /\ <<a>> \o <<b>> \in Seq(S) /\ Len(<<a>> \o <<b>>) = Len(<<a>>) + Len(<<b>>)
      /\ \A i \in 1..(Len(<<a>>) + Len(<<b>>)) :
           (<<a>> \o <<b>>)[i] = IF i <= Len(<<a>>) THEN <<a>>[i] ELSE <<b>>[i - Len(<<a>>)]
  BY <1>1, ConcatProperties
<1>3. Len(<<a>>) = 1 /\ Len(<<b>>) = 1 /\ Len(<<a, b>>) = 2
  OBVIOUS
<1>4. (<<a>> \o <<b>>)[1] = a /\ (<<a>> \o <<b>>)[2] = b /\ Len(<<a>> \o <<b>>) = 2
  BY <1>2, <1>3
<1>5. <<a, b>>[1] = a /\ <<a, b>>[2] = b
  OBVIOUS
<1> DEFINE s == <<a>> \o <<b>>
           t == <<a, b>>
<1>6. s \in Seq(S) /\ t \in Seq(S) /\ Len(s) = 2 /\ Len(t) = 2 /\ s[1] = t[1] /\ s[2] = t[2]
  BY <1>1, <1>2, <1>3, <1>4, <1>5
<1> HIDE DEF s, t
<1>7. \A i \in 1..Len(s) : s[i] = t[i]
  BY <1>6
<1>8. s = t
  BY <1>6, <1>7, SeqEqual
<1> QED BY <1>8 DEF s, t

LEMMA QuietNone == << >> \in Seq(QuietOps)
OBVIOUS

LEMMA QuietConcat ==
  ASSUME NEW s \in Seq(QuietOps), NEW t \in Seq(QuietOps)
  PROVE  s \o t \in Seq(QuietOps)
BY ConcatProperties

(* A call that tells nothing; the calls that do are SetFilter. *)
LEMMA CallTellsNothing ==
  ASSUME OrderInv, todo # << >>, NEW x \in Things, Tells(head, x)
  PROVE  head.name = "ignored" \/ head.name = x
BY HeadTyped DEF Tells, Shape

(* While an operation other than the three that wait ends, the target does *)
(* not run.                                                                *)
LEMMA EndsHalted ==
  ASSUME OrderInv, NEW name, NEW next, Ends(name, next),
         name \notin {"ignored", "connected", "firstStop"} \/ Succeeds \/ Fails
  PROVE  inferior # "running" /\ head.name = name /\ todo # << >>
BY RunningBlocks DEF Ends, Turn

(* A step of main whose end is quiet. *)
LEMMA QuietStep ==
  ASSUME OrderInv, NEW name, NEW next \in Seq(QuietOps), Ends(name, next),
         name \notin {"ignored", "connected", "firstStop"} \/ Succeeds \/ Fails,
         name \notin {"ignored", "initSystem"} \union Things,
         options' = options, stops' = stops, inferior' = inferior, told' = told,
         errors => errors', isOpen' = isOpen
  PROVE  OrderInv'
<1>1. inferior # "running" /\ head.name = name /\ todo # << >>
  BY EndsHalted
<1>2. \A x \in Things : ~Tells(head, x)
  BY <1>1, CallTellsNothing
<1> QED BY <1>1, <1>2, ReplaceQuietly

(* Two operations in the place of one. *)
LEMMA TwoInPlace ==
  ASSUME NEW a \in OrderOps, NEW b \in OrderOps, Fits(a), Fits(b), b.name # "fits",
         a.name = "fits" => b.do # "level", BelongsBehind(a) => ~Starts(b)
  PROVE  <<a, b>> \in Seq(OrderOps) /\ InPlace(<<a, b>>)
<1> DEFINE next == <<a, b>>
<1>1. next \in Seq(OrderOps) /\ Len(next) = 2 /\ next[1] = a /\ next[2] = b
  OBVIOUS
<1> HIDE DEF next
<1>2. \A k \in 1..Len(next) : k = 1 \/ k = 2
  BY <1>1
<1>3. InPlace(next)
  BY <1>1, <1>2 DEF InPlace
<1> QED BY <1>1, <1>3 DEF next

(* One operation in the place of another. *)
LEMMA OneInPlace ==
  ASSUME NEW a \in OrderOps, Fits(a), a.name # "fits"
  PROVE  <<a>> \in Seq(OrderOps) /\ InPlace(<<a>>)
<1> DEFINE next == <<a>>
<1>1. next \in Seq(OrderOps) /\ Len(next) = 1 /\ next[1] = a
  OBVIOUS
<1> HIDE DEF next
<1>2. \A k \in 1..Len(next) : k = 1
  BY <1>1
<1>3. InPlace(next)
  BY <1>1, <1>2 DEF InPlace
<1> QED BY <1>1, <1>3 DEF next

(* A quiet operation fits everywhere. *)
LEMMA QuietFits ==
  ASSUME NEW a \in QuietOps
  PROVE  a \in OrderOps /\ Fits(a) /\ ~BelongsBehind(a) /\ ~Starts(a) /\ a.name # "fits"
BY DEF QuietOps, Quiet, Fits, BelongsBehind, Starts

(* The operations of the chains. *)
LEMMA ChainKeeps ==
  ASSUME OrderInv, TestMode, Chain PROVE OrderInv'
<1> USE DEF Elsewhere, programVars, gdbVars
<1>1. CASE Ignored
  <2>1. /\ Succeeds \/ Fails
        /\ Ends("ignored", << >>)
        /\ options' = options /\ stops' = stops /\ inferior' = inferior /\ told' = told
        /\ errors' = errors /\ isOpen' = isOpen
    BY <1>1 DEF Ignored, MainStays
  <2>2. inferior # "running" /\ head.name = "ignored" /\ todo # << >>
    BY <2>1, EndsHalted
  <2>3. \A x \in Things : Tells(head, x) => x \in told \/ Lost \/ NoContinue
    <3> SUFFICES ASSUME NEW x \in Things, Tells(head, x)
                 PROVE  x \in told \/ Lost \/ NoContinue
      OBVIOUS
    <3>1. head.do = x /\ head.do # ""
      BY <2>2, HeadTyped DEF Tells, Things
    <3>2. CASE ~isOpen
      BY <3>2, <2>2 DEF OrderInv, ClosedEnds
    <3>3. CASE sent /\ lastCommand # "waitForResult"
      BY <3>1, <3>3, <2>2 DEF OrderInv, ToldOrLost
    <3>4. ~isOpen \/ (sent /\ lastCommand # "waitForResult")
      BY <2>1, <2>2, <3>1, HeadTyped DEF Shape, Succeeds, Fails
    <3> QED BY <3>2, <3>3, <3>4
  <2> QED BY <2>1, <2>2, <2>3, QuietNone, ReplaceQuietly
<1>2. CASE ExecuteEnds
  <2>1. /\ Ends("executeCommand", << >>)
        /\ options' = options /\ stops' = stops /\ inferior' = inferior /\ told' = told
        /\ errors' = errors /\ isOpen' = isOpen
    BY <1>2 DEF ExecuteEnds
  <2> QED BY <2>1, QuietNone, QuietStep DEF Things
<1>3. CASE initSystem
  <2> DEFINE first == Command("-gdb-set mi-async on")
             connect == Op("connected", "target-select", {"stopped", "done"})
             read == Op("getTargetDefines", "defines", {"done"})
  <2>1. first \in QuietOps /\ read \in QuietOps
    BY QuietCalls
  <2>2. connect \in OrderOps /\ ~BelongsBehind(connect) /\ connect.name # "fits"
    BY DEF Op, OrderOps, AnyOp, Shape, BelongsBehind, IsContinue, Tells, Things, Names,
       Commands, Flags
  <2>3. PICK second \in {connect, read} : Ends("initSystem", <<first>> \o <<second>>)
    BY <1>3 DEF initSystem
  <2> HIDE DEF first, connect, read
  <2>4. first \in OrderOps /\ second \in OrderOps
    BY <2>1, <2>2 DEF QuietOps
  <2>5. Ends("initSystem", <<first, second>>)
    BY <2>3, <2>4, Pair
  <2>6. /\ inferior # "running" /\ head.name = "initSystem" /\ todo # << >>
        /\ \A x \in Things : ~Tells(head, x)
    BY <2>5, EndsHalted, CallTellsNothing DEF Things
  <2>7. Starts(head) /\ ~sent
    BY <2>6, HeadTyped DEF Starts, Shape, OrderInv, Typed
  <2>8. ~(stops > 0)
    BY <2>6, <2>7, HeadTyped DEF OrderInv, StartsFirst
  <2>9. <<first, second>> \in Seq(OrderOps) /\ InPlace(<<first, second>>)
    <3>1. Fits(second) /\ second.name # "fits" /\ ~BelongsBehind(first)
      BY <2>1, <2>2, <2>7, <2>8, QuietFits DEF Fits, BelongsBehind
    <3> QED BY <3>1, <2>1, <2>4, QuietFits, TwoInPlace
  <2> QED BY <1>3, <2>5, <2>6, <2>9, Replace DEF initSystem
<1>4. CASE Connected
  <2> DEFINE reads == <<Op("getTargetDefines", "defines", {"done"})>>
  <2>1. reads \in Seq(QuietOps)
    BY QuietCalls, QuietOne
  <2>2. flashTarget \in Seq(QuietOps)
    <3> DEFINE flashes == <<Command("set_parallelism_mode"), Command("load"),
                            Command("set $pc"), Call("removeFrame")>>
    <3>1. flashes \in Seq(QuietOps)
      BY QuietCalls, QuietFour
    <3>2. flashTarget \in {flashes, << >>}
      BY DEF flashTarget
    <3> HIDE DEF flashes
    <3> QED BY <3>1, <3>2, QuietNone
  <2>3. flashTarget \o reads \in Seq(QuietOps)
    BY <2>1, <2>2, QuietConcat
  <2> HIDE DEF reads
  <2>4. /\ \/ Ends("connected", flashTarget \o reads) /\ Succeeds
              /\ errors' = errors /\ isOpen' = isOpen
           \/ StartFails /\ (Fails \/ Succeeds)
        /\ options' = options /\ stops' = stops /\ inferior' = inferior /\ told' = told
        /\ Turn
    BY <1>4 DEF Connected, MainStays, TestMode, reads
  <2>5. inferior # "running"
    BY <2>4, RunningBlocks
  <2>6. CASE StartFails
    BY <2>4, <2>5, <2>6, GivingUpKeeps
  <2>7. CASE Ends("connected", flashTarget \o reads) /\ Succeeds
             /\ errors' = errors /\ isOpen' = isOpen
    BY <2>3, <2>4, <2>7, QuietStep DEF Things
  <2> QED BY <2>4, <2>6, <2>7
<1>5. CASE removeFrame
  <2>1. /\ Ends("removeFrame", << >>)
        /\ options' = options /\ stops' = stops /\ inferior' = inferior /\ told' = told
        /\ errors' = errors /\ isOpen' = isOpen
    BY <1>5 DEF removeFrame, MainStays
  <2> QED BY <2>1, QuietNone, QuietStep DEF Things
<1>6. CASE getTargetDefines
  <2>1. /\ Ends("getTargetDefines", << >>)
        /\ options' = options /\ stops' = stops /\ inferior' = inferior /\ told' = told
        /\ errors' = errors /\ isOpen' = isOpen
    BY <1>6 DEF getTargetDefines
  <2> QED BY <2>1, QuietNone, QuietStep DEF Things
<1>7. CASE renewEUnitBreakpoints
  <2> DEFINE own == IF defines.testMode THEN "MessageToDebugger" ELSE "printOverGdb"
             hardware == IF defines.swBreakpoints THEN << >>
                         ELSE <<Command("detachTarget"), Command(own)>>
             prints == IF defines.testMode THEN << >> ELSE <<Command("printOverGdb")>>
  <2>1. hardware \in Seq(QuietOps)
    <3>1. Command("detachTarget") \in QuietOps /\ Command(own) \in QuietOps
      BY QuietCalls
    <3> HIDE DEF own
    <3> QED BY <3>1, QuietTwo, QuietNone
  <2>2. prints \in Seq(QuietOps)
    BY QuietCalls, QuietOne, QuietNone
  <2>3. /\ Ends("renewEUnitBreakpoints", hardware \o prints)
        /\ options' = options /\ stops' = stops /\ inferior' = inferior /\ told' = told
        /\ errors' = errors /\ isOpen' = isOpen
    BY <1>7 DEF renewEUnitBreakpoints
  <2> HIDE DEF hardware, prints
  <2>4. hardware \o prints \in Seq(QuietOps)
    BY <2>1, <2>2, QuietConcat
  <2> QED BY <2>3, <2>4, QuietStep DEF Things
<1>8. CASE startTestMode
  <2> DEFINE starts == IF options.runOnTarget THEN "-exec-continue" ELSE "run"
             first == Op("firstStop", starts, {"stopped"})
             renew == Call("renewEUnitBreakpoints")
  <2>1. first \in OrderOps /\ first.name # "fits" /\ ~IsContinue(first)
    BY DEF Op, OrderOps, AnyOp, Shape, IsContinue, Things, Names, Commands, Flags
  <2>2. renew \in QuietOps
    BY QuietCalls
  <2> HIDE DEF first, renew
  <2>3. /\ Turn /\ head.name = "startTestMode"
        /\ \/ StartFails
           \/ Ends("startTestMode", <<renew, first>>) /\ errors' = errors /\ isOpen' = isOpen
        /\ options' = options /\ stops' = stops /\ inferior' = inferior /\ told' = told
    BY <1>8 DEF startTestMode, MainStays, first, renew
  <2>4. inferior # "running" /\ todo # << >>
    BY <2>3, RunningBlocks DEF Turn
  <2>5. CASE StartFails
    BY <2>3, <2>4, <2>5, GivingUpKeeps
  <2>6. CASE Ends("startTestMode", <<renew, first>>) /\ errors' = errors /\ isOpen' = isOpen
    <3>1. Starts(head) /\ ~sent /\ BelongsBehind(head) /\ \A x \in Things : ~Tells(head, x)
      BY <2>3, <2>4, HeadTyped, CallTellsNothing
         DEF Starts, Shape, BelongsBehind, OrderInv, Typed, Things
    <3>2. ~(stops > 0)
      BY <2>4, <3>1, HeadTyped DEF OrderInv, StartsFirst
    <3>3. Fits(first)
      BY <2>1, <3>1, <3>2 DEF Fits
    <3>4. <<renew, first>> \in Seq(OrderOps) /\ InPlace(<<renew, first>>)
      BY <2>1, <2>2, <3>3, QuietFits, TwoInPlace
    <3> QED BY <2>3, <2>4, <2>6, <3>1, <3>4, Replace
  <2> QED BY <2>3, <2>5, <2>6
<1>9. CASE FirstStop
  <2>1. /\ Turn /\ head.name = "firstStop" /\ (Succeeds \/ Fails)
        /\ \/ StartFails
           \/ Ends("firstStop", << >>) /\ errors' = errors /\ isOpen' = isOpen
        /\ options' = options /\ stops' = stops /\ inferior' = inferior /\ told' = told
    BY <1>9 DEF FirstStop, MainStays
  <2>2. inferior # "running"
    BY <2>1, RunningBlocks
  <2>3. CASE StartFails
    BY <2>1, <2>2, <2>3, GivingUpKeeps
  <2>4. CASE Ends("firstStop", << >>) /\ errors' = errors /\ isOpen' = isOpen
    BY <2>1, <2>4, QuietNone, QuietStep DEF Things
  <2> QED BY <2>1, <2>3, <2>4
<1> QED BY <1>1, <1>2, <1>3, <1>4, <1>5, <1>6, <1>7, <1>8, <1>9 DEF Chain

(* The operations of test mode. *)
LEMMA ModeKeeps ==
  ASSUME OrderInv, TestMode, Mode PROVE OrderInv'
<1> USE DEF Elsewhere, programVars, gdbVars
<1>1. ASSUME NEW name \in {"optInTestGroups", "optOutTestGroups"}, SetFilter(name)
      PROVE  OrderInv'
  <2> DEFINE fits == Op("fits", "sizeof", {"done"})
             sets == Command(name)
  <2>1. fits \in OrderOps /\ ~Starts(fits) /\ ~IsContinue(fits) /\ ~BelongsBehind(fits)
    BY DEF Op, OrderOps, AnyOp, Shape, Starts, IsContinue, BelongsBehind, Tells, Things,
       Names, Commands, Flags
  <2>2. /\ sets \in OrderOps /\ ~Starts(sets) /\ ~IsContinue(sets)
        /\ sets.name = "ignored" /\ sets.do = name
    BY DEF Command, Op, OrderOps, AnyOp, Shape, Starts, IsContinue, Things, Names, Commands,
       Flags
  <2> HIDE DEF fits, sets
  <2>3. /\ Ends(name, <<fits, sets>>)
        /\ options' = options /\ stops' = stops /\ inferior' = inferior /\ told' = told
        /\ errors' = errors /\ isOpen' = isOpen
    BY <1>1 DEF SetFilter, fits, sets
  <2>4. inferior # "running" /\ head.name = name /\ todo # << >>
    BY <2>3, EndsHalted
  <2>5. BelongsBehind(head)
    BY <2>4 DEF BelongsBehind, Tells, Things
  <2>6. <<fits, sets>> \in Seq(OrderOps) /\ InPlace(<<fits, sets>>)
    BY <2>1, <2>2, <2>5, TwoInPlace DEF Fits
  <2>7. ASSUME NEW x \in Things, Tells(head, x)
        PROVE  \E i \in 1..Len(<<fits, sets>>) : Tells(<<fits, sets>>[i], x)
    <3>1. x = name
      BY <2>4, <2>7, CallTellsNothing
    <3>2. 2 \in 1..Len(<<fits, sets>>) /\ <<fits, sets>>[2] = sets
      OBVIOUS
    <3> QED BY <3>1, <3>2, <2>2 DEF Tells
  <2> QED BY <2>3, <2>4, <2>6, <2>7, Replace
<1>2. CASE FilterFits
  <2>1. /\ Turn /\ head.name = "fits" /\ ~sent'
        /\ \/ todo' = Tail(todo) /\ errors' = errors
           \/ todo' = SubSeq(todo, 3, Len(todo)) /\ errors'
        /\ options' = options /\ stops' = stops /\ inferior' = inferior /\ told' = told
        /\ isOpen' = isOpen /\ sent' = FALSE
    BY <1>2 DEF FilterFits
  <2>2. inferior # "running" /\ todo # << >>
    BY <2>1, RunningBlocks DEF Turn
  <2>3. CASE todo' = SubSeq(todo, 3, Len(todo)) /\ errors'
    BY <2>1, <2>2, <2>3, SkipKeeps
  <2>4. CASE todo' = Tail(todo) /\ errors' = errors
    <3>1. Tail(todo) \in Seq(OrderOps)
      BY <2>2, HeadTailProperties DEF OrderInv, Typed
    <3>2. << >> \o Tail(todo) = Tail(todo)
      BY <3>1
    <3>3. Ends("fits", << >>)
      BY <2>1, <2>4, <3>2 DEF Ends
    <3> QED BY <2>1, <2>4, <3>3, QuietNone, QuietStep DEF Things
  <2> QED BY <2>1, <2>3, <2>4
<1>3. CASE Continue
  <2> DEFINE skip == Command("set $pc +=2")
             go == Op("ignored", "-exec-continue", {"done", "stopped"})
  <2>1. skip \in QuietOps
    BY QuietCalls
  <2>2. /\ go \in OrderOps /\ ~Starts(go) /\ go.name # "fits"
        /\ \A x \in Things : ~Tells(go, x)
    BY DEF Op, OrderOps, AnyOp, Shape, Starts, Tells, Things, Names, Commands, Flags
  <2> HIDE DEF skip, go
  <2>3. /\ \/ Ends("continue", <<skip>> \o <<go>>)
           \/ Ends("continue", << >> \o <<go>>)
        /\ options' = options /\ stops' = stops /\ inferior' = inferior /\ told' = told
        /\ errors' = errors /\ isOpen' = isOpen
    BY <1>3 DEF Continue, continueAfterMessage, MainStays, skip, go
  <2>4. <<skip>> \o <<go>> = <<skip, go>> /\ << >> \o <<go>> = <<go>>
    BY <2>1, <2>2, Pair DEF QuietOps
  <2>5. inferior # "running" /\ head.name = "continue" /\ todo # << >>
    BY <2>3, EndsHalted
  <2>6. IsContinue(head) /\ BelongsBehind(head) /\ \A x \in Things : ~Tells(head, x)
    BY <2>5, CallTellsNothing DEF IsContinue, BelongsBehind, Things
  <2>7. Fits(go)
    BY <2>2, <2>6 DEF Fits
  <2>8. /\ <<skip, go>> \in Seq(OrderOps) /\ InPlace(<<skip, go>>)
        /\ <<go>> \in Seq(OrderOps) /\ InPlace(<<go>>)
    BY <2>1, <2>2, <2>7, QuietFits, TwoInPlace, OneInPlace
  <2>9. PICK next \in {<<skip, go>>, <<go>>} : Ends("continue", next)
    BY <2>3, <2>4
  <2>10. next \in Seq(OrderOps) /\ InPlace(next)
    BY <2>8
  <2> QED BY <2>3, <2>5, <2>6, <2>9, <2>10, Replace
<1>4. CASE executeAllTest
  <2>1. /\ Ends("executeAllTest", << >>)
        /\ options' = options /\ stops' = stops /\ inferior' = inferior /\ told' = told
        /\ (errors => errors') /\ isOpen' = isOpen
    BY <1>4 DEF executeAllTest
  <2> QED BY <2>1, QuietNone, QuietStep DEF Things
<1>5. CASE TakesFrame \/ NoNewFrame
  <2>1. head.name \in Names \union {"executeCommand"}
    BY <1>5, HeadTyped DEF TakesFrame, NoNewFrame, Turn, AnyOp
  <2> QED BY <1>5, <2>1 DEF TakesFrame, NoNewFrame, Names
<1>6. CASE Detached
  <2>1. head.name \in Names \union {"executeCommand"}
    BY <1>6, HeadTyped DEF Detached, Ends, Turn, AnyOp
  <2> QED BY <1>6, <2>1 DEF Detached, Ends, Names
<1> QED BY <1>1, <1>2, <1>3, <1>4, <1>5, <1>6 DEF Mode

(* The end of main. *)
LEMMA EndKeeps ==
  ASSUME OrderInv, TestMode, EndOfMain PROVE OrderInv'
<1> USE DEF Elsewhere, programVars, gdbVars
<1>1. CASE AfterMode
  <2> DEFINE script == IF options.gdbScript
                       THEN <<Execute("-exec-interrupt"), Execute("script")>> ELSE << >>
             silent == <<Call("failSilent")>>
             ends == <<Command("-target-disconnect")>>
             exits == <<Call("cleanUpAndExit")>>
  <2>1. script \in Seq(QuietOps)
    <3>1. Execute("-exec-interrupt") \in QuietOps /\ Execute("script") \in QuietOps
      BY QuietCalls
    <3> QED BY <3>1, QuietTwo, QuietNone
  <2>2. silent \in Seq(QuietOps) /\ ends \in Seq(QuietOps) /\ exits \in Seq(QuietOps)
    BY QuietCalls, QuietOne
  <2>3. /\ Ends("afterMode", ((script \o silent) \o ends) \o exits)
        /\ options' = options /\ stops' = stops /\ inferior' = inferior /\ told' = told
        /\ errors' = errors /\ isOpen' = isOpen
    BY <1>1 DEF AfterMode, MainStays, TestMode
  <2> HIDE DEF script, silent, ends, exits
  <2>4. ((script \o silent) \o ends) \o exits \in Seq(QuietOps)
    BY <2>1, <2>2, QuietConcat
  <2> QED BY <2>3, <2>4, QuietStep DEF Things
<1>2. CASE failSilent
  <2>1. /\ Ends("failSilent", << >>)
        /\ options' = options /\ stops' = stops /\ inferior' = inferior /\ told' = told
        /\ errors' = errors /\ isOpen' = isOpen
    BY <1>2 DEF failSilent, MainStays
  <2> QED BY <2>1, QuietNone, QuietStep DEF Things
<1>3. CASE cleanUpAndExit
  <2>1. /\ Ends("cleanUpAndExit", << >>)
        /\ options' = options /\ stops' = stops /\ inferior' = inferior /\ told' = told
        /\ errors' = errors /\ isOpen' = isOpen
    BY <1>3 DEF cleanUpAndExit
  <2> QED BY <2>1, QuietNone, QuietStep DEF Things
<1> QED BY <1>1, <1>2, <1>3 DEF EndOfMain
(* The list main begins with: the start, the filters, the tests. *)
InitialList(n) ==
  /\ n \in 0..2 /\ todo \in Seq(OrderOps) /\ Len(todo) = n + 7
  /\ todo[1] = Call("initSystem") /\ todo[2] = Call("startTestMode")
  /\ todo[3] = Call("renewEUnitBreakpoints") /\ todo[4] = Command("level")
  /\ \A k \in 5..(n + 4) : todo[k] \in {Call("optInTestGroups"), Call("optOutTestGroups")}
  /\ \A k \in (n + 5)..(n + 7) :
       todo[k] \in {Call("continue"), Call("executeAllTest"), Call("afterMode")}
  /\ options.enabledTestGroups => n >= 1 /\ todo[5] = Call("optInTestGroups")
  /\ options.disabedTestGroups => n >= 1 /\ todo[n + 4] = Call("optOutTestGroups")

(* The operations of that list. *)
LEMMA InitialOrderOps ==
  \A name \in {"initSystem", "startTestMode", "renewEUnitBreakpoints", "optInTestGroups",
              "optOutTestGroups", "continue", "executeAllTest", "afterMode"} :
    Call(name) \in OrderOps /\ Command("level") \in OrderOps
<1> USE DEF Op, Starts, IsContinue
<1>1. \A name \in {"initSystem", "startTestMode", "renewEUnitBreakpoints", "optInTestGroups",
                   "optOutTestGroups", "continue", "executeAllTest", "afterMode"} :
        Call(name) \in OrderOps
  BY DEF Call, OrderOps, AnyOp, Shape, Names, Commands, Things
<1>2. Command("level") \in OrderOps
  BY DEF Command, OrderOps, AnyOp, Shape, Names, Commands, Things, Flags
<1> QED BY <1>1, <1>2

LEMMA InitialTodo ==
  ASSUME Init, TestMode PROVE \E n \in Nat : InitialList(n)
<1> DEFINE first == Call("initSystem")
           second == Call("startTestMode")
           third == Call("renewEUnitBreakpoints")
           level == Command("level")
           inGroups == Call("optInTestGroups")
           outGroups == Call("optOutTestGroups")
           go == Call("continue")
           tests == Call("executeAllTest")
           after == Call("afterMode")
           start == <<first, second, third, level>>
           optIn == Filter(options.enabledTestGroups, "optInTestGroups")
           optOut == Filter(options.disabedTestGroups, "optOutTestGroups")
           filters == optIn \o optOut
           rest == <<go, tests>> \o <<after>>
           n == Len(filters)
<1>1. \A op \in {first, second, third, level, inGroups, outGroups, go, tests, after} :
        op \in OrderOps
  BY InitialOrderOps
<1>2. optIn = (IF options.enabledTestGroups THEN <<inGroups>> ELSE << >>)
      /\ optOut = (IF options.disabedTestGroups THEN <<outGroups>> ELSE << >>)
  BY DEF Filter
<1>3. todo = ((((start \o optIn) \o optOut) \o <<go, tests>>) \o <<after>>)
  BY DEF Init, TestMode, executeMode, testMode
<1> HIDE DEF first, second, third, level, inGroups, outGroups, go, tests, after, optIn, optOut
<1>5. /\ start \in Seq(OrderOps) /\ Len(start) = 4
      /\ start[1] = first /\ start[2] = second /\ start[3] = third /\ start[4] = level
  BY <1>1
<1>6. rest \in Seq(OrderOps) /\ Len(rest) = 3
      /\ \A k \in 1..3 : rest[k] \in {go, tests, after}
  <2>1. /\ <<go, tests>> \in Seq(OrderOps) /\ <<after>> \in Seq(OrderOps)
        /\ Len(<<go, tests>>) = 2 /\ Len(<<after>>) = 1
    BY <1>1
  <2>2. /\ rest \in Seq(OrderOps) /\ Len(rest) = 2 + 1
        /\ \A k \in 1..(2 + 1) :
             rest[k] = IF k <= 2 THEN <<go, tests>>[k] ELSE <<after>>[k - 2]
    BY <2>1, ConcatProperties
  <2> QED BY <2>2
<1>7. /\ filters \in Seq(OrderOps) /\ n \in 0..2
      /\ \A k \in 1..n : filters[k] \in {inGroups, outGroups}
      /\ options.enabledTestGroups => n >= 1 /\ filters[1] = inGroups
      /\ options.disabedTestGroups => n >= 1 /\ filters[n] = outGroups
  <2> DEFINE none == << >>
  <2>1. filters = (IF options.enabledTestGroups
                   THEN IF options.disabedTestGroups THEN <<inGroups, outGroups>>
                        ELSE <<inGroups>>
                   ELSE IF options.disabedTestGroups THEN <<outGroups>> ELSE << >>)
    <3>1. <<inGroups>> \o <<outGroups>> = <<inGroups, outGroups>>
      BY <1>1, Pair
    <3>2. <<inGroups>> \in Seq(OrderOps) /\ <<outGroups>> \in Seq(OrderOps)
      BY <1>1
    <3>3. <<inGroups>> \o << >> = <<inGroups>> /\ << >> \o <<outGroups>> = <<outGroups>>
          /\ << >> \o << >> = << >>
      BY <3>2, ConcatEmptySeq
    <3> QED BY <3>1, <3>3, <1>2
  <2>2. <<inGroups, outGroups>> \in Seq(OrderOps) /\ <<inGroups>> \in Seq(OrderOps)
        /\ <<outGroups>> \in Seq(OrderOps) /\ << >> \in Seq(OrderOps)
    BY <1>1
  <2> QED BY <2>1, <2>2
<1> HIDE DEF start, filters, rest
<1>8. /\ todo \in Seq(OrderOps) /\ Len(todo) = n + 7
      /\ \A k \in 1..4 : todo[k] = start[k]
      /\ \A k \in 5..(n + 4) : todo[k] = filters[k - 4]
      /\ \A k \in (n + 5)..(n + 7) : todo[k] = rest[k - n - 4]
  <2>1. todo = ((start \o filters) \o <<go, tests>>) \o <<after>>
    <3>1. optIn \in Seq(OrderOps) /\ optOut \in Seq(OrderOps)
      BY <1>1, <1>2
    <3>2. (start \o optIn) \o optOut = start \o filters
      BY <3>1, <1>5, ConcatAssociative DEF filters
    <3> QED BY <3>2, <1>3
  <2>2. start \o filters \in Seq(OrderOps)
    BY <1>5, <1>7, ConcatProperties
  <2>3. <<go, tests>> \in Seq(OrderOps) /\ <<after>> \in Seq(OrderOps)
    BY <1>1
  <2>4. todo = (start \o filters) \o rest
    BY <2>1, <2>2, <2>3, ConcatAssociative DEF rest
  <2>5. /\ Len(start \o filters) = 4 + n
        /\ \A k \in 1..(4 + n) :
             (start \o filters)[k] = IF k <= 4 THEN start[k] ELSE filters[k - 4]
    <3>1. /\ Len(start \o filters) = Len(start) + Len(filters)
          /\ \A k \in 1..(Len(start) + Len(filters)) :
               (start \o filters)[k] =
                 IF k <= Len(start) THEN start[k] ELSE filters[k - Len(start)]
      BY <1>5, <1>7, ConcatProperties
    <3> QED BY <3>1, <1>5
  <2>6. /\ todo \in Seq(OrderOps) /\ Len(todo) = (4 + n) + 3
        /\ \A k \in 1..((4 + n) + 3) :
             todo[k] = IF k <= 4 + n THEN (start \o filters)[k] ELSE rest[k - (4 + n)]
    <3> DEFINE front == start \o filters
    <3> HIDE DEF front
    <3>1. /\ front \o rest \in Seq(OrderOps) /\ Len(front \o rest) = Len(front) + Len(rest)
          /\ \A k \in 1..(Len(front) + Len(rest)) :
               (front \o rest)[k] = IF k <= Len(front) THEN front[k] ELSE rest[k - Len(front)]
      BY <2>2, <1>6, ConcatProperties DEF front
    <3>2. todo = front \o rest /\ Len(front) = 4 + n /\ Len(rest) = 3
      BY <2>4, <2>5, <1>6 DEF front
    <3> QED BY <3>1, <3>2 DEF front
  <2>7. Len(todo) = n + 7 /\ todo \in Seq(OrderOps)
    BY <2>6, <1>7
  <2>8. ASSUME NEW k \in 1..4 PROVE todo[k] = start[k]
    BY <2>5, <2>6, <1>7
  <2>9. ASSUME NEW k \in 5..(n + 4) PROVE todo[k] = filters[k - 4]
    BY <2>5, <2>6, <1>7
  <2>10. ASSUME NEW k \in (n + 5)..(n + 7) PROVE todo[k] = rest[k - n - 4]
    <3>1. k \in 1..((4 + n) + 3) /\ ~(k <= 4 + n) /\ k - (4 + n) = k - n - 4
      BY <1>7
    <3> QED BY <3>1, <2>6
  <2> QED BY <2>7, <2>8, <2>9, <2>10
<1>9. /\ todo[1] = first /\ todo[2] = second /\ todo[3] = third /\ todo[4] = level
  BY <1>5, <1>8
<1>10. ASSUME NEW k \in 5..(n + 4) PROVE todo[k] \in {inGroups, outGroups}
  <2>1. k - 4 \in 1..n
    BY <1>7
  <2> QED BY <2>1, <1>7, <1>8
<1>11. ASSUME NEW k \in (n + 5)..(n + 7) PROVE todo[k] \in {go, tests, after}
  <2>1. k - n - 4 \in 1..3
    BY <1>7
  <2> QED BY <2>1, <1>6, <1>8
<1>12. ASSUME options.enabledTestGroups PROVE n >= 1 /\ todo[5] = inGroups
  <2>1. n >= 1 /\ filters[1] = inGroups
    BY <1>7, <1>12
  <2>2. 5 \in 5..(n + 4) /\ 5 - 4 = 1
    BY <2>1, <1>7
  <2> QED BY <2>1, <2>2, <1>8
<1>13. ASSUME options.disabedTestGroups PROVE n >= 1 /\ todo[n + 4] = outGroups
  <2>1. n >= 1 /\ filters[n] = outGroups
    BY <1>7, <1>13
  <2>2. n + 4 \in 5..(n + 4) /\ (n + 4) - 4 = n
    BY <2>1, <1>7
  <2> QED BY <2>1, <2>2, <1>8
<1> HIDE DEF n
<1>14. n \in Nat /\ n \in 0..2
  BY <1>7
<1>15. InitialList(n)
  BY <1>8, <1>9, <1>10, <1>11, <1>12, <1>13, <1>14
     DEF InitialList, first, second, third, level, inGroups, outGroups, go, tests, after
<1> QED BY <1>14, <1>15

LEMMA OrderInit ==
  ASSUME Init, TestMode PROVE OrderInv
<1> DEFINE first == Call("initSystem")
           second == Call("startTestMode")
           third == Call("renewEUnitBreakpoints")
           level == Command("level")
           inGroups == Call("optInTestGroups")
           outGroups == Call("optOutTestGroups")
           go == Call("continue")
           tests == Call("executeAllTest")
           after == Call("afterMode")
<1>1. /\ \A op \in {first, second, third, level, inGroups, outGroups, go, tests, after} :
           op \in OrderOps /\ op.name # "fits"
      /\ first.name = "initSystem" /\ ~BelongsBehind(first)
      /\ \A op \in {third, level, inGroups, outGroups, go, tests, after} : ~Starts(op)
      /\ \A op \in {first, second, third, level, inGroups, outGroups} : ~IsContinue(op)
      /\ Tells(level, "level") /\ Tells(inGroups, "optInTestGroups")
      /\ Tells(outGroups, "optOutTestGroups")
  <2> USE DEF Op, Starts, IsContinue
  <2>3. first.name = "initSystem" /\ first.do = "" /\ second.name = "startTestMode"
    BY DEF Call
  <2>4. ~BelongsBehind(first)
    BY <2>3 DEF BelongsBehind, Tells, Things
  <2>5. \A name \in {"renewEUnitBreakpoints", "optInTestGroups", "optOutTestGroups"} :
          ~Starts(Call(name)) /\ ~IsContinue(Call(name)) /\ Call(name).name # "fits"
    BY DEF Call
  <2>6. \A name \in {"continue", "executeAllTest", "afterMode"} :
          ~Starts(Call(name)) /\ Call(name).name # "fits"
    BY DEF Call
  <2>7. ~Starts(level) /\ ~IsContinue(level) /\ level.name = "ignored" /\ level.do = "level"
    BY DEF Command
  <2>8. inGroups.name = "optInTestGroups" /\ outGroups.name = "optOutTestGroups"
    BY DEF Call
  <2>9. ~IsContinue(first) /\ ~IsContinue(second)
    BY DEF Call
  <2>10. \A op \in {first, second, third, level, inGroups, outGroups, go, tests, after} :
           op \in OrderOps
    BY InitialOrderOps
  <2>11. \A op \in {third, inGroups, outGroups} :
           ~Starts(op) /\ ~IsContinue(op) /\ op.name # "fits"
    BY <2>5
  <2>12. \A op \in {go, tests, after} : ~Starts(op) /\ op.name # "fits"
    BY <2>6
  <2> HIDE DEF first, second, third, level, inGroups, outGroups, go, tests, after
  <2> QED BY <2>3, <2>4, <2>7, <2>8, <2>9, <2>10, <2>11, <2>12 DEF Tells
<1>2. PICK n \in Nat : InitialList(n)
  BY InitialTodo
<1>4. /\ stops = 0 /\ inferior = "none" /\ ~sent /\ ~isOpen /\ ~errors
  BY DEF Init
<1>7. /\ n \in 0..2
      /\ options.enabledTestGroups => n >= 1 /\ todo[5] = inGroups
      /\ options.disabedTestGroups => n >= 1 /\ todo[n + 4] = outGroups
  BY <1>2 DEF InitialList
<1>8. /\ todo \in Seq(OrderOps) /\ Len(todo) = n + 7
      /\ todo[1] = first /\ todo[2] = second /\ todo[3] = third /\ todo[4] = level
      /\ \A k \in 5..(n + 4) : todo[k] \in {inGroups, outGroups}
      /\ \A k \in (n + 5)..(n + 7) : todo[k] \in {go, tests, after}
  BY <1>2 DEF InitialList
<1> HIDE DEF first, second, third, level, inGroups, outGroups, go, tests, after
<1>9. \A k \in Ops :
        \/ k = 1 /\ todo[k] = first
        \/ k = 2 /\ todo[k] = second
        \/ k = 3 /\ todo[k] = third
        \/ k = 4 /\ todo[k] = level
        \/ k \in 5..(n + 4) /\ todo[k] \in {inGroups, outGroups}
        \/ k \in (n + 5)..(n + 7) /\ todo[k] \in {go, tests, after}
  <2> SUFFICES ASSUME NEW k \in Ops
               PROVE  \/ k = 1 /\ todo[k] = first
                      \/ k = 2 /\ todo[k] = second
                      \/ k = 3 /\ todo[k] = third
                      \/ k = 4 /\ todo[k] = level
                      \/ k \in 5..(n + 4) /\ todo[k] \in {inGroups, outGroups}
                      \/ k \in (n + 5)..(n + 7) /\ todo[k] \in {go, tests, after}
    OBVIOUS
  <2>1. k \in 1..4 \/ k \in 5..(n + 4) \/ k \in (n + 5)..(n + 7)
    BY <1>7, <1>8 DEF Ops
  <2>2. CASE k \in 1..4
    <3>1. k = 1 \/ k = 2 \/ k = 3 \/ k = 4
      BY <2>2
    <3> QED BY <3>1, <1>8
  <2>3. CASE k \in 5..(n + 4)
    BY <2>3, <1>8
  <2>4. CASE k \in (n + 5)..(n + 7)
    BY <2>4, <1>8
  <2> QED BY <2>1, <2>2, <2>3, <2>4
<1>10. Ops = 1..(n + 7) /\ todo # << >> /\ head = first
  <2>1. todo[1] = first /\ Len(todo) > 0
    BY <1>7, <1>8
  <2> QED BY <2>1, <1>8 DEF Ops, head
<1>11. Typed
  BY <1>4, <1>8 DEF Typed
<1>12. StartsFirst /\ OnlyWaits /\ KnowsAll /\ ToldOrLost
  BY <1>4 DEF StartsFirst, OnlyWaits, KnowsAll, ToldOrLost
<1>13. ClosedEnds
  BY <1>1, <1>10 DEF ClosedEnds
<1>14. FitsFollowed
  BY <1>1, <1>9 DEF FitsFollowed
<1>15. StartsBefore
  <2> SUFFICES ASSUME NEW j \in Ops, NEW k \in Ops, j < k, BelongsBehind(todo[j]),
                      Starts(todo[k])
               PROVE  FALSE
    BY DEF StartsBefore
  <2>1. k = 1 \/ k = 2
    BY <1>1, <1>9
  <2>2. j = 1
    BY <2>1, <1>10
  <2> QED BY <2>2, <1>1, <1>10, <1>9
<1>16. ToldFirst
  <2> SUFFICES ASSUME NEW x \in Things, Needed(x), NEW j \in Ops, IsContinue(todo[j])
               PROVE  \E i \in 1..(j - 1) : Tells(todo[i], x)
    BY DEF ToldFirst
  <2>1. j \in (n + 5)..(n + 7)
    BY <1>1, <1>9
  <2>2. 4 \in 1..(j - 1) /\ todo[4] = level
    BY <2>1, <1>7, <1>8
  <2>3. CASE x = "level"
    BY <2>2, <2>3, <1>1
  <2>4. CASE x = "optInTestGroups"
    <3>1. n >= 1 /\ todo[5] = inGroups
      BY <2>4, <1>7 DEF Needed
    <3>2. 5 \in 1..(j - 1)
      BY <3>1, <2>1, <1>7
    <3> QED BY <3>1, <3>2, <2>4, <1>1
  <2>5. CASE x = "optOutTestGroups"
    <3>1. n >= 1 /\ todo[n + 4] = outGroups
      BY <2>5, <1>7 DEF Needed
    <3>2. n + 4 \in 1..(j - 1)
      BY <3>1, <2>1, <1>7
    <3> QED BY <3>1, <3>2, <2>5, <1>1
  <2> QED BY <2>3, <2>4, <2>5 DEF Things
<1> QED BY <1>11, <1>12, <1>13, <1>14, <1>15, <1>16 DEF OrderInv
-----------------------------------------------------------------------------
(* Every step keeps the order. *)
LEMMA OrderNext == (TestMode => OrderInv) /\ [Next]_vars => (TestMode => OrderInv)'
<1> SUFFICES ASSUME TestMode => OrderInv, [Next]_vars, TestMode' PROVE OrderInv'
  OBVIOUS
<1>1. options' = options
  BY DEF Next, Main, Send, Chain, Ignored, ExecuteEnds, initSystem, Connected, removeFrame,
     getTargetDefines, renewEUnitBreakpoints, startTestMode, FirstStop, Mode, SetFilter,
     FilterFits, Continue, executeAllTest, TakesFrame, NoNewFrame, Detached, EndOfMain,
     AfterMode, failSilent, cleanUpAndExit, GdbStep, TargetStops, Elsewhere, programVars, vars
<1>2. TestMode /\ OrderInv
  BY <1>1 DEF TestMode
<1>3. CASE UNCHANGED vars
  BY <1>2, <1>3 DEF vars, mainVars, decoderVars, gdbVars, programVars, OrderInv, Typed,
     StartsFirst, StartsBefore, OnlyWaits, ClosedEnds, FitsFollowed, ToldOrLost, ToldFirst,
     KnowsAll, Ops, head, NoContinue, NoStart, Lost, Needed
<1> QED BY <1>2, <1>3, SendKeeps, ChainKeeps, ModeKeeps, EndKeeps, GdbStepKeeps,
           TargetStopsKeeps DEF Next, Main

(* In test mode the target leaves startTesting only when it knows its      *)
(* level, and its filters unless an error was recorded, for every set of   *)
(* targets and command lines and whatever gdb refuses.                     *)
THEOREM LevelIsToldFirst == Spec => []LevelBeforeTests
<1>1. Init => (TestMode => OrderInv)
  BY OrderInit
<1>2. (TestMode => OrderInv) => LevelBeforeTests
  BY DEF OrderInv, KnowsAll, Needed, Things, TestMode, LevelBeforeTests
<1> QED BY <1>1, <1>2, OrderNext, PTL DEF Spec
===============================================================================
