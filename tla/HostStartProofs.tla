---------------------------- MODULE HostStartProofs ----------------------------
(***************************************************************************)
(* The start-up and the end of the host in all of its modes: what it has   *)
(* still to do, which targets it lets run, and what its exit code says.    *)
(***************************************************************************)
EXTENDS HostProgramProofs

(* An operation of any mode. *)
AllNames == Names \union {"executeCommand", "loop", "detached"}
AllCommands ==
  Commands \union {"-exec-interrupt", "script", "interrupt", "-target-detach", "getResultData",
                  "memset", "test_result_index", "-exec-return", "breaksMode"}
AnyOperation == [name: AllNames, do: AllCommands, waits: SUBSET Flags]

(* What may take the place of an operation that has ended. *)
Successors(name) ==
  CASE name = "initSystem" ->
         {Command("-gdb-set mi-async on"),
          Op("connected", "target-select", {"stopped", "done"}),
          Op("getTargetDefines", "defines", {"done"})}
    [] name = "connected" ->
         {Command("set_parallelism_mode"), Command("load"), Command("set $pc"),
          Call("removeFrame"), Op("getTargetDefines", "defines", {"done"})}
    [] name = "renewEUnitBreakpoints" ->
         {Command("detachTarget"), Command("MessageToDebugger"), Command("printOverGdb")}
    [] name = "startTestMode" ->
         {Call("renewEUnitBreakpoints"), Op("firstStop", "run", {"stopped"}),
          Op("firstStop", "-exec-continue", {"stopped"})}
    [] name \in {"optInTestGroups", "optOutTestGroups"} ->
         {Op("fits", "sizeof", {"done"}), Command(name)}
    [] name = "continue" -> {Command("set $pc +=2"), continueAfterMockStub}
    [] name = "loop" ->
         {Command("level"), Call("continue"), Command("getResultData"), Execute("memset"),
          Command("test_result_index"), continueAfterMockStub, Execute("-exec-return"),
          Command("breaksMode"), Execute("-target-detach"), Call("detached"), Call("loop")}
    [] name = "afterMode" ->
         {Execute("-exec-interrupt"), Execute("script"), Call("failSilent"),
          Command("-target-disconnect"), Op("ignored", "interrupt", {"done", "stopped"}),
          Command("-target-detach"), Call("cleanUpAndExit")}
    [] OTHER -> {}

(* How main goes on: what follows takes the place of the first operation,  *)
(* or the mode is given up, or a filter is skipped.                        *)
GoesOn(next) == next \in Seq(Successors(head.name)) /\ Ends(head.name, next)
FlashesOn == options.executionMode = "flashMode" /\ todo' = <<Execute("-exec-continue")>>
SkipsFilter == head.name = "fits" /\ todo' = SubSeq(todo, 3, Len(todo)) /\ errors'

TypeInv == TypeOK /\ todo \in Seq(AnyOperation)
-----------------------------------------------------------------------------
(* Which targets run. *)
Watching == options.executionMode # "flashMode"
Watched == {"detachTarget", IF target.testMode THEN "MessageToDebugger" ELSE "printOverGdb"}

(* Operations that resume the target, or lead to one that does without     *)
(* setting the breakpoints before.                                         *)
Resumes(op) == op.do \in {"run", "-exec-continue"} \/ op.name \in {"continue", "loop"}

Observed ==
  target.swBreakpoints \/ (target.version = 1 /\ Watched \subseteq breakpoints)

(* Before the operation at j the breakpoints of the target are set. *)
SetBefore(list, j) ==
  \/ Observed
  \/ \E i \in 1..(j - 1) : list[i].name = "renewEUnitBreakpoints"
  \/ /\ target.version = 1
     /\ \A b \in Watched : b \in breakpoints \/ \E i \in 1..(j - 1) : list[i].do = b
SetFirst == \A j \in 1..Len(todo) : Resumes(todo[j]) => SetBefore(todo, j)

ClosedRuns ==
  ~isOpen => \/ todo # << >> /\ head.name = "initSystem"
             \/ \A j \in 1..Len(todo) : ~Resumes(todo[j]) /\ todo[j].name # "startTestMode"

(* A breakpoint is set by a command whose answer is awaited, and a filter  *)
(* follows the question whether it fits. *)
BreakNames == {"detachTarget", "MessageToDebugger", "printOverGdb"}
Sound(op) ==
  /\ op.do \in BreakNames => op.name = "ignored" /\ "done" \in op.waits
  /\ op.name = "fits" => op.do = "sizeof"
IsFilter(op) == op.name = "ignored" /\ op.do \in {"optInTestGroups", "optOutTestGroups"}
SoundList ==
  \A j \in 1..Len(todo) :
    /\ Sound(todo[j])
    /\ todo[j].name = "fits" => j < Len(todo) /\ IsFilter(todo[j + 1])

(* gdb does not refuse to set a breakpoint. *)
BreaksAreSet ==
  sent /\ head.do \in BreakNames /\ lastCommand # "waitForResult" =>
    lastCommand = "done" /\ head.do \in breakpoints

WatchInv ==
  /\ Watching /\ ~gone => SetFirst /\ ClosedRuns /\ SoundList /\ BreaksAreSet
  /\ Watching /\ inferior = "running" => Observed
-----------------------------------------------------------------------------
(* What the exit code says in test mode. *)
Filters == {"optInTestGroups", "optOutTestGroups"}

Begins(op) == op.name \in {"startTestMode", "firstStop"}
Closes(op) ==
  \/ op.name \in {"afterMode", "executeCommand", "failSilent", "cleanUpAndExit"}
  \/ op.do = "-target-disconnect"
Telling(op) == \E x \in Filters : Tells(op, x)

ToBegin == \E k \in 1..Len(todo) : Begins(todo[k])
ToTell(x) == \E k \in 1..Len(todo) : Tells(todo[k], x)

(* The message startTesting comes from a stop of the target. *)
MessagesAreStops == \A k \in 1..Len(frames) : frames[k] = "startTesting" => stops > 0

(* The target that has announced its tests waits until it has been told    *)
(* its filters.                                                            *)
LatestIsHalted ==
  ToBegin /\ frames # << >> /\ frames[Len(frames)] = "startTesting" => inferior = "halted"
HaltedWhileTold == ~gone /\ ~ToBegin /\ (\E x \in Filters : ToTell(x)) => inferior = "halted"

TellsFirst ==
  \A j, k \in 1..Len(todo) :
    j < k /\ (IsContinue(todo[j]) \/ Closes(todo[j])) => ~Telling(todo[k])

FiltersAreTold ==
  sent /\ head.do \in Filters /\ lastCommand # "waitForResult" =>
    lastCommand = "done" /\ head.do \in told

(* A filter that was asked for is known, or is still to be told. *)
KnownOrToTell == \A x \in Filters : Needed(x) /\ ~gone => x \in told \/ ToTell(x)
ClosedIsError == ~isOpen => errors \/ (todo # << >> /\ head.name = "initSystem")

StopFrames ==
  {"startTesting", "bufferIsFull", "bufferToSmall", "finishAllTest", "other", "noArgument",
   "detachTarget", "printOverGdb"}

ReportInv ==
  /\ frames \in Seq(StopFrames)
  /\ MessagesAreStops /\ LatestIsHalted /\ HaltedWhileTold /\ TellsFirst /\ FiltersAreTold
  /\ KnownOrToTell /\ ClosedIsError /\ FailureIsReported
-----------------------------------------------------------------------------
(* Lists of operations of a set. *)
LEMMA ListNone == ASSUME NEW S PROVE << >> \in Seq(S)
OBVIOUS

LEMMA ListOne == ASSUME NEW S, NEW a \in S PROVE <<a>> \in Seq(S)
OBVIOUS

LEMMA ListTwo == ASSUME NEW S, NEW a \in S, NEW b \in S PROVE <<a, b>> \in Seq(S)
OBVIOUS

LEMMA ListFour ==
  ASSUME NEW S, NEW a \in S, NEW b \in S, NEW c \in S, NEW d \in S
  PROVE  <<a, b, c, d>> \in Seq(S)
OBVIOUS

LEMMA ListConcat ==
  ASSUME NEW S, NEW s \in Seq(S), NEW t \in Seq(S) PROVE s \o t \in Seq(S)
BY ConcatProperties

(* A list of a smaller set is one of a larger set. *)
LEMMA ListGrows ==
  ASSUME NEW S, NEW T, S \subseteq T, NEW s \in Seq(S) PROVE s \in Seq(T)
OBVIOUS

(* The operations there are. *)
LEMMA OpIsAny ==
  ASSUME NEW name \in AllNames, NEW do \in AllCommands, NEW waits \in SUBSET Flags
  PROVE  Op(name, do, waits) \in AnyOperation
BY DEF Op, AnyOperation

(* Calls and commands are operations.                                      *)
LEMMA CallIsAny == ASSUME NEW name \in AllNames PROVE Call(name) \in AnyOperation
BY OpIsAny DEF Call, AllCommands, Commands

LEMMA CommandIsAny == ASSUME NEW do \in AllCommands PROVE Command(do) \in AnyOperation
BY OpIsAny DEF Command, Flags, AllNames, Names

LEMMA ExecuteIsAny == ASSUME NEW do \in AllCommands PROVE Execute(do) \in AnyOperation
BY OpIsAny DEF Execute, Flags, AllNames

(* Whatever takes the place of an operation is an operation. *)
LEMMA SuccessorsAreOperations ==
  ASSUME NEW name PROVE Successors(name) \subseteq AnyOperation
<1> USE DEF AllNames, Names, AllCommands, Commands
<1>1. /\ \A n \in AllNames : Call(n) \in AnyOperation
      /\ \A d \in AllCommands : Command(d) \in AnyOperation /\ Execute(d) \in AnyOperation
  BY CallIsAny, CommandIsAny, ExecuteIsAny
<1>2. \A n \in AllNames, d \in AllCommands, w \in SUBSET Flags : Op(n, d, w) \in AnyOperation
  BY OpIsAny
<1>3. continueAfterMockStub \in AnyOperation
  BY <1>2 DEF continueAfterMockStub, Flags
<1>4. CASE name = "initSystem"
  <2>1. {"stopped", "done"} \in SUBSET Flags /\ {"done"} \in SUBSET Flags
    BY DEF Flags
  <2>2. /\ Op("connected", "target-select", {"stopped", "done"}) \in AnyOperation
        /\ Op("getTargetDefines", "defines", {"done"}) \in AnyOperation
    BY <2>1, <1>2
  <2>3. Command("-gdb-set mi-async on") \in AnyOperation
    BY <1>1
  <2> QED BY <1>4, <2>2, <2>3 DEF Successors
<1>5. CASE name = "connected"
  BY <1>1, <1>2, <1>5 DEF Successors, Flags
<1>6. CASE name = "renewEUnitBreakpoints"
  BY <1>1, <1>6 DEF Successors
<1>7. CASE name = "startTestMode"
  BY <1>1, <1>2, <1>7 DEF Successors, Flags
<1>8. CASE name \in {"optInTestGroups", "optOutTestGroups"}
  <2>1. Op("fits", "sizeof", {"done"}) \in AnyOperation
    BY <1>2 DEF Flags
  <2>2. Command(name) \in AnyOperation
    BY <1>1, <1>8
  <2>3. Successors(name) = {Op("fits", "sizeof", {"done"}), Command(name)}
    BY <1>8 DEF Successors
  <2> QED BY <2>1, <2>2, <2>3
<1>9. CASE name = "continue"
  BY <1>1, <1>3, <1>9 DEF Successors
<1>10. CASE name = "loop"
  BY <1>1, <1>3, <1>10 DEF Successors
<1>11. CASE name = "afterMode"
  <2>1. {"done", "stopped"} \in SUBSET Flags
    BY DEF Flags
  <2>2. Op("ignored", "interrupt", {"done", "stopped"}) \in AnyOperation
    BY <2>1, <1>2
  <2>3. /\ Execute("-exec-interrupt") \in AnyOperation /\ Execute("script") \in AnyOperation
        /\ Call("failSilent") \in AnyOperation /\ Call("cleanUpAndExit") \in AnyOperation
        /\ Command("-target-disconnect") \in AnyOperation
        /\ Command("-target-detach") \in AnyOperation
    BY <1>1
  <2> QED BY <1>11, <2>2, <2>3 DEF Successors
<1> QED BY <1>4, <1>5, <1>6, <1>7, <1>8, <1>9, <1>10, <1>11 DEF Successors

(* What an operation becomes, index by index. *)
LEMMA EndsIndices ==
  ASSUME NEW S, todo \in Seq(S), NEW name, NEW next \in Seq(S), Ends(name, next)
  PROVE  /\ todo # << >> /\ Len(todo) \in Nat /\ Len(todo) >= 1 /\ Len(next) \in Nat
         /\ todo' \in Seq(S) /\ sent' = FALSE /\ head.name = name /\ head \in S
         /\ Len(todo') = Len(next) + Len(todo) - 1
         /\ \A k \in 1..Len(next) : todo'[k] = next[k]
         /\ \A k \in (Len(next) + 1)..Len(todo') : todo'[k] = todo[k + 1 - Len(next)]
<1>1. todo # << >> /\ todo' = next \o Tail(todo) /\ sent' = FALSE /\ head.name = name
  BY DEF Ends, Turn
<1>2. /\ Tail(todo) \in Seq(S) /\ Len(Tail(todo)) = Len(todo) - 1
      /\ \A i \in 1..Len(Tail(todo)) : Tail(todo)[i] = todo[i + 1]
      /\ Head(todo) \in S /\ Head(todo) = todo[1]
  BY <1>1, HeadTailProperties
<1>3. Len(todo) \in Nat /\ Len(next) \in Nat /\ Len(Tail(todo)) \in Nat
  BY <1>2, LenProperties
<1>4. /\ todo' \in Seq(S) /\ Len(todo') = Len(next) + Len(Tail(todo))
      /\ \A i \in 1..(Len(next) + Len(Tail(todo))) :
           todo'[i] = IF i <= Len(next) THEN next[i] ELSE Tail(todo)[i - Len(next)]
  BY <1>1, <1>2, ConcatProperties
<1>5. \A k \in 1..Len(next) : todo'[k] = next[k]
  BY <1>3, <1>4
<1>6. ASSUME NEW k \in (Len(next) + 1)..Len(todo') PROVE todo'[k] = todo[k + 1 - Len(next)]
  <2>1. k - Len(next) \in 1..Len(Tail(todo)) /\ k \in 1..(Len(next) + Len(Tail(todo)))
    BY <1>3, <1>4
  <2>2. k \in Int /\ ~(k <= Len(next))
    BY <1>3
  <2>3. todo'[k] = Tail(todo)[k - Len(next)]
    BY <2>1, <2>2, <1>4
  <2>4. Tail(todo)[k - Len(next)] = todo[(k - Len(next)) + 1]
    BY <2>1, <1>2
  <2>5. (k - Len(next)) + 1 = k + 1 - Len(next)
    BY <1>3
  <2> QED BY <2>3, <2>4, <2>5
<1>7. Len(todo) >= 1
  BY <1>2, <1>3
<1>8. head \in S
  BY <1>2 DEF head
<1> QED BY <1>1, <1>2, <1>3, <1>4, <1>5, <1>6, <1>7, <1>8

(* A skipped filter leaves what comes behind the next two operations. *)
LEMMA SkipIndices ==
  ASSUME NEW S, todo \in Seq(S), todo' = SubSeq(todo, 3, Len(todo)), Len(todo) >= 2
  PROVE  /\ Len(todo) \in Nat /\ todo' \in Seq(S) /\ Len(todo') = Len(todo) - 2
         /\ \A k \in 1..Len(todo') : todo'[k] = todo[k + 2]
<1>1. Len(todo) \in Nat /\ \A k \in 1..Len(todo) : todo[k] \in S
  BY LenProperties, ElementOfSeq
<1>2. \A k \in 3..Len(todo) : todo[k] \in S
  BY <1>1
<1>3. /\ todo' \in Seq(S)
      /\ Len(todo') = (IF 3 <= Len(todo) THEN Len(todo) - 3 + 1 ELSE 0)
      /\ \A k \in 1..(Len(todo) - 3 + 1) : todo'[k] = todo[3 + k - 1]
  BY <1>1, <1>2, SubSeqProperties
<1>4. Len(todo') = Len(todo) - 2
  <2>1. CASE Len(todo) = 2
    BY <2>1, <1>3
  <2>2. CASE Len(todo) >= 3
    <3>1. Len(todo') = Len(todo) - 3 + 1
      BY <2>2, <1>1, <1>3
    <3>2. Len(todo) - 3 + 1 = Len(todo) - 2
      BY <1>1
    <3> QED BY <3>1, <3>2, Zenon
  <2>3. \A n \in Nat : n >= 2 => n = 2 \/ n >= 3
    OBVIOUS
  <2>4. Len(todo) = 2 \/ Len(todo) >= 3
    BY <1>1, <2>3, Zenon
  <2> QED BY <2>1, <2>2, <2>4
<1>5. \A k \in 1..Len(todo') : todo'[k] = todo[k + 2]
  <2> SUFFICES ASSUME NEW k \in 1..Len(todo') PROVE todo'[k] = todo[k + 2]
    OBVIOUS
  <2>1. k \in 1..(Len(todo) - 3 + 1) /\ 3 + k - 1 = k + 2
    BY <1>1, <1>4
  <2> QED BY <2>1, <1>3
<1> QED BY <1>1, <1>3, <1>4, <1>5
-----------------------------------------------------------------------------
(* An operation whose end leaves nothing to do in its place. *)
LEMMA EndsWithNothing ==
  ASSUME NEW name, Ends(name, << >>) PROVE \E next : GoesOn(next)
<1>1. GoesOn(<< >>)
  BY ListNone DEF GoesOn, Ends
<1> QED BY <1>1

(* An operation ends with nothing, or with the commands that follow it.    *)
LEMMA EndsWithList ==
  ASSUME NEW name, NEW next \in Seq(Successors(name)), Ends(name, next)
  PROVE  \E list : GoesOn(list)
<1>1. GoesOn(next)
  BY DEF GoesOn, Ends
<1> QED BY <1>1

(* Every operation of the chains and of the modes goes on as GoesOn says,  *)
(* gives the mode up, or skips a filter.                                   *)
LEMMA ChainGoesOn ==
  ASSUME Chain
  PROVE  sent' = FALSE /\ (StartFails \/ FlashesOn \/ \E next : GoesOn(next))
<1>1. CASE Ignored \/ ExecuteEnds \/ removeFrame \/ getTargetDefines
  <2>1. \E name \in {"ignored", "executeCommand", "removeFrame", "getTargetDefines"} :
          Ends(name, << >>)
    BY <1>1 DEF Ignored, ExecuteEnds, removeFrame, getTargetDefines
  <2> QED BY <2>1, EndsWithNothing DEF Ends
<1>2. CASE initSystem
  <2> DEFINE S == Successors("initSystem")
             first == <<Command("-gdb-set mi-async on")>>
             connects == IF options.runOnTarget
                         THEN <<Op("connected", "target-select", {"stopped", "done"})>>
                         ELSE <<Op("getTargetDefines", "defines", {"done"})>>
  <2>1. /\ Command("-gdb-set mi-async on") \in S
        /\ Op("connected", "target-select", {"stopped", "done"}) \in S
        /\ Op("getTargetDefines", "defines", {"done"}) \in S
    BY DEF Successors
  <2> HIDE DEF S
  <2>2. first \in Seq(S) /\ connects \in Seq(S)
    BY <2>1, ListOne
  <2>3. Ends("initSystem", first \o connects)
    BY <1>2 DEF initSystem
  <2> HIDE DEF first, connects
  <2>4. first \o connects \in Seq(S)
    BY <2>2, ListConcat
  <2> QED BY <2>3, <2>4, EndsWithList DEF S, Ends
<1>3. CASE Connected
  <2> DEFINE S == Successors("connected")
             reads == <<Op("getTargetDefines", "defines", {"done"})>>
  <2>1. /\ Command("set_parallelism_mode") \in S /\ Command("load") \in S
        /\ Command("set $pc") \in S /\ Call("removeFrame") \in S
        /\ Op("getTargetDefines", "defines", {"done"}) \in S
    BY DEF Successors
  <2> HIDE DEF S
  <2>2. reads \in Seq(S)
    BY <2>1, ListOne
  <2>3. flashTarget \in Seq(S)
    BY <2>1, ListFour, ListNone DEF flashTarget
  <2>4. \/ Ends("connected", flashTarget \o reads)
        \/ StartFails
        \/ FlashesOn /\ sent' = FALSE
    BY <1>3 DEF Connected, FlashesOn
  <2> HIDE DEF reads
  <2>5. flashTarget \o reads \in Seq(S)
    BY <2>2, <2>3, ListConcat
  <2> QED BY <2>4, <2>5, EndsWithList DEF S, Ends, StartFails
<1>4. CASE renewEUnitBreakpoints
  <2> DEFINE S == Successors("renewEUnitBreakpoints")
             own == IF defines.testMode THEN "MessageToDebugger" ELSE "printOverGdb"
             hardware == IF defines.swBreakpoints THEN << >>
                         ELSE <<Command("detachTarget"), Command(own)>>
             prints == IF defines.testMode THEN << >> ELSE <<Command("printOverGdb")>>
  <2>1. Command("detachTarget") \in S /\ Command(own) \in S /\ Command("printOverGdb") \in S
    BY DEF Successors
  <2>2. Ends("renewEUnitBreakpoints", hardware \o prints)
    BY <1>4 DEF renewEUnitBreakpoints
  <2> HIDE DEF S, own
  <2>3. hardware \in Seq(S) /\ prints \in Seq(S)
    BY <2>1, ListOne, ListTwo, ListNone
  <2> HIDE DEF hardware, prints
  <2>4. hardware \o prints \in Seq(S)
    BY <2>3, ListConcat
  <2> QED BY <2>2, <2>4, EndsWithList DEF S, Ends
<1>5. CASE startTestMode
  <2> DEFINE S == Successors("startTestMode")
             renews == Call("renewEUnitBreakpoints")
             first == Op("firstStop", IF options.runOnTarget THEN "-exec-continue" ELSE "run",
                         {"stopped"})
  <2>1. renews \in S /\ first \in S
    BY DEF Successors
  <2>2. StartFails \/ Ends("startTestMode", <<renews, first>>)
    BY <1>5 DEF startTestMode
  <2> HIDE DEF S, renews, first
  <2>3. <<renews, first>> \in Seq(S)
    BY <2>1, ListTwo
  <2> QED BY <2>2, <2>3, EndsWithList DEF S, Ends, StartFails
<1>6. CASE FirstStop
  <2>1. StartFails \/ Ends("firstStop", << >>)
    BY <1>6 DEF FirstStop
  <2> QED BY <2>1, EndsWithNothing DEF Ends, StartFails
<1> QED BY <1>1, <1>2, <1>3, <1>4, <1>5, <1>6 DEF Chain

(* The loop of run mode goes on with what its frame asks for.              *)
LEMMA FrameGoesOn ==
  ASSUME TakesFrame PROVE sent' = FALSE /\ \E next : GoesOn(next)
<1> DEFINE S == Successors("loop")
           loops == IF frame' \in Messages \union {"printOverGdb"} THEN <<Call("loop")>>
                    ELSE << >>
<1>1. /\ Command("level") \in S /\ Call("continue") \in S /\ Command("getResultData") \in S
      /\ Execute("memset") \in S /\ Command("test_result_index") \in S
      /\ continueAfterMockStub \in S /\ Execute("-exec-return") \in S
      /\ Command("breaksMode") \in S /\ Execute("-target-detach") \in S
      /\ Call("detached") \in S /\ Call("loop") \in S
  BY DEF Successors
<1>2. Ends("loop", Handle(frame') \o loops)
  BY DEF TakesFrame
<1> HIDE DEF S
<1>3. loops \in Seq(S)
  BY <1>1, ListOne, ListNone
<1>4. Handle(frame') \in Seq(S)
  <2>1. CASE frame' = "startTesting" \/ frame' \in {"bufferIsFull", "finishAllTest"}
    BY <2>1, <1>1, ListTwo DEF Handle
  <2>2. CASE frame' = "bufferToSmall"
    BY <2>2, <1>1, ListFour DEF Handle
  <2>3. CASE frame' = "printOverGdb"
    BY <2>3, <1>1, ListTwo DEF Handle
  <2>4. CASE frame' = "detachTarget"
    <3> DEFINE mode == IF defines.testMode THEN <<Command("breaksMode")>> ELSE << >>
               detaches == <<Execute("-target-detach"), Call("detached")>>
    <3>1. mode \in Seq(S) /\ detaches \in Seq(S)
      BY <1>1, ListOne, ListTwo, ListNone
    <3>2. Handle(frame') = mode \o detaches
      BY <2>4 DEF Handle
    <3> HIDE DEF mode, detaches
    <3> QED BY <3>1, <3>2, ListConcat
  <2>5. CASE frame' \notin {"startTesting", "bufferIsFull", "finishAllTest", "bufferToSmall",
                          "printOverGdb", "detachTarget"}
    BY <2>5, <1>1, ListOne DEF Handle
  <2> QED BY <2>1, <2>2, <2>3, <2>4, <2>5
<1> HIDE DEF loops
<1>5. Handle(frame') \o loops \in Seq(S)
  BY <1>3, <1>4, ListConcat
<1> QED BY <1>2, <1>5, EndsWithList DEF S, Ends

(* So does every other operation of a mode,                                *)
LEMMA ModeGoesOn ==
  ASSUME Mode PROVE sent' = FALSE /\ (SkipsFilter \/ \E next : GoesOn(next))
<1>1. ASSUME NEW name \in Filters, SetFilter(name)
      PROVE  sent' = FALSE /\ \E next : GoesOn(next)
  <2> DEFINE S == Successors(name)
             fits == Op("fits", "sizeof", {"done"})
             tells == Command(name)
  <2>1. fits \in S /\ tells \in S
    BY <1>1 DEF Successors, Filters
  <2>2. Ends(name, <<fits, tells>>)
    BY <1>1 DEF SetFilter
  <2> HIDE DEF S, fits, tells
  <2>3. <<fits, tells>> \in Seq(S)
    BY <2>1, ListTwo
  <2> QED BY <2>2, <2>3, EndsWithList DEF S, Ends
<1>2. CASE FilterFits
  <2>1. sent' = FALSE /\ head.name = "fits" /\ Turn
        /\ (todo' = Tail(todo) \/ (todo' = SubSeq(todo, 3, Len(todo)) /\ errors'))
    BY <1>2 DEF FilterFits
  <2>2. CASE todo' = Tail(todo)
    <3>1. << >> \o Tail(todo) = Tail(todo)
      OBVIOUS
    <3>2. Ends("fits", << >>)
      BY <2>1, <2>2, <3>1 DEF Ends
    <3> QED BY <3>2, <2>1, EndsWithNothing
  <2> QED BY <2>1, <2>2 DEF SkipsFilter
<1>3. CASE Continue
  <2> DEFINE S == Successors("continue")
             skip == IF options.runOnTarget /\ (defines.testMode \/ ~defines.swBreakpoints)
                     THEN <<Command("set $pc +=2")>> ELSE << >>
             go == <<continueAfterMockStub>>
  <2>1. Command("set $pc +=2") \in S /\ continueAfterMockStub \in S
    BY DEF Successors
  <2>2. Ends("continue", skip \o go)
    BY <1>3 DEF Continue, continueAfterMessage, continueAfterMockStub
  <2> HIDE DEF S
  <2>3. skip \in Seq(S) /\ go \in Seq(S)
    BY <2>1, ListOne, ListNone
  <2> HIDE DEF skip, go
  <2>4. skip \o go \in Seq(S)
    BY <2>3, ListConcat
  <2> QED BY <2>2, <2>4, EndsWithList DEF S, Ends
<1>4. CASE executeAllTest \/ Detached
  <2>1. Ends("executeAllTest", << >>) \/ Ends("detached", << >>)
    BY <1>4 DEF executeAllTest, Detached
  <2> QED BY <2>1, EndsWithNothing DEF Ends
<1>5. CASE TakesFrame
  BY <1>5, FrameGoesOn
<1>6. CASE NoNewFrame
  <2> DEFINE S == Successors("loop")
             loops == IF frame \in Messages THEN <<Call("loop")>> ELSE << >>
  <2>1. Call("loop") \in S
    BY DEF Successors
  <2>2. Ends("loop", loops)
    BY <1>6 DEF NoNewFrame
  <2> HIDE DEF S
  <2>3. loops \in Seq(S)
    BY <2>1, ListOne, ListNone
  <2> HIDE DEF loops
  <2> QED BY <2>2, <2>3, EndsWithList DEF S, Ends
<1> QED BY <1>1, <1>2, <1>3, <1>4, <1>5, <1>6 DEF Mode, Filters

(* and the end of main.                                                    *)
LEMMA EndGoesOn ==
  ASSUME EndOfMain PROVE sent' = FALSE /\ \E next : GoesOn(next)
<1>1. CASE AfterMode
  <2> DEFINE S == Successors("afterMode")
             script == IF options.gdbScript
                       THEN <<Execute("-exec-interrupt"), Execute("script")>> ELSE << >>
             silent == <<Call("failSilent")>>
             ends == IF options.executionMode = "testMode"
                     THEN <<Command("-target-disconnect")>>
                     ELSE <<Op("ignored", "interrupt", {"done", "stopped"}),
                            Command("-target-detach")>>
             exits == <<Call("cleanUpAndExit")>>
  <2>1. /\ Execute("-exec-interrupt") \in S /\ Execute("script") \in S
        /\ Call("failSilent") \in S /\ Command("-target-disconnect") \in S
        /\ Op("ignored", "interrupt", {"done", "stopped"}) \in S
        /\ Command("-target-detach") \in S /\ Call("cleanUpAndExit") \in S
    BY DEF Successors
  <2>2. Ends("afterMode", ((script \o silent) \o ends) \o exits)
    BY <1>1 DEF AfterMode
  <2> HIDE DEF S
  <2>3. script \in Seq(S) /\ silent \in Seq(S) /\ ends \in Seq(S) /\ exits \in Seq(S)
    BY <2>1, ListOne, ListTwo, ListNone
  <2> HIDE DEF script, silent, ends, exits
  <2>4. script \o silent \in Seq(S)
    BY <2>3, ListConcat
  <2>5. (script \o silent) \o ends \in Seq(S)
    BY <2>3, <2>4, ListConcat
  <2>6. ((script \o silent) \o ends) \o exits \in Seq(S)
    BY <2>3, <2>5, ListConcat
  <2> QED BY <2>2, <2>6, EndsWithList DEF S, Ends
<1>2. CASE failSilent \/ cleanUpAndExit
  <2>1. Ends("failSilent", << >>) \/ Ends("cleanUpAndExit", << >>)
    BY <1>2 DEF failSilent, cleanUpAndExit
  <2> QED BY <2>1, EndsWithNothing DEF Ends
<1> QED BY <1>1, <1>2 DEF EndOfMain
-----------------------------------------------------------------------------
(* TypeOK, without what main has to do. *)
ValuesOK ==
  /\ options \in Options /\ target \in Targets
  /\ isOpen \in BOOLEAN /\ errors \in BOOLEAN /\ flag \in BOOLEAN
  /\ defines \in [testMode: BOOLEAN, swBreakpoints: BOOLEAN, version: 0..7]
  /\ exitCode \in {Alive, Crashed, Aborted, 0, -1, -2, -10, -11, -14}
  /\ lastCommand \in {"waitForResult", "done", "error", "garbage"}
  /\ hasStopped \in BOOLEAN
  /\ inferior \in {"none", "halted", "running", "detached"}
  /\ breakpoints \subseteq {"detachTarget", "MessageToDebugger", "printOverGdb"}
  /\ told \subseteq {"level", "optInTestGroups", "optOutTestGroups"}
  /\ stops \in 0..MaxStops /\ result \in {"none", "ok", "failed"}

ListOK ==
  /\ todo \in Seq(AnyOperation) /\ sent \in BOOLEAN
  /\ sent => todo # << >> /\ head.do # ""

(* The type invariant, taken apart.                                        *)
LEMMA TypeInvParts == TypeInv <=> ValuesOK /\ ListOK
<1>1. ASSUME todo \in Seq(AnyOperation), NEW k \in 1..Len(todo)
      PROVE  todo[k].waits \subseteq {"done", "stopped"}
  <2>1. todo[k] \in AnyOperation
    BY <1>1, ElementOfSeq
  <2> QED BY <2>1 DEF AnyOperation, Flags
<1> QED BY <1>1 DEF TypeInv, TypeOK, ValuesOK, ListOK

(* Going on keeps the list one of operations.                              *)
LEMMA TodoIsTyped ==
  ASSUME ListOK, Chain \/ Mode \/ EndOfMain PROVE ListOK'
<1>1. sent' = FALSE /\ (StartFails \/ FlashesOn \/ SkipsFilter \/ \E next : GoesOn(next))
  BY ChainGoesOn, ModeGoesOn, EndGoesOn
<1>2. CASE StartFails \/ FlashesOn
  <2>1. Call("afterMode") \in AnyOperation /\ Execute("-exec-continue") \in AnyOperation
    BY CallIsAny, ExecuteIsAny DEF AllNames, Names, AllCommands, Commands
  <2>2. PICK op \in AnyOperation : todo' = <<op>>
    BY <1>2, <2>1 DEF StartFails, FlashesOn
  <2>3. todo' \in Seq(AnyOperation)
    BY <2>2, ListOne
  <2> QED BY <2>3, <1>1 DEF ListOK
<1>3. CASE SkipsFilter
  <2> DEFINE list == todo
  <2>0. list \in Seq(AnyOperation) /\ Len(list) \in Nat
    BY LenProperties DEF ListOK
  <2>1. Len(todo) \in Int /\ \A k \in 3..Len(todo) : todo[k] \in AnyOperation
    <3> HIDE DEF list
    <3>1. \A k \in 1..Len(list) : list[k] \in AnyOperation
      BY <2>0, ElementOfSeq
    <3>2. \A k \in 3..Len(list) : k \in 1..Len(list)
      BY <2>0
    <3> QED BY <2>0, <3>1, <3>2 DEF list
  <2>2. todo' \in Seq(AnyOperation)
    BY <1>3, <2>1, SubSeqProperties DEF SkipsFilter
  <2> QED BY <2>2, <1>1 DEF ListOK
<1>4. ASSUME NEW next, GoesOn(next) PROVE ListOK'
  <2>1. next \in Seq(AnyOperation)
    BY <1>4, SuccessorsAreOperations, ListGrows DEF GoesOn
  <2>2. todo' \in Seq(AnyOperation)
    BY <1>4, <2>1, EndsIndices DEF GoesOn, ListOK
  <2> QED BY <2>2, <1>1 DEF ListOK
<1> QED BY <1>1, <1>2, <1>3, <1>4

(* What the chains, the modes and the end may change of the other variables. *)
LEMMA KeepValues ==
  ASSUME ValuesOK, options' = options, target' = target,
         isOpen' = isOpen \/ isOpen' = TRUE \/ isOpen' = FALSE,
         errors' = errors \/ errors' = TRUE, flag' = flag \/ flag' = TRUE,
         defines' = defines, lastCommand' = lastCommand, hasStopped' = hasStopped,
         exitCode' \in {exitCode, Crashed, Aborted, 0, -1, -10, -11, -14},
         inferior' = inferior, breakpoints' = breakpoints, told' = told, stops' = stops,
         result' \in {result, "ok", "failed"}
  PROVE  ValuesOK'
<1>1. isOpen' \in BOOLEAN /\ errors' \in BOOLEAN /\ flag' \in BOOLEAN
  BY DEF ValuesOK
<1> QED BY <1>1 DEF ValuesOK

(* The chains, the modes, the end of main and gdb keep the types.          *)
LEMMA ChainValues ==
  ASSUME ValuesOK, Chain PROVE ValuesOK'
<1> USE DEF ValuesOK, Elsewhere, MainStays, DecoderStays, programVars, gdbVars, decoderVars
<1>1. StartFails /\ Elsewhere => ValuesOK'
  BY DEF StartFails
<1>2. CASE Ignored
  BY <1>2 DEF Ignored
<1>3. CASE ExecuteEnds
  BY <1>3 DEF ExecuteEnds, Exits
<1>4. CASE initSystem
  <2>1. isOpen' = TRUE /\ UNCHANGED <<defines, errors, exitCode, result>>
        /\ UNCHANGED <<options, target, flag, lastCommand, hasStopped, inferior, breakpoints,
                      told, stops>>
    BY <1>4 DEF initSystem
  <2> QED BY <2>1, KeepValues
<1>5. CASE Connected
  <2>1. CASE StartFails
    BY <1>1, <1>5, <2>1 DEF Connected
  <2>2. CASE ~StartFails
    <3>1. /\ isOpen' = isOpen \/ isOpen' = FALSE
          /\ UNCHANGED <<defines, errors, exitCode, result>>
          /\ UNCHANGED <<options, target, flag, lastCommand, hasStopped, inferior,
                        breakpoints, told, stops>>
      BY <1>5, <2>2 DEF Connected
    <3> QED BY <3>1, KeepValues
  <2> QED BY <2>1, <2>2
<1>6. CASE removeFrame
  BY <1>6 DEF removeFrame
<1>7. CASE getTargetDefines
  <2>1. target \in TargetType
    BY ProgramAssumption
  <2>2. defines' = NoDefines \/ defines' = Compiled
    BY <1>7, <2>1, DecodesWhatIsEncoded DEF getTargetDefines
  <2>3. /\ NoDefines \in [testMode: BOOLEAN, swBreakpoints: BOOLEAN, version: 0..7]
        /\ Compiled \in [testMode: BOOLEAN, swBreakpoints: BOOLEAN, version: 0..7]
    BY <2>1 DEF NoDefines, Compiled, TargetType
  <2> QED BY <1>7, <2>2, <2>3 DEF getTargetDefines
<1>8. CASE renewEUnitBreakpoints
  BY <1>8 DEF renewEUnitBreakpoints, Exits
<1>9. CASE startTestMode
  BY <1>1, <1>9 DEF startTestMode
<1>10. CASE FirstStop
  BY <1>1, <1>10 DEF FirstStop, Exits
<1> QED BY <1>2, <1>3, <1>4, <1>5, <1>6, <1>7, <1>8, <1>9, <1>10 DEF Chain

LEMMA ModeValues ==
  ASSUME ValuesOK, Mode PROVE ValuesOK'
<1> USE DEF ValuesOK, Elsewhere, MainStays, DecoderStays, programVars, gdbVars, decoderVars
<1>1. ASSUME NEW name, SetFilter(name) PROVE ValuesOK'
  BY <1>1 DEF SetFilter, Exits
<1>2. CASE FilterFits
  <2>1. /\ errors' = errors \/ errors' = TRUE
        /\ UNCHANGED <<isOpen, defines, exitCode, result>>
        /\ UNCHANGED <<options, target, flag, lastCommand, hasStopped, inferior, breakpoints,
                      told, stops>>
    BY <1>2 DEF FilterFits
  <2> QED BY <2>1, KeepValues
<1>3. CASE Continue
  BY <1>3 DEF Continue
<1>4. CASE executeAllTest
  <2>1. /\ errors' = errors \/ errors' = TRUE
        /\ exitCode' \in {exitCode, -10, -11} /\ result' \in {result, "ok", "failed"}
        /\ UNCHANGED <<isOpen, defines>>
        /\ UNCHANGED <<options, target, flag, lastCommand, hasStopped, inferior, breakpoints,
                      told, stops>>
    BY <1>4 DEF executeAllTest, Exits
  <2> QED BY <2>1, KeepValues
<1>5. CASE TakesFrame
  BY <1>5 DEF TakesFrame
<1>6. CASE NoNewFrame
  <2>1. exitCode' = exitCode \/ exitCode' = Crashed
    <3>1. IF frame = "" THEN Exits(Crashed) ELSE UNCHANGED exitCode
      BY <1>6 DEF NoNewFrame
    <3> QED BY <3>1 DEF Exits
  <2>2. /\ UNCHANGED <<isOpen, errors, defines, result>>
        /\ UNCHANGED <<options, target, flag, lastCommand, hasStopped, inferior, breakpoints,
                      told, stops>>
    BY <1>6 DEF NoNewFrame
  <2> QED BY <2>1, <2>2, KeepValues
<1>7. CASE Detached
  BY <1>7 DEF Detached, Exits
<1> QED BY <1>1, <1>2, <1>3, <1>4, <1>5, <1>6, <1>7 DEF Mode

LEMMA EndValues ==
  ASSUME ValuesOK, EndOfMain PROVE ValuesOK'
<1> USE DEF ValuesOK, Elsewhere, MainStays, DecoderStays, programVars, gdbVars, decoderVars
<1>1. CASE AfterMode
  BY <1>1 DEF AfterMode
<1>2. CASE failSilent
  BY <1>2 DEF failSilent
<1>3. CASE cleanUpAndExit
  <2>1. exitCode' \in {0, -1}
    BY <1>3 DEF cleanUpAndExit, Exits
  <2> QED BY <1>3, <2>1 DEF cleanUpAndExit
<1> QED BY <1>1, <1>2, <1>3 DEF EndOfMain

LEMMA GdbValues ==
  ASSUME ValuesOK, GdbStep PROVE ValuesOK'
<1> USE DEF ValuesOK, programVars, gdbVars
<1>1. /\ UNCHANGED <<programVars, todo, sent, isOpen, defines, errors, frame, flag, stops,
                    result>>
      /\ AnswerError \/ Resume \/ AnswerDone(head.do)
  BY DEF GdbStep
<1>2. CASE AnswerError
  BY <1>1, <1>2 DEF AnswerError
<1>3. CASE Resume
  BY <1>1, <1>3 DEF Resume
<1>4. CASE AnswerDone(head.do)
  <2>1. inferior' \in {"none", "halted", "running", "detached"}
    BY <1>4 DEF AnswerDone
  <2>2. breakpoints' \subseteq {"detachTarget", "MessageToDebugger", "printOverGdb"}
        /\ told' \subseteq {"level", "optInTestGroups", "optOutTestGroups"}
    BY <1>4 DEF AnswerDone
  <2> QED BY <1>1, <1>4, <2>1, <2>2 DEF AnswerDone
<1> QED BY <1>1, <1>2, <1>3, <1>4

(* The list main begins with, in every mode.                               *)
LEMMA TypeInit == Init => TypeInv
<1> SUFFICES ASSUME Init PROVE ValuesOK /\ ListOK
  BY TypeInvParts
<1>1. ValuesOK
  <2>1. NoDefines \in [testMode: BOOLEAN, swBreakpoints: BOOLEAN, version: 0..7]
    BY DEF NoDefines
  <2>2. 0 \in 0..MaxStops
    BY ProgramAssumption
  <2>3. /\ options \in Options /\ target \in Targets
        /\ isOpen \in BOOLEAN /\ errors \in BOOLEAN /\ flag \in BOOLEAN
        /\ hasStopped \in BOOLEAN
    BY DEF Init
  <2>4. /\ defines = NoDefines /\ exitCode = Alive /\ lastCommand = "done"
        /\ inferior = "none" /\ breakpoints = {} /\ told = {} /\ stops = 0 /\ result = "none"
    BY DEF Init
  <2> QED BY <2>1, <2>2, <2>3, <2>4 DEF ValuesOK
<1>2. todo \in Seq(AnyOperation)
  <2>1. \A name \in AllNames : Call(name) \in AnyOperation
    BY CallIsAny
  <2>2. Command("level") \in AnyOperation /\ Execute("-exec-continue") \in AnyOperation
    BY CommandIsAny, ExecuteIsAny DEF AllCommands, Commands
  <2>3. /\ Call("initSystem") \in AnyOperation /\ Call("startTestMode") \in AnyOperation
        /\ Call("renewEUnitBreakpoints") \in AnyOperation /\ Call("continue") \in AnyOperation
        /\ Call("executeAllTest") \in AnyOperation /\ Call("loop") \in AnyOperation
        /\ Call("afterMode") \in AnyOperation /\ Call("optInTestGroups") \in AnyOperation
        /\ Call("optOutTestGroups") \in AnyOperation
    BY <2>1 DEF AllNames, Names
  <2>4. runMode \in Seq(AnyOperation)
    BY <2>3, ListFour DEF runMode
  <2>5. flashMode \in Seq(AnyOperation)
    BY <2>2, <2>3, ListTwo DEF flashMode
  <2>6. testMode \in Seq(AnyOperation)
    <3> DEFINE start == <<Call("initSystem"), Call("startTestMode"),
                          Call("renewEUnitBreakpoints"), Command("level")>>
               optIn == Filter(options.enabledTestGroups, "optInTestGroups")
               optOut == Filter(options.disabedTestGroups, "optOutTestGroups")
               tests == <<Call("continue"), Call("executeAllTest")>>
    <3>1. start \in Seq(AnyOperation) /\ tests \in Seq(AnyOperation)
      BY <2>2, <2>3, ListFour, ListTwo
    <3>2. optIn \in Seq(AnyOperation) /\ optOut \in Seq(AnyOperation)
      BY <2>3, ListOne, ListNone DEF Filter
    <3>3. testMode = ((start \o optIn) \o optOut) \o tests
      BY DEF testMode
    <3> HIDE DEF start, optIn, optOut, tests
    <3>4. start \o optIn \in Seq(AnyOperation)
      BY <3>1, <3>2, ListConcat
    <3>5. (start \o optIn) \o optOut \in Seq(AnyOperation)
      BY <3>2, <3>4, ListConcat
    <3> QED BY <3>1, <3>3, <3>5, ListConcat
  <2> DEFINE after == <<Call("afterMode")>>
             mode == CASE options.executionMode = "testMode" -> testMode
                       [] options.executionMode = "runMode" -> runMode
                       [] options.executionMode = "flashMode" -> flashMode
  <2>7. after \in Seq(AnyOperation)
    BY <2>3, ListOne
  <2>8. mode \in Seq(AnyOperation)
    <3>1. options.executionMode \in Modes
      BY <1>1, ProgramAssumption DEF ValuesOK, OptionType
    <3> QED BY <3>1, <2>4, <2>5, <2>6 DEF Modes
  <2>9. todo = mode \o after
    BY DEF Init, executeMode
  <2> HIDE DEF mode, after
  <2> QED BY <2>7, <2>8, <2>9, ListConcat
<1> QED BY <1>1, <1>2 DEF ListOK, Init

(* Every step keeps the types.                                             *)
LEMMA TypeStep == TypeInv /\ [Next]_vars => TypeInv'
<1> SUFFICES ASSUME TypeInv, [Next]_vars PROVE ValuesOK' /\ ListOK'
  <2>1. (ValuesOK /\ ListOK => TypeInv)'
    BY TypeInvParts, PTL
  <2> QED BY <2>1
<1>1. ValuesOK /\ ListOK
  BY TypeInvParts
<1>2. CASE Send
  <2>1. ValuesOK'
    BY <1>1, <1>2 DEF Send, ValuesOK, programVars, gdbVars
  <2>2. ListOK'
    BY <1>1, <1>2 DEF Send, ListOK, Turn, head
  <2> QED BY <2>1, <2>2
<1>3. CASE Chain \/ Mode \/ EndOfMain
  BY <1>1, <1>3, TodoIsTyped, ChainValues, ModeValues, EndValues
<1>4. CASE GdbStep
  BY <1>1, <1>4, GdbValues DEF GdbStep, ListOK, head
<1>5. CASE TargetStops
  <2>1. ListOK'
    BY <1>1, <1>5 DEF TargetStops, ListOK, head, mainVars
  <2>2. stops' \in 0..MaxStops
    BY <1>1, <1>5, ProgramAssumption DEF TargetStops, ValuesOK
  <2>3. inferior' \in {"halted", "none"}
    BY <1>5 DEF TargetStops
  <2>4. ValuesOK'
    BY <1>1, <1>5, <2>2, <2>3 DEF TargetStops, ValuesOK, programVars, mainVars
  <2> QED BY <2>1, <2>4
<1>6. CASE UNCHANGED vars
  <2>1. ValuesOK'
    BY <1>1, <1>6 DEF vars, programVars, mainVars, decoderVars, gdbVars, ValuesOK
  <2>2. ListOK'
    BY <1>1, <1>6 DEF vars, mainVars, ListOK, head
  <2> QED BY <2>1, <2>2
<1> QED BY <1>2, <1>3, <1>4, <1>5, <1>6 DEF Next, Main

(* Every variable keeps its type, and main never waits for an answer it    *)
(* has not asked for: in every mode, for every set of command lines and    *)
(* targets.                                                                *)
THEOREM HostTypes == Spec => []TypeOK
<1>1. TypeInv => TypeOK
  BY DEF TypeInv
<1> QED BY <1>1, TypeInit, TypeStep, PTL DEF Spec
-----------------------------------------------------------------------------
(* Operations that have nothing to do with the target's running. *)
Idle(op) == ~Resumes(op) /\ op.name \notin {"startTestMode", "fits"} /\ Sound(op)

(* The operations that do not resume the target.                           *)
LEMMA IdleOperations ==
  /\ \A name \in {"removeFrame", "renewEUnitBreakpoints", "detached", "failSilent",
                  "cleanUpAndExit"} : Idle(Call(name))
  /\ \A do \in {"-gdb-set mi-async on", "set_parallelism_mode", "load", "set $pc",
                "detachTarget", "MessageToDebugger", "printOverGdb", "optInTestGroups",
                "optOutTestGroups", "set $pc +=2", "level", "getResultData",
                "test_result_index", "breaksMode", "-target-disconnect", "-target-detach"} :
       Idle(Command(do))
  /\ \A do \in {"memset", "-exec-return", "-target-detach", "-exec-interrupt", "script"} :
       Idle(Execute(do))
  /\ Idle(Op("connected", "target-select", {"stopped", "done"}))
  /\ Idle(Op("getTargetDefines", "defines", {"done"}))
  /\ Idle(Op("ignored", "interrupt", {"done", "stopped"}))
<1> USE DEF Op, Idle, Resumes, Sound, BreakNames
<1>1. \A name \in {"removeFrame", "renewEUnitBreakpoints", "detached", "failSilent",
                  "cleanUpAndExit"} : Idle(Call(name))
  BY DEF Call
<1>2. \A do \in {"-gdb-set mi-async on", "set_parallelism_mode", "load", "set $pc",
                "detachTarget", "MessageToDebugger", "printOverGdb", "optInTestGroups",
                "optOutTestGroups", "set $pc +=2", "level", "getResultData",
                "test_result_index", "breaksMode", "-target-disconnect", "-target-detach"} :
        Idle(Command(do))
  BY DEF Command
<1>3. \A do \in {"memset", "-exec-return", "-target-detach", "-exec-interrupt", "script"} :
        Idle(Execute(do))
  BY DEF Execute
<1>4. Idle(Op("connected", "target-select", {"stopped", "done"}))
  OBVIOUS
<1>5. Idle(Op("getTargetDefines", "defines", {"done"}))
  OBVIOUS
<1>6. Idle(Op("ignored", "interrupt", {"done", "stopped"}))
  OBVIOUS
<1> QED BY <1>1, <1>2, <1>3, <1>4, <1>5, <1>6

(* What may follow an operation, as far as the breakpoints go. *)
LEMMA ResumingFollows ==
  ASSUME NEW name, NEW op \in Successors(name)
  PROVE  /\ Resumes(op) => name \in {"continue", "loop", "startTestMode"}
         /\ op.name # "startTestMode" /\ Sound(op)
         /\ op.name = "fits" => name \in Filters
<1>1. Idle(op) => ~Resumes(op) /\ op.name \notin {"startTestMode", "fits"} /\ Sound(op)
  BY DEF Idle
<1> DEFINE runs == Op("firstStop", "run", {"stopped"})
           continues == Op("firstStop", "-exec-continue", {"stopped"})
           fits == Op("fits", "sizeof", {"done"})
<1>2. \A o \in {Call("continue"), Call("loop"), continueAfterMockStub, runs, continues} :
        o.name \notin {"startTestMode", "fits"} /\ Sound(o)
  <2> USE DEF Sound, BreakNames, Op
  <2>1. /\ Call("continue").name = "continue" /\ Sound(Call("continue"))
        /\ Call("loop").name = "loop" /\ Sound(Call("loop"))
    BY DEF Call
  <2>2. continueAfterMockStub.name = "ignored" /\ Sound(continueAfterMockStub)
    BY DEF continueAfterMockStub
  <2>3. runs.name = "firstStop" /\ Sound(runs)
    OBVIOUS
  <2>4. continues.name = "firstStop" /\ Sound(continues)
    OBVIOUS
  <2> HIDE DEF runs, continues, Sound
  <2> QED BY <2>1, <2>2, <2>3, <2>4
<1>3. fits.name # "startTestMode" /\ Sound(fits) /\ ~Resumes(fits)
  BY DEF Sound, BreakNames, Op, Resumes
<1> HIDE DEF runs, continues, fits
<1>4. CASE name \in {"initSystem", "connected"}
  <2>1. Idle(op)
    BY <1>4, IdleOperations DEF Successors
  <2> QED BY <1>1, <2>1
<1>5. CASE name \in {"renewEUnitBreakpoints", "afterMode"}
  <2>1. Idle(op)
    BY <1>5, IdleOperations DEF Successors
  <2> QED BY <1>1, <2>1
<1>6. CASE name = "startTestMode"
  <2>1. Idle(op) \/ op \in {runs, continues}
    BY <1>6, IdleOperations DEF Successors, runs, continues
  <2> QED BY <1>1, <1>2, <1>6, <2>1
<1>7. CASE name \in {"optInTestGroups", "optOutTestGroups"}
  <2>1. Idle(op) \/ op = fits
    BY <1>7, IdleOperations DEF Successors, fits
  <2> QED BY <1>1, <1>3, <1>7, <2>1 DEF Filters
<1>8. CASE name = "continue"
  <2>1. Idle(op) \/ op = continueAfterMockStub
    BY <1>8, IdleOperations DEF Successors
  <2> QED BY <1>1, <1>2, <1>8, <2>1
<1>9. CASE name = "loop"
  <2>1. Idle(op) \/ op \in {Call("continue"), Call("loop"), continueAfterMockStub}
    BY <1>9, IdleOperations DEF Successors
  <2> QED BY <1>1, <1>2, <1>9, <2>1
<1>10. CASE Successors(name) = {}
  BY <1>10
<1> QED BY <1>4, <1>5, <1>6, <1>7, <1>8, <1>9, <1>10 DEF Successors

(* An operation ends, and the target is still watched before it runs.      *)
LEMMA WatchReplace ==
  ASSUME ListOK, SetFirst, ClosedRuns, SoundList, NEW next, GoesOn(next),
         \A k \in 1..Len(next) : Resumes(next[k]) => Resumes(head) \/ SetBefore(next, k),
         \A k \in 1..Len(next) : next[k].name = "fits" => k < Len(next) /\ IsFilter(next[k + 1]),
         ~isOpen /\ head.name # "initSystem" => \A k \in 1..Len(next) : ~Resumes(next[k]),
         head.name = "renewEUnitBreakpoints" =>
           \/ Observed
           \/ /\ target.version = 1
              /\ \A b \in Watched : \E i \in 1..Len(next) : next[i].do = b,
         head.do \in Watched =>
           head.do \in breakpoints \/ \A j \in 1..Len(todo) : ~Resumes(todo[j]),
         target' = target, breakpoints' = breakpoints,
         isOpen' = isOpen \/ isOpen' = TRUE, head.name = "initSystem" => isOpen'
  PROVE  SetFirst' /\ ClosedRuns' /\ SoundList'
<1> DEFINE n == Len(next)
           at(k) == k + 1 - n
<1>1. next \in Seq(AnyOperation) /\ \A k \in 1..n : next[k] \in Successors(head.name)
  <2>1. next \in Seq(Successors(head.name))
    BY DEF GoesOn
  <2>2. next \in Seq(AnyOperation)
    BY <2>1, SuccessorsAreOperations, ListGrows
  <2> QED BY <2>1, <2>2, ElementOfSeq
<1>2. /\ todo # << >> /\ Len(todo) \in Nat /\ Len(todo) >= 1 /\ n \in Nat
      /\ Len(todo') = n + Len(todo) - 1
      /\ \A k \in 1..n : todo'[k] = next[k]
      /\ \A k \in (n + 1)..Len(todo') : todo'[k] = todo[at(k)]
  BY <1>1, EndsIndices DEF GoesOn, ListOK
<1> HIDE DEF n
<1>3. /\ Len(todo') \in Nat
      /\ \A k \in 1..Len(todo') : k \in 1..n \/ k \in (n + 1)..Len(todo')
      /\ \A k \in (n + 1)..Len(todo') : at(k) \in 1..Len(todo) /\ at(k) > 1
      /\ \A k \in 1..n : k \in 1..Len(todo')
      /\ 1 \in 1..Len(todo) /\ head = todo[1]
  BY <1>2 DEF head
<1>4. \A k \in 1..Len(todo') :
        \/ k \in 1..n /\ todo'[k] = next[k]
        \/ k \in (n + 1)..Len(todo') /\ todo'[k] = todo[at(k)] /\ at(k) \in 1..Len(todo)
           /\ at(k) > 1
  BY <1>2, <1>3
<1>5. Observed' = Observed /\ Watched' = Watched
  BY DEF Observed, Watched
<1>6. SetFirst'
  <2> SUFFICES ASSUME NEW k \in 1..Len(todo'), Resumes(todo'[k]), ~Observed
               PROVE  \/ \E i \in 1..(k - 1) : todo'[i].name = "renewEUnitBreakpoints"
                      \/ /\ target.version = 1
                         /\ \A b \in Watched :
                              b \in breakpoints \/ \E i \in 1..(k - 1) : todo'[i].do = b
    BY <1>5 DEF SetFirst, SetBefore
  <2>1. CASE k \in 1..n /\ todo'[k] = next[k]
    <3>1. CASE Resumes(head)
      <4>1. SetBefore(todo, 1)
        BY <3>1, <1>3 DEF SetFirst
      <4> QED BY <4>1 DEF SetBefore
    <3>2. CASE SetBefore(next, k)
      <4>1. \A i \in 1..(k - 1) : todo'[i] = next[i]
        BY <2>1, <1>2
      <4> QED BY <3>2, <4>1 DEF SetBefore
    <3> QED BY <2>1, <3>1, <3>2 DEF n
  <2>2. CASE k \in (n + 1)..Len(todo') /\ todo'[k] = todo[at(k)]
    <3>1. Resumes(todo[at(k)]) /\ at(k) \in 1..Len(todo)
      BY <2>2, <1>3
    <3>2. SetBefore(todo, at(k))
      BY <3>1 DEF SetFirst
    <3>3. \A i \in 1..(at(k) - 1) :
            i = 1 \/ (i > 1 /\ (i + n - 1) \in 1..(k - 1) /\ todo'[i + n - 1] = todo[i])
      <4> SUFFICES ASSUME NEW i \in 1..(at(k) - 1), i # 1
                   PROVE  i > 1 /\ (i + n - 1) \in 1..(k - 1) /\ todo'[i + n - 1] = todo[i]
        OBVIOUS
      <4>1. /\ i > 1 /\ (i + n - 1) \in 1..(k - 1) /\ (i + n - 1) \in (n + 1)..Len(todo')
            /\ at(i + n - 1) = i
        BY <2>2, <1>2, <1>3
      <4> QED BY <4>1, <1>2
    <3>4. \A i \in 1..n : i \in 1..(k - 1) /\ todo'[i] = next[i]
      BY <2>2, <1>2
    <3>5. CASE \E i \in 1..(at(k) - 1) : todo[i].name = "renewEUnitBreakpoints"
      <4>1. PICK i \in 1..(at(k) - 1) : todo[i].name = "renewEUnitBreakpoints"
        BY <3>5
      <4>2. CASE i = 1
        <5>1. /\ target.version = 1
              /\ \A b \in Watched : \E m \in 1..n : next[m].do = b
          BY <4>1, <4>2, <1>3 DEF n
        <5> QED BY <5>1, <3>4
      <4>3. CASE i > 1
        BY <4>1, <4>3, <3>3
      <4> QED BY <4>2, <4>3
    <3>6. CASE /\ target.version = 1
               /\ \A b \in Watched :
                    b \in breakpoints \/ \E i \in 1..(at(k) - 1) : todo[i].do = b
      <4> SUFFICES ASSUME NEW b \in Watched, b \notin breakpoints
                   PROVE  \E i \in 1..(k - 1) : todo'[i].do = b
        BY <3>6
      <4>1. PICK i \in 1..(at(k) - 1) : todo[i].do = b
        BY <3>6
      <4>2. i # 1
        BY <4>1, <3>1, <1>3
      <4> QED BY <4>1, <4>2, <3>3
    <3> QED BY <3>2, <3>5, <3>6 DEF SetBefore
  <2> QED BY <2>1, <2>2, <1>4
<1>7. ClosedRuns'
  <2> SUFFICES ASSUME ~isOpen', NEW k \in 1..Len(todo')
               PROVE  ~Resumes(todo'[k]) /\ todo'[k].name # "startTestMode"
    BY DEF ClosedRuns
  <2>1. ~isOpen /\ head.name # "initSystem"
    OBVIOUS
  <2>2. \A j \in 1..Len(todo) : ~Resumes(todo[j]) /\ todo[j].name # "startTestMode"
    BY <2>1 DEF ClosedRuns
  <2>3. CASE k \in 1..n /\ todo'[k] = next[k]
    BY <2>1, <2>3, <1>1, ResumingFollows DEF n
  <2>4. CASE todo'[k] = todo[at(k)] /\ at(k) \in 1..Len(todo)
    BY <2>2, <2>4
  <2> QED BY <2>3, <2>4, <1>4
<1>8. SoundList'
  <2> SUFFICES ASSUME NEW k \in 1..Len(todo')
               PROVE  /\ Sound(todo'[k])
                      /\ todo'[k].name = "fits" => k < Len(todo') /\ IsFilter(todo'[k + 1])
    BY DEF SoundList
  <2>1. CASE k \in 1..n /\ todo'[k] = next[k]
    <3>1. Sound(todo'[k])
      BY <2>1, <1>1, ResumingFollows
    <3>2. ASSUME todo'[k].name = "fits" PROVE k < Len(todo') /\ IsFilter(todo'[k + 1])
      <4>1. k < n /\ IsFilter(next[k + 1])
        BY <2>1, <3>2 DEF n
      <4>2. k + 1 \in 1..n /\ k < Len(todo')
        BY <2>1, <4>1, <1>2
      <4> QED BY <4>1, <4>2, <1>2
    <3> QED BY <3>1, <3>2
  <2>2. CASE k \in (n + 1)..Len(todo') /\ todo'[k] = todo[at(k)] /\ at(k) \in 1..Len(todo)
    <3>1. Sound(todo'[k])
      BY <2>2 DEF SoundList
    <3>2. ASSUME todo'[k].name = "fits" PROVE k < Len(todo') /\ IsFilter(todo'[k + 1])
      <4>1. at(k) < Len(todo) /\ IsFilter(todo[at(k) + 1])
        BY <2>2, <3>2 DEF SoundList
      <4>2. k + 1 \in (n + 1)..Len(todo') /\ at(k) + 1 = at(k + 1) /\ k < Len(todo')
        BY <2>2, <4>1, <1>2
      <4> QED BY <4>1, <4>2, <1>2
    <3> QED BY <3>1, <3>2
  <2> QED BY <2>1, <2>2, <1>4
<1> QED BY <1>6, <1>7, <1>8

(* What main waits for. *)
LEMMA HeadIsListed ==
  ASSUME ListOK, todo # << >>
  PROVE  /\ Len(todo) \in Nat /\ 1 \in 1..Len(todo) /\ head = todo[1]
         /\ head \in AnyOperation
<1>1. todo \in Seq(AnyOperation)
  BY DEF ListOK
<1>2. /\ Head(todo) \in AnyOperation /\ Head(todo) = todo[1]
      /\ Tail(todo) \in Seq(AnyOperation) /\ Len(Tail(todo)) = Len(todo) - 1
  BY <1>1, HeadTailProperties
<1>3. Len(todo) \in Nat /\ Len(Tail(todo)) \in Nat
  BY <1>1, <1>2, LenProperties
<1>4. \A n \in Nat : n - 1 \in Nat => 1 \in 1..n
  OBVIOUS
<1>5. 1 \in 1..Len(todo)
  BY <1>2, <1>3, <1>4, Zenon
<1> QED BY <1>2, <1>3, <1>5 DEF head

(* Where nothing that begins, resumes or sets breakpoints ends, or is      *)
(* made, all conditions of WatchReplace hold.                              *)
LEMMA WatchGoesOn ==
  ASSUME ListOK, SetFirst, ClosedRuns, SoundList, NEW next, GoesOn(next),
         head.name \notin {"startTestMode", "renewEUnitBreakpoints", "optInTestGroups",
                           "optOutTestGroups"},
         head.do \in Watched =>
           head.do \in breakpoints \/ \A j \in 1..Len(todo) : ~Resumes(todo[j]),
         target' = target, breakpoints' = breakpoints,
         isOpen' = isOpen \/ isOpen' = TRUE, head.name = "initSystem" => isOpen'
  PROVE  SetFirst' /\ ClosedRuns' /\ SoundList'
<1>1. \A k \in 1..Len(next) : next[k] \in Successors(head.name)
  BY ElementOfSeq DEF GoesOn
<1>2. \A k \in 1..Len(next) : Resumes(next[k]) => Resumes(head)
  BY <1>1, ResumingFollows DEF Resumes
<1>3. \A k \in 1..Len(next) : next[k].name # "fits"
  BY <1>1, ResumingFollows DEF Filters
<1>4. todo # << >>
  BY DEF GoesOn, Ends, Turn
<1>5. ~isOpen /\ head.name # "initSystem" => ~Resumes(head)
  BY <1>4, HeadIsListed DEF ClosedRuns
<1>6. ~isOpen /\ head.name # "initSystem" => \A k \in 1..Len(next) : ~Resumes(next[k])
  BY <1>2, <1>5
<1> QED BY <1>2, <1>3, <1>6, WatchReplace

(* Two operations in a row, by their index. *)
LEMMA TwoIndices ==
  ASSUME NEW a, NEW b
  PROVE  Len(<<a, b>>) = 2 /\ <<a, b>>[1] = a /\ <<a, b>>[2] = b
OBVIOUS

(* The breakpoints are renewed. *)
LEMMA RenewWatches ==
  ASSUME ListOK, RefusalInv, SetFirst, ClosedRuns, SoundList, renewEUnitBreakpoints, ~gone'
  PROVE  SetFirst' /\ ClosedRuns' /\ SoundList'
<1> DEFINE S == Successors("renewEUnitBreakpoints")
           own == IF defines.testMode THEN "MessageToDebugger" ELSE "printOverGdb"
           hardware == IF defines.swBreakpoints THEN << >>
                       ELSE <<Command("detachTarget"), Command(own)>>
           prints == IF defines.testMode THEN << >> ELSE <<Command("printOverGdb")>>
           next == hardware \o prints
<1>1. /\ Command("detachTarget") \in S /\ Command(own) \in S /\ Command("printOverGdb") \in S
  BY DEF Successors
<1>2. Ends("renewEUnitBreakpoints", next)
  BY DEF renewEUnitBreakpoints
<1>3. /\ head.name = "renewEUnitBreakpoints" /\ todo # << >>
      /\ target' = target /\ breakpoints' = breakpoints /\ isOpen' = isOpen
  BY DEF renewEUnitBreakpoints, Ends, Turn, Elsewhere, programVars, gdbVars
<1>4. defines.swBreakpoints \/ FeatureSupported("UseSoftwareBreakpoints", defines.version)
  BY DEF renewEUnitBreakpoints, Exits, gone, Alive
<1> HIDE DEF S
<1>5. hardware \in Seq(S) /\ prints \in Seq(S)
  <2> HIDE DEF own
  <2> QED BY <1>1, ListOne, ListTwo, ListNone
<1>6. next \in Seq(S)
  <2> HIDE DEF hardware, prints
  <2> QED BY <1>5, ListConcat
<1>7. \A k \in 1..Len(next) : next[k] \in S
  BY <1>6, ElementOfSeq
<1>8. \/ Observed
      \/ /\ target.version = 1
         /\ \A b \in Watched : \E i \in 1..Len(next) : next[i].do = b
  <2>1. target \in TargetType
    BY ProgramAssumption DEF RefusalInv
  <2>2. CASE defines = NoDefines
    BY <1>4, <2>2 DEF NoDefines, FeatureSupported, Features
  <2>3. CASE defines = Compiled
    <3>1. /\ defines.testMode = target.testMode /\ defines.version = target.version
          /\ defines.swBreakpoints = target.swBreakpoints /\ target.version \in 0..7
      BY <2>1, <2>3 DEF Compiled, TargetType
    <3>2. CASE defines.swBreakpoints
      BY <3>1, <3>2 DEF Observed
    <3>3. CASE ~defines.swBreakpoints
      <4>1. target.version = 1
        BY <1>4, <3>1, <3>3 DEF FeatureSupported, Features, knownVersion
      <4>2. hardware = <<Command("detachTarget"), Command(own)>>
        BY <3>3
      <4>3. Watched = {"detachTarget", own}
        BY <3>1 DEF Watched
      <4> DEFINE d == Command("detachTarget")
                 o == Command(own)
      <4>4. d.do = "detachTarget" /\ o.do = own
        BY DEF Command, Op
      <4>5. d \in S /\ o \in S
        BY <1>1
      <4> HIDE DEF own, d, o, prints
      <4>6. hardware \in Seq(S) /\ Len(hardware) = 2 /\ hardware[1] = d /\ hardware[2] = o
        BY <1>5, <4>2, TwoIndices DEF d, o
      <4>7. Len(prints) \in Nat
        BY <1>5, LenProperties
      <4>8. /\ Len(hardware \o prints) = Len(hardware) + Len(prints)
            /\ \A i \in 1..(Len(hardware) + Len(prints)) :
                 (hardware \o prints)[i] = IF i <= Len(hardware) THEN hardware[i]
                                           ELSE prints[i - Len(hardware)]
        BY <1>5, ConcatProperties
      <4> HIDE DEF hardware
      <4>9. 1 \in 1..Len(next) /\ 2 \in 1..Len(next) /\ next[1] = d /\ next[2] = o
        BY <4>6, <4>7, <4>8
      <4> HIDE DEF next
      <4> QED BY <4>1, <4>3, <4>4, <4>9
    <3> QED BY <3>2, <3>3
  <2> QED BY <2>2, <2>3 DEF RefusalInv, ReadAsCompiled
<1> HIDE DEF next
<1>9. GoesOn(next)
  BY <1>2, <1>3, <1>6 DEF GoesOn, S
<1>10. \A k \in 1..Len(next) : ~Resumes(next[k]) /\ next[k].name # "fits"
  BY <1>7, ResumingFollows DEF S, Filters
<1>11. head.do \notin Watched
  <2>1. Sound(head)
    BY <1>3, HeadIsListed DEF SoundList
  <2> QED BY <1>3, <2>1 DEF Sound, BreakNames, Watched
<1>12. \A k \in 1..Len(next) : Resumes(next[k]) => Resumes(head) \/ SetBefore(next, k)
  BY <1>10
<1>13. \A k \in 1..Len(next) : next[k].name = "fits" => k < Len(next) /\ IsFilter(next[k + 1])
  BY <1>10
<1>14. ~isOpen /\ head.name # "initSystem" => \A k \in 1..Len(next) : ~Resumes(next[k])
  BY <1>10
<1> QED BY <1>3, <1>8, <1>9, <1>11, <1>12, <1>13, <1>14, WatchReplace

(* Test mode starts, with the breakpoints first. *)
LEMMA StartWatches ==
  ASSUME ListOK, SetFirst, ClosedRuns, SoundList, startTestMode, ~StartFails
  PROVE  SetFirst' /\ ClosedRuns' /\ SoundList'
<1> DEFINE S == Successors("startTestMode")
           renews == Call("renewEUnitBreakpoints")
           first == Op("firstStop", IF options.runOnTarget THEN "-exec-continue" ELSE "run",
                       {"stopped"})
           next == <<renews, first>>
<1>1. renews \in S /\ first \in S
  BY DEF Successors
<1>2. /\ Ends("startTestMode", next) /\ isOpen' = isOpen
      /\ target' = target /\ breakpoints' = breakpoints
  BY DEF startTestMode, MainStays, Elsewhere, programVars, gdbVars
<1>3. head.name = "startTestMode" /\ todo # << >>
  BY <1>2 DEF Ends, Turn
<1>4. /\ renews.name = "renewEUnitBreakpoints" /\ ~Resumes(renews)
      /\ first.name = "firstStop"
  BY DEF Call, Op, Resumes
<1> HIDE DEF S, renews, first
<1>5. /\ next \in Seq(S) /\ Len(next) = 2 /\ next[1] = renews /\ next[2] = first
  BY <1>1, ListTwo, TwoIndices
<1> HIDE DEF next
<1>6. GoesOn(next)
  BY <1>2, <1>3, <1>5 DEF GoesOn, S
<1>7. \A k \in 1..Len(next) : k = 1 \/ k = 2
  BY <1>5
<1>8. \A k \in 1..Len(next) : Resumes(next[k]) => Resumes(head) \/ SetBefore(next, k)
  <2>1. 1 \in 1..(2 - 1) /\ next[1].name = "renewEUnitBreakpoints"
    BY <1>4, <1>5
  <2>2. SetBefore(next, 2)
    BY <2>1 DEF SetBefore
  <2> QED BY <1>4, <1>5, <1>7, <2>2
<1>9. \A k \in 1..Len(next) : next[k].name = "fits" => k < Len(next) /\ IsFilter(next[k + 1])
  BY <1>4, <1>5, <1>7
<1>10. isOpen
  BY <1>3, HeadIsListed DEF ClosedRuns
<1>11. head.do \notin Watched
  <2>1. Sound(head)
    BY <1>3, HeadIsListed DEF SoundList
  <2> QED BY <1>3, <2>1 DEF Sound, BreakNames, Watched
<1> QED BY <1>2, <1>3, <1>6, <1>8, <1>9, <1>10, <1>11, WatchReplace

(* A filter is asked for. *)
LEMMA FilterWatches ==
  ASSUME ListOK, SetFirst, ClosedRuns, SoundList, NEW name \in Filters, SetFilter(name)
  PROVE  SetFirst' /\ ClosedRuns' /\ SoundList'
<1> DEFINE S == Successors(name)
           fits == Op("fits", "sizeof", {"done"})
           tells == Command(name)
           next == <<fits, tells>>
<1>1. fits \in S /\ tells \in S
  BY DEF Successors, Filters
<1>2. /\ Ends(name, next) /\ isOpen' = isOpen
      /\ target' = target /\ breakpoints' = breakpoints
  BY DEF SetFilter, Elsewhere, programVars, gdbVars
<1>3. head.name = name /\ todo # << >>
  BY <1>2 DEF Ends, Turn
<1>4. ~Resumes(fits) /\ ~Resumes(tells) /\ IsFilter(tells) /\ tells.name # "fits"
  BY DEF Command, Op, Resumes, IsFilter, Filters
<1> HIDE DEF S, fits, tells
<1>5. next \in Seq(S) /\ Len(next) = 2 /\ next[1] = fits /\ next[2] = tells
  BY <1>1, ListTwo, TwoIndices
<1> HIDE DEF next
<1>6. GoesOn(next)
  BY <1>2, <1>3, <1>5 DEF GoesOn, S
<1>7. \A k \in 1..Len(next) : k = 1 \/ k = 2
  BY <1>5
<1>8. \A k \in 1..Len(next) : ~Resumes(next[k])
  BY <1>4, <1>5, <1>7
<1>9. \A k \in 1..Len(next) : next[k].name = "fits" => k < Len(next) /\ IsFilter(next[k + 1])
  BY <1>4, <1>5, <1>7
<1>10. head.do \notin Watched
  <2>1. Sound(head)
    BY <1>3, HeadIsListed DEF SoundList
  <2> QED BY <1>3, <2>1 DEF Sound, BreakNames, Watched, Filters
<1>11. head.name # "renewEUnitBreakpoints" /\ head.name # "initSystem"
  BY <1>3 DEF Filters
<1> QED BY <1>2, <1>3, <1>6, <1>8, <1>9, <1>10, <1>11, WatchReplace

(* A filter that does not fit is skipped, with the command that would have *)
(* set it.                                                                 *)
LEMMA SkipWatches ==
  ASSUME ListOK, SetFirst, ClosedRuns, SoundList, Turn, SkipsFilter,
         target' = target, breakpoints' = breakpoints, isOpen' = isOpen
  PROVE  SetFirst' /\ ClosedRuns' /\ SoundList'
<1>1. /\ todo # << >> /\ head.name = "fits" /\ todo' = SubSeq(todo, 3, Len(todo))
      /\ Len(todo) \in Nat /\ 1 \in 1..Len(todo) /\ head = todo[1]
  BY HeadIsListed DEF Turn, SkipsFilter
<1>2. todo[1].do = "sizeof" /\ 1 < Len(todo) /\ IsFilter(todo[1 + 1])
  BY <1>1 DEF SoundList, Sound
<1>3. Len(todo) >= 2 /\ 1 + 1 = 2
  BY <1>1, <1>2
<1>4. Len(todo') = Len(todo) - 2 /\ \A k \in 1..Len(todo') : todo'[k] = todo[k + 2]
  BY <1>1, <1>3, SkipIndices DEF ListOK
<1>5. \A k \in 1..Len(todo') : k + 2 \in 1..Len(todo)
  BY <1>1, <1>3, <1>4
<1>6. Observed' = Observed /\ Watched' = Watched
  BY DEF Observed, Watched
<1>7. /\ todo[1].name = "fits" /\ todo[1].do \notin Watched
      /\ todo[2].name = "ignored" /\ todo[2].do \notin Watched
  BY <1>1, <1>2, <1>3 DEF Watched, IsFilter
<1>8. SetFirst'
  <2> SUFFICES ASSUME NEW k \in 1..Len(todo'), Resumes(todo'[k]), ~Observed
               PROVE  \/ \E i \in 1..(k - 1) : todo'[i].name = "renewEUnitBreakpoints"
                      \/ /\ target.version = 1
                         /\ \A b \in Watched :
                              b \in breakpoints \/ \E i \in 1..(k - 1) : todo'[i].do = b
    BY <1>6 DEF SetFirst, SetBefore
  <2>1. SetBefore(todo, k + 2)
    BY <1>4, <1>5 DEF SetFirst
  <2>2. \A i \in 1..(k + 2 - 1) : i = 1 \/ i = 2 \/ (i - 2 \in 1..(k - 1) /\ todo'[i - 2] = todo[i])
    <3> SUFFICES ASSUME NEW i \in 1..(k + 2 - 1), i # 1, i # 2
                 PROVE  i - 2 \in 1..(k - 1) /\ todo'[i - 2] = todo[i]
      OBVIOUS
    <3>1. i - 2 \in 1..(k - 1) /\ i - 2 \in 1..Len(todo') /\ (i - 2) + 2 = i
      BY <1>1, <1>3, <1>4
    <3> QED BY <3>1, <1>4
  <2>3. CASE \E i \in 1..(k + 2 - 1) : todo[i].name = "renewEUnitBreakpoints"
    <3>1. PICK i \in 1..(k + 2 - 1) : todo[i].name = "renewEUnitBreakpoints"
      BY <2>3
    <3>2. i # 1 /\ i # 2
      BY <3>1, <1>7
    <3> QED BY <3>1, <3>2, <2>2
  <2>4. CASE /\ target.version = 1
             /\ \A b \in Watched :
                  b \in breakpoints \/ \E i \in 1..(k + 2 - 1) : todo[i].do = b
    <3> SUFFICES ASSUME NEW b \in Watched, b \notin breakpoints
                 PROVE  \E i \in 1..(k - 1) : todo'[i].do = b
      BY <2>4
    <3>1. PICK i \in 1..(k + 2 - 1) : todo[i].do = b
      BY <2>4
    <3>2. i # 1 /\ i # 2
      BY <3>1, <1>7
    <3> QED BY <3>1, <3>2, <2>2
  <2> QED BY <2>1, <2>3, <2>4 DEF SetBefore
<1>9. ClosedRuns'
  BY <1>1, <1>4, <1>5 DEF ClosedRuns
<1>10. SoundList'
  <2> SUFFICES ASSUME NEW k \in 1..Len(todo')
               PROVE  /\ Sound(todo'[k])
                      /\ todo'[k].name = "fits" => k < Len(todo') /\ IsFilter(todo'[k + 1])
    BY DEF SoundList
  <2>1. Sound(todo'[k])
    BY <1>4, <1>5 DEF SoundList
  <2>2. ASSUME todo'[k].name = "fits" PROVE k < Len(todo') /\ IsFilter(todo'[k + 1])
    <3>1. k + 2 < Len(todo) /\ IsFilter(todo[(k + 2) + 1])
      BY <2>2, <1>4, <1>5 DEF SoundList
    <3>2. k < Len(todo') /\ k + 1 \in 1..Len(todo') /\ (k + 1) + 2 = (k + 2) + 1
      BY <3>1, <1>1, <1>3, <1>4
    <3> QED BY <3>1, <3>2, <1>4
  <2> QED BY <2>1, <2>2
<1> QED BY <1>8, <1>9, <1>10

(* Nothing is left to do but the end of main. *)
LEMMA GivingUpWatches ==
  ASSUME StartFails PROVE SetFirst' /\ ClosedRuns' /\ SoundList'
<1> DEFINE after == Call("afterMode")
<1>1. ~Resumes(after) /\ after.name = "afterMode" /\ Sound(after)
  BY DEF Call, Op, Resumes, Sound, BreakNames
<1>2. todo' = <<after>>
  BY DEF StartFails
<1> HIDE DEF after
<1>3. Len(todo') = 1 /\ todo'[1] = after
  BY <1>2
<1>4. \A k \in 1..Len(todo') : todo'[k] = after
  BY <1>3
<1> QED BY <1>1, <1>4 DEF SetFirst, ClosedRuns, SoundList

(* A breakpoint that main has asked for is set, when main goes on. *)
LEMMA BreakIsSet ==
  ASSUME ListOK, ClosedRuns, SoundList, BreaksAreSet, Turn, Succeeds \/ Fails,
         head.do \in Watched
  PROVE  head.do \in breakpoints \/ \A j \in 1..Len(todo) : ~Resumes(todo[j])
<1>1. todo # << >> /\ 1 \in 1..Len(todo) /\ head = todo[1]
  BY HeadIsListed DEF Turn
<1>2. /\ head.do \in BreakNames /\ head.do # "" /\ head.name = "ignored"
      /\ "done" \in head.waits
  BY <1>1 DEF SoundList, Sound, Watched, BreakNames
<1>3. CASE sent /\ lastCommand # "waitForResult"
  BY <1>2, <1>3 DEF BreaksAreSet
<1>4. CASE ~isOpen
  BY <1>2, <1>4 DEF ClosedRuns
<1>5. \/ sent /\ lastCommand \in {"done", "error"}
      \/ ~isOpen
  BY <1>2 DEF Succeeds, Fails
<1> QED BY <1>3, <1>4, <1>5

(* The steps of main keep the order of breakpoints and starts.             *)
LEMMA ChainWatches ==
  ASSUME ListOK, RefusalInv, Watching, SetFirst, ClosedRuns, SoundList, BreaksAreSet,
         Chain, ~gone'
  PROVE  SetFirst' /\ ClosedRuns' /\ SoundList'
<1> USE DEF Elsewhere, MainStays, programVars, gdbVars
<1>1. CASE StartFails
  BY <1>1, GivingUpWatches
<1>2. CASE renewEUnitBreakpoints
  BY <1>2, RenewWatches
<1>3. CASE startTestMode /\ ~StartFails
  BY <1>3, StartWatches
<1>4. CASE ~StartFails /\ ~renewEUnitBreakpoints /\ ~startTestMode
  <2>1. PICK next : GoesOn(next)
    BY <1>4, ChainGoesOn DEF Watching, FlashesOn
  <2>2. Turn /\ target' = target /\ breakpoints' = breakpoints
    BY DEF Chain, Ignored, ExecuteEnds, initSystem, Connected, removeFrame, getTargetDefines,
       renewEUnitBreakpoints, startTestMode, FirstStop, Ends
  <2>3. head.name \in {"ignored", "executeCommand", "initSystem", "connected", "removeFrame",
                       "getTargetDefines", "firstStop"}
    BY <1>4 DEF Chain, Ignored, ExecuteEnds, initSystem, Connected, removeFrame,
       getTargetDefines, FirstStop, Ends
  <2>4. head.name = "initSystem" => isOpen'
    BY <1>4 DEF Chain, Ignored, ExecuteEnds, initSystem, Connected, removeFrame,
       getTargetDefines, FirstStop, Ends
  <2>5. isOpen' = isOpen \/ isOpen' = TRUE
    <3>1. CASE Connected
      BY <1>4, <3>1 DEF Connected, Watching
    <3>2. CASE FirstStop
      BY <1>4, <3>2 DEF FirstStop
    <3> QED BY <1>4, <3>1, <3>2 DEF Chain, Ignored, ExecuteEnds, initSystem, removeFrame,
              getTargetDefines
  <2>6. head.do \in Watched =>
          head.do \in breakpoints \/ \A j \in 1..Len(todo) : ~Resumes(todo[j])
    <3> SUFFICES ASSUME head.do \in Watched
                 PROVE  head.do \in breakpoints \/ \A j \in 1..Len(todo) : ~Resumes(todo[j])
      OBVIOUS
    <3>1. head.name = "ignored"
      BY <2>2, HeadIsListed DEF SoundList, Sound, Watched, BreakNames, Turn
    <3>2. Ignored
      BY <1>4, <3>1 DEF Chain, ExecuteEnds, initSystem, Connected, removeFrame,
         getTargetDefines, FirstStop, Ends
    <3> QED BY <3>2, <2>2, BreakIsSet DEF Ignored
  <2> QED BY <2>1, <2>2, <2>3, <2>4, <2>5, <2>6, WatchGoesOn
<1> QED BY <1>1, <1>2, <1>3, <1>4

LEMMA ModeWatches ==
  ASSUME ListOK, SetFirst, ClosedRuns, SoundList, Mode
  PROVE  SetFirst' /\ ClosedRuns' /\ SoundList'
<1> USE DEF Elsewhere, MainStays, programVars, gdbVars
<1>1. ASSUME NEW name \in Filters, SetFilter(name)
      PROVE  SetFirst' /\ ClosedRuns' /\ SoundList'
  BY <1>1, FilterWatches
<1>2. CASE ~\E name \in Filters : SetFilter(name)
  <2>1. FilterFits \/ Continue \/ executeAllTest \/ TakesFrame \/ NoNewFrame \/ Detached
    BY <1>2 DEF Mode, Filters
  <2>2. /\ Turn /\ target' = target /\ breakpoints' = breakpoints /\ isOpen' = isOpen
        /\ head.name \in {"fits", "continue", "executeAllTest", "loop", "detached"}
    BY <2>1 DEF FilterFits, Continue, executeAllTest, TakesFrame, NoNewFrame, Detached, Ends
  <2>3. head.do \notin Watched
    <3>1. Sound(head)
      BY <2>2, HeadIsListed DEF SoundList, Turn
    <3> QED BY <3>1, <2>2 DEF Sound, BreakNames, Watched
  <2>4. CASE SkipsFilter
    BY <2>2, <2>4, SkipWatches
  <2>5. ASSUME NEW next, GoesOn(next) PROVE SetFirst' /\ ClosedRuns' /\ SoundList'
    BY <2>2, <2>3, <2>5, WatchGoesOn
  <2> QED BY <2>4, <2>5, ModeGoesOn
<1> QED BY <1>1, <1>2

LEMMA EndWatches ==
  ASSUME ListOK, SetFirst, ClosedRuns, SoundList, EndOfMain
  PROVE  SetFirst' /\ ClosedRuns' /\ SoundList'
<1>1. /\ Turn /\ target' = target /\ breakpoints' = breakpoints /\ isOpen' = isOpen
      /\ head.name \in {"afterMode", "failSilent", "cleanUpAndExit"}
  BY DEF EndOfMain, AfterMode, failSilent, cleanUpAndExit, Ends, Elsewhere, MainStays,
     programVars, gdbVars
<1>2. head.do \notin Watched
  <2>1. Sound(head)
    BY <1>1, HeadIsListed DEF SoundList, Turn
  <2> QED BY <2>1, <1>1 DEF Sound, BreakNames, Watched
<1>3. PICK next : GoesOn(next)
  BY EndGoesOn
<1> QED BY <1>1, <1>2, <1>3, WatchGoesOn

(* The operations the modes begin with. *)
InitialOps ==
  {Call("initSystem"), Call("startTestMode"), Call("renewEUnitBreakpoints"), Command("level"),
   Call("optInTestGroups"), Call("optOutTestGroups"), Call("continue"), Call("executeAllTest"),
   Call("loop"), Call("afterMode")}

(* The operations a list begins with.                                      *)
LEMMA InitialOperations ==
  ASSUME NEW op \in InitialOps PROVE op.name # "fits" /\ Sound(op)
<1>1. op \in {Call("initSystem"), Call("startTestMode"), Call("renewEUnitBreakpoints"),
              Call("optInTestGroups"), Call("optOutTestGroups"), Call("continue"),
              Call("executeAllTest"), Call("loop"), Call("afterMode")} \/ op = Command("level")
  BY DEF InitialOps
<1>2. \A name \in {"initSystem", "startTestMode", "renewEUnitBreakpoints", "optInTestGroups",
                   "optOutTestGroups", "continue", "executeAllTest", "loop", "afterMode"} :
        Call(name).name # "fits" /\ Sound(Call(name))
  BY DEF Call, Op, Sound, BreakNames
<1>3. Command("level").name # "fits" /\ Sound(Command("level"))
  BY DEF Command, Op, Sound, BreakNames
<1> QED BY <1>1, <1>2, <1>3

(* The four operations a mode begins with, and what comes behind them. *)
LEMMA FourAndRest ==
  ASSUME NEW S, NEW a \in S, NEW b \in S, NEW c \in S, NEW d \in S, NEW rest \in Seq(S),
         NEW list, list = <<a, b, c, d>> \o rest
  PROVE  /\ list \in Seq(S) /\ Len(list) \in Nat /\ Len(list) >= 4
         /\ list[1] = a /\ list[2] = b /\ list[3] = c /\ list[4] = d
<1> DEFINE start == <<a, b, c, d>>
<1>1. start \in Seq(S) /\ Len(start) = 4
  OBVIOUS
<1>2. start[1] = a /\ start[2] = b /\ start[3] = c /\ start[4] = d
  OBVIOUS
<1> HIDE DEF start
<1>3. /\ start \o rest \in Seq(S) /\ Len(start \o rest) = Len(start) + Len(rest)
      /\ \A i \in 1..(Len(start) + Len(rest)) :
           (start \o rest)[i] = IF i <= Len(start) THEN start[i] ELSE rest[i - Len(start)]
  BY <1>1, ConcatProperties
<1>4. Len(rest) \in Nat
  BY LenProperties
<1>5. list = start \o rest
  BY DEF start
<1>6. list \in Seq(S) /\ Len(list) = 4 + Len(rest)
  BY <1>1, <1>3, <1>5
<1>7. list[1] = start[1] /\ list[2] = start[2] /\ list[3] = start[3] /\ list[4] = start[4]
  BY <1>1, <1>3, <1>4, <1>5
<1> QED BY <1>2, <1>4, <1>6, <1>7

(* What the two watched modes begin with. *)
LEMMA WatchedStart ==
  ASSUME Init, Watching
  PROVE  \E rest \in Seq(InitialOps) :
           \/ todo = <<Call("initSystem"), Call("startTestMode"),
                       Call("renewEUnitBreakpoints"), Command("level")>> \o rest
           \/ todo = <<Call("initSystem"), Call("renewEUnitBreakpoints"),
                       Call("continue"), Call("loop")>> \o rest
<1> DEFINE S == InitialOps
           optIn == Filter(options.enabledTestGroups, "optInTestGroups")
           optOut == Filter(options.disabedTestGroups, "optOutTestGroups")
           tests == <<Call("continue"), Call("executeAllTest")>>
           after == <<Call("afterMode")>>
           start == <<Call("initSystem"), Call("startTestMode"),
                      Call("renewEUnitBreakpoints"), Command("level")>>
<1>1. /\ Call("initSystem") \in S /\ Call("startTestMode") \in S
      /\ Call("renewEUnitBreakpoints") \in S /\ Command("level") \in S
      /\ Call("optInTestGroups") \in S /\ Call("optOutTestGroups") \in S
      /\ Call("continue") \in S /\ Call("executeAllTest") \in S /\ Call("afterMode") \in S
  BY DEF InitialOps
<1>2. options.executionMode \in {"testMode", "runMode"}
  BY ProgramAssumption DEF Init, Watching, OptionType, Modes
<1>3. todo = (((start \o optIn) \o optOut) \o tests) \o after \/ todo = runMode \o after
  BY <1>2 DEF Init, executeMode, testMode
<1> HIDE DEF S
<1>4. /\ optIn \in Seq(S) /\ optOut \in Seq(S) /\ tests \in Seq(S) /\ after \in Seq(S)
      /\ start \in Seq(S)
  BY <1>1, ListOne, ListTwo, ListFour, ListNone DEF Filter
<1>5. CASE todo = runMode \o after
  BY <1>4, <1>5 DEF runMode, S
<1>6. CASE todo = (((start \o optIn) \o optOut) \o tests) \o after
  <2> DEFINE filters == optIn \o optOut
             ends == tests \o after
  <2> SUFFICES \E rest \in Seq(S) : todo = start \o rest
    BY DEF S
  <2> HIDE DEF optIn, optOut, tests, after, start
  <2>1. (start \o optIn) \o optOut = start \o filters
    BY <1>4, ConcatAssociative
  <2>2. filters \in Seq(S) /\ ends \in Seq(S)
    BY <1>4, ListConcat
  <2>3. todo = ((start \o filters) \o tests) \o after
    BY <1>6, <2>1
  <2> HIDE DEF filters
  <2>4. start \o filters \in Seq(S)
    BY <1>4, <2>2, ListConcat
  <2>5. todo = (start \o filters) \o ends
    <3> DEFINE front == start \o filters
    <3>1. front \in Seq(S) /\ todo = (front \o tests) \o after
      BY <2>3, <2>4
    <3> HIDE DEF front
    <3>2. (front \o tests) \o after = front \o (tests \o after)
      BY <1>4, <3>1, ConcatAssociative
    <3> QED BY <3>1, <3>2 DEF front
  <2> HIDE DEF ends
  <2>6. todo = start \o (filters \o ends)
    BY <1>4, <2>2, <2>5, ConcatAssociative
  <2>7. filters \o ends \in Seq(S)
    BY <2>2, ListConcat
  <2> QED BY <2>6, <2>7
<1> QED BY <1>3, <1>5, <1>6

(* Both watched modes renew the breakpoints before they resume.            *)
LEMMA WatchInit == Init => WatchInv
<1> SUFFICES ASSUME Init, Watching PROVE SetFirst /\ ClosedRuns /\ SoundList /\ BreaksAreSet
  BY DEF Init, WatchInv
<1> DEFINE init == Call("initSystem")
           start == Call("startTestMode")
           renews == Call("renewEUnitBreakpoints")
           level == Command("level")
           goes == Call("continue")
           loops == Call("loop")
<1>1. /\ init.name = "initSystem" /\ ~Resumes(init)
      /\ renews.name = "renewEUnitBreakpoints" /\ ~Resumes(renews)
      /\ ~Resumes(start)
  BY DEF Call, Op, Resumes
<1>2. init \in InitialOps /\ start \in InitialOps /\ renews \in InitialOps
      /\ level \in InitialOps /\ goes \in InitialOps /\ loops \in InitialOps
  BY DEF InitialOps
<1>3. \E rest \in Seq(InitialOps) :
        \/ todo = <<init, start, renews, level>> \o rest
        \/ todo = <<init, renews, goes, loops>> \o rest
  BY WatchedStart
<1> HIDE DEF init, start, renews, level, goes, loops
<1>4. /\ todo \in Seq(InitialOps) /\ Len(todo) \in Nat /\ Len(todo) >= 4 /\ todo[1] = init
      /\ \/ todo[2] = start /\ todo[3] = renews
         \/ todo[2] = renews
  BY <1>2, <1>3, FourAndRest
<1>5. \A k \in 1..Len(todo) : todo[k] \in InitialOps
  BY <1>4, ElementOfSeq
<1>6. SoundList
  BY <1>5, InitialOperations DEF SoundList
<1>7. SetFirst
  <2> SUFFICES ASSUME NEW j \in 1..Len(todo), Resumes(todo[j])
               PROVE  \E i \in 1..(j - 1) : todo[i].name = "renewEUnitBreakpoints"
    BY DEF SetFirst, SetBefore
  <2>1. CASE todo[2] = renews
    <3>1. j # 1 /\ j # 2
      BY <2>1, <1>1, <1>4
    <3>2. 2 \in 1..(j - 1)
      BY <3>1, <1>4
    <3> QED BY <2>1, <3>2, <1>1
  <2>2. CASE todo[2] = start /\ todo[3] = renews
    <3>1. j # 1 /\ j # 2 /\ j # 3
      BY <2>2, <1>1, <1>4
    <3>2. 3 \in 1..(j - 1)
      BY <3>1, <1>4
    <3> QED BY <2>2, <3>2, <1>1
  <2> QED BY <2>1, <2>2, <1>4
<1>8. ClosedRuns
  <2>1. todo # << >>
    BY <1>4
  <2> QED BY <2>1, <1>1, <1>4 DEF ClosedRuns, head
<1>9. BreaksAreSet
  BY DEF BreaksAreSet, Init
<1> QED BY <1>6, <1>7, <1>8, <1>9

(* gdb answers. *)
LEMMA GdbWatches ==
  ASSUME ListOK, WatchInv, Watching, GdbStep PROVE WatchInv'
<1>1. /\ Turn /\ ~gone /\ sent /\ lastCommand = "waitForResult"
      /\ todo' = todo /\ target' = target /\ options' = options /\ isOpen' = isOpen
      /\ sent' = sent
  BY DEF GdbStep, Turn, programVars
<1>2. SetFirst /\ ClosedRuns /\ SoundList
  BY <1>1 DEF WatchInv
<1>3. breakpoints \subseteq breakpoints'
  BY DEF GdbStep, AnswerError, AnswerDone, Resume, gdbVars
<1>4. Observed => Observed'
  BY <1>1, <1>3 DEF Observed, Watched
<1>5. SetFirst'
  <2> SUFFICES ASSUME NEW j \in 1..Len(todo), Resumes(todo[j]) PROVE SetBefore(todo, j)'
    BY <1>1 DEF SetFirst, SetBefore, Observed, Watched
  <2>1. SetBefore(todo, j)
    BY <1>2 DEF SetFirst
  <2> QED BY <2>1, <1>1, <1>3, <1>4 DEF SetBefore, Watched
<1>6. ClosedRuns' /\ SoundList'
  BY <1>1, <1>2 DEF ClosedRuns, SoundList, head
<1>7. BreaksAreSet'
  <2> SUFFICES ASSUME head.do \in BreakNames
               PROVE  lastCommand' = "done" /\ head.do \in breakpoints'
    BY <1>1 DEF BreaksAreSet, head
  <2>1. ~MayFail(head.do) /\ ~NeedsHalted(head.do)
        /\ head.do \notin {"run", "-exec-continue"}
    BY DEF MayFail, NeedsHalted, BreakNames
  <2>2. AnswerDone(head.do)
    BY <2>1 DEF GdbStep
  <2> QED BY <2>2 DEF AnswerDone, BreakNames
<1>8. ASSUME inferior' = "running" PROVE Observed'
  <2>1. inferior = "running" \/ head.do \in {"run", "-exec-continue"}
    <3>1. CASE AnswerError
      BY <3>1, <1>8 DEF AnswerError, gdbVars
    <3>2. CASE AnswerDone(head.do)
      BY <3>2, <1>8 DEF AnswerDone
    <3> QED BY <3>1, <3>2 DEF GdbStep
  <2>2. CASE inferior = "running"
    BY <2>2, <1>4 DEF WatchInv
  <2>3. CASE head.do \in {"run", "-exec-continue"}
    <3>1. 1 \in 1..Len(todo) /\ Resumes(todo[1])
      BY <2>3, <1>1, HeadIsListed DEF Turn, Resumes
    <3>2. SetBefore(todo, 1)
      BY <3>1, <1>2 DEF SetFirst
    <3>3. Observed
      BY <3>2 DEF SetBefore, Observed
    <3> QED BY <3>3, <1>4
  <2> QED BY <2>1, <2>2, <2>3
<1> QED BY <1>5, <1>6, <1>7, <1>8 DEF WatchInv

(* Steps that leave the list, the target and the breakpoints alone. *)
LEMMA OtherStepsWatch ==
  ASSUME WatchInv, todo' = todo, target' = target, options' = options, isOpen' = isOpen,
         breakpoints' = breakpoints, exitCode' = exitCode,
         inferior' = "running" => inferior = "running",
         sent' /\ lastCommand' # "waitForResult" =>
           sent /\ lastCommand # "waitForResult" /\ lastCommand' = lastCommand
  PROVE  WatchInv'
<1>1. Observed' = Observed /\ Watched' = Watched /\ Watching' = Watching /\ gone' = gone
      /\ head' = head
  BY DEF Observed, Watched, Watching, gone, head
<1>2. SetFirst => SetFirst'
  BY <1>1 DEF SetFirst, SetBefore
<1>3. ClosedRuns => ClosedRuns'
  BY <1>1 DEF ClosedRuns
<1>4. SoundList => SoundList'
  BY DEF SoundList
<1>5. BreaksAreSet => BreaksAreSet'
  BY <1>1 DEF BreaksAreSet
<1> QED BY <1>1, <1>2, <1>3, <1>4, <1>5 DEF WatchInv

(* Every step keeps what is watched.                                       *)
LEMMA WatchStep ==
  TypeInv /\ RefusalInv /\ WatchInv /\ [Next]_vars => WatchInv'
<1> SUFFICES ASSUME TypeInv, RefusalInv, WatchInv, [Next]_vars PROVE WatchInv'
  OBVIOUS
<1>1. ListOK
  BY TypeInvParts
<1>2. CASE Send
  BY <1>2, OtherStepsWatch DEF Send, programVars, gdbVars
<1>3. CASE TargetStops
  <2>1. inferior' # "running"
    BY <1>3 DEF TargetStops
  <2> QED BY <1>3, <2>1, OtherStepsWatch DEF TargetStops, programVars, mainVars
<1>4. CASE UNCHANGED vars
  BY <1>4, OtherStepsWatch DEF vars, programVars, mainVars, decoderVars, gdbVars
<1>5. CASE GdbStep
  <2>1. CASE Watching
    BY <1>1, <1>5, <2>1, GdbWatches
  <2>2. CASE ~Watching
    BY <1>5, <2>2 DEF GdbStep, programVars, Watching, WatchInv
  <2> QED BY <2>1, <2>2
<1>6. CASE Chain \/ Mode \/ EndOfMain
  <2>1. /\ ~gone /\ options' = options /\ target' = target /\ breakpoints' = breakpoints
        /\ inferior' = inferior
    <3> USE DEF Elsewhere, programVars, gdbVars, Turn, Ends
    <3>1. CASE Chain
      BY <3>1 DEF Chain, Ignored, ExecuteEnds, initSystem, Connected, removeFrame,
         getTargetDefines, renewEUnitBreakpoints, startTestMode, FirstStop
    <3>2. CASE Mode
      BY <3>2 DEF Mode, SetFilter, FilterFits, Continue, executeAllTest, TakesFrame,
         NoNewFrame, Detached
    <3>3. CASE EndOfMain
      BY <3>3 DEF EndOfMain, AfterMode, failSilent, cleanUpAndExit
    <3> QED BY <1>6, <3>1, <3>2, <3>3
  <2>2. Observed' = Observed /\ Watching' = Watching
    BY <2>1 DEF Observed, Watched, Watching
  <2>3. ~sent'
    BY <1>6, ChainGoesOn, ModeGoesOn, EndGoesOn
  <2>4. Watching /\ ~gone' => SetFirst' /\ ClosedRuns' /\ SoundList'
    BY <1>1, <1>6, <2>1, ChainWatches, ModeWatches, EndWatches DEF WatchInv
  <2> QED BY <2>1, <2>2, <2>3, <2>4 DEF WatchInv, BreaksAreSet
<1> QED BY <1>2, <1>3, <1>4, <1>5, <1>6 DEF Next, Main

(* In test mode and in run mode the host lets no target run that it cannot *)
(* watch: one that does not break by itself is of a version that is known  *)
(* to work with breakpoints, and has them, whatever gdb refuses, however   *)
(* the target was compiled and wherever it stops.                          *)
THEOREM RunsAreObserved == Spec => []ObservedRun
<1>1. WatchInv => ObservedRun
  BY DEF WatchInv, ObservedRun, Observed, Watching, Watched
<1> QED BY <1>1, TypeInit, TypeStep, RefusalInit, RefusalStep, WatchInit, WatchStep, PTL
        DEF Spec
-----------------------------------------------------------------------------
(* Operations of test mode that neither begin, resume, tell nor close. *)
Neutral(op) == ~Begins(op) /\ ~IsContinue(op) /\ ~Telling(op) /\ ~Closes(op)

(* What the neutral operations are.                                        *)
LEMMA NeutralOperations ==
  /\ \A name \in {"removeFrame", "renewEUnitBreakpoints"} : Neutral(Call(name))
  /\ \A do \in {"-gdb-set mi-async on", "set_parallelism_mode", "load", "set $pc",
                "detachTarget", "MessageToDebugger", "printOverGdb", "set $pc +=2"} :
       Neutral(Command(do))
  /\ Neutral(Op("connected", "target-select", {"stopped", "done"}))
  /\ Neutral(Op("getTargetDefines", "defines", {"done"}))
  /\ Neutral(Op("fits", "sizeof", {"done"}))
<1> USE DEF Op, Neutral, Begins, IsContinue, Telling, Filters, Tells, Closes
<1>1. \A name \in {"removeFrame", "renewEUnitBreakpoints"} : Neutral(Call(name))
  BY DEF Call
<1>2. \A do \in {"-gdb-set mi-async on", "set_parallelism_mode", "load", "set $pc",
                "detachTarget", "MessageToDebugger", "printOverGdb", "set $pc +=2"} :
        Neutral(Command(do))
  BY DEF Command
<1>3. Neutral(Op("connected", "target-select", {"stopped", "done"}))
  OBVIOUS
<1>4. Neutral(Op("getTargetDefines", "defines", {"done"}))
  OBVIOUS
<1>5. Neutral(Op("fits", "sizeof", {"done"}))
  OBVIOUS
<1> QED BY <1>1, <1>2, <1>3, <1>4, <1>5

(* The operations at the end of main begin, resume and tell nothing. *)
LEMMA EndOperations ==
  ASSUME NEW op \in Successors("afterMode")
  PROVE  ~Begins(op) /\ ~IsContinue(op) /\ ~Telling(op)
<1> DEFINE P(o) == ~Begins(o) /\ ~IsContinue(o) /\ ~Telling(o)
<1>1. \A name \in {"failSilent", "cleanUpAndExit"} : P(Call(name))
  BY DEF Op, Call, Begins, IsContinue, Telling, Filters, Tells
<1>2. \A do \in {"-target-disconnect", "-target-detach"} : P(Command(do))
  BY DEF Op, Command, Begins, IsContinue, Telling, Filters, Tells
<1>3. \A do \in {"-exec-interrupt", "script"} : P(Execute(do))
  BY DEF Op, Execute, Begins, IsContinue, Telling, Filters, Tells
<1>4. P(Op("ignored", "interrupt", {"done", "stopped"}))
  BY DEF Op, Begins, IsContinue, Telling, Filters, Tells
<1>5. op \in {Execute("-exec-interrupt"), Execute("script"), Call("failSilent"),
              Command("-target-disconnect"), Op("ignored", "interrupt", {"done", "stopped"}),
              Command("-target-detach"), Call("cleanUpAndExit")}
  BY DEF Successors
<1> HIDE DEF P
<1>6. P(op)
  BY <1>1, <1>2, <1>3, <1>4, <1>5
<1> QED BY <1>6 DEF P

(* What may follow an operation, as far as the order of test mode goes. *)
LEMMA TellingFollows ==
  ASSUME NEW name, name # "loop", NEW op \in Successors(name)
  PROVE  /\ Begins(op) => name = "startTestMode"
         /\ IsContinue(op) => name = "continue"
         /\ Telling(op) => name \in Filters
         /\ \A x \in Filters : Tells(op, x) => name = x
         /\ Closes(op) => name = "afterMode"
<1>1. Neutral(op) => /\ ~Begins(op) /\ ~IsContinue(op) /\ ~Telling(op) /\ ~Closes(op)
                     /\ \A x \in Filters : ~Tells(op, x)
  BY DEF Neutral, Telling
<1>2. CASE name \in {"initSystem", "connected"}
  <2>1. Neutral(op)
    BY <1>2, NeutralOperations DEF Successors
  <2> QED BY <1>1, <2>1
<1>3. CASE name = "renewEUnitBreakpoints"
  <2>1. Neutral(op)
    BY <1>3, NeutralOperations DEF Successors
  <2> QED BY <1>1, <2>1
<1>4. CASE name = "startTestMode"
  <2> DEFINE runs == Op("firstStop", "run", {"stopped"})
             continues == Op("firstStop", "-exec-continue", {"stopped"})
  <2>1. ~IsContinue(runs) /\ ~Telling(runs) /\ ~Closes(runs)
    BY DEF Op, IsContinue, Telling, Tells, Filters, Closes
  <2>2. ~IsContinue(continues) /\ ~Telling(continues) /\ ~Closes(continues)
    BY DEF Op, IsContinue, Telling, Tells, Filters, Closes
  <2>3. Neutral(op) \/ op \in {runs, continues}
    BY <1>4, NeutralOperations DEF Successors
  <2> HIDE DEF runs, continues
  <2> QED BY <1>1, <1>4, <2>1, <2>2, <2>3 DEF Telling
<1>5. CASE name \in {"optInTestGroups", "optOutTestGroups"}
  <2> DEFINE tells == Command(name)
  <2>1. /\ ~Begins(tells) /\ ~IsContinue(tells) /\ ~Closes(tells)
        /\ \A x \in Filters : Tells(tells, x) => name = x
    BY <1>5 DEF Op, Command, Begins, IsContinue, Tells, Filters, Closes
  <2>2. Neutral(op) \/ op = tells
    BY <1>5, NeutralOperations DEF Successors
  <2> HIDE DEF tells
  <2> QED BY <1>1, <1>5, <2>1, <2>2 DEF Telling, Filters
<1>6. CASE name = "continue"
  <2> DEFINE go == continueAfterMockStub
  <2>1. ~Begins(go) /\ ~Telling(go) /\ ~Closes(go)
    BY DEF continueAfterMockStub, Op, Begins, Telling, Tells, Filters, Closes
  <2>2. Neutral(op) \/ op = go
    BY <1>6, NeutralOperations DEF Successors
  <2> HIDE DEF go
  <2> QED BY <1>1, <1>6, <2>1, <2>2 DEF Telling
<1>7. CASE name = "afterMode"
  <2>1. ~Begins(op) /\ ~IsContinue(op) /\ ~Telling(op)
    BY <1>7, EndOperations
  <2> QED BY <1>7, <2>1 DEF Telling
<1>8. CASE Successors(name) = {}
  BY <1>8
<1> QED BY <1>2, <1>3, <1>4, <1>5, <1>6, <1>7, <1>8 DEF Successors

(* An operation ends, and the order of what tells is kept. *)
LEMMA TellsReplace ==
  ASSUME ListOK, NEW next, GoesOn(next), head.name # "loop"
  PROVE  /\ TellsFirst => TellsFirst'
         /\ \A x \in Filters : ToTell(x)' => ToTell(x)
         /\ \A x \in Filters : ToTell(x) => ToTell(x)' \/ Tells(head, x)
         /\ ToBegin' => ToBegin
         /\ ToBegin => ToBegin' \/ Begins(head)
<1> DEFINE n == Len(next)
           at(k) == k + 1 - n
           to(k) == k + n - 1
<1>1. next \in Seq(AnyOperation) /\ \A k \in 1..n : next[k] \in Successors(head.name)
  <2>1. next \in Seq(Successors(head.name))
    BY DEF GoesOn
  <2>2. next \in Seq(AnyOperation)
    BY <2>1, SuccessorsAreOperations, ListGrows
  <2> QED BY <2>1, <2>2, ElementOfSeq
<1>2. /\ todo # << >> /\ Len(todo) \in Nat /\ Len(todo) >= 1 /\ n \in Nat
      /\ Len(todo') = n + Len(todo) - 1
      /\ \A k \in 1..n : todo'[k] = next[k]
      /\ \A k \in (n + 1)..Len(todo') : todo'[k] = todo[at(k)]
  BY <1>1, EndsIndices DEF GoesOn, ListOK
<1>3. \A k \in 1..n :
        /\ Begins(next[k]) => head.name = "startTestMode"
        /\ IsContinue(next[k]) => head.name = "continue"
        /\ Telling(next[k]) => head.name \in Filters
        /\ \A x \in Filters : Tells(next[k], x) => head.name = x
        /\ Closes(next[k]) => head.name = "afterMode"
  BY <1>1, TellingFollows
<1> HIDE DEF n
<1>4. /\ 1 \in 1..Len(todo) /\ head = todo[1]
      /\ \A k \in 1..Len(todo') :
           \/ k \in 1..n /\ todo'[k] = next[k]
           \/ k \in (n + 1)..Len(todo') /\ todo'[k] = todo[at(k)] /\ at(k) \in 1..Len(todo)
              /\ at(k) > 1
  BY <1>2 DEF head
<1>5. \A k \in 1..Len(todo) :
        k = 1 \/ (to(k) \in 1..Len(todo') /\ todo'[to(k)] = todo[k])
  <2> SUFFICES ASSUME NEW k \in 1..Len(todo), k # 1
               PROVE  to(k) \in 1..Len(todo') /\ todo'[to(k)] = todo[k]
    OBVIOUS
  <2>1. to(k) \in (n + 1)..Len(todo') /\ to(k) \in 1..Len(todo') /\ at(to(k)) = k
    BY <1>2
  <2> QED BY <2>1, <1>2
<1>6. ASSUME TellsFirst PROVE TellsFirst'
  <2> SUFFICES ASSUME NEW j \in 1..Len(todo'), NEW k \in 1..Len(todo'), j < k,
                      IsContinue(todo'[j]) \/ Closes(todo'[j]), Telling(todo'[k])
               PROVE  FALSE
    BY DEF TellsFirst
  <2>1. CASE k \in 1..n /\ todo'[k] = next[k]
    <3>1. j \in 1..n /\ todo'[j] = next[j]
      BY <2>1, <1>2
    <3> QED BY <2>1, <3>1, <1>3 DEF Filters
  <2>2. CASE j \in 1..n /\ todo'[j] = next[j] /\ todo'[k] = todo[at(k)]
             /\ at(k) \in 1..Len(todo) /\ at(k) > 1
    <3>1. IsContinue(head) \/ Closes(head)
      BY <2>2, <1>3 DEF IsContinue, Closes
    <3> QED BY <2>2, <3>1, <1>4, <1>6 DEF TellsFirst
  <2>3. CASE /\ j \in (n + 1)..Len(todo') /\ todo'[j] = todo[at(j)] /\ at(j) \in 1..Len(todo)
             /\ k \in (n + 1)..Len(todo') /\ todo'[k] = todo[at(k)] /\ at(k) \in 1..Len(todo)
    <3>1. at(j) < at(k)
      BY <2>3, <1>2
    <3> QED BY <2>3, <3>1, <1>6 DEF TellsFirst
  <2> QED BY <2>1, <2>2, <2>3, <1>4
<1>7. ASSUME NEW x \in Filters, ToTell(x)' PROVE ToTell(x)
  <2>1. PICK k \in 1..Len(todo') : Tells(todo'[k], x)
    BY <1>7 DEF ToTell
  <2>2. CASE k \in 1..n /\ todo'[k] = next[k]
    BY <2>1, <2>2, <1>3, <1>4 DEF ToTell, Tells
  <2>3. CASE todo'[k] = todo[at(k)] /\ at(k) \in 1..Len(todo)
    BY <2>1, <2>3 DEF ToTell
  <2> QED BY <2>2, <2>3, <1>4
<1>8. ASSUME NEW x \in Filters, ToTell(x) PROVE ToTell(x)' \/ Tells(head, x)
  BY <1>4, <1>5, <1>8 DEF ToTell
<1>9. ASSUME ToBegin' PROVE ToBegin
  <2>1. PICK k \in 1..Len(todo') : Begins(todo'[k])
    BY <1>9 DEF ToBegin
  <2>2. CASE k \in 1..n /\ todo'[k] = next[k]
    BY <2>1, <2>2, <1>3, <1>4 DEF ToBegin, Begins
  <2>3. CASE todo'[k] = todo[at(k)] /\ at(k) \in 1..Len(todo)
    BY <2>1, <2>3 DEF ToBegin
  <2> QED BY <2>2, <2>3, <1>4
<1>10. ASSUME ToBegin PROVE ToBegin' \/ Begins(head)
  BY <1>4, <1>5, <1>10 DEF ToBegin
<1> QED BY <1>6, <1>7, <1>8, <1>9, <1>10

(* What begins is of the start; after a stop only the first is left. *)
LEMMA NothingBeginsLater ==
  ASSUME OrderInv, ToBegin, stops > 0
  PROVE  Starts(todo[1]) /\ sent /\ lastCommand # "waitForResult"
<1>1. PICK k \in 1..Len(todo) : Begins(todo[k])
  BY DEF ToBegin
<1>2. Starts(todo[k]) /\ k \in Ops
  BY <1>1 DEF Starts, Begins, Ops
<1> QED BY <1>2 DEF OrderInv, StartsFirst

(* Frames that are removed leave what was there before. *)
LEMMA FramesShrink ==
  ASSUME frames \in Seq(StopFrames),
         frames' = frames \/ frames' = << >> \/ frames' = SubSeq(frames, 1, Len(frames) - 1)
  PROVE  /\ frames' \in Seq(StopFrames)
         /\ \A k \in 1..Len(frames') : k \in 1..Len(frames) /\ frames'[k] = frames[k]
<1>1. CASE frames' = frames
  BY <1>1
<1>2. CASE frames' = << >>
  BY <1>2
<1>3. CASE frames' = SubSeq(frames, 1, Len(frames) - 1)
  <2>1. Len(frames) \in Nat /\ \A k \in 1..Len(frames) : frames[k] \in StopFrames
    BY LenProperties, ElementOfSeq
  <2>2. Len(frames) - 1 \in Int /\ \A k \in 1..(Len(frames) - 1) : k \in 1..Len(frames)
    BY <2>1
  <2>3. \A k \in 1..(Len(frames) - 1) : frames[k] \in StopFrames
    BY <2>1, <2>2
  <2> DEFINE m == Len(frames) - 1
  <2>4. /\ frames' \in Seq(StopFrames)
        /\ Len(frames') = (IF 1 <= m THEN m - 1 + 1 ELSE 0)
        /\ \A k \in 1..(m - 1 + 1) : frames'[k] = frames[1 + k - 1]
    BY <1>3, <2>2, <2>3, SubSeqProperties
  <2>5. m \in Int /\ \A k \in 1..m : k \in 1..Len(frames)
    BY <2>2
  <2> HIDE DEF m
  <2>6. \A k \in 1..Len(frames') : k \in 1..m
    BY <2>4, <2>5
  <2>7. \A k \in 1..m : k \in 1..(m - 1 + 1) /\ 1 + k - 1 = k
    BY <2>5
  <2>8. \A k \in 1..m : frames'[k] = frames[k]
    BY <2>4, <2>7
  <2> QED BY <2>4, <2>5, <2>6, <2>8
<1> QED BY <1>1, <1>2, <1>3

(* An operation ends, and what the exit code will say is kept. *)
LEMMA ReportGoesOn ==
  ASSUME OrderInv, ListOK, ReportInv, NEW next, GoesOn(next),
         options' = options, inferior' = inferior, told' = told, stops' = stops,
         errors => errors', isOpen' = isOpen \/ isOpen' = TRUE,
         head.name = "initSystem" => isOpen',
         \/ frames' = frames \/ frames' = << >>
         \/ head.name = "removeFrame" /\ frames' = SubSeq(frames, 1, Len(frames) - 1),
         Begins(head) => ToBegin' \/ gone' \/ inferior = "halted",
         \A x \in Filters : Tells(head, x) => ToTell(x)' \/ x \in told \/ errors,
         FailureIsReported'
  PROVE  ReportInv'
<1>1. /\ ~gone /\ todo # << >> /\ sent' = FALSE
  BY DEF GoesOn, Ends, Turn
<1>2. head.name # "loop" /\ head = todo[1]
  BY <1>1, HeadTyped DEF AnyOp, Names
<1>3. /\ TellsFirst'
      /\ \A x \in Filters : ToTell(x)' => ToTell(x)
      /\ \A x \in Filters : ToTell(x) => ToTell(x)' \/ Tells(head, x)
      /\ ToBegin' => ToBegin
      /\ ToBegin => ToBegin' \/ Begins(head)
  BY <1>2, TellsReplace DEF ReportInv
<1>4. /\ frames' \in Seq(StopFrames)
      /\ \A k \in 1..Len(frames') : k \in 1..Len(frames) /\ frames'[k] = frames[k]
  BY FramesShrink DEF ReportInv
<1>5. MessagesAreStops'
  BY <1>4 DEF ReportInv, MessagesAreStops
<1>6. LatestIsHalted'
  <2> SUFFICES ASSUME ToBegin', frames' # << >>, frames'[Len(frames')] = "startTesting"
               PROVE  inferior = "halted"
    BY DEF LatestIsHalted
  <2>1. CASE frames' = frames
    BY <2>1, <1>3 DEF ReportInv, LatestIsHalted
  <2>2. CASE head.name = "removeFrame"
    <3>1. Len(frames') \in 1..Len(frames')
      BY <1>4
    <3>2. stops > 0
      BY <3>1, <1>4 DEF ReportInv, MessagesAreStops
    <3>3. Starts(todo[1])
      BY <3>2, <1>3, NothingBeginsLater
    <3> QED BY <3>3, <2>2, <1>2 DEF Starts
  <2> QED BY <2>1, <2>2
<1>7. HaltedWhileTold'
  BY <1>1, <1>3 DEF ReportInv, HaltedWhileTold
<1>8. FiltersAreTold'
  BY <1>1 DEF FiltersAreTold
<1>9. KnownOrToTell'
  <2> SUFFICES ASSUME NEW x \in Filters, Needed(x)', ~gone' PROVE x \in told \/ ToTell(x)'
    BY DEF KnownOrToTell
  <2>1. Needed(x) /\ ~errors
    BY DEF Needed, Filters
  <2> QED BY <2>1, <1>1, <1>3 DEF ReportInv, KnownOrToTell
<1>10. ClosedIsError'
  BY DEF ReportInv, ClosedIsError
<1> QED BY <1>3, <1>4, <1>5, <1>6, <1>7, <1>8, <1>9, <1>10 DEF ReportInv

(* The mode is given up. *)
LEMMA GivingUpReports ==
  ASSUME OrderInv, ListOK, ReportInv, StartFails, ~gone, options' = options, stops' = stops
  PROVE  ReportInv'
<1> DEFINE after == Call("afterMode")
<1>1. /\ todo' = <<after>> /\ sent' = FALSE /\ errors' = TRUE /\ frames' = frames
      /\ exitCode' = Alive
  BY DEF StartFails, gone
<1>2. ~Begins(after) /\ ~Telling(after)
  BY DEF Call, Op, Begins, Telling, Filters, Tells
<1> HIDE DEF after
<1>3. Len(todo') = 1 /\ todo'[1] = after
  BY <1>1
<1>4. \A k \in 1..Len(todo') : todo'[k] = after
  BY <1>3
<1>5. ~ToBegin' /\ TellsFirst' /\ \A x \in Filters : ~ToTell(x)'
  BY <1>2, <1>4 DEF ToBegin, TellsFirst, ToTell, Telling
<1>6. frames' \in Seq(StopFrames) /\ MessagesAreStops'
  BY <1>1 DEF ReportInv, MessagesAreStops
<1>7. LatestIsHalted' /\ HaltedWhileTold' /\ FiltersAreTold' /\ ClosedIsError'
  BY <1>1, <1>5 DEF LatestIsHalted, HaltedWhileTold, FiltersAreTold, ClosedIsError
<1>8. KnownOrToTell'
  BY <1>1 DEF KnownOrToTell, Needed, Filters
<1>9. FailureIsReported'
  BY <1>1 DEF FailureIsReported, Alive
<1> QED BY <1>5, <1>6, <1>7, <1>8, <1>9 DEF ReportInv

(* A filter that does not fit is skipped: that is an error. *)
LEMMA SkipReports ==
  ASSUME OrderInv, ListOK, SoundList, ReportInv, FilterFits, SkipsFilter
  PROVE  ReportInv'
<1>1. /\ ~gone /\ todo # << >> /\ sent' = FALSE /\ errors' /\ exitCode' = exitCode
      /\ options' = options /\ inferior' = inferior /\ told' = told /\ stops' = stops
      /\ frames' = frames
  BY DEF FilterFits, SkipsFilter, Turn, DecoderStays, decoderVars, Elsewhere, programVars,
     gdbVars
<1>2. /\ todo # << >> /\ head.name = "fits" /\ todo' = SubSeq(todo, 3, Len(todo))
      /\ Len(todo) \in Nat /\ 1 \in 1..Len(todo) /\ head = todo[1]
  BY <1>1, HeadIsListed DEF SkipsFilter
<1>3. 1 < Len(todo) /\ IsFilter(todo[1 + 1])
  BY <1>2 DEF SoundList
<1>4. Len(todo) >= 2 /\ 1 + 1 = 2
  BY <1>2, <1>3
<1>5. Len(todo') = Len(todo) - 2 /\ \A k \in 1..Len(todo') : todo'[k] = todo[k + 2]
  BY <1>2, <1>4, SkipIndices DEF ListOK
<1>6. \A k \in 1..Len(todo') : k + 2 \in 1..Len(todo)
  BY <1>2, <1>4, <1>5
<1>7. \A k \in 1..Len(todo) : k = 1 \/ k = 2 \/ (k - 2 \in 1..Len(todo') /\ todo'[k - 2] = todo[k])
  <2> SUFFICES ASSUME NEW k \in 1..Len(todo), k # 1, k # 2
               PROVE  k - 2 \in 1..Len(todo') /\ todo'[k - 2] = todo[k]
    OBVIOUS
  <2>1. k - 2 \in 1..Len(todo') /\ (k - 2) + 2 = k
    BY <1>2, <1>4, <1>5
  <2> QED BY <2>1, <1>5
<1>8. ~Begins(todo[1]) /\ ~Begins(todo[2])
  BY <1>2, <1>3, <1>4 DEF Begins, IsFilter
<1>9. (ToBegin' <=> ToBegin) /\ \A x \in Filters : ToTell(x)' => ToTell(x)
  <2>1. ToBegin' => ToBegin
    BY <1>5, <1>6 DEF ToBegin
  <2>2. ToBegin => ToBegin'
    BY <1>7, <1>8 DEF ToBegin
  <2>3. \A x \in Filters : ToTell(x)' => ToTell(x)
    BY <1>5, <1>6 DEF ToTell
  <2> QED BY <2>1, <2>2, <2>3
<1>10. TellsFirst'
  <2> SUFFICES ASSUME NEW j \in 1..Len(todo'), NEW k \in 1..Len(todo'), j < k,
                      IsContinue(todo'[j]) \/ Closes(todo'[j])
               PROVE  ~Telling(todo'[k])
    BY DEF TellsFirst
  <2>1. /\ j + 2 \in 1..Len(todo) /\ k + 2 \in 1..Len(todo) /\ j + 2 < k + 2
        /\ todo'[j] = todo[j + 2] /\ todo'[k] = todo[k + 2]
    BY <1>5, <1>6
  <2> QED BY <2>1 DEF ReportInv, TellsFirst
<1>11. frames' \in Seq(StopFrames) /\ MessagesAreStops' /\ LatestIsHalted'
  BY <1>1, <1>9 DEF ReportInv, MessagesAreStops, LatestIsHalted
<1>12. HaltedWhileTold'
  BY <1>1, <1>9 DEF ReportInv, HaltedWhileTold
<1>13. FiltersAreTold' /\ ClosedIsError'
  BY <1>1 DEF FiltersAreTold, ClosedIsError
<1>14. KnownOrToTell'
  BY <1>1 DEF KnownOrToTell, Needed, Filters
<1>15. FailureIsReported'
  BY <1>1 DEF FailureIsReported, Alive, gone
<1> QED BY <1>10, <1>11, <1>12, <1>13, <1>14, <1>15 DEF ReportInv

(* Main goes on behind a filter only when the target has it, or there was  *)
(* an error.                                                               *)
LEMMA FilterIsTold ==
  ASSUME OrderInv, ListOK, ReportInv, Ignored, NEW x \in Filters, Tells(head, x)
  PROVE  x \in told \/ errors
<1>1. todo # << >> /\ head.name = "ignored" /\ (Succeeds \/ Fails)
  BY DEF Ignored, Ends, Turn
<1>2. head.do = x /\ head.do # "" /\ "done" \in head.waits
  <2>1. head.do = x
    BY <1>1 DEF Tells, Filters
  <2>2. Shape(head)
    BY <1>1, HeadTyped
  <2> QED BY <2>1, <2>2 DEF Shape, Things, Filters
<1>3. \/ sent /\ lastCommand \in {"done", "error"}
      \/ ~isOpen
  BY <1>1, <1>2 DEF Succeeds, Fails
<1>4. CASE ~isOpen
  BY <1>1, <1>4 DEF ReportInv, ClosedIsError
<1>5. CASE sent /\ lastCommand \in {"done", "error"}
  BY <1>2, <1>5 DEF ReportInv, FiltersAreTold
<1> QED BY <1>3, <1>4, <1>5

(* An exit code other than 0 reports something. *)
LEMMA OtherExits ==
  ASSUME exitCode' # 0 PROVE FailureIsReported'
BY DEF FailureIsReported

(* The steps of the chains keep what the exit code depends on: where the   *)
(* mode is given up, an error is counted.                                  *)
LEMMA ChainReports ==
  ASSUME TestMode, OrderInv, ListOK, ReportInv, Chain PROVE ReportInv'
<1> USE DEF Elsewhere, MainStays, DecoderStays, programVars, gdbVars, decoderVars
<1>1. /\ Turn /\ ~gone /\ todo # << >> /\ exitCode = Alive
      /\ options' = options /\ inferior' = inferior /\ told' = told /\ stops' = stops
  BY DEF Chain, Ignored, ExecuteEnds, initSystem, Connected, removeFrame, getTargetDefines,
     renewEUnitBreakpoints, startTestMode, FirstStop, Ends, Turn, gone
<1>2. CASE StartFails
  BY <1>1, <1>2, GivingUpReports
<1>3. CASE ~StartFails
  <2>1. PICK next : GoesOn(next)
    BY <1>3, ChainGoesOn DEF TestMode, FlashesOn
  <2>2. exitCode' # 0
    <3>1. exitCode' \in {exitCode, Crashed, Aborted, -14}
      <4>1. CASE ExecuteEnds
        BY <4>1 DEF ExecuteEnds, Exits
      <4>2. CASE renewEUnitBreakpoints
        BY <4>2 DEF renewEUnitBreakpoints, Exits
      <4>3. CASE FirstStop
        BY <1>3, <4>3 DEF FirstStop, Exits
      <4>4. CASE startTestMode \/ Connected
        BY <1>3, <4>4 DEF startTestMode, Connected
      <4>5. CASE Ignored \/ initSystem \/ removeFrame \/ getTargetDefines
        BY <4>5 DEF Ignored, initSystem, removeFrame, getTargetDefines
      <4> QED BY <4>1, <4>2, <4>3, <4>4, <4>5 DEF Chain
    <3> QED BY <1>1, <3>1 DEF Alive, Crashed, Aborted
  <2>3. /\ errors' = errors
        /\ isOpen' = isOpen \/ isOpen' = TRUE
        /\ head.name = "initSystem" => isOpen'
    <3>1. CASE Connected
      BY <1>3, <3>1 DEF Connected, TestMode, Ends
    <3>2. CASE initSystem
      BY <3>2 DEF initSystem
    <3>3. CASE startTestMode \/ FirstStop
      BY <1>3, <3>3 DEF startTestMode, FirstStop
    <3>4. CASE Ignored \/ ExecuteEnds \/ removeFrame \/ getTargetDefines
               \/ renewEUnitBreakpoints
      BY <3>4 DEF Ignored, ExecuteEnds, removeFrame, getTargetDefines, renewEUnitBreakpoints,
         Ends
    <3> QED BY <3>1, <3>2, <3>3, <3>4 DEF Chain, startTestMode, FirstStop
  <2>4. \/ frames' = frames \/ frames' = << >>
        \/ head.name = "removeFrame" /\ frames' = SubSeq(frames, 1, Len(frames) - 1)
    BY <1>3 DEF Chain, Ignored, ExecuteEnds, initSystem, Connected, removeFrame,
       getTargetDefines, renewEUnitBreakpoints, startTestMode, FirstStop, TestMode, Ends
  <2>5. ASSUME Begins(head) PROVE ToBegin' \/ gone' \/ inferior = "halted"
    <3>1. startTestMode \/ FirstStop
      BY <2>5 DEF Begins, Chain, Ignored, ExecuteEnds, initSystem, Connected, removeFrame,
         getTargetDefines, renewEUnitBreakpoints, Ends
    <3>2. CASE startTestMode
      <4> DEFINE renews == Call("renewEUnitBreakpoints")
                 first == Op("firstStop",
                             IF options.runOnTarget THEN "-exec-continue" ELSE "run",
                             {"stopped"})
                 list == <<renews, first>>
                 S == Successors("startTestMode")
      <4>1. Ends("startTestMode", list)
        BY <1>3, <3>2 DEF startTestMode
      <4>2. renews \in S /\ first \in S
        BY DEF Successors
      <4>3. Begins(first)
        BY DEF Begins, Op
      <4> HIDE DEF renews, first
      <4>4. list \in Seq(S) /\ Len(list) = 2 /\ list[2] = first
        BY <4>2, TwoIndices, ListTwo
      <4> HIDE DEF list, S
      <4>5. list \in Seq(AnyOperation)
        BY <4>4, SuccessorsAreOperations, ListGrows DEF S
      <4>6. /\ \A k \in 1..Len(list) : todo'[k] = list[k]
            /\ Len(todo') = Len(list) + Len(todo) - 1
            /\ Len(todo) \in Nat /\ Len(todo) >= 1
        BY <4>1, <4>5, EndsIndices DEF ListOK
      <4>7. Len(todo') = Len(todo) + 1 /\ 2 \in 1..Len(list)
        BY <4>4, <4>6
      <4>8. 2 \in 1..Len(todo')
        BY <4>6, <4>7
      <4>9. todo'[2] = first
        BY <4>4, <4>6, <4>7
      <4> QED BY <4>3, <4>8, <4>9 DEF ToBegin
    <3>3. CASE FirstStop
      <4>1. head.name = "firstStop"
        BY <3>3 DEF FirstStop
      <4>2. ToBegin
        BY <1>1, <4>1, HeadIsListed DEF ToBegin, Begins
      <4>3. \/ frames # << >> /\ frames[Len(frames)] = "startTesting"
            \/ exitCode' = Aborted
        BY <1>3, <3>3 DEF FirstStop, Exits
      <4> QED BY <4>2, <4>3 DEF ReportInv, LatestIsHalted, gone, Aborted, Alive
    <3> QED BY <3>1, <3>2, <3>3
  <2>6. ASSUME NEW x \in Filters, Tells(head, x) PROVE ToTell(x)' \/ x \in told \/ errors
    <3>1. head.name \in {"ignored", x}
      BY <1>1, <2>6, HeadTyped DEF Tells, Shape, Things, Filters
    <3>2. Ignored
      BY <3>1 DEF Chain, ExecuteEnds, initSystem, Connected, removeFrame, getTargetDefines,
         renewEUnitBreakpoints, startTestMode, FirstStop, Ends, Filters
    <3> QED BY <3>2, <2>6, FilterIsTold
  <2> QED BY <1>1, <2>1, <2>2, <2>3, <2>4, <2>5, <2>6, OtherExits, ReportGoesOn
<1> QED BY <1>2, <1>3

(* The modes: a filter that is skipped is an error.                        *)
LEMMA ModeReports ==
  ASSUME TestMode, OrderInv, ListOK, SoundList, ReportInv, Mode PROVE ReportInv'
<1> USE DEF Elsewhere, MainStays, DecoderStays, programVars, gdbVars, decoderVars
<1>1. /\ Turn /\ ~gone /\ todo # << >> /\ exitCode = Alive
      /\ options' = options /\ inferior' = inferior /\ told' = told /\ stops' = stops
  BY DEF Mode, SetFilter, FilterFits, Continue, executeAllTest, TakesFrame, NoNewFrame,
     Detached, Ends, Turn, gone
<1>2. head \in AnyOp /\ Shape(head)
  BY <1>1, HeadTyped
<1>3. CASE FilterFits /\ SkipsFilter
  BY <1>3, SkipReports
<1>4. ASSUME NEW name \in Filters, SetFilter(name) PROVE ReportInv'
  <2> DEFINE fits == Op("fits", "sizeof", {"done"})
             tells == Command(name)
             list == <<fits, tells>>
             S == Successors(name)
  <2>1. Ends(name, list)
    BY <1>4 DEF SetFilter
  <2>2. fits \in S /\ tells \in S
    BY DEF Successors, Filters
  <2>3. Tells(tells, name)
    BY DEF Tells, Command, Op
  <2> HIDE DEF fits, tells
  <2>4. list \in Seq(S) /\ Len(list) = 2 /\ list[2] = tells
    BY <2>2, TwoIndices, ListTwo
  <2> HIDE DEF list, S
  <2>5. list \in Seq(AnyOperation)
    BY <2>4, SuccessorsAreOperations, ListGrows DEF S
  <2>6. /\ \A k \in 1..Len(list) : todo'[k] = list[k]
        /\ Len(todo') = Len(list) + Len(todo) - 1
        /\ Len(todo) \in Nat /\ Len(todo) >= 1
    BY <2>1, <2>5, EndsIndices DEF ListOK
  <2>7. 2 \in 1..Len(todo')
    BY <2>4, <2>6
  <2>8. ToTell(name)'
    BY <2>3, <2>4, <2>6, <2>7 DEF ToTell
  <2>9. head.name = name /\ ~Begins(head) /\ head.name # "initSystem"
    BY <2>1 DEF Ends, Begins, Filters
  <2>10. GoesOn(list)
    BY <2>1, <2>4, <2>9 DEF GoesOn, S
  <2>11. \A x \in Filters : Tells(head, x) => x = name
    BY <1>2, <2>9 DEF Tells, Shape, Things, Filters
  <2>12. exitCode' # 0
    BY <1>1, <1>4 DEF SetFilter, Exits, Alive
  <2>13. errors' = errors /\ isOpen' = isOpen /\ frames' = frames
    BY <1>4 DEF SetFilter
  <2> QED BY <1>1, <2>8, <2>9, <2>10, <2>11, <2>12, <2>13, OtherExits, ReportGoesOn
<1>5. CASE ~SkipsFilter /\ ~\E name \in Filters : SetFilter(name)
  <2>1. PICK next : GoesOn(next)
    BY <1>5, ModeGoesOn
  <2>2. FilterFits \/ Continue \/ executeAllTest
    BY <1>2, <1>5 DEF Mode, Filters, TakesFrame, NoNewFrame, Detached, Ends, AnyOp, Names
  <2>3. head.name \in {"fits", "continue", "executeAllTest"}
    BY <2>2 DEF FilterFits, Continue, executeAllTest, Ends
  <2>4. ~Begins(head) /\ head.name # "initSystem" /\ \A x \in Filters : ~Tells(head, x)
    BY <1>2, <2>3 DEF Begins, Tells, Filters, Shape, Things
  <2>5. exitCode' \in {exitCode, -10, -11}
    BY <2>2 DEF FilterFits, Continue, executeAllTest, Exits
  <2>6. (errors => errors') /\ isOpen' = isOpen /\ frames' = frames
    BY <2>2 DEF FilterFits, Continue, executeAllTest
  <2>7. FailureIsReported'
    BY <1>1, <2>5, OtherExits DEF Alive
  <2> QED BY <1>1, <2>1, <2>4, <2>6, <2>7, ReportGoesOn
<1>6. SkipsFilter => FilterFits
  <2> SUFFICES ASSUME head.name = "fits" PROVE FilterFits
    BY DEF SkipsFilter
  <2> QED BY DEF Mode, SetFilter, Continue, executeAllTest, TakesFrame, NoNewFrame, Detached,
             Ends
<1> QED BY <1>3, <1>4, <1>5, <1>6

(* The end of main: what it returns is what the analyser has counted.      *)
LEMMA EndReports ==
  ASSUME TestMode, OrderInv, ListOK, ReportInv, EndOfMain PROVE ReportInv'
<1> USE DEF Elsewhere, MainStays, DecoderStays, programVars, gdbVars, decoderVars
<1>1. /\ Turn /\ ~gone /\ todo # << >> /\ exitCode = Alive
      /\ options' = options /\ inferior' = inferior /\ told' = told /\ stops' = stops
      /\ errors' = errors /\ isOpen' = isOpen /\ frames' = frames
      /\ head.name \in {"afterMode", "failSilent", "cleanUpAndExit"}
  BY DEF EndOfMain, AfterMode, failSilent, cleanUpAndExit, Ends, Turn, gone
<1>2. head \in AnyOp /\ Shape(head)
  BY <1>1, HeadTyped
<1>3. ~Begins(head) /\ head.name # "initSystem" /\ \A x \in Filters : ~Tells(head, x)
  BY <1>1, <1>2 DEF Begins, Tells, Filters, Shape, Things
<1>4. PICK next : GoesOn(next)
  BY EndGoesOn
<1>5. FailureIsReported'
  <2>1. CASE AfterMode \/ failSilent
    BY <1>1, <2>1, OtherExits DEF AfterMode, failSilent, Alive
  <2>2. CASE cleanUpAndExit
    <3> SUFFICES ASSUME exitCode' = 0, options.failByFailedTests
                 PROVE  /\ result' = "ok"
                        /\ options.enabledTestGroups => "optInTestGroups" \in told
                        /\ options.disabedTestGroups => "optOutTestGroups" \in told
      BY <1>1 DEF FailureIsReported
    <3>1. exitCode' = (IF ~ModeWasSuccessful /\ options.failByFailedTests THEN -1 ELSE 0)
          /\ result' = result
      BY <2>2 DEF cleanUpAndExit, Exits
    <3>2. ModeWasSuccessful
      BY <3>1
    <3>3. result = "ok" /\ ~errors
      BY <3>2 DEF ModeWasSuccessful, TestMode
    <3>4. 1 \in 1..Len(todo) /\ head = todo[1] /\ Len(todo) \in Nat
      BY <1>1, HeadIsListed
    <3>5. Closes(todo[1])
      BY <1>1, <3>4 DEF Closes
    <3>6. ASSUME NEW x \in Filters PROVE ~ToTell(x)
      <4> SUFFICES ASSUME NEW k \in 1..Len(todo), Tells(todo[k], x) PROVE FALSE
        BY DEF ToTell
      <4>1. k # 1
        BY <1>3, <3>4
      <4>2. 1 < k
        BY <3>4, <4>1
      <4> QED BY <3>4, <3>5, <4>2 DEF ReportInv, TellsFirst, Telling
    <3>7. ASSUME NEW x \in Filters, Needed(x) PROVE x \in told
      BY <1>1, <3>6, <3>7 DEF ReportInv, KnownOrToTell
    <3>8. options.enabledTestGroups => Needed("optInTestGroups")
      BY <3>3 DEF Needed
    <3>9. options.disabedTestGroups => Needed("optOutTestGroups")
      BY <3>3 DEF Needed
    <3> QED BY <3>1, <3>3, <3>7, <3>8, <3>9 DEF Filters
  <2> QED BY <2>1, <2>2 DEF EndOfMain
<1> QED BY <1>1, <1>3, <1>4, <1>5, ReportGoesOn

(* A frame behind the others is the latest. *)
LEMMA LatestFrame ==
  ASSUME frames \in Seq(StopFrames), NEW place \in StopFrames,
         frames' = Append(frames, place)
  PROVE  /\ frames' \in Seq(StopFrames) /\ Len(frames') = Len(frames) + 1
         /\ Len(frames) \in Nat /\ frames'[Len(frames')] = place
         /\ \A k \in 1..Len(frames) : frames'[k] = frames[k]
<1>1. Len(frames) \in Nat
  BY LenProperties
<1>2. /\ frames' \in Seq(StopFrames) /\ Len(frames') = Len(frames) + 1
      /\ \A i \in 1..Len(frames) : frames'[i] = frames[i]
      /\ frames'[Len(frames) + 1] = place
  BY AppendProperties
<1> QED BY <1>1, <1>2

(* gdb's answers: a filter is accepted by a halted target.                 *)
LEMMA GdbReports ==
  ASSUME TestMode, OrderInv, ListOK, ReportInv, GdbStep PROVE ReportInv'
<1>1. /\ Turn /\ ~gone /\ exitCode = Alive /\ todo # << >> /\ sent
      /\ lastCommand = "waitForResult"
      /\ todo' = todo /\ sent' = sent /\ options' = options /\ isOpen' = isOpen
      /\ errors' = errors /\ stops' = stops /\ result' = result
  BY DEF GdbStep, Turn, gone, programVars
<1>2. /\ head \in AnyOp /\ Shape(head) /\ 1 \in 1..Len(todo) /\ head = todo[1]
      /\ Len(todo) \in Nat
  BY <1>1, HeadTyped, HeadIsListed
<1>3. AnswerError \/ Resume \/ AnswerDone(head.do)
  BY DEF GdbStep
<1>4. told \subseteq told' /\ exitCode' \in {exitCode, -2}
  BY <1>3 DEF AnswerError, Resume, AnswerDone, gdbVars
<1>5. frames' = frames \/ frames' = Append(frames, "other")
  BY <1>3 DEF AnswerError, Resume, AnswerDone
<1>6. ToBegin' = ToBegin /\ TellsFirst' /\ \A x \in Filters : ToTell(x)' = ToTell(x)
  BY <1>1 DEF ToBegin, ToTell, ReportInv, TellsFirst
<1>7. frames \in Seq(StopFrames) /\ Len(frames) \in Nat
  BY LenProperties DEF ReportInv
<1>8. /\ frames' \in Seq(StopFrames) /\ MessagesAreStops'
      /\ frames' # frames => frames'[Len(frames')] = "other"
  <2>1. CASE frames' = frames
    BY <1>1, <1>7, <2>1 DEF ReportInv, MessagesAreStops
  <2>2. CASE frames' = Append(frames, "other")
    <3>1. "other" \in StopFrames
      BY DEF StopFrames
    <3>2. /\ frames' \in Seq(StopFrames) /\ Len(frames') = Len(frames) + 1
          /\ frames'[Len(frames')] = "other"
          /\ \A k \in 1..Len(frames) : frames'[k] = frames[k]
      BY <1>7, <2>2, <3>1, LatestFrame
    <3>3. \A k \in 1..Len(frames') : k = Len(frames') \/ k \in 1..Len(frames)
      BY <1>7, <3>2
    <3>4. MessagesAreStops'
      <4> SUFFICES ASSUME NEW k \in 1..Len(frames'), frames'[k] = "startTesting"
                   PROVE  stops > 0
        BY <1>1 DEF MessagesAreStops
      <4>1. k \in 1..Len(frames) /\ frames[k] = "startTesting"
        BY <3>2, <3>3
      <4> QED BY <4>1 DEF ReportInv, MessagesAreStops
    <3> QED BY <3>2, <3>4
  <2> QED BY <1>5, <2>1, <2>2
<1>9. LatestIsHalted'
  <2> SUFFICES ASSUME ToBegin, frames # << >>, frames[Len(frames)] = "startTesting"
               PROVE  FALSE
    BY <1>6, <1>8 DEF LatestIsHalted
  <2>1. Len(frames) \in 1..Len(frames)
    BY <1>7
  <2>2. stops > 0
    BY <2>1 DEF ReportInv, MessagesAreStops
  <2> QED BY <1>1, <2>2, NothingBeginsLater
<1>10. ASSUME NEW x \in Filters, Tells(head, x) PROVE head.do = x /\ head.name = "ignored"
  <2>1. head.name # x
    BY <1>1, <1>2, <1>10 DEF Turn, GdbStep, Shape, Filters, Things, OrderInv, Typed, Begins
  <2>2. head.do = x
    BY <1>10, <2>1 DEF Tells
  <2> QED BY <1>2, <2>2 DEF Shape, Things, Filters
<1>11. ASSUME NEW x \in Filters, ToTell(x), IsContinue(head) \/ Closes(head) PROVE FALSE
  <2>1. PICK k \in 1..Len(todo) : Tells(todo[k], x)
    BY <1>11 DEF ToTell
  <2>2. CASE k = 1
    BY <1>2, <1>10, <1>11, <2>1, <2>2 DEF IsContinue, Closes, Filters
  <2>3. CASE k # 1
    <3>1. 1 < k
      BY <1>2, <2>3
    <3> QED BY <1>2, <1>11, <2>1, <3>1 DEF ReportInv, TellsFirst, Telling
  <2> QED BY <2>2, <2>3
<1>12. HaltedWhileTold'
  <2> SUFFICES ASSUME ~ToBegin, NEW x \in Filters, ToTell(x) PROVE inferior' = "halted"
    BY <1>6 DEF HaltedWhileTold
  <2>1. inferior = "halted"
    BY <1>1 DEF ReportInv, HaltedWhileTold
  <2>2. ~IsContinue(head) /\ ~Closes(head) /\ head.name # "firstStop"
    BY <1>2, <1>11 DEF ToBegin, Begins
  <2>3. head.do \notin {"run", "-exec-continue", "-target-disconnect", "-target-detach"}
    <3>1. head.do # "run" /\ head.do # "-exec-continue" /\ head.do # "-target-disconnect"
      BY <1>2, <2>2 DEF Shape, IsContinue, Closes
    <3>2. head.do \in Commands \union {"-exec-interrupt", "script"}
      BY <1>2 DEF AnyOp
    <3>3. "-target-detach" \notin Commands \union {"-exec-interrupt", "script"}
      BY DEF Commands
    <3> QED BY <3>1, <3>2, <3>3
  <2>4. CASE AnswerError
    BY <2>1, <2>4 DEF AnswerError, gdbVars
  <2>5. CASE AnswerDone(head.do)
    BY <2>1, <2>3, <2>5 DEF AnswerDone, Interrupts
  <2>6. AnswerError \/ AnswerDone(head.do)
    BY <2>3 DEF GdbStep
  <2> QED BY <2>4, <2>5, <2>6
<1>13. FiltersAreTold'
  <2> SUFFICES ASSUME head.do \in Filters
               PROVE  lastCommand' = "done" /\ head.do \in told'
    BY <1>1 DEF FiltersAreTold, head
  <2> DEFINE x == head.do
  <2>1. Tells(head, x) /\ ToTell(x)
    BY <1>2 DEF Tells, ToTell
  <2>2. ~ToBegin
    <3> SUFFICES ASSUME NEW k \in 1..Len(todo), Begins(todo[k]) PROVE FALSE
      BY DEF ToBegin
    <3>1. k # 1
      BY <1>2, <1>10, <2>1 DEF Begins
    <3>2. 1 < k
      BY <1>2, <3>1
    <3>3. BelongsBehind(todo[1]) /\ Starts(todo[k]) /\ 1 \in Ops /\ k \in Ops
      BY <1>2, <2>1 DEF BelongsBehind, Things, Filters, Starts, Begins, Ops
    <3> QED BY <3>2, <3>3 DEF OrderInv, StartsBefore
  <2>3. inferior = "halted"
    BY <1>1, <2>1, <2>2 DEF ReportInv, HaltedWhileTold
  <2>4. ~MayFail(head.do) /\ head.do \notin {"run", "-exec-continue"}
    BY DEF MayFail, Filters
  <2>5. AnswerDone(head.do)
    BY <2>3, <2>4 DEF GdbStep
  <2> QED BY <2>5 DEF AnswerDone, Filters
<1>14. KnownOrToTell'
  BY <1>1, <1>4, <1>6 DEF ReportInv, KnownOrToTell, Needed
<1>15. ClosedIsError'
  BY <1>1 DEF ReportInv, ClosedIsError, head
<1>16. FailureIsReported'
  BY <1>1, <1>4, OtherExits DEF Alive
<1> QED BY <1>6, <1>8, <1>9, <1>12, <1>13, <1>14, <1>15, <1>16 DEF ReportInv

(* A stop leaves the target halted.                                        *)
LEMMA StopReports ==
  ASSUME TypeInv, OrderInv, ReportInv, TargetStops PROVE ReportInv'
<1>1. /\ inferior = "running" /\ stops' = stops + 1 /\ stops \in Nat /\ ~gone
      /\ exitCode' = exitCode /\ exitCode = Alive
      /\ todo' = todo /\ sent' = sent /\ options' = options /\ isOpen' = isOpen
      /\ errors' = errors /\ told' = told /\ result' = result /\ lastCommand' = lastCommand
  <2>1. stops \in Nat
    <3>1. ValuesOK
      BY TypeInvParts
    <3> QED BY <3>1, ProgramAssumption DEF ValuesOK
  <2>2. inferior = "running" /\ stops' = stops + 1 /\ ~gone
    BY DEF TargetStops, Turn
  <2>3. exitCode = Alive
    BY <2>2 DEF gone
  <2>4. UNCHANGED <<programVars, mainVars, lastCommand, told, result>>
    BY DEF TargetStops
  <2> QED BY <2>1, <2>2, <2>3, <2>4 DEF programVars, mainVars
<1>2. ToBegin' = ToBegin /\ TellsFirst' /\ \A x \in Filters : ToTell(x)' = ToTell(x)
  BY <1>1 DEF ToBegin, ToTell, ReportInv, TellsFirst
<1>3. stops' > 0
  BY <1>1
<1>4. MessagesAreStops'
  BY <1>3 DEF MessagesAreStops
<1>5. frames' \in Seq(StopFrames) /\ LatestIsHalted'
  <2>1. ASSUME NEW place \in Places, frames' = Append(frames, place), inferior' = "halted"
        PROVE  frames' \in Seq(StopFrames) /\ LatestIsHalted'
    <3>1. place \in StopFrames
      BY DEF Places, StopFrames
    <3> QED BY <2>1, <3>1, LatestFrame DEF ReportInv, LatestIsHalted
  <2>2. CASE frames' = frames /\ inferior' = "none"
    BY <1>1, <1>2, <2>2 DEF ReportInv, LatestIsHalted
  <2> QED BY <2>1, <2>2 DEF TargetStops
<1>6. HaltedWhileTold'
  BY <1>1, <1>2 DEF ReportInv, HaltedWhileTold, gone
<1>7. FiltersAreTold'
  BY <1>1 DEF ReportInv, FiltersAreTold, head
<1>8. KnownOrToTell'
  BY <1>1, <1>2 DEF ReportInv, KnownOrToTell, Needed, gone
<1>9. ClosedIsError'
  BY <1>1 DEF ReportInv, ClosedIsError, head
<1>10. FailureIsReported'
  BY <1>1 DEF ReportInv, FailureIsReported
<1> QED BY <1>2, <1>4, <1>5, <1>6, <1>7, <1>8, <1>9, <1>10 DEF ReportInv

(* Sending changes none of it.                                             *)
LEMMA SendReports ==
  ASSUME ReportInv, Send PROVE ReportInv'
<1>1. /\ todo' = todo /\ options' = options /\ isOpen' = isOpen /\ errors' = errors
      /\ told' = told /\ result' = result /\ lastCommand' = "waitForResult"
      /\ exitCode' = exitCode /\ frames' = frames /\ inferior' = inferior /\ stops' = stops
  BY DEF Send, programVars, gdbVars
<1> QED BY <1>1 DEF ReportInv, MessagesAreStops, LatestIsHalted, HaltedWhileTold, TellsFirst,
           FiltersAreTold, KnownOrToTell, ClosedIsError, FailureIsReported, ToBegin, ToTell,
           Needed, gone, head

(* Main begins with nothing lost: the filters are before the tests, and    *)
(* the end is behind them.                                                 *)
LEMMA ReportInit ==
  ASSUME Init, TestMode PROVE ReportInv
<1> DEFINE first == Call("initSystem")
           second == Call("startTestMode")
           third == Call("renewEUnitBreakpoints")
           level == Command("level")
           inGroups == Call("optInTestGroups")
           outGroups == Call("optOutTestGroups")
           go == Call("continue")
           tests == Call("executeAllTest")
           after == Call("afterMode")
<1>1. /\ \A op \in {first, second, third, level, inGroups, outGroups} :
           ~IsContinue(op) /\ ~Closes(op)
      /\ \A op \in {go, tests, after} : ~Telling(op)
      /\ Begins(second) /\ first.name = "initSystem"
      /\ Tells(inGroups, "optInTestGroups") /\ Tells(outGroups, "optOutTestGroups")
  <2>1. \A name \in {"initSystem", "startTestMode", "renewEUnitBreakpoints",
                     "optInTestGroups", "optOutTestGroups"} :
          ~IsContinue(Call(name)) /\ ~Closes(Call(name))
    BY DEF Call, Op, IsContinue, Closes
  <2>2. ~IsContinue(level) /\ ~Closes(level)
    BY DEF Command, Op, IsContinue, Closes
  <2>3. \A name \in {"continue", "executeAllTest", "afterMode"} : ~Telling(Call(name))
    BY DEF Call, Op, Telling, Tells, Filters
  <2>4. /\ Begins(second) /\ first.name = "initSystem"
        /\ Tells(inGroups, "optInTestGroups") /\ Tells(outGroups, "optOutTestGroups")
    BY DEF Call, Op, Begins, Tells
  <2> QED BY <2>1, <2>2, <2>3, <2>4
<1>2. PICK n \in Nat : InitialList(n)
  BY InitialTodo
<1>3. /\ n \in 0..2
      /\ options.enabledTestGroups => n >= 1 /\ todo[5] = inGroups
      /\ options.disabedTestGroups => n >= 1 /\ todo[n + 4] = outGroups
  BY <1>2 DEF InitialList
<1>4. /\ Len(todo) = n + 7
      /\ todo[1] = first /\ todo[2] = second /\ todo[3] = third /\ todo[4] = level
      /\ \A k \in 5..(n + 4) : todo[k] \in {inGroups, outGroups}
      /\ \A k \in (n + 5)..(n + 7) : todo[k] \in {go, tests, after}
  BY <1>2 DEF InitialList
<1>5. todo # << >>
  BY <1>3, <1>4
<1> HIDE DEF first, second, third, level, inGroups, outGroups, go, tests, after
<1>6. \A k \in 1..Len(todo) :
        \/ k <= n + 4 /\ todo[k] \in {first, second, third, level, inGroups, outGroups}
        \/ k > n + 4 /\ todo[k] \in {go, tests, after}
  <2> SUFFICES ASSUME NEW k \in 1..Len(todo)
               PROVE  \/ k <= n + 4 /\ todo[k] \in {first, second, third, level, inGroups,
                                                    outGroups}
                      \/ k > n + 4 /\ todo[k] \in {go, tests, after}
    OBVIOUS
  <2>1. k = 1 \/ k = 2 \/ k = 3 \/ k = 4 \/ k \in 5..(n + 4) \/ k \in (n + 5)..(n + 7)
    BY <1>3, <1>4
  <2>2. CASE k = 1 \/ k = 2 \/ k = 3 \/ k = 4
    <3>1. k <= n + 4
      BY <2>2, <1>3
    <3> QED BY <2>2, <3>1, <1>4
  <2>3. CASE k \in 5..(n + 4)
    BY <2>3, <1>3, <1>4
  <2>4. CASE k \in (n + 5)..(n + 7)
    <3>1. k > n + 4
      BY <2>4, <1>3
    <3> QED BY <2>4, <3>1, <1>4
  <2> QED BY <2>1, <2>2, <2>3, <2>4
<1>7. TellsFirst
  <2> SUFFICES ASSUME NEW j \in 1..Len(todo), NEW k \in 1..Len(todo), j < k,
                      IsContinue(todo[j]) \/ Closes(todo[j]), Telling(todo[k])
               PROVE  FALSE
    BY DEF TellsFirst
  <2>1. ~(j <= n + 4)
    BY <1>1, <1>6
  <2>2. k <= n + 4
    BY <1>1, <1>6
  <2> QED BY <2>1, <2>2, <1>3
<1>8. ToBegin
  <2>1. 2 \in 1..Len(todo)
    BY <1>3, <1>4
  <2> QED BY <2>1, <1>1, <1>4 DEF ToBegin
<1>9. KnownOrToTell
  <2> SUFFICES ASSUME NEW x \in Filters, Needed(x) PROVE ToTell(x)
    BY DEF KnownOrToTell
  <2>1. CASE x = "optInTestGroups"
    <3>1. n >= 1 /\ todo[5] = inGroups
      BY <2>1, <1>3 DEF Needed, Init
    <3>2. 5 \in 1..Len(todo)
      BY <3>1, <1>3, <1>4
    <3> QED BY <2>1, <3>1, <3>2, <1>1 DEF ToTell
  <2>2. CASE x = "optOutTestGroups"
    <3>1. n >= 1 /\ todo[n + 4] = outGroups
      BY <2>2, <1>3 DEF Needed, Init
    <3>2. n + 4 \in 1..Len(todo)
      BY <3>1, <1>3, <1>4
    <3> QED BY <2>2, <3>1, <3>2, <1>1 DEF ToTell
  <2> QED BY <2>1, <2>2 DEF Filters
<1>10. ClosedIsError
  BY <1>1, <1>4, <1>5 DEF ClosedIsError, head
<1>11. /\ frames = << >> /\ ~sent /\ exitCode = Alive
  BY DEF Init
<1>12. frames \in Seq(StopFrames) /\ MessagesAreStops
  BY <1>11 DEF MessagesAreStops
<1>13. LatestIsHalted /\ HaltedWhileTold /\ FiltersAreTold /\ FailureIsReported
  BY <1>8, <1>11 DEF LatestIsHalted, HaltedWhileTold, FiltersAreTold, FailureIsReported, Alive
<1> QED BY <1>7, <1>9, <1>10, <1>12, <1>13 DEF ReportInv

(* Every step of test mode keeps it. *)
LEMMA ReportNext ==
  TypeInv /\ WatchInv /\ (TestMode => OrderInv /\ ReportInv) /\ [Next]_vars
    => (TestMode => ReportInv)'
<1> SUFFICES ASSUME TypeInv, WatchInv, TestMode => OrderInv /\ ReportInv, [Next]_vars, TestMode'
             PROVE  ReportInv'
  OBVIOUS
<1>1. options' = options
  <2> USE DEF Elsewhere, programVars
  <2>1. CASE Chain
    BY <2>1 DEF Chain, Ignored, ExecuteEnds, initSystem, Connected, removeFrame,
       getTargetDefines, renewEUnitBreakpoints, startTestMode, FirstStop
  <2>2. CASE Mode
    BY <2>2 DEF Mode, SetFilter, FilterFits, Continue, executeAllTest, TakesFrame,
       NoNewFrame, Detached
  <2>3. CASE EndOfMain
    BY <2>3 DEF EndOfMain, AfterMode, failSilent, cleanUpAndExit
  <2>4. CASE Send \/ GdbStep \/ TargetStops \/ UNCHANGED vars
    BY <2>4 DEF Send, GdbStep, TargetStops, vars
  <2> QED BY <2>1, <2>2, <2>3, <2>4 DEF Next, Main
<1>2. TestMode /\ OrderInv /\ ReportInv
  BY <1>1 DEF TestMode
<1>3. ListOK
  BY TypeInvParts
<1>4. CASE Send
  BY <1>2, <1>4, SendReports
<1>5. CASE Chain
  BY <1>2, <1>3, <1>5, ChainReports
<1>6. CASE Mode
  <2>1. ~gone
    BY <1>6 DEF Mode, SetFilter, FilterFits, Continue, executeAllTest, TakesFrame, NoNewFrame,
       Detached, Ends, Turn
  <2>2. SoundList
    BY <1>2, <2>1 DEF WatchInv, Watching, TestMode
  <2> QED BY <1>2, <1>3, <1>6, <2>2, ModeReports
<1>7. CASE EndOfMain
  BY <1>2, <1>3, <1>7, EndReports
<1>8. CASE GdbStep
  BY <1>2, <1>3, <1>8, GdbReports
<1>9. CASE TargetStops
  BY <1>2, <1>9, StopReports
<1>10. CASE UNCHANGED vars
  <2>1. /\ todo' = todo /\ sent' = sent /\ options' = options /\ isOpen' = isOpen
        /\ errors' = errors /\ told' = told /\ result' = result /\ lastCommand' = lastCommand
        /\ exitCode' = exitCode /\ frames' = frames /\ inferior' = inferior /\ stops' = stops
    BY <1>10 DEF vars, programVars, mainVars, decoderVars, gdbVars
  <2> QED BY <2>1, <1>2 DEF ReportInv, MessagesAreStops, LatestIsHalted, HaltedWhileTold,
             TellsFirst, FiltersAreTold, KnownOrToTell, ClosedIsError, FailureIsReported,
             ToBegin, ToTell, Needed, gone, head
<1> QED BY <1>4, <1>5, <1>6, <1>7, <1>8, <1>9, <1>10 DEF Next, Main

(* With --failgdbManIfOneTestWasNotSuccessfull a run in test mode exits    *)
(* with 0 only when all tests have passed and the target was told every    *)
(* filter it was given: whatever gdb refuses, wherever the target stops,   *)
(* and whether or not the chain could be opened.                           *)
THEOREM FailuresAreReported == Spec => []FailureIsReported
<1>1. (TestMode => ReportInv) => FailureIsReported
  BY DEF ReportInv, FailureIsReported, TestMode
<1>2. Init => (TestMode => ReportInv) /\ (TestMode => OrderInv)
  BY ReportInit, OrderInit
<1>3. TypeInv /\ WatchInv /\ (TestMode => OrderInv) /\ (TestMode => ReportInv)
        /\ [Next]_vars => (TestMode => ReportInv)'
  BY ReportNext
<1> QED BY <1>1, <1>2, <1>3, TypeInit, TypeStep, RefusalInit, RefusalStep, WatchInit, WatchStep,
           OrderNext, PTL DEF Spec
===============================================================================
