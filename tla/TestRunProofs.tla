----------------------------- MODULE TestRunProofs -----------------------------
(***************************************************************************)
(* What the main thread does for each stop, and the theorems: while no     *)
(* timeout and no signal comes in between, the conversation of             *)
(* executeAllTest with gdb keeps the invariant of TestRunInvariant, and    *)
(* with it every property the runs check.  The second half lets a signal   *)
(* come at any moment: modeFailed then keeps an invariant of its own, and  *)
(* no batch is lost.                                                       *)
(***************************************************************************)
EXTENDS TestRunInvariant
-----------------------------------------------------------------------------
(* The main thread: what it does for a stop *)

(* Concatenations of short lists. *)
LEMMA ConcatShort ==
  ASSUME NEW a, NEW b, NEW c, NEW d, NEW e, NEW g
  PROVE  /\ <<a>> \o <<b, c>> = <<a, b, c>>
         /\ <<a, b, c>> \o <<d>> = <<a, b, c, d>>
<1> DEFINE S == {a, b, c, d, e, g}
<1>1. /\ <<a>> \in Seq(S) /\ <<b, c>> \in Seq(S) /\ <<a, b, c>> \in Seq(S)
      /\ <<d>> \in Seq(S) /\ <<d, e, g>> \in Seq(S)
      /\ <<a, b, c, d>> \in Seq(S) /\ <<a, b, c, d, e, g>> \in Seq(S)
  OBVIOUS
<1> HIDE DEF S
<1>2. <<a>> \o <<b, c>> = <<a, b, c>>
  <2> DEFINE t == <<a>> \o <<b, c>>
  <2>1. /\ t \in Seq(S) /\ Len(t) = Len(<<a>>) + Len(<<b, c>>)
        /\ \A i \in 1..(Len(<<a>>) + Len(<<b, c>>)) :
             t[i] = IF i <= Len(<<a>>) THEN <<a>>[i] ELSE <<b, c>>[i - Len(<<a>>)]
    BY <1>1, ConcatProperties
  <2> HIDE DEF t
  <2>2. Len(t) = 3 /\ \A i \in 1..3 : t[i] = IF i <= 1 THEN <<a>>[i] ELSE <<b, c>>[i - 1]
    BY <2>1
  <2>3. t[1] = a /\ t[2] = b /\ t[3] = c
    BY <2>2
  <2>4. \A i \in 1..Len(t) : t[i] = <<a, b, c>>[i]
    <3>1. \A i \in 1..Len(t) : i = 1 \/ i = 2 \/ i = 3
      BY <2>2
    <3> QED BY <2>3, <3>1
  <2>5. Len(t) = Len(<<a, b, c>>)
    BY <2>2
  <2>6. t = <<a, b, c>>
    BY <1>1, <2>1, <2>4, <2>5, SeqEqual
  <2> QED BY <2>6 DEF t
<1>3. <<a, b, c>> \o <<d>> = <<a, b, c, d>>
  <2> DEFINE t == <<a, b, c>> \o <<d>>
  <2>1. /\ t \in Seq(S) /\ Len(t) = Len(<<a, b, c>>) + Len(<<d>>)
        /\ \A i \in 1..(Len(<<a, b, c>>) + Len(<<d>>)) :
             t[i] = IF i <= Len(<<a, b, c>>) THEN <<a, b, c>>[i] ELSE <<d>>[i - Len(<<a, b, c>>)]
    BY <1>1, ConcatProperties
  <2> HIDE DEF t
  <2>2. Len(t) = 4 /\ \A i \in 1..4 : t[i] = IF i <= 3 THEN <<a, b, c>>[i] ELSE <<d>>[i - 3]
    BY <2>1
  <2>3. t[1] = a /\ t[2] = b /\ t[3] = c /\ t[4] = d
    BY <2>2
  <2>4. \A i \in 1..Len(t) : t[i] = <<a, b, c, d>>[i]
    <3>1. \A i \in 1..Len(t) : i = 1 \/ i = 2 \/ i = 3 \/ i = 4
      BY <2>2
    <3> QED BY <2>3, <3>1
  <2>5. Len(t) = Len(<<a, b, c, d>>)
    BY <2>2
  <2>6. t = <<a, b, c, d>>
    BY <1>1, <2>1, <2>4, <2>5, SeqEqual
  <2> QED BY <2>6 DEF t
<1> QED BY <1>2, <1>3

(* Two of three. *)
LEMMA ConcatThree ==
  ASSUME NEW a, NEW b, NEW c, NEW d, NEW e, NEW g
  PROVE  <<a, b, c>> \o <<d, e, g>> = <<a, b, c, d, e, g>>
<1> DEFINE S == {a, b, c, d, e, g}
<1>1. <<a, b, c>> \in Seq(S) /\ <<d, e, g>> \in Seq(S) /\ <<a, b, c, d, e, g>> \in Seq(S)
  OBVIOUS
<1> HIDE DEF S
<1>2. <<a, b, c>> \o <<d, e, g>> = <<a, b, c, d, e, g>>
  <2> DEFINE t == <<a, b, c>> \o <<d, e, g>>
  <2>1. /\ t \in Seq(S) /\ Len(t) = Len(<<a, b, c>>) + Len(<<d, e, g>>)
        /\ \A i \in 1..(Len(<<a, b, c>>) + Len(<<d, e, g>>)) :
             t[i] = IF i <= Len(<<a, b, c>>) THEN <<a, b, c>>[i]
                    ELSE <<d, e, g>>[i - Len(<<a, b, c>>)]
    BY <1>1, ConcatProperties
  <2> HIDE DEF t
  <2>2. Len(t) = 6 /\ \A i \in 1..6 : t[i] = IF i <= 3 THEN <<a, b, c>>[i] ELSE <<d, e, g>>[i - 3]
    BY <2>1
  <2>3. t[1] = a /\ t[2] = b /\ t[3] = c /\ t[4] = d /\ t[5] = e /\ t[6] = g
    BY <2>2
  <2>4. \A i \in 1..Len(t) : t[i] = <<a, b, c, d, e, g>>[i]
    <3>1. \A i \in 1..Len(t) : i = 1 \/ i = 2 \/ i = 3 \/ i = 4 \/ i = 5 \/ i = 6
      BY <2>2
    <3> QED BY <2>3, <3>1
  <2>5. Len(t) = Len(<<a, b, c, d, e, g>>)
    BY <2>2
  <2>6. t = <<a, b, c, d, e, g>>
    BY <1>1, <2>1, <2>4, <2>5, SeqEqual
  <2> QED BY <2>6 DEF t
<1> QED BY <1>2

(* An operation that is neither the first nor the last of its list. *)
Between(op) == op \in Ops /\ OnlyFirst(op) /\ ~Continues(op) /\ ~Leaves(op) /\ ~Inserts(op)

Exit == Op("exit", Command("set", "-target-detach"), FALSE)

(* What an operation is, from what it is made of. *)
Actions == {"set", "-break-delete", "-break-insert", "-exec-continue", "-exec-return",
            "-data-evaluate-expression", "-data-read-memory-bytes"}
Is(op, name, do, arg, w) ==
  /\ op.name = name /\ op.command.do = do /\ op.command.arg = arg /\ op.waitForStopped = w
  /\ Evaluates(op) <=> do = "-data-evaluate-expression"
  /\ Continues(op) <=> do = "-exec-continue"
  /\ Deletes(op) <=> do = "-break-delete"
  /\ Inserts(op) <=> do = "-break-insert"
  /\ ~Redirects(op)
  /\ Reads(op) <=> name \in {"readIndex", "readDump"}
  /\ Registers(op) <=> name \in {"addStub", "addMock"}
  /\ Reduces(op) <=> name = "reduce"
  /\ Leaves(op) <=> name = "exit"
  /\ Shape(op) => op \in Ops

(* Each operation is what it is made of. *)
LEMMA OpIs ==
  ASSUME NEW name \in Names, NEW do \in Actions, NEW arg \in Texts, NEW w \in BOOLEAN
  PROVE  Is(Op(name, Command(do, arg), w), name, do, arg, w)
<1> DEFINE o == Op(name, Command(do, arg), w)
<1>1. o.name = name /\ o.command.do = do /\ o.command.arg = arg /\ o.waitForStopped = w
  BY DEF Op, Command
<1>2. do \in Commands
  BY DEF Actions, Commands
<1>3. o \in [name: Names, command: [do: Commands, arg: Texts], waitForStopped: BOOLEAN]
  BY <1>2 DEF Op, Command
<1>4. do # "set $pc"
  BY DEF Actions
<1> HIDE DEF o
<1>5. ~Redirects(o)
  BY <1>1, <1>4 DEF Redirects
<1>6. Is(o, name, do, arg, w)
  BY <1>1, <1>3, <1>5
  DEF Is, Ops, Evaluates, Continues, Deletes, Inserts, Reads, Registers, Reduces, Leaves
<1> QED BY <1>6 DEF o

(* The words that occur in them. *)
LEMMA Words ==
  /\ Actions \subseteq Commands
  /\ Names = {"execute", "evaluate", "disabledTests", "readIndex", "readDump", "buffToSmall",
              "jumpOut", "addStub", "addMock", "reduce", "exit"}
  /\ {"", "memset", "test_result_index", "breaksMode", "disabledTest", "*res",
      "-target-detach"} \subseteq Texts
BY DEF Commands, Names, Texts, Actions

(* The index of the results is read. *)
LEMMA ReadIndexIs ==
  /\ ReadIndex \in Ops /\ ReadIndex.name = "readIndex" /\ Reads(ReadIndex)
  /\ ~Continues(ReadIndex) /\ ~Leaves(ReadIndex) /\ ~Inserts(ReadIndex)
  /\ ~Deletes(ReadIndex) /\ ~Reduces(ReadIndex) /\ ~Registers(ReadIndex)
<1>1. Is(ReadIndex, "readIndex", "-data-evaluate-expression", "test_result_index", FALSE)
  BY OpIs, Words DEF ReadIndex, Actions
<1> QED BY <1>1 DEF Is, Shape, Between, OnlyFirst

(* The buffer is read. *)
LEMMA ReadDumpIs ==
  /\ ReadDump \in Ops /\ ReadDump.name = "readDump" /\ Reads(ReadDump)
  /\ ~Continues(ReadDump) /\ ~Leaves(ReadDump) /\ ~Inserts(ReadDump)
  /\ ~Deletes(ReadDump) /\ ~Reduces(ReadDump) /\ ~Registers(ReadDump)
<1>1. Is(ReadDump, "readDump", "-data-read-memory-bytes", "", FALSE)
  BY OpIs, Words DEF ReadDump, Actions
<1> QED BY <1>1 DEF Is, Shape, Between, OnlyFirst

(* The number of disabled tests is read. *)
LEMMA DisabledIs ==
  Between(checkForDisabledTests)
<1>1. Is(checkForDisabledTests, "disabledTests", "-data-evaluate-expression", "disabledTest", FALSE)
  BY OpIs, Words DEF checkForDisabledTests, Actions
<1> QED BY <1>1 DEF Is, Shape, Between, OnlyFirst

(* A variable is set. *)
LEMMA SetIs ==
  ASSUME NEW x \in {"memset", "test_result_index", "breaksMode"}
  PROVE  /\ Between(Execute("set", x)) /\ ~Deletes(Execute("set", x))
         /\ Execute("set", x).name = "execute"
<1>1. Is(Execute("set", x), "execute", "set", x, FALSE)
  BY OpIs, Words DEF Execute, Actions
<1> QED BY <1>1 DEF Is, Shape, Between, OnlyFirst

(* The function the target is in is left. *)
LEMMA JumpIs ==
  ASSUME NEW x \in {"buffToSmall", "jumpOut"}
  PROVE  Between(JumpOut(x))
<1>1. Is(JumpOut(x), x, "-exec-return", "", TRUE)
  BY OpIs, Words DEF JumpOut, Actions
<1> QED BY <1>1 DEF Is, Shape, Between, OnlyFirst

(* What addResult was given is read. *)
LEMMA ValueIs ==
  Between(EvaluateOp("*res"))
<1>1. Is(EvaluateOp("*res"), "evaluate", "-data-evaluate-expression", "*res", FALSE)
  BY OpIs, Words DEF EvaluateOp, Actions
<1> QED BY <1>1 DEF Is, Shape, Between, OnlyFirst

(* A stub or a mock is registered. *)
LEMMA RegisterIs ==
  ASSUME NEW x \in {"addStub", "addMock"}
  PROVE  /\ JumpOut(x) \in Ops /\ Registers(JumpOut(x)) /\ ~Reads(JumpOut(x))
         /\ ~Continues(JumpOut(x)) /\ ~Leaves(JumpOut(x)) /\ ~Inserts(JumpOut(x))
         /\ ~Deletes(JumpOut(x)) /\ ~Reduces(JumpOut(x))
<1>1. Is(JumpOut(x), x, "-exec-return", "", TRUE)
  BY OpIs, Words DEF JumpOut, Actions
<1> QED BY <1>1 DEF Is, Shape, Between, OnlyFirst

(* The target is resumed. *)
LEMMA ContinueIs ==
  ASSUME NEW x \in BOOLEAN
  PROVE  /\ ContinueOp(x) \in Ops /\ Continues(ContinueOp(x)) /\ OnlyFirst(ContinueOp(x))
         /\ ~Inserts(ContinueOp(x)) /\ ContinueOp(x).waitForStopped = x
<1>1. Is(ContinueOp(x), "execute", "-exec-continue", "", x)
  BY OpIs, Words DEF ContinueOp, Actions
<1> QED BY <1>1 DEF Is, Shape, Between, OnlyFirst

(* The breakpoints are removed. *)
LEMMA DeleteIs ==
  /\ Execute("-break-delete", "") \in Ops /\ Deletes(Execute("-break-delete", ""))
  /\ ~Reads(Execute("-break-delete", "")) /\ ~Registers(Execute("-break-delete", ""))
  /\ ~Continues(Execute("-break-delete", "")) /\ ~Leaves(Execute("-break-delete", ""))
  /\ ~Inserts(Execute("-break-delete", "")) /\ ~Reduces(Execute("-break-delete", ""))
<1>1. Is(Execute("-break-delete", ""), "execute", "-break-delete", "", FALSE)
  BY OpIs, Words DEF Execute, Actions
<1> QED BY <1>1 DEF Is, Shape, Between, OnlyFirst

(* A breakpoint is set. *)
LEMMA InsertIs ==
  ASSUME NEW x \in Texts
  PROVE  /\ InsertBreakpoint(x) \in Ops /\ Inserts(InsertBreakpoint(x))
         /\ InsertBreakpoint(x).command.arg = x /\ ~Reads(InsertBreakpoint(x))
         /\ ~Registers(InsertBreakpoint(x)) /\ ~Continues(InsertBreakpoint(x))
         /\ ~Leaves(InsertBreakpoint(x)) /\ ~Deletes(InsertBreakpoint(x))
         /\ ~Reduces(InsertBreakpoint(x))
<1>1. Is(InsertBreakpoint(x), "execute", "-break-insert", x, FALSE)
  BY OpIs, Words DEF InsertBreakpoint, Execute, Actions
<1> QED BY <1>1 DEF Is, Shape, Between, OnlyFirst

(* The host gives up the target. *)
LEMMA ExitIs ==
  Exit \in Ops /\ Leaves(Exit) /\ OnlyFirst(Exit) /\ ~Inserts(Exit)
<1>1. Is(Exit, "exit", "set", "-target-detach", FALSE)
  BY OpIs, Words DEF Exit, Actions
<1> QED BY <1>1 DEF Is, Shape, Between, OnlyFirst

(* Is every operation of a list followed by one that may follow it? *)
Chain(list) == \A k \in 1..(Len(list) - 1) : Follows(list[k], list[k + 1])

(* Lists of up to six operations, pair by pair. *)
LEMMA ChainShort ==
  ASSUME NEW a, NEW b, NEW c, NEW d, NEW e, NEW g
  PROVE  /\ Chain(<<a>>)
         /\ Follows(a, b) => Chain(<<a, b>>)
         /\ Follows(a, b) /\ Follows(b, c) => Chain(<<a, b, c>>)
         /\ Follows(a, b) /\ Follows(b, c) /\ Follows(c, d) => Chain(<<a, b, c, d>>)
         /\ Follows(a, b) /\ Follows(b, c) /\ Follows(c, d) /\ Follows(d, e)
              => Chain(<<a, b, c, d, e>>)
         /\ Follows(a, b) /\ Follows(b, c) /\ Follows(c, d) /\ Follows(d, e) /\ Follows(e, g)
              => Chain(<<a, b, c, d, e, g>>)
<1> USE DEF Chain
<1>1. Chain(<<a>>)
  OBVIOUS
<1>2. Follows(a, b) => Chain(<<a, b>>)
  <2>1. \A k \in 1..(Len(<<a, b>>) - 1) : k = 1
    OBVIOUS
  <2> QED BY <2>1
<1>3. Follows(a, b) /\ Follows(b, c) => Chain(<<a, b, c>>)
  <2>1. \A k \in 1..(Len(<<a, b, c>>) - 1) : k = 1 \/ k = 2
    OBVIOUS
  <2> QED BY <2>1
<1>4. Follows(a, b) /\ Follows(b, c) /\ Follows(c, d) => Chain(<<a, b, c, d>>)
  <2>1. \A k \in 1..(Len(<<a, b, c, d>>) - 1) : k = 1 \/ k = 2 \/ k = 3
    OBVIOUS
  <2> QED BY <2>1
<1>5. Follows(a, b) /\ Follows(b, c) /\ Follows(c, d) /\ Follows(d, e)
        => Chain(<<a, b, c, d, e>>)
  <2>1. \A k \in 1..(Len(<<a, b, c, d, e>>) - 1) : k = 1 \/ k = 2 \/ k = 3 \/ k = 4
    OBVIOUS
  <2> QED BY <2>1
<1>6. Follows(a, b) /\ Follows(b, c) /\ Follows(c, d) /\ Follows(d, e) /\ Follows(e, g)
        => Chain(<<a, b, c, d, e, g>>)
  <2>1. \A k \in 1..(Len(<<a, b, c, d, e, g>>) - 1) : k = 1 \/ k = 2 \/ k = 3 \/ k = 4 \/ k = 5
    OBVIOUS
  <2> QED BY <2>1
<1> QED BY <1>1, <1>2, <1>3, <1>4, <1>5, <1>6

(* What may follow what. *)
LEMMA MayFollow ==
  ASSUME NEW a, NEW b, OnlyFirst(b), ~Inserts(b), ~Continues(a), ~Leaves(a),
         ~Deletes(a), a # DetachBreakpoint, Reduces(a) => Continues(b)
  PROVE  Follows(a, b)
BY OwnBreakpoints DEF Follows

(* The loop takes the frame of the new stop.                               *)
LEMMA TakeFacts ==
  ASSUME Inv, TakeFrame
  PROVE  /\ Quiet /\ todo = << >> /\ mode = "testing" /\ frame = NoFrame /\ ~running /\ NewStop
         /\ stops = Len(handled) + 1 /\ Len(handled) \in Nat /\ ~carried /\ ~Ahead
         /\ frame' = StopFrame(stops, at) /\ frame' \in Frames /\ frame' # NoFrame
         /\ frame'.step = at /\ frame'.fn = Head(StackIn(program[at]))
         /\ handled' = Append(handled, frame') /\ stopFrames' \in Seq(Frames)
         /\ at \in 2..Len(program) /\ at \in 1..Len(program) /\ at \in Nat
         /\ program \in Programs /\ Kind(at) \in StopKinds /\ stack = StackIn(program[at])
         /\ ~cleared /\ breakpoints = Wanted /\ Lists(Live(at - 1))
         /\ Head(stack) \in breakpoints /\ mocks \in Seq(Replacements)
         /\ handled # << >> => handled[Len(handled)].step < at
         /\ UNCHANGED <<mode, analysed, timeouts, targetVars, breakpoints, toGdb, fromGdb,
                        decoderVars, values, dumps, waits, stops>>
<1> USE DEF Inv
<1>1. /\ mode = "testing" /\ todo = << >> /\ waits["main"] = "no"
      /\ frame = NoFrame /\ stopFrames # << >>
      /\ frame' = stopFrames[Len(stopFrames)]
      /\ stopFrames' = SubSeq(stopFrames, 1, Len(stopFrames) - 1)
      /\ handled' = Append(handled, frame')
      /\ UNCHANGED <<mode, analysed, timeouts, targetVars, breakpoints, toGdb, fromGdb,
                     decoderVars, values, dumps, waits, stops>>
  BY DEF TakeFrame
<1>2. Quiet
  BY <1>1 DEF Channel, Asked, Answered, Asking, Decoded, Noticed, Resumed, Ended
<1>3. ~running /\ ~carried /\ ~Ahead /\ fromGdb = << >> /\ decoded = Nothing
  <2>1. ~running /\ ~carried /\ fromGdb = << >> /\ decoded = Nothing
    BY <1>1, <1>2 DEF Quiet, carried, Waiting
  <2>2. place = 1 /\ Len(todo) = 0
    BY <1>1, <2>1 DEF place
  <2> QED BY <2>1, <2>2 DEF Ahead
<1>4. ~Handling
  BY <1>1, <1>3 DEF Stands
<1>5. NewStop /\ stops = Len(handled) + 1 /\ Len(handled) \in Nat
  <2>1. stops = Len(handled) + 1
    BY <1>3, <1>4 DEF Stands, Handling
  <2>2. Len(handled) \in Nat
    BY LenProperties DEF Typed
  <2> QED BY <2>1, <2>2 DEF NewStop
<1>6. allFrames = stopFrames
  BY <1>3, LineFacts DEF allFrames, arriving
<1>7. frame' = StopFrame(stops, at)
  BY <1>1, <1>5, <1>6 DEF Stands, latest
<1>8. frame' \in Frames /\ stopFrames' \in Seq(Frames)
  BY <1>1, ButLast DEF Typed
<1>9. frame'.step = at /\ frame'.fn = Head(StackIn(program[at]))
  BY <1>7 DEF StopFrame
<1>10. at > 1 /\ at \in 1..Len(program) /\ at \in Nat /\ program \in Programs
       /\ (handled # << >> => handled[Len(handled)].step < at)
       /\ ~cleared /\ Kind(at) \in StopKinds /\ stack = StackIn(program[at])
       /\ Head(stack) \in breakpoints
  BY <1>3, <1>5, StandsIn DEF Stands
<1>11. at \in 2..Len(program) /\ frame' # NoFrame
  <2>1. NoFrame.step = 0
    BY DEF NoFrame
  <2>2. frame'.step # NoFrame.step
    BY <1>9, <1>10, <2>1
  <2> QED BY <1>10, <2>2, ProgramLength
<1>12. breakpoints = Wanted
  BY <1>3 DEF Breaks
<1>13. Lists(Live(at - 1)) /\ mocks \in Seq(Replacements)
  <2>1. passed = at - 1
    BY <1>5 DEF passed
  <2> QED BY <1>4, <2>1 DEF Registered, Typed
<1> QED BY <1>1, <1>2, <1>3, <1>5, <1>7, <1>8, <1>9, <1>10, <1>11, <1>12, <1>13

(* What is the same for every stop.                                        *)
LEMMA TakeKeeps ==
  ASSUME Inv, TakeFrame, todo' \in Seq(Ops), todo' # << >>, isTimeout' = isTimeout,
         mocks' \in Seq(Replacements), testNotFinYet' \in BOOLEAN,
         Registers(todo'[1]) => Kind(at) \in {"addStub", "addMock"},
         Reads(todo'[1]) <=> Kind(at) \in {"bufferIsFull", "bufferToSmall", "finishAllTest"},
         todo'[1].name # "readDump",
         Plan', GoesRound', Registered', Breaks', Replaced'
  PROVE  Inv'
<1> USE DEF Inv
<1>1. /\ Quiet /\ todo = << >> /\ mode = "testing" /\ frame = NoFrame /\ ~running /\ NewStop
      /\ stops = Len(handled) + 1 /\ Len(handled) \in Nat /\ ~carried /\ ~Ahead
      /\ frame' = StopFrame(stops, at) /\ frame' \in Frames /\ frame' # NoFrame
      /\ frame'.step = at /\ frame'.fn = Head(StackIn(program[at]))
      /\ handled' = Append(handled, frame') /\ stopFrames' \in Seq(Frames)
      /\ at \in 2..Len(program) /\ at \in 1..Len(program) /\ at \in Nat
      /\ program \in Programs /\ Kind(at) \in StopKinds /\ stack = StackIn(program[at])
      /\ ~cleared
      /\ handled # << >> => handled[Len(handled)].step < at
      /\ UNCHANGED <<mode, analysed, timeouts, targetVars, breakpoints, toGdb, fromGdb,
                     decoderVars, values, dumps, waits, stops>>
  BY TakeFacts
<1>2. UNCHANGED <<program, at, stack, running, interrupted, called, cleared, decoded,
                  lastCommand, debuggerState>>
  BY <1>1 DEF targetVars, decoderVars
<1>3. /\ handled' \in Seq(Frames) /\ Len(handled') = Len(handled) + 1
      /\ handled'[Len(handled')] = frame' /\ handled' # << >>
      /\ \A k \in 1..Len(handled) : handled'[k] = handled[k]
  <2>1. handled \in Seq(Frames)
    BY DEF Typed
  <2> QED BY <1>1, <2>1, PutLast
<1>4. Typed'
  BY <1>1, <1>2, <1>3 DEF Typed
<1>5. ~carried' /\ place' = 1 /\ Ahead' /\ Handling' /\ ~NewStop'
  <2>1. ~carried'
    BY <1>1 DEF carried, Waiting
  <2>2. place' = 1
    BY <2>1 DEF place
  <2>3. Len(todo') \in Nat /\ Len(todo') > 0
    BY TailOf
  <2>4. Ahead'
    BY <2>2, <2>3 DEF Ahead
  <2>5. Handling' /\ ~NewStop'
    BY <1>1, <1>2, <1>3 DEF Handling, NewStop
  <2> QED BY <2>1, <2>2, <2>4, <2>5
<1>6. Channel'
  BY <1>1, <1>2 DEF Channel, Quiet, Waiting
<1>7. Data'
  <2>1. Value = << >> /\ Dump = << >> /\ Value' = << >> /\ Dump' = << >>
    BY <1>1, <1>5 DEF Value, Dump
  <2> QED BY <1>1, <2>1 DEF Data
<1>8. \A k \in 1..Len(handled) : handled[k].step < at
  <2> TAKE k \in 1..Len(handled)
  <2>1. handled # << >>
    BY <1>1
  <2>2. Len(handled) \in 1..Len(handled) /\ handled[Len(handled)].step < at
    BY <1>1, <2>1
  <2>3. CASE k = Len(handled)
    BY <2>2, <2>3
  <2>4. CASE k # Len(handled)
    <3>1. k < Len(handled)
      BY <1>1, <2>4
    <3>2. handled[k].step < handled[Len(handled)].step
      BY <2>2, <3>1 DEF HandledInOrder
    <3>3. handled[k].step \in 2..Len(program) /\ handled[Len(handled)].step \in 2..Len(program)
      BY <2>2 DEF HandledInOrder
    <3> QED BY <1>1, <2>2, <3>2, <3>3
  <2> QED BY <2>3, <2>4
<1>9. HandledInOrder'
  <2>1. \A k \in 1..Len(handled') :
          /\ handled'[k] = StopFrame(k, handled[k].step)'
          /\ handled'[k].step \in 2..Len(program) /\ Kind(handled[k].step)' \in StopKinds
    <3> TAKE k \in 1..Len(handled')
    <3>1. CASE k \in 1..Len(handled)
      <4>1. handled'[k] = handled[k]
        BY <1>3, <3>1
      <4>2. /\ handled[k] = StopFrame(k, handled[k].step)
            /\ handled[k].step \in 2..Len(program) /\ Kind(handled[k].step) \in StopKinds
        BY <3>1 DEF HandledInOrder
      <4>3. /\ StopFrame(k, handled[k].step)' = StopFrame(k, handled[k].step)
            /\ Kind(handled[k].step)' = Kind(handled[k].step)
        BY <1>2, <4>1 DEF StopFrame, Kind
      <4> QED BY <4>1, <4>2, <4>3
    <3>2. CASE k = Len(handled) + 1
      <4>1. handled'[k] = frame'
        BY <1>3, <3>2
      <4>2. frame'.step = at /\ k = stops
        BY <1>1, <3>2
      <4>3. /\ StopFrame(k, handled[k].step)' = StopFrame(stops, at)
            /\ Kind(handled[k].step)' = Kind(at)
        BY <1>2, <4>1, <4>2 DEF StopFrame, Kind
      <4> QED BY <1>1, <4>1, <4>2, <4>3
    <3> QED BY <1>1, <1>3, <3>1, <3>2
  <2>2. \A j, k \in 1..Len(handled') : j < k => handled'[j].step < handled'[k].step
    <3> TAKE j, k \in 1..Len(handled')
    <3> SUFFICES ASSUME j < k PROVE handled'[j].step < handled'[k].step
      OBVIOUS
    <3>1. j \in 1..Len(handled) /\ handled'[j] = handled[j]
      BY <1>1, <1>3
    <3>2. CASE k \in 1..Len(handled)
      BY <1>3, <3>1, <3>2 DEF HandledInOrder
    <3>3. CASE k = Len(handled) + 1
      BY <1>1, <1>3, <1>8, <3>1, <3>3
    <3> QED BY <1>1, <1>3, <3>2, <3>3
  <2> QED BY <1>1, <1>2, <1>3, <2>1, <2>2 DEF HandledInOrder
<1>10. Stands'
  <2>1. stops' = Len(handled') /\ stops' \in {Len(handled'), Len(handled') + 1}
    BY <1>1, <1>3
  <2>2. at' \in 1..(Len(program') + 1) /\ at' <= Len(program')
    BY <1>1, <1>2, ProgramLength
  <2>3. handled' # << >> /\ frame' # NoFrame /\ frame'.step = at'
    BY <1>1, <1>2, <1>3
  <2> QED BY <1>1, <1>2, <1>5, <2>1, <2>2, <2>3 DEF Stands
<1>11. InTest'
  <2>1. Len(stack) > 0 /\ stack[Len(stack)] = "test"
    BY <1>1, StackStands
  <2> QED BY <1>1, <1>2, <2>1 DEF InTest
<1>12. JumpsOut'
  BY <1>2, <1>5 DEF JumpsOut, Kind
<1>13. Batches'
  <2>1. BatchesOnce'
    BY <1>1 DEF Batches, BatchesOnce
  <2>2. \A k \in 1..Len(handled) : HasBatch(handled[k])' <=> HasBatch(handled[k])
    BY <1>2, <1>3 DEF HasBatch, Reports
  <2>3. \A i \in 1..Len(analysed') :
          \E k \in 1..Len(handled') : HasBatch(handled[k])' /\ handled'[k].step = analysed'[i]
    <3> TAKE i \in 1..Len(analysed')
    <3>1. PICK k \in 1..Len(handled) : HasBatch(handled[k]) /\ handled[k].step = analysed[i]
      BY <1>1 DEF Batches
    <3>2. k \in 1..Len(handled') /\ handled'[k] = handled[k]
      BY <1>1, <1>3
    <3> QED BY <1>1, <2>2, <3>1, <3>2
  <2>4. \A k \in 1..Len(handled') :
          HasBatch(handled[k])' =>
            \/ \E i \in 1..Len(analysed') : analysed'[i] = handled'[k].step
            \/ k = Len(handled') /\ todo' # << >> /\ Reads(todo'[1])
    <3> TAKE k \in 1..Len(handled')
    <3> HAVE HasBatch(handled[k])'
    <3>1. CASE k \in 1..Len(handled)
      <4>1. \E i \in 1..Len(analysed) : analysed[i] = handled[k].step
        BY <1>1, <2>2, <3>1 DEF Batches
      <4> QED BY <1>1, <1>3, <3>1, <4>1
    <3>2. CASE k = Len(handled) + 1
      <4>1. handled'[k] = frame' /\ k = Len(handled')
        BY <1>3, <3>2
      <4>2. Kind(at) \in {"bufferIsFull", "bufferToSmall", "finishAllTest"}
        BY <1>1, <1>2, <4>1 DEF HasBatch, Reports, Kind
      <4> QED BY <4>1, <4>2
    <3> QED BY <1>1, <1>3, <3>1, <3>2
  <2>5. \A i \in 1..Len(analysed) : analysed[i] < at
    <3> TAKE i \in 1..Len(analysed)
    <3>1. PICK k \in 1..Len(handled) : handled[k].step = analysed[i]
      BY DEF Batches
    <3> QED BY <1>8, <3>1
  <2> QED BY <1>1, <1>2, <1>5, <2>1, <2>3, <2>4, <2>5 DEF Batches, Kind
<1> QED BY <1>4, <1>6, <1>7, <1>9, <1>10, <1>11, <1>12, <1>13

(* How each stop is handled: there is no timeout.                          *)
LEMMA TakeCases ==
  ASSUME Inv, TakeFrame
  PROVE  /\ isTimeout' = isTimeout /\ Kind(at)' = Kind(at) /\ step.kind = Kind(at)
         /\ \/ /\ Kind(at) \in Messages /\ frame'.fn = "MessageToDebugger"
               /\ todo' = MessageTodo /\ testNotFinYet' = FALSE
               /\ mocks' = IF Kind(at) = "deleteMocks" THEN << >> ELSE mocks
            \/ /\ Kind(at) = "detachTarget" /\ frame'.fn = "detachTarget"
               /\ todo' = deleteAllDependencies \o
                          <<Execute("set", "breaksMode"), JumpOut("jumpOut"), Exit>>
               /\ testNotFinYet' = FALSE /\ mocks' = << >>
            \/ /\ Kind(at) = "call" /\ frame'.fn = program[at].fn
               /\ frame'.fn \notin {"MessageToDebugger", "detachTarget"}
               /\ HandleMockStub
<1>1. /\ frame'.fn = Head(StackIn(program[at])) /\ frame'.step = at
      /\ at \in 1..Len(program) /\ program \in Programs /\ Kind(at) \in StopKinds
      /\ UNCHANGED targetVars
  BY TakeFacts
<1>2. Kind(at)' = Kind(at) /\ step.kind = Kind(at)
  BY <1>1 DEF Kind, targetVars, step
<1>3. ~isTimeout /\ (HandleMessage \/ HandleDetach \/ HandleTimeout \/ HandleMockStub)
  BY DEF TakeFrame, Inv, Typed
<1>4. ~HandleTimeout
  BY <1>3 DEF HandleTimeout
<1>5. CASE Kind(at) \in Messages
  <2>1. frame'.fn = "MessageToDebugger"
    BY <1>1, <1>5, StackFacts
  <2>2. HandleMessage
    BY <1>3, <1>4, <2>1 DEF HandleDetach, HandleMockStub
  <2> QED BY <1>2, <1>5, <2>1, <2>2 DEF HandleMessage
<1>6. CASE Kind(at) = "detachTarget"
  <2>1. frame'.fn = "detachTarget"
    BY <1>1, <1>6, StackFacts
  <2>2. HandleDetach
    BY <1>3, <1>4, <2>1 DEF HandleMessage, HandleMockStub
  <2> QED BY <1>2, <1>6, <2>1, <2>2 DEF HandleDetach, Exit
<1>7. CASE Kind(at) = "call"
  <2>1. frame'.fn = program[at].fn
    BY <1>1, <1>7, StackFacts
  <2>2. frame'.fn \notin {"MessageToDebugger", "detachTarget"}
    BY <1>1, <2>1, ProgramFacts
  <2>3. HandleMockStub
    BY <1>3, <1>4, <2>2 DEF HandleMessage, HandleDetach
  <2> QED BY <1>2, <1>7, <2>1, <2>2, <2>3 DEF HandleMockStub
<1> QED BY <1>1, <1>5, <1>6, <1>7 DEF StopKinds

(* A list without mocks accounts for no step.                              *)
LEMMA NoMocks ==
  ASSUME mocks = << >>
  PROVE  Lists({})
<1> DEFINE f == [i \in 1..Len(mocks) |-> i]
<1>1. Len(mocks) = 0
  OBVIOUS
<1>2. f \in [1..Len(mocks) -> {}]
  BY <1>1
<1>3. \A i \in 1..Len(mocks) : FALSE
  BY <1>1
<1> QED BY <1>2, <1>3 DEF Lists

(* After deleteAllMocks no registration is in force.                       *)
LEMMA NoneLive ==
  ASSUME NEW m \in Nat, Kind(m) = "deleteMocks"
  PROVE  Live(m) = {}
<1>1. \A j \in Live(m) : FALSE
  <2> TAKE j \in Live(m)
  <2>1. j \in 1..m /\ Kind(j) \in {"addStub", "addMock"}
        /\ \A d \in 1..m : Kind(d) = "deleteMocks" => d < j
    BY DEF Live
  <2>2. m \in 1..m
    BY <2>1
  <2>3. m < j
    BY <2>1, <2>2
  <2> QED BY <2>1, <2>3
<1> QED BY <1>1

(* What is the same for every stop but a call.                             *)
LEMMA TakeOwn ==
  ASSUME Inv, TakeFrame, Kind(at) # "call", todo' \in Seq(Ops), todo' # << >>,
         mocks' \in Seq(Replacements), testNotFinYet' = FALSE,
         ~Reduces(todo'[1]), ~Inserts(todo'[1]), todo'[1].name # "readDump",
         Registers(todo'[1]) <=> Kind(at) \in {"addStub", "addMock"},
         Reads(todo'[1]) <=> Kind(at) \in {"bufferIsFull", "bufferToSmall", "finishAllTest"},
         Chain(todo'),
         Kind(at) = "detachTarget" => Leaves(todo'[Len(todo')]),
         Kind(at) # "detachTarget" => Continues(todo'[Len(todo')]),
         Kind(at) # "detachTarget" =>
           (todo'[Len(todo')].waitForStopped <=> Kind(at) # "finishAllTest"),
         Deletes(todo'[1]) => mocks' = << >>,
         ~Deletes(todo'[1]) => mocks' = mocks,
         Kind(at) = "deleteMocks" => mocks' = << >>,
         Kind(at) \notin {"deleteMocks", "detachTarget"} => mocks' = mocks
  PROVE  Inv'
<1>1. /\ frame' # NoFrame /\ frame'.step = at /\ Kind(at) \in StopKinds
      /\ at \in 1..Len(program) /\ program \in Programs /\ at \in Nat
      /\ ~running /\ NewStop /\ stops = Len(handled) + 1 /\ Len(handled) \in Nat
      /\ handled' = Append(handled, frame') /\ handled \in Seq(Frames) /\ frame' \in Frames
      /\ breakpoints = Wanted /\ Lists(Live(at - 1))
      /\ UNCHANGED <<targetVars, breakpoints, waits, toGdb, stops>>
  BY TakeFacts DEF Inv, Typed
<1>2. UNCHANGED <<program, at, stack, running, called>> /\ Kind(at)' = Kind(at)
  BY <1>1 DEF targetVars, Kind
<1>3. isTimeout' = isTimeout
  BY TakeCases
<1>4. Kind(at) # "detachTarget" => frame'.fn = "MessageToDebugger"
  BY <1>1, TakeCases
<1>5. Kind(at) = "detachTarget" => frame'.fn = "detachTarget"
  BY TakeCases DEF Messages
<1>6. place' = 1 /\ Ahead' /\ Handling' /\ ~NewStop'
  <2>1. place' = 1
    BY TakeFacts DEF place, carried, Waiting
  <2>2. Len(todo') \in Nat /\ Len(todo') > 0
    BY TailOf
  <2>3. Len(handled') = Len(handled) + 1
    BY <1>1, PutLast
  <2> QED BY <1>1, <1>2, <2>1, <2>2, <2>3 DEF Ahead, Handling, NewStop
<1>7. Plan'
  <2>1. IsLast(todo[Len(todo)])'
    <3>1. CASE Kind(at) = "detachTarget"
      BY <1>5, <3>1 DEF IsLast
    <3>2. CASE Kind(at) # "detachTarget"
      <4>1. Kind(frame.step)' = Kind(at)
        BY <1>1, <1>2 DEF Kind
      <4> QED BY <1>1, <1>4, <3>2, <4>1 DEF IsLast
    <3> QED BY <3>1, <3>2
  <2> QED BY <2>1 DEF Plan, Chain
<1>8. GoesRound'
  BY <1>4, <1>5 DEF GoesRound
<1>9. Registered'
  <2> SUFFICES ASSUME Kind(at) # "detachTarget" PROVE Lists(Live(passed))'
    BY <1>2, <1>6 DEF Registered
  <2>1. CASE Kind(at) \in {"addStub", "addMock"}
    <3>1. PICK m : m = at - 1
      OBVIOUS
    <3>2. passed' = m
      BY <1>2, <2>1, <3>1 DEF passed
    <3>3. mocks' = mocks /\ Lists(Live(m))
      BY <1>1, <2>1, <3>1
    <3> QED BY <1>2, <3>2, <3>3 DEF Lists, Live, Kind
  <2>2. CASE Kind(at) = "deleteMocks"
    <3>1. passed' = at
      BY <1>1, <1>2, <1>6, <2>2 DEF passed
    <3>2. mocks' = << >>
      BY <2>2
    <3>3. Live(at) = {}
      BY <1>1, <2>2, NoneLive
    <3>4. Live(passed)' = {}
      BY <1>2, <3>1, <3>3 DEF Live, Kind
    <3>5. (mocks = << >> => Lists({}))'
      BY NoMocks, PTL
    <3> QED BY <3>2, <3>4, <3>5
  <2>3. CASE Kind(at) \notin {"addStub", "addMock", "deleteMocks"}
    <3>1. passed' = at
      BY <1>1, <1>2, <1>6, <2>3 DEF passed
    <3>2. mocks' = mocks
      BY <2>3
    <3>3. Lists(Live(at))
      BY <1>1, <2>3, LiveStays
    <3> QED BY <1>2, <3>1, <3>2, <3>3 DEF Lists, Live, Kind
  <2> QED BY <2>1, <2>2, <2>3
<1>10. Breaks'
  <2>1. todo'[1] # DetachBreakpoint /\ todo'[1] # MessageBreakpoint
    BY OwnBreakpoints
  <2>2. ~Deletes(todo'[1]) => Wanted' = breakpoints
    BY <1>1 DEF Wanted
  <2> QED BY <1>1, <1>6, <2>1, <2>2 DEF Breaks
<1>11. Replaced'
  <2>1. CallsAreReplaced'
    <3>1. \A k : Replacement(k)' = Replacement(k)
      BY <1>2 DEF Replacement
    <3> QED BY <1>2, <3>1 DEF Inv, Replaced, CallsAreReplaced
  <2> QED BY <1>2, <1>6, <2>1 DEF Replaced
<1> QED BY <1>3, <1>7, <1>8, <1>9, <1>10, <1>11, TakeKeeps

(* The host's own breakpoints are set anew after all are deleted.          *)
LEMMA RenewFollows ==
  /\ DetachBreakpoint \in Ops /\ MessageBreakpoint \in Ops
  /\ \A e \in Ops : Deletes(e) /\ ~Continues(e) /\ ~Leaves(e) /\ ~Inserts(e) /\ ~Reduces(e)
                     => Follows(e, DetachBreakpoint)
  /\ Follows(DetachBreakpoint, MessageBreakpoint)
  /\ \A c \in Ops : OnlyFirst(c) /\ ~Inserts(c) => Follows(MessageBreakpoint, c)
<1>1. "detachTarget" \in Texts /\ "MessageToDebugger" \in Texts
  BY DEF Texts
<1>2. \A o \in {DetachBreakpoint, MessageBreakpoint} :
        /\ o \in Ops /\ OnlyFirst(o) /\ Inserts(o) /\ ~Continues(o) /\ ~Leaves(o) /\ ~Deletes(o)
        /\ ~Reduces(o)
  BY <1>1, InsertIs DEF DetachBreakpoint, MessageBreakpoint, OnlyFirst
<1> QED BY <1>2, OwnBreakpoints DEF Follows

(* A stop in MessageToDebugger.                                            *)
LEMMA TakeMessage ==
  ASSUME Inv, TakeFrame, Kind(at) \in Messages
  PROVE  Inv'
<1>1. /\ todo' = MessageTodo /\ testNotFinYet' = FALSE /\ step.kind = Kind(at)
      /\ mocks' = IF Kind(at) = "deleteMocks" THEN << >> ELSE mocks
  BY TakeCases DEF Messages
<1>2. mocks \in Seq(Replacements) /\ mocks' \in Seq(Replacements)
  BY <1>1 DEF Inv, Typed
<1> USE DEF Between
<1>3. CASE Kind(at) = "bufferIsFull"
  <2> DEFINE c == ContinueOp(TRUE)
  <2>1. todo' = <<ReadIndex, c>>
    BY <1>1, <1>3 DEF MessageTodo
  <2>2. c \in Ops /\ Continues(c) /\ OnlyFirst(c) /\ ~Inserts(c) /\ c.waitForStopped
    BY ContinueIs
  <2> HIDE DEF c
  <2>3. Follows(ReadIndex, c)
    BY <2>2, ReadIndexIs, MayFollow, OwnBreakpoints
  <2>4. Chain(todo')
    BY <2>1, <2>3, ChainShort
  <2>5. /\ todo' \in Seq(Ops) /\ todo' # << >> /\ todo'[1] = ReadIndex
        /\ todo'[Len(todo')] = c
    BY <2>1, <2>2, ReadIndexIs
  <2> QED BY <1>1, <1>2, <1>3, <2>2, <2>4, <2>5, ReadIndexIs, TakeOwn
<1>4. CASE Kind(at) = "finishAllTest"
  <2> DEFINE c == ContinueOp(FALSE)
  <2> DEFINE d == checkForDisabledTests
  <2>1. todo' = <<ReadIndex, d, c>>
    BY <1>1, <1>4 DEF MessageTodo
  <2>2. c \in Ops /\ Continues(c) /\ OnlyFirst(c) /\ ~Inserts(c) /\ ~c.waitForStopped
    BY ContinueIs
  <2>3. Between(d) /\ ~Deletes(d) /\ d # DetachBreakpoint /\ ~Reduces(d)
    BY DisabledIs, OwnBreakpoints DEF OnlyFirst
  <2> HIDE DEF c, d
  <2>4. Follows(ReadIndex, d) /\ Follows(d, c)
    BY <2>2, <2>3, ReadIndexIs, MayFollow, OwnBreakpoints
  <2>5. Chain(todo')
    BY <2>1, <2>4, ChainShort
  <2>6. /\ todo' \in Seq(Ops) /\ todo' # << >> /\ todo'[1] = ReadIndex
        /\ todo'[Len(todo')] = c
    BY <2>1, <2>2, <2>3, ReadIndexIs
  <2> QED BY <1>1, <1>2, <1>4, <2>2, <2>5, <2>6, ReadIndexIs, TakeOwn
<1>5. CASE Kind(at) = "bufferToSmall"
  <2> DEFINE c == ContinueOp(TRUE)
  <2> DEFINE s == Execute("set", "memset")
  <2> DEFINE i == Execute("set", "test_result_index")
  <2> DEFINE j == JumpOut("buffToSmall")
  <2>1. todo' = <<ReadIndex, s, i, j, c>>
    BY <1>1, <1>5 DEF MessageTodo
  <2>2. c \in Ops /\ Continues(c) /\ OnlyFirst(c) /\ ~Inserts(c) /\ c.waitForStopped
    BY ContinueIs
  <2>3. \A o \in {s, i, j} : Between(o) /\ ~Deletes(o) /\ o # DetachBreakpoint /\ ~Reduces(o)
    <3>1. Between(s) /\ Between(i) /\ Between(j)
      BY SetIs, JumpIs
    <3> HIDE DEF s, i, j
    <3> QED BY <3>1, OwnBreakpoints DEF OnlyFirst
  <2> HIDE DEF c, s, i, j
  <2>4. Follows(ReadIndex, s) /\ Follows(s, i) /\ Follows(i, j) /\ Follows(j, c)
    BY <2>2, <2>3, ReadIndexIs, MayFollow, OwnBreakpoints
  <2>5. Chain(todo')
    BY <2>1, <2>4, ChainShort
  <2>6. /\ todo' \in Seq(Ops) /\ todo' # << >> /\ todo'[1] = ReadIndex
        /\ todo'[Len(todo')] = c
    BY <2>1, <2>2, <2>3, ReadIndexIs
  <2> QED BY <1>1, <1>2, <1>5, <2>2, <2>5, <2>6, ReadIndexIs, TakeOwn
<1>6. CASE Kind(at) \in {"addStub", "addMock"}
  <2> DEFINE c == ContinueOp(TRUE)
  <2> DEFINE j == JumpOut(Kind(at))
  <2>1. todo' = <<j, c>>
    BY <1>1, <1>6 DEF MessageTodo
  <2>2. c \in Ops /\ Continues(c) /\ OnlyFirst(c) /\ ~Inserts(c) /\ c.waitForStopped
    BY ContinueIs
  <2>3. /\ j \in Ops /\ Registers(j) /\ ~Reads(j) /\ ~Continues(j) /\ ~Leaves(j) /\ ~Inserts(j)
        /\ ~Deletes(j) /\ ~Reduces(j)
    BY <1>6, RegisterIs
  <2>4. j.name # "readDump"
    BY <2>3 DEF Reads
  <2> HIDE DEF c, j
  <2>5. Follows(j, c)
    BY <2>2, <2>3, MayFollow, OwnBreakpoints
  <2>6. Chain(todo')
    BY <2>1, <2>5, ChainShort
  <2>7. /\ todo' \in Seq(Ops) /\ todo' # << >> /\ todo'[1] = j
        /\ todo'[Len(todo')] = c
    BY <2>1, <2>2, <2>3
  <2> QED BY <1>1, <1>2, <1>6, <2>2, <2>3, <2>4, <2>6, <2>7, TakeOwn
<1>7. CASE Kind(at) = "deleteMocks" /\ mocks = << >>
  <2> DEFINE c == ContinueOp(TRUE)
  <2>1. todo' = << >> \o <<c>>
    BY <1>1, <1>7 DEF MessageTodo, deleteAllDependencies, hasMocks
  <2>2. c \in Ops /\ Continues(c) /\ OnlyFirst(c) /\ ~Inserts(c) /\ c.waitForStopped
    BY ContinueIs
  <2>3. ~Reads(c) /\ ~Registers(c) /\ ~Reduces(c) /\ ~Deletes(c) /\ c.name # "readDump"
    BY <2>2 DEF OnlyFirst, Reads
  <2> HIDE DEF c
  <2>4. << >> \o <<c>> = <<c>>
    OBVIOUS
  <2>5. Chain(todo')
    BY <2>1, <2>4, ChainShort
  <2>6. /\ todo' \in Seq(Ops) /\ todo' # << >> /\ todo'[1] = c
        /\ todo'[Len(todo')] = c
    BY <2>1, <2>2, <2>4
  <2>7. mocks' = << >> /\ mocks' = mocks
    BY <1>1, <1>7
  <2> QED BY <1>1, <1>2, <1>7, <2>2, <2>3, <2>5, <2>6, <2>7, TakeOwn
<1>8. CASE Kind(at) = "deleteMocks" /\ mocks # << >>
  <2> DEFINE c == ContinueOp(TRUE)
  <2> DEFINE e == Execute("-break-delete", "")
  <2>1. todo' = (<<e>> \o <<DetachBreakpoint, MessageBreakpoint>>) \o <<c>>
    BY <1>1, <1>8
    DEF MessageTodo, deleteAllDependencies, hasMocks, renewEUnitBreakpoints, DetachBreakpoint,
        MessageBreakpoint
  <2>2. todo' = <<e, DetachBreakpoint, MessageBreakpoint, c>>
    <3> HIDE DEF c, e
    <3> DEFINE d == DetachBreakpoint
    <3> DEFINE m == MessageBreakpoint
    <3>1. todo' = (<<e>> \o <<d, m>>) \o <<c>>
      BY <2>1
    <3> HIDE DEF d, m
    <3>2. <<e>> \o <<d, m>> = <<e, d, m>>
      BY ConcatShort
    <3>3. <<e, d, m>> \o <<c>> = <<e, d, m, c>>
      BY ConcatShort
    <3>4. todo' = <<e, d, m, c>>
      BY <3>1, <3>2, <3>3
    <3> QED BY <3>4 DEF d, m
  <2>3. c \in Ops /\ Continues(c) /\ OnlyFirst(c) /\ ~Inserts(c) /\ c.waitForStopped
    BY ContinueIs
  <2>4. /\ e \in Ops /\ Deletes(e) /\ ~Reads(e) /\ ~Registers(e) /\ ~Continues(e) /\ ~Leaves(e)
        /\ ~Inserts(e) /\ ~Reduces(e) /\ e.name # "readDump"
    BY DeleteIs DEF Reads
  <2> HIDE DEF c, e
  <2>5. Follows(e, DetachBreakpoint) /\ Follows(DetachBreakpoint, MessageBreakpoint)
        /\ Follows(MessageBreakpoint, c)
    BY <2>3, <2>4, RenewFollows
  <2>6. Chain(todo')
    BY <2>2, <2>5, ChainShort
  <2>7. /\ todo' \in Seq(Ops) /\ todo' # << >> /\ todo'[1] = e
        /\ todo'[Len(todo')] = c
    BY <2>2, <2>3, <2>4, RenewFollows
  <2> QED BY <1>1, <1>2, <1>8, <2>3, <2>4, <2>6, <2>7, TakeOwn
<1> QED BY <1>3, <1>4, <1>5, <1>6, <1>7, <1>8 DEF Messages

(* A stop in detachTarget.                                                 *)
LEMMA TakeDetach ==
  ASSUME Inv, TakeFrame, Kind(at) = "detachTarget"
  PROVE  Inv'
<1> DEFINE s == Execute("set", "breaksMode")
<1> DEFINE j == JumpOut("jumpOut")
<1> DEFINE x == Exit
<1>1. /\ todo' = deleteAllDependencies \o <<s, j, x>>
      /\ testNotFinYet' = FALSE /\ mocks' = << >>
  BY TakeCases DEF Messages
<1>2. mocks' \in Seq(Replacements)
  BY <1>1
<1>3. \A o \in {s, j} : /\ Between(o) /\ ~Deletes(o) /\ o # DetachBreakpoint /\ ~Reduces(o)
                        /\ ~Inserts(o) /\ ~Reads(o) /\ ~Registers(o) /\ o.name # "readDump"
  <2>1. Between(s) /\ Between(j)
    BY SetIs, JumpIs
  <2> HIDE DEF s, j
  <2> QED BY <2>1, OwnBreakpoints DEF OnlyFirst, Between, Reads
<1>4. x \in Ops /\ Leaves(x) /\ OnlyFirst(x) /\ ~Inserts(x)
  BY ExitIs
<1> HIDE DEF s, j, x
<1>5. Follows(s, j) /\ Follows(j, x)
  BY <1>3, <1>4, MayFollow DEF Between
<1> USE DEF Between
<1>6. CASE mocks = << >>
  <2>1. todo' = << >> \o <<s, j, x>>
    BY <1>1, <1>6 DEF deleteAllDependencies, hasMocks
  <2>2. << >> \o <<s, j, x>> = <<s, j, x>>
    OBVIOUS
  <2>3. Chain(todo')
    BY <1>5, <2>1, <2>2, ChainShort
  <2>4. /\ todo' \in Seq(Ops) /\ todo' # << >> /\ todo'[1] = s
        /\ todo'[Len(todo')] = x
    BY <1>3, <1>4, <2>1, <2>2
  <2>5. mocks' = mocks
    BY <1>1, <1>6
  <2> QED BY <1>1, <1>2, <1>3, <1>4, <2>3, <2>4, <2>5, TakeOwn
<1>7. CASE mocks # << >>
  <2> DEFINE e == Execute("-break-delete", "")
  <2> DEFINE d == DetachBreakpoint
  <2> DEFINE m == MessageBreakpoint
  <2>1. todo' = (<<e>> \o <<d, m>>) \o <<s, j, x>>
    BY <1>1, <1>7
    DEF deleteAllDependencies, hasMocks, renewEUnitBreakpoints, DetachBreakpoint,
        MessageBreakpoint
  <2>2. /\ e \in Ops /\ Deletes(e) /\ ~Reads(e) /\ ~Registers(e) /\ ~Continues(e) /\ ~Leaves(e)
        /\ ~Inserts(e) /\ ~Reduces(e) /\ e.name # "readDump"
    BY DeleteIs DEF Reads
  <2>3. d \in Ops /\ m \in Ops /\ Follows(e, d) /\ Follows(d, m) /\ Follows(m, s)
    BY <1>3, <2>2, RenewFollows
  <2> HIDE DEF e, d, m
  <2>4. todo' = <<e, d, m, s, j, x>>
    <3>1. <<e>> \o <<d, m>> = <<e, d, m>>
      BY ConcatShort
    <3>2. <<e, d, m>> \o <<s, j, x>> = <<e, d, m, s, j, x>>
      BY ConcatThree
    <3> QED BY <2>1, <3>1, <3>2
  <2>5. Chain(todo')
    <3>1. Chain(<<e, d, m, s, j, x>>)
      BY <1>5, <2>3, ChainShort
    <3> QED BY <2>4, <3>1
  <2>6. /\ todo' \in Seq(Ops) /\ todo' # << >> /\ todo'[1] = e
        /\ todo'[Len(todo')] = x
    BY <1>3, <1>4, <2>2, <2>3, <2>4
  <2> QED BY <1>1, <1>2, <1>4, <2>2, <2>5, <2>6, TakeOwn
<1> QED BY <1>6, <1>7

(* What a command does. *)
LEMMA CommandDoes ==
  ASSUME NEW o, NEW d, NEW x, o.command = [do |-> d, arg |-> x]
  PROVE  o.command.do = d
OBVIOUS

(* A call is replaced by a value or by another function.                   *)
LEMMA ReduceIs ==
  ASSUME program \in Programs, NEW j \in 1..Len(program), Kind(j) \in {"addStub", "addMock"},
         NEW o, o = Op("reduce", Then(program[j]), FALSE)
  PROVE  /\ o \in Ops /\ Reduces(o) /\ ~Continues(o) /\ ~Leaves(o) /\ ~Inserts(o) /\ ~Deletes(o)
         /\ ~Reads(o) /\ ~Registers(o) /\ o.name # "readDump"
<1>1. program[j].by \in Texts
  BY ProgramFacts
<1>2. o.name = "reduce" /\ ~o.waitForStopped
  BY DEF Op
<1>3. o.command = Then(program[j])
  BY DEF Op
<1>4. CASE Kind(j) = "addStub"
  <2>1. Then(program[j]) = Command("-exec-return", program[j].by)
    BY <1>4 DEF Then, Kind
  <2>2. "reduce" \in Names /\ "-exec-return" \in Actions
    BY DEF Names, Actions
  <2>3. Is(o, "reduce", "-exec-return", program[j].by, FALSE)
    BY <1>1, <2>1, <2>2, OpIs
  <2> QED BY <2>3 DEF Is, Shape, Reads
<1>5. CASE Kind(j) = "addMock"
  <2>1. PICK d \in Commands : d = "set $pc"
    BY Zenon DEF Commands
  <2>2. Then(program[j]) = [do |-> d, arg |-> program[j].by]
    BY <1>5, <2>1, Zenon DEF Then, Kind, Command
  <2>3. o \in [name: Names, command: [do: Commands, arg: Texts], waitForStopped: BOOLEAN]
    BY <1>1, <2>2 DEF Op, Names
  <2>4. o.command.do = d
    BY <1>3, <2>2, CommandDoes
  <2>5. Redirects(o)
    BY <2>1, <2>4, Zenon DEF Redirects
  <2>6. /\ ~Continues(o) /\ ~Inserts(o) /\ ~Deletes(o) /\ ~Evaluates(o)
        /\ o.command.do # "-data-read-memory-bytes"
    BY <2>5, Zenon DEF Redirects, Continues, Inserts, Deletes, Evaluates
  <2>7. Reduces(o) /\ ~Leaves(o) /\ ~Reads(o) /\ ~Registers(o) /\ o.name # "readDump"
    BY <1>2 DEF Reduces, Leaves, Reads, Registers
  <2>8. Shape(o)
    BY <1>2, <2>5, <2>6, <2>7 DEF Shape
  <2> QED BY <2>3, <2>6, <2>7, <2>8 DEF Ops
<1> QED BY <1>4, <1>5

(* A call that stops the target: it is replaced as the test has asked for. *)
LEMMA TakeCall ==
  ASSUME Inv, TakeFrame, Kind(at) = "call"
  PROVE  Inv'
<1> DEFINE fn == program[at].fn
<1> DEFINE c == ContinueOp(TRUE)
<1> DEFINE o == Op("reduce", getThen(fn), FALSE)
<1>1. /\ frame' # NoFrame /\ frame'.step = at /\ at \in 1..Len(program) /\ program \in Programs
      /\ at \in Nat /\ ~running /\ NewStop /\ stops = Len(handled) + 1 /\ Len(handled) \in Nat
      /\ handled' = Append(handled, frame') /\ handled \in Seq(Frames) /\ frame' \in Frames
      /\ breakpoints = Wanted /\ Lists(Live(at - 1)) /\ stack = StackIn(program[at])
      /\ Head(stack) \in breakpoints /\ mocks \in Seq(Replacements)
      /\ UNCHANGED <<targetVars, breakpoints, waits, toGdb, stops>>
  BY TakeFacts DEF Inv, Typed
<1>2. /\ frame'.fn = fn /\ fn \notin {"MessageToDebugger", "detachTarget"}
      /\ HandleMockStub /\ isTimeout' = isTimeout /\ Kind(at)' = Kind(at)
  BY TakeCases DEF Messages
<1>3. /\ UNCHANGED <<program, at, stack, running, called, mocks>>
  BY <1>1, <1>2 DEF targetVars, HandleMockStub
<1>4. HasMock(fn)
  <2>1. Head(stack) = fn
    BY <1>1, StackFacts
  <2>2. PICK k \in 1..Len(mocks) : mocks[k].when = fn
    BY <1>1, <1>2, <2>1 DEF Wanted, EUnitBreakpoints
  <2> QED BY <2>2 DEF HasMock
<1>5. todo' = <<o, c>> /\ testNotFinYet' = TRUE
  BY <1>2, <1>4 DEF HandleMockStub
<1>6. Lists(Live(at))
  BY <1>1, LiveStays
<1>7. \E j \in 1..Len(program) :
        Kind(j) \in {"addStub", "addMock"} /\ getThen(fn) = Then(program[j])
  BY <1>1, <1>4, <1>6, FirstReplaces
<1>8. c \in Ops /\ Continues(c) /\ OnlyFirst(c) /\ ~Inserts(c) /\ c.waitForStopped
  BY ContinueIs
<1>9. /\ o \in Ops /\ Reduces(o) /\ ~Continues(o) /\ ~Leaves(o) /\ ~Inserts(o) /\ ~Deletes(o)
      /\ ~Reads(o) /\ ~Registers(o) /\ o.name # "readDump"
  BY <1>1, <1>7, ReduceIs
<1>10. o.command = getThen(fn)
  BY DEF Op
<1> HIDE DEF c, o, fn
<1>11. /\ todo' \in Seq(Ops) /\ todo' # << >> /\ todo'[Len(todo')] = c /\ todo'[1] = o
  BY <1>5, <1>8, <1>9
<1>12. Chain(todo')
  <2>1. Follows(o, c)
    BY <1>8, <1>9, MayFollow, OwnBreakpoints
  <2> QED BY <1>5, <2>1, ChainShort
<1>13. place' = 1 /\ Ahead' /\ Handling' /\ ~NewStop'
  <2>1. place' = 1
    BY TakeFacts DEF place, carried, Waiting
  <2>2. Len(todo') \in Nat /\ Len(todo') > 0
    BY <1>11, TailOf
  <2>3. Len(handled') = Len(handled) + 1
    BY <1>1, PutLast
  <2> QED BY <1>1, <1>3, <2>1, <2>2, <2>3 DEF Ahead, Handling, NewStop
<1>14. Plan'
  <2>1. Kind(frame.step)' = Kind(at)
    BY <1>1, <1>3 DEF Kind
  <2>2. IsLast(todo[Len(todo)])'
    BY <1>2, <1>8, <1>11, <2>1 DEF IsLast
  <2> QED BY <1>11, <1>12, <2>2 DEF Plan, Chain
<1>15. GoesRound'
  BY <1>2, <1>5 DEF GoesRound
<1>16. Registered'
  <2>1. passed' = at
    BY <1>1, <1>3, <1>9, <1>11, <1>13 DEF passed
  <2>2. Lists(Live(passed))'
    BY <1>3, <1>6, <2>1 DEF Lists, Live, Kind
  <2> QED BY <2>2 DEF Registered
<1>17. Breaks'
  <2>1. o # DetachBreakpoint /\ o # MessageBreakpoint
    BY <1>9, OwnBreakpoints
  <2>2. Wanted' = breakpoints
    BY <1>1, <1>3 DEF Wanted
  <2> QED BY <1>1, <1>9, <1>11, <1>13, <2>1, <2>2 DEF Breaks
<1>18. Replaced'
  <2>1. \A k : Replacement(k)' = Replacement(k)
    BY <1>3 DEF Replacement
  <2>2. CallsAreReplaced'
    BY <1>3, <2>1 DEF Inv, Replaced, CallsAreReplaced
  <2>3. HasMock(program[at].fn)' /\ getThen(program[at].fn)' = getThen(fn)
    BY <1>3, <1>4 DEF HasMock, getThen, fn
  <2>4. (todo[place])' = o
    BY <1>11, <1>13
  <2> QED BY <1>2, <1>9, <1>10, <1>11, <2>2, <2>3, <2>4 DEF Replaced
<1> QED BY <1>1, <1>2, <1>3, <1>5, <1>9, <1>11, <1>14, <1>15, <1>16, <1>17, <1>18, TakeKeeps

(* The loop takes a frame.                                                 *)
LEMMA TakeFrameKeeps ==
  ASSUME Inv, TakeFrame
  PROVE  Inv'
BY TakeFacts, TakeMessage, TakeDetach, TakeCall DEF StopKinds

(* The loop has handled a stop.                                            *)
LEMMA EndOfLoopKeeps ==
  ASSUME Inv, EndOfLoop
  PROVE  Inv'
<1> USE DEF Inv
<1>1. /\ mode = "testing" /\ todo = << >> /\ frame # NoFrame /\ frame' = NoFrame
      /\ UNCHANGED <<todo, testNotFinYet, isTimeout, mocks, handled, analysed, timeouts>>
      /\ UNCHANGED sessionVars
  BY DEF EndOfLoop
<1>2. /\ mode' = IF \/ frame.fn = "MessageToDebugger" /\ Kind(frame.step) # "finishAllTest"
                    \/ testNotFinYet
                 THEN "testing" ELSE "ended"
  BY DEF EndOfLoop, Kind
<1>3. /\ UNCHANGED <<program, at, stack, running, interrupted, called, cleared, breakpoints>>
      /\ UNCHANGED <<toGdb, fromGdb, lastCommand, debuggerState, decoded>>
      /\ UNCHANGED <<stopFrames, values, dumps, waits, stops>>
  BY <1>1 DEF sessionVars, targetVars, decoderVars, streamVars
<1>4. Quiet \/ Ended
  BY <1>1 DEF Channel, Asked, Answered, Asking, Decoded, Noticed, Resumed
<1>5. /\ handled # << >> /\ frame = handled[Len(handled)] /\ program \in Programs
      /\ handled[Len(handled)].step \in 2..Len(program)
      /\ frame.fn = Head(StackIn(program[frame.step])) /\ Kind(frame.step) \in StopKinds
  <2>1. handled # << >> /\ frame = handled[Len(handled)] /\ program \in Programs
    BY <1>1 DEF HandledInOrder, Typed
  <2>2. Len(handled) \in 1..Len(handled)
    <3>1. handled \in Seq(Frames)
      BY DEF Typed
    <3>2. Len(handled) \in Nat /\ Len(handled) > 0
      BY <2>1, <3>1, TailOf
    <3> QED BY <3>2
  <2>3. /\ handled[Len(handled)] = StopFrame(Len(handled), handled[Len(handled)].step)
        /\ handled[Len(handled)].step \in 2..Len(program)
        /\ Kind(handled[Len(handled)].step) \in StopKinds
    BY <2>2 DEF HandledInOrder
  <2>4. frame.fn = Head(StackIn(program[frame.step]))
    BY <2>1, <2>3 DEF StopFrame
  <2> QED BY <2>1, <2>3, <2>4
<1>6. frame.step \in 1..Len(program) /\ frame.step \in Nat
  BY <1>5, ProgramLength
<1>7. UNCHANGED <<carried, place, Ahead, Handling, NewStop, passed, allFrames>>
  BY <1>1, <1>3 DEF carried, place, Waiting, Ahead, Handling, NewStop, passed, allFrames, arriving
<1>8. ~Ahead
  <2>1. Len(todo) = 0
    BY <1>1
  <2> QED BY <2>1 DEF Ahead, place
<1>9. Quiet => NewStop /\ mode' = "testing"
  <2> SUFFICES ASSUME Quiet PROVE NewStop /\ mode' = "testing"
    OBVIOUS
  <2>1. ~Handling
    BY <1>1, <1>8 DEF Stands
  <2>2. NewStop
    BY <2>1 DEF Stands, Handling, NewStop, Quiet
  <2>3. frame.step < at /\ at <= Len(program) /\ frame.fn # "detachTarget" /\ at \in Nat
    BY <1>5, <2>2 DEF Stands, Typed
  <2>4. Kind(frame.step) # "finishAllTest"
    <3>1. frame.step # Len(program)
      BY <1>5, <1>6, <2>3, ProgramLength
    <3> QED BY <1>5, <1>6, <3>1, ProgramFacts
  <2>5. frame.fn = "MessageToDebugger" \/ testNotFinYet
    BY <1>1, <2>3 DEF GoesRound
  <2> QED BY <1>2, <2>2, <2>4, <2>5
<1>10. Ended => mode' = "ended" /\ frame.fn = "MessageToDebugger" /\ frame.step = Len(program)
  <2> SUFFICES ASSUME Ended
               PROVE  mode' = "ended" /\ frame.fn = "MessageToDebugger"
                      /\ frame.step = Len(program)
    OBVIOUS
  <2>1. Kind(frame.step) = "finishAllTest"
    BY <1>1 DEF Ended
  <2>2. frame.fn = "MessageToDebugger"
    <3>1. Kind(frame.step) \in Messages
      BY <2>1 DEF Messages
    <3>2. StackIn(program[frame.step]) =
            <<"MessageToDebugger", Caller(program[frame.step]), "test">>
      BY <1>5, <1>6, <3>1, StackFacts
    <3> QED BY <1>5, <3>2
  <2>3. ~testNotFinYet
    BY <1>1, <2>2 DEF GoesRound
  <2>4. frame.step = Len(program)
    BY <1>5, <1>6, <2>1, ProgramFacts
  <2> QED BY <1>2, <2>1, <2>2, <2>3, <2>4
<1>11. ~Handling
  <2>1. Quiet => ~Handling
    BY <1>1, <1>8 DEF Stands
  <2> QED BY <1>4, <2>1 DEF Ended, Handling
<1>12. Typed'
  <2>1. NoFrame \in Frames
    BY DEF NoFrame, Frames, Texts
  <2>2. mode' \in {"testing", "ended", "exited"}
    BY <1>2
  <2> QED BY <1>1, <1>3, <2>1, <2>2 DEF Typed
<1>13. Channel'
  <2>1. CASE Quiet
    BY <1>1, <1>3, <2>1 DEF Channel, Quiet, Waiting
  <2>2. CASE Ended
    BY <1>1, <1>3, <1>10, <2>2 DEF Channel, Ended, Waiting
  <2> QED BY <1>4, <2>1, <2>2
<1>14. Data'
  BY <1>1, <1>3, <1>7 DEF Data, Value, Dump
<1>15. Plan'
  BY <1>1 DEF Plan
<1>16. HandledInOrder'
  <2>1. mode' = "ended" => Ended
    BY <1>4, <1>9
  <2>2. mode' = "ended" => handled[Len(handled)].fn = "MessageToDebugger"
                           /\ handled[Len(handled)].step = Len(program)
    BY <1>5, <1>10, <2>1
  <2>3. \A k \in 1..Len(handled) :
          /\ handled[k] = StopFrame(k, handled[k].step)
          /\ handled[k].step \in 2..Len(program) /\ Kind(handled[k].step) \in StopKinds
    BY DEF HandledInOrder
  <2>4. \A k \in 1..Len(handled') :
          (/\ handled[k] = StopFrame(k, handled[k].step)
           /\ handled[k].step \in 2..Len(program) /\ Kind(handled[k].step) \in StopKinds)'
    BY <1>1, <1>3, <2>3 DEF StopFrame, Kind
  <2>5. \A j, k \in 1..Len(handled) : j < k => handled[j].step < handled[k].step
    BY DEF HandledInOrder
  <2> QED BY <1>1, <1>3, <1>5, <2>2, <2>4, <2>5 DEF HandledInOrder
<1>17. Stands'
  <2>1. CASE Quiet
    <3>1. /\ NewStop /\ mode' = "testing" /\ Kind(at)' = Kind(at) /\ NoFrame.fn = ""
          /\ latest' = latest /\ StopFrame(stops, at)' = StopFrame(stops, at)
      BY <1>3, <1>7, <1>9, <2>1 DEF Kind, NoFrame, latest, StopFrame
    <3> QED BY <1>1, <1>3, <1>5, <1>7, <1>8, <1>11, <3>1 DEF Stands
  <2>2. CASE Ended
    <3>1. running /\ NoFrame.fn = ""
      BY <2>2 DEF Ended, NoFrame
    <3>2. ~NewStop
      BY <3>1 DEF Stands
    <3> QED BY <1>1, <1>3, <1>5, <1>7, <1>8, <1>11, <3>1, <3>2 DEF Stands
  <2> QED BY <1>4, <2>1, <2>2
<1>18. GoesRound'
  BY <1>1 DEF GoesRound
<1>19. InTest'
  BY <1>1, <1>3, <1>7 DEF InTest
<1>20. JumpsOut'
  BY <1>1, <1>3, <1>7 DEF JumpsOut, Kind, latest
<1>21. Batches'
  <2>1. \A k \in 1..Len(handled) : HasBatch(handled[k])' <=> HasBatch(handled[k])
    BY <1>1, <1>3 DEF HasBatch, Reports
  <2> QED BY <1>1, <2>1 DEF Batches, BatchesOnce
<1>22. Registered'
  BY <1>1, <1>3, <1>7 DEF Registered, Lists, Live, Kind
<1>23. Breaks'
  BY <1>1, <1>3, <1>7, <1>8 DEF Breaks, Wanted
<1>24. Replaced'
  <2>1. \A k : Replacement(k)' = Replacement(k)
    BY <1>3 DEF Replacement
  <2>2. CallsAreReplaced'
    BY <1>3, <2>1 DEF Replaced, CallsAreReplaced
  <2> QED BY <1>1, <1>7, <1>8, <2>2 DEF Replaced
<1> QED BY <1>12, <1>13, <1>14, <1>15, <1>16, <1>17, <1>18, <1>19, <1>20, <1>21, <1>22, <1>23,
           <1>24
-----------------------------------------------------------------------------
(* The main thread: the end of an operation *)

(* What the end of every operation has in common.                          *)
Over ==
  /\ todo # << >>
  /\ Succeeds("main") \/ Fails("main")
  /\ Returns("main")
  /\ UNCHANGED <<frame, isTimeout, handled, timeouts>>
  /\ UNCHANGED <<targetVars, breakpoints, toGdb, fromGdb, decoderVars, stops>>

(* It never fails, and only the last continue ends while the target runs.  *)
LEMMA OverFacts ==
  ASSUME Inv, Prompt, Over
  PROVE  /\ mode = "testing" /\ toGdb = << >> /\ decoded = Nothing /\ ~Fails("main")
         /\ waits["main"] = "done" /\ carried /\ place = 2
         /\ waits' \in [Threads -> {"no", "stopped", "done"}]
         /\ waits'["main"] = "no" /\ waits'["timer"] = "no" /\ ~carried' /\ place' = 1
         /\ \/ Noticed /\ ~running /\ fromGdb = << >>
            \/ /\ running /\ Continues(todo[1]) /\ ~todo[1].waitForStopped
               /\ at = Len(program) + 1 /\ fromGdb \in {<< >>, <<Line("*running")>>}
<1> USE DEF Inv
<1>1. mode = "testing"
  BY DEF Over, Typed
<1>2. /\ waits["main"] # "no" /\ Waiting
      /\ waits' = [waits EXCEPT !["main"] = "no"]
  BY DEF Over, Succeeds, Fails, Returns, Waiting
<1>3. Asked \/ Answered \/ Decoded \/ Noticed \/ Resumed
  BY <1>2 DEF Channel, Quiet, Ended
<1>4. lastCommand \in {"waitForResult", "done"}
  BY <1>3 DEF Asked, Answered, Asking, Decoded, Noticed, Resumed
<1>5. ~Fails("main")
  BY <1>4 DEF Fails
<1>6. waits["main"] = "done" /\ lastCommand = "done" /\ decoded = Nothing
  BY <1>5 DEF Over, Succeeds
<1>7. Noticed \/ Resumed
  <2>1. ~Asked /\ ~Answered
    BY <1>6 DEF Asked, Answered, Asking
  <2>2. ~Decoded
    BY <1>6 DEF Decoded, Nothing
  <2> QED BY <1>3, <2>1, <2>2
<1>8. toGdb = << >>
  BY <1>7 DEF Noticed, Resumed
<1>9. carried /\ place = 2
  BY <1>2, <1>8 DEF carried, place
<1>10. /\ waits' \in [Threads -> {"no", "stopped", "done"}]
       /\ waits'["main"] = "no" /\ waits'["timer"] = "no"
  BY <1>2 DEF Typed, Threads
<1>11. ~carried' /\ place' = 1
  BY <1>10 DEF carried, Waiting, place
<1>12. CASE Noticed
  BY <1>1, <1>5, <1>6, <1>8, <1>9, <1>10, <1>11, <1>12 DEF Noticed
<1>13. CASE Resumed
  <2>1. Continues(todo[1]) /\ ~todo[1].waitForStopped
    BY <1>6, <1>13 DEF Resumed, Start
  <2>2. running /\ at = Len(program) + 1
    BY <1>13, <2>1 DEF Resumed
  <2>3. fromGdb \in {<< >>, <<Line("*running")>>}
    BY <1>6, <1>13, <2>2 DEF Resumed, Comes
  <2> QED BY <1>1, <1>5, <1>6, <1>8, <1>9, <1>10, <1>11, <2>1, <2>2, <2>3
<1> QED BY <1>7, <1>12, <1>13

(* The last operation of a list is over: a continue or an exit.            *)
LEMMA LastKeeps ==
  ASSUME Inv, Prompt, Over,
         \/ Continues(todo[1]) /\ mode' = mode
         \/ Leaves(todo[1]) /\ mode' = "exited",
         todo' = Tail(todo),
         UNCHANGED <<streamVars, mocks, analysed, testNotFinYet>>
  PROVE  Inv'
<1> USE DEF Inv
<1>1. /\ mode = "testing" /\ toGdb = << >> /\ decoded = Nothing
      /\ waits["main"] = "done" /\ carried /\ place = 2
      /\ waits' \in [Threads -> {"no", "stopped", "done"}]
      /\ waits'["main"] = "no" /\ waits'["timer"] = "no" /\ ~carried' /\ place' = 1
  BY OverFacts
<1>2. /\ todo # << >> /\ UNCHANGED <<frame, isTimeout, handled, timeouts>>
      /\ UNCHANGED <<program, at, stack, running, interrupted, called, cleared, breakpoints>>
      /\ UNCHANGED <<toGdb, fromGdb, lastCommand, debuggerState, decoded, stops>>
      /\ UNCHANGED <<stopFrames, values, dumps>>
  BY DEF Over, targetVars, decoderVars, streamVars
<1>3. /\ Len(todo) = 1 /\ todo' = << >> /\ Shape(todo[1]) /\ IsLast(todo[1])
  BY <1>2, PlanFacts
<1>4. /\ ~Evaluates(todo[1]) /\ todo[1].name # "readDump" /\ ~Reads(todo[1])
      /\ ~Registers(todo[1])
  <2>1. CASE Continues(todo[1])
    <3>1. ~Evaluates(todo[1]) /\ todo[1].name = "execute"
      BY <1>2, <2>1, ContinueFacts
    <3> QED BY <3>1 DEF Reads, Registers
  <2>2. CASE Leaves(todo[1])
    <3>1. todo[1].name = "exit"
      BY <2>2 DEF Leaves
    <3> QED BY <1>3, <3>1 DEF Shape, Reads, Registers
  <2> QED BY <2>1, <2>2
<1>5. ~Ahead /\ ~Ahead'
  <2>1. Len(todo') = 0
    BY <1>3
  <2>2. ~Ahead
    BY <1>1, <1>3 DEF Ahead
  <2>3. ~Ahead'
    BY <1>1, <2>1 DEF Ahead
  <2> QED BY <2>2, <2>3
<1>6. Continues(todo[1]) => ~Handling
  <2> SUFFICES ASSUME Continues(todo[1]), Handling PROVE FALSE
    OBVIOUS
  <2>1. Leaves(todo[1])
    BY <1>1, <1>5 DEF Stands
  <2>2. todo[1].name = "execute"
    BY <1>2, ContinueFacts
  <2> QED BY <2>1, <2>2 DEF Leaves
<1>7. UNCHANGED <<Handling, NewStop, passed, allFrames>>
  <2>1. UNCHANGED <<Handling, NewStop>>
    BY <1>2 DEF Handling, NewStop
  <2>2. passed' = passed
    BY <1>2, <1>3, <1>4, <2>1 DEF passed
  <2> QED BY <1>2, <2>1, <2>2 DEF allFrames, arriving
<1>8. Typed'
  BY <1>1, <1>2, <1>3 DEF Typed
<1>9. Channel'
  <2>1. CASE ~running /\ fromGdb = << >>
    BY <1>1, <1>2, <2>1 DEF Channel, Quiet, Waiting
  <2>2. CASE /\ running /\ Continues(todo[1]) /\ ~todo[1].waitForStopped
             /\ at = Len(program) + 1 /\ fromGdb \in {<< >>, <<Line("*running")>>}
    <3>1. frame # NoFrame /\ Kind(frame.step) = "finishAllTest"
      BY <1>2, <2>2, ContinueFacts
    <3>2. Kind(frame.step)' = Kind(frame.step)
      BY <1>2 DEF Kind
    <3> QED BY <1>1, <1>2, <1>3, <2>2, <3>1, <3>2 DEF Channel, Ended, Waiting
  <2> QED BY <2>1, <2>2, OverFacts
<1>10. Data'
  <2>1. Value = << >> /\ Dump = << >> /\ Value' = << >> /\ Dump' = << >>
    BY <1>1, <1>4 DEF Value, Dump
  <2> QED BY <1>2, <2>1 DEF Data
<1>11. Plan'
  <2>1. Len(todo') - 1 = -1
    BY <1>3
  <2>2. \A k \in 1..(-1) : FALSE
    OBVIOUS
  <2> QED BY <1>3, <2>1, <2>2 DEF Plan
<1>12. HandledInOrder'
  <2>1. \A k \in 1..Len(handled') :
          (/\ handled[k] = StopFrame(k, handled[k].step)
           /\ handled[k].step \in 2..Len(program) /\ Kind(handled[k].step) \in StopKinds)'
    BY <1>2 DEF HandledInOrder, StopFrame, Kind
  <2>2. mode' # "ended"
    BY <1>1
  <2> QED BY <1>2, <2>1, <2>2 DEF HandledInOrder
<1>13. Stands'
  <2>1. latest' = latest /\ StopFrame(stops, at)' = StopFrame(stops, at) /\ Kind(at)' = Kind(at)
    BY <1>2, <1>7 DEF latest, StopFrame, Kind
  <2>2. Continues(todo[1]) => ~Leaves(todo[1])
    <3> SUFFICES ASSUME Continues(todo[1]) PROVE ~Leaves(todo[1])
      OBVIOUS
    <3>1. todo[1].name = "execute"
      BY <1>2, ContinueFacts
    <3> QED BY <3>1 DEF Leaves
  <2>3. NewStop => Continues(todo[1])
    <3>1. NewStop => frame.fn # "detachTarget"
      BY DEF Stands
    <3>2. Leaves(todo[1]) => frame.fn = "detachTarget"
      BY <1>3, <2>2 DEF IsLast
    <3> QED BY <3>1, <3>2
  <2>4. NewStop => mode' = "testing"
    BY <1>1, <2>3, <2>2
  <2>5. mode' = "testing" => ~Handling
    BY <1>6
  <2> QED BY <1>2, <1>5, <1>7, <2>1, <2>4, <2>5 DEF Stands
<1>14. GoesRound'
  BY <1>2 DEF GoesRound
<1>15. InTest'
  BY <1>2, <1>5 DEF InTest
<1>16. JumpsOut'
  BY <1>1, <1>3 DEF JumpsOut
<1>17. Batches'
  <2>1. \A k \in 1..Len(handled) : HasBatch(handled[k])' <=> HasBatch(handled[k])
    BY <1>2 DEF HasBatch, Reports
  <2> QED BY <1>2, <1>3, <1>4, <2>1 DEF Batches, BatchesOnce
<1>18. Registered'
  BY <1>2, <1>7 DEF Registered, Lists, Live, Kind
<1>19. Breaks'
  BY <1>2, <1>5 DEF Breaks, Wanted
<1>20. Replaced'
  <2>1. \A k : Replacement(k)' = Replacement(k)
    BY <1>2 DEF Replacement
  <2>2. CallsAreReplaced'
    BY <1>2, <2>1 DEF Replaced, CallsAreReplaced
  <2> QED BY <1>3, <1>5, <2>2 DEF Replaced
<1> QED BY <1>8, <1>9, <1>10, <1>11, <1>12, <1>13, <1>14, <1>15, <1>16, <1>17, <1>18, <1>19,
           <1>20

(* An operation that is not the last: what is known when it is over.       *)
LEMMA NextFacts ==
  ASSUME Inv, Prompt, Over, ~Continues(todo[1]), ~Leaves(todo[1])
  PROVE  /\ Noticed /\ ~running /\ fromGdb = << >> /\ Handling /\ ~NewStop /\ allFrames = stopFrames
         /\ Len(todo) > 1 /\ Ahead /\ todo[1] \in Ops /\ todo[2] \in Ops
         /\ Shape(todo[1]) /\ Follows(todo[1], todo[2])
         /\ OnlyFirst(todo[2])
         /\ Tail(todo) \in Seq(Ops) /\ Tail(todo) # << >> /\ Tail(todo)[1] = todo[2]
         /\ Tail(todo)[Len(Tail(todo))] = todo[Len(todo)] /\ Chain(Tail(todo))
         /\ << >> \o Tail(todo) = Tail(todo)
         /\ values = (IF Evaluates(todo[1])
                      THEN <<[of |-> todo[1].command.arg,
                              positive |-> program[at].data /\ ~cleared]>> ELSE << >>)
         /\ dumps = (IF todo[1].name = "readDump" THEN <<at>> ELSE << >>)
         /\ at \in 1..Len(program) /\ at \in Nat /\ program \in Programs
<1> USE DEF Inv
<1>1. /\ Noticed /\ ~running /\ fromGdb = << >> /\ decoded = Nothing /\ place = 2 /\ carried
  BY OverFacts
<1>2. todo # << >>
  BY DEF Over
<1>3. Handling
  BY <1>1, <1>2, StandsStill
<1>4. ~NewStop
  BY <1>3 DEF NewStop, Handling, Typed, Stands
<1>5. allFrames = stopFrames
  BY <1>1 DEF allFrames, arriving, Nothing
<1>6. /\ Len(todo) \in Nat /\ Len(todo) > 0 /\ todo[1] \in Ops /\ Shape(todo[1])
      /\ Tail(todo) \in Seq(Ops) /\ Len(Tail(todo)) = Len(todo) - 1
      /\ \A i \in 1..(Len(todo) - 1) : Tail(todo)[i] = todo[i + 1]
  BY <1>2, PlanFacts
<1>7. Len(todo) # 1
  <2>1. Len(todo) = 1 => IsLast(todo[1])
    BY <1>2, PlanFacts
  <2> QED BY <2>1 DEF IsLast
<1>8. Len(todo) > 1
  BY <1>6, <1>7
<1>9. /\ todo[2] \in Ops /\ Follows(todo[1], todo[2])
  BY <1>2, <1>8, PlanFacts
<1>10. Ahead
  BY <1>1, <1>6, <1>8 DEF Ahead
<1>11. Tail(todo) # << >> /\ Tail(todo)[Len(Tail(todo))] = todo[Len(todo)]
  BY <1>2, <1>6, <1>8, LastStays DEF Typed
<1>12. Tail(todo)[1] = todo[2]
  BY <1>6, <1>8
<1>13. Chain(Tail(todo))
  <2>1. \A k \in 1..(Len(todo) - 1) : Follows(todo[k], todo[k + 1])
    BY DEF Plan
  <2>2. ASSUME NEW k \in 1..(Len(Tail(todo)) - 1)
        PROVE  Follows(Tail(todo)[k], Tail(todo)[k + 1])
    <3>1. /\ k \in 1..(Len(todo) - 1) /\ k + 1 \in 1..(Len(todo) - 1)
      BY <1>6
    <3>2. Tail(todo)[k] = todo[k + 1] /\ Tail(todo)[k + 1] = todo[(k + 1) + 1]
      BY <1>6, <3>1
    <3> QED BY <2>1, <3>1, <3>2
  <2> QED BY <2>2 DEF Chain
<1>14. << >> \o Tail(todo) = Tail(todo)
  BY <1>6
<1>15. values = Value /\ dumps = Dump
  BY <1>1 DEF Data
<1>16. at \in 1..Len(program) /\ at \in Nat /\ program \in Programs
  BY <1>1, StandsIn
<1> QED BY <1>1, <1>3, <1>4, <1>5, <1>6, <1>8, <1>9, <1>10, <1>11, <1>12, <1>13, <1>14, <1>15,
           <1>16
        DEF Follows, Value, Dump

(* What is the same for all of them.                                       *)
LEMMA NextKeeps ==
  ASSUME Inv, Prompt, Over, ~Continues(todo[1]), ~Leaves(todo[1]),
         UNCHANGED <<mode, testNotFinYet>>,
         todo' \in Seq(Ops), todo' # << >>, todo'[Len(todo')] = todo[Len(todo)], Chain(todo'),
         ~Registers(todo'[1]), ~Reduces(todo'[1]),

         stopFrames' \in Seq(Frames), values' = << >>, dumps' = << >>,
         mocks' \in Seq(Replacements), analysed' \in Seq(Nat),
         Batches', Registered', Breaks',
         Kind(at) = "call" => Continues(todo'[1])
  PROVE  Inv'
<1> USE DEF Inv
<1>1. /\ mode = "testing" /\ toGdb = << >> /\ decoded = Nothing /\ waits["main"] = "done"
      /\ waits' \in [Threads -> {"no", "stopped", "done"}]
      /\ waits'["main"] = "no" /\ waits'["timer"] = "no" /\ ~carried' /\ place' = 1 /\ place = 2
  BY OverFacts
<1>2. /\ todo # << >> /\ UNCHANGED <<frame, isTimeout, handled, timeouts>>
      /\ UNCHANGED <<program, at, stack, running, interrupted, called, cleared, breakpoints>>
      /\ UNCHANGED <<toGdb, fromGdb, lastCommand, debuggerState, decoded, stops>>
  BY DEF Over, targetVars, decoderVars
<1>3. /\ Noticed /\ ~running /\ fromGdb = << >> /\ Handling /\ ~NewStop /\ Ahead
      /\ OnlyFirst(todo[2])
  BY NextFacts
<1>4. Ahead' /\ Handling' /\ ~NewStop'
  <2>1. Len(todo') \in Nat /\ Len(todo') > 0
    BY TailOf
  <2>2. Ahead'
    BY <1>1, <2>1 DEF Ahead
  <2> QED BY <1>2, <1>3, <2>2 DEF Handling, NewStop
<1>5. Typed'
  BY <1>1, <1>2 DEF Typed
<1>6. Channel'
  BY <1>1, <1>2, <1>3 DEF Channel, Quiet, Waiting
<1>7. Data'
  <2>1. Value' = << >> /\ Dump' = << >>
    BY <1>1 DEF Value, Dump
  <2> QED BY <1>2, <1>3, <2>1 DEF Data
<1>8. Plan'
  <2>1. Len(todo) \in 1..Len(todo) /\ IsLast(todo[Len(todo)])
    BY <1>2, PlanFacts DEF Plan
  <2>2. IsLast(todo[Len(todo)])'
    BY <1>2, <2>1 DEF IsLast, Kind
  <2> QED BY <2>2 DEF Plan, Chain
<1>9. HandledInOrder'
  BY <1>1, <1>2 DEF HandledInOrder, StopFrame, Kind
<1>10. Stands'
  BY <1>1, <1>2, <1>3, <1>4 DEF Stands
<1>11. GoesRound'
  BY <1>2 DEF GoesRound
<1>12. InTest'
  BY <1>1, <1>2, <1>3 DEF InTest
<1>13. JumpsOut'
  BY <1>1 DEF JumpsOut
<1>14. Replaced'
  <2>1. \A k : Replacement(k)' = Replacement(k)
    BY <1>2 DEF Replacement
  <2>2. CallsAreReplaced'
    BY <1>2, <2>1 DEF Replaced, CallsAreReplaced
  <2>3. ASSUME Kind(at) = "call" PROVE Head(stack) = Replacement(at)
    <3>1. ~Reduces(todo[2])
      BY <1>3 DEF OnlyFirst
    <3> QED BY <1>1, <1>3, <2>3, <3>1 DEF Replaced
  <2>4. Kind(at)' = Kind(at)
    BY <1>2 DEF Kind
  <2> QED BY <1>1, <1>2, <1>4, <2>1, <2>2, <2>3, <2>4 DEF Replaced
<1> QED BY <1>5, <1>6, <1>7, <1>8, <1>9, <1>10, <1>11, <1>12, <1>13, <1>14

(* The breakpoints are those of the mocks unless all are being set anew.   *)
LEMMA NoRenewal ==
  ASSUME Inv, Prompt, Over, ~Continues(todo[1]), ~Leaves(todo[1]),
         ~Deletes(todo[1]), ~Inserts(todo[1])
  PROVE  /\ breakpoints = Wanted /\ ~Inserts(todo[2]) /\ ~Deletes(todo[2])
         /\ todo[2] # DetachBreakpoint /\ todo[2] # MessageBreakpoint
<1>1. Follows(todo[1], todo[2]) /\ OnlyFirst(todo[2]) /\ Ahead
  BY NextFacts
<1>2. todo[1] # DetachBreakpoint
  BY OwnBreakpoints
<1>3. todo[2] # DetachBreakpoint /\ todo[2] # MessageBreakpoint
  BY <1>1, <1>2 DEF Follows
<1>4. ~Inserts(todo[2]) /\ ~Deletes(todo[2])
  BY <1>1, <1>3 DEF OnlyFirst
<1>5. place = 2
  BY OverFacts
<1> QED BY <1>1, <1>3, <1>4, <1>5 DEF Inv, Breaks

(* A stub or a mock is in force as before.                                 *)
LEMMA MocksStay ==
  ASSUME Inv, Prompt, Over, ~Continues(todo[1]), ~Leaves(todo[1]), mocks' = mocks,
         ~Registers(todo[1]), todo' = << >> \/ ~Registers(todo'[1])
  PROVE  Registered'
<1>1. Handling /\ ~running /\ ~NewStop
  BY NextFacts
<1>2. /\ UNCHANGED <<handled, program, at, running, stops>>
  BY DEF Over, targetVars
<1>3. Handling' = Handling /\ NewStop' = NewStop
  BY <1>2 DEF Handling, NewStop
<1>4. passed = at /\ passed' = at
  BY <1>1, <1>2, <1>3 DEF passed
<1>5. Lists(Live(passed)) => Lists(Live(passed))'
  BY <1>2, <1>4 DEF Lists, Live, Kind
<1>6. (Handling /\ Kind(at) = "detachTarget")' <=> Handling /\ Kind(at) = "detachTarget"
  BY <1>2, <1>3 DEF Kind
<1> QED BY <1>5, <1>6 DEF Inv, Registered

(* So are the results, where none are being read.                          *)
LEMMA ResultsStay ==
  ASSUME Inv, Over, analysed' = analysed, ~Reads(todo[1]), todo' = << >> \/ ~Reads(todo'[1])
  PROVE  Batches'
<1>1. UNCHANGED <<program, handled>> /\ todo # << >>
  BY DEF Over, targetVars
<1>2. \A k \in 1..Len(handled) : HasBatch(handled[k])' <=> HasBatch(handled[k])
  BY <1>1 DEF HasBatch, Reports
<1> QED BY <1>1, <1>2 DEF Inv, Batches, BatchesOnce

(* The next operation is the one that was planned.                         *)
LEMMA TailKeeps ==
  ASSUME Inv, Prompt, Over, ~Continues(todo[1]), ~Leaves(todo[1]),
         UNCHANGED <<mode, testNotFinYet, mocks>>, todo' = << >> \o Tail(todo),
         ~Registers(todo[1]), stopFrames' \in Seq(Frames), values' = << >>, dumps' = << >>,
         analysed' \in Seq(Nat), Batches'
  PROVE  Inv'
<1>1. /\ todo' \in Seq(Ops) /\ todo' # << >> /\ todo'[1] = todo[2]
      /\ todo'[Len(todo')] = todo[Len(todo)] /\ Chain(todo') /\ todo' = Tail(todo)
      /\ OnlyFirst(todo[2]) /\ Ahead /\ Handling /\ Follows(todo[1], todo[2]) /\ Len(todo) > 1
  BY NextFacts
<1>2. ~Registers(todo'[1]) /\ ~Reduces(todo'[1])
  BY <1>1 DEF OnlyFirst
<1>3. Registered'
  BY <1>2, MocksStay
<1>4. place = 2 /\ place' = 1 /\ UNCHANGED <<breakpoints, at, program>> /\ todo # << >>
  BY OverFacts DEF Over, targetVars
<1>5. Ahead'
  <2>1. Len(todo') \in Nat /\ Len(todo') > 0
    BY <1>1, TailOf
  <2> QED BY <1>4, <2>1 DEF Ahead
<1>6. Breaks'
  BY <1>1, <1>4, <1>5 DEF Inv, Breaks, Wanted
<1>7. Kind(at) = "call" => Continues(todo'[1])
  <2> SUFFICES ASSUME Kind(at) = "call" PROVE Continues(todo[2])
    BY <1>1
  <2>1. Reduces(todo[1])
    BY <1>1, <1>4 DEF Inv, Replaced
  <2> QED BY <1>1, <2>1 DEF Follows
<1>8. mocks' \in Seq(Replacements)
  BY DEF Inv, Typed
<1> QED BY <1>1, <1>2, <1>3, <1>6, <1>7, <1>8, NextKeeps

(* Another operation comes first.                                          *)
LEMMA FrontKeeps ==
  ASSUME Inv, Prompt, Over, ~Continues(todo[1]), ~Leaves(todo[1]), ~Reduces(todo[1]),
         ~Deletes(todo[1]), ~Inserts(todo[1]),
         UNCHANGED <<mode, testNotFinYet>>,
         NEW a \in Ops, todo' = <<a>> \o Tail(todo),
         ~Continues(a), ~Leaves(a), ~Reduces(a), ~Deletes(a), ~Registers(a),
         a # DetachBreakpoint,
         stopFrames' \in Seq(Frames), values' = << >>, dumps' = << >>,
         mocks' \in Seq(Replacements), analysed' \in Seq(Nat),
         todo'[1] = a => Batches' /\ Registered', Inserts(a) => Breaks', ~Inserts(a) => mocks' = mocks
  PROVE  Inv'
<1>1. /\ Tail(todo) \in Seq(Ops) /\ Tail(todo) # << >> /\ Tail(todo)[1] = todo[2]
      /\ Tail(todo)[Len(Tail(todo))] = todo[Len(todo)] /\ Chain(Tail(todo)) /\ OnlyFirst(todo[2])
      /\ Handling
  BY NextFacts
<1>2. breakpoints = Wanted /\ ~Inserts(todo[2])
  BY NoRenewal
<1>3. Follows(a, todo[2])
  BY <1>1, <1>2, MayFollow
<1>4. /\ todo' \in Seq(Ops) /\ todo' # << >> /\ todo'[1] = a
      /\ todo'[Len(todo')] = todo[Len(todo)]
      /\ Len(todo') = Len(Tail(todo)) + 1 /\ Len(Tail(todo)) \in Nat
      /\ \A i \in 1..Len(Tail(todo)) : todo'[i + 1] = Tail(todo)[i]
  BY <1>1, PutFirst, LastStays
<1>5. Chain(todo')
  <2>1. ASSUME NEW k \in 1..(Len(todo') - 1) PROVE Follows(todo'[k], todo'[k + 1])
    <3>1. CASE k = 1
      <4>1. Len(Tail(todo)) > 0
        BY <1>1, TailOf
      <4>2. todo'[k + 1] = todo[2]
        BY <1>1, <1>4, <3>1, <4>1
      <4> QED BY <1>3, <1>4, <3>1, <4>2
    <3>2. CASE k # 1
      <4>1. PICK i \in 1..(Len(Tail(todo)) - 1) : k = i + 1
        <5>1. k - 1 \in 1..(Len(Tail(todo)) - 1) /\ k = (k - 1) + 1
          BY <1>4, <2>1, <3>2
        <5> QED BY <5>1
      <4>2. Follows(Tail(todo)[i], Tail(todo)[i + 1])
        BY <1>1 DEF Chain
      <4>3. todo'[i + 1] = Tail(todo)[i] /\ todo'[(i + 1) + 1] = Tail(todo)[i + 1]
        <5>1. i \in 1..Len(Tail(todo)) /\ i + 1 \in 1..Len(Tail(todo))
          BY <1>4, <4>1
        <5> QED BY <1>4, <5>1
      <4> QED BY <4>1, <4>2, <4>3
    <3> QED BY <3>1, <3>2
  <2> QED BY <2>1 DEF Chain
<1>7. Kind(at) # "call"
  BY <1>1 DEF Inv, Replaced, Over
<1>8. Breaks'
  <2> SUFFICES ASSUME ~Inserts(a) PROVE Breaks'
    OBVIOUS
  <2>1. place' = 1 /\ breakpoints' = breakpoints /\ Wanted' = Wanted
    BY OverFacts DEF Over, Wanted
  <2> QED BY <1>2, <1>4, <2>1, OwnBreakpoints DEF Breaks
<1> QED BY <1>4, <1>5, <1>7, <1>8, NextKeeps

(* What an operation is called says what it does.                          *)
LEMMA NameFacts ==
  ASSUME Inv, Over
  PROVE  /\ todo[1].name \notin {"readIndex", "readDump"} => ~Reads(todo[1])
         /\ todo[1].name \notin {"addStub", "addMock"} => ~Registers(todo[1])
         /\ todo[1].name # "exit" => ~Leaves(todo[1])
         /\ todo[1].name # "reduce" => ~Reduces(todo[1])
         /\ todo[1].name \notin {"evaluate", "disabledTests", "readIndex"} => ~Evaluates(todo[1])
         /\ todo[1].name # "execute" =>
              ~Continues(todo[1]) /\ ~Deletes(todo[1]) /\ ~Inserts(todo[1])
         /\ todo[1].name \in Names /\ todo[1] \in Ops /\ Shape(todo[1])
<1>1. todo # << >> /\ todo[1] \in Ops /\ Shape(todo[1])
  BY PlanFacts DEF Over, Inv
<1>2. todo[1].name \in Names
  BY <1>1, OpFacts
<1>3. ASSUME todo[1].name # "execute"
      PROVE  ~Continues(todo[1]) /\ ~Deletes(todo[1]) /\ ~Inserts(todo[1])
  <2>1. CASE Redirects(todo[1])
    BY <2>1, Zenon DEF Redirects, Continues, Deletes, Inserts
  <2>2. CASE ~Redirects(todo[1])
    BY <1>1, <1>2, <1>3, <2>2
    DEF Names, Shape, Continues, Deletes, Inserts, Evaluates, Reduces, Leaves
  <2> QED BY <2>1, <2>2
<1> QED BY <1>1, <1>2, <1>3 DEF Shape, Reads, Registers, Leaves, Reduces

(* The end of an operation, as TestRun states it.                          *)
LEMMA EndsOver ==
  ASSUME Inv, NEW name, NEW next, Ends(name, next)
  PROVE  /\ Over /\ todo[1].name = name /\ todo' = next \o Tail(todo) /\ mode = "testing"
         /\ UNCHANGED testNotFinYet
BY DEF Ends, Over, Inv, Typed

(* A command without a result.                                             *)
LEMMA ExecuteKeeps ==
  ASSUME Inv, Prompt, ExecuteEnds
  PROVE  Inv'
<1>1. /\ Over /\ todo[1].name = "execute" /\ todo' = << >> \o Tail(todo)
      /\ UNCHANGED <<testNotFinYet, streamVars, mode, mocks, analysed>>
  BY EndsOver DEF ExecuteEnds
<1>2. /\ ~Reads(todo[1]) /\ ~Registers(todo[1]) /\ ~Leaves(todo[1]) /\ ~Evaluates(todo[1])
  BY <1>1, NameFacts
<1>3. << >> \o Tail(todo) = Tail(todo) /\ Typed
  BY <1>1, PlanFacts DEF Over, Inv
<1>4. CASE Continues(todo[1])
  BY <1>1, <1>3, <1>4, LastKeeps
<1>5. CASE ~Continues(todo[1])
  <2>1. OnlyFirst(todo[2]) /\ todo' # << >> /\ todo'[1] = todo[2]
        /\ values = << >> /\ dumps = << >>
    BY <1>1, <1>2, <1>5, NextFacts
  <2>2. Batches'
    BY <1>1, <1>2, <2>1, ResultsStay DEF OnlyFirst
  <2>3. stopFrames' \in Seq(Frames) /\ analysed' \in Seq(Nat) /\ values' = << >> /\ dumps' = << >>
    BY <1>1, <1>3, <2>1 DEF Typed, streamVars
  <2> QED BY <1>1, <1>2, <1>5, <2>2, <2>3, TailKeeps
<1> QED BY <1>4, <1>5

(* A command with one, for which nothing else has to be done.              *)
LEMMA PlainKeeps ==
  ASSUME Inv, Prompt, Over,
         todo[1].name \in {"evaluate", "disabledTests", "jumpOut", "buffToSmall", "reduce"},
         todo' = << >> \o Tail(todo), UNCHANGED <<mode, testNotFinYet, mocks, analysed>>,
         stopFrames' \in Seq(Frames), values' = << >>, dumps' = << >>
  PROVE  Inv'
<1>1. /\ ~Reads(todo[1]) /\ ~Registers(todo[1]) /\ ~Leaves(todo[1]) /\ ~Continues(todo[1])
  BY NameFacts
<1>2. OnlyFirst(todo[2]) /\ todo' # << >> /\ todo'[1] = todo[2]
  BY <1>1, NextFacts
<1>3. Batches'
  BY <1>1, <1>2, ResultsStay DEF OnlyFirst
<1>4. analysed' \in Seq(Nat)
  BY DEF Inv, Typed
<1> QED BY <1>1, <1>3, <1>4, TailKeeps

(* The values, the dumps and the frames there are.                         *)
LEMMA EndValues ==
  ASSUME Inv, Prompt, Over, ~Continues(todo[1]), ~Leaves(todo[1])
  PROVE  /\ Evaluates(todo[1]) =>
              /\ values # << >> /\ Tail(values) = << >>
              /\ Head(values) = [of |-> todo[1].command.arg,
                                 positive |-> program[at].data /\ ~cleared]
         /\ ~Evaluates(todo[1]) => values = << >>
         /\ todo[1].name = "readDump" => dumps # << >> /\ Head(dumps) = at /\ Tail(dumps) = << >>
         /\ todo[1].name # "readDump" => dumps = << >>
         /\ stopFrames \in Seq(Frames)
         /\ TakeLatestFrame => stopFrames' \in Seq(Frames)
<1>1. /\ values = (IF Evaluates(todo[1])
                   THEN <<[of |-> todo[1].command.arg,
                           positive |-> program[at].data /\ ~cleared]>> ELSE << >>)
      /\ dumps = (IF todo[1].name = "readDump" THEN <<at>> ELSE << >>)
  BY NextFacts
<1>2. stopFrames \in Seq(Frames)
  BY DEF Inv, Typed
<1>3. TakeLatestFrame => stopFrames' \in Seq(Frames)
  <2>1. CASE stopFrames = << >>
    BY <2>1 DEF TakeLatestFrame
  <2>2. CASE stopFrames # << >>
    BY <1>2, <2>2, ButLast DEF TakeLatestFrame
  <2> QED BY <2>1, <2>2
<1>4. \A x : <<x>> # << >> /\ Tail(<<x>>) = << >> /\ Head(<<x>>) = x
  OBVIOUS
<1> QED BY <1>1, <1>2, <1>3, <1>4

(* The value of an expression is not used, or is the number of disabled tests. *)
LEMMA EvaluateEndKeeps ==
  ASSUME Inv, Prompt, EvaluateEnds \/ DisabledTestsEnds
  PROVE  Inv'
<1>1. /\ Over /\ todo[1].name \in {"evaluate", "disabledTests"} /\ todo' = << >> \o Tail(todo)
      /\ UNCHANGED <<testNotFinYet, stopFrames, dumps, mocks, analysed>>
      /\ TakeValue /\ (values # << >> => mode' = mode)
  <2>1. CASE EvaluateEnds
    BY <2>1, EndsOver DEF EvaluateEnds
  <2>2. CASE DisabledTestsEnds
    BY <2>2, EndsOver DEF DisabledTestsEnds
  <2> QED BY <2>1, <2>2
<1>2. /\ ~Leaves(todo[1]) /\ ~Continues(todo[1]) /\ Evaluates(todo[1])
      /\ todo[1].name # "readDump"
  BY <1>1, NameFacts DEF Shape
<1>3. values # << >> /\ values' = << >> /\ dumps' = << >> /\ stopFrames' \in Seq(Frames)
  BY <1>1, <1>2, EndValues DEF TakeValue
<1>4. mode' = mode
  BY <1>1, <1>3
<1> QED BY <1>1, <1>3, <1>4, PlainKeeps

(* The function is left, and the frame of the answer is taken.             *)
LEMMA JumpOutKeeps ==
  ASSUME Inv, Prompt, JumpOutEnds
  PROVE  Inv'
<1>1. /\ Over /\ todo[1].name = "jumpOut" /\ todo' = << >> \o Tail(todo)
      /\ UNCHANGED <<testNotFinYet, values, dumps, mode, mocks, analysed>> /\ TakeLatestFrame
  BY EndsOver DEF JumpOutEnds
<1>2. /\ ~Leaves(todo[1]) /\ ~Continues(todo[1]) /\ ~Evaluates(todo[1])
      /\ todo[1].name # "readDump"
  BY <1>1, NameFacts
<1>3. values' = << >> /\ dumps' = << >> /\ stopFrames' \in Seq(Frames)
  BY <1>1, <1>2, EndValues
<1> QED BY <1>1, <1>3, PlainKeeps

(* A call has been replaced.                                               *)
LEMMA ReduceKeeps ==
  ASSUME Inv, Prompt, ReduceEnds
  PROVE  Inv'
<1>1. Over /\ todo[1].name = "reduce" /\ todo' = Tail(todo)
      /\ UNCHANGED <<mode, streamVars, mocks, analysed>>
  BY DEF ReduceEnds, Over
<1>2. UNCHANGED testNotFinYet
  BY <1>1, OverFacts DEF ReduceEnds
<1>3. /\ ~Leaves(todo[1]) /\ ~Continues(todo[1]) /\ ~Evaluates(todo[1])
      /\ todo[1].name # "readDump"
  BY <1>1, NameFacts
<1>4. values' = << >> /\ dumps' = << >> /\ stopFrames' \in Seq(Frames)
  BY <1>1, <1>3, EndValues DEF streamVars
<1>5. todo' = << >> \o Tail(todo)
  BY <1>1, <1>3, NextFacts
<1> QED BY <1>1, <1>2, <1>4, <1>5, PlainKeeps

(* The host leaves a target it has detached from.                          *)
LEMMA ExitKeeps ==
  ASSUME Inv, Prompt, ExitEnds
  PROVE  Inv'
<1>1. /\ Over /\ todo[1].name = "exit" /\ todo' = << >> \o Tail(todo)
      /\ UNCHANGED <<testNotFinYet, streamVars, mocks, analysed>> /\ mode' = "exited"
  BY EndsOver DEF ExitEnds
<1>2. << >> \o Tail(todo) = Tail(todo)
  BY <1>1, PlanFacts DEF Over, Inv
<1>3. Leaves(todo[1])
  BY <1>1 DEF Leaves
<1> QED BY <1>1, <1>2, <1>3, LastKeeps

(* While the results are read, the loop handles a stop that reports some.  *)
LEMMA ReadingFacts ==
  ASSUME Inv, Prompt, Over, Reads(todo[1])
  PROVE  /\ ~Continues(todo[1]) /\ ~Leaves(todo[1]) /\ ~Reduces(todo[1]) /\ ~Deletes(todo[1])
         /\ ~Inserts(todo[1]) /\ ~Registers(todo[1])
         /\ ~cleared /\ Handling /\ frame # NoFrame /\ at \in Nat
         /\ Kind(at) \in {"bufferIsFull", "bufferToSmall", "finishAllTest"}
         /\ \A i \in 1..Len(analysed) : analysed[i] < at
         /\ todo[1].name = "readDump" => program[at].data
         /\ Len(handled) \in 1..Len(handled) /\ handled[Len(handled)].step = at
         /\ HasBatch(handled[Len(handled)]) <=> program[at].data
         /\ UNCHANGED <<program, at, stops, running, cleared, handled, frame>> /\ Handling'
         /\ \A k \in 1..Len(handled) : HasBatch(handled[k])' <=> HasBatch(handled[k])
<1>1. todo[1].name \in {"readIndex", "readDump"}
  BY DEF Reads
<1>2. /\ ~Continues(todo[1]) /\ ~Leaves(todo[1]) /\ ~Reduces(todo[1]) /\ ~Deletes(todo[1])
      /\ ~Inserts(todo[1]) /\ ~Registers(todo[1])
  BY <1>1, NameFacts
<1>3. /\ ~cleared /\ Handling /\ frame # NoFrame
      /\ Kind(at) \in {"bufferIsFull", "bufferToSmall", "finishAllTest"}
      /\ \A i \in 1..Len(analysed) : analysed[i] < at
      /\ todo[1].name = "readDump" => program[at].data
  BY DEF Inv, Batches, Over
<1>4. mode = "testing"
  BY OverFacts
<1>5. handled # << >>
  BY <1>3, <1>4, HandlingFacts
<1>6. /\ at \in 1..Len(program) /\ at \in Nat /\ program \in Programs
      /\ frame = handled[Len(handled)] /\ frame.fn = Head(StackIn(program[at]))
      /\ Len(handled) \in 1..Len(handled) /\ handled[Len(handled)].step = at
  BY <1>3, <1>4, <1>5, HandlingFacts
<1>7. frame.fn = "MessageToDebugger"
  <2>1. Kind(at) \in Messages
    BY <1>3 DEF Messages
  <2>2. StackIn(program[at]) = <<"MessageToDebugger", Caller(program[at]), "test">>
    BY <1>6, <2>1, StackFacts
  <2> QED BY <1>6, <2>2
<1>8. HasBatch(handled[Len(handled)]) <=> program[at].data
  BY <1>3, <1>6, <1>7 DEF HasBatch, Reports, Kind
<1>9. UNCHANGED <<program, at, stops, running, cleared, handled, frame>>
  BY DEF Over, targetVars
<1>10. Handling'
  BY <1>3, <1>9 DEF Handling
<1>11. \A k \in 1..Len(handled) : HasBatch(handled[k])' <=> HasBatch(handled[k])
  BY <1>9 DEF HasBatch, Reports
<1> QED BY <1>2, <1>3, <1>6, <1>8, <1>9, <1>10, <1>11

(* The index tells whether there are results to read.                      *)
LEMMA ReadIndexKeeps ==
  ASSUME Inv, Prompt, ReadIndexEnds
  PROVE  Inv'
<1>1. PICK next : /\ Ends("readIndex", next)
                  /\ \/ MayBePositive /\ next = <<ReadDump>>
                     \/ MayBeZero /\ next = WithoutDump
  BY DEF ReadIndexEnds
<1>2. /\ Over /\ todo[1].name = "readIndex" /\ todo' = next \o Tail(todo) /\ mode = "testing"
      /\ UNCHANGED <<testNotFinYet, stopFrames, dumps, mode, mocks, analysed>> /\ TakeValue
  BY <1>1, EndsOver DEF ReadIndexEnds
<1>3. Reads(todo[1])
  BY <1>2 DEF Reads
<1>4. /\ ~Continues(todo[1]) /\ ~Leaves(todo[1]) /\ ~Reduces(todo[1]) /\ ~Deletes(todo[1])
      /\ ~Inserts(todo[1]) /\ ~Registers(todo[1])
      /\ ~cleared /\ Handling /\ frame # NoFrame
      /\ Kind(at) \in {"bufferIsFull", "bufferToSmall", "finishAllTest"}
      /\ \A i \in 1..Len(analysed) : analysed[i] < at
      /\ HasBatch(handled[Len(handled)]) <=> program[at].data
      /\ UNCHANGED <<program, at, stops, running, cleared, handled, frame>> /\ Handling'
      /\ \A k \in 1..Len(handled) : HasBatch(handled[k])' <=> HasBatch(handled[k])
  BY <1>2, <1>3, ReadingFacts
<1>5. Evaluates(todo[1]) /\ todo[1].command.arg = "test_result_index" /\ todo[1].name # "readDump"
  BY <1>2, NameFacts DEF Shape
<1>6. /\ values # << >> /\ Tail(values) = << >> /\ Head(values).of = "test_result_index"
      /\ Head(values).positive = (program[at].data /\ ~cleared) /\ dumps = << >>
      /\ stopFrames \in Seq(Frames)
  BY <1>2, <1>4, <1>5, EndValues
<1>7. values' = << >> /\ dumps' = << >> /\ stopFrames' \in Seq(Frames)
  BY <1>2, <1>6 DEF TakeValue
<1>8. mocks' \in Seq(Replacements) /\ analysed' \in Seq(Nat)
  BY <1>2 DEF Inv, Typed
<1>9. todo' # << >>
  <2>1. PICK a \in Ops : next = <<a>>
    <3>1. ReadDump \in Ops /\ JumpOut("buffToSmall") \in Ops
      BY ReadDumpIs, JumpIs DEF Between
    <3> QED BY <1>1, <1>2, <3>1 DEF WithoutDump
  <2>2. Tail(todo) \in Seq(Ops) /\ Tail(todo) # << >>
    BY <1>2, <1>4, NextFacts
  <2> QED BY <1>2, <2>1, <2>2, LastStays
<1>10. /\ BatchesOnce'
       /\ \A i \in 1..Len(analysed') :
            \E k \in 1..Len(handled') : HasBatch(handled[k])' /\ handled'[k].step = analysed'[i]
  <2>1. BatchesOnce'
    BY <1>2 DEF Inv, Batches, BatchesOnce
  <2> QED BY <1>2, <1>4, <2>1 DEF Inv, Batches
<1>11. CASE MayBePositive /\ next = <<ReadDump>>
  <2>1. program[at].data
    BY <1>6, <1>11 DEF MayBePositive
  <2>2. todo'[1] = ReadDump => Batches'
    <3> SUFFICES ASSUME todo'[1] = ReadDump PROVE Batches'
      OBVIOUS
    <3>1. Kind(at)' = Kind(at) /\ Reads(todo'[1])
      BY <1>4, ReadDumpIs DEF Kind
    <3>2. \A k \in 1..Len(handled') :
            HasBatch(handled[k])' =>
              \/ \E i \in 1..Len(analysed') : analysed'[i] = handled'[k].step
              \/ k = Len(handled') /\ todo' # << >> /\ Reads(todo'[1])
      BY <1>2, <1>4, <1>9, <3>1 DEF Inv, Batches
    <3> QED BY <1>2, <1>4, <1>10, <2>1, <3>1, <3>2 DEF Batches
  <2>3. todo'[1] = ReadDump => Registered'
    BY <1>2, <1>4, ReadDumpIs, MocksStay
  <2>4. todo' = <<ReadDump>> \o Tail(todo) /\ ReadDump # DetachBreakpoint
    BY <1>2, <1>11, ReadDumpIs, OwnBreakpoints
  <2> HIDE DEF ReadDump
  <2> QED BY <1>2, <1>4, <1>7, <1>8, <2>2, <2>3, <2>4, ReadDumpIs, FrontKeeps
<1>12. CASE MayBeZero /\ next = WithoutDump
  <2> DEFINE j == JumpOut("buffToSmall")
  <2>1. ~program[at].data
    BY <1>4, <1>6, <1>12 DEF MayBeZero
  <2>2. Between(j) /\ ~Reads(j) /\ ~Registers(j) /\ ~Reduces(j) /\ ~Deletes(j)
    BY JumpIs DEF Between, OnlyFirst
  <2>3. todo' = <<j>> \o Tail(todo)
    BY <1>2, <1>12 DEF WithoutDump
  <2> HIDE DEF j
  <2>4. todo'[1] = j => Batches'
    <3> SUFFICES ASSUME todo'[1] = j PROVE Batches'
      OBVIOUS
    <3>1. \A k \in 1..Len(handled') :
            HasBatch(handled[k])' => \E i \in 1..Len(analysed') : analysed'[i] = handled'[k].step
      BY <1>2, <1>4, <2>1 DEF Inv, Batches
    <3> QED BY <1>10, <2>2, <3>1 DEF Batches
  <2>5. todo'[1] = j => Registered'
    BY <1>2, <1>4, <2>2, MocksStay
  <2>6. j # DetachBreakpoint
    BY <2>2, OwnBreakpoints DEF Between
  <2> QED BY <1>2, <1>4, <1>7, <1>8, <2>2, <2>3, <2>4, <2>5, <2>6, FrontKeeps DEF Between
<1> QED BY <1>1, <1>11, <1>12

(* The results are analysed.                                               *)
LEMMA ReadDumpKeeps ==
  ASSUME Inv, Prompt, ReadDumpEnds
  PROVE  Inv'
<1>1. Over /\ todo[1].name = "readDump"
  BY EndsOver DEF ReadDumpEnds
<1>2. Reads(todo[1])
  BY <1>1 DEF Reads
<1>3. /\ ~Continues(todo[1]) /\ ~Leaves(todo[1]) /\ ~Reduces(todo[1]) /\ ~Registers(todo[1])
      /\ Handling /\ at \in Nat
      /\ \A i \in 1..Len(analysed) : analysed[i] < at
      /\ program[at].data
      /\ Len(handled) \in 1..Len(handled) /\ handled[Len(handled)].step = at
      /\ HasBatch(handled[Len(handled)]) <=> program[at].data
      /\ UNCHANGED <<program, at, stops, running, cleared, handled, frame>> /\ Handling'
      /\ \A k \in 1..Len(handled) : HasBatch(handled[k])' <=> HasBatch(handled[k])
  BY <1>1, <1>2, ReadingFacts
<1>4. dumps # << >> /\ Head(dumps) = at /\ Tail(dumps) = << >>
  BY <1>1, <1>3, EndValues
<1>5. ~Evaluates(todo[1])
  BY <1>1, NameFacts
<1>6. values = << >> /\ stopFrames \in Seq(Frames)
  BY <1>1, <1>3, <1>5, EndValues
<1>7. /\ todo' = << >> \o Tail(todo) /\ analysed' = Append(analysed, at) /\ dumps' = << >>
      /\ UNCHANGED <<testNotFinYet, stopFrames, values, mode, mocks>>
  BY <1>4, EndsOver DEF ReadDumpEnds
<1>8. /\ analysed' \in Seq(Nat) /\ Len(analysed) \in Nat /\ Len(analysed') = Len(analysed) + 1
      /\ analysed'[Len(analysed) + 1] = at
      /\ \A i \in 1..Len(analysed) : analysed'[i] = analysed[i]
  <2>1. analysed \in Seq(Nat)
    BY DEF Inv, Typed
  <2> QED BY <1>3, <1>7, <2>1, PutLast
<1>9. todo' # << >> /\ ~Reads(todo'[1])
  <2>1. OnlyFirst(todo[2]) /\ todo' # << >> /\ todo'[1] = todo[2]
    BY <1>1, <1>3, <1>7, NextFacts
  <2> QED BY <2>1 DEF OnlyFirst
<1>10. BatchesOnce'
  <2> SUFFICES ASSUME NEW i \in 1..Len(analysed'), NEW j \in 1..Len(analysed'), i < j
               PROVE  analysed'[i] < analysed'[j]
    BY DEF BatchesOnce
  <2>1. i \in 1..Len(analysed) /\ analysed'[i] = analysed[i]
    BY <1>8
  <2>2. CASE j \in 1..Len(analysed)
    BY <1>8, <2>1, <2>2 DEF Inv, Batches, BatchesOnce
  <2>3. CASE j = Len(analysed) + 1
    BY <1>3, <1>8, <2>1, <2>3
  <2> QED BY <1>8, <2>2, <2>3
<1>11. \A i \in 1..Len(analysed') :
         \E k \in 1..Len(handled') : HasBatch(handled[k])' /\ handled'[k].step = analysed'[i]
  <2> TAKE i \in 1..Len(analysed')
  <2>1. CASE i \in 1..Len(analysed)
    <3>1. PICK k \in 1..Len(handled) : HasBatch(handled[k]) /\ handled[k].step = analysed[i]
      BY <2>1 DEF Inv, Batches
    <3> QED BY <1>3, <1>8, <2>1, <3>1
  <2>2. CASE i = Len(analysed) + 1
    BY <1>3, <1>8, <2>2
  <2> QED BY <1>8, <2>1, <2>2
<1>12. \A k \in 1..Len(handled') :
         HasBatch(handled[k])' => \E i \in 1..Len(analysed') : analysed'[i] = handled'[k].step
  <2> TAKE k \in 1..Len(handled')
  <2> HAVE HasBatch(handled[k])'
  <2>1. \/ \E i \in 1..Len(analysed) : analysed[i] = handled[k].step
        \/ k = Len(handled)
    BY <1>3 DEF Inv, Batches
  <2>2. CASE \E i \in 1..Len(analysed) : analysed[i] = handled[k].step
    <3>1. PICK i \in 1..Len(analysed) : analysed[i] = handled[k].step
      BY <2>2
    <3>2. i \in 1..Len(analysed')
      BY <1>8
    <3> QED BY <1>3, <1>8, <3>1, <3>2
  <2>3. CASE k = Len(handled)
    <3>1. Len(analysed) + 1 \in 1..Len(analysed')
      BY <1>8
    <3> QED BY <1>3, <1>8, <2>3, <3>1
  <2> QED BY <2>1, <2>2, <2>3
<1>13. Batches'
  BY <1>9, <1>10, <1>11, <1>12 DEF Batches
<1> QED BY <1>1, <1>3, <1>6, <1>7, <1>8, <1>13, TailKeeps

(* jumpOutOfCurrentFunction finds the frame of its own command.            *)
LEMMA LatestFacts ==
  ASSUME Inv, Prompt, Over, todo[1].name \in {"buffToSmall", "addStub", "addMock"}
  PROVE  /\ stopFrames # << >> /\ Latest = stopFrames[Len(stopFrames)] /\ Latest # NoFrame
         /\ Latest.step = at /\ at \in 1..Len(program) /\ program \in Programs
         /\ Registers(todo[1]) => Latest.fn \in {"whenStub", "whenMock"}
<1>1. ~Continues(todo[1]) /\ ~Leaves(todo[1])
  BY NameFacts
<1>2. allFrames = stopFrames /\ at \in 1..Len(program) /\ at \in Nat /\ program \in Programs
  BY <1>1, NextFacts
<1>3. carried
  BY OverFacts
<1>4. /\ allFrames # << >> /\ latest.step = at
      /\ Registers(todo[1]) => latest.fn \in {"whenStub", "whenMock"}
  BY <1>3 DEF Inv, JumpsOut
<1>5. Latest = stopFrames[Len(stopFrames)] /\ Latest = latest
  BY <1>2, <1>4 DEF Latest, latest
<1>6. at # 0 /\ NoFrame.step = 0
  BY <1>2, ProgramLength DEF NoFrame
<1>7. Latest # NoFrame
  BY <1>4, <1>5, <1>6
<1> QED BY <1>2, <1>4, <1>5, <1>7

(* The buffer was too small: addResult is left, and what it was given is read. *)
LEMMA BuffToSmallKeeps ==
  ASSUME Inv, Prompt, BuffToSmallEnds
  PROVE  Inv'
<1>1. Over /\ todo[1].name = "buffToSmall"
  BY EndsOver DEF BuffToSmallEnds, Crash
<1>2. Latest # NoFrame
  BY <1>1, LatestFacts
<1>3. PICK next : /\ Ends("buffToSmall", next)
                  /\ next = (IF Latest.fn = "addResult" THEN <<EvaluateOp("*res")>> ELSE << >>)
                  /\ TakeLatestFrame
                  /\ UNCHANGED <<values, dumps, mode, mocks, analysed>>
  BY <1>2 DEF BuffToSmallEnds
<1>4. todo' = next \o Tail(todo) /\ UNCHANGED testNotFinYet /\ mode = "testing"
  BY <1>3, EndsOver
<1>5. /\ ~Continues(todo[1]) /\ ~Leaves(todo[1]) /\ ~Reduces(todo[1]) /\ ~Deletes(todo[1])
      /\ ~Inserts(todo[1]) /\ ~Registers(todo[1]) /\ ~Evaluates(todo[1]) /\ ~Reads(todo[1])
      /\ todo[1].name # "readDump"
  BY <1>1, NameFacts
<1>6. values' = << >> /\ dumps' = << >> /\ stopFrames' \in Seq(Frames)
  BY <1>1, <1>3, <1>5, EndValues
<1>7. mocks' \in Seq(Replacements) /\ analysed' \in Seq(Nat)
  BY <1>3 DEF Inv, Typed
<1>8. CASE next = << >>
  BY <1>1, <1>3, <1>4, <1>6, <1>8, PlainKeeps
<1>9. CASE next = <<EvaluateOp("*res")>>
  <2> DEFINE v == EvaluateOp("*res")
  <2>1. Between(v) /\ ~Reads(v) /\ ~Registers(v) /\ ~Reduces(v) /\ ~Deletes(v)
    BY ValueIs DEF Between, OnlyFirst
  <2>2. todo' = <<v>> \o Tail(todo)
    BY <1>4, <1>9
  <2> HIDE DEF v
  <2>3. todo'[1] = v => Batches'
    BY <1>1, <1>3, <1>5, <2>1, ResultsStay
  <2>4. todo'[1] = v => Registered'
    BY <1>1, <1>3, <1>5, <2>1, MocksStay
  <2>5. v # DetachBreakpoint
    BY <2>1, OwnBreakpoints DEF Between
  <2> QED BY <1>1, <1>3, <1>4, <1>5, <1>6, <1>7, <2>1, <2>2, <2>3, <2>4, <2>5, FrontKeeps DEF Between
<1> QED BY <1>3, <1>8, <1>9

(* What a mock consists of.                                                *)
LEMMA ThenIs ==
  ASSUME program \in Programs, NEW j \in 1..Len(program), Kind(j) \in {"addStub", "addMock"}
  PROVE  [when |-> program[j].fn, then |-> Then(program[j])] \in Replacements
<1>1. program[j].by \in Texts /\ program[j].fn \in Texts
  BY ProgramFacts
<1>2. PICK d \in Commands : Then(program[j]) = [do |-> d, arg |-> program[j].by]
  BY Zenon DEF Then, Command, Commands
<1> QED BY <1>1, <1>2 DEF Replacements

(* A registration is put at the end of the list.                           *)
LEMMA RegistrationAdds ==
  ASSUME program \in Programs, at \in 1..Len(program), Kind(at) \in {"addStub", "addMock"},
         UNCHANGED <<program, at>>, mocks \in Seq(Replacements), Lists(Live(at - 1)),
         mocks' = Append(mocks, [when |-> program[at].fn, then |-> Then(program[at])])
  PROVE  Lists(Live(at))'
<1> DEFINE m == [when |-> program[at].fn, then |-> Then(program[at])]
<1>1. at \in Nat /\ m \in Replacements
  BY ProgramLength, ThenIs
<1>2. PICK f \in [1..Len(mocks) -> Live(at - 1)] :
        /\ \A i \in 1..Len(mocks) :
             mocks[i] = [when |-> program[f[i]].fn, then |-> Then(program[f[i]])]
        /\ \A i, j \in 1..Len(mocks) : i < j => f[i] < f[j]
        /\ \A s \in Live(at - 1) : \E i \in 1..Len(mocks) : f[i] = s
  BY DEF Lists
<1>3. /\ Len(mocks) \in Nat /\ Len(mocks') = Len(mocks) + 1 /\ mocks'[Len(mocks) + 1] = m
      /\ \A i \in 1..Len(mocks) : mocks'[i] = mocks[i]
  BY <1>1, PutLast
<1> DEFINE g == [i \in 1..(Len(mocks) + 1) |-> IF i = Len(mocks) + 1 THEN at ELSE f[i]]
<1>4. Live(at) = Live(at - 1) \union {at}
  <2>1. \A d \in 1..at : Kind(d) = "deleteMocks" => d \in 1..(at - 1)
    <3> TAKE d \in 1..at
    <3> HAVE Kind(d) = "deleteMocks"
    <3>1. d # at
      OBVIOUS
    <3> QED BY <1>1, <3>1
  <2>2. ASSUME NEW j \in Live(at) PROVE j \in Live(at - 1) \union {at}
    <3>1. j \in 1..at /\ Kind(j) \in {"addStub", "addMock"}
          /\ \A d \in 1..at : Kind(d) = "deleteMocks" => d < j
      BY DEF Live
    <3>2. \A d \in 1..(at - 1) : d \in 1..at
      BY <1>1
    <3>3. j = at \/ j \in 1..(at - 1)
      BY <1>1, <3>1
    <3> QED BY <3>1, <3>2, <3>3 DEF Live
  <2>3. ASSUME NEW j \in Live(at - 1) PROVE j \in Live(at)
    <3>1. j \in 1..(at - 1) /\ Kind(j) \in {"addStub", "addMock"}
          /\ \A d \in 1..(at - 1) : Kind(d) = "deleteMocks" => d < j
      BY DEF Live
    <3>2. j \in 1..at
      BY <1>1, <3>1
    <3> QED BY <2>1, <3>1, <3>2 DEF Live
  <2>4. at \in Live(at)
    <3>1. \A d \in 1..(at - 1) : d < at
      BY <1>1
    <3>2. at \in 1..at
      BY <1>1
    <3> QED BY <2>1, <3>1, <3>2 DEF Live
  <2> QED BY <2>2, <2>3, <2>4
<1>5. \A s \in Live(at - 1) : s \in Nat /\ s < at
  BY <1>1 DEF Live
<1>6. Live(at)' = Live(at)
  BY DEF Live, Kind
<1>7. g \in [1..Len(mocks') -> Live(at)']
  <2>1. \A i \in 1..(Len(mocks) + 1) : g[i] \in Live(at)
    <3> TAKE i \in 1..(Len(mocks) + 1)
    <3>1. i # Len(mocks) + 1 => i \in 1..Len(mocks)
      BY <1>3
    <3> QED BY <1>4, <3>1
  <2> QED BY <1>3, <1>6, <2>1
<1>8. \A i \in 1..Len(mocks) : i \in 1..(Len(mocks) + 1) /\ i # Len(mocks) + 1
  BY <1>3
<1>9. g[Len(mocks) + 1] = at /\ \A i \in 1..Len(mocks) : g[i] = f[i]
  <2>1. Len(mocks) + 1 \in 1..(Len(mocks) + 1)
    BY <1>3
  <2> QED BY <1>8, <2>1
<1> HIDE DEF g
<1>10. PICK h : h = g
  OBVIOUS
<1>11. \A i \in 1..Len(mocks') :
         mocks'[i] = [when |-> program[h[i]].fn, then |-> Then(program[h[i]])]'
  <2> TAKE i \in 1..Len(mocks')
  <2>1. \A s : Then(program[s])' = Then(program[s])
    OBVIOUS
  <2>2. CASE i \in 1..Len(mocks)
    BY <1>2, <1>3, <1>9, <1>10, <2>1, <2>2
  <2>3. CASE i = Len(mocks) + 1
    BY <1>3, <1>9, <1>10, <2>1, <2>3
  <2> QED BY <1>3, <2>2, <2>3
<1>12. \A i, j \in 1..Len(mocks') : i < j => h[i] < h[j]
  <2> TAKE i, j \in 1..Len(mocks')
  <2> HAVE i < j
  <2>1. i \in 1..Len(mocks) /\ h[i] = f[i] /\ f[i] \in Live(at - 1)
    BY <1>2, <1>3, <1>9, <1>10
  <2>2. CASE j \in 1..Len(mocks)
    BY <1>2, <1>9, <1>10, <2>1, <2>2
  <2>3. CASE j = Len(mocks) + 1
    BY <1>5, <1>9, <1>10, <2>1, <2>3
  <2> QED BY <1>3, <2>2, <2>3
<1>13. \A s \in Live(at)' : \E i \in 1..Len(mocks') : h[i] = s
  <2> TAKE s \in Live(at)'
  <2>1. CASE s = at
    <3>1. Len(mocks) + 1 \in 1..Len(mocks')
      BY <1>3
    <3> QED BY <1>9, <1>10, <2>1, <3>1
  <2>2. CASE s \in Live(at - 1)
    <3>1. PICK i \in 1..Len(mocks) : f[i] = s
      BY <1>2, <2>2
    <3>2. i \in 1..Len(mocks')
      BY <1>3
    <3> QED BY <1>9, <1>10, <3>1, <3>2
  <2> QED BY <1>4, <1>6, <2>1, <2>2
<1>14. h \in [1..Len(mocks') -> Live(at)']
  BY <1>7, <1>10
<1> SUFFICES \E e \in [1..Len(mocks') -> Live(at)'] :
               /\ \A i \in 1..Len(mocks') :
                    mocks'[i] = [when |-> program'[e[i]].fn, then |-> Then(program'[e[i]])]
               /\ \A i, j \in 1..Len(mocks') : i < j => e[i] < e[j]
               /\ \A s \in Live(at)' : \E i \in 1..Len(mocks') : e[i] = s
  BY DEF Lists
<1> WITNESS h \in [1..Len(mocks') -> Live(at)']
<1> QED BY <1>11, <1>12, <1>13

(* A stub or a mock is registered, and its breakpoint is set next.         *)
LEMMA AddMockStubKeeps ==
  ASSUME Inv, Prompt, NEW name \in {"addStub", "addMock"}, AddMockStubEnds(name)
  PROVE  Inv'
<1>1. Over /\ todo[1].name = name
  <2>1. PICK next : Ends(name, next)
    BY DEF AddMockStubEnds, Crash
  <2> QED BY <2>1, EndsOver
<1>2. Registers(todo[1])
  BY <1>1 DEF Registers
<1>3. /\ Latest.step = at /\ at \in 1..Len(program) /\ program \in Programs
      /\ Latest.fn \in {"whenStub", "whenMock"}
  BY <1>1, <1>2, LatestFacts
<1> DEFINE fn == program[at].fn
<1> DEFINE a == InsertBreakpoint(fn)
<1> DEFINE m == [when |-> fn, then |-> Then(program[at])]
<1>4. /\ Ends(name, <<a>>) /\ mocks' = Append(mocks, m) /\ TakeLatestFrame
      /\ UNCHANGED <<values, dumps, mode, analysed>>
  BY <1>3 DEF AddMockStubEnds
<1>5. todo' = <<a>> \o Tail(todo) /\ UNCHANGED testNotFinYet /\ mode = "testing"
  BY <1>4, EndsOver
<1>6. /\ ~Continues(todo[1]) /\ ~Leaves(todo[1]) /\ ~Reduces(todo[1]) /\ ~Deletes(todo[1])
      /\ ~Inserts(todo[1]) /\ ~Evaluates(todo[1]) /\ ~Reads(todo[1])
      /\ todo[1].name # "readDump"
  BY <1>1, NameFacts
<1>7. values' = << >> /\ dumps' = << >> /\ stopFrames' \in Seq(Frames)
  BY <1>1, <1>4, <1>6, EndValues
<1>8. Kind(at) \in {"addStub", "addMock"} /\ Handling /\ ~running /\ ~NewStop
      /\ mocks \in Seq(Replacements)
  BY <1>1, <1>2, <1>6, NextFacts DEF Inv, JumpsOut, Over, Typed
<1>9. m \in Replacements /\ fn \in Texts
      /\ fn \notin {"MessageToDebugger", "detachTarget", "test"}
  BY <1>3, <1>8, ThenIs, ProgramFacts
<1>10. mocks' \in Seq(Replacements) /\ analysed' \in Seq(Nat) /\ Len(mocks) \in Nat
       /\ Len(mocks') = Len(mocks) + 1 /\ mocks'[Len(mocks) + 1] = m
       /\ \A i \in 1..Len(mocks) : mocks'[i] = mocks[i]
  BY <1>4, <1>8, <1>9, PutLast DEF Inv, Typed
<1>11. /\ a \in Ops /\ Inserts(a) /\ a.command.arg = fn /\ ~Reads(a) /\ ~Registers(a)
       /\ ~Continues(a) /\ ~Leaves(a) /\ ~Deletes(a) /\ ~Reduces(a)
  BY <1>9, InsertIs
<1>12. m.when = fn
  OBVIOUS
<1>13. UNCHANGED <<program, at, running, stops, handled, breakpoints>>
  BY <1>1 DEF Over, targetVars
<1>14. Handling' /\ ~NewStop'
  BY <1>8, <1>13 DEF Handling, NewStop
<1>15. Lists(Live(at))'
  <2>1. passed = at - 1
    BY <1>1, <1>2 DEF passed, Over
  <2>2. Kind(at) # "detachTarget"
    BY <1>8
  <2>3. Lists(Live(at - 1))
    BY <2>1, <2>2 DEF Inv, Registered
  <2> QED BY <1>3, <1>4, <1>8, <1>13, <2>3, RegistrationAdds
<1> HIDE DEF a, m, fn
<1>16. a # DetachBreakpoint /\ a # MessageBreakpoint
  <2>1. DetachBreakpoint.command.arg = "detachTarget"
        /\ MessageBreakpoint.command.arg = "MessageToDebugger"
    BY OwnBreakpoints
  <2> QED BY <1>9, <1>11, <2>1
<1>17. breakpoints = Wanted
  BY <1>1, <1>6, NoRenewal
<1>18. todo'[1] = a
  <2>1. Tail(todo) \in Seq(Ops)
    BY <1>1, <1>6, NextFacts
  <2> QED BY <1>5, <1>11, <2>1, PutFirst
<1>19. Batches'
  BY <1>1, <1>4, <1>6, <1>11, <1>18, ResultsStay
<1>20. Registered'
  <2>1. passed' = at
    BY <1>8, <1>11, <1>13, <1>14, <1>18 DEF passed
  <2>2. Live(passed)' = Live(at)'
    BY <1>13, <2>1 DEF Live, Kind
  <2>3. Lists(Live(passed))'
    BY <1>13, <1>15, <2>1 DEF Lists, Live, Kind
  <2> QED BY <2>3 DEF Registered
<1>21. Breaks'
  <2>1. Wanted' = Wanted \union {fn}
    <3>1. \A x \in Wanted' : x \in Wanted \union {fn}
      <4> TAKE x \in Wanted'
      <4>1. CASE x \in EUnitBreakpoints
        BY <4>1 DEF Wanted
      <4>2. CASE x \in {mocks'[k].when : k \in 1..Len(mocks')}
        <5>1. PICK k \in 1..Len(mocks') : x = mocks'[k].when
          BY <4>2
        <5>2. k \in 1..Len(mocks) \/ k = Len(mocks) + 1
          BY <1>10
        <5> QED BY <1>10, <1>12, <5>1, <5>2 DEF Wanted
      <4> QED BY <4>1, <4>2 DEF Wanted, EUnitBreakpoints
    <3>2. \A x \in Wanted : x \in Wanted'
      <4> TAKE x \in Wanted
      <4>1. CASE x \in EUnitBreakpoints
        BY <4>1 DEF Wanted, EUnitBreakpoints
      <4>2. CASE x \in {mocks[k].when : k \in 1..Len(mocks)}
        <5>1. PICK k \in 1..Len(mocks) : x = mocks[k].when
          BY <4>2
        <5>2. k \in 1..Len(mocks')
          BY <1>10
        <5> QED BY <1>10, <5>1, <5>2 DEF Wanted
      <4> QED BY <4>1, <4>2 DEF Wanted
    <3>3. fn \in Wanted'
      <4>1. Len(mocks) + 1 \in 1..Len(mocks')
        BY <1>10
      <4> QED BY <1>10, <1>12, <4>1 DEF Wanted
    <3> QED BY <3>1, <3>2, <3>3
  <2>2. place' = 1
    BY <1>1, OverFacts
  <2>3. (todo[place])' = a
    BY <1>18, <2>2
  <2>4. Ahead'
    <3>1. Tail(todo) \in Seq(Ops) /\ Len(todo') = Len(Tail(todo)) + 1 /\ Len(Tail(todo)) \in Nat
      <4>1. Tail(todo) \in Seq(Ops)
        BY <1>1, <1>6, NextFacts
      <4> QED BY <1>5, <1>11, <4>1, PutFirst
    <3> QED BY <2>2, <3>1 DEF Ahead
  <2> QED BY <1>11, <1>13, <1>16, <1>17, <2>1, <2>3, <2>4 DEF Breaks
<1> QED BY <1>1, <1>4, <1>5, <1>6, <1>7, <1>10, <1>11, <1>16, <1>19, <1>20, <1>21, FrontKeeps
-----------------------------------------------------------------------------
(* The theorems *)

(* The invariant holds when the run starts.                                *)
LEMMA InitInv ==
  ASSUME Init
  PROVE  Inv
<1> DEFINE c == ContinueOp(TRUE)
<1>1. /\ program \in Programs /\ at = 1 /\ ~running /\ running = FALSE /\ ~interrupted /\ cleared = FALSE
      /\ stack = <<"MessageToDebugger", "eUnitExecuteAllTests", "test">>
      /\ breakpoints = EUnitBreakpoints /\ toGdb = << >> /\ fromGdb = << >>
      /\ decoded = Nothing /\ stopFrames = << >> /\ values = << >> /\ dumps = << >>
      /\ waits = [t \in Threads |-> "no"] /\ stops = 0 /\ called = {}
      /\ mode = "testing" /\ todo = <<c>> /\ frame = NoFrame
      /\ testNotFinYet = FALSE /\ isTimeout = FALSE /\ mocks = << >> /\ handled = << >>
      /\ analysed = << >>
  BY DEF Init, SessionInit
<1>2. /\ c \in Ops /\ Continues(c) /\ OnlyFirst(c) /\ ~Inserts(c) /\ c.waitForStopped
      /\ ~Reads(c) /\ ~Registers(c) /\ ~Reduces(c) /\ ~Deletes(c)
  BY ContinueIs DEF OnlyFirst
<1> HIDE DEF c
<1>3. todo \in Seq(Ops) /\ Len(todo) = 1 /\ todo[1] = c /\ todo # << >>
  BY <1>1, <1>2
<1>4. Len(handled) = 0 /\ Len(analysed) = 0 /\ Len(mocks) = 0
  BY <1>1
<1>5. waits["main"] = "no" /\ waits["timer"] = "no"
      /\ waits \in [Threads -> {"no", "stopped", "done"}]
  BY <1>1 DEF Threads
<1>6. ~Waiting /\ ~carried /\ place = 1 /\ Ahead /\ Handling /\ ~NewStop
  <2>1. ~Waiting /\ ~carried /\ place = 1
    BY <1>5 DEF Waiting, carried, place
  <2>2. Ahead
    BY <1>3, <2>1 DEF Ahead
  <2>3. Handling /\ ~NewStop
    BY <1>1, <1>4 DEF Handling, NewStop
  <2> QED BY <2>1, <2>2, <2>3
<1>7. Kind(1) = "startTesting" /\ Len(program) \in Nat /\ Len(program) > 1
  <2>1. 1 \in 1..Len(program)
    BY <1>1, ProgramLength
  <2> QED BY <1>1, <2>1, ProgramFacts
<1>8. Typed
  <2>1. stack \in Seq(Texts)
    <3>1. /\ "MessageToDebugger" \in Texts /\ "eUnitExecuteAllTests" \in Texts /\ "test" \in Texts
      BY DEF Texts
    <3> QED BY <1>1, <3>1, Tuples
  <2>2. NoFrame \in Frames
    BY DEF NoFrame, Frames, Texts
  <2>3. decoded \in [state: {"none", "stopped", "running"}, frame: Frames]
    BY <1>1, <2>2 DEF Nothing
  <2>4. << >> \in Seq(Frames) /\ << >> \in Seq(Nat) /\ << >> \in Seq(Replacements)
        /\ << >> \in Seq(Lines)
    <3>1. ASSUME NEW S PROVE << >> \in Seq(S)
      OBVIOUS
    <3> QED BY <3>1
  <2>5. /\ handled \in Seq(Frames) /\ stopFrames \in Seq(Frames) /\ analysed \in Seq(Nat)
        /\ mocks \in Seq(Replacements) /\ fromGdb \in Seq(Lines)
    BY <1>1, <2>4
  <2>6. /\ at \in Nat /\ stops \in Nat /\ running \in BOOLEAN /\ cleared \in BOOLEAN
        /\ testNotFinYet \in BOOLEAN /\ frame \in Frames /\ ~interrupted /\ ~isTimeout
        /\ mode = "testing"
    BY <1>1, <2>2
  <2> QED BY <1>1, <1>3, <1>5, <2>1, <2>3, <2>5, <2>6 DEF Typed
<1>9. Channel
  BY <1>1, <1>6 DEF Channel, Quiet
<1>10. Data
  <2>1. Value = << >> /\ Dump = << >>
    BY <1>6 DEF Value, Dump
  <2> QED BY <1>1, <2>1 DEF Data
<1>11. Plan
  <2>1. Chain(todo)
    BY <1>1, ChainShort
  <2>2. IsLast(todo[Len(todo)])
    BY <1>1, <1>2, <1>3 DEF IsLast, NoFrame
  <2> QED BY <2>1, <2>2 DEF Plan, Chain
<1>12. HandledInOrder
  BY <1>1, <1>4 DEF HandledInOrder
<1>13. Stands
  BY <1>1, <1>4, <1>6, <1>7 DEF Stands
<1>14. GoesRound
  BY <1>1 DEF GoesRound
<1>15. InTest
  BY <1>1, <1>2, <1>3, <1>6 DEF InTest
<1>16. JumpsOut
  BY <1>2, <1>3, <1>6 DEF JumpsOut
<1>17. Batches
  BY <1>1, <1>2, <1>3, <1>4 DEF Batches, BatchesOnce
<1>18. Registered
  <2>1. passed = 1
    BY <1>1, <1>2, <1>3, <1>6 DEF passed
  <2>2. Live(1) = {}
    <3>1. \A j \in 1..1 : j = 1
      OBVIOUS
    <3> QED BY <1>7, <3>1 DEF Live
  <2> QED BY <1>1, <2>1, <2>2, NoMocks DEF Registered
<1>19. Breaks
  <2>1. Wanted = breakpoints
    BY <1>1, <1>4 DEF Wanted
  <2>2. c # DetachBreakpoint /\ c # MessageBreakpoint
    BY <1>2, OwnBreakpoints
  <2>3. todo[place] = c /\ Ahead
    BY <1>3, <1>6
  <2> QED BY <1>2, <2>1, <2>2, <2>3 DEF Breaks
<1>20. Replaced
  BY <1>1, <1>2, <1>3, <1>6, <1>7 DEF Replaced, CallsAreReplaced
<1> QED BY <1>8, <1>9, <1>10, <1>11, <1>12, <1>13, <1>14, <1>15, <1>16, <1>17, <1>18, <1>19, <1>20
        DEF Inv

(* Every operation ends as it should.                                      *)
LEMMA CommandEndKeeps ==
  ASSUME Inv, Prompt, CommandEnds
  PROVE  Inv'
<1>1. ~RescueEnds
  <2>1. ASSUME NEW name \in {"interruptTarget", "disconnect"}, Ends(name, << >>) PROVE FALSE
    <3>1. Over /\ todo[1].name = name
      BY <2>1, EndsOver
    <3>2. todo[1].name \in Names
      BY <3>1, NameFacts
    <3> QED BY <3>1, <3>2 DEF Names
  <2> QED BY <2>1 DEF RescueEnds
<1>2. CASE ExecuteEnds
  BY <1>2, ExecuteKeeps
<1>3. CASE EvaluateEnds \/ DisabledTestsEnds
  BY <1>3, EvaluateEndKeeps
<1>4. CASE ReadIndexEnds
  BY <1>4, ReadIndexKeeps
<1>5. CASE ReadDumpEnds
  BY <1>5, ReadDumpKeeps
<1>6. CASE JumpOutEnds
  BY <1>6, JumpOutKeeps
<1>7. CASE BuffToSmallEnds
  BY <1>7, BuffToSmallKeeps
<1>8. CASE AddMockStubEnds("addStub") \/ AddMockStubEnds("addMock")
  BY <1>8, AddMockStubKeeps
<1>9. CASE ReduceEnds
  BY <1>9, ReduceKeeps
<1>10. CASE ExitEnds
  BY <1>10, ExitKeeps
<1> QED BY <1>1, <1>2, <1>3, <1>4, <1>5, <1>6, <1>7, <1>8, <1>9, <1>10 DEF CommandEnds

(* The timer thread does not run; a signal may come.                       *)
Untimed == Prompt /\ ~targetTimeout

(* Every step but a signal keeps the invariant.                            *)
LEMMA StepInv ==
  ASSUME Untimed, Inv, [Next]_vars, ~Signal
  PROVE  Inv'
<1> USE DEF Untimed
<1>1. CASE UNCHANGED vars
  <2>1. UNCHANGED <<targetVars, breakpoints, toGdb, fromGdb, decoderVars, streamVars, waits,
                    stops, runVars>>
    BY <1>1 DEF vars, sessionVars
  <2>2. carried' = carried /\ allFrames' = allFrames
    BY <2>1 DEF carried, Waiting, allFrames, arriving, streamVars, decoderVars
  <2>3. ChannelOnly
    BY <2>1, <2>2 DEF ChannelOnly
  <2>4. Typed' /\ Channel' /\ Data'
    BY <2>1, <2>2
    DEF Inv, Typed, Channel, Data, Value, Dump, Quiet, Asked, Answered, Asking, Decoded, Noticed,
        Resumed, Ended, Comes, StopLine, StopFrame, Waiting, Kind, Continues, Evaluates, Start,
        targetVars, streamVars, decoderVars, runVars
  <2> QED BY <2>3, <2>4, ChannelAlone DEF Inv
<1>2. CASE Main
  <2>1. CASE TakeFrame
    BY <2>1, TakeFrameKeeps
  <2>2. CASE EndOfLoop
    BY <2>2, EndOfLoopKeeps
  <2>3. CASE MainSends
    BY <2>3, SendKeeps, ChannelAlone DEF Inv
  <2>4. CASE MainSeesStop
    BY <2>4, SeesStopKeeps, ChannelAlone DEF Inv
  <2>5. CASE CommandEnds
    BY <2>5, CommandEndKeeps
  <2> QED BY <1>2, <2>1, <2>2, <2>3, <2>4, <2>5 DEF Main
<1>3. ~Abort
  BY DEF Abort, AlarmRings, Inv, Typed
<1>4. ~Timer
  <2>1. waits["timer"] = "no"
    BY DEF Inv, Typed
  <2> QED BY <2>1 DEF Timer, TimerEnds, TimerSeesStop, SeesStop, InterruptEnds, Succeeds, Fails
<1>5. CASE Session
  <2>1. CASE Reader /\ UNCHANGED runVars
    BY <2>1, DecodeKeeps, LateStateKeeps, PushKeeps, ChannelAlone DEF Reader, Inv
  <2>2. CASE GdbStep /\ UNCHANGED runVars
    BY <2>2, GdbKeeps
  <2>3. CASE TargetStep /\ UNCHANGED runVars
    BY <2>3, TargetKeeps
  <2> QED BY <1>5, <2>1, <2>2, <2>3 DEF Session
<1> QED BY <1>1, <1>2, <1>3, <1>4, <1>5 DEF Next

(* Without signals it is every step.                                       *)
LEMMA NextInv ==
  ASSUME Undisturbed, Inv, [Next]_vars
  PROVE  Inv'
BY StepInv DEF Undisturbed, Untimed, Signal

(* The invariant holds throughout the run of every program of the target:  *)
(* with its two flags and two loops, sendCommand comes back exactly when   *)
(* the answer to its own command has been stored.                          *)
THEOREM ConversationHolds == ASSUME Undisturbed PROVE Spec => []Inv
<1>1. Init => Inv
  BY InitInv
<1>2. Inv /\ [Next]_vars => Inv'
  BY NextInv
<1> QED BY <1>1, <1>2, PTL DEF Spec

(* What the invariant says of the order of the stops and of the end.       *)
LEMMA InOrder == ASSUME Inv PROVE StopsHandledInOrder /\ EndsWithFinish
<1>1. ASSUME NEW k \in 1..Len(handled) PROVE handled[k].stop = k
  <2>1. handled[k] = StopFrame(k, handled[k].step)
    BY DEF Inv, HandledInOrder
  <2> QED BY <2>1 DEF StopFrame
<1>2. EndsWithFinish
  BY DEF Inv, HandledInOrder, EndsWithFinish
<1> QED BY <1>1, <1>2 DEF StopsHandledInOrder

(* No line on its way to the host is an error.                             *)
LEMMA NoErrors == ASSUME Inv PROVE NothingRefused
<1>1. /\ Line("^running") # Error /\ Line("*running") # Error /\ StopLine # Error
  BY DEF Line, Error, StopLine
<1>2. fromGdb = << >> \/ Answered \/ Resumed \/ Ended
  BY DEF Inv, Channel, Quiet, Asked, Decoded, Noticed
<1>3. CASE fromGdb = << >>
  BY <1>3 DEF NothingRefused
<1>4. CASE Answered
  <2>1. Len(fromGdb) = 1 /\ fromGdb[1].msg = "^done"
    BY <1>4 DEF Answered
  <2>2. fromGdb[1] # Error
    BY <2>1 DEF Error, Line
  <2> QED BY <2>1, <2>2 DEF NothingRefused
<1>5. CASE Resumed
  <2>1. PICK a, b, c : a = Line("^running") /\ b = Line("*running") /\ c = StopLine
    OBVIOUS
  <2>2. a # Error /\ b # Error /\ c # Error
    BY <1>1, <2>1
  <2>3. \/ fromGdb \in {<<a, b>>, <<b>>, << >>}
        \/ fromGdb \in {Append(<<a, b>>, c), Append(<<b>>, c), Append(<< >>, c)}
    BY <1>5, <2>1 DEF Resumed, Comes
  <2>4. fromGdb \in {<<a, b>>, <<b>>, << >>, <<a, b, c>>, <<b, c>>, <<c>>}
    BY <2>3, AppendShort
  <2> QED BY <2>2, <2>4 DEF NothingRefused
<1>6. CASE Ended
  <2>1. fromGdb \in {<< >>, <<Line("*running")>>}
    BY <1>6 DEF Ended
  <2> QED BY <1>1, <2>1 DEF NothingRefused
<1> QED BY <1>2, <1>3, <1>4, <1>5, <1>6

(* A value that is there is the one that is awaited.                       *)
LEMMA Awaited == ASSUME Inv PROVE ValuesAreAwaited
<1> SUFFICES ASSUME values # << >>
             PROVE  /\ Len(values) = 1 /\ waits["main"] = "done"
                    /\ Head(todo).command =
                         Command("-data-evaluate-expression", Head(values).of)
  BY DEF ValuesAreAwaited
<1>1. values = Value /\ Value # << >>
  BY DEF Inv, Data
<1>2. /\ carried /\ Evaluates(todo[1])
      /\ values = <<[of |-> todo[1].command.arg, positive |-> program[at].data /\ ~cleared]>>
  BY <1>1 DEF Value
<1>3. Len(values) = 1 /\ Head(values).of = todo[1].command.arg
  BY <1>2
<1>4. Waiting /\ ~Continues(todo[1]) /\ todo[1].command.do = "-data-evaluate-expression"
  BY <1>2 DEF carried, Evaluates, Continues
<1>5. todo # << >> /\ todo \in Seq(Ops)
  BY <1>4 DEF Inv, Typed, Channel, Quiet, Asked, Asking, Answered, Decoded, Noticed, Resumed, Ended
<1>6. Head(todo) = todo[1] /\ todo[1] \in Ops
  BY <1>5, TailOf
<1>7. ~todo[1].waitForStopped
  BY <1>2, <1>6 DEF Ops, Shape
<1>8. waits["main"] = "done"
  BY <1>2, <1>4, <1>7
  DEF Inv, Channel, Quiet, Asked, Asking, Answered, Decoded, Noticed, Resumed, Ended, Start
<1>9. Head(todo).command = Command("-data-evaluate-expression", todo[1].command.arg)
  <2>1. todo[1].command \in [do: Commands, arg: Texts]
    BY <1>6 DEF Ops
  <2> QED BY <1>4, <1>6, <2>1 DEF Command
<1> QED BY <1>3, <1>8, <1>9

(* A batch that is not analysed yet is the one that is being read.         *)
LEMMA BatchesFollow == ASSUME Inv PROVE BatchesAnalysed
BY DEF Inv, Batches, BatchesAnalysed, BatchesOnce

(* executeAllTest handles every stop of the target once and in the order   *)
(* of the stops, although getLatestStopFrame takes the last frame there is *)
(* and every -exec-return adds one that is no stop.                        *)
THEOREM TakesEveryStop == ASSUME Undisturbed PROVE Spec => []StopsHandledInOrder
<1>1. Inv => StopsHandledInOrder
  BY InOrder
<1> QED BY <1>1, ConversationHolds, PTL

(* The loop of executeAllTest ends with the message finishAllTest only,    *)
(* whatever testNotFinYet was set to on the way.                           *)
THEOREM EndsWell == ASSUME Undisturbed PROVE Spec => []EndsWithFinish
<1>1. Inv => EndsWithFinish
  BY InOrder
<1> QED BY <1>1, ConversationHolds, PTL

(* gdb refuses no command, since none reaches it while the target runs.    *)
THEOREM NeverTooEarly == ASSUME Undisturbed PROVE Spec => []NothingRefused
<1>1. Inv => NothingRefused
  BY NoErrors
<1> QED BY <1>1, ConversationHolds, PTL

(* The queue of values, which outlives every command, holds nothing but    *)
(* the value of the expression the main thread is waiting for.             *)
THEOREM TakesItsValue == ASSUME Undisturbed PROVE Spec => []ValuesAreAwaited
<1>1. Inv => ValuesAreAwaited
  BY Awaited
<1> QED BY <1>1, ConversationHolds, PTL

(* The buffer of every message that reports one is analysed, once and in   *)
(* the order of the messages, before the loop takes the next frame.        *)
THEOREM NoBatchIsLost == ASSUME Undisturbed PROVE Spec => []BatchesAnalysed
<1>1. Inv => BatchesAnalysed
  BY BatchesFollow
<1> QED BY <1>1, ConversationHolds, PTL

(* No buffer is analysed twice or out of order. *)
THEOREM NoBatchTwice == ASSUME Undisturbed PROVE Spec => []BatchesOnce
<1>1. Inv => BatchesOnce
  BY DEF Inv, Batches
<1> QED BY <1>1, ConversationHolds, PTL

(* A call executes the first replacement that was added for its function   *)
(* after the last deleteAllMocks, or the function itself: the list of      *)
(* mocks, the breakpoints in gdb and the handling of a stop agree.         *)
THEOREM ReplacesCalls == ASSUME Undisturbed PROVE Spec => []CallsAreReplaced
<1>1. Inv => CallsAreReplaced
  BY DEF Inv, Replaced
<1> QED BY <1>1, ConversationHolds, PTL

(* buffToSmall and addStub find the frame of their own -exec-return, which *)
(* they use without a test for nullptr.                                    *)
THEOREM FindsItsFrames == ASSUME Undisturbed PROVE Spec => []NeverCrashes
<1>1. Inv => NeverCrashes
  BY DEF Inv, Typed, NeverCrashes
<1> QED BY <1>1, ConversationHolds, PTL

-----------------------------------------------------------------------------
(* A signal.  Up to it the conversation is what it is without; modeFailed  *)
(* then meets whatever the loop has left in the channel.                   *)

(* Every message up to where the target stands has been taken.             *)
MessagesTaken ==
  \A k \in 1..Len(program) :
    Kind(k) \in Messages /\ (k < at \/ (k = at /\ Handling)) =>
      \E j \in 1..Len(handled) : handled[j].step = k

(* What modeFailed sends. *)
InterruptCommand == Command("interrupt", "")
InterruptOp == Op("interruptTarget", InterruptCommand, TRUE)
DisconnectOp == Op("disconnect", Command("set", "-target-disconnect"), FALSE)
RescueOps == {InterruptOp, DisconnectOp, Execute("-break-delete", ""), DetachBreakpoint,
              MessageBreakpoint, Execute("set", "breaksMode"), ReadIndex, ReadDump}
Interrupting == todo # << >> /\ todo[1] = InterruptOp

(* Are the results still to be read? *)
ReadsOn == \E i \in 1..Len(todo) : Reads(todo[i])

RescuePlan ==
  /\ todo \in Seq(RescueOps)
  /\ mode \in {"aborting", "rescued", "exited"} /\ (mode = "rescued" => todo = << >>)
  /\ \A i \in 1..Len(todo) : /\ todo[i] = InterruptOp => i = 1
                             /\ todo[i] = DisconnectOp => i = Len(todo)
  /\ \A i, j \in 1..Len(todo) : Reads(todo[i]) /\ Reads(todo[j]) => i = j
  /\ Interrupting => ReadsOn

(* Nothing of the step the target is in has been read yet.                 *)
Unread ==
  at <= Len(program) /\ Reports(at) /\ \A i \in 1..Len(analysed) : analysed[i] # at

(* What gdb has answered, or will: it tells of where the target stands,    *)
(* and of nothing but the index as long as the results are unread.         *)
ValuesHere ==
  {v \in Values : IF v.of = "test_result_index"
                  THEN v.positive <=> program[at].data /\ ~cleared ELSE ~Unread}
LinesWith(vs, ds) ==
  [msg: {"^running", "*running", "^done", "*stopped"}, frame: Frames, values: vs, dumps: ds]
LinesHere == LinesWith(Seq(ValuesHere), Seq({at}))
Clean == values = << >> /\ dumps = << >> /\ fromGdb \in Seq(LinesWith({<< >>}, {<< >>}))

RescueTyped ==
  /\ program \in Programs /\ at \in 1..(Len(program) + 1) /\ stops \in Nat
  /\ running \in BOOLEAN /\ cleared \in BOOLEAN
  /\ stack \in Seq(Texts) /\ (~running => stack # << >> /\ at <= Len(program))
  /\ waits \in [Threads -> {"no", "stopped", "done"}] /\ waits["timer"] = "no"
  /\ values \in Seq(ValuesHere) /\ dumps \in Seq({at}) /\ fromGdb \in Seq(LinesHere)
  /\ Waiting => lastCommand # "error"

(* The command the loop had sent when the signal came.                     *)
OldCommands == [do: Commands, arg: Texts]
Old(c) ==
  /\ c \in OldCommands /\ ~running /\ Clean
  /\ c.do = "-exec-continue" =>
       /\ "MessageToDebugger" \in breakpoints
       /\ stack # <<"test", "group">> /\ stack # <<"group">>
  /\ Unread =>
       /\ c.do # "-exec-continue"
       /\ c.do = "set" => c.arg # "test_result_index"
       /\ c.do = "-data-evaluate-expression" => c.arg = "test_result_index"

(* The interrupt is not sent, or on its way behind that command, or gdb    *)
(* has carried it out.                                                     *)
BeforeInterrupt ==
  /\ ~Waiting /\ ~interrupted
  /\ toGdb # << >> => toGdb = <<toGdb[1]>> /\ Old(toGdb[1])
InterruptSent ==
  /\ Waiting /\ ~interrupted /\ toGdb # << >>
  /\ toGdb # <<InterruptCommand>> => toGdb = <<toGdb[1], InterruptCommand>> /\ Old(toGdb[1])
AfterInterrupt == Waiting /\ toGdb = << >> /\ (interrupted <=> running)

(* Afterwards there is a command and its answer at a time.                 *)
Resting == ~Waiting /\ toGdb = << >> /\ fromGdb = << >>
Sent ==
  /\ Waiting /\ todo # << >> /\ toGdb = <<todo[1].command>> /\ fromGdb = << >>
  /\ lastCommand = "waitForResult"
Returned ==
  /\ Waiting /\ todo # << >> /\ toGdb = << >> /\ Len(fromGdb) = 1
  /\ lastCommand = "waitForResult"
  /\ todo[1] = ReadIndex => fromGdb[1].values # << >>
  /\ todo[1] = ReadDump => fromGdb[1].dumps # << >>
Arrived ==
  /\ Waiting /\ todo # << >> /\ toGdb = << >> /\ fromGdb = << >>
  /\ todo[1] = ReadIndex => values # << >>
  /\ todo[1] = ReadDump => dumps # << >>

RescueChannel ==
  IF Interrupting
  THEN /\ BeforeInterrupt \/ InterruptSent \/ AfterInterrupt
       /\ running => Clean /\ ~cleared /\ "MessageToDebugger" \in breakpoints
  ELSE ~running /\ ~interrupted /\ (Resting \/ Sent \/ Returned \/ Arrived)

(* What has been read, and what is still to be.                            *)
Increasing(s) == \A i, j \in 1..Len(s) : i < j => s[i] < s[j]
RescueResults ==
  /\ analysed \in Seq(Nat)
  /\ \A k \in 1..Len(program) :
       Reports(k) /\ k < at => \E i \in 1..Len(analysed) : analysed[i] = k
  /\ OnlyLastTwice
  /\ ReadsOn =>
       Increasing(analysed) /\ \A i \in 1..Len(analysed) : analysed[i] <= at
  /\ Unread => ~cleared /\ ReadsOn

Rescue == RescuePlan /\ RescueTyped /\ RescueChannel /\ RescueResults

-----------------------------------------------------------------------------
(* Every message is taken.                                                 *)

(* The host leaves the target where it is. *)
LEMMA HostTakesNone ==
  ASSUME MessagesTaken, UNCHANGED <<program, at, running, stops, handled>>
  PROVE  MessagesTaken'
BY DEF MessagesTaken, Handling, Kind

(* Inside a test the target goes on with the next step.                    *)
LEMMA OutermostTest ==
  ASSUME NEW s \in Seq(Texts), Len(s) > 0, s[Len(s)] = "test"
  PROVE  s # <<"test", "group">> /\ s # <<"group">>
OBVIOUS

(* Every step but a signal keeps that every message is taken.              *)
LEMMA TakenKeeps ==
  ASSUME Untimed, Inv, Inv', MessagesTaken, [Next]_vars, ~Signal
  PROVE  MessagesTaken'
<1> USE DEF Untimed
<1>1. CASE UNCHANGED vars
  BY <1>1, HostTakesNone DEF vars, sessionVars, targetVars, runVars
<1>2. CASE TakeFrame
  <2>1. /\ UNCHANGED <<program, at, running, stops>> /\ mode' = "testing"
        /\ handled' = Append(handled, frame')
    BY <1>2 DEF TakeFrame, targetVars
  <2>2. /\ handled' # << >> /\ Len(handled) \in Nat /\ Len(handled') = Len(handled) + 1
        /\ handled'[Len(handled')] = frame' /\ Len(handled') \in 1..Len(handled')
        /\ \A i \in 1..Len(handled) : handled'[i] = handled[i] /\ i \in 1..Len(handled')
    <3>1. handled \in Seq(Frames) /\ frame' \in Frames
      BY DEF Inv, Typed
    <3> QED BY <2>1, <3>1, PutLast
  <2>3. Handling' => frame'.step = at
    BY <2>1, <2>2 DEF Inv, Stands
  <2> SUFFICES ASSUME NEW k \in 1..Len(program), Kind(k) \in Messages,
                      k < at \/ (k = at /\ Handling')
               PROVE  \E j \in 1..Len(handled') : handled'[j].step = k
    BY <2>1 DEF MessagesTaken, Kind
  <2>4. CASE k < at
    <3>1. PICK j \in 1..Len(handled) : handled[j].step = k
      BY <2>4 DEF MessagesTaken
    <3> QED BY <2>2, <3>1
  <2>5. CASE k = at /\ Handling'
    BY <2>2, <2>3, <2>5
  <2> QED BY <2>4, <2>5
<1>3. CASE EndOfLoop \/ MainSends \/ MainSeesStop \/ CommandEnds
  <2>1. CASE EndOfLoop
    BY <2>1, HostTakesNone DEF EndOfLoop, sessionVars, targetVars
  <2>2. CASE MainSends
    BY <2>2, HostTakesNone DEF MainSends, targetVars, runVars
  <2>3. CASE MainSeesStop
    BY <2>3, HostTakesNone DEF MainSeesStop, SeesStop, targetVars, runVars
  <2>4. CASE CommandEnds
    <3>1. \A name, next : Ends(name, next) => UNCHANGED <<program, at, running, stops, handled>>
      BY DEF Ends, targetVars
    <3>2. ReduceEnds => UNCHANGED <<program, at, running, stops, handled>>
      BY DEF ReduceEnds, targetVars
    <3>3. UNCHANGED <<program, at, running, stops, handled>>
      BY <2>4, <3>1, <3>2
      DEF CommandEnds, ExecuteEnds, EvaluateEnds, DisabledTestsEnds, ReadIndexEnds, ReadDumpEnds,
          JumpOutEnds, BuffToSmallEnds, AddMockStubEnds, Crash, ExitEnds, RescueEnds
    <3> QED BY <3>3, HostTakesNone
  <2> QED BY <1>3, <2>1, <2>2, <2>3, <2>4
<1>4. ~Abort
  BY DEF Abort, AlarmRings, Inv, Typed
<1>5. ~Timer
  <2>1. waits["timer"] = "no"
    BY DEF Inv, Typed
  <2> QED BY <2>1 DEF Timer, TimerEnds, TimerSeesStop, SeesStop, InterruptEnds, Succeeds, Fails
<1>6. CASE Reader /\ UNCHANGED runVars
  BY <1>6, HostTakesNone DEF Reader, DecodeLine, SetLateState, PushFrame, targetVars, runVars
<1>7. CASE GdbStep /\ UNCHANGED runVars
  <2>1. /\ Asked /\ Handling /\ todo # << >> /\ Head(toGdb) = todo[1].command
        /\ UNCHANGED <<stops, handled>> /\ ~running
    BY <1>7, GdbReads DEF runVars, Handling
  <2>2. CASE Continue
    <3>1. /\ stack # <<"test", "group">> /\ stack # <<"group">>
      <4>1. stack \in Seq(Texts) /\ Len(stack) > 0 /\ stack[Len(stack)] = "test"
        BY <2>1, StackStands
      <4> QED BY <4>1, OutermostTest
    <3>2. running' = TRUE /\ at' = at + 1 /\ program' = program
      <4>1. GoesOn = {at + 1}
        BY <3>1 DEF GoesOn
      <4> QED BY <2>2, <4>1 DEF Continue
    <3>3. ~Handling' /\ at \in Nat
      BY <3>2 DEF Handling, Inv, Typed
    <3>4. \A k \in 1..Len(program) : k < at + 1 => k < at \/ (k = at /\ Handling)
      BY <2>1, <3>3
    <3> QED BY <2>1, <3>2, <3>3, <3>4 DEF MessagesTaken, Kind
  <2>3. CASE ~Continue
    <3>1. Head(toGdb).do # "interrupt"
      <4>1. todo[1].command.do \in Commands
        BY <2>1, PlanFacts, OpFacts DEF Inv
      <4> QED BY <2>1, <4>1 DEF Commands
    <3>2. UNCHANGED <<program, at, running>>
      BY <1>7, <2>3, <3>1
      DEF GdbStep, Refuse, ExecReturn, SetProgramCounter, Evaluate, ReadMemory, SetBreakpoints,
          SetVariable, targetVars
    <3> QED BY <2>1, <3>2, HostTakesNone
  <2> QED BY <2>2, <2>3
<1>8. CASE TargetStep /\ UNCHANGED runVars
  <2>1. /\ running /\ at <= Len(program) /\ ~interrupted /\ handled' = handled
        /\ breakpoints = Wanted /\ at \in 1..Len(program) /\ at \in Nat /\ ~Handling
        /\ program \in Programs /\ stops = Len(handled) /\ stops \in Nat
    BY <1>8, RunningFacts DEF TargetStep, runVars, Inv, Typed
  <2>2. CASE \E functions : Stops(functions)
    <3>1. UNCHANGED <<program, at>> /\ stops' = stops + 1
      BY <2>2 DEF Stops
    <3>2. ~Handling'
      BY <2>1, <3>1 DEF Handling
    <3> QED BY <2>1, <3>1, <3>2 DEF MessagesTaken, Kind
  <2>3. CASE Proceeds /\ (Head(StackIn(program[at])) \notin breakpoints \/ Kind(at) = "slow")
    <3>1. at' = at + 1 /\ UNCHANGED <<program, running>>
      BY <2>3 DEF Proceeds
    <3>2. ~Handling'
      BY <2>1, <3>1 DEF Handling
    <3>3. Kind(at) \notin Messages
      <4> SUFFICES ASSUME Kind(at) \in Messages PROVE FALSE
        OBVIOUS
      <4>1. StackIn(program[at]) = <<"MessageToDebugger", Caller(program[at]), "test">>
        BY <2>1, StackFacts
      <4>2. Head(StackIn(program[at])) \in breakpoints
        BY <2>1, <4>1 DEF Wanted, EUnitBreakpoints
      <4> QED BY <2>3, <4>2 DEF Messages
    <3>4. \A k \in 1..Len(program) : k < at + 1 => k < at \/ k = at
      BY <2>1
    <3> QED BY <2>1, <3>1, <3>2, <3>3, <3>4 DEF MessagesTaken, Kind
  <2> QED BY <1>8, <2>1, <2>2, <2>3 DEF TargetStep, Kind
<1> QED BY <1>1, <1>2, <1>3, <1>4, <1>5, <1>6, <1>7, <1>8 DEF Next, Main, Session

(* At the start there is none. *)
LEMMA NoneTaken ==
  ASSUME Init
  PROVE  MessagesTaken
<1>1. at = 1 /\ program \in Programs
  BY DEF Init, SessionInit
<1>2. Kind(1) = "startTesting" /\ Len(program) > 1 /\ Len(program) \in Nat
  <2>1. Len(program) > 1 /\ Len(program) \in Nat
    BY <1>1, ProgramLength
  <2>2. 1 \in 1..Len(program)
    BY <2>1
  <2>3. \A k \in 1..Len(program) : Kind(k) = "startTesting" <=> k = 1
    BY <1>1, ProgramFacts
  <2> QED BY <2>1, <2>2, <2>3
<1> QED BY <1>1, <1>2 DEF MessagesTaken, Messages

-----------------------------------------------------------------------------
(* What modeFailed does *)

(* A sequence of some kind, from its elements.                             *)
LEMMA SeqOf ==
  ASSUME NEW S, NEW T, NEW s \in Seq(S), \A i \in 1..Len(s) : s[i] \in T
  PROVE  s \in Seq(T)
<1>1. s = [i \in 1..Len(s) |-> s[i]] /\ Len(s) \in Nat
  BY LenProperties
<1>2. \A n \in Nat : \A f \in [1..n -> T] : f \in Seq(T)
  BY SeqDef
<1> QED BY <1>1, <1>2

(* One in front of three. *)
LEMMA ConcatFour ==
  ASSUME NEW a, NEW b, NEW c, NEW d
  PROVE  <<a>> \o <<b, c, d>> = <<a, b, c, d>>
<1> DEFINE S == {a, b, c, d}
           t == <<a>> \o <<b, c, d>>
<1>1. a \in S /\ <<b, c, d>> \in Seq(S) /\ <<a, b, c, d>> \in Seq(S)
  OBVIOUS
<1> HIDE DEF S
<1>2. /\ t \in Seq(S) /\ Len(t) = 4 /\ t[1] = a
      /\ \A i \in 1..3 : t[i + 1] = <<b, c, d>>[i]
  BY <1>1, PutFirst
<1> HIDE DEF t
<1>3. t[1] = a /\ t[1 + 1] = b /\ t[2 + 1] = c /\ t[3 + 1] = d
  BY <1>2
<1>4. \A i \in 1..Len(t) : t[i] = <<a, b, c, d>>[i]
  <2>1. \A i \in 1..Len(t) : i = 1 \/ i = 2 \/ i = 3 \/ i = 4
    BY <1>2
  <2> QED BY <1>3, <2>1
<1>5. t = <<a, b, c, d>>
  BY <1>1, <1>2, <1>4, SeqEqual
<1> QED BY <1>5 DEF t

(* Four in front of three. *)
LEMMA ConcatSeven ==
  ASSUME NEW a, NEW b, NEW c, NEW d, NEW e, NEW g, NEW h
  PROVE  <<a, b, c, d>> \o <<e, g, h>> = <<a, b, c, d, e, g, h>>
<1> DEFINE S == {a, b, c, d, e, g, h}
           t == <<a, b, c, d>> \o <<e, g, h>>
<1>1. /\ <<a, b, c, d>> \in Seq(S) /\ <<e, g, h>> \in Seq(S)
      /\ <<a, b, c, d, e, g, h>> \in Seq(S)
  OBVIOUS
<1> HIDE DEF S
<1>2. /\ t \in Seq(S) /\ Len(t) = Len(<<a, b, c, d>>) + Len(<<e, g, h>>)
      /\ \A i \in 1..(Len(<<a, b, c, d>>) + Len(<<e, g, h>>)) :
           t[i] = IF i <= Len(<<a, b, c, d>>) THEN <<a, b, c, d>>[i]
                  ELSE <<e, g, h>>[i - Len(<<a, b, c, d>>)]
  BY <1>1, ConcatProperties
<1> HIDE DEF t
<1>3. Len(t) = 7 /\ \A i \in 1..7 : t[i] = IF i <= 4 THEN <<a, b, c, d>>[i] ELSE <<e, g, h>>[i - 4]
  BY <1>2
<1>4. t[1] = a /\ t[2] = b /\ t[3] = c /\ t[4] = d /\ t[5] = e /\ t[6] = g /\ t[7] = h
  BY <1>3
<1>5. \A i \in 1..Len(t) : t[i] = <<a, b, c, d, e, g, h>>[i]
  <2>1. \A i \in 1..Len(t) : i = 1 \/ i = 2 \/ i = 3 \/ i = 4 \/ i = 5 \/ i = 6 \/ i = 7
    BY <1>3
  <2> QED BY <1>4, <2>1
<1>6. t = <<a, b, c, d, e, g, h>>
  BY <1>1, <1>2, <1>3, <1>5, SeqEqual
<1> QED BY <1>6 DEF t

(* Each operation, by its name and its command. *)
LEMMA RescueOpIs ==
  ASSUME NEW op \in RescueOps
  PROVE  /\ op.name \in {"interruptTarget", "disconnect", "readIndex", "readDump", "execute"}
         /\ op.name = "interruptTarget" <=> op = InterruptOp
         /\ op.name = "disconnect" <=> op = DisconnectOp
         /\ op.name = "readIndex" <=> op = ReadIndex
         /\ op.name = "readDump" <=> op = ReadDump
         /\ Reads(op) <=> op \in {ReadIndex, ReadDump}
         /\ op.command.do \in {"interrupt", "set", "-break-delete", "-break-insert",
                               "-data-evaluate-expression", "-data-read-memory-bytes"}
         /\ op.command.do = "interrupt" <=> op = InterruptOp
         /\ op.command.do = "-data-evaluate-expression" <=> op = ReadIndex
         /\ op.command.do = "-data-read-memory-bytes" <=> op = ReadDump
         /\ op.command.do = "set" => op.command.arg # "test_result_index"
         /\ op = ReadIndex => op.command.arg = "test_result_index"
<1>1. /\ InterruptOp.name = "interruptTarget" /\ InterruptOp.command.do = "interrupt"
      /\ DisconnectOp.name = "disconnect" /\ DisconnectOp.command.do = "set"
      /\ ReadIndex.name = "readIndex" /\ ReadIndex.command.do = "-data-evaluate-expression"
      /\ ReadDump.name = "readDump" /\ ReadDump.command.do = "-data-read-memory-bytes"
      /\ DisconnectOp.command.arg = "-target-disconnect"
      /\ ReadIndex.command.arg = "test_result_index"
  BY DEF InterruptOp, InterruptCommand, DisconnectOp, ReadIndex, ReadDump, Op, Command
<1>2. /\ Execute("-break-delete", "").name = "execute"
      /\ Execute("-break-delete", "").command.do = "-break-delete"
      /\ Execute("set", "breaksMode").name = "execute"
      /\ Execute("set", "breaksMode").command.do = "set"
      /\ Execute("set", "breaksMode").command.arg = "breaksMode"
  BY DEF Execute, Op, Command
<1>3. /\ DetachBreakpoint.name = "execute" /\ DetachBreakpoint.command.do = "-break-insert"
      /\ MessageBreakpoint.name = "execute" /\ MessageBreakpoint.command.do = "-break-insert"
  BY DEF DetachBreakpoint, MessageBreakpoint, InsertBreakpoint, Execute, Op, Command
<1>4. op \in {InterruptOp, DisconnectOp, Execute("-break-delete", ""), DetachBreakpoint,
             MessageBreakpoint, Execute("set", "breaksMode"), ReadIndex, ReadDump}
  BY DEF RescueOps
<1>5. CASE op \in {InterruptOp, DisconnectOp, ReadIndex, ReadDump}
  BY <1>1, <1>5 DEF Reads
<1>6. CASE op \in {Execute("-break-delete", ""), DetachBreakpoint,
                  MessageBreakpoint, Execute("set", "breaksMode")}
  BY <1>1, <1>2, <1>3, <1>6 DEF Reads
<1> QED BY <1>4, <1>5, <1>6

(* The list modeFailed works off. *)
RescueList(list) ==
  /\ list \in Seq(RescueOps) /\ list # << >> /\ list[1] = InterruptOp
  /\ \A i \in 1..Len(list) : /\ list[i] = InterruptOp => i = 1
                             /\ list[i] = DisconnectOp => i = Len(list)
  /\ \A i, j \in 1..Len(list) : Reads(list[i]) /\ Reads(list[j]) => i = j
  /\ \E i \in 1..Len(list) : Reads(list[i])

(* It is one: the interrupt first, the results once, the end last. *)
LEMMA ModeFailedIs == RescueList(modeFailed)
<1> DEFINE i == InterruptOp
           d == Execute("-break-delete", "")
           b == DetachBreakpoint
           m == MessageBreakpoint
           s == Execute("set", "breaksMode")
           r == ReadIndex
           x == DisconnectOp
<1>1. /\ i \in RescueOps /\ d \in RescueOps /\ b \in RescueOps /\ m \in RescueOps
      /\ s \in RescueOps /\ r \in RescueOps /\ x \in RescueOps
  BY DEF RescueOps
<1>2. /\ d.name = "execute" /\ b.name = "execute" /\ m.name = "execute" /\ s.name = "execute"
      /\ i.name = "interruptTarget" /\ r.name = "readIndex" /\ x.name = "disconnect"
  BY DEF Execute, DetachBreakpoint, MessageBreakpoint, InsertBreakpoint, Op, InterruptOp,
         ReadIndex, DisconnectOp
<1>3. modeFailed = <<i>> \o deleteAllDependencies \o <<s, r, x>>
  BY DEF modeFailed, InterruptOp, InterruptCommand, DisconnectOp
<1>4. deleteAllDependencies \in {<< >>, <<d>> \o <<b, m>>}
  BY DEF deleteAllDependencies, renewEUnitBreakpoints, DetachBreakpoint, MessageBreakpoint
<1> HIDE DEF i, d, b, m, s, r, x
<1>5. <<d>> \o <<b, m>> = <<d, b, m>>
  BY ConcatShort
<1>6. modeFailed \in {<<i, s, r, x>>, <<i, d, b, m, s, r, x>>}
  <2>1. CASE deleteAllDependencies = << >>
    <3>1. <<i>> \o << >> = <<i>>
      OBVIOUS
    <3> QED BY <1>3, <2>1, <3>1, ConcatFour
  <2>2. CASE deleteAllDependencies = <<d, b, m>>
    <3>1. <<i>> \o <<d, b, m>> = <<i, d, b, m>>
      BY ConcatFour
    <3>2. <<i, d, b, m>> \o <<s, r, x>> = <<i, d, b, m, s, r, x>>
      BY ConcatSeven
    <3> QED BY <1>3, <2>2, <3>1, <3>2
  <2> QED BY <1>4, <1>5, <2>1, <2>2
<1>7. /\ \A op \in RescueOps : (op = InterruptOp <=> op.name = "interruptTarget")
                                /\ (op = DisconnectOp <=> op.name = "disconnect")
                                /\ (Reads(op) <=> op.name \in {"readIndex", "readDump"})
  BY RescueOpIs DEF Reads
<1>8. CASE modeFailed = <<i, s, r, x>>
  <2> DEFINE L == <<i, s, r, x>>
  <2>1. L \in Seq(RescueOps) /\ Len(L) = 4 /\ L # << >>
    BY <1>1
  <2>2. L[1] = i /\ L[2] = s /\ L[3] = r /\ L[4] = x
    OBVIOUS
  <2> HIDE DEF L
  <2>3. \A k \in 1..Len(L) : k = 1 \/ k = 2 \/ k = 3 \/ k = 4
    BY <2>1
  <2>4. \A k \in 1..Len(L) : /\ L[k] = InterruptOp => k = 1
                             /\ L[k] = DisconnectOp => k = Len(L)
                             /\ Reads(L[k]) => k = 3
    BY <1>1, <1>2, <1>7, <2>1, <2>2, <2>3
  <2>5. 3 \in 1..Len(L) /\ Reads(L[3]) /\ L[1] = InterruptOp
    BY <1>1, <1>2, <1>7, <2>1, <2>2
  <2>6. RescueList(L)
    BY <2>1, <2>4, <2>5 DEF RescueList
  <2> QED BY <1>8, <2>6 DEF L
<1>9. CASE modeFailed = <<i, d, b, m, s, r, x>>
  <2> DEFINE L == <<i, d, b, m, s, r, x>>
  <2>1. L \in Seq(RescueOps) /\ Len(L) = 7 /\ L # << >>
    BY <1>1
  <2>2. L[1] = i /\ L[2] = d /\ L[3] = b /\ L[4] = m /\ L[5] = s /\ L[6] = r /\ L[7] = x
    OBVIOUS
  <2> HIDE DEF L
  <2>3. \A k \in 1..Len(L) : k = 1 \/ k = 2 \/ k = 3 \/ k = 4 \/ k = 5 \/ k = 6 \/ k = 7
    BY <2>1
  <2>4. \A k \in 1..Len(L) : /\ L[k] = InterruptOp => k = 1
                             /\ L[k] = DisconnectOp => k = Len(L)
                             /\ Reads(L[k]) => k = 6
    BY <1>1, <1>2, <1>7, <2>1, <2>2, <2>3
  <2>5. 6 \in 1..Len(L) /\ Reads(L[6]) /\ L[1] = InterruptOp
    BY <1>1, <1>2, <1>7, <2>1, <2>2
  <2>6. RescueList(L)
    BY <2>1, <2>4, <2>5 DEF RescueList
  <2> QED BY <1>9, <2>6 DEF L
<1> QED BY <1>6, <1>8, <1>9

-----------------------------------------------------------------------------
(* A signal comes. *)

(* A message the loop has taken is a batch where it reports one.           *)
LEMMA TakenIsBatch ==
  ASSUME Inv, NEW j \in 1..Len(handled), Reports(handled[j].step)
  PROVE  \/ \E i \in 1..Len(analysed) : analysed[i] = handled[j].step
         \/ j = Len(handled) /\ todo # << >> /\ Reads(todo[1])
<1>1. /\ handled[j] = StopFrame(j, handled[j].step) /\ handled[j].step \in 1..Len(program)
      /\ program \in Programs
  BY DEF Inv, Typed, HandledInOrder
<1>2. Kind(handled[j].step) \in Messages
  BY DEF Reports, Kind, Messages
<1>3. handled[j].fn = "MessageToDebugger"
  <2>1. handled[j].fn = Head(StackIn(program[handled[j].step]))
    BY <1>1 DEF StopFrame
  <2>2. StackIn(program[handled[j].step])
          = <<"MessageToDebugger", Caller(program[handled[j].step]), "test">>
    BY <1>1, <1>2, StackFacts
  <2> QED BY <2>1, <2>2
<1>4. HasBatch(handled[j])
  BY <1>3 DEF HasBatch
<1> QED BY <1>4 DEF Inv, Batches

(* While the loop handles the stop and reads no results, they are read.    *)
LEMMA HandledIsRead ==
  ASSUME Inv, MessagesTaken, Handling, ~(todo # << >> /\ Reads(todo[1]))
  PROVE  ~Unread
<1> SUFFICES ASSUME Unread PROVE FALSE
  OBVIOUS
<1>1. at \in 1..Len(program) /\ Reports(at) /\ Kind(at) \in Messages
  <2>1. at \in 1..Len(program)
    BY StandsIn DEF Handling
  <2> QED BY <2>1 DEF Unread, Reports, Kind, Messages
<1>2. PICK j \in 1..Len(handled) : handled[j].step = at
  BY <1>1 DEF MessagesTaken
<1>3. \E i \in 1..Len(analysed) : analysed[i] = at
  BY <1>1, <1>2, TakenIsBatch
<1> QED BY <1>3 DEF Unread

(* The data under way is of where the target stands, and there is none     *)
(* while it runs or gdb has still to read a command.                       *)
LEMMA DataHere ==
  ASSUME Inv, MessagesTaken
  PROVE  /\ values \in Seq(ValuesHere) /\ dumps \in Seq({at}) /\ fromGdb \in Seq(LinesHere)
         /\ running \/ toGdb # << >> => Clean
<1> USE DEF Inv
<1>1. fromGdb \in Seq(Lines) /\ \A k \in 1..Len(fromGdb) : fromGdb[k] \in Lines
  <2>1. fromGdb \in Seq(Lines)
    BY DEF Typed
  <2> QED BY <2>1, ElementOfSeq
<1>2. ASSUME carried, Evaluates(todo[1]) \/ todo[1].name = "readDump"
      PROVE  /\ ~running /\ at \in 1..Len(program) /\ todo[1] \in Ops /\ program \in Programs
             /\ Evaluates(todo[1]) /\ todo[1].command.arg # "test_result_index" => ~Unread
  <2>1. todo # << >>
    BY <1>2 DEF carried, Waiting, Channel, Quiet, Asked, Asking, Answered, Decoded, Noticed,
                Resumed, Ended
  <2>2. todo[1] \in Ops /\ Shape(todo[1])
    BY <2>1, PlanFacts
  <2>3. ~Continues(todo[1])
    BY <1>2, <2>2 DEF Shape, Evaluates, Continues
  <2>4. ~running
    BY <1>2, <2>3 DEF carried, Waiting, Channel, Quiet, Asked, Answered, Decoded, Noticed,
                      Resumed, Ended
  <2>5. Evaluates(todo[1]) /\ todo[1].command.arg # "test_result_index" => ~Reads(todo[1])
    BY <2>2 DEF Shape, Reads, Evaluates
  <2>6. Handling
    BY <2>1, <2>3, <2>4, StandsStill
  <2> QED BY <2>2, <2>4, <2>5, <2>6, StandsIn, HandledIsRead
<1>3. Value \in Seq(ValuesHere)
  <2>1. CASE carried /\ Evaluates(todo[1])
    <3> DEFINE v == [of |-> todo[1].command.arg, positive |-> program[at].data /\ ~cleared]
    <3>1. todo[1].command.arg \in Texts
      BY <1>2, <2>1, OpFacts
    <3>2. (program[at].data /\ ~cleared) \in BOOLEAN
      OBVIOUS
    <3>3. v \in ValuesHere
      BY <1>2, <2>1, <3>1, <3>2 DEF ValuesHere, Values
    <3>4. Value = <<v>>
      BY <2>1 DEF Value
    <3> HIDE DEF v
    <3> QED BY <3>3, <3>4
  <2>2. CASE ~(carried /\ Evaluates(todo[1]))
    BY <2>2 DEF Value
  <2> QED BY <2>1, <2>2
<1>4. Dump \in Seq({at})
  <2>1. <<at>> \in Seq({at}) /\ << >> \in Seq({at})
    OBVIOUS
  <2> QED BY <2>1 DEF Dump
<1>5. values \in Seq(ValuesHere) /\ dumps \in Seq({at})
  <2>1. << >> \in Seq(ValuesHere) /\ << >> \in Seq({at})
    OBVIOUS
  <2> QED BY <1>3, <1>4, <2>1 DEF Data
<1>6. fromGdb \in Seq(LinesHere)
  <2>1. ASSUME NEW k \in 1..Len(fromGdb) PROVE fromGdb[k] \in LinesHere
    <3>1. fromGdb[k].values = Value /\ fromGdb[k].dumps = Dump /\ fromGdb[k] \in Lines
      BY <1>1 DEF Data
    <3> QED BY <1>3, <1>4, <3>1 DEF Lines, LinesHere, LinesWith
  <2> QED BY <1>1, <2>1, SeqOf
<1>7. ASSUME running \/ toGdb # << >> PROVE Clean
  <2>1. Value = << >> /\ Dump = << >>
    <3>1. ~(carried /\ (Evaluates(todo[1]) \/ todo[1].name = "readDump"))
      BY <1>2, <1>7 DEF carried
    <3> QED BY <3>1 DEF Value, Dump
  <2>2. values = << >> /\ dumps = << >>
    BY <2>1 DEF Data
  <2>3. ASSUME NEW k \in 1..Len(fromGdb) PROVE fromGdb[k] \in LinesWith({<< >>}, {<< >>})
    <3>1. fromGdb[k].values = << >> /\ fromGdb[k].dumps = << >> /\ fromGdb[k] \in Lines
      BY <1>1, <2>1 DEF Data
    <3> QED BY <3>1 DEF Lines, LinesWith
  <2> QED BY <1>1, <2>2, <2>3, SeqOf DEF Clean
<1> QED BY <1>5, <1>6, <1>7

(* modeFailed begins.                                                      *)
LEMMA SignalRescues ==
  ASSUME Inv, MessagesTaken, Signal
  PROVE  Rescue'
<1> USE DEF Inv
<1>1. /\ mode = "testing" /\ mode' = "aborting" /\ todo' = modeFailed
      /\ waits' = [waits EXCEPT !["main"] = "no"]
      /\ UNCHANGED <<program, at, stack, running, interrupted, cleared, breakpoints, toGdb,
                     fromGdb, values, dumps, stops, handled, analysed>>
  BY DEF Signal, targetVars, streamVars
<1>2. RescueList(modeFailed)
  BY ModeFailedIs
<1>3. Interrupting' /\ ReadsOn'
  BY <1>1, <1>2 DEF RescueList, Interrupting, ReadsOn, Reads
<1>4. RescuePlan'
  BY <1>1, <1>2, <1>3 DEF RescueList, RescuePlan, Reads
<1>5. /\ waits' \in [Threads -> {"no", "stopped", "done"}] /\ waits'["timer"] = "no"
      /\ ~Waiting'
  BY <1>1 DEF Typed, Threads, Waiting
<1>6. /\ at \in Nat /\ at \in 1..(Len(program) + 1) /\ program \in Programs
      /\ ~running => stack # << >> /\ at <= Len(program)
      /\ ~running => stack # <<"test", "group">> /\ stack # <<"group">>
  <2>1. at \in Nat /\ at \in 1..(Len(program) + 1) /\ program \in Programs
    BY DEF Typed, Stands
  <2>2. ASSUME ~running
        PROVE  /\ stack # << >> /\ at <= Len(program)
               /\ stack # <<"test", "group">> /\ stack # <<"group">>
    BY <2>2, StackStands, OutermostTest DEF Stands
  <2> QED BY <2>1, <2>2
<1>7. /\ ValuesHere' = ValuesHere /\ LinesHere' = LinesHere /\ Clean' = Clean
      /\ Unread' = Unread
  BY <1>1 DEF ValuesHere, LinesHere, Clean, Unread, Reports
<1>8. RescueTyped'
  <2>1. values' \in Seq(ValuesHere') /\ dumps' \in Seq({at'}) /\ fromGdb' \in Seq(LinesHere')
    BY <1>1, <1>7, DataHere
  <2> QED BY <1>1, <1>5, <1>6, <2>1 DEF RescueTyped, Typed
<1>9. ~Ahead => breakpoints = Wanted
  BY DEF Breaks
<1>10. "MessageToDebugger" \in Wanted
  BY DEF Wanted, EUnitBreakpoints
<1>11. BeforeInterrupt'
  <2>1. ~interrupted'
    BY <1>1 DEF Typed
  <2>2. ASSUME toGdb # << >>
        PROVE  toGdb = <<toGdb[1]>> /\ Old(toGdb[1])'
    <3>1. Asked
      BY <2>2 DEF Channel, Quiet, Answered, Decoded, Noticed, Resumed, Ended
    <3>2. /\ todo # << >> /\ toGdb = <<todo[1].command>> /\ ~running /\ ~carried /\ place = 1
      BY <2>2, <3>1 DEF Asked, Asking, carried, place
    <3>3. todo[1] \in Ops /\ Shape(todo[1]) /\ Ahead
      BY <3>2, PlanFacts DEF Ahead
    <3>4. toGdb[1] = todo[1].command /\ toGdb[1] \in OldCommands
      BY <3>2, <3>3, OpFacts DEF OldCommands
    <3>5. Handling
      BY <3>3 DEF Stands
    <3>6. Reads(todo[1]) =>
            todo[1].command.do \in {"-data-evaluate-expression", "-data-read-memory-bytes"}
      BY <3>3 DEF Shape, Reads, Evaluates
    <3>7. Clean
      BY <2>2, DataHere
    <3>8. todo[1].command.do = "-exec-continue" => "MessageToDebugger" \in breakpoints
      <4> SUFFICES ASSUME todo[1].command.do = "-exec-continue" PROVE breakpoints = Wanted
        BY <1>10
      <4>1. ~Deletes(todo[1]) /\ ~Inserts(todo[1])
        BY DEF Deletes, Inserts
      <4> QED BY <3>2, <3>3, <4>1 DEF Breaks
    <3>9. Unread => /\ todo[1].command.do # "-exec-continue"
                    /\ todo[1].command.do = "set" => todo[1].command.arg # "test_result_index"
                    /\ todo[1].command.do = "-data-evaluate-expression" =>
                         todo[1].command.arg = "test_result_index"
      <4> SUFFICES ASSUME Unread PROVE Reads(todo[1])
        BY <3>3, <3>6 DEF Shape, Reads, Evaluates
      <4> QED BY <3>5, HandledIsRead
    <3>10. Old(toGdb[1])
      BY <1>6, <3>2, <3>4, <3>7, <3>8, <3>9 DEF Old
    <3> QED BY <1>1, <1>7, <3>2, <3>4, <3>10 DEF Old
  <2> QED BY <1>1, <1>5, <2>1, <2>2 DEF BeforeInterrupt
<1>12. RescueChannel'
  <2>1. running => Clean /\ ~cleared /\ "MessageToDebugger" \in breakpoints
    <3> SUFFICES ASSUME running PROVE Clean /\ ~cleared /\ "MessageToDebugger" \in breakpoints
      OBVIOUS
    <3>1. ~Ahead
      BY DEF Stands, Handling
    <3>2. ~cleared
      BY DEF Stands
    <3> QED BY <1>9, <1>10, <3>1, <3>2, DataHere
  <2> QED BY <1>1, <1>3, <1>7, <1>11, <2>1 DEF RescueChannel
<1>13. /\ handled \in Seq(Frames) /\ Len(handled) \in Nat
       /\ \A j \in 1..Len(handled) : handled[j].step \in Nat
  <2>1. handled \in Seq(Frames)
    BY DEF Typed
  <2>2. \A j \in 1..Len(handled) : handled[j] \in Frames
    BY <2>1, ElementOfSeq
  <2> QED BY <2>1, <2>2, LenProperties DEF Frames
<1>14. \A j \in 1..Len(handled) : handled[j].step <= at
  <2> TAKE j \in 1..Len(handled)
  <2>1. handled # << >> /\ Len(handled) \in 1..Len(handled)
    BY <1>13
  <2>2. handled[j].step <= handled[Len(handled)].step
    <3>1. CASE j = Len(handled)
      BY <1>13, <3>1
    <3>2. CASE j < Len(handled)
      BY <1>13, <2>1, <3>2 DEF HandledInOrder
    <3> QED BY <1>13, <3>1, <3>2
  <2>3. handled[Len(handled)].step <= at
    <3>1. CASE Handling
      BY <1>1, <1>6, <2>1, <3>1, HandlingFacts
    <3>2. CASE ~Handling
      <4>1. running \/ NewStop
        BY <3>2 DEF Handling, NewStop, Stands
      <4>2. handled[Len(handled)].step < at
        BY <2>1, <4>1 DEF Stands
      <4> QED BY <1>6, <1>13, <2>1, <4>2
    <3> QED BY <3>1, <3>2
  <2> QED BY <1>6, <1>13, <2>1, <2>2, <2>3
<1>15. RescueResults'
  <2>1. analysed' \in Seq(Nat)
    BY <1>1 DEF Typed
  <2>2. ASSUME NEW k \in 1..Len(program), Reports(k), k < at
        PROVE  \E i \in 1..Len(analysed) : analysed[i] = k
    <3>1. Kind(k) \in Messages
      BY <2>2 DEF Reports, Kind, Messages
    <3>2. PICK j \in 1..Len(handled) : handled[j].step = k
      BY <2>2, <3>1 DEF MessagesTaken
    <3>3. CASE \E i \in 1..Len(analysed) : analysed[i] = handled[j].step
      BY <3>2, <3>3
    <3>4. CASE j = Len(handled) /\ todo # << >> /\ Reads(todo[1])
      <4>1. Handling
        BY <3>4 DEF Batches
      <4>2. handled # << >>
        BY <1>13
      <4>3. handled[Len(handled)].step = at
        BY <1>1, <4>1, <4>2, HandlingFacts
      <4> QED BY <1>6, <2>2, <3>2, <3>4, <4>3
    <3> QED BY <2>2, <3>2, <3>3, <3>4, TakenIsBatch
  <2>3. Increasing(analysed)
    BY DEF Batches, BatchesOnce, Increasing
  <2>4. \A i \in 1..Len(analysed) : analysed[i] <= at
    <3> TAKE i \in 1..Len(analysed)
    <3>1. PICK k \in 1..Len(handled) : handled[k].step = analysed[i]
      BY DEF Batches
    <3> QED BY <1>14, <3>1
  <2>5. OnlyLastTwice'
    BY <1>1, <2>3 DEF OnlyLastTwice, Increasing
  <2>6. Unread => ~cleared
    <3> SUFFICES ASSUME Unread, cleared PROVE FALSE
      BY DEF Typed
    <3>1. Handling
      BY DEF Stands, Handling, NewStop
    <3>2. ~(todo # << >> /\ Reads(todo[1]))
      BY DEF Batches
    <3> QED BY <3>1, <3>2, HandledIsRead
  <2>7. \A k : Reports(k)' = Reports(k)
    BY <1>1 DEF Reports
  <2> QED BY <1>1, <1>3, <1>7, <2>1, <2>2, <2>3, <2>4, <2>5, <2>6, <2>7
          DEF RescueResults, Increasing
<1> QED BY <1>4, <1>8, <1>12, <1>15 DEF Rescue

(* The loop ends when everything is read.                                  *)
LEMMA EndedIsRead ==
  ASSUME Inv, MessagesTaken
  PROVE  EndLosesNothing /\ OnlyLastTwice
<1> USE DEF Inv
<1>1. OnlyLastTwice
  BY DEF Batches, BatchesOnce, OnlyLastTwice
<1>2. ASSUME mode = "ended", NEW k \in 1..Len(program), k <= at, Reports(k)
      PROVE  \E i \in 1..Len(analysed) : analysed[i] = k
  <2>1. todo = << >> /\ at \in Nat /\ program \in Programs
    BY <1>2 DEF Typed
  <2>2. Kind(k) \in Messages
    BY <1>2 DEF Reports, Kind, Messages
  <2>3. \E j \in 1..Len(handled) : handled[j].step = k
    <3>1. CASE k < at \/ Handling
      BY <1>2, <2>1, <2>2, <3>1, ProgramLength DEF MessagesTaken
    <3>2. CASE k = at /\ ~Handling
      <4>1. running \/ NewStop
        BY <3>2 DEF Handling, NewStop, Stands
      <4>2. running
        BY <1>2, <4>1 DEF Stands
      <4>3. handled # << >> /\ handled[Len(handled)].step = Len(program)
        BY <1>2 DEF HandledInOrder
      <4>4. Len(program) < at
        BY <4>2, <4>3 DEF Stands
      <4> QED BY <2>1, <3>2, <4>4, ProgramLength
    <3> QED BY <1>2, <2>1, <3>1, <3>2, ProgramLength
  <2> QED BY <1>2, <2>1, <2>3, TakenIsBatch
<1>3. mode # "rescued"
  BY DEF Typed
<1> QED BY <1>1, <1>2, <1>3 DEF EndLosesNothing

-----------------------------------------------------------------------------
(* The rescue goes on. *)

(* The rest of the list stands as long as the list does. *)
LEMMA PlanStands ==
  ASSUME RescuePlan, UNCHANGED <<todo, mode>>
  PROVE  RescuePlan' /\ Interrupting' = Interrupting /\ ReadsOn' = ReadsOn
BY DEF RescuePlan, Interrupting, ReadsOn, Reads

(* What is read stands, and what is unread, while nothing is analysed or cleared. *)
LEMMA ReadingStands ==
  ASSUME RescuePlan, RescueResults, UNCHANGED <<program, at, cleared, analysed, todo, mode>>
  PROVE  RescueResults' /\ Unread' = Unread
<1>1. ReadsOn' = ReadsOn /\ Unread' = Unread /\ \A k : Reports(k)' = Reports(k)
  BY DEF ReadsOn, Reads, Unread, Reports
<1>2. OnlyLastTwice'
  BY DEF RescueResults, OnlyLastTwice
<1> QED BY <1>1, <1>2 DEF RescueResults, Increasing

(* What gdb tells stays true while the target stays where it is.           *)
LEMMA HereStands ==
  ASSUME UNCHANGED <<program, at, cleared, analysed>>
  PROVE  ValuesHere' = ValuesHere /\ LinesHere' = LinesHere
BY DEF ValuesHere, LinesHere, Unread, Reports

(* The reader passes on a state or a frame, or the alarm ends the rescue.  *)
LEMMA RescueStands ==
  ASSUME Rescue,
         UNCHANGED <<program, at, stack, running, interrupted, cleared, breakpoints, toGdb,
                     fromGdb, values, dumps, lastCommand, waits, stops, todo, analysed>>,
         mode' = mode \/ (mode = "aborting" /\ mode' = "exited")
  PROVE  Rescue'
<1> USE DEF Rescue
<1>1. RescuePlan' /\ Interrupting' = Interrupting /\ ReadsOn' = ReadsOn
  BY DEF RescuePlan, Interrupting, ReadsOn, Reads
<1>2. Unread' = Unread /\ Clean' = Clean /\ Waiting' = Waiting /\ \A k : Reports(k)' = Reports(k)
  BY DEF Unread, Reports, Clean, Waiting
<1>3. RescueTyped'
  BY <1>2, HereStands DEF RescueTyped
<1>4. \A c : Old(c)' = Old(c)
  BY <1>2 DEF Old
<1>5. RescueChannel'
  BY <1>1, <1>2, <1>4
  DEF RescueChannel, BeforeInterrupt, InterruptSent, AfterInterrupt, Resting, Sent, Returned,
      Arrived
<1>6. OnlyLastTwice'
  BY DEF RescueResults, OnlyLastTwice, RescuePlan
<1>7. RescueResults'
  BY <1>1, <1>2, <1>6 DEF RescueResults, Increasing
<1> QED BY <1>1, <1>3, <1>5, <1>7

(* A line is decoded. *)
LEMMA RescueDecodes ==
  ASSUME Rescue, DecodeLine, UNCHANGED runVars
  PROVE  Rescue'
<1> USE DEF Rescue
<1> DEFINE line == Head(fromGdb)
<1>1. /\ fromGdb # << >> /\ fromGdb' = Tail(fromGdb)
      /\ values' = values \o line.values /\ dumps' = dumps \o line.dumps
      /\ SetFlags(line.msg)
      /\ UNCHANGED <<program, at, stack, running, interrupted, cleared, breakpoints, toGdb,
                     waits, stops, todo, mode, analysed>>
  BY DEF DecodeLine, targetVars, runVars
<1>2. /\ RescuePlan' /\ Interrupting' = Interrupting /\ RescueResults' /\ Unread' = Unread
      /\ Waiting' = Waiting
  BY <1>1, PlanStands, ReadingStands DEF Waiting
<1>3. /\ fromGdb \in Seq(LinesHere) /\ line \in LinesHere /\ Tail(fromGdb) \in Seq(LinesHere)
      /\ line = fromGdb[1] /\ Len(fromGdb) \in Nat /\ (Len(fromGdb) = 1 <=> Tail(fromGdb) = << >>)
  <2>1. fromGdb \in Seq(LinesHere)
    BY DEF RescueTyped
  <2> QED BY <1>1, <2>1, TailOf
<1>4. /\ line.msg \in {"^running", "*running", "^done", "*stopped"}
      /\ line.values \in Seq(ValuesHere) /\ line.dumps \in Seq({at})
  BY <1>3 DEF LinesHere, LinesWith
<1> HIDE DEF line
<1>5. /\ values' \in Seq(ValuesHere) /\ dumps' \in Seq({at})
      /\ line.values # << >> => values' # << >>
      /\ line.dumps # << >> => dumps' # << >>
  <2>1. values \in Seq(ValuesHere) /\ dumps \in Seq({at})
    BY DEF RescueTyped
  <2>2. values' \in Seq(ValuesHere) /\ dumps' \in Seq({at})
        /\ Len(values') = Len(values) + Len(line.values)
        /\ Len(dumps') = Len(dumps) + Len(line.dumps)
    BY <1>1, <1>4, <2>1, ConcatProperties
  <2>3. /\ line.values # << >> => Len(line.values) > 0
        /\ line.dumps # << >> => Len(line.dumps) > 0
    BY <1>4, EmptySeq, LenProperties
  <2>4. /\ Len(values) \in Nat /\ Len(line.values) \in Nat
        /\ Len(dumps) \in Nat /\ Len(line.dumps) \in Nat /\ Len(<< >>) = 0
    BY <1>4, <2>1, LenProperties
  <2> QED BY <2>2, <2>3, <2>4
<1>6. lastCommand' # "error" \/ lastCommand' = lastCommand
  BY <1>1, <1>4 DEF SetFlags
<1>7. RescueTyped'
  BY <1>1, <1>2, <1>3, <1>5, <1>6, HereStands DEF RescueTyped
<1>8. Clean => Clean'
  <2> SUFFICES ASSUME Clean PROVE Clean'
    OBVIOUS
  <2> DEFINE Empty == LinesWith({<< >>}, {<< >>})
  <2>1. fromGdb \in Seq(Empty) /\ values = << >> /\ dumps = << >>
    BY DEF Clean
  <2> HIDE DEF Empty
  <2>2. line \in Empty /\ Tail(fromGdb) \in Seq(Empty)
    BY <1>1, <1>3, <2>1, TailOf
  <2>3. line.values = << >> /\ line.dumps = << >>
    BY <2>2 DEF Empty, LinesWith
  <2>4. << >> \o << >> = << >>
    OBVIOUS
  <2> QED BY <1>1, <2>1, <2>2, <2>3, <2>4 DEF Clean, Empty
<1>9. RescueChannel'
  <2>1. CASE Interrupting
    <3>1. \A c : Old(c) => Old(c)'
      BY <1>1, <1>2, <1>8 DEF Old
    <3>2. BeforeInterrupt' \/ InterruptSent' \/ AfterInterrupt'
      <4>1. CASE BeforeInterrupt
        BY <1>1, <1>2, <3>1, <4>1 DEF BeforeInterrupt
      <4>2. CASE InterruptSent
        BY <1>1, <1>2, <3>1, <4>2 DEF InterruptSent
      <4>3. CASE AfterInterrupt
        BY <1>1, <1>2, <4>3 DEF AfterInterrupt
      <4> QED BY <2>1, <4>1, <4>2, <4>3 DEF RescueChannel
    <3> QED BY <1>1, <1>2, <1>8, <2>1, <3>2 DEF RescueChannel
  <2>2. CASE ~Interrupting
    <3>1. Returned
      BY <1>1, <2>2 DEF RescueChannel, Resting, Sent, Arrived
    <3>2. /\ fromGdb' = << >>
          /\ todo[1] = ReadIndex => values' # << >>
          /\ todo[1] = ReadDump => dumps' # << >>
      BY <1>1, <1>3, <1>5, <3>1 DEF Returned
    <3>3. Arrived'
      BY <1>1, <1>2, <3>1, <3>2 DEF Returned, Arrived
    <3> QED BY <1>1, <1>2, <2>2, <3>3 DEF RescueChannel
  <2> QED BY <2>1, <2>2
<1> QED BY <1>2, <1>7, <1>9

(* The next operation is sent. *)
LEMMA RescueSends ==
  ASSUME Rescue, MainSends
  PROVE  Rescue'
<1> USE DEF Rescue
<1>1. /\ todo # << >> /\ ~Waiting /\ lastCommand' = "waitForResult"
      /\ toGdb' = Append(toGdb, Head(todo).command)
      /\ waits' = [waits EXCEPT !["main"] = IF Head(todo).waitForStopped THEN "stopped" ELSE "done"]
      /\ UNCHANGED <<program, at, stack, running, interrupted, cleared, breakpoints, fromGdb,
                     values, dumps, stops, todo, mode, analysed>>
  BY DEF MainSends, Send, Waiting, targetVars, streamVars, runVars
<1>2. /\ RescuePlan' /\ Interrupting' = Interrupting /\ RescueResults' /\ Unread' = Unread
      /\ Clean' = Clean
  BY <1>1, PlanStands, ReadingStands DEF Clean
<1>3. waits' \in [Threads -> {"no", "stopped", "done"}] /\ waits'["timer"] = "no" /\ Waiting'
  <2>1. waits \in [Threads -> {"no", "stopped", "done"}] /\ waits["timer"] = "no"
    BY DEF RescueTyped
  <2> QED BY <1>1, <2>1 DEF Threads, Waiting
<1>4. RescueTyped'
  BY <1>1, <1>3, HereStands DEF RescueTyped
<1>5. Head(todo) = todo[1]
  BY <1>1, TailOf DEF RescuePlan
<1>6. CASE Interrupting
  <2>1. BeforeInterrupt /\ Head(todo).command = InterruptCommand
    <3>1. InterruptOp.command = InterruptCommand
      BY DEF InterruptOp, Op
    <3> QED BY <1>1, <1>5, <1>6, <3>1
        DEF RescueChannel, InterruptSent, AfterInterrupt, Interrupting
  <2>2. \A c : Old(c) => Old(c)'
    BY <1>1, <1>2 DEF Old
  <2>3. InterruptSent'
    <3>1. CASE toGdb = << >>
      <4>1. toGdb' = <<InterruptCommand>>
        BY <1>1, <2>1, <3>1, AppendShort
      <4>2. toGdb' # << >> /\ ~interrupted'
        BY <1>1, <2>1, <4>1 DEF BeforeInterrupt
      <4> QED BY <1>3, <4>1, <4>2 DEF InterruptSent
    <3>2. CASE toGdb # << >>
      <4>1. toGdb = <<toGdb[1]>> /\ Old(toGdb[1])
        BY <2>1, <3>2 DEF BeforeInterrupt
      <4>2. toGdb' = <<toGdb[1], InterruptCommand>>
        BY <1>1, <2>1, <4>1, AppendShort
      <4>3. toGdb'[1] = toGdb[1] /\ toGdb' # << >>
        BY <4>2
      <4>4. ~interrupted'
        BY <1>1, <2>1 DEF BeforeInterrupt
      <4> QED BY <1>3, <2>2, <4>1, <4>2, <4>3, <4>4 DEF InterruptSent
    <3> QED BY <3>1, <3>2
  <2> QED BY <1>1, <1>2, <1>4, <1>6, <2>3 DEF RescueChannel
<1>7. CASE ~Interrupting
  <2>1. Resting
    BY <1>1, <1>7 DEF RescueChannel, Sent, Returned, Arrived
  <2>2. toGdb' = <<todo[1].command>>
    BY <1>1, <1>5, <2>1, AppendShort DEF Resting
  <2>3. Sent'
    BY <1>1, <1>3, <2>1, <2>2 DEF Sent, Resting
  <2> QED BY <1>1, <1>2, <1>4, <1>7, <2>3 DEF RescueChannel
<1> QED BY <1>6, <1>7

(* The first of its loops ends. *)
LEMMA RescueSeesStop ==
  ASSUME Rescue, MainSeesStop
  PROVE  Rescue'
<1> USE DEF Rescue
<1>1. /\ Waiting /\ waits' = [waits EXCEPT !["main"] = "done"]
      /\ UNCHANGED <<program, at, stack, running, interrupted, cleared, breakpoints, toGdb,
                     fromGdb, values, dumps, lastCommand, stops, todo, mode, analysed>>
  BY DEF MainSeesStop, SeesStop, Waiting, targetVars, decoderVars, streamVars, runVars
<1>2. /\ RescuePlan' /\ Interrupting' = Interrupting /\ RescueResults' /\ Unread' = Unread
      /\ Clean' = Clean
  BY <1>1, PlanStands, ReadingStands DEF Clean
<1>3. waits' \in [Threads -> {"no", "stopped", "done"}] /\ waits'["timer"] = "no" /\ Waiting'
  <2>1. waits \in [Threads -> {"no", "stopped", "done"}] /\ waits["timer"] = "no"
    BY DEF RescueTyped
  <2> QED BY <1>1, <2>1 DEF Threads, Waiting
<1>4. RescueTyped'
  BY <1>1, <1>3, HereStands DEF RescueTyped
<1>5. \A c : Old(c)' = Old(c)
  BY <1>1, <1>2 DEF Old
<1>6. RescueChannel'
  BY <1>1, <1>2, <1>3, <1>5
  DEF RescueChannel, BeforeInterrupt, InterruptSent, AfterInterrupt, Resting, Sent, Returned,
      Arrived
<1> QED BY <1>2, <1>4, <1>6

-----------------------------------------------------------------------------
(* An operation of modeFailed ends. *)

(* The list without its first operation, or with the read of the buffer in *)
(* the place of the read of the index.                                     *)
LEMMA PlanGoesOn ==
  ASSUME RescuePlan, todo # << >>, mode = "aborting", NEW next,
         \/ next = << >>
         \/ next = <<ReadDump>> /\ todo[1] = ReadIndex,
         todo' = next \o Tail(todo),
         mode' = IF todo[1] = DisconnectOp THEN "rescued" ELSE mode
  PROVE  /\ RescuePlan' /\ ~Interrupting'
         /\ ReadsOn' => ReadsOn
         /\ next # << >> => ReadsOn'
         /\ ReadsOn /\ ~Reads(todo[1]) => ReadsOn'
         /\ Reads(todo[1]) /\ next = << >> => ~ReadsOn'
<1>1. /\ todo \in Seq(RescueOps) /\ todo[1] \in RescueOps
      /\ todo[1] = DisconnectOp => Tail(todo) = << >>
  <2>1. todo \in Seq(RescueOps) /\ Len(todo) \in Nat /\ Len(todo) > 0 /\ todo[1] \in RescueOps
        /\ (Tail(todo) = << >> <=> Len(todo) = 1)
    BY TailOf DEF RescuePlan
  <2>2. 1 \in 1..Len(todo)
    BY <2>1
  <2>3. todo[1] = DisconnectOp => 1 = Len(todo)
    BY <2>2 DEF RescuePlan
  <2> QED BY <2>1, <2>3
<1>p. /\ \A i \in 1..Len(todo) : /\ todo[i] = InterruptOp => i = 1
                                 /\ todo[i] = DisconnectOp => i = Len(todo)
      /\ \A i, j \in 1..Len(todo) : Reads(todo[i]) /\ Reads(todo[j]) => i = j
  BY DEF RescuePlan
<1>n. PICK n \in Nat : Len(todo) = n + 1
  <2>1. Len(todo) \in Nat /\ Len(todo) > 0
    BY <1>1, TailOf
  <2>2. \A m \in Nat : m > 0 => m - 1 \in Nat /\ m = (m - 1) + 1
    OBVIOUS
  <2> QED BY <2>1, <2>2
<1>t. /\ Tail(todo) \in Seq(RescueOps) /\ Len(Tail(todo)) = n /\ (Tail(todo) = << >> <=> n = 0)
      /\ \A i \in 1..n : Tail(todo)[i] = todo[i + 1]
  <2>1. /\ Tail(todo) \in Seq(RescueOps) /\ Len(Tail(todo)) = Len(todo) - 1
        /\ \A i \in 1..(Len(todo) - 1) : Tail(todo)[i] = todo[i + 1]
        /\ Tail(todo) = << >> <=> Len(todo) = 1
    BY <1>1, TailOf
  <2>2. Len(todo) - 1 = n
    BY <1>n
  <2> QED BY <1>n, <2>1, <2>2
<1>i. /\ \A i \in 1..n : i + 1 \in 1..Len(todo) /\ i + 1 # 1 /\ i \in Nat
      /\ 1 \in 1..Len(todo) /\ \A i \in 1..Len(todo) : i = 1 \/ \E j \in 1..n : i = j + 1
  <2>1. ASSUME NEW i \in 1..(n + 1), i # 1 PROVE \E j \in 1..n : i = j + 1
    <3>1. i - 1 \in 1..n /\ i = (i - 1) + 1
      BY <2>1
    <3> QED BY <3>1
  <2> QED BY <1>n, <2>1
<1>2. ReadDump \in RescueOps /\ Reads(ReadDump) /\ Reads(ReadIndex) /\ ReadDump # InterruptOp
      /\ ReadDump # DisconnectOp /\ ReadIndex # DisconnectOp
  <2>1. ReadDump \in RescueOps /\ ReadIndex \in RescueOps
    BY DEF RescueOps
  <2>2. ReadDump.name = "readDump" /\ ReadIndex.name = "readIndex"
        /\ InterruptOp.name = "interruptTarget" /\ DisconnectOp.name = "disconnect"
    BY DEF ReadDump, ReadIndex, InterruptOp, DisconnectOp, Op
  <2> QED BY <2>1, <2>2 DEF Reads
<1>3. CASE next = << >>
  <2>1. todo' = Tail(todo)
    <3>1. << >> \o Tail(todo) = Tail(todo)
      BY <1>t, ConcatEmptySeq
    <3> QED BY <1>3, <3>1
  <2>2. /\ todo' \in Seq(RescueOps) /\ Len(todo') = n /\ (todo' = << >> <=> n = 0)
        /\ \A i \in 1..n : todo'[i] = todo[i + 1]
    BY <1>t, <2>1
  <2>3. mode' \in {"aborting", "rescued"} /\ (mode' = "rescued" => todo' = << >>)
    BY <1>1, <2>1
  <2>4. \A i \in 1..n : /\ todo'[i] # InterruptOp
                        /\ todo'[i] = DisconnectOp => i = n
    <3> TAKE i \in 1..n
    <3>1. todo'[i] = todo[i + 1] /\ i + 1 \in 1..Len(todo) /\ i + 1 # 1 /\ i \in Nat
      BY <1>i, <2>2
    <3>2. i + 1 = Len(todo) => i = n
      BY <1>n, <3>1
    <3> QED BY <1>p, <3>1, <3>2
  <2>5. \A i, j \in 1..n : Reads(todo'[i]) /\ Reads(todo'[j]) => i = j
    <3> TAKE i \in 1..n, j \in 1..n
    <3>1. /\ todo'[i] = todo[i + 1] /\ i + 1 \in 1..Len(todo) /\ i \in Nat
          /\ todo'[j] = todo[j + 1] /\ j + 1 \in 1..Len(todo) /\ j \in Nat
      BY <1>i, <2>2
    <3>2. i + 1 = j + 1 => i = j
      BY <3>1
    <3> QED BY <1>p, <3>1, <3>2
  <2>6. ~Interrupting'
    <3>1. todo' # << >> => 1 \in 1..n
      BY <1>n, <2>2
    <3> QED BY <2>4, <3>1 DEF Interrupting
  <2>7. ReadsOn' => ReadsOn
    <3>1. ReadsOn' => \E i \in 1..n : Reads(todo'[i])
      BY <2>2 DEF ReadsOn, Reads
    <3> QED BY <1>i, <2>2, <3>1 DEF ReadsOn
  <2>8. ReadsOn /\ ~Reads(todo[1]) => ReadsOn'
    <3>1. ReadsOn /\ ~Reads(todo[1]) => \E j \in 1..n : Reads(todo[j + 1])
      BY <1>i DEF ReadsOn
    <3>2. ReadsOn' <=> \E i \in 1..n : Reads(todo'[i])
      BY <2>2 DEF ReadsOn, Reads
    <3> QED BY <2>2, <3>1, <3>2
  <2>9. Reads(todo[1]) => ~ReadsOn'
    <3>1. ReadsOn' => \E i \in 1..n : Reads(todo'[i])
      BY <2>2 DEF ReadsOn, Reads
    <3>2. \A i \in 1..n : Reads(todo[1]) => ~Reads(todo[i + 1])
      BY <1>i, <1>p
    <3> QED BY <2>2, <3>1, <3>2
  <2>10. RescuePlan'
    BY <2>2, <2>3, <2>4, <2>5, <2>6 DEF RescuePlan, Reads
  <2> QED BY <1>3, <2>6, <2>7, <2>8, <2>9, <2>10
<1>4. CASE next = <<ReadDump>> /\ todo[1] = ReadIndex
  <2>1. /\ todo' \in Seq(RescueOps) /\ Len(todo') = n + 1 /\ todo'[1] = ReadDump
        /\ \A i \in 1..n : todo'[i + 1] = todo[i + 1]
    BY <1>2, <1>4, <1>t, PutFirst
  <2>2. 1 \in 1..Len(todo) /\ Reads(todo[1]) /\ ReadsOn
    BY <1>2, <1>4, <1>i DEF ReadsOn
  <2>3. \A i \in 1..Len(todo) : /\ todo'[i] # InterruptOp
                                /\ todo'[i] = DisconnectOp => i = Len(todo)
                                /\ Reads(todo'[i]) <=> i = 1
    <3> TAKE i \in 1..Len(todo)
    <3>1. CASE i = 1
      BY <1>2, <2>1, <3>1
    <3>2. ASSUME NEW j \in 1..n, i = j + 1
          PROVE  /\ todo'[i] # InterruptOp
                 /\ todo'[i] = DisconnectOp => i = Len(todo)
                 /\ Reads(todo'[i]) <=> i = 1
      <4>1. todo'[i] = todo[i] /\ i # 1
        BY <1>i, <2>1, <3>2
      <4> QED BY <1>p, <2>2, <4>1
    <3> QED BY <1>i, <3>1, <3>2
  <2>4. mode' = "aborting" /\ Len(todo') = Len(todo)
    BY <1>2, <1>4, <1>n, <2>1
  <2>5. todo' # << >> /\ ReadsOn' /\ ~Interrupting'
    <3>1. todo' # << >>
      BY <1>n, <2>1
    <3>2. todo'[1] # InterruptOp /\ Reads(todo'[1])
      BY <1>2, <2>1
    <3> QED BY <2>2, <2>4, <3>1, <3>2 DEF ReadsOn, Reads, Interrupting
  <2>6. RescuePlan'
    BY <2>1, <2>3, <2>4, <2>5 DEF RescuePlan, Reads
  <2> QED BY <1>4, <2>2, <2>5, <2>6
<1> QED BY <1>3, <1>4

(* What has arrived when an operation ends. *)
LEMMA OverIs ==
  ASSUME Rescue, NEW name, NEW next, Ends(name, next)
  PROVE  /\ todo # << >> /\ todo[1].name = name /\ todo[1] \in RescueOps /\ Waiting
         /\ mode = "aborting" /\ todo' = next \o Tail(todo)
         /\ waits' = [waits EXCEPT !["main"] = "no"]
         /\ UNCHANGED <<program, at, stack, running, interrupted, cleared, breakpoints, toGdb,
                        fromGdb, lastCommand, stops>>
         /\ ~Interrupting => Arrived
<1> USE DEF Rescue
<1>1. todo # << >> /\ todo[1].name = name /\ todo[1] \in RescueOps
  <2>1. todo \in Seq(RescueOps) /\ todo # << >>
    BY DEF Ends, RescuePlan
  <2> QED BY <2>1, TailOf DEF Ends
<1>2. Waiting /\ lastCommand = "done"
  <2>1. ~Fails("main")
    BY DEF RescueTyped, Fails, Waiting
  <2> QED BY <2>1 DEF Ends, Succeeds, Waiting
<1>3. mode = "aborting"
  BY DEF Ends, IsTesting, RescuePlan
<1>4. ~Interrupting => Arrived
  BY <1>2 DEF RescueChannel, Resting, Sent, Returned
<1> QED BY <1>1, <1>2, <1>3, <1>4 DEF Ends, Returns, targetVars, decoderVars

(* The results, where none are analysed.                                   *)
LEMMA ResultsRest ==
  ASSUME RescueResults, UNCHANGED <<program, at, analysed>>,
         mode' # "testing", mode # "testing",
         ReadsOn' => ReadsOn, Unread => ReadsOn' /\ ~cleared'
  PROVE  RescueResults'
<1>1. Unread' = Unread /\ \A k : Reports(k)' = Reports(k)
  BY DEF Unread, Reports
<1>2. OnlyLastTwice'
  BY DEF RescueResults, OnlyLastTwice
<1> QED BY <1>1, <1>2 DEF RescueResults, Increasing

(* Then there is no command under way. *)
LEMMA RescueRests ==
  ASSUME Rescue, RescuePlan', ~Interrupting', RescueResults', todo # << >>,
         waits' = [waits EXCEPT !["main"] = "no"],
         UNCHANGED <<program, at, stack, running, interrupted, cleared, toGdb,
                     fromGdb, lastCommand, stops>>,
         ~running, ~interrupted, toGdb = << >>, fromGdb = << >>,
         values' = values \/ (values # << >> /\ values' = Tail(values)),
         dumps' = dumps \/ (dumps # << >> /\ dumps' = Tail(dumps)),
         analysed' = analysed \/ ~Unread'
  PROVE  Rescue'
<1> USE DEF Rescue
<1>1. waits' \in [Threads -> {"no", "stopped", "done"}] /\ waits'["timer"] = "no" /\ ~Waiting'
  <2>1. waits \in [Threads -> {"no", "stopped", "done"}] /\ waits["timer"] = "no"
    BY DEF RescueTyped
  <2> QED BY <2>1 DEF Threads, Waiting
<1>2. ValuesHere \subseteq ValuesHere'
  <2>1. CASE analysed' = analysed
    BY <2>1, HereStands
  <2>2. CASE ~Unread'
    BY <2>2 DEF ValuesHere
  <2> QED BY <2>1, <2>2
<1>3. values' \in Seq(ValuesHere')
  <2>1. values \in Seq(ValuesHere)
    BY DEF RescueTyped
  <2>2. values' \in Seq(ValuesHere)
    BY <2>1, TailOf
  <2>3. \A i \in 1..Len(values') : values'[i] \in ValuesHere'
    BY <1>2, <2>2, ElementOfSeq
  <2> QED BY <2>2, <2>3, SeqOf
<1>4. dumps' \in Seq({at})
  <2>1. dumps \in Seq({at})
    BY DEF RescueTyped
  <2> QED BY <2>1, TailOf
<1>5. << >> \in Seq(LinesHere')
  OBVIOUS
<1>6. RescueTyped'
  BY <1>1, <1>3, <1>4, <1>5 DEF RescueTyped
<1>7. RescueChannel'
  BY <1>1 DEF RescueChannel, Resting
<1> QED BY <1>6, <1>7

(* What has been read once the step the target is in is read again.        *)
LEMMA OneMore ==
  ASSUME Rescue, Increasing(analysed), \A i \in 1..Len(analysed) : analysed[i] <= at,
         analysed \in Seq(Nat), analysed' = Append(analysed, at),
         UNCHANGED <<program, at, cleared>>, mode' # "testing", ~ReadsOn'
  PROVE  RescueResults' /\ ~Unread'
<1> USE DEF Rescue
<1>1. at \in Nat
  <2>1. program \in Programs /\ at \in 1..(Len(program) + 1)
    BY DEF RescueTyped
  <2> QED BY <2>1, ProgramLength
<1>2. PICK n \in Nat : Len(analysed) = n
  BY LenProperties
<1>3. /\ analysed' \in Seq(Nat) /\ Len(analysed') = n + 1 /\ analysed'[n + 1] = at
      /\ \A i \in 1..n : analysed'[i] = analysed[i]
  BY <1>1, <1>2, PutLast
<1>4. \A i \in 1..n : i \in 1..(n + 1)
  OBVIOUS
<1>5. ~Unread'
  <2>1. n + 1 \in 1..Len(analysed')
    BY <1>2, <1>3
  <2> QED BY <1>3, <2>1 DEF Unread
<1>6. \A k \in 1..Len(program) :
        Reports(k) /\ k < at => \E i \in 1..Len(analysed') : analysed'[i] = k
  BY <1>2, <1>3, <1>4 DEF RescueResults
<1>7. OnlyLastTwice'
  <2> SUFFICES ASSUME NEW i \in 1..(n + 1), NEW j \in 1..(n + 1), i < j
               PROVE  \/ analysed'[i] < analysed'[j]
                      \/ analysed'[i] = analysed'[j] /\ i = j - 1 /\ j = n + 1
    BY <1>3 DEF OnlyLastTwice
  <2>1. i \in 1..n /\ i \in Nat /\ j \in Nat
    OBVIOUS
  <2>2. analysed[i] \in Nat /\ analysed[i] <= at
    BY <1>2, <2>1, ElementOfSeq
  <2>3. CASE j \in 1..n
    <3>1. analysed[i] < analysed[j]
      BY <1>2, <2>1, <2>3 DEF Increasing
    <3> QED BY <1>3, <2>1, <2>3, <3>1
  <2>4. CASE j = n + 1 /\ i = n
    BY <1>1, <1>3, <2>1, <2>2, <2>4
  <2>5. CASE j = n + 1 /\ i # n
    <3>1. n \in 1..n /\ i < n
      BY <2>1, <2>5
    <3>2. analysed[i] < analysed[n] /\ analysed[n] <= at /\ analysed[n] \in Nat
      BY <1>2, <2>1, <3>1, ElementOfSeq DEF Increasing
    <3> QED BY <1>1, <1>3, <2>1, <2>2, <2>5, <3>2
  <2>6. j \in 1..n \/ j = n + 1
    OBVIOUS
  <2> QED BY <2>3, <2>4, <2>5, <2>6
<1>8. \A k : Reports(k)' = Reports(k)
  BY DEF Reports
<1> QED BY <1>3, <1>5, <1>6, <1>7, <1>8 DEF RescueResults

(* Each operation of modeFailed ends. *)
LEMMA RescueCommandEnds ==
  ASSUME Rescue, Prompt, CommandEnds
  PROVE  Rescue'
<1> USE DEF Rescue
<1>1. \A name, next : Ends(name, next) => todo # << >> /\ todo[1].name = name
                                             /\ todo[1] \in RescueOps
  BY OverIs
<1>2. \A name, next :
        Ends(name, next) =>
          name \in {"interruptTarget", "disconnect", "readIndex", "readDump", "execute"}
  BY <1>1, RescueOpIs
<1>3. ~ReduceEnds
  BY DEF ReduceEnds, RescuePlan
<1>4. ExecuteEnds \/ ReadIndexEnds \/ ReadDumpEnds \/ RescueEnds
  BY <1>2, <1>3
  DEF CommandEnds, EvaluateEnds, DisabledTestsEnds, JumpOutEnds, BuffToSmallEnds, AddMockStubEnds,
      Crash, ExitEnds
<1>6. CASE ExecuteEnds
  <2>1. Ends("execute", << >>) /\ UNCHANGED <<values, dumps, mode, analysed>>
    BY <1>6 DEF ExecuteEnds, streamVars
  <2>2. /\ todo # << >> /\ todo[1].name = "execute" /\ todo[1] \in RescueOps
        /\ mode = "aborting" /\ todo' = << >> \o Tail(todo)
        /\ waits' = [waits EXCEPT !["main"] = "no"]
        /\ UNCHANGED <<program, at, stack, running, interrupted, cleared, breakpoints, toGdb,
                       fromGdb, lastCommand, stops>>
        /\ ~Interrupting => Arrived
    BY <2>1, OverIs
  <2>3. todo[1] # DisconnectOp /\ ~Reads(todo[1]) /\ ~Interrupting
    BY <2>2, RescueOpIs DEF Interrupting, Reads
  <2>4. RescuePlan' /\ ~Interrupting' /\ (ReadsOn' => ReadsOn) /\ (ReadsOn => ReadsOn')
    BY <2>1, <2>2, <2>3, PlanGoesOn
  <2>5. RescueResults'
    BY <2>1, <2>2, <2>4, ResultsRest DEF RescueResults
  <2>6. ~running /\ ~interrupted /\ toGdb = << >> /\ fromGdb = << >>
    BY <2>2, <2>3 DEF RescueChannel, Arrived
  <2> QED BY <2>1, <2>2, <2>4, <2>5, <2>6, RescueRests
<1>7. CASE ReadIndexEnds
  <2>1. PICK next : /\ Ends("readIndex", next) /\ UNCHANGED <<dumps, mode, analysed>>
                    /\ TakeValue
                    /\ \/ next = <<ReadDump>>
                       \/ MayBeZero /\ next = WithoutDump
    BY <1>7 DEF ReadIndexEnds
  <2>2. /\ todo # << >> /\ todo[1].name = "readIndex" /\ todo[1] \in RescueOps
        /\ mode = "aborting" /\ todo' = next \o Tail(todo)
        /\ waits' = [waits EXCEPT !["main"] = "no"]
        /\ UNCHANGED <<program, at, stack, running, interrupted, cleared, breakpoints, toGdb,
                       fromGdb, lastCommand, stops>>
        /\ ~Interrupting => Arrived
    BY <2>1, OverIs
  <2>3. todo[1] # DisconnectOp /\ todo[1] = ReadIndex /\ ~Interrupting
    BY <2>2, RescueOpIs DEF Interrupting
  <2>9. values # << >> /\ values' = Tail(values)
    BY <2>1, <2>2, <2>3 DEF Arrived, TakeValue
  <2>4. next = <<ReadDump>> \/ (next = << >> /\ MayBeZero)
    BY <2>1, <2>2 DEF WithoutDump
  <2>5. RescuePlan' /\ ~Interrupting' /\ (ReadsOn' => ReadsOn) /\ (next # << >> => ReadsOn')
    BY <2>1, <2>2, <2>3, <2>4, PlanGoesOn
  <2>6. Unread => next # << >>
    <3> SUFFICES ASSUME Unread, MayBeZero PROVE FALSE
      BY <2>4
    <3>1. Head(values) \in ValuesHere
      <4>1. values \in Seq(ValuesHere)
        BY DEF RescueTyped
      <4> QED BY <2>9, <4>1, TailOf
    <3>2. program[at].data /\ ~cleared
      BY DEF Unread, Reports, RescueResults
    <3>3. Head(values).of = "test_result_index" /\ Head(values).positive
      BY <3>1, <3>2 DEF ValuesHere
    <3> QED BY <2>9, <3>3 DEF MayBeZero
  <2>7. RescueResults'
    BY <2>1, <2>2, <2>5, <2>6, ResultsRest DEF RescueResults
  <2>8. ~running /\ ~interrupted /\ toGdb = << >> /\ fromGdb = << >>
    BY <2>2, <2>3 DEF RescueChannel, Arrived
  <2> QED BY <2>1, <2>2, <2>9, <2>5, <2>7, <2>8, RescueRests
<1>8. CASE ReadDumpEnds
  <2>1. PICK next : Ends("readDump", next) /\ UNCHANGED <<values, mode>>
    BY <1>8 DEF ReadDumpEnds
  <2>2. /\ todo # << >> /\ todo[1].name = "readDump" /\ todo[1] \in RescueOps
        /\ mode = "aborting"
        /\ waits' = [waits EXCEPT !["main"] = "no"]
        /\ UNCHANGED <<program, at, stack, running, interrupted, cleared, breakpoints, toGdb,
                       fromGdb, lastCommand, stops>>
        /\ ~Interrupting => Arrived
    BY <2>1, OverIs
  <2>3. todo[1] # DisconnectOp /\ todo[1] = ReadDump /\ Reads(todo[1]) /\ ~Interrupting
    BY <2>2, RescueOpIs DEF Interrupting, Reads
  <2>4. /\ dumps # << >> /\ Ends("readDump", << >>) /\ dumps' = Tail(dumps)
        /\ analysed' = Append(analysed, Head(dumps))
    BY <1>8, <2>2, <2>3 DEF ReadDumpEnds, Arrived
  <2>5. todo' = << >> \o Tail(todo)
    BY <2>4 DEF Ends
  <2>6. RescuePlan' /\ ~Interrupting' /\ ~ReadsOn'
    BY <2>1, <2>2, <2>3, <2>5, PlanGoesOn
  <2>7. RescueResults' /\ ~Unread'
    <3>1. Head(dumps) = at
      <4>1. dumps \in Seq({at})
        BY DEF RescueTyped
      <4>2. Head(dumps) \in {at}
        BY <2>4, <4>1, TailOf
      <4> QED BY <4>2
    <3>2. ReadsOn
      <4>1. 1 \in 1..Len(todo)
        <5>1. Len(todo) \in Nat /\ Len(todo) > 0
          BY <2>2, TailOf DEF RescuePlan
        <5> QED BY <5>1
      <4> QED BY <2>3, <4>1 DEF ReadsOn
    <3>3. /\ analysed \in Seq(Nat) /\ Increasing(analysed)
          /\ \A i \in 1..Len(analysed) : analysed[i] <= at
      BY <3>2 DEF RescueResults
    <3> QED BY <2>1, <2>2, <2>4, <2>6, <3>1, <3>3, OneMore
  <2>8. ~running /\ ~interrupted /\ toGdb = << >> /\ fromGdb = << >>
    BY <2>2, <2>3 DEF RescueChannel, Arrived
  <2> QED BY <2>1, <2>2, <2>4, <2>6, <2>7, <2>8, RescueRests
<1>9. CASE RescueEnds
  <2>1. PICK name : /\ name \in {"interruptTarget", "disconnect"} /\ Ends(name, << >>)
                    /\ name = "interruptTarget" =>
                         /\ toGdb = << >> /\ fromGdb = << >> /\ ~interrupted /\ mode' = mode
                    /\ name = "disconnect" => mode' = "rescued"
                    /\ UNCHANGED <<values, dumps, analysed>>
    BY <1>9 DEF RescueEnds, streamVars
  <2>2. /\ todo # << >> /\ todo[1].name = name /\ todo[1] \in RescueOps /\ Waiting
        /\ mode = "aborting" /\ todo' = << >> \o Tail(todo)
        /\ waits' = [waits EXCEPT !["main"] = "no"]
        /\ UNCHANGED <<program, at, stack, running, interrupted, cleared, breakpoints, toGdb,
                       fromGdb, lastCommand, stops>>
        /\ ~Interrupting => Arrived
    BY <2>1, OverIs
  <2>3. /\ ~Reads(todo[1]) /\ (Interrupting <=> name = "interruptTarget")
        /\ (todo[1] = DisconnectOp <=> name = "disconnect")
    BY <2>1, <2>2, RescueOpIs DEF Interrupting, Reads
  <2>4. mode' = IF todo[1] = DisconnectOp THEN "rescued" ELSE mode
    BY <2>1, <2>3
  <2>5. RescuePlan' /\ ~Interrupting' /\ (ReadsOn' => ReadsOn) /\ (ReadsOn => ReadsOn')
    BY <2>2, <2>3, <2>4, PlanGoesOn
  <2>6. mode' # "testing"
    BY <2>2, <2>4
  <2>7. RescueResults'
    BY <2>1, <2>2, <2>5, <2>6, ResultsRest DEF RescueResults
  <2>8. ~running /\ ~interrupted /\ toGdb = << >> /\ fromGdb = << >>
    <3>1. CASE Interrupting
      BY <2>1, <2>2, <2>3, <3>1
      DEF RescueChannel, BeforeInterrupt, InterruptSent, AfterInterrupt, RescueTyped
    <3>2. CASE ~Interrupting
      BY <2>2, <3>2 DEF RescueChannel, Arrived
    <3> QED BY <3>1, <3>2
  <2> QED BY <2>1, <2>2, <2>5, <2>7, <2>8, RescueRests
<1> QED BY <1>4, <1>6, <1>7, <1>8, <1>9

-----------------------------------------------------------------------------
(* gdb carries out a command. *)

(* A line that tells nothing is one of those there may be.                 *)
LEMMA PlainLines ==
  ASSUME at \in Nat, NEW f \in Frames, NEW m \in {"^running", "*running", "^done", "*stopped"},
         NEW line, line = [msg |-> m, frame |-> f, values |-> << >>, dumps |-> << >>]
  PROVE  line \in LinesHere /\ line \in LinesWith({<< >>}, {<< >>})
<1>1. << >> \in Seq(ValuesHere) /\ << >> \in Seq({at})
  OBVIOUS
<1> QED BY <1>1 DEF LinesHere, LinesWith

(* The answer with a value or a dump. *)
LEMMA DoneWith ==
  ASSUME NEW s
  PROVE  /\ [Done EXCEPT !.values = s]
              = [msg |-> "^done", frame |-> NoFrame, values |-> s, dumps |-> << >>]
         /\ [Done EXCEPT !.dumps = s]
              = [msg |-> "^done", frame |-> NoFrame, values |-> << >>, dumps |-> s]
BY DEF Done, Line

(* Lines join those that are there.                                        *)
LEMMA JoinLines ==
  ASSUME NEW S, NEW s \in Seq(S), NEW a \in S, NEW b \in S
  PROVE  /\ s \o <<a>> \in Seq(S) /\ s \o <<a, b>> \in Seq(S) /\ Append(s, a) \in Seq(S)
         /\ s = << >> => s \o <<a>> = <<a>>
<1>1. <<a>> \in Seq(S) /\ <<a, b>> \in Seq(S)
  OBVIOUS
<1>2. s \o <<a>> \in Seq(S) /\ s \o <<a, b>> \in Seq(S)
  BY <1>1, ConcatProperties
<1>3. Append(s, a) \in Seq(S)
  BY PutLast
<1>4. << >> \o <<a>> = <<a>>
  OBVIOUS
<1> QED BY <1>2, <1>3, <1>4

(* A target that returns stays in a function.                              *)
LEMMA CallerOf ==
  ASSUME NEW S, NEW s \in Seq(S), s # << >>
  PROVE  LET outer == IF Len(s) > 1 THEN Tail(s) ELSE s IN outer \in Seq(S) /\ outer # << >>
<1>1. /\ Tail(s) \in Seq(S) /\ (Tail(s) = << >> <=> Len(s) = 1)
      /\ Len(s) \in Nat
  BY TailOf
<1>2. Len(s) > 1 => Tail(s) # << >>
  <2>1. Tail(s) = << >> => Len(s) = 1
    BY <1>1, Zenon
  <2>2. \A n \in Nat : n > 1 => n # 1
    OBVIOUS
  <2> QED BY <1>1, <2>1, <2>2, Zenon
<1> QED BY <1>1, <1>2

(* Where the target is, and what it is in. *)
LEMMA RescueAt ==
  ASSUME Rescue
  PROVE  /\ at \in Nat /\ stack \in Seq(Texts) /\ cleared \in BOOLEAN /\ program \in Programs
         /\ ~running => stack # << >> /\ at <= Len(program)
<1>1. program \in Programs /\ at \in 1..(Len(program) + 1)
  BY DEF Rescue, RescueTyped
<1>2. at \in Nat
  BY <1>1, ProgramLength
<1> QED BY <1>1, <1>2 DEF Rescue, RescueTyped

(* The functions of a target that has been made to return or to call.      *)
LEMMA StackAfter ==
  ASSUME stack \in Seq(Texts), stack # << >>, NEW value \in Texts,
         ExecReturn(value) \/ SetProgramCounter(value)
  PROVE  /\ stack' \in Seq(Texts) /\ stack' # << >>
         /\ ExecReturn(value) =>
              \E fn \in Texts :
                fromGdb' = fromGdb \o <<[msg |-> "^done",
                                        frame |-> [fn |-> fn, stop |-> 0, step |-> at],
                                        values |-> << >>, dumps |-> << >>]>>
<1> DEFINE outer == IF Len(stack) > 1 THEN Tail(stack) ELSE stack
<1>1. /\ Tail(stack) \in Seq(Texts) /\ (Tail(stack) = << >> <=> Len(stack) = 1)
      /\ Len(stack) \in Nat
  BY TailOf
<1>2. outer \in Seq(Texts) /\ outer # << >>
  BY CallerOf
<1>3. Head(outer) \in Texts
  BY <1>2, TailOf
<1>4. /\ ExecReturn(value) => /\ stack' = IF value = "" THEN outer ELSE <<value>> \o outer
                              /\ Answer(<<[Done EXCEPT !.frame =
                                            [fn |-> Head(outer), stop |-> 0, step |-> at]]>>)
      /\ SetProgramCounter(value) => stack' = <<value>> \o Tail(stack)
  BY DEF ExecReturn, SetProgramCounter
<1> HIDE DEF outer
<1>5. /\ <<value>> \o outer \in Seq(Texts) /\ <<value>> \o Tail(stack) \in Seq(Texts)
      /\ <<value>> \o outer # << >> /\ <<value>> \o Tail(stack) # << >>
  BY <1>1, <1>2, PutFirst, EmptySeq
<1>6. stack' \in Seq(Texts) /\ stack' # << >>
  BY <1>2, <1>4, <1>5
<1>7. ExecReturn(value) =>
        fromGdb' = fromGdb \o <<[msg |-> "^done",
                                frame |-> [fn |-> Head(outer), stop |-> 0, step |-> at],
                                values |-> << >>, dumps |-> << >>]>>
  <2> DEFINE fr == [fn |-> Head(outer), stop |-> 0, step |-> at]
  <2> HIDE DEF fr
  <2>1. [Done EXCEPT !.frame = fr]
          = [msg |-> "^done", frame |-> fr, values |-> << >>, dumps |-> << >>]
    BY DEF Done, Line
  <2>2. ExecReturn(value) => fromGdb' = fromGdb \o <<[Done EXCEPT !.frame = fr]>>
    BY <1>4 DEF Answer, fr
  <2> QED BY <2>1, <2>2 DEF fr
<1> QED BY <1>3, <1>6, <1>7

(* Each command but -exec-continue leaves the target where it is, and its  *)
(* answer tells of that.                                                   *)
LEMMA GdbAnswers ==
  ASSUME Rescue, GdbStep, UNCHANGED runVars, ~running, NEW c, c = Head(toGdb),
         c.do \in Commands, c.do # "-exec-continue",
         c.do \in {"-exec-return", "set $pc", "-data-evaluate-expression"} => c.arg \in Texts,
         Unread => /\ c.do = "set" => c.arg # "test_result_index"
                   /\ c.do = "-data-evaluate-expression" => c.arg = "test_result_index"
  PROVE  /\ UNCHANGED <<program, at, running, interrupted>>
         /\ stack' \in Seq(Texts) /\ stack' # << >> /\ cleared' \in BOOLEAN
         /\ Unread \/ c.do # "set" \/ c.arg # "test_result_index" => cleared' = cleared
         /\ \E line \in LinesHere' :
              /\ fromGdb' = fromGdb \o <<line>>
              /\ c.do = "-data-evaluate-expression" => line.values # << >>
              /\ c.do = "-data-read-memory-bytes" => line.dumps # << >>
<1>1. /\ at \in Nat /\ stack \in Seq(Texts) /\ stack # << >> /\ cleared \in BOOLEAN
      /\ program \in Programs
  BY RescueAt
<1>2. NoFrame \in Frames
  BY DEF NoFrame, Frames, Texts
<1>3. Done = [msg |-> "^done", frame |-> NoFrame, values |-> << >>, dumps |-> << >>]
  BY DEF Done, Line
<1>4. UNCHANGED <<program, at, running, interrupted>> => Unread' = Unread /\ at' \in Nat
  BY <1>1 DEF Unread, Reports, runVars
<1>5. CASE c.do = "-exec-return" \/ c.do = "set $pc"
  <2>1. c.arg \in Texts
    BY <1>5
  <2>2. CASE ExecReturn(c.arg)
    <3>1. /\ stack' \in Seq(Texts) /\ stack' # << >>
          /\ \E fn \in Texts :
               fromGdb' = fromGdb \o <<[msg |-> "^done",
                                       frame |-> [fn |-> fn, stop |-> 0, step |-> at],
                                       values |-> << >>, dumps |-> << >>]>>
      BY <1>1, <2>1, <2>2, StackAfter
    <3>2. PICK fn \in Texts :
            fromGdb' = fromGdb \o <<[msg |-> "^done",
                                    frame |-> [fn |-> fn, stop |-> 0, step |-> at],
                                    values |-> << >>, dumps |-> << >>]>>
      BY <3>1
    <3>3. [fn |-> fn, stop |-> 0, step |-> at] \in Frames
      BY <1>1 DEF Frames
    <3>4. UNCHANGED <<program, at, running, interrupted, cleared>>
      BY <2>2 DEF ExecReturn
    <3> DEFINE line == [msg |-> "^done", frame |-> [fn |-> fn, stop |-> 0, step |-> at],
                        values |-> << >>, dumps |-> << >>]
    <3>5. line \in LinesHere
      BY <1>1, <3>3, PlainLines
    <3>6. LinesHere' = LinesHere
      BY <3>4, HereStands DEF runVars
    <3>7. fromGdb' = fromGdb \o <<line>>
      BY <3>2
    <3> HIDE DEF line
    <3> QED BY <1>1, <1>5, <3>1, <3>4, <3>5, <3>6, <3>7
  <2>3. CASE SetProgramCounter(c.arg)
    <3>1. stack' \in Seq(Texts) /\ stack' # << >>
      BY <1>1, <2>1, <2>3, StackAfter
    <3>2. UNCHANGED <<program, at, running, interrupted, cleared>> /\ fromGdb' = fromGdb \o <<Done>>
      BY <2>3 DEF SetProgramCounter, Answer
    <3>3. Done \in LinesHere
      BY <1>1, <1>2, <1>3, PlainLines
    <3>4. LinesHere' = LinesHere
      BY <3>2, HereStands DEF runVars
    <3> QED BY <1>1, <1>5, <3>1, <3>2, <3>3, <3>4
  <2> QED BY <1>5, <2>2, <2>3 DEF GdbStep, Refuse
<1>6. CASE c.do \in {"-break-insert", "-break-delete", "set"}
  <2>1. PICK x : SetBreakpoints(x) \/ (c.do = "set" /\ SetVariable(c.arg))
    BY <1>6 DEF GdbStep, Refuse
  <2>2. /\ UNCHANGED <<program, at, stack, running, interrupted>> /\ fromGdb' = fromGdb \o <<Done>>
        /\ cleared' \in BOOLEAN
        /\ c.do # "set" \/ c.arg # "test_result_index" => cleared' = cleared
    <3>1. CASE SetBreakpoints(x)
      BY <1>1, <3>1 DEF SetBreakpoints, Answer, targetVars
    <3>2. CASE c.do = "set" /\ SetVariable(c.arg)
      BY <1>1, <3>2 DEF SetVariable, Answer
    <3> QED BY <2>1, <3>1, <3>2
  <2>3. Unread => c.do # "set" \/ c.arg # "test_result_index"
    OBVIOUS
  <2>4. Done \in LinesHere'
    <3>1. << >> \in Seq(ValuesHere') /\ << >> \in Seq({at'})
      BY Zenon, EmptySeq
    <3> QED BY <1>2, <1>3, <3>1 DEF LinesHere, LinesWith
  <2> QED BY <1>1, <1>6, <2>2, <2>3, <2>4
<1>7. CASE c.do = "-data-evaluate-expression"
  <2> DEFINE v == [of |-> c.arg, positive |-> program[at].data /\ ~cleared]
             line == [msg |-> "^done", frame |-> NoFrame, values |-> <<v>>, dumps |-> << >>]
  <2>1. /\ UNCHANGED <<program, at, stack, running, interrupted, cleared>>
        /\ fromGdb' = fromGdb \o <<line>>
    <3>1. Evaluate(c.arg)
      BY <1>7 DEF GdbStep, Refuse
    <3>2. [Done EXCEPT !.values = <<v>>] = line
      BY DoneWith
    <3> HIDE DEF line
    <3> QED BY <3>1, <3>2 DEF Evaluate, Answer, targetVars
  <2>2. v \in ValuesHere
    <3>1. c.arg \in Texts /\ (Unread => c.arg = "test_result_index")
      BY <1>7
    <3>2. (program[at].data /\ ~cleared) \in BOOLEAN
      OBVIOUS
    <3> QED BY <3>1, <3>2 DEF ValuesHere, Values
  <2> HIDE DEF v
  <2>3. line \in LinesHere /\ line.values # << >>
    <3>1. <<v>> \in Seq(ValuesHere) /\ << >> \in Seq({at})
      BY <2>2, Tuples, EmptySeq
    <3>2. line.values = <<v>>
      OBVIOUS
    <3>3. <<v>> # << >>
      OBVIOUS
    <3> QED BY <1>2, <2>2, <3>1, <3>2, <3>3 DEF LinesHere, LinesWith
  <2>4. LinesHere' = LinesHere
    BY <2>1, HereStands DEF runVars
  <2> HIDE DEF line
  <2> QED BY <1>1, <1>7, <2>1, <2>3, <2>4
<1>8. CASE c.do = "-data-read-memory-bytes"
  <2> DEFINE line == [msg |-> "^done", frame |-> NoFrame, values |-> << >>, dumps |-> <<at>>]
  <2>1. /\ UNCHANGED <<program, at, stack, running, interrupted, cleared>>
        /\ fromGdb' = fromGdb \o <<line>>
    <3>1. ReadMemory
      BY <1>8 DEF GdbStep, Refuse
    <3>2. [Done EXCEPT !.dumps = <<at>>] = line
      BY DoneWith
    <3> HIDE DEF line
    <3> QED BY <3>1, <3>2 DEF ReadMemory, Answer, targetVars
  <2>2. line \in LinesHere /\ line.dumps # << >>
    <3>1. << >> \in Seq(ValuesHere) /\ <<at>> \in Seq({at})
      BY Tuples, EmptySeq
    <3>2. line.dumps = <<at>>
      OBVIOUS
    <3>3. <<at>> # << >>
      OBVIOUS
    <3> QED BY <1>2, <3>1, <3>2, <3>3 DEF LinesHere, LinesWith
  <2>3. LinesHere' = LinesHere
    BY <2>1, HereStands DEF runVars
  <2> HIDE DEF line
  <2> QED BY <1>1, <1>8, <2>1, <2>2, <2>3
<1> QED BY <1>5, <1>6, <1>7, <1>8 DEF Commands

(* Where there is nothing, it is of where the target stands.               *)
LEMMA CleanIsHere ==
  ASSUME Clean'
  PROVE  values' \in Seq(ValuesHere') /\ dumps' \in Seq({at'}) /\ fromGdb' \in Seq(LinesHere')
<1>1. fromGdb' \in Seq(LinesWith({<< >>}, {<< >>})) /\ values' = << >> /\ dumps' = << >>
  BY DEF Clean, LinesWith
<1>2. LinesWith({<< >>}, {<< >>}) \subseteq LinesHere'
  BY EmptySeq DEF LinesHere, LinesWith
<1>3. \A i \in 1..Len(fromGdb') : fromGdb'[i] \in LinesHere'
  BY <1>1, <1>2, ElementOfSeq
<1>4. fromGdb' \in Seq(LinesHere')
  BY <1>1, <1>3, SeqOf
<1> QED BY <1>1, <1>4, EmptySeq

(* The target leaves a step of which nothing is unread.                    *)
LEMMA StepIsRead ==
  ASSUME RescueResults, ~Unread, at \in Nat, at <= Len(program), program \in Programs,
         at' = at + 1, UNCHANGED <<program, analysed>>, ~cleared', ReadsOn, ReadsOn',
         mode' # "testing"
  PROVE  RescueResults'
<1>1. \A k : Reports(k)' = Reports(k)
  BY DEF Reports
<1>2. \A k \in 1..Len(program) :
        Reports(k) /\ k < at + 1 => \E i \in 1..Len(analysed) : analysed[i] = k
  <2> SUFFICES ASSUME NEW k \in 1..Len(program), Reports(k), k < at + 1
               PROVE  \E i \in 1..Len(analysed) : analysed[i] = k
    OBVIOUS
  <2>1. CASE k < at
    BY <2>1 DEF RescueResults
  <2>2. CASE k = at
    BY <2>2 DEF Unread
  <2>3. k < at \/ k = at
    BY ProgramLength
  <2> QED BY <2>1, <2>2, <2>3
<1>3. OnlyLastTwice'
  BY DEF RescueResults, OnlyLastTwice, Increasing
<1>4. \A i \in 1..Len(analysed) : analysed[i] <= at + 1
  <2> TAKE i \in 1..Len(analysed)
  <2>1. analysed[i] <= at /\ analysed[i] \in Nat
    BY ElementOfSeq DEF RescueResults
  <2> QED BY <2>1
<1> QED BY <1>1, <1>2, <1>3, <1>4 DEF RescueResults, Increasing

(* One of the commands of modeFailed. *)
LEMMA RescueCommand ==
  ASSUME Rescue, GdbStep, UNCHANGED runVars, ~Interrupting
  PROVE  Rescue'
<1>1. /\ toGdb # << >> /\ toGdb' = Tail(toGdb)
      /\ UNCHANGED <<lastCommand, values, dumps, waits, stops, todo, mode, analysed>>
  BY DEF GdbStep, runVars, decoderVars, streamVars
<1>2. /\ RescuePlan' /\ Interrupting' = Interrupting /\ ReadsOn' = ReadsOn /\ Waiting' = Waiting
      /\ RescuePlan /\ RescueResults
  BY <1>1, PlanStands DEF Rescue, Waiting
<1>3. /\ ~running /\ ~interrupted /\ Waiting /\ todo # << >> /\ toGdb = <<todo[1].command>>
      /\ fromGdb = << >> /\ lastCommand = "waitForResult"
  BY <1>1 DEF Rescue, RescueChannel, Resting, Sent, Returned, Arrived
<1>4. todo[1] \in RescueOps /\ todo[1] # InterruptOp
  <2>1. todo \in Seq(RescueOps)
    BY DEF Rescue, RescuePlan
  <2> QED BY <1>3, <2>1, TailOf DEF Interrupting
<1> DEFINE c == todo[1].command
<1>5. /\ c.do \in Commands /\ c.do # "-exec-continue"
      /\ c.do \notin {"-exec-return", "set $pc"}
      /\ c.do = "-data-evaluate-expression" <=> todo[1] = ReadIndex
      /\ c.do = "-data-read-memory-bytes" <=> todo[1] = ReadDump
      /\ c.do = "set" => c.arg # "test_result_index"
      /\ c.do = "-data-evaluate-expression" => c.arg = "test_result_index"
  <2>1. /\ c.do \in {"interrupt", "set", "-break-delete", "-break-insert",
                     "-data-evaluate-expression", "-data-read-memory-bytes"}
        /\ c.do = "interrupt" <=> todo[1] = InterruptOp
        /\ c.do = "-data-evaluate-expression" <=> todo[1] = ReadIndex
        /\ c.do = "-data-read-memory-bytes" <=> todo[1] = ReadDump
        /\ c.do = "set" => c.arg # "test_result_index"
        /\ todo[1] = ReadIndex => c.arg = "test_result_index"
    BY <1>4, RescueOpIs
  <2> QED BY <1>4, <2>1 DEF Commands
<1>6. Head(toGdb) = c /\ Tail(toGdb) = << >>
  <2> HIDE DEF c
  <2>1. toGdb = <<c>>
    BY <1>3 DEF c
  <2> QED BY <2>1
<1> HIDE DEF c
<1>7. "test_result_index" \in Texts
  BY DEF Texts
<1>8. /\ UNCHANGED <<program, at, running, interrupted>>
      /\ stack' \in Seq(Texts) /\ stack' # << >> /\ cleared' = cleared
      /\ \E line \in LinesHere' :
           /\ fromGdb' = fromGdb \o <<line>>
           /\ c.do = "-data-evaluate-expression" => line.values # << >>
           /\ c.do = "-data-read-memory-bytes" => line.dumps # << >>
  BY <1>3, <1>5, <1>6, <1>7, GdbAnswers
<1>9. PICK line \in LinesHere' :
        /\ fromGdb' = fromGdb \o <<line>>
        /\ c.do = "-data-evaluate-expression" => line.values # << >>
        /\ c.do = "-data-read-memory-bytes" => line.dumps # << >>
  BY <1>8
<1>10. /\ fromGdb' \in Seq(LinesHere') /\ fromGdb' = <<line>> /\ Len(fromGdb') = 1
       /\ fromGdb'[1] = line
  <2>1. << >> \in Seq(LinesHere')
    BY EmptySeq
  <2>2. fromGdb' = <<line>> /\ fromGdb' \in Seq(LinesHere')
    BY <1>3, <1>9, <2>1, JoinLines
  <2> QED BY <2>2
<1>11. values' \in Seq(ValuesHere')
  BY <1>1, <1>8, HereStands DEF Rescue, RescueTyped
<1>12. RescueTyped'
  BY <1>1, <1>2, <1>8, <1>10, <1>11 DEF Rescue, RescueTyped
<1>13. RescueChannel'
  <2>1. Returned'
    BY <1>1, <1>2, <1>3, <1>5, <1>6, <1>9, <1>10 DEF Returned
  <2> QED BY <1>2, <1>3, <1>8, <2>1 DEF RescueChannel
<1>14. RescueResults'
  BY <1>1, <1>2, <1>8, ReadingStands
<1> QED BY <1>2, <1>12, <1>13, <1>14 DEF Rescue

(* The interrupt. *)
LEMMA RescueInterrupt ==
  ASSUME Rescue, GdbStep, UNCHANGED runVars, Interrupting, Head(toGdb) = InterruptCommand
  PROVE  Rescue'
<1>1. /\ toGdb # << >> /\ toGdb' = Tail(toGdb)
      /\ UNCHANGED <<lastCommand, values, dumps, waits, stops, todo, mode, analysed>>
  BY DEF GdbStep, runVars, decoderVars, streamVars
<1>2. /\ RescuePlan' /\ Interrupting' = Interrupting /\ ReadsOn' = ReadsOn /\ Waiting' = Waiting
      /\ RescuePlan /\ RescueResults
  BY <1>1, PlanStands DEF Rescue, Waiting
<1>3. InterruptCommand.do = "interrupt"
  BY DEF InterruptCommand, Command
<1>4. Waiting /\ ~interrupted /\ toGdb = <<InterruptCommand>>
  <2>1. \A d : Old(d) => d # InterruptCommand
    BY <1>3 DEF Old, OldCommands, Commands
  <2>2. ~BeforeInterrupt
    <3> SUFFICES ASSUME BeforeInterrupt PROVE FALSE
      OBVIOUS
    <3>1. toGdb = <<toGdb[1]>> /\ Old(toGdb[1])
      BY <1>1 DEF BeforeInterrupt
    <3>2. Head(<<toGdb[1]>>) = toGdb[1]
      OBVIOUS
    <3> QED BY <2>1, <3>1, <3>2
  <2>3. InterruptSent
    BY <1>1, <2>2 DEF Rescue, RescueChannel, AfterInterrupt
  <2>4. ASSUME toGdb # <<InterruptCommand>> PROVE FALSE
    <3>1. toGdb = <<toGdb[1], InterruptCommand>> /\ Old(toGdb[1])
      BY <2>3, <2>4 DEF InterruptSent
    <3>2. Head(<<toGdb[1], InterruptCommand>>) = toGdb[1]
      OBVIOUS
    <3> QED BY <2>1, <3>1, <3>2
  <2> QED BY <2>3, <2>4 DEF InterruptSent
<1>5. /\ interrupted' = running /\ fromGdb' = fromGdb \o <<Done>>
      /\ UNCHANGED <<program, at, stack, running, cleared, breakpoints>>
  BY <1>3 DEF GdbStep, Interrupt, Answer
<1>6. /\ Done \in LinesHere /\ Done \in LinesWith({<< >>}, {<< >>})
  <2>1. NoFrame \in Frames
    BY DEF NoFrame, Frames, Texts
  <2>2. Done = [msg |-> "^done", frame |-> NoFrame, values |-> << >>, dumps |-> << >>]
    BY DEF Done, Line
  <2>3. at \in Nat
    BY RescueAt
  <2> QED BY <2>1, <2>2, <2>3, PlainLines
<1>7. ValuesHere' = ValuesHere /\ LinesHere' = LinesHere
  BY <1>1, <1>5, HereStands
<1>8. fromGdb' \in Seq(LinesHere')
  <2>1. fromGdb \in Seq(LinesHere)
    BY DEF Rescue, RescueTyped
  <2> QED BY <1>5, <1>6, <1>7, <2>1, JoinLines
<1>9. RescueTyped'
  BY <1>1, <1>2, <1>5, <1>7, <1>8 DEF Rescue, RescueTyped
<1>10. running => Clean' /\ ~cleared' /\ "MessageToDebugger" \in breakpoints'
  <2> SUFFICES ASSUME Clean PROVE Clean'
    BY <1>2, <1>5 DEF Rescue, RescueChannel
  <2>1. fromGdb \in Seq(LinesWith({<< >>}, {<< >>}))
    BY DEF Clean
  <2>2. fromGdb' \in Seq(LinesWith({<< >>}, {<< >>}))
    BY <1>5, <1>6, <2>1, JoinLines
  <2>3. values' = << >> /\ dumps' = << >>
    BY <1>1 DEF Clean
  <2> QED BY <2>2, <2>3 DEF Clean, LinesWith
<1>11. RescueChannel'
  <2>1. toGdb' = << >>
    BY <1>1, <1>4
  <2>2. AfterInterrupt'
    BY <1>2, <1>4, <1>5, <2>1 DEF AfterInterrupt
  <2> QED BY <1>2, <1>5, <1>10, <2>2 DEF RescueChannel
<1>12. RescueResults'
  BY <1>1, <1>2, <1>5, ReadingStands
<1> QED BY <1>2, <1>9, <1>11, <1>12 DEF Rescue

(* The command that was under way when the signal came.                    *)
LEMMA OldIs ==
  ASSUME Rescue, GdbStep, UNCHANGED runVars, Interrupting, Head(toGdb) # InterruptCommand
  PROVE  /\ Old(Head(toGdb)) /\ ~interrupted /\ ReadsOn
         /\ \/ ~Waiting /\ toGdb' = << >>
            \/ Waiting /\ toGdb' = <<InterruptCommand>>
<1>1. toGdb # << >> /\ toGdb' = Tail(toGdb)
  BY DEF GdbStep
<1>2. ReadsOn
  BY DEF Rescue, RescuePlan
<1>3. \A c, d : /\ Head(<<c>>) = c /\ Tail(<<c>>) = << >>
                /\ Head(<<c, d>>) = c /\ Tail(<<c, d>>) = <<d>>
  OBVIOUS
<1>4. CASE BeforeInterrupt
  <2>1. toGdb = <<toGdb[1]>> /\ Old(toGdb[1]) /\ ~Waiting /\ ~interrupted
    BY <1>1, <1>4 DEF BeforeInterrupt
  <2>2. Head(toGdb) = toGdb[1] /\ Tail(toGdb) = << >>
    BY <1>3, <2>1
  <2> QED BY <1>1, <1>2, <2>1, <2>2
<1>5. CASE InterruptSent
  <2>1. toGdb # <<InterruptCommand>>
    BY <1>3
  <2>2. toGdb = <<toGdb[1], InterruptCommand>> /\ Old(toGdb[1]) /\ Waiting /\ ~interrupted
    BY <1>5, <2>1 DEF InterruptSent
  <2>3. Head(toGdb) = toGdb[1] /\ Tail(toGdb) = <<InterruptCommand>>
    BY <1>3, <2>2
  <2> QED BY <1>1, <1>2, <2>2, <2>3
<1> QED BY <1>1, <1>4, <1>5 DEF Rescue, RescueChannel, AfterInterrupt

(* There is nothing but the interrupt left then. *)
LEMMA OldIsOver ==
  ASSUME Rescue, ~interrupted',
         \/ ~Waiting /\ toGdb' = << >>
         \/ Waiting /\ toGdb' = <<InterruptCommand>>,
         Waiting' = Waiting, Interrupting',
         running' => Clean' /\ ~cleared' /\ "MessageToDebugger" \in breakpoints'
  PROVE  RescueChannel'
<1>1. <<InterruptCommand>> # << >>
  OBVIOUS
<1> QED BY <1>1 DEF RescueChannel, BeforeInterrupt, InterruptSent

(* It resumes the target.                                                  *)
LEMMA OldContinues ==
  ASSUME Rescue, GdbStep, UNCHANGED runVars, Interrupting,
         NEW c, c = Head(toGdb), Old(c), ~interrupted, ReadsOn, c.do = "-exec-continue",
         \/ ~Waiting /\ toGdb' = << >>
         \/ Waiting /\ toGdb' = <<InterruptCommand>>
  PROVE  Rescue'
<1>1. UNCHANGED <<lastCommand, values, dumps, waits, stops, todo, mode, analysed>>
  BY DEF GdbStep, runVars, decoderVars, streamVars
<1>2. /\ RescuePlan' /\ Interrupting' = Interrupting /\ ReadsOn' = ReadsOn /\ Waiting' = Waiting
      /\ RescuePlan /\ mode # "testing"
  BY <1>1, PlanStands DEF Rescue, Waiting, RescuePlan
<1>3. /\ ~running /\ Clean /\ ~Unread /\ "MessageToDebugger" \in breakpoints
      /\ stack # <<"test", "group">> /\ stack # <<"group">>
  BY DEF Old
<1>4. Continue
  BY <1>3 DEF GdbStep, Refuse
<1>5. /\ running' = TRUE /\ stack' = << >> /\ cleared' = FALSE
      /\ fromGdb' = fromGdb \o <<Line("^running"), Line("*running")>>
      /\ UNCHANGED <<program, interrupted, breakpoints>>
  BY <1>4 DEF Continue, Answer
<1>6. at' = at + 1
  <2>1. GoesOn = {at + 1}
    BY <1>3 DEF GoesOn
  <2> QED BY <1>4, <2>1 DEF Continue
<1>7. at \in Nat /\ at <= Len(program) /\ program \in Programs
  BY <1>3, RescueAt
<1>8. at' \in 1..(Len(program') + 1) /\ at' \in Nat
  BY <1>5, <1>6, <1>7, ProgramLength
<1>9. Clean'
  <2>1. NoFrame \in Frames
    BY DEF NoFrame, Frames, Texts
  <2>2. /\ Line("^running")
             = [msg |-> "^running", frame |-> NoFrame, values |-> << >>, dumps |-> << >>]
        /\ Line("*running")
             = [msg |-> "*running", frame |-> NoFrame, values |-> << >>, dumps |-> << >>]
    BY DEF Line
  <2>3. /\ Line("^running") \in LinesWith({<< >>}, {<< >>})
        /\ Line("*running") \in LinesWith({<< >>}, {<< >>})
    BY <1>7, <2>1, <2>2, PlainLines
  <2>4. /\ fromGdb \in Seq(LinesWith({<< >>}, {<< >>})) /\ values = << >> /\ dumps = << >>
    BY <1>3 DEF Clean
  <2>5. fromGdb' \in Seq(LinesWith({<< >>}, {<< >>}))
    BY <1>5, <2>3, <2>4, JoinLines
  <2> QED BY <1>1, <2>4, <2>5 DEF Clean, LinesWith
<1>10. values' \in Seq(ValuesHere') /\ dumps' \in Seq({at'}) /\ fromGdb' \in Seq(LinesHere')
  BY <1>9, CleanIsHere
<1>11. << >> \in Seq(Texts)
  BY EmptySeq
<1>12. RescueTyped'
  BY <1>1, <1>2, <1>5, <1>8, <1>10, <1>11 DEF Rescue, RescueTyped
<1>13. RescueChannel'
  BY <1>2, <1>3, <1>5, <1>9, OldIsOver
<1>14. RescueResults'
  BY <1>1, <1>2, <1>3, <1>5, <1>6, <1>7, StepIsRead DEF Rescue
<1> QED BY <1>2, <1>12, <1>13, <1>14 DEF Rescue

(* It does not. *)
LEMMA OldAnswers ==
  ASSUME Rescue, GdbStep, UNCHANGED runVars, Interrupting,
         NEW c, c = Head(toGdb), Old(c), ~interrupted, ReadsOn, c.do # "-exec-continue",
         \/ ~Waiting /\ toGdb' = << >>
         \/ Waiting /\ toGdb' = <<InterruptCommand>>
  PROVE  Rescue'
<1>1. UNCHANGED <<lastCommand, values, dumps, waits, stops, todo, mode, analysed>>
  BY DEF GdbStep, runVars, decoderVars, streamVars
<1>2. /\ RescuePlan' /\ Interrupting' = Interrupting /\ ReadsOn' = ReadsOn /\ Waiting' = Waiting
      /\ RescuePlan /\ RescueResults /\ mode # "testing"
  BY <1>1, PlanStands DEF Rescue, Waiting, RescuePlan
<1>3. /\ ~running /\ Clean /\ c.do \in Commands /\ c.arg \in Texts
      /\ Unread => /\ c.do = "set" => c.arg # "test_result_index"
                   /\ c.do = "-data-evaluate-expression" => c.arg = "test_result_index"
  BY DEF Old, OldCommands
<1>4. /\ UNCHANGED <<program, at, running, interrupted>>
      /\ stack' \in Seq(Texts) /\ stack' # << >> /\ cleared' \in BOOLEAN
      /\ Unread => cleared' = cleared
      /\ \E line \in LinesHere' : fromGdb' = fromGdb \o <<line>>
  BY <1>3, GdbAnswers
<1>5. PICK line \in LinesHere' : fromGdb' = fromGdb \o <<line>>
  BY <1>4
<1>6. values' \in Seq(ValuesHere') /\ dumps' \in Seq({at'}) /\ fromGdb \in Seq(LinesHere')
  <2>1. fromGdb \in Seq(LinesWith({<< >>}, {<< >>})) /\ values = << >> /\ dumps = << >>
    BY <1>3 DEF Clean
  <2>2. LinesWith({<< >>}, {<< >>}) \subseteq LinesHere'
    BY EmptySeq DEF LinesHere, LinesWith
  <2>3. \A i \in 1..Len(fromGdb) : fromGdb[i] \in LinesHere'
    BY <2>1, <2>2, ElementOfSeq
  <2>4. fromGdb \in Seq(LinesHere')
    BY <2>1, <2>3, SeqOf
  <2> QED BY <1>1, <2>1, <2>4, EmptySeq
<1>7. fromGdb' \in Seq(LinesHere')
  BY <1>5, <1>6, JoinLines
<1>8. RescueTyped'
  BY <1>1, <1>2, <1>3, <1>4, <1>6, <1>7 DEF Rescue, RescueTyped
<1>9. RescueChannel'
  BY <1>2, <1>3, <1>4, OldIsOver
<1>10. RescueResults'
  <2>1. Unread => ~cleared
    BY <1>2 DEF RescueResults
  <2> QED BY <1>1, <1>2, <1>4, <2>1, ResultsRest
<1> QED BY <1>2, <1>8, <1>9, <1>10 DEF Rescue

(* gdb reads the next command of the rescue, or the one before.            *)
LEMMA RescueGdb ==
  ASSUME Rescue, GdbStep, UNCHANGED runVars
  PROVE  Rescue'
<1>1. CASE ~Interrupting
  BY <1>1, RescueCommand
<1>2. CASE Interrupting /\ Head(toGdb) = InterruptCommand
  BY <1>2, RescueInterrupt
<1>3. CASE Interrupting /\ Head(toGdb) # InterruptCommand
  BY <1>3, OldIs, OldContinues, OldAnswers
<1> QED BY <1>1, <1>2, <1>3

-----------------------------------------------------------------------------
(* The target runs on until it is interrupted or meets a breakpoint. *)

(* What holds while it runs. *)
LEMMA RescueRunning ==
  ASSUME Rescue, running
  PROVE  /\ Interrupting /\ ReadsOn /\ Clean /\ ~cleared /\ "MessageToDebugger" \in breakpoints
         /\ \/ ~Waiting /\ ~interrupted /\ toGdb = << >>
            \/ Waiting /\ ~interrupted /\ toGdb = <<InterruptCommand>>
            \/ Waiting /\ interrupted /\ toGdb = << >>
<1>1. Interrupting
  BY DEF Rescue, RescueChannel
<1>2. ReadsOn
  BY <1>1 DEF Rescue, RescuePlan
<1> QED BY <1>1, <1>2
        DEF Rescue, RescueChannel, BeforeInterrupt, InterruptSent, AfterInterrupt, Old

(* It stops. *)
LEMMA RescueStops ==
  ASSUME Rescue, running, at <= Len(program), NEW functions \in Seq(Texts), functions # << >>,
         Stops(functions),
         UNCHANGED <<breakpoints, toGdb, lastCommand, values, dumps, waits, todo, mode, analysed>>
  PROVE  Rescue'
<1>1. /\ running' = FALSE /\ interrupted' = FALSE /\ stack' = functions /\ stops' = stops + 1
      /\ fromGdb' = Append(fromGdb, [Line("*stopped") EXCEPT
              !.frame = [fn |-> Head(functions), stop |-> stops', step |-> at]])
      /\ UNCHANGED <<program, at, cleared>>
  BY DEF Stops
<1>2. /\ RescuePlan' /\ Interrupting' = Interrupting /\ ReadsOn' = ReadsOn /\ Waiting' = Waiting
      /\ RescuePlan /\ RescueResults
  BY PlanStands DEF Rescue, Waiting
<1>3. /\ Interrupting /\ Clean
      /\ \/ ~Waiting /\ ~interrupted /\ toGdb = << >>
         \/ Waiting /\ ~interrupted /\ toGdb = <<InterruptCommand>>
         \/ Waiting /\ interrupted /\ toGdb = << >>
  BY RescueRunning
<1>4. stops \in Nat /\ stops' \in Nat /\ at \in Nat
  <2>1. stops \in Nat /\ at \in Nat
    BY RescueAt DEF Rescue, RescueTyped
  <2> QED BY <1>1, <2>1
<1> DEFINE fr == [fn |-> Head(functions), stop |-> stops', step |-> at]
           line == [msg |-> "*stopped", frame |-> fr, values |-> << >>, dumps |-> << >>]
<1>5. fr \in Frames
  <2>1. Head(functions) \in Texts
    BY TailOf
  <2> QED BY <1>4, <2>1 DEF Frames
<1>6. fromGdb' = Append(fromGdb, line)
  <2>1. [Line("*stopped") EXCEPT !.frame = fr] = line
    <3> HIDE DEF fr
    <3> QED BY DEF Line
  <2> HIDE DEF line
  <2> QED BY <1>1, <2>1 DEF fr
<1>7. line \in LinesHere
  <2> HIDE DEF fr
  <2> QED BY <1>4, <1>5, PlainLines
<1> HIDE DEF line, fr
<1>8. ValuesHere' = ValuesHere /\ LinesHere' = LinesHere
  BY <1>1, HereStands
<1>9. fromGdb' \in Seq(LinesHere')
  <2>1. fromGdb \in Seq(LinesHere)
    BY DEF Rescue, RescueTyped
  <2> QED BY <1>6, <1>7, <1>8, <2>1, JoinLines
<1>10. RescueTyped'
  BY <1>1, <1>2, <1>4, <1>8, <1>9 DEF Rescue, RescueTyped
<1>11. RescueChannel'
  <2>1. CASE Waiting /\ interrupted /\ toGdb = << >>
    <3>1. AfterInterrupt'
      BY <1>1, <1>2, <2>1 DEF AfterInterrupt
    <3> QED BY <1>1, <1>2, <1>3, <3>1 DEF RescueChannel
  <2>2. CASE ~(Waiting /\ interrupted /\ toGdb = << >>)
    BY <1>1, <1>2, <1>3, <2>2, OldIsOver
  <2> QED BY <2>1, <2>2
<1>12. RescueResults'
  BY <1>1, <1>2, ReadingStands
<1> QED BY <1>2, <1>10, <1>11, <1>12 DEF Rescue

(* It goes on from a step without a message. *)
LEMMA RescueProceeds ==
  ASSUME Rescue, running, at <= Len(program), Proceeds, Kind(at) \notin Messages,
         UNCHANGED <<breakpoints, toGdb, lastCommand, values, dumps, waits, todo, mode, analysed>>
  PROVE  Rescue'
<1>1. /\ at' = at + 1
      /\ UNCHANGED <<program, stack, running, interrupted, fromGdb, stops, cleared>>
  BY DEF Proceeds
<1>2. /\ RescuePlan' /\ Interrupting' = Interrupting /\ ReadsOn' = ReadsOn /\ Waiting' = Waiting
      /\ RescuePlan /\ mode # "testing" /\ Clean' = Clean
  BY <1>1, PlanStands DEF Rescue, Waiting, RescuePlan, Clean
<1>3. /\ Interrupting /\ ReadsOn /\ Clean /\ ~cleared /\ "MessageToDebugger" \in breakpoints
      /\ \/ ~Waiting /\ ~interrupted /\ toGdb = << >>
         \/ Waiting /\ ~interrupted /\ toGdb = <<InterruptCommand>>
         \/ Waiting /\ interrupted /\ toGdb = << >>
  BY RescueRunning
<1>4. at \in Nat /\ program \in Programs /\ at' \in 1..(Len(program') + 1)
  <2>1. at \in Nat /\ program \in Programs
    BY RescueAt
  <2> QED BY <1>1, <2>1, ProgramLength
<1>5. values' \in Seq(ValuesHere') /\ dumps' \in Seq({at'}) /\ fromGdb' \in Seq(LinesHere')
  BY <1>2, <1>3, CleanIsHere
<1>6. RescueTyped'
  BY <1>1, <1>2, <1>4, <1>5 DEF Rescue, RescueTyped
<1>7. RescueChannel'
  <2>1. CASE Waiting /\ interrupted /\ toGdb = << >>
    <3>1. AfterInterrupt'
      BY <1>1, <1>2, <2>1 DEF Rescue, RescueTyped, AfterInterrupt
    <3> QED BY <1>1, <1>2, <1>3, <3>1 DEF RescueChannel
  <2>2. CASE ~(Waiting /\ interrupted /\ toGdb = << >>)
    BY <1>1, <1>2, <1>3, <2>2, OldIsOver
  <2> QED BY <2>1, <2>2
<1>8. ~Unread
  BY DEF Unread, Reports, Kind, Messages
<1>9. RescueResults'
  BY <1>1, <1>2, <1>3, <1>4, <1>8, StepIsRead DEF Rescue
<1> QED BY <1>2, <1>6, <1>7, <1>9 DEF Rescue

(* Both. *)
LEMMA RescueTarget ==
  ASSUME Rescue, TargetStep, UNCHANGED runVars
  PROVE  Rescue'
<1>1. /\ running /\ at <= Len(program)
      /\ UNCHANGED <<breakpoints, toGdb, lastCommand, values, dumps, waits, todo, mode, analysed>>
  BY DEF TargetStep, runVars, decoderVars, streamVars
<1>2. program \in Programs /\ at \in 1..Len(program)
  BY <1>1, ProgramLength, RescueAt DEF Rescue, RescueTyped
<1>3. <<"test", "group">> \in Seq(Texts) /\ <<"test", "group">> # << >>
  <2>1. "test" \in Texts /\ "group" \in Texts
    BY DEF Texts
  <2> QED BY <2>1, Tuples
<1>4. StackIn(program[at]) \in Seq(Texts) /\ StackIn(program[at]) # << >>
  <2>1. StackIn(program[at]) \in Seq(Texts)
    BY <1>2, StackFacts
  <2>2. \A a, b, c : <<a, b, c>> # << >> /\ <<a, b>> # << >>
    OBVIOUS
  <2>3. \/ StackIn(program[at]) = <<"MessageToDebugger", Caller(program[at]), "test">>
        \/ StackIn(program[at]) = <<program[at].fn, "test">>
        \/ StackIn(program[at]) = <<"detachTarget", "test">>
        \/ StackIn(program[at]) = <<"test", "group">>
    BY <1>2, StackFacts DEF StopKinds
  <2> QED BY <2>1, <2>2, <2>3
<1>5. CASE Stops(<<"test", "group">>) \/ Stops(StackIn(program[at]))
  BY <1>1, <1>3, <1>4, <1>5, RescueStops
<1>6. CASE Proceeds /\ (Head(StackIn(program[at])) \notin breakpoints \/ Kind(at) = "slow")
  <2>1. Kind(at) \notin Messages
    <3> SUFFICES ASSUME Kind(at) \in Messages PROVE FALSE
      OBVIOUS
    <3>1. StackIn(program[at]) = <<"MessageToDebugger", Caller(program[at]), "test">>
      BY <1>2, StackFacts
    <3>2. Head(StackIn(program[at])) \in breakpoints
      BY <1>1, <3>1, RescueRunning
    <3> QED BY <1>6, <3>2 DEF Messages
  <2> QED BY <1>1, <1>6, <2>1, RescueProceeds
<1> QED BY <1>5, <1>6 DEF TargetStep, Kind

-----------------------------------------------------------------------------
(* The runs that a signal may end *)

(* Every step of the rescue goes on with it. *)
LEMMA RescueStep ==
  ASSUME Untimed, Rescue, [Next]_vars
  PROVE  Rescue'
<1> USE DEF Untimed
<1>1. mode # "testing" /\ waits["timer"] = "no"
  BY DEF Rescue, RescuePlan, RescueTyped
<1>2. CASE UNCHANGED vars
  <2>1. UNCHANGED <<program, at, stack, running, interrupted, cleared, breakpoints, toGdb,
                    fromGdb, values, dumps, lastCommand, waits, stops, todo, analysed, mode>>
    BY <1>2 DEF vars, sessionVars, targetVars, decoderVars, streamVars, runVars
  <2> QED BY <2>1, RescueStands
<1>3. CASE Main
  <2>1. ~TakeFrame /\ ~EndOfLoop
    BY <1>1 DEF TakeFrame, EndOfLoop
  <2> QED BY <1>3, <2>1, RescueSends, RescueSeesStop, RescueCommandEnds DEF Main
<1>4. CASE Abort
  <2>1. AlarmRings
    BY <1>1, <1>4 DEF Abort, Signal
  <2>2. /\ mode = "aborting" /\ mode' = "exited"
        /\ UNCHANGED <<program, at, stack, running, interrupted, cleared, breakpoints, toGdb,
                       fromGdb, values, dumps, lastCommand, waits, stops, todo, analysed>>
    BY <2>1 DEF AlarmRings, sessionVars, targetVars, decoderVars, streamVars
  <2> QED BY <2>2, RescueStands
<1>5. ~Timer
  BY <1>1 DEF Timer, TimerEnds, TimerSeesStop, SeesStop, InterruptEnds, Succeeds, Fails
<1>6. CASE Session
  <2>1. CASE (SetLateState \/ PushFrame) /\ UNCHANGED runVars
    <3>1. /\ mode' = mode
          /\ UNCHANGED <<program, at, stack, running, interrupted, cleared, breakpoints, toGdb,
                         fromGdb, values, dumps, lastCommand, waits, stops, todo, analysed>>
      BY <2>1 DEF SetLateState, PushFrame, targetVars, runVars
    <3> QED BY <3>1, RescueStands
  <2> QED BY <1>6, <2>1, RescueDecodes, RescueGdb, RescueTarget DEF Session, Reader
<1> QED BY <1>2, <1>3, <1>4, <1>5, <1>6 DEF Next

(* The loop converses with gdb and takes every message, until a signal     *)
(* starts the rescue.                                                      *)
SessionInv == (Inv /\ MessagesTaken) \/ Rescue

(* Whenever the signal comes, whatever is under way between the host, gdb  *)
(* and the target then, the one or the other describes the state.          *)
THEOREM SessionHolds == ASSUME Untimed PROVE Spec => []SessionInv
<1>1. Init => SessionInv
  BY InitInv, NoneTaken DEF SessionInv
<1>2. SessionInv /\ [Next]_vars => SessionInv'
  <2> SUFFICES ASSUME SessionInv, [Next]_vars PROVE SessionInv'
    OBVIOUS
  <2>1. CASE Rescue
    BY <2>1, RescueStep DEF SessionInv
  <2>2. CASE Inv /\ MessagesTaken /\ Signal
    BY <2>2, SignalRescues DEF SessionInv
  <2>3. CASE Inv /\ MessagesTaken /\ ~Signal
    BY <2>3, StepInv, TakenKeeps DEF SessionInv
  <2> QED BY <2>1, <2>2, <2>3 DEF SessionInv
<1> QED BY <1>1, <1>2, PTL DEF Spec

(* What is read when the rescue is over. *)
LEMMA RescueIsRead ==
  ASSUME Rescue
  PROVE  EndLosesNothing /\ OnlyLastTwice /\ NothingRefused
<1>1. OnlyLastTwice
  BY DEF Rescue, RescueResults
<1>2. NothingRefused
  <2>1. \A k \in 1..Len(fromGdb) : fromGdb[k] \in LinesHere
    <3>1. fromGdb \in Seq(LinesHere)
      BY DEF Rescue, RescueTyped
    <3> QED BY <3>1, ElementOfSeq
  <2>2. Error.msg = "^error"
    BY DEF Error, Line
  <2>3. \A l \in LinesHere : l.msg # "^error"
    BY DEF LinesHere, LinesWith
  <2> QED BY <2>1, <2>2, <2>3 DEF NothingRefused
<1>3. EndLosesNothing
  <2> SUFFICES ASSUME mode = "rescued", NEW k \in 1..Len(program), k <= at, Reports(k)
               PROVE  \E i \in 1..Len(analysed) : analysed[i] = k
    BY DEF EndLosesNothing, Rescue, RescuePlan
  <2>1. ~ReadsOn
    BY DEF Rescue, RescuePlan, ReadsOn
  <2>2. ~Unread
    BY <2>1 DEF Rescue, RescueResults
  <2>3. at \in Nat /\ program \in Programs
    BY RescueAt
  <2>4. k < at \/ (k = at /\ at <= Len(program))
    BY <2>3, ProgramLength
  <2> QED BY <2>2, <2>4 DEF Unread, Rescue, RescueResults
<1> QED BY <1>1, <1>2, <1>3

(* A batch of results is never lost by a signal: when modeFailed comes to  *)
(* its end, or the loop to its own, every batch the target has reported is *)
(* analysed, wherever the signal has interrupted the loop.                 *)
THEOREM SignalLosesNothing == ASSUME Untimed PROVE Spec => []EndLosesNothing
<1>1. SessionInv => EndLosesNothing
  BY EndedIsRead, RescueIsRead DEF SessionInv
<1> QED BY <1>1, SessionHolds, PTL

(* None is counted twice but the last one, and only by modeFailed. *)
THEOREM SignalCountsLastTwice == ASSUME Untimed PROVE Spec => []OnlyLastTwice
<1>1. SessionInv => OnlyLastTwice
  BY EndedIsRead, RescueIsRead DEF SessionInv
<1> QED BY <1>1, SessionHolds, PTL

(* gdb refuses no command of modeFailed, nor the one it interrupts: the    *)
(* target stands still when the handler has slept.                         *)
THEOREM SignalIsHeeded == ASSUME Untimed PROVE Spec => []NothingRefused
<1>1. SessionInv => NothingRefused
  BY NoErrors, RescueIsRead DEF SessionInv
<1> QED BY <1>1, SessionHolds, PTL
================================================================================
