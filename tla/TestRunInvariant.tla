--------------------------- MODULE TestRunInvariant ---------------------------
(***************************************************************************)
(* The conversation of executeAllTest with gdb when neither a timeout nor  *)
(* a signal comes in between, for every program of the target: sendCommand *)
(* with its two flags is as good as a call that returns with the answer.   *)
(***************************************************************************)
EXTENDS TestRun, SequenceTheorems, WellFoundedInduction, TLAPS

(* The main thread is the only one that sends commands, and usleep(1000)   *)
(* gives the reader the time to pass on what it has decoded.               *)
Undisturbed == Prompt /\ ~targetTimeout /\ ~Signals
-----------------------------------------------------------------------------
(* The operations of the loop. *)

Names == {"execute", "evaluate", "disabledTests", "readIndex", "readDump", "buffToSmall",
          "jumpOut", "addStub", "addMock", "reduce", "exit"}
Commands == {"set", "-break-delete", "-break-insert", "-exec-continue", "-exec-return",
             "set $pc", "-data-evaluate-expression", "-data-read-memory-bytes"}
Texts ==
  STRING \union {"", "memset", "test_result_index", "breaksMode", "disabledTest", "*res",
                 "-target-detach", "detachTarget", "MessageToDebugger", "addResult",
                 "eUnitExecuteAllTests", "whenStub", "whenMock", "deleteAllMocks", "test",
                 "group"}

Continues(op) == op.command.do = "-exec-continue"
Evaluates(op) == op.command.do = "-data-evaluate-expression"
Deletes(op) == op.command.do = "-break-delete"
Inserts(op) == op.command.do = "-break-insert"
Reads(op) == op.name \in {"readIndex", "readDump"}
Registers(op) == op.name \in {"addStub", "addMock"}
Reduces(op) == op.name = "reduce"
Redirects(op) == op.command.do = "set $pc"
Leaves(op) == op.name = "exit"

(* What an operation sends, by its name. *)
Shape(op) ==
  /\ op.name = "execute" =>
       op.command.do \in {"set", "-break-delete", "-break-insert", "-exec-continue"}
  /\ op.name \in {"evaluate", "disabledTests", "readIndex"} <=> Evaluates(op)
  /\ op.name = "readIndex" => op.command.arg = "test_result_index"
  /\ op.name = "readDump" <=> op.command.do = "-data-read-memory-bytes"
  /\ Evaluates(op) \/ op.name = "readDump" => ~op.waitForStopped
  /\ op.name \in {"buffToSmall", "jumpOut", "addStub", "addMock"} =>
       op.command.do = "-exec-return" /\ op.command.arg = ""
  /\ Reduces(op) => op.command.do = "-exec-return" \/ Redirects(op)
  /\ Redirects(op) => Reduces(op)
  /\ Leaves(op) => op.command.do = "set"
Ops == {op \in [name: Names, command: [do: Commands, arg: Texts], waitForStopped: BOOLEAN] :
          Shape(op)}

Frames == [fn: Texts, stop: Nat, step: Nat]
Values == [of: Texts, positive: BOOLEAN]
Lines == [msg: {"^running", "*running", "^done", "*stopped"}, frame: Frames,
          values: Seq(Values), dumps: Seq(Nat)]
Replacements == [when: Texts, then: [do: Commands, arg: Texts]]

Kind(k) == program[k].kind
Waiting == waits["main"] # "no"

(* Has gdb carried out the command of the first operation?  The next one   *)
(* it will carry out.                                                      *)
carried == Waiting /\ toGdb = << >>
place == IF carried THEN 2 ELSE 1
Ahead == place <= Len(todo)

Typed ==
  /\ program \in Programs /\ at \in Nat /\ stops \in Nat
  /\ running \in BOOLEAN /\ cleared \in BOOLEAN /\ testNotFinYet \in BOOLEAN
  /\ stack \in Seq(Texts) /\ todo \in Seq(Ops)
  /\ handled \in Seq(Frames) /\ stopFrames \in Seq(Frames) /\ frame \in Frames
  /\ analysed \in Seq(Nat) /\ mocks \in Seq(Replacements)
  /\ fromGdb \in Seq(Lines) /\ decoded \in [state: {"none", "stopped", "running"}, frame: Frames]
  /\ waits \in [Threads -> {"no", "stopped", "done"}]
  /\ waits["timer"] = "no" /\ ~interrupted /\ ~isTimeout
  /\ mode \in {"testing", "ended", "exited"}
  /\ mode # "testing" => todo = << >>
-----------------------------------------------------------------------------
(* The channel: the phases a command goes through. *)

Start(op) == IF op.waitForStopped THEN "stopped" ELSE "done"
Asking(flag) ==
  todo # << >> /\ waits["main"] = Start(todo[1]) /\ decoded = Nothing /\ lastCommand = flag

Quiet == ~Waiting /\ toGdb = << >> /\ fromGdb = << >> /\ decoded = Nothing /\ ~running

(* The command is on its way to gdb, then its answer is on its way back.   *)
Asked ==
  /\ Asking("waitForResult") /\ debuggerState = "reset" /\ ~running
  /\ toGdb = <<todo[1].command>> /\ fromGdb = << >>
Answered ==
  /\ Asking("waitForResult") /\ debuggerState = "reset" /\ ~running
  /\ ~Continues(todo[1]) /\ toGdb = << >>
  /\ Len(fromGdb) = 1 /\ fromGdb[1].msg = "^done"

(* It is decoded but for the state; then the flags are as they should be.  *)
Decoded ==
  /\ todo # << >> /\ waits["main"] = Start(todo[1]) /\ ~running
  /\ ~Continues(todo[1]) /\ toGdb = << >> /\ fromGdb = << >>
  /\ decoded.state = "stopped" /\ lastCommand = "done" /\ debuggerState = "reset"
Noticed ==
  /\ todo # << >> /\ waits["main"] \in {Start(todo[1]), "done"} /\ ~running
  /\ toGdb = << >> /\ fromGdb = << >>
  /\ decoded.state = "none" /\ lastCommand = "done" /\ debuggerState = "stopped"
  /\ Continues(todo[1]) => todo[1].waitForStopped

(* The target has been resumed and, where it does not run, has stopped.    *)
StopFrame(s, k) == [fn |-> Head(StackIn(program[k])), stop |-> s, step |-> k]
StopLine ==
  [msg |-> "*stopped", frame |-> StopFrame(stops, at), values |-> << >>, dumps |-> << >>]
Comes(lines) == fromGdb = IF running THEN lines ELSE Append(lines, StopLine)
Resumed ==
  /\ todo # << >> /\ waits["main"] = Start(todo[1]) /\ Continues(todo[1]) /\ toGdb = << >>
  /\ ~todo[1].waitForStopped => running /\ at = Len(program) + 1
  /\ \/ /\ Comes(<<Line("^running"), Line("*running")>>) /\ decoded = Nothing
        /\ lastCommand = "waitForResult" /\ debuggerState = "reset"
     \/ /\ Comes(<<Line("*running")>>)
        /\ decoded \in {[state |-> "running", frame |-> NoFrame], Nothing}
        /\ lastCommand = "done" /\ debuggerState = "running"
     \/ /\ Comes(<< >>) /\ decoded = Nothing
        /\ lastCommand = "done" /\ debuggerState = "running"

(* The last continue is not waited for. *)
Ended ==
  /\ ~Waiting /\ todo = << >> /\ toGdb = << >> /\ running /\ at = Len(program) + 1
  /\ fromGdb \in {<< >>, <<Line("*running")>>} /\ decoded = Nothing
  /\ mode = "testing" => frame # NoFrame /\ Kind(frame.step) = "finishAllTest"

Channel == Quiet \/ Asked \/ Answered \/ Decoded \/ Noticed \/ Resumed \/ Ended

(* What comes with an answer: a value, a dump. *)
Value ==
  IF carried /\ Evaluates(todo[1])
  THEN <<[of |-> todo[1].command.arg, positive |-> program[at].data /\ ~cleared]>>
  ELSE << >>
Dump == IF carried /\ todo[1].name = "readDump" THEN <<at>> ELSE << >>
Data ==
  /\ values = (IF fromGdb = << >> THEN Value ELSE << >>)
  /\ dumps = (IF fromGdb = << >> THEN Dump ELSE << >>)
  /\ \A k \in 1..Len(fromGdb) : fromGdb[k].values = Value /\ fromGdb[k].dumps = Dump
-----------------------------------------------------------------------------
(* The list of operations: what may follow what. *)

DetachBreakpoint == InsertBreakpoint("detachTarget")
MessageBreakpoint == InsertBreakpoint("MessageToDebugger")
OnlyFirst(op) ==
  /\ ~Reads(op) /\ ~Registers(op) /\ ~Reduces(op) /\ ~Deletes(op)
  /\ Inserts(op) => op \in {DetachBreakpoint, MessageBreakpoint}
Follows(a, b) ==
  /\ ~Continues(a) /\ ~Leaves(a) /\ OnlyFirst(b)
  /\ Deletes(a) <=> b = DetachBreakpoint
  /\ a = DetachBreakpoint <=> b = MessageBreakpoint
  /\ Reduces(a) => Continues(b)
IsLast(op) ==
  IF frame.fn = "detachTarget" THEN Leaves(op)
  ELSE /\ Continues(op)
       /\ op.waitForStopped <=> ~(frame # NoFrame /\ Kind(frame.step) = "finishAllTest")
Plan ==
  /\ \A k \in 1..(Len(todo) - 1) : Follows(todo[k], todo[k + 1])
  /\ todo # << >> => IsLast(todo[Len(todo)])
-----------------------------------------------------------------------------
(* The stops of the target and the frames of the host. *)

StopKinds == Messages \union {"call", "detachTarget"}

(* The frames there will be when the answer has been decoded. *)
arriving ==
  IF fromGdb # << >> /\ fromGdb[Len(fromGdb)].frame # NoFrame
  THEN fromGdb[Len(fromGdb)].frame ELSE decoded.frame
allFrames == IF arriving = NoFrame THEN stopFrames ELSE Append(stopFrames, arriving)
latest == allFrames[Len(allFrames)]

(* The target stands where the host handles its stop, or has stopped anew. *)
Handling == ~running /\ stops = Len(handled)
NewStop == stops = Len(handled) + 1

HandledInOrder ==
  /\ \A k \in 1..Len(handled) :
       /\ handled[k] = StopFrame(k, handled[k].step)
       /\ handled[k].step \in 2..Len(program) /\ Kind(handled[k].step) \in StopKinds
  /\ \A j, k \in 1..Len(handled) : j < k => handled[j].step < handled[k].step
  /\ frame # NoFrame => handled # << >> /\ frame = handled[Len(handled)]
  /\ mode = "ended" =>
       /\ handled # << >> /\ handled[Len(handled)].fn = "MessageToDebugger"
       /\ handled[Len(handled)].step = Len(program)

Stands ==
  /\ stops \in {Len(handled), Len(handled) + 1}
  /\ at \in 1..(Len(program) + 1) /\ (~running => at <= Len(program))
  /\ Handling /\ mode = "testing" =>
       IF handled = << >> THEN at = 1 /\ frame = NoFrame ELSE frame # NoFrame /\ frame.step = at
  /\ Handling /\ mode = "testing" /\ ~Ahead => todo # << >> /\ Leaves(todo[1])
  /\ Ahead => Handling
  /\ running => stops = Len(handled)
  /\ running \/ NewStop =>
       /\ at > 1 /\ (handled # << >> => handled[Len(handled)].step < at)
       /\ frame.fn # "detachTarget" /\ ~cleared
  /\ NewStop =>
       /\ ~running /\ Kind(at) \in StopKinds /\ mode = "testing"
       /\ stack = StackIn(program[at]) /\ Head(stack) \in breakpoints
       /\ allFrames # << >> /\ latest = StopFrame(stops, at)

(* The loop goes on unless the last stop was finishAllTest. *)
GoesRound ==
  /\ frame # NoFrame /\ frame.fn \notin {"MessageToDebugger", "detachTarget"} => testNotFinYet
  /\ frame # NoFrame /\ frame.fn = "MessageToDebugger" => ~testNotFinYet

(* The functions the target is in. *)
InTest ==
  /\ ~running => Len(stack) > 0 /\ stack[Len(stack)] = "test"
  /\ Ahead /\ (Registers(todo[place]) \/ Reduces(todo[place])) => stack = StackIn(program[at])

(* jumpOutOfCurrentFunction finds the frame of its own command. *)
JumpsOut ==
  /\ carried /\ todo[1].name \in {"buffToSmall", "addStub", "addMock"} =>
       /\ allFrames # << >> /\ latest.step = at
       /\ Registers(todo[1]) => latest.fn \in {"whenStub", "whenMock"}
  /\ todo # << >> /\ Registers(todo[1]) => Handling /\ Kind(at) \in {"addStub", "addMock"}
-----------------------------------------------------------------------------
(* The results. *)

Batches ==
  /\ BatchesOnce
  /\ \A i \in 1..Len(analysed) :
       \E k \in 1..Len(handled) : HasBatch(handled[k]) /\ handled[k].step = analysed[i]
  /\ \A k \in 1..Len(handled) :
       HasBatch(handled[k]) =>
         \/ \E i \in 1..Len(analysed) : analysed[i] = handled[k].step
         \/ k = Len(handled) /\ todo # << >> /\ Reads(todo[1])
  /\ todo # << >> /\ Reads(todo[1]) =>
       /\ ~cleared /\ Handling /\ frame # NoFrame
       /\ Kind(at) \in {"bufferIsFull", "bufferToSmall", "finishAllTest"}
       /\ \A i \in 1..Len(analysed) : analysed[i] < at
       /\ todo[1].name = "readDump" => program[at].data
-----------------------------------------------------------------------------
(* Stubs and mocks. *)

(* The registrations that are in force after the first m steps. *)
Live(m) ==
  {j \in 1..m : /\ Kind(j) \in {"addStub", "addMock"}
                /\ \A d \in 1..m : Kind(d) = "deleteMocks" => d < j}
Lists(S) ==
  \E f \in [1..Len(mocks) -> S] :
    /\ \A i \in 1..Len(mocks) :
         mocks[i] = [when |-> program[f[i]].fn, then |-> Then(program[f[i]])]
    /\ \A i, j \in 1..Len(mocks) : i < j => f[i] < f[j]
    /\ \A s \in S : \E i \in 1..Len(mocks) : f[i] = s

(* The steps the list of mocks accounts for. *)
passed ==
  IF running \/ NewStop \/ (todo # << >> /\ Registers(todo[1])) THEN at - 1 ELSE at
Registered == ~(Handling /\ Kind(at) = "detachTarget") => Lists(Live(passed))

Wanted == EUnitBreakpoints \union {mocks[k].when : k \in 1..Len(mocks)}
Breaks ==
  IF Ahead
  THEN LET op == todo[place]
       IN  /\ Deletes(op) => mocks = << >>
           /\ op = DetachBreakpoint => mocks = << >> /\ breakpoints = {}
           /\ op = MessageBreakpoint => mocks = << >> /\ breakpoints = {"detachTarget"}
           /\ Inserts(op) /\ op \notin {DetachBreakpoint, MessageBreakpoint} =>
                breakpoints \union {op.command.arg} = Wanted
           /\ ~Deletes(op) /\ ~Inserts(op) => breakpoints = Wanted
  ELSE breakpoints = Wanted

Replaced ==
  /\ CallsAreReplaced
  /\ Ahead /\ Kind(at) = "call" =>
       \/ Continues(todo[place]) /\ Head(stack) = Replacement(at)
       \/ /\ Reduces(todo[place]) /\ HasMock(program[at].fn)
          /\ todo[place].command = getThen(program[at].fn)
  /\ Ahead /\ Reduces(todo[place]) => Kind(at) = "call"
  /\ Handling /\ Kind(at) = "call" /\ todo # << >> => Continues(todo[1]) \/ Reduces(todo[1])

Inv ==
  /\ Typed /\ Channel /\ Data /\ Plan /\ HandledInOrder /\ Stands /\ GoesRound /\ InTest
  /\ JumpsOut /\ Batches /\ Registered /\ Breaks /\ Replaced
-----------------------------------------------------------------------------
(* Sequences *)

(* A set of numbers has a least one. *)
LEMMA Least ==
  ASSUME NEW T, T \subseteq Nat, T # {}
  PROVE  \E m \in T : \A k \in T : m <= k
<1>1. PICK m \in T : \A k \in T : ~(<<k, m>> \in OpToRel(<, Nat))
  BY WFMin, NatLessThanWellFounded
<1>2. \A k \in T : ~(k < m)
  BY <1>1 DEF OpToRel
<1>3. \A k \in T : k \in Nat /\ m \in Nat
  BY <1>1
<1> QED BY <1>2, <1>3

(* What follows from a length. *)
LEMMA Short ==
  ASSUME NEW S, NEW s \in Seq(S)
  PROVE  /\ Len(s) = 0 <=> s = << >>
         /\ Len(s) = 1 => s = <<s[1]>>
<1>1. Len(s) = 0 <=> s = << >>
  BY EmptySeq
<1>2. ASSUME Len(s) = 1 PROVE s = <<s[1]>>
  <2>1. s[1] \in S
    BY <1>2, ElementOfSeq
  <2>2. <<s[1]>> \in Seq(S) /\ Len(<<s[1]>>) = 1 /\ <<s[1]>>[1] = s[1]
    BY <2>1
  <2>3. \A i \in 1..Len(s) : s[i] = <<s[1]>>[i]
    BY <1>2, <2>2
  <2> QED BY <1>2, <2>2, <2>3, SeqEqual
<1> QED BY <1>1, <1>2

(* Without its first element. *)
LEMMA TailOf ==
  ASSUME NEW S, NEW s \in Seq(S), s # << >>
  PROVE  /\ Tail(s) \in Seq(S) /\ Len(s) \in Nat /\ Len(s) > 0
         /\ Len(Tail(s)) = Len(s) - 1 /\ Head(s) = s[1] /\ s[1] \in S
         /\ \A i \in 1..(Len(s) - 1) : Tail(s)[i] = s[i + 1]
         /\ Tail(s) = << >> <=> Len(s) = 1
<1>1. /\ Tail(s) \in Seq(S) /\ Len(Tail(s)) = Len(s) - 1 /\ Len(s) \in Nat /\ Len(s) > 0
      /\ \A i \in 1..Len(Tail(s)) : Tail(s)[i] = s[i + 1]
  BY HeadTailProperties, EmptySeq, LenProperties
<1>2. Head(s) = s[1] /\ s[1] \in S
  BY <1>1, ElementOfSeq
<1>3. Tail(s) = << >> <=> Len(s) = 1
  <2>1. Len(Tail(s)) = 0 <=> Tail(s) = << >>
    BY <1>1, Short
  <2> QED BY <1>1, <2>1
<1> QED BY <1>1, <1>2, <1>3

(* With another in front. *)
LEMMA PutFirst ==
  ASSUME NEW S, NEW s \in Seq(S), NEW a \in S
  PROVE  /\ <<a>> \o s \in Seq(S) /\ Len(s) \in Nat
         /\ Len(<<a>> \o s) = Len(s) + 1 /\ (<<a>> \o s)[1] = a
         /\ \A i \in 1..Len(s) : (<<a>> \o s)[i + 1] = s[i]
<1>1. <<a>> \in Seq(S) /\ Len(<<a>>) = 1 /\ <<a>>[1] = a
  OBVIOUS
<1>2. /\ <<a>> \o s \in Seq(S) /\ Len(<<a>> \o s) = Len(<<a>>) + Len(s)
      /\ \A i \in 1..(Len(<<a>>) + Len(s)) :
           (<<a>> \o s)[i] = IF i <= Len(<<a>>) THEN <<a>>[i] ELSE s[i - Len(<<a>>)]
  BY <1>1, ConcatProperties
<1>3. Len(s) \in Nat
  BY LenProperties
<1>4. (<<a>> \o s)[1] = a
  BY <1>1, <1>2, <1>3
<1>5. \A i \in 1..Len(s) : (<<a>> \o s)[i + 1] = s[i]
  BY <1>1, <1>2, <1>3
<1> QED BY <1>1, <1>2, <1>3, <1>4, <1>5

(* The last element is the same with one element less or more in front. *)
LEMMA LastStays ==
  ASSUME NEW S, NEW s \in Seq(S), s # << >>, NEW a \in S
  PROVE  /\ Len(s) > 1 => Tail(s) # << >> /\ Tail(s)[Len(Tail(s))] = s[Len(s)]
         /\ <<a>> \o s # << >> /\ (<<a>> \o s)[Len(<<a>> \o s)] = s[Len(s)]
         /\ Head(<<a>> \o s) = a
<1>1. Len(s) \in Nat /\ Len(s) > 0
  BY TailOf
<1>2. ASSUME Len(s) > 1
      PROVE  Tail(s) # << >> /\ Tail(s)[Len(Tail(s))] = s[Len(s)]
  <2>1. PICK n \in Nat : n = Len(s) - 1 /\ n \in 1..n
    BY <1>1, <1>2
  <2>2. Len(Tail(s)) = n /\ Tail(s)[n] = s[n + 1] /\ Tail(s) # << >>
    <3>1. /\ Len(Tail(s)) = Len(s) - 1 /\ (Tail(s) = << >> <=> Len(s) = 1)
          /\ \A i \in 1..(Len(s) - 1) : Tail(s)[i] = s[i + 1]
      BY TailOf
    <3> QED BY <1>2, <2>1, <3>1
  <2>3. n + 1 = Len(s)
    BY <1>1, <2>1
  <2> QED BY <2>2, <2>3
<1>3. /\ <<a>> \o s \in Seq(S) /\ Len(<<a>> \o s) = Len(s) + 1 /\ (<<a>> \o s)[1] = a
      /\ (<<a>> \o s)[Len(s) + 1] = s[Len(s)]
  <2>1. Len(s) \in 1..Len(s)
    BY <1>1
  <2> QED BY <2>1, PutFirst
<1>4. <<a>> \o s # << >>
  BY <1>1, <1>3, Short
<1>5. Head(<<a>> \o s) = a
  BY <1>3, <1>4, TailOf
<1> QED BY <1>2, <1>3, <1>4, <1>5

(* Without its last element. *)
LEMMA ButLast ==
  ASSUME NEW S, NEW s \in Seq(S), s # << >>
  PROVE  /\ SubSeq(s, 1, Len(s) - 1) \in Seq(S) /\ Len(s) \in Nat /\ Len(s) > 0
         /\ Len(SubSeq(s, 1, Len(s) - 1)) = Len(s) - 1 /\ s[Len(s)] \in S
<1>1. Len(s) \in Nat /\ Len(s) > 0 /\ \A i \in 1..Len(s) : s[i] \in S
  BY EmptySeq, LenProperties, ElementOfSeq
<1>2. PICK n \in Int : n = Len(s) - 1
  BY <1>1
<1>3. /\ SubSeq(s, 1, n) \in Seq(S)
      /\ Len(SubSeq(s, 1, n)) = IF 1 <= n THEN n - 1 + 1 ELSE 0
  BY <1>1, <1>2, SubSeqProperties
<1>4. Len(SubSeq(s, 1, n)) = n
  BY <1>1, <1>2, <1>3
<1> QED BY <1>1, <1>2, <1>3, <1>4

(* With another at the end. *)
LEMMA PutLast ==
  ASSUME NEW S, NEW s \in Seq(S), NEW a \in S
  PROVE  /\ Append(s, a) \in Seq(S) /\ Len(s) \in Nat /\ Append(s, a) # << >>
         /\ Len(Append(s, a)) = Len(s) + 1 /\ Append(s, a)[Len(s) + 1] = a
         /\ \A i \in 1..Len(s) : Append(s, a)[i] = s[i]
BY AppendProperties, LenProperties

(* The short ones. *)
LEMMA Tuples ==
  ASSUME NEW S, NEW a \in S, NEW b \in S, NEW c \in S
  PROVE  <<a>> \in Seq(S) /\ <<a, b>> \in Seq(S) /\ <<a, b, c>> \in Seq(S)
OBVIOUS

(* Append to the short ones. *)
LEMMA AppendShort ==
  ASSUME NEW a, NEW b, NEW c
  PROVE  /\ Append(<< >>, a) = <<a>> /\ Append(<<a>>, b) = <<a, b>>
         /\ Append(<<a, b>>, c) = <<a, b, c>>
<1> DEFINE S == {a, b, c}
<1>1. Append(<< >>, a) = <<a>>
  <2>1. << >> \in Seq(S) /\ Len(<< >>) = 0 /\ a \in S
    OBVIOUS
  <2>2. /\ Append(<< >>, a) \in Seq(S) /\ Len(Append(<< >>, a)) = Len(<< >>) + 1
        /\ Append(<< >>, a)[Len(<< >>) + 1] = a
    BY <2>1, AppendProperties
  <2>3. Len(Append(<< >>, a)) = 1 /\ Append(<< >>, a)[1] = a
    BY <2>1, <2>2
  <2> HIDE DEF S
  <2> QED BY <2>2, <2>3, Short
<1>2. Append(<<a>>, b) = <<a, b>>
  <2>1. <<a>> \in Seq(S) /\ Len(<<a>>) = 1 /\ <<a>>[1] = a /\ b \in S
    OBVIOUS
  <2>2. /\ Append(<<a>>, b) \in Seq(S) /\ Len(Append(<<a>>, b)) = Len(<<a>>) + 1
        /\ Append(<<a>>, b)[Len(<<a>>) + 1] = b
        /\ \A i \in 1..Len(<<a>>) : Append(<<a>>, b)[i] = <<a>>[i]
    BY <2>1, AppendProperties
  <2>3. /\ Len(Append(<<a>>, b)) = 2 /\ Append(<<a>>, b)[2] = b
        /\ Append(<<a>>, b)[1] = a
    BY <2>1, <2>2
  <2>4. /\ <<a, b>> \in Seq(S) /\ Len(<<a, b>>) = 2 /\ <<a, b>>[1] = a /\ <<a, b>>[2] = b
    OBVIOUS
  <2> HIDE DEF S
  <2>5. \A i \in 1..Len(Append(<<a>>, b)) : Append(<<a>>, b)[i] = <<a, b>>[i]
    BY <2>3, <2>4
  <2> QED BY <2>2, <2>3, <2>4, <2>5, SeqEqual
<1>3. Append(<<a, b>>, c) = <<a, b, c>>
  <2>1. /\ <<a, b>> \in Seq(S) /\ Len(<<a, b>>) = 2 /\ <<a, b>>[1] = a /\ <<a, b>>[2] = b
        /\ c \in S
    OBVIOUS
  <2>2. /\ Append(<<a, b>>, c) \in Seq(S) /\ Len(Append(<<a, b>>, c)) = Len(<<a, b>>) + 1
        /\ Append(<<a, b>>, c)[Len(<<a, b>>) + 1] = c
        /\ \A i \in 1..Len(<<a, b>>) : Append(<<a, b>>, c)[i] = <<a, b>>[i]
    BY <2>1, AppendProperties
  <2>3. /\ Len(Append(<<a, b>>, c)) = 3 /\ Append(<<a, b>>, c)[3] = c
        /\ Append(<<a, b>>, c)[1] = a /\ Append(<<a, b>>, c)[2] = b
    BY <2>1, <2>2
  <2>4. /\ <<a, b, c>> \in Seq(S) /\ Len(<<a, b, c>>) = 3
        /\ <<a, b, c>>[1] = a /\ <<a, b, c>>[2] = b /\ <<a, b, c>>[3] = c
    OBVIOUS
  <2> HIDE DEF S
  <2>5. \A i \in 1..Len(Append(<<a, b>>, c)) : Append(<<a, b>>, c)[i] = <<a, b, c>>[i]
    BY <2>3, <2>4
  <2> QED BY <2>2, <2>3, <2>4, <2>5, SeqEqual
<1> QED BY <1>1, <1>2, <1>3
-----------------------------------------------------------------------------
(* The program and the operations *)

(* What the assumption says of the program that runs. *)
LEMMA ProgramFacts ==
  ASSUME program \in Programs
  PROVE  /\ program \in Seq(Step) /\ Len(program) \in Nat /\ Len(program) > 1
         /\ \A k \in 1..Len(program) :
              /\ program[k] \in Step
              /\ Kind(k) = "startTesting" <=> k = 1
              /\ Kind(k) = "finishAllTest" <=> k = Len(program)
              /\ program[k].fn \in Texts /\ program[k].by \in Texts
              /\ program[k].fn \notin {"MessageToDebugger", "detachTarget", "test"}
              /\ Kind(k) = "addStub" => program[k].by # ""
<1>1. /\ program \in Seq(Step) /\ Len(program) > 1
      /\ \A k \in 1..Len(program) :
           /\ program[k].kind = "startTesting" <=> k = 1
           /\ program[k].kind = "finishAllTest" <=> k = Len(program)
           /\ program[k].fn \notin {"MessageToDebugger", "detachTarget", "test"}
           /\ program[k].kind = "addStub" => program[k].by # ""
  BY SessionAssumption
<1>2. \A k \in 1..Len(program) : program[k] \in Step
  BY <1>1, ElementOfSeq
<1>3. \A k \in 1..Len(program) : program[k].fn \in Texts /\ program[k].by \in Texts
  BY <1>2 DEF Step, Texts
<1> QED BY <1>1, <1>2, <1>3, LenProperties DEF Kind

(* It has more than one step. *)
LEMMA ProgramLength ==
  ASSUME program \in Programs
  PROVE  Len(program) \in Nat /\ Len(program) > 1
BY ProgramFacts

(* The functions the target is in. *)
LEMMA StackFacts ==
  ASSUME program \in Programs, NEW k \in 1..Len(program)
  PROVE  /\ Kind(k) \in Messages =>
              /\ StackIn(program[k]) = <<"MessageToDebugger", Caller(program[k]), "test">>
              /\ Caller(program[k]) \in Texts
         /\ Kind(k) = "call" => StackIn(program[k]) = <<program[k].fn, "test">>
         /\ Kind(k) = "detachTarget" => StackIn(program[k]) = <<"detachTarget", "test">>
         /\ Kind(k) \notin StopKinds => StackIn(program[k]) = <<"test", "group">>
         /\ StackIn(program[k]) \in Seq(Texts)
<1>1. program[k] \in Step /\ program[k].fn \in Texts
  BY ProgramFacts
<1>2. ASSUME Kind(k) \in Messages
      PROVE  /\ StackIn(program[k]) = <<"MessageToDebugger", Caller(program[k]), "test">>
             /\ Caller(program[k]) \in Texts
  <2>1. StackIn(program[k]) = <<"MessageToDebugger", Caller(program[k]), "test">>
    BY <1>2 DEF StackIn, Kind, Messages
  <2>2. Caller(program[k]) \in
          {"addResult", "eUnitExecuteAllTests", "whenStub", "whenMock", "deleteAllMocks"}
    BY <1>2 DEF Caller, Kind, Messages
  <2> QED BY <2>1, <2>2 DEF Texts
<1>3. Kind(k) = "call" => StackIn(program[k]) = <<program[k].fn, "test">>
  BY DEF StackIn, Kind, Messages
<1>4. Kind(k) = "detachTarget" => StackIn(program[k]) = <<"detachTarget", "test">>
  BY DEF StackIn, Kind, Messages
<1>5. Kind(k) \notin StopKinds => StackIn(program[k]) = <<"test", "group">>
  BY DEF StackIn, Kind, Messages, StopKinds
<1>6. "test" \in Texts /\ "group" \in Texts /\ "detachTarget" \in Texts
      /\ "MessageToDebugger" \in Texts
  BY DEF Texts
<1>7. StackIn(program[k]) \in Seq(Texts)
  <2>1. CASE Kind(k) \in Messages
    BY <1>2, <1>6, <2>1, Tuples
  <2>2. CASE Kind(k) = "call"
    BY <1>3, <1>6, <1>1, <2>2, Tuples
  <2>3. CASE Kind(k) = "detachTarget"
    BY <1>4, <1>6, <2>3, Tuples
  <2>4. CASE Kind(k) \notin StopKinds
    BY <1>5, <1>6, <2>4, Tuples
  <2> QED BY <2>1, <2>2, <2>3, <2>4 DEF StopKinds
<1> QED BY <1>2, <1>3, <1>4, <1>5, <1>7

(* A command does one thing. *)
LEMMA RedirectsOnly ==
  ASSUME NEW op, op.command.do \in {"set", "-break-delete", "-break-insert", "-exec-continue",
                    "-exec-return", "-data-evaluate-expression", "-data-read-memory-bytes"}
  PROVE  ~Redirects(op)
BY DEF Redirects

(* Where the target stands is a step of the program. *)
LEMMA StandsIn ==
  ASSUME Inv, ~running
  PROVE  at \in 1..Len(program) /\ at \in Nat /\ program \in Programs
<1>1. program \in Programs /\ at \in Nat /\ at >= 1 /\ at <= Len(program)
  BY ProgramLength DEF Inv, Typed, Stands
<1> QED BY <1>1, ProgramLength
-----------------------------------------------------------------------------
(* The channel passes a command and its answer on. *)

(* What a step of the channel leaves alone as far as the loop can tell.    *)
ChannelOnly ==
  /\ UNCHANGED <<targetVars, breakpoints, stops, runVars>>
  /\ carried' = carried /\ allFrames' = allFrames

(* Nothing but the channel and the data of an answer depends on more.      *)
LEMMA ChannelAlone ==
  ASSUME Inv, ChannelOnly
  PROVE  /\ Plan' /\ HandledInOrder' /\ Stands' /\ GoesRound' /\ InTest' /\ JumpsOut'
         /\ Batches' /\ Registered' /\ Breaks' /\ Replaced'
<1> USE DEF Inv, ChannelOnly, targetVars, runVars
<1>0. place' = place /\ latest' = latest /\ (Ahead <=> Ahead') /\ (Handling <=> Handling')
      /\ (NewStop <=> NewStop')
  BY DEF place, latest, Ahead, Handling, NewStop
<1>1. Plan'
  BY DEF Plan, IsLast, Kind
<1>2. HandledInOrder'
  BY DEF HandledInOrder, Kind, StopFrame
<1>3. Stands'
  BY <1>0 DEF Stands, Kind, StopFrame
<1>4. GoesRound'
  BY DEF GoesRound
<1>5. InTest'
  BY <1>0 DEF InTest
<1>6. JumpsOut'
  BY <1>0 DEF JumpsOut, Kind
<1>7. Batches'
  BY <1>0 DEF Batches, BatchesOnce, HasBatch, Reports, Kind
<1>8. Registered'
  <2>1. passed' = passed
    BY <1>0 DEF passed
  <2>2. Live(passed)' = Live(passed)
    BY <2>1 DEF Live, Kind
  <2>3. Lists(Live(passed)) => Lists(Live(passed))'
    BY <2>2 DEF Lists
  <2> QED BY <1>0, <2>3 DEF Registered, Kind
<1>9. Breaks'
  <2>1. Wanted' = Wanted
    BY DEF Wanted
  <2> QED BY <1>0, <2>1 DEF Breaks
<1>10. Replaced'
  <2>1. \A k : Replacement(k)' = Replacement(k)
    BY DEF Replacement
  <2>2. \A function : getThen(function)' = getThen(function) /\ (HasMock(function) <=> HasMock(function)')
    BY DEF getThen, HasMock
  <2>3. CallsAreReplaced'
    BY <2>1 DEF CallsAreReplaced, Replaced
  <2> QED BY <1>0, <2>1, <2>2, <2>3 DEF Replaced, Kind
<1> QED BY <1>1, <1>2, <1>3, <1>4, <1>5, <1>6, <1>7, <1>8, <1>9, <1>10
-----------------------------------------------------------------------------
(* The lines of gdb that matter. *)
LEMMA LineFacts ==
  ASSUME Typed
  PROVE  /\ NoFrame \in Frames /\ Nothing.state = "none" /\ Nothing.frame = NoFrame
         /\ Nothing \in [state: {"none", "stopped", "running"}, frame: Frames]
         /\ Done \in Lines /\ Line("^running") \in Lines /\ Line("*running") \in Lines
         /\ \A msg : /\ Line(msg).msg = msg /\ Line(msg).frame = NoFrame
                     /\ Line(msg).values = << >> /\ Line(msg).dumps = << >>
         /\ StopLine.msg = "*stopped" /\ StopLine.values = << >> /\ StopLine.dumps = << >>
         /\ StopLine.frame = StopFrame(stops, at)
<1>1. NoFrame \in Frames
  BY DEF NoFrame, Frames, Texts
<1>2. /\ Nothing.state = "none" /\ Nothing.frame = NoFrame
      /\ Nothing \in [state: {"none", "stopped", "running"}, frame: Frames]
  BY <1>1 DEF Nothing
<1>3. << >> \in Seq(Values) /\ << >> \in Seq(Nat)
  OBVIOUS
<1>4. Done \in Lines /\ Line("^running") \in Lines /\ Line("*running") \in Lines
  BY <1>1, <1>3 DEF Done, Line, Lines
<1>5. \A msg : /\ Line(msg).msg = msg /\ Line(msg).frame = NoFrame
               /\ Line(msg).values = << >> /\ Line(msg).dumps = << >>
  BY DEF Line
<1>6. /\ StopLine.msg = "*stopped" /\ StopLine.values = << >> /\ StopLine.dumps = << >>
      /\ StopLine.frame = StopFrame(stops, at)
  BY DEF StopLine
<1> QED BY <1>1, <1>2, <1>4, <1>5, <1>6

(* One step of the reader: a line is decoded.                              *)
LEMMA DecodeKeeps ==
  ASSUME Inv, DecodeLine, UNCHANGED runVars
  PROVE  Typed' /\ Channel' /\ Data' /\ ChannelOnly
<1> USE DEF Inv
<1> DEFINE line == Head(fromGdb)
<1>1. /\ fromGdb # << >> /\ decoded = Nothing
      /\ values' = values \o line.values /\ dumps' = dumps \o line.dumps
      /\ SetFlags(line.msg)
      /\ decoded' = [state |-> LateState(line.msg), frame |-> line.frame]
      /\ fromGdb' = Tail(fromGdb)
  BY DEF DecodeLine
<1>2. /\ UNCHANGED <<targetVars, breakpoints, toGdb, stopFrames, waits, stops, runVars>>
      /\ carried' = carried
  BY DEF DecodeLine, carried, Waiting
<1>3. /\ Len(fromGdb) \in Nat /\ Len(fromGdb) > 0 /\ line = fromGdb[1]
      /\ Tail(fromGdb) \in Seq(Lines) /\ Len(Tail(fromGdb)) = Len(fromGdb) - 1
      /\ \A i \in 1..(Len(fromGdb) - 1) : Tail(fromGdb)[i] = fromGdb[i + 1]
      /\ line \in Lines /\ (Tail(fromGdb) = << >> <=> Len(fromGdb) = 1)
  <2>1. fromGdb \in Seq(Lines)
    BY DEF Typed
  <2> QED BY <1>1, <2>1, TailOf
<1> HIDE DEF line
<1>4. /\ decoded'.frame = line.frame /\ decoded'.state = LateState(line.msg)
      /\ decoded' = [state |-> decoded'.state, frame |-> decoded'.frame]
  BY <1>1
<1>5. allFrames' = allFrames
  <2>1. CASE fromGdb' = << >>
    <3>1. fromGdb[Len(fromGdb)] = line /\ decoded.frame = NoFrame
      BY <1>1, <1>3, <2>1, LineFacts
    <3>2. arriving = line.frame
      BY <1>1, <3>1 DEF arriving
    <3>3. arriving' = line.frame
      BY <2>1, <1>4 DEF arriving
    <3> QED BY <1>2, <3>2, <3>3 DEF allFrames
  <2>2. CASE fromGdb' # << >>
    <3>1. fromGdb'[Len(fromGdb')] = fromGdb[Len(fromGdb)]
      BY <1>1, <1>3, <2>2
    <3>2. line.frame = NoFrame
      <4>1. \/ Comes(<<Line("^running"), Line("*running")>>) \/ Comes(<<Line("*running")>>)
            \/ Comes(<< >>) \/ fromGdb = <<Line("*running")>> \/ Len(fromGdb) = 1
        BY <1>1 DEF Channel, Quiet, Asked, Answered, Decoded, Noticed, Resumed, Ended
      <4>2. \A l : /\ Append(<< >>, l) = <<l>>
                   /\ Append(<<Line("*running")>>, l) = <<Line("*running"), l>>
                   /\ Append(<<Line("^running"), Line("*running")>>, l)
                        = <<Line("^running"), Line("*running"), l>>
        BY AppendShort
      <4>3. Len(fromGdb) # 1
        BY <1>1, <1>3, <2>2
      <4>4. fromGdb[1] \in {Line("^running"), Line("*running")}
        BY <1>1, <4>1, <4>2, <4>3 DEF Comes
      <4> QED BY <1>3, <4>4, LineFacts
    <3>3. decoded.frame = NoFrame /\ decoded'.frame = NoFrame
      BY <1>1, <1>4, <3>2, LineFacts
    <3>4. arriving' = arriving
      BY <1>1, <2>2, <3>1, <3>3 DEF arriving
    <3> QED BY <1>2, <3>4 DEF allFrames
  <2> QED BY <2>1, <2>2
<1>6. ChannelOnly
  BY <1>2, <1>5 DEF ChannelOnly
<1>7. Value' = Value /\ Dump' = Dump
  BY <1>2 DEF Value, Dump, targetVars, runVars
<1>8. values = << >> /\ dumps = << >> /\ line.values = Value /\ line.dumps = Dump
      /\ \A k \in 1..Len(fromGdb) : fromGdb[k].values = Value /\ fromGdb[k].dumps = Dump
  BY <1>1, <1>3 DEF Data
<1>9. values' = Value /\ dumps' = Dump
  <2>1. line.values \in Seq(Values) /\ line.dumps \in Seq(Nat)
    BY <1>3 DEF Lines
  <2>2. \A s \in Seq(Values) : << >> \o s = s
    BY ConcatEmptySeq
  <2>3. \A s \in Seq(Nat) : << >> \o s = s
    BY ConcatEmptySeq
  <2> QED BY <1>1, <1>8, <2>1, <2>2, <2>3
<1>10. Typed'
  <2>1. fromGdb' \in Seq(Lines) /\ decoded' \in [state: {"none", "stopped", "running"}, frame: Frames]
    <3>1. line.msg \in {"^running", "*running", "^done", "*stopped"} /\ line.frame \in Frames
      BY <1>3 DEF Lines
    <3>2. LateState(line.msg) \in {"none", "stopped", "running"}
      BY <3>1 DEF LateState
    <3> QED BY <1>1, <1>3, <3>1, <3>2
  <2> QED BY <1>2, <2>1 DEF Typed, targetVars, runVars
<1>11. Data'
  <2>1. \A k \in 1..Len(fromGdb') : fromGdb'[k].values = Value' /\ fromGdb'[k].dumps = Dump'
    BY <1>1, <1>3, <1>7, <1>8
  <2>2. CASE fromGdb' = << >>
    BY <1>7, <1>9, <2>1, <2>2 DEF Data
  <2>3. CASE fromGdb' # << >>
    <3>1. Value = << >> /\ Dump = << >>
      <4>1. Resumed \/ Ended \/ Len(fromGdb) = 1
        BY <1>1 DEF Channel, Quiet, Asked, Answered, Decoded, Noticed
      <4>2. Resumed \/ Ended
        BY <1>1, <1>3, <2>3, <4>1
      <4>3. CASE Ended
        BY <4>3 DEF Ended, Value, Dump, carried
      <4>4. CASE Resumed
        <5>1. Continues(todo[1]) /\ todo # << >>
          BY <4>4 DEF Resumed
        <5>2. ~Evaluates(todo[1]) /\ todo[1].name # "readDump"
          <6>1. todo[1] \in Ops
            BY <5>1, TailOf DEF Typed
          <6> QED BY <5>1, <6>1 DEF Ops, Shape, Continues, Evaluates
        <5> QED BY <5>2 DEF Value, Dump
      <4> QED BY <4>2, <4>3, <4>4
    <3> QED BY <1>7, <1>9, <2>1, <2>3, <3>1 DEF Data
  <2> QED BY <2>2, <2>3
<1>12. Channel'
  <2>1. CASE Answered
    <3>1. line.msg = "^done" /\ fromGdb' = << >>
      BY <1>1, <1>3, <2>1 DEF Answered
    <3>2. lastCommand' = "done" /\ debuggerState' = debuggerState /\ decoded'.state = "stopped"
      BY <1>1, <1>4, <3>1 DEF SetFlags, LateState
    <3>3. Decoded'
      BY <1>2, <2>1, <3>1, <3>2 DEF Answered, Asking, Decoded, Start, Continues, targetVars, runVars
    <3> QED BY <3>3 DEF Channel
  <2>2. CASE Resumed
    <3>0. StopLine' = StopLine
      BY <1>2 DEF StopLine, StopFrame, targetVars
    <3>1. ASSUME Comes(<<Line("^running"), Line("*running")>>)
          PROVE  Resumed'
      <4>1. fromGdb = (IF running THEN <<Line("^running"), Line("*running")>>
                       ELSE <<Line("^running"), Line("*running"), StopLine>>)
        BY <3>1, AppendShort DEF Comes
      <4>2. line = Line("^running")
        BY <1>3, <4>1
      <4>3. fromGdb' = (IF running THEN <<Line("*running")>>
                        ELSE <<Line("*running"), StopLine>>)
        BY <1>1, <4>1
      <4>4. Comes(<<Line("*running")>>)'
        BY <1>2, <3>0, <4>3, AppendShort DEF Comes, targetVars
      <4>5. lastCommand' = "done" /\ debuggerState' = "running"
            /\ decoded' = [state |-> "running", frame |-> NoFrame]
        BY <1>1, <4>2, LineFacts DEF SetFlags, LateState
      <4> QED BY <1>2, <2>2, <4>4, <4>5 DEF Resumed, Start, Continues, targetVars, runVars
    <3>2. ASSUME Comes(<<Line("*running")>>), lastCommand = "done"
          PROVE  Resumed'
      <4>1. fromGdb = (IF running THEN <<Line("*running")>>
                       ELSE <<Line("*running"), StopLine>>)
        BY <3>2, AppendShort DEF Comes
      <4>2. line = Line("*running")
        BY <1>3, <4>1
      <4>3. fromGdb' = (IF running THEN << >> ELSE <<StopLine>>)
        BY <1>1, <4>1
      <4>4. Comes(<< >>)'
        BY <1>2, <3>0, <4>3, AppendShort DEF Comes, targetVars
      <4>5. lastCommand' = "done" /\ debuggerState' = "running" /\ decoded' = Nothing
        BY <1>1, <3>2, <4>2, LineFacts DEF SetFlags, LateState, Nothing
      <4> QED BY <1>2, <2>2, <4>4, <4>5 DEF Resumed, Start, Continues, targetVars, runVars
    <3>3. ASSUME Comes(<< >>), lastCommand = "done"
          PROVE  Noticed'
      <4>1. ~running /\ fromGdb = <<StopLine>>
        BY <1>1, <3>3, AppendShort DEF Comes
      <4>2. line = StopLine /\ fromGdb' = << >>
        BY <1>1, <1>3, <4>1
      <4>3. lastCommand' = "done" /\ debuggerState' = "stopped" /\ decoded'.state = "none"
        BY <1>1, <1>4, <3>3, <4>2, LineFacts DEF SetFlags, LateState
      <4> QED BY <1>2, <2>2, <4>1, <4>2, <4>3 DEF Resumed, Noticed, Start, Continues, targetVars, runVars
    <3> QED BY <2>2, <3>1, <3>2, <3>3 DEF Resumed, Channel
  <2>3. CASE Ended
    <3>1. fromGdb = <<Line("*running")>>
      BY <1>1, <2>3 DEF Ended
    <3>2. line = Line("*running") /\ fromGdb' = << >>
      BY <1>1, <1>3, <3>1
    <3>3. decoded' = Nothing
      BY <1>1, <3>2, LineFacts DEF LateState, Nothing
    <3>4. Ended'
      BY <1>2, <2>3, <3>2, <3>3 DEF Ended, Waiting, Kind, targetVars, runVars
    <3> QED BY <3>4 DEF Channel
  <2> QED BY <1>1, <2>1, <2>2, <2>3 DEF Channel, Quiet, Asked, Decoded, Noticed
<1> QED BY <1>6, <1>10, <1>11, <1>12

(* Then the state is set.                                                  *)
LEMMA LateStateKeeps ==
  ASSUME Inv, SetLateState, UNCHANGED runVars
  PROVE  Typed' /\ Channel' /\ Data' /\ ChannelOnly
<1> USE DEF Inv
<1>1. /\ decoded.state # "none" /\ debuggerState' = decoded.state
      /\ decoded' = [decoded EXCEPT !.state = "none"]
      /\ UNCHANGED <<targetVars, breakpoints, toGdb, fromGdb, lastCommand, stopFrames,
                     values, dumps, waits, stops, runVars>>
  BY DEF SetLateState
<1>2. decoded \in [state: {"none", "stopped", "running"}, frame: Frames]
  BY DEF Typed
<1>3. decoded'.state = "none" /\ decoded'.frame = decoded.frame
      /\ decoded' \in [state: {"none", "stopped", "running"}, frame: Frames]
  BY <1>1, <1>2
<1>4. carried' = carried /\ allFrames' = allFrames
  BY <1>1, <1>3 DEF carried, Waiting, allFrames, arriving
<1>5. ChannelOnly
  BY <1>1, <1>4 DEF ChannelOnly
<1>6. Typed'
  BY <1>1, <1>3 DEF Typed, targetVars, runVars
<1>7. Data'
  <2>1. Value' = Value /\ Dump' = Dump
    BY <1>1, <1>4 DEF Value, Dump, targetVars, runVars
  <2> QED BY <1>1, <2>1 DEF Data
<1>8. Channel'
  <2>1. CASE Decoded
    <3>1. Noticed'
      BY <1>1, <1>3, <2>1 DEF Decoded, Noticed, Start, Continues, targetVars, runVars
    <3> QED BY <3>1 DEF Channel
  <2>2. CASE Resumed
    <3>1. decoded = [state |-> "running", frame |-> NoFrame] /\ debuggerState' = "running"
      BY <1>1, <2>2, LineFacts DEF Resumed
    <3>2. decoded' = Nothing
      BY <1>1, <3>1 DEF Nothing
    <3>3. StopLine' = StopLine
      BY <1>1 DEF StopLine, StopFrame, targetVars
    <3>4. Resumed'
      BY <1>1, <2>2, <3>1, <3>2, <3>3, LineFacts
      DEF Resumed, Comes, Start, Continues, targetVars, runVars
    <3> QED BY <3>4 DEF Channel
  <2> QED BY <1>1, <2>1, <2>2, LineFacts DEF Channel, Quiet, Asked, Answered, Asking, Noticed, Ended
<1> QED BY <1>5, <1>6, <1>7, <1>8

(* At last the frame is pushed.                                            *)
LEMMA PushKeeps ==
  ASSUME Inv, PushFrame, UNCHANGED runVars
  PROVE  Typed' /\ Channel' /\ Data' /\ ChannelOnly
<1> USE DEF Inv
<1>1. /\ decoded.state = "none" /\ decoded.frame # NoFrame /\ decoded' = Nothing
      /\ stopFrames' = Append(stopFrames, decoded.frame)
      /\ UNCHANGED <<targetVars, breakpoints, toGdb, fromGdb, lastCommand, debuggerState,
                     values, dumps, waits, stops, runVars>>
  BY DEF PushFrame
<1>2. Noticed
  BY <1>1, LineFacts DEF Channel, Quiet, Asked, Answered, Asking, Decoded, Resumed, Ended
<1>3. fromGdb = << >> /\ fromGdb' = << >> /\ decoded'.frame = NoFrame /\ decoded'.state = "none"
  BY <1>1, <1>2, LineFacts DEF Noticed
<1>4. carried' = carried /\ allFrames' = allFrames
  BY <1>1, <1>3 DEF carried, Waiting, allFrames, arriving
<1>5. ChannelOnly
  BY <1>1, <1>4 DEF ChannelOnly
<1>6. Typed'
  <2>1. decoded.frame \in Frames /\ stopFrames \in Seq(Frames)
    BY DEF Typed
  <2>2. stopFrames' \in Seq(Frames)
    BY <1>1, <2>1, PutLast
  <2> QED BY <1>1, <2>2, LineFacts DEF Typed, targetVars, runVars
<1>7. Data'
  <2>1. Value' = Value /\ Dump' = Dump
    BY <1>1, <1>4 DEF Value, Dump, targetVars, runVars
  <2> QED BY <1>1, <2>1 DEF Data
<1>8. Noticed'
  BY <1>1, <1>2, <1>3 DEF Noticed, Start, Continues, targetVars, runVars
<1> QED BY <1>5, <1>6, <1>7, <1>8 DEF Channel

(* The main thread writes the command of the next operation.               *)
LEMMA SendKeeps ==
  ASSUME Inv, MainSends
  PROVE  Typed' /\ Channel' /\ Data' /\ ChannelOnly
<1> USE DEF Inv
<1>1. /\ todo # << >> /\ waits["main"] = "no"
      /\ lastCommand' = "waitForResult" /\ debuggerState' = "reset"
      /\ toGdb' = Append(toGdb, Head(todo).command)
      /\ waits' = [waits EXCEPT !["main"] =
                     IF Head(todo).waitForStopped THEN "stopped" ELSE "done"]
      /\ UNCHANGED <<targetVars, breakpoints, fromGdb, decoded, streamVars, stops, runVars>>
  BY DEF MainSends, Send
<1>2. Quiet
  BY <1>1 DEF Channel, Waiting, Asked, Answered, Asking, Decoded, Noticed, Resumed, Ended, Start
<1>3. Head(todo) = todo[1]
  OBVIOUS
<1>4. toGdb' = <<todo[1].command>>
  BY <1>1, <1>2, <1>3, AppendShort DEF Quiet
<1>5. waits' \in [Threads -> {"no", "stopped", "done"}] /\ waits'["main"] = Start(todo[1])
      /\ waits'["timer"] = "no"
  BY <1>1, <1>3 DEF Typed, Start, Threads
<1>6. ~carried /\ ~carried'
  BY <1>2, <1>4 DEF carried, Quiet
<1>7. allFrames' = allFrames
  BY <1>1 DEF allFrames, arriving, streamVars
<1>8. ChannelOnly
  BY <1>1, <1>6, <1>7 DEF ChannelOnly, carried
<1>9. Typed'
  BY <1>1, <1>5 DEF Typed, targetVars, runVars, streamVars
<1>10. Data'
  <2>1. Value = << >> /\ Dump = << >> /\ Value' = << >> /\ Dump' = << >>
    BY <1>6 DEF Value, Dump
  <2> QED BY <1>1, <2>1 DEF Data, streamVars
<1>11. Asked'
  BY <1>1, <1>2, <1>4, <1>5 DEF Asked, Asking, Quiet, Start, targetVars, runVars
<1> QED BY <1>8, <1>9, <1>10, <1>11 DEF Channel

(* It sees that the target is stopped.                                     *)
LEMMA SeesStopKeeps ==
  ASSUME Inv, MainSeesStop
  PROVE  Typed' /\ Channel' /\ Data' /\ ChannelOnly
<1> USE DEF Inv
<1>1. /\ waits["main"] = "stopped" /\ debuggerState = "stopped"
      /\ waits' = [waits EXCEPT !["main"] = "done"]
      /\ UNCHANGED <<targetVars, breakpoints, toGdb, fromGdb, decoderVars, streamVars, stops,
                     runVars>>
  BY DEF MainSeesStop, SeesStop
<1>2. Noticed
  BY <1>1 DEF Channel, Quiet, Waiting, Asked, Answered, Asking, Decoded, Resumed, Ended
<1>3. waits' \in [Threads -> {"no", "stopped", "done"}] /\ waits'["main"] = "done"
      /\ waits'["timer"] = "no"
  BY <1>1 DEF Typed, Threads
<1>4. carried' = carried /\ allFrames' = allFrames
  BY <1>1, <1>3 DEF carried, Waiting, allFrames, arriving, streamVars, decoderVars
<1>5. ChannelOnly
  BY <1>1, <1>4 DEF ChannelOnly
<1>6. Typed'
  BY <1>1, <1>3 DEF Typed, targetVars, runVars, streamVars, decoderVars
<1>7. Data'
  <2>1. Value' = Value /\ Dump' = Dump
    BY <1>1, <1>4 DEF Value, Dump, targetVars, runVars
  <2> QED BY <1>1, <2>1 DEF Data, streamVars
<1>8. Noticed'
  BY <1>1, <1>2, <1>3 DEF Noticed, Start, Continues, targetVars, runVars, streamVars, decoderVars
<1> QED BY <1>5, <1>6, <1>7, <1>8 DEF Channel
-----------------------------------------------------------------------------
(* The operations that are left. *)

(* What an operation is made of. *)
LEMMA OpFacts ==
  ASSUME NEW op \in Ops
  PROVE  /\ Shape(op) /\ op.name \in Names /\ op.command \in [do: Commands, arg: Texts]
         /\ op.command.do \in Commands /\ op.command.arg \in Texts
         /\ op.waitForStopped \in BOOLEAN
BY DEF Ops

(* What the order of the operations says of the first two.                 *)
LEMMA PlanFacts ==
  ASSUME Typed, Plan, todo # << >>
  PROVE  /\ Len(todo) \in Nat /\ Len(todo) > 0 /\ todo[1] \in Ops /\ Shape(todo[1])
         /\ (Continues(todo[1]) \/ Leaves(todo[1])) => Len(todo) = 1
         /\ Len(todo) = 1 => IsLast(todo[1])
         /\ Len(todo) > 1 => todo[2] \in Ops /\ Shape(todo[2]) /\ Follows(todo[1], todo[2])
         /\ Tail(todo) \in Seq(Ops) /\ Len(Tail(todo)) = Len(todo) - 1
         /\ \A i \in 1..(Len(todo) - 1) : Tail(todo)[i] = todo[i + 1]
         /\ Tail(todo) = << >> <=> Len(todo) = 1
         /\ mode = "testing"
<1>1. /\ Len(todo) \in Nat /\ Len(todo) > 0 /\ todo[1] \in Ops /\ Head(todo) = todo[1]
      /\ Tail(todo) \in Seq(Ops) /\ Len(Tail(todo)) = Len(todo) - 1
      /\ \A i \in 1..(Len(todo) - 1) : Tail(todo)[i] = todo[i + 1]
      /\ Tail(todo) = << >> <=> Len(todo) = 1
  BY TailOf DEF Typed
<1>2. Shape(todo[1])
  BY <1>1, OpFacts
<1>3. Len(todo) > 1 => todo[2] \in Ops /\ Shape(todo[2]) /\ Follows(todo[1], todo[2])
  <2>1. Len(todo) > 1 => todo[2] \in Ops
    BY ElementOfSeq, <1>1 DEF Typed
  <2>2. Len(todo) > 1 => Follows(todo[1], todo[2])
    BY <1>1 DEF Plan
  <2> QED BY <2>1, <2>2, OpFacts
<1>4. (Continues(todo[1]) \/ Leaves(todo[1])) => Len(todo) = 1
  BY <1>1, <1>3 DEF Follows
<1>5. Len(todo) = 1 => IsLast(todo[1])
  BY <1>1 DEF Plan
<1>6. mode = "testing"
  BY DEF Typed
<1> QED BY <1>1, <1>2, <1>3, <1>4, <1>5, <1>6

(* While gdb has an operation of a stop to carry out, and until the last   *)
(* of them is over, the target stands where it stopped.                    *)
LEMMA StandsStill ==
  ASSUME Inv, todo # << >>, ~running, ~Continues(todo[1])
  PROVE  Handling
<1> USE DEF Inv
<1>1. CASE Len(todo) > 1
  BY <1>1, PlanFacts DEF Ahead, place, Stands
<1>2. CASE Len(todo) = 1
  <2>1. frame.fn = "detachTarget"
    BY <1>2, PlanFacts DEF IsLast
  <2>2. ~NewStop
    BY <2>1 DEF Stands
  <2> QED BY <2>2 DEF Stands, Handling, NewStop
<1> QED BY <1>1, <1>2, PlanFacts

(* gdb reads a command.                                                    *)
LEMMA GdbReads ==
  ASSUME Inv, GdbStep, UNCHANGED runVars
  PROVE  /\ Asked /\ Handling /\ todo # << >> /\ Head(toGdb) = todo[1].command
         /\ ~carried /\ carried' /\ place = 1 /\ place' = 2 /\ Ahead
         /\ Ahead' <=> Len(todo) > 1
         /\ toGdb' = << >> /\ fromGdb = << >>
         /\ values = << >> /\ dumps = << >> /\ decoded = Nothing
         /\ UNCHANGED <<decoderVars, streamVars, waits, stops, runVars>>
<1> USE DEF Inv
<1>1. /\ toGdb # << >> /\ toGdb' = Tail(toGdb)
      /\ UNCHANGED <<decoderVars, streamVars, waits, stops, runVars>>
  BY DEF GdbStep
<1>2. Asked
  BY <1>1 DEF Channel, Quiet, Answered, Decoded, Noticed, Resumed, Ended
<1>3. todo # << >> /\ Head(toGdb) = todo[1].command /\ toGdb' = << >> /\ fromGdb = << >>
      /\ decoded = Nothing /\ Waiting
  BY <1>1, <1>2 DEF Asked, Asking, Waiting, Start
<1>4. ~carried /\ carried' /\ place = 1 /\ place' = 2
  BY <1>1, <1>3 DEF carried, place, Waiting
<1>5. Ahead /\ (Ahead' <=> Len(todo) > 1)
  BY <1>1, <1>3, <1>4, PlanFacts DEF Ahead, runVars
<1>6. values = << >> /\ dumps = << >>
  BY <1>3, <1>4 DEF Data, Value, Dump
<1> QED BY <1>1, <1>2, <1>3, <1>4, <1>5, <1>6 DEF Stands

(* It carries out anything but a continue.                                 *)
LEMMA CommandKeeps ==
  ASSUME Inv, GdbStep, UNCHANGED runVars, ~Continues(todo[1]),
         NEW line \in Lines, fromGdb' = <<line>>, line.msg = "^done",
         line.values = Value', line.dumps = Dump',
         UNCHANGED <<program, at, running, interrupted, called>>,
         stack' \in Seq(Texts), Len(stack') > 0, stack'[Len(stack')] = "test",
         cleared' \in BOOLEAN, Reads(todo[1]) => cleared' = cleared,
         todo[1].name \in {"buffToSmall", "addStub", "addMock"} =>
           /\ line.frame # NoFrame /\ line.frame.step = at
           /\ Registers(todo[1]) => line.frame.fn \in {"whenStub", "whenMock"},
         Reduces(todo[1]) => Head(stack') = Replacement(at),
         Breaks'
  PROVE  Inv'
<1> USE DEF Inv
<1>1. /\ Asked /\ Handling /\ todo # << >>
      /\ ~carried /\ carried' /\ place = 1 /\ place' = 2 /\ Ahead
      /\ Ahead' <=> Len(todo) > 1
      /\ toGdb' = << >> /\ fromGdb = << >>
      /\ values = << >> /\ dumps = << >> /\ decoded = Nothing
      /\ UNCHANGED <<decoderVars, streamVars, waits, stops, runVars>>
  BY GdbReads
<1>2. ~running /\ ~running' /\ Handling' /\ ~NewStop /\ ~NewStop'
  BY <1>1 DEF Handling, NewStop, Stands, Typed, runVars
<1>3. Len(fromGdb') = 1 /\ fromGdb'[1] = line /\ fromGdb' # << >> /\ fromGdb' \in Seq(Lines)
  OBVIOUS
<1>4. Typed'
  BY <1>1, <1>3 DEF Typed, runVars, decoderVars, streamVars
<1>5. Channel'
  <2>1. Answered'
    BY <1>1, <1>2, <1>3 DEF Asked, Answered, Asking, Start, Continues, runVars, decoderVars
  <2> QED BY <2>1 DEF Channel
<1>6. Data'
  BY <1>1, <1>3 DEF Data, streamVars
<1>7. Plan'
  BY <1>1 DEF Plan, IsLast, Kind, runVars
<1>8. HandledInOrder'
  BY <1>1 DEF HandledInOrder, Kind, StopFrame, runVars
<1>9. GoesRound'
  BY <1>1 DEF GoesRound, runVars
<1>10. Stands'
  <2>1. ~Ahead' => Leaves(todo[1])
    <3>1. CASE Len(todo) > 1
      BY <1>1, <3>1
    <3>2. CASE Len(todo) = 1
      BY <3>2, PlanFacts, <1>1 DEF IsLast
    <3> QED BY <3>1, <3>2, <1>1, PlanFacts
  <2>2. mode = "testing" /\ todo' = todo /\ handled' = handled /\ frame' = frame /\ mode' = mode
    BY <1>1, PlanFacts DEF runVars
  <2> QED BY <1>1, <1>2, <2>1, <2>2 DEF Stands, Kind
<1>11. InTest'
  <2>1. ASSUME Ahead' PROVE ~Registers(todo[2]) /\ ~Reduces(todo[2])
    BY <1>1, <2>1, PlanFacts DEF Follows, OnlyFirst
  <2> QED BY <1>1, <2>1 DEF InTest, runVars
<1>12. JumpsOut'
  <2>1. ASSUME todo[1].name \in {"buffToSmall", "addStub", "addMock"}
        PROVE  /\ allFrames' # << >> /\ latest' = line.frame
    <3>1. arriving' = line.frame
      BY <1>3, <2>1 DEF arriving
    <3>2. line.frame \in Frames /\ stopFrames' \in Seq(Frames)
      BY <1>4 DEF Lines, Typed
    <3>3. allFrames' = Append(stopFrames', line.frame)
      BY <2>1, <3>1 DEF allFrames
    <3> QED BY <3>2, <3>3, PutLast DEF latest
  <2>2. Registers(todo[1]) => todo[1].name \in {"buffToSmall", "addStub", "addMock"}
    BY DEF Registers
  <2> QED BY <1>1, <1>2, <2>1, <2>2 DEF JumpsOut, Kind, runVars
<1>13. Batches'
  <2>1. UNCHANGED <<todo, handled, analysed, frame, program, at>>
    BY <1>1 DEF runVars
  <2>2. BatchesOnce'
    BY <2>1 DEF Batches, BatchesOnce
  <2>3. \A k : HasBatch(handled[k])' <=> HasBatch(handled[k])
    BY <2>1 DEF HasBatch, Reports
  <2>4. Reads(todo[1]) => ~cleared'
    BY <1>1 DEF Batches
  <2> QED BY <1>1, <1>2, <2>1, <2>2, <2>3, <2>4 DEF Batches, Kind
<1>14. Registered'
  <2>1. passed' = passed
    BY <1>1, <1>2 DEF passed, runVars
  <2>2. Live(passed)' = Live(passed)
    BY <2>1 DEF Live, Kind
  <2>3. Lists(Live(passed)) => Lists(Live(passed))'
    BY <1>1, <2>2 DEF Lists, runVars
  <2> QED BY <1>1, <1>2, <2>3 DEF Registered, Kind
<1>15. Replaced'
  <2>1. \A k : Replacement(k)' = Replacement(k)
    BY DEF Replacement
  <2>2. CallsAreReplaced'
    BY <2>1 DEF CallsAreReplaced, Replaced
  <2>3. ASSUME Ahead', Kind(at) = "call"
        PROVE  Continues(todo[2]) /\ Head(stack') = Replacement(at)
    <3>1. Reduces(todo[1])
      BY <1>1, <2>3 DEF Replaced
    <3> QED BY <1>1, <2>3, <3>1, PlanFacts DEF Follows
  <2>4. ASSUME Ahead' PROVE ~Reduces(todo[2])
    BY <1>1, <2>4, PlanFacts DEF Follows, OnlyFirst
  <2> QED BY <1>1, <2>1, <2>2, <2>3, <2>4 DEF Replaced, Kind, runVars
<1> QED BY <1>4, <1>5, <1>6, <1>7, <1>8, <1>9, <1>10, <1>11, <1>12, <1>13, <1>14, <1>15
-----------------------------------------------------------------------------
(* The list of mocks and the program *)

(* The steps the mocks stand for. *)
LEMMA ListFacts ==
  ASSUME mocks \in Seq(Replacements), NEW S, Lists(S)
  PROVE  /\ Len(mocks) \in Nat
         /\ \E f \in [1..Len(mocks) -> S] :
              /\ \A i \in 1..Len(mocks) :
                   /\ mocks[i].when = program[f[i]].fn
                   /\ mocks[i].then = Then(program[f[i]])
              /\ \A i, j \in 1..Len(mocks) : i < j => f[i] < f[j]
              /\ \A s \in S : \E i \in 1..Len(mocks) : f[i] = s
<1>1. Len(mocks) \in Nat
  BY LenProperties
<1>2. PICK f \in [1..Len(mocks) -> S] :
         /\ \A i \in 1..Len(mocks) :
              mocks[i] = [when |-> program[f[i]].fn, then |-> Then(program[f[i]])]
         /\ \A i, j \in 1..Len(mocks) : i < j => f[i] < f[j]
         /\ \A s \in S : \E i \in 1..Len(mocks) : f[i] = s
  BY DEF Lists
<1>3. \A i \in 1..Len(mocks) : mocks[i].when = program[f[i]].fn
                               /\ mocks[i].then = Then(program[f[i]])
  <2> TAKE i \in 1..Len(mocks)
  <2>1. mocks[i] = [when |-> program[f[i]].fn, then |-> Then(program[f[i]])]
    BY <1>2
  <2> QED BY <2>1
<1> QED BY <1>1, <1>2, <1>3

(* reduceDependency finds what a call is replaced by. *)
LEMMA FirstReplaces ==
  ASSUME program \in Programs, at \in 1..Len(program), Kind(at) = "call",
         mocks \in Seq(Replacements), Lists(Live(at))
  PROVE  /\ HasMock(program[at].fn) =>
              \E j \in 1..Len(program) :
                /\ Kind(j) \in {"addStub", "addMock"}
                /\ getThen(program[at].fn) = Then(program[j])
                /\ Replacement(at) = program[j].by
         /\ ~HasMock(program[at].fn) => Replacement(at) = program[at].fn
<1> DEFINE fn == program[at].fn
           Deleted == {0} \union {j \in 1..(at - 1) : program[j].kind = "deleteMocks"}
           Added == {j \in 1..(at - 1) : /\ program[j].kind \in {"addStub", "addMock"}
                                         /\ program[j].fn = program[at].fn
                                         /\ \A d \in Deleted : d < j}
<1>1. at \in Nat /\ Len(program) \in Nat
  BY ProgramLength
<1>2. \A j : j \in Added <=> j \in Live(at) /\ program[j].fn = fn
  BY <1>1 DEF Live, Kind
<1>3. Replacement(at) = IF Added = {} THEN fn
                        ELSE program[CHOOSE j \in Added : \A i \in Added : j <= i].by
  BY DEF Replacement
<1>4. PICK f \in [1..Len(mocks) -> Live(at)] :
         /\ \A i \in 1..Len(mocks) : mocks[i].when = program[f[i]].fn
                                     /\ mocks[i].then = Then(program[f[i]])
         /\ \A i, j \in 1..Len(mocks) : i < j => f[i] < f[j]
         /\ \A s \in Live(at) : \E i \in 1..Len(mocks) : f[i] = s
  BY ListFacts
<1>5. Len(mocks) \in Nat
  BY ListFacts
<1>6. Live(at) \subseteq 1..at /\ \A j \in Live(at) : Kind(j) \in {"addStub", "addMock"}
  BY DEF Live
<1> HIDE DEF Added, Deleted
<1>7. ASSUME HasMock(fn)
      PROVE  \E j \in 1..Len(program) :
                /\ Kind(j) \in {"addStub", "addMock"}
                /\ getThen(fn) = Then(program[j])
                /\ Replacement(at) = program[j].by
  <2> DEFINE T == {k \in 1..Len(mocks) : mocks[k].when = fn}
  <2>1. T # {} /\ T \subseteq Nat
    BY <1>5, <1>7 DEF HasMock
  <2>2. PICK k \in T : \A i \in T : k <= i
    <3> HIDE DEF T
    <3> QED BY <2>1, Least
  <2>3. k \in 1..Len(mocks) /\ mocks[k].when = fn
        /\ \A i \in 1..(k - 1) : mocks[i].when # fn
    BY <1>5, <2>2
  <2>4. \A m \in 1..Len(mocks) :
          mocks[m].when = fn /\ (\A i \in 1..(m - 1) : mocks[i].when # fn) => m = k
    BY <1>5, <2>3
  <2>5. getThen(fn) = mocks[k].then
    <3>1. k = CHOOSE m \in 1..Len(mocks) : /\ mocks[m].when = fn
                                           /\ \A i \in 1..(m - 1) : mocks[i].when # fn
      BY <2>3, <2>4
    <3> QED BY <3>1 DEF getThen
  <2>6. f[k] \in Live(at) /\ f[k] \in Added
    BY <1>2, <1>4, <2>3
  <2>7. \A i \in Added : f[k] <= i
    <3> TAKE i \in Added
    <3>1. PICK m \in 1..Len(mocks) : f[m] = i
      BY <1>2, <1>4
    <3>2. mocks[m].when = fn
      BY <1>2, <1>4, <3>1
    <3>3. k <= m
      BY <2>2, <3>2
    <3>4. k = m \/ k < m
      BY <1>5, <2>3, <3>3
    <3>5. f[m] \in 1..at /\ f[k] \in 1..at
      BY <1>4, <1>6, <2>3
    <3> QED BY <1>4, <2>3, <3>1, <3>4, <3>5
  <2>8. \A j \in Added : (\A i \in Added : j <= i) => j = f[k]
    <3>1. Added \subseteq Nat
      <4>1. Added \subseteq 1..at
        BY <1>2, <1>6
      <4> QED BY <1>1, <4>1
    <3>2. ASSUME NEW j \in Added, \A i \in Added : j <= i PROVE j = f[k]
      <4>1. j <= f[k] /\ f[k] <= j /\ j \in Nat /\ f[k] \in Nat
        BY <2>6, <2>7, <3>1, <3>2
      <4> QED BY <4>1
    <3> QED BY <3>2
  <2>9. f[k] = CHOOSE j \in Added : \A i \in Added : j <= i
    BY <2>6, <2>7, <2>8
  <2>10. Replacement(at) = program[f[k]].by
    BY <1>3, <2>6, <2>9
  <2>11. f[k] \in 1..Len(program)
    BY <1>1, <1>6, <2>6
  <2> QED BY <1>4, <1>6, <2>3, <2>5, <2>6, <2>10, <2>11
<1>8. ASSUME ~HasMock(fn) PROVE Replacement(at) = fn
  <2>1. Added = {}
    BY <1>2, <1>4, <1>8 DEF HasMock
  <2> QED BY <1>3, <2>1
<1> QED BY <1>7, <1>8

(* Every function that is replaced is one of those under test. *)
LEMMA MocksAreFunctions ==
  ASSUME program \in Programs, mocks \in Seq(Replacements),
         NEW m \in 0..Len(program), Lists(Live(m)), NEW k \in 1..Len(mocks)
  PROVE  mocks[k].when \notin {"MessageToDebugger", "detachTarget", "test"}
<1>1. PICK f \in [1..Len(mocks) -> Live(m)] :
         \A i \in 1..Len(mocks) : mocks[i].when = program[f[i]].fn
  BY ListFacts
<1>2. f[k] \in 1..m
  BY <1>1 DEF Live
<1>3. f[k] \in 1..Len(program)
  BY <1>2, ProgramLength
<1> QED BY <1>1, <1>3, ProgramFacts

(* A step that registers nothing and deletes nothing changes nothing. *)
LEMMA LiveStays ==
  ASSUME program \in Programs, NEW m \in 1..Len(program),
         Kind(m) \notin {"addStub", "addMock", "deleteMocks"}
  PROVE  Live(m) = Live(m - 1)
<1>1. m \in Nat /\ 1..m = (1..(m - 1)) \union {m}
  BY ProgramLength
<1>2. ASSUME NEW j, j \in Live(m) PROVE j \in Live(m - 1)
  BY <1>1, <1>2 DEF Live
<1>3. ASSUME NEW j, j \in Live(m - 1) PROVE j \in Live(m)
  BY <1>1, <1>3 DEF Live
<1> QED BY <1>2, <1>3
-----------------------------------------------------------------------------
(* gdb carries out a command *)

(* The breakpoints of the host's own functions. *)
LEMMA OwnBreakpoints ==
  /\ DetachBreakpoint.command = [do |-> "-break-insert", arg |-> "detachTarget"]
  /\ MessageBreakpoint.command = [do |-> "-break-insert", arg |-> "MessageToDebugger"]
  /\ Inserts(DetachBreakpoint) /\ Inserts(MessageBreakpoint)
  /\ ~Deletes(DetachBreakpoint) /\ ~Deletes(MessageBreakpoint)
  /\ DetachBreakpoint # MessageBreakpoint
BY DEF DetachBreakpoint, MessageBreakpoint, InsertBreakpoint, Execute, Op, Command, Inserts, Deletes

(* A command that has nothing to do with breakpoints. *)
LEMMA OthersLeaveBreakpoints ==
  ASSUME Inv, todo # << >>, Ahead, place = 1, place' = 2,
         ~Deletes(todo[1]), ~Inserts(todo[1]),
         UNCHANGED <<breakpoints, mocks, todo>>
  PROVE  Breaks'
<1>1. todo[1] # DetachBreakpoint /\ todo[1] # MessageBreakpoint
  BY OwnBreakpoints
<1>2. breakpoints = Wanted /\ Wanted' = Wanted
  BY <1>1 DEF Inv, Breaks, Wanted
<1>3. CASE Ahead'
  <2>1. Len(todo) > 1
    BY <1>3, PlanFacts DEF Inv, Ahead
  <2>2. /\ ~Deletes(todo[2]) /\ todo[2] # DetachBreakpoint /\ todo[2] # MessageBreakpoint
        /\ ~Inserts(todo[2])
    BY <1>1, <2>1, PlanFacts DEF Inv, Follows, OnlyFirst
  <2> QED BY <1>2, <1>3, <2>2 DEF Breaks
<1>4. CASE ~Ahead'
  BY <1>2, <1>4 DEF Breaks
<1> QED BY <1>3, <1>4

(* What the answer to a command that yields nothing looks like. *)
LEMMA DoneLine ==
  ASSUME Inv, GdbStep, UNCHANGED runVars, Answer(<<Done>>), UNCHANGED at,
         ~Evaluates(todo[1]), todo[1].name # "readDump"
  PROVE  /\ fromGdb' = <<Done>> /\ Done \in Lines /\ Done.msg = "^done"
         /\ Done.values = Value' /\ Done.dumps = Dump'
<1>1. fromGdb = << >> /\ todo' = todo
  BY GdbReads DEF runVars
<1>2. fromGdb' = <<Done>>
  BY <1>1 DEF Answer
<1>3. Value' = << >> /\ Dump' = << >>
  BY <1>1 DEF Value, Dump
<1> QED BY <1>2, <1>3, LineFacts DEF Inv, Done

(* The innermost function of the target is there, and the outermost is the test. *)
LEMMA StackStands ==
  ASSUME Inv, ~running
  PROVE  /\ stack \in Seq(Texts) /\ Len(stack) \in Nat /\ Len(stack) > 0
         /\ stack[Len(stack)] = "test" /\ stack # << >>
BY LenProperties, EmptySeq DEF Inv, Typed, InTest

(* -exec-return: the frame of its answer is the one jumpOut looks for. *)
LEMMA ExecReturnKeeps ==
  ASSUME Inv, GdbStep, UNCHANGED runVars, todo[1].command.do = "-exec-return",
         ExecReturn(todo[1].command.arg)
  PROVE  Inv'
<1> USE DEF Inv
<1>1. /\ Asked /\ Handling /\ todo # << >> /\ ~carried /\ carried' /\ place = 1 /\ place' = 2
      /\ Ahead /\ fromGdb = << >> /\ todo' = todo /\ mocks' = mocks /\ ~running
  BY GdbReads DEF runVars, Handling
<1>2. Shape(todo[1]) /\ todo[1].command.arg \in Texts
  BY <1>1, PlanFacts, OpFacts
<1> DEFINE outer == IF Len(stack) > 1 THEN Tail(stack) ELSE stack
           value == todo[1].command.arg
           frame1 == [fn |-> Head(outer), stop |-> 0, step |-> at]
           line == [Done EXCEPT !.frame = frame1]
<1>3. /\ outer \in Seq(Texts) /\ Len(outer) \in Nat /\ Len(outer) > 0
      /\ outer[Len(outer)] = "test" /\ outer # << >> /\ Head(outer) \in Texts
      /\ Head(outer) = outer[1]
  <2>1. stack \in Seq(Texts) /\ Len(stack) \in Nat /\ Len(stack) > 0
        /\ stack[Len(stack)] = "test" /\ stack # << >>
    BY <1>1, StackStands
  <2>2. /\ Tail(stack) \in Seq(Texts) /\ Len(Tail(stack)) = Len(stack) - 1
        /\ \A i \in 1..(Len(stack) - 1) : Tail(stack)[i] = stack[i + 1]
    BY <2>1, TailOf
  <2>3. outer \in Seq(Texts) /\ Len(outer) \in Nat /\ Len(outer) > 0 /\ outer[Len(outer)] = "test"
    BY <2>1, <2>2
  <2> HIDE DEF outer
  <2>4. outer # << >>
    BY <2>3, Short
  <2> QED BY <2>3, <2>4, TailOf
<1>4. /\ stack' = (IF value = "" THEN outer ELSE <<value>> \o outer)
      /\ fromGdb' = fromGdb \o <<line>>
      /\ UNCHANGED <<program, at, running, interrupted, called, cleared, breakpoints>>
  BY DEF ExecReturn, Answer
<1> HIDE DEF outer
<1>5. stack' \in Seq(Texts) /\ Len(stack') > 0 /\ stack'[Len(stack')] = "test"
      /\ (value # "" => stack' = <<value>> \o outer)
  <2>1. CASE value = ""
    BY <1>3, <1>4, <2>1
  <2>2. CASE value # ""
    <3>1. /\ <<value>> \o outer \in Seq(Texts) /\ Len(<<value>> \o outer) = Len(outer) + 1
          /\ \A i \in 1..Len(outer) : (<<value>> \o outer)[i + 1] = outer[i]
      BY <1>2, <1>3, PutFirst
    <3>2. (<<value>> \o outer)[Len(outer) + 1] = "test"
      BY <1>3, <3>1
    <3>3. stack' = <<value>> \o outer
      BY <1>4, <2>2
    <3> HIDE DEF value
    <3>4. Len(stack') = Len(outer) + 1
      BY <3>1, <3>3
    <3>5. Len(stack') > 0 /\ stack'[Len(stack')] = "test"
      BY <1>3, <3>2, <3>3, <3>4
    <3> QED BY <3>1, <3>3, <3>5
  <2> QED BY <2>1, <2>2
<1>6. at \in Nat /\ at > 0 /\ at \in 1..Len(program) /\ program \in Programs
  BY <1>1 DEF Typed, Stands
<1>7. /\ line.msg = "^done" /\ line.frame = frame1 /\ line.values = << >> /\ line.dumps = << >>
      /\ line \in Lines /\ frame1 # NoFrame /\ frame1.step = at /\ frame1.fn = Head(outer)
  <2>1. frame1 \in Frames /\ frame1 # NoFrame
    <3>1. frame1.step = at /\ NoFrame.step = 0
      BY DEF NoFrame
    <3>2. frame1 # NoFrame
      BY <1>6, <3>1
    <3>3. frame1 \in Frames
      BY <1>3, <1>6 DEF Frames
    <3> QED BY <3>2, <3>3
  <2>2. line = [msg |-> "^done", frame |-> frame1, values |-> << >>, dumps |-> << >>]
    BY DEF Done, Line
  <2> HIDE DEF frame1, line
  <2>3. line \in Lines
    BY <2>1, <2>2 DEF Lines
  <2> USE DEF frame1
  <2> QED BY <2>1, <2>2, <2>3
<1> HIDE DEF line
<1>8. fromGdb' = <<line>>
  <2>1. << >> \o <<line>> = <<line>>
    OBVIOUS
  <2> QED BY <1>1, <1>4, <2>1
<1>9. ~Evaluates(todo[1]) /\ todo[1].name # "readDump" /\ ~Continues(todo[1])
      /\ ~Deletes(todo[1]) /\ ~Inserts(todo[1]) /\ ~Reads(todo[1])
  BY <1>2 DEF Shape, Evaluates, Continues, Deletes, Inserts, Reads
<1>10. Value' = << >> /\ Dump' = << >>
  BY <1>1, <1>9 DEF Value, Dump, Evaluates
<1>11. Registers(todo[1]) => frame1.fn \in {"whenStub", "whenMock"}
  <2> SUFFICES ASSUME Registers(todo[1]) PROVE Head(outer) \in {"whenStub", "whenMock"}
    BY <1>7
  <2>1. stack = StackIn(program[at]) /\ Kind(at) \in {"addStub", "addMock"}
    BY <1>1 DEF InTest, JumpsOut
  <2>2. stack = <<"MessageToDebugger", Caller(program[at]), "test">>
    BY <1>6, <2>1, StackFacts DEF Messages
  <2>3. Len(stack) > 1 /\ Head(Tail(stack)) = Caller(program[at])
    BY <2>2
  <2>4. Caller(program[at]) \in {"whenStub", "whenMock"}
    BY <2>1 DEF Caller, Kind
  <2> QED BY <2>3, <2>4 DEF outer
<1>12. ASSUME Reduces(todo[1]) PROVE Head(stack') = Replacement(at)
  <2>1. Kind(at) = "call" /\ HasMock(program[at].fn) /\ todo[1].command = getThen(program[at].fn)
    BY <1>1, <1>9, <1>12 DEF Replaced
  <2>2. Lists(Live(at)) /\ mocks \in Seq(Replacements)
    <3>1. ~NewStop /\ ~running /\ ~Registers(todo[1])
      BY <1>1, <1>12 DEF NewStop, Handling, Typed, Stands, Registers, Reduces
    <3>2. passed = at
      BY <3>1 DEF passed
    <3> QED BY <2>1, <3>2 DEF Registered, Typed
  <2>3. PICK j \in 1..Len(program) : /\ Kind(j) \in {"addStub", "addMock"}
                                     /\ getThen(program[at].fn) = Then(program[j])
                                     /\ Replacement(at) = program[j].by
    BY <1>6, <2>1, <2>2, FirstReplaces
  <2>4. Kind(j) = "addStub"
    <3>1. Then(program[j]).do = "-exec-return"
      BY <2>1, <2>3
    <3>2. ~(program[j].kind = "addStub") => Then(program[j]).do = "set $pc"
      BY DEF Then, Command
    <3> QED BY <3>1, <3>2 DEF Kind
  <2>5. value = program[j].by
    BY <2>1, <2>3, <2>4 DEF Then, Command, Kind
  <2>6. value # ""
    BY <2>4, <2>5, <1>6, ProgramFacts
  <2>7. Head(<<value>> \o outer) = value
    <3>1. /\ <<value>> \o outer \in Seq(Texts) /\ (<<value>> \o outer)[1] = value
          /\ Len(<<value>> \o outer) = Len(outer) + 1
      BY <1>2, <1>3, PutFirst
    <3>2. <<value>> \o outer # << >>
      BY <1>3, <3>1, Short
    <3> QED BY <3>1, <3>2, TailOf
  <2> QED BY <1>5, <2>3, <2>5, <2>6, <2>7
<1>13. Breaks'
  BY <1>1, <1>4, <1>9, OthersLeaveBreakpoints
<1>14. cleared' \in BOOLEAN
  BY <1>4 DEF Typed
<1> HIDE DEF value, frame1
<1> QED BY <1>4, <1>5, <1>7, <1>8, <1>9, <1>10, <1>11, <1>12, <1>13, <1>14, CommandKeeps

(* A call that is replaced: what the mocks hold for it.                    *)
LEMMA ReduceFacts ==
  ASSUME Inv, todo # << >>, place = 1, Ahead, Handling, Reduces(todo[1])
  PROVE  \E j \in 1..Len(program) :
           /\ Kind(j) \in {"addStub", "addMock"} /\ todo[1].command = Then(program[j])
           /\ Replacement(at) = program[j].by
<1> USE DEF Inv
<1>1. at \in 1..Len(program) /\ program \in Programs
  BY DEF Typed, Stands, Handling
<1>2. Shape(todo[1]) /\ ~Continues(todo[1])
  <2>1. Shape(todo[1])
    BY PlanFacts
  <2>2. todo[1].command.do = "-exec-return" \/ Redirects(todo[1])
    BY <2>1 DEF Shape
  <2>3. Redirects(todo[1]) => ~Continues(todo[1])
    BY DEF Redirects, Continues
  <2> QED BY <2>1, <2>2, <2>3 DEF Continues
<1>3. Kind(at) = "call" /\ HasMock(program[at].fn) /\ todo[1].command = getThen(program[at].fn)
  BY <1>2 DEF Replaced
<1>4. ~NewStop /\ ~running /\ ~Registers(todo[1])
  BY DEF NewStop, Handling, Typed, Stands, Registers, Reduces
<1>5. passed = at
  BY <1>4 DEF passed
<1>6. Lists(Live(at)) /\ mocks \in Seq(Replacements)
  BY <1>3, <1>5 DEF Registered, Typed
<1> QED BY <1>1, <1>3, <1>6, FirstReplaces

(* A set $pc puts the replacement on top. *)
LEMMA SetProgramCounterKeeps ==
  ASSUME Inv, GdbStep, UNCHANGED runVars, Redirects(todo[1]),
         SetProgramCounter(todo[1].command.arg)
  PROVE  Inv'
<1> USE DEF Inv
<1> DEFINE value == todo[1].command.arg
<1>1. /\ Asked /\ Handling /\ todo # << >> /\ ~carried /\ carried' /\ place = 1 /\ place' = 2
      /\ Ahead /\ fromGdb = << >> /\ todo' = todo /\ mocks' = mocks /\ ~running
  BY GdbReads DEF runVars, Handling
<1>2. Shape(todo[1]) /\ todo[1].command.arg \in Texts
  BY <1>1, PlanFacts, OpFacts
<1>3. ~Evaluates(todo[1]) /\ todo[1].name # "readDump" /\ ~Continues(todo[1])
      /\ ~Deletes(todo[1]) /\ ~Inserts(todo[1]) /\ ~Reads(todo[1])
      /\ Reduces(todo[1]) /\ todo[1].name \notin {"buffToSmall", "addStub", "addMock"}
  <2>1. ~Evaluates(todo[1]) /\ ~Continues(todo[1]) /\ ~Deletes(todo[1]) /\ ~Inserts(todo[1])
    BY DEF Redirects, Evaluates, Continues, Deletes, Inserts
  <2>2. Reduces(todo[1])
    BY <1>2 DEF Shape
  <2> QED BY <2>1, <2>2 DEF Reduces, Reads
<1>4. /\ stack' = <<value>> \o Tail(stack)
      /\ UNCHANGED <<program, at, running, interrupted, called, cleared, breakpoints>>
      /\ Answer(<<Done>>)
  BY DEF SetProgramCounter
<1>5. /\ fromGdb' = <<Done>> /\ Done \in Lines /\ Done.msg = "^done"
      /\ Done.values = Value' /\ Done.dumps = Dump'
  BY <1>3, <1>4, DoneLine
<1>6. Len(stack) > 1
  <2>1. stack = StackIn(program[at]) /\ Kind(at) = "call"
    BY <1>1, <1>3 DEF InTest, Replaced
  <2>2. at \in 1..Len(program) /\ program \in Programs
    BY <1>1, StandsIn
  <2>3. stack = <<program[at].fn, "test">>
    BY <2>1, <2>2, StackFacts
  <2> QED BY <2>3
<1> HIDE DEF value
<1>7. /\ stack' \in Seq(Texts) /\ Len(stack') > 0 /\ stack'[Len(stack')] = "test"
      /\ Head(stack') = value
  <2>1. stack \in Seq(Texts) /\ Len(stack) \in Nat /\ stack # << >> /\ stack[Len(stack)] = "test"
    BY <1>1, StackStands
  <2>2. /\ Tail(stack) \in Seq(Texts) /\ Tail(stack) # << >>
        /\ Tail(stack)[Len(Tail(stack))] = "test"
    BY <1>6, <2>1, TailOf, LastStays
  <2>3. value \in Texts
    BY <1>2 DEF value
  <2>4. <<value>> \o Tail(stack) \in Seq(Texts) /\ <<value>> \o Tail(stack) # << >>
        /\ (<<value>> \o Tail(stack))[Len(<<value>> \o Tail(stack))] = "test"
        /\ Head(<<value>> \o Tail(stack)) = value
    BY <2>2, <2>3, PutFirst, LastStays
  <2>5. stack' = <<value>> \o Tail(stack)
    BY <1>4
  <2>6. Len(stack') > 0
    BY <2>4, <2>5, TailOf
  <2> QED BY <2>4, <2>5, <2>6
<1>8. Head(stack') = Replacement(at)
  <2>1. PICK j \in 1..Len(program) :
           /\ Kind(j) \in {"addStub", "addMock"} /\ todo[1].command = Then(program[j])
           /\ Replacement(at) = program[j].by
    BY <1>1, <1>3, ReduceFacts
  <2>2. Then(program[j]).arg = program[j].by
    BY DEF Then, Command
  <2> QED BY <1>7, <2>1, <2>2 DEF value
<1>9. Breaks'
  BY <1>1, <1>3, <1>4, OthersLeaveBreakpoints
<1>10. cleared' \in BOOLEAN
  BY <1>4 DEF Typed
<1> QED BY <1>3, <1>4, <1>5, <1>7, <1>8, <1>9, <1>10, CommandKeeps DEF Registers

(* A value is asked for: it comes with the answer. *)
LEMMA EvaluateKeeps ==
  ASSUME Inv, GdbStep, UNCHANGED runVars, todo[1].command.do = "-data-evaluate-expression",
         Evaluate(todo[1].command.arg)
  PROVE  Inv'
<1> USE DEF Inv
<1> DEFINE value == [of |-> todo[1].command.arg, positive |-> program[at].data /\ ~cleared]
           line == [Done EXCEPT !.values = <<value>>]
<1>1. /\ Asked /\ Handling /\ todo # << >> /\ ~carried /\ carried' /\ place = 1 /\ place' = 2
      /\ Ahead /\ fromGdb = << >> /\ todo' = todo /\ mocks' = mocks /\ ~running
  BY GdbReads DEF runVars, Handling
<1>2. Shape(todo[1]) /\ todo[1].command.arg \in Texts
  BY <1>1, PlanFacts, OpFacts
<1>3. Evaluates(todo[1]) /\ todo[1].name # "readDump" /\ ~Continues(todo[1])
      /\ ~Deletes(todo[1]) /\ ~Inserts(todo[1]) /\ ~Reduces(todo[1])
      /\ todo[1].name \notin {"buffToSmall", "addStub", "addMock"}
  BY <1>2 DEF Shape, Evaluates, Continues, Deletes, Inserts, Reduces
<1>4. fromGdb' = fromGdb \o <<line>> /\ UNCHANGED <<targetVars, breakpoints>>
  BY DEF Evaluate, Answer
<1>5. value \in Values
  <2>1. (program[at].data /\ ~cleared) \in BOOLEAN
    OBVIOUS
  <2> QED BY <1>2, <2>1 DEF Values
<1>6. Value' = <<value>> /\ Dump' = << >>
  BY <1>1, <1>3, <1>4 DEF Value, Dump, targetVars
<1>7. /\ line.msg = "^done" /\ line.values = <<value>> /\ line.dumps = << >>
      /\ line \in Lines
  <2>1. line = [msg |-> "^done", frame |-> NoFrame, values |-> <<value>>, dumps |-> << >>]
    BY DEF Done, Line
  <2>2. NoFrame \in Frames
    BY LineFacts
  <2>3. <<value>> \in Seq(Values)
    BY <1>5
  <2> HIDE DEF value, line
  <2>4. line \in Lines
    BY <2>1, <2>2, <2>3 DEF Lines
  <2> QED BY <2>1, <2>4
<1> HIDE DEF line, value
<1>8. fromGdb' = <<line>>
  <2>1. << >> \o <<line>> = <<line>>
    OBVIOUS
  <2> QED BY <1>1, <1>4, <2>1
<1>9. stack' \in Seq(Texts) /\ Len(stack') > 0 /\ stack'[Len(stack')] = "test"
  BY <1>1, <1>4, StackStands DEF targetVars
<1>10. Breaks'
  BY <1>1, <1>3, <1>4, OthersLeaveBreakpoints
<1>11. cleared' \in BOOLEAN /\ cleared' = cleared
  BY <1>4 DEF Typed, targetVars
<1> QED BY <1>3, <1>4, <1>6, <1>7, <1>8, <1>9, <1>10, <1>11, CommandKeeps DEF Registers, targetVars

(* The buffer is asked for: the dump comes with the answer. *)
LEMMA ReadMemoryKeeps ==
  ASSUME Inv, GdbStep, UNCHANGED runVars, todo[1].command.do = "-data-read-memory-bytes",
         ReadMemory
  PROVE  Inv'
<1> USE DEF Inv
<1> DEFINE line == [Done EXCEPT !.dumps = <<at>>]
<1>1. /\ Asked /\ Handling /\ todo # << >> /\ ~carried /\ carried' /\ place = 1 /\ place' = 2
      /\ Ahead /\ fromGdb = << >> /\ todo' = todo /\ mocks' = mocks /\ ~running
  BY GdbReads DEF runVars, Handling
<1>2. Shape(todo[1])
  BY <1>1, PlanFacts
<1>3. ~Evaluates(todo[1]) /\ todo[1].name = "readDump" /\ ~Continues(todo[1])
      /\ ~Deletes(todo[1]) /\ ~Inserts(todo[1]) /\ ~Reduces(todo[1])
      /\ todo[1].name \notin {"buffToSmall", "addStub", "addMock"}
  BY <1>2 DEF Shape, Evaluates, Continues, Deletes, Inserts, Reduces
<1>4. fromGdb' = fromGdb \o <<line>> /\ UNCHANGED <<targetVars, breakpoints>>
  BY DEF ReadMemory, Answer
<1>5. Value' = << >> /\ Dump' = <<at>>
  BY <1>1, <1>3, <1>4 DEF Value, Dump, targetVars
<1>6. /\ line.msg = "^done" /\ line.values = << >> /\ line.dumps = <<at>>
      /\ line \in Lines
  <2>1. line = [msg |-> "^done", frame |-> NoFrame, values |-> << >>, dumps |-> <<at>>]
    BY DEF Done, Line
  <2>2. NoFrame \in Frames
    BY LineFacts
  <2>3. <<at>> \in Seq(Nat)
    BY DEF Typed
  <2> HIDE DEF line
  <2>4. line \in Lines
    BY <2>1, <2>2, <2>3 DEF Lines
  <2> QED BY <2>1, <2>4
<1> HIDE DEF line
<1>7. fromGdb' = <<line>>
  <2>1. << >> \o <<line>> = <<line>>
    OBVIOUS
  <2> QED BY <1>1, <1>4, <2>1
<1>8. stack' \in Seq(Texts) /\ Len(stack') > 0 /\ stack'[Len(stack')] = "test"
  BY <1>1, <1>4, StackStands DEF targetVars
<1>9. Breaks'
  BY <1>1, <1>3, <1>4, OthersLeaveBreakpoints
<1>10. cleared' \in BOOLEAN /\ cleared' = cleared
  BY <1>4 DEF Typed, targetVars
<1> QED BY <1>3, <1>4, <1>5, <1>6, <1>7, <1>8, <1>9, <1>10, CommandKeeps DEF Registers, targetVars

(* A variable of the target is set. *)
LEMMA SetVariableKeeps ==
  ASSUME Inv, GdbStep, UNCHANGED runVars, todo[1].command.do = "set",
         SetVariable(todo[1].command.arg)
  PROVE  Inv'
<1> USE DEF Inv
<1>1. /\ Asked /\ Handling /\ todo # << >> /\ ~carried /\ carried' /\ place = 1 /\ place' = 2
      /\ Ahead /\ fromGdb = << >> /\ todo' = todo /\ mocks' = mocks /\ ~running
  BY GdbReads DEF runVars, Handling
<1>2. Shape(todo[1])
  BY <1>1, PlanFacts
<1>3. ~Evaluates(todo[1]) /\ todo[1].name # "readDump" /\ ~Continues(todo[1])
      /\ ~Deletes(todo[1]) /\ ~Inserts(todo[1]) /\ ~Reduces(todo[1]) /\ ~Reads(todo[1])
      /\ todo[1].name \notin {"buffToSmall", "addStub", "addMock"}
  BY <1>2, RedirectsOnly DEF Shape, Evaluates, Continues, Deletes, Inserts, Reduces, Reads
<1>4. /\ cleared' = (cleared \/ todo[1].command.arg = "test_result_index")
      /\ UNCHANGED <<program, at, stack, running, interrupted, called, breakpoints>>
      /\ Answer(<<Done>>)
  BY DEF SetVariable
<1>5. /\ fromGdb' = <<Done>> /\ Done \in Lines /\ Done.msg = "^done"
      /\ Done.values = Value' /\ Done.dumps = Dump'
  BY <1>3, <1>4, DoneLine
<1>6. stack' \in Seq(Texts) /\ Len(stack') > 0 /\ stack'[Len(stack')] = "test"
  BY <1>1, <1>4, StackStands
<1>7. Breaks'
  BY <1>1, <1>3, <1>4, OthersLeaveBreakpoints
<1>8. cleared' \in BOOLEAN
  BY <1>4
<1> QED BY <1>3, <1>4, <1>5, <1>6, <1>7, <1>8, CommandKeeps DEF Registers

(* Breakpoints are set or removed. *)
LEMMA SetBreakpointsKeeps ==
  ASSUME Inv, GdbStep, UNCHANGED runVars,
         \/ /\ todo[1].command.do = "-break-insert"
            /\ SetBreakpoints(breakpoints \union {todo[1].command.arg})
         \/ todo[1].command.do = "-break-delete" /\ SetBreakpoints({})
  PROVE  Inv'
<1> USE DEF Inv
<1>1. /\ Asked /\ Handling /\ todo # << >> /\ ~carried /\ carried' /\ place = 1 /\ place' = 2
      /\ Ahead /\ fromGdb = << >> /\ todo' = todo /\ mocks' = mocks /\ ~running
  BY GdbReads DEF runVars, Handling
<1>2. Shape(todo[1])
  BY <1>1, PlanFacts
<1>3. ~Evaluates(todo[1]) /\ todo[1].name # "readDump" /\ ~Continues(todo[1])
      /\ ~Reduces(todo[1]) /\ ~Reads(todo[1]) /\ ~Leaves(todo[1])
      /\ todo[1].name \notin {"buffToSmall", "addStub", "addMock"}
  <2>1. todo[1].command.do \in {"-break-insert", "-break-delete"}
    OBVIOUS
  <2>2. ~Redirects(todo[1])
    BY <2>1, RedirectsOnly
  <2> QED BY <1>2, <2>1, <2>2 DEF Shape, Evaluates, Continues, Reduces, Reads, Leaves
<1>4. UNCHANGED targetVars /\ Answer(<<Done>>)
  BY DEF SetBreakpoints
<1>5. /\ fromGdb' = <<Done>> /\ Done \in Lines /\ Done.msg = "^done"
      /\ Done.values = Value' /\ Done.dumps = Dump'
  BY <1>3, <1>4, DoneLine DEF targetVars
<1>6. stack' \in Seq(Texts) /\ Len(stack') > 0 /\ stack'[Len(stack')] = "test"
  BY <1>1, <1>4, StackStands DEF targetVars
<1>7. Len(todo) > 1 /\ Follows(todo[1], todo[2])
  BY <1>1, <1>3, PlanFacts DEF IsLast
<1>8. Ahead' /\ todo'[place'] = todo[2] /\ Wanted' = Wanted /\ OnlyFirst(todo[2])
  BY <1>1, <1>7 DEF Ahead, Wanted, Follows
<1>9. Breaks'
  <2>1. CASE todo[1].command.do = "-break-delete"
    <3>1. Deletes(todo[1]) /\ breakpoints' = {}
      BY <2>1 DEF Deletes, SetBreakpoints
    <3>2. mocks = << >> /\ todo[2] = DetachBreakpoint
      BY <1>1, <1>7, <3>1 DEF Breaks, Follows
    <3> QED BY <1>1, <1>8, <3>1, <3>2, OwnBreakpoints DEF Breaks
  <2>2. CASE todo[1].command.do = "-break-insert"
    <3>1. Inserts(todo[1]) /\ ~Deletes(todo[1])
          /\ breakpoints' = breakpoints \union {todo[1].command.arg}
      BY <2>2 DEF Inserts, Deletes, SetBreakpoints
    <3>2. todo[2] # DetachBreakpoint /\ ~Deletes(todo[2])
          /\ (Inserts(todo[2]) => todo[2] = MessageBreakpoint)
          /\ (todo[2] = MessageBreakpoint <=> todo[1] = DetachBreakpoint)
      BY <1>7, <3>1 DEF Follows, OnlyFirst
    <3>3. CASE todo[1] = DetachBreakpoint
      <4>1. mocks = << >> /\ breakpoints = {} /\ todo[1].command.arg = "detachTarget"
        BY <1>1, <3>3, OwnBreakpoints DEF Breaks
      <4>2. breakpoints' = {"detachTarget"}
        BY <3>1, <4>1
      <4> QED BY <1>1, <1>8, <3>2, <3>3, <4>1, <4>2, OwnBreakpoints DEF Breaks
    <3>4. CASE todo[1] # DetachBreakpoint
      <4>1. breakpoints' = Wanted
        <5>1. CASE todo[1] = MessageBreakpoint
          <6>1. mocks = << >> /\ breakpoints = {"detachTarget"}
                /\ todo[1].command.arg = "MessageToDebugger"
            BY <1>1, <5>1, OwnBreakpoints DEF Breaks
          <6>2. Wanted = {"MessageToDebugger", "detachTarget"}
            BY <6>1 DEF Wanted, EUnitBreakpoints
          <6> QED BY <3>1, <6>1, <6>2
        <5>2. CASE todo[1] # MessageBreakpoint
          <6>1. breakpoints \union {todo[1].command.arg} = Wanted
            BY <1>1, <3>1, <3>4, <5>2 DEF Breaks
          <6> QED BY <3>1, <6>1
        <5> QED BY <5>1, <5>2
      <4>2. ~Inserts(todo[2]) /\ todo[2] # MessageBreakpoint
        BY <3>2, <3>4
      <4> QED BY <1>8, <3>2, <4>1, <4>2 DEF Breaks
    <3> QED BY <3>3, <3>4
  <2> QED BY <2>1, <2>2
<1>10. cleared' \in BOOLEAN
  BY <1>4 DEF Typed, targetVars
<1> QED BY <1>3, <1>4, <1>5, <1>6, <1>9, <1>10, CommandKeeps DEF Registers, targetVars

(* A continue is the last operation: the target leaves the stop it was in. *)
LEMMA ContinueFacts ==
  ASSUME Inv, todo # << >>, Continues(todo[1])
  PROVE  /\ Len(todo) = 1 /\ frame.fn # "detachTarget" /\ mode = "testing"
         /\ todo[1].waitForStopped <=> ~(frame # NoFrame /\ Kind(frame.step) = "finishAllTest")
         /\ ~Evaluates(todo[1]) /\ todo[1].name = "execute" /\ ~Reads(todo[1])
         /\ ~Registers(todo[1]) /\ ~Reduces(todo[1]) /\ ~Deletes(todo[1]) /\ ~Inserts(todo[1])
         /\ Tail(todo) = << >> /\ (place = 2 => ~Ahead)
<1> USE DEF Inv
<1>1. /\ Len(todo) = 1 /\ Shape(todo[1]) /\ IsLast(todo[1]) /\ todo[1] \in Ops
      /\ Tail(todo) = << >> /\ mode = "testing"
  BY PlanFacts
<1>2. ~Leaves(todo[1])
  BY <1>1 DEF Continues, Shape
<1>3. ~Redirects(todo[1])
  BY RedirectsOnly DEF Continues
<1>4. /\ ~Evaluates(todo[1]) /\ ~Deletes(todo[1]) /\ ~Inserts(todo[1]) /\ ~Reduces(todo[1])
      /\ ~Reads(todo[1]) /\ ~Registers(todo[1])
  BY <1>1, <1>3 DEF Continues, Shape, Evaluates, Deletes, Inserts, Reduces, Reads, Registers
<1>5. todo[1].name = "execute"
  <2>1. todo[1].name \in Names
    BY <1>1, OpFacts
  <2> QED BY <1>1, <1>2, <1>4, <2>1 DEF Names, Continues, Shape, Evaluates, Reduces, Leaves
<1>6. frame.fn # "detachTarget" /\
      (todo[1].waitForStopped <=> ~(frame # NoFrame /\ Kind(frame.step) = "finishAllTest"))
  BY <1>1, <1>2 DEF IsLast
<1>7. place = 2 => ~Ahead
  BY <1>1 DEF Ahead
<1> QED BY <1>1, <1>4, <1>5, <1>6, <1>7

(* Where the host handles a stop, the frame tells where the target is. *)
LEMMA HandlingFacts ==
  ASSUME Inv, Handling, mode = "testing"
  PROVE  /\ at \in 1..Len(program) /\ at \in Nat /\ program \in Programs /\ ~running
         /\ handled = << >> => at = 1 /\ frame = NoFrame /\ Kind(at) = "startTesting"
         /\ handled # << >> =>
              /\ frame # NoFrame /\ frame.step = at /\ frame = handled[Len(handled)]
              /\ frame.fn = Head(StackIn(program[at])) /\ Kind(at) \in StopKinds /\ at > 1
              /\ Len(handled) \in 1..Len(handled) /\ handled[Len(handled)].step = at
<1> USE DEF Inv
<1>1. ~running /\ at \in 1..Len(program) /\ at \in Nat /\ program \in Programs
  BY StandsIn DEF Handling
<1>2. ASSUME handled = << >> PROVE at = 1 /\ frame = NoFrame /\ Kind(at) = "startTesting"
  <2>1. at = 1 /\ frame = NoFrame
    BY <1>2 DEF Stands
  <2> QED BY <1>1, <2>1, ProgramFacts
<1>3. ASSUME handled # << >>
      PROVE  /\ frame # NoFrame /\ frame.step = at /\ frame = handled[Len(handled)]
             /\ frame.fn = Head(StackIn(program[at])) /\ Kind(at) \in StopKinds /\ at > 1
             /\ Len(handled) \in 1..Len(handled) /\ handled[Len(handled)].step = at
  <2>1. Len(handled) \in Nat /\ Len(handled) > 0 /\ Len(handled) \in 1..Len(handled)
    BY <1>3, TailOf DEF Typed
  <2>2. frame # NoFrame /\ frame.step = at /\ frame = handled[Len(handled)]
    BY <1>3 DEF Stands, HandledInOrder
  <2>3. /\ handled[Len(handled)] = StopFrame(Len(handled), handled[Len(handled)].step)
        /\ handled[Len(handled)].step \in 2..Len(program)
        /\ Kind(handled[Len(handled)].step) \in StopKinds
    BY <2>1 DEF HandledInOrder
  <2>4. frame.fn = Head(StackIn(program[at]))
    BY <2>2, <2>3 DEF StopFrame
  <2> QED BY <2>1, <2>2, <2>3, <2>4, ProgramLength, <1>1
<1> QED BY <1>1, <1>2, <1>3

(* gdb resumes the target. *)
LEMMA ContinueKeeps ==
  ASSUME Inv, GdbStep, UNCHANGED runVars, Continues(todo[1]), Continue
  PROVE  Inv'
<1> USE DEF Inv
<1>1. /\ Asked /\ Handling /\ todo # << >> /\ ~carried /\ carried' /\ place = 1 /\ place' = 2
      /\ Ahead /\ fromGdb = << >> /\ toGdb' = << >> /\ ~running
      /\ UNCHANGED <<decoderVars, streamVars, waits, stops, runVars>>
      /\ values = << >> /\ dumps = << >> /\ decoded = Nothing
  BY GdbReads DEF Handling
<1>2. /\ Len(todo) = 1 /\ frame.fn # "detachTarget" /\ mode = "testing"
      /\ todo[1].waitForStopped <=> ~(frame # NoFrame /\ Kind(frame.step) = "finishAllTest")
      /\ ~Evaluates(todo[1]) /\ todo[1].name = "execute" /\ ~Reads(todo[1])
      /\ ~Registers(todo[1]) /\ ~Reduces(todo[1]) /\ ~Deletes(todo[1]) /\ ~Inserts(todo[1])
  BY <1>1, ContinueFacts
<1>3. /\ at \in 1..Len(program) /\ at \in Nat /\ program \in Programs
      /\ handled = << >> => at = 1 /\ frame = NoFrame /\ Kind(at) = "startTesting"
      /\ handled # << >> =>
           /\ frame # NoFrame /\ frame.step = at /\ frame = handled[Len(handled)]
           /\ frame.fn = Head(StackIn(program[at])) /\ handled[Len(handled)].step = at
  BY <1>1, <1>2, HandlingFacts
<1>4. /\ fromGdb' = fromGdb \o <<Line("^running"), Line("*running")>>
      /\ running' = TRUE /\ at' \in GoesOn /\ stack' = << >> /\ cleared' = FALSE
      /\ called' = IF program[at].kind = "call" /\ at' = at + 1
                   THEN called \union {<<at, Head(stack)>>} ELSE called
      /\ UNCHANGED <<program, interrupted, breakpoints>>
  BY DEF Continue, Answer
<1>5. at' = at + 1
  <2>1. stack \in Seq(Texts) /\ Len(stack) > 0 /\ stack[Len(stack)] = "test"
    BY <1>1, StackStands
  <2>2. stack # <<"test", "group">> /\ stack # <<"group">>
    BY <2>1
  <2>3. GoesOn = {at + 1}
    BY <2>2 DEF GoesOn
  <2> QED BY <1>4, <2>3
<1>6. Kind(at) # "detachTarget"
  <2>1. ASSUME handled # << >>, Kind(at) = "detachTarget" PROVE FALSE
    <3>1. StackIn(program[at]) = <<"detachTarget", "test">>
      BY <1>3, <2>1, StackFacts
    <3>2. Head(StackIn(program[at])) = "detachTarget"
      BY <3>1
    <3> QED BY <1>2, <1>3, <2>1, <3>2
  <2> QED BY <1>3, <2>1
<1>7. fromGdb' = <<Line("^running"), Line("*running")>>
  <2>1. \A a, b : << >> \o <<a, b>> = <<a, b>>
    OBVIOUS
  <2> QED BY <1>1, <1>4, <2>1
<1>8. Value' = << >> /\ Dump' = << >>
  BY <1>1, <1>2 DEF Value, Dump, runVars, Evaluates
<1>9. UNCHANGED <<todo, frame, mode, handled, mocks, analysed, testNotFinYet, isTimeout, timeouts>>
  BY <1>1 DEF runVars
<1>10. ~NewStop' /\ ~NewStop /\ stops = Len(handled) /\ stops' = Len(handled')
       /\ ~Handling' /\ ~Ahead' /\ stops \in Nat
  <2>1. stops = Len(handled) /\ stops \in Nat /\ stops' = Len(handled')
    BY <1>1, <1>9 DEF Handling, Typed
  <2>2. ~NewStop /\ ~NewStop'
    BY <2>1 DEF NewStop
  <2>3. ~Ahead'
    <3>1. place' = 2 /\ Len(todo') = 1
      BY <1>1, <1>2, <1>9
    <3> QED BY <3>1 DEF Ahead
  <2> QED BY <1>4, <2>1, <2>2, <2>3 DEF Handling
<1>11. Typed'
  <2>1. fromGdb' \in Seq(Lines) /\ stack' \in Seq(Texts) /\ at' \in Nat
    <3>1. <<Line("^running"), Line("*running")>> \in Seq(Lines)
      BY LineFacts, Tuples
    <3>2. << >> \in Seq(Texts)
      OBVIOUS
    <3>3. at' \in Nat
      BY <1>3, <1>5
    <3> QED BY <1>4, <1>7, <3>1, <3>2, <3>3
  <2> QED BY <1>1, <1>4, <1>9, <2>1 DEF Typed, decoderVars, streamVars
<1>12. Channel'
  <2>1. Comes(<<Line("^running"), Line("*running")>>)'
    BY <1>4, <1>7 DEF Comes
  <2>2. ~todo[1].waitForStopped => at' = Len(program') + 1
    <3> SUFFICES ASSUME ~todo[1].waitForStopped PROVE at = Len(program)
      BY <1>4, <1>5
    <3>1. frame # NoFrame /\ Kind(frame.step) = "finishAllTest"
      BY <1>2
    <3>2. Kind(at) = "finishAllTest"
      BY <1>3, <3>1
    <3> QED BY <1>3, <3>2, ProgramFacts
  <2>3. Resumed'
    BY <1>1, <1>4, <1>9, <2>1, <2>2 DEF Asked, Asking, Resumed, Start, Continues, decoderVars
  <2> QED BY <2>3 DEF Channel
<1>13. Data'
  <2>1. \A k \in 1..Len(fromGdb') : fromGdb'[k].values = << >> /\ fromGdb'[k].dumps = << >>
    <3>1. Len(fromGdb') = 2 /\ fromGdb'[1] = Line("^running") /\ fromGdb'[2] = Line("*running")
      BY <1>7
    <3>2. \A k \in 1..Len(fromGdb') : k = 1 \/ k = 2
      BY <3>1
    <3> QED BY <3>1, <3>2, LineFacts
  <2>2. fromGdb' # << >>
    BY <1>7
  <2> QED BY <1>1, <1>8, <2>1, <2>2 DEF Data, streamVars
<1>14. Plan' /\ HandledInOrder' /\ GoesRound'
  <2>1. Plan'
    BY <1>4, <1>9 DEF Plan, IsLast, Kind
  <2>2. HandledInOrder'
    BY <1>4, <1>9 DEF HandledInOrder, Kind, StopFrame
  <2>3. GoesRound'
    BY <1>9 DEF GoesRound
  <2> QED BY <2>1, <2>2, <2>3
<1>15. Stands'
  <2>1. at' \in 1..(Len(program') + 1) /\ at' > 1
    BY <1>3, <1>4, <1>5, ProgramLength
  <2>2. handled' # << >> => handled'[Len(handled')].step < at'
    BY <1>3, <1>5, <1>9
  <2> QED BY <1>2, <1>4, <1>9, <1>10, <2>1, <2>2 DEF Stands
<1>16. InTest'
  BY <1>4, <1>10 DEF InTest
<1>17. JumpsOut'
  BY <1>2, <1>9, <1>10 DEF JumpsOut, Registers
<1>18. Batches'
  <2>1. BatchesOnce'
    BY <1>9 DEF Batches, BatchesOnce
  <2>2. \A k : HasBatch(handled[k])' <=> HasBatch(handled[k])
    BY <1>4, <1>9 DEF HasBatch, Reports
  <2> QED BY <1>2, <1>9, <2>1, <2>2 DEF Batches
<1>19. Registered'
  <2>1. passed = at /\ passed' = at
    BY <1>1, <1>2, <1>3, <1>4, <1>5, <1>10 DEF passed
  <2>2. Live(passed)' = Live(passed)
    BY <1>4, <2>1 DEF Live, Kind
  <2>3. Lists(Live(passed))
    BY <1>6 DEF Registered
  <2>4. Lists(Live(passed))'
    BY <1>4, <1>9, <2>2, <2>3 DEF Lists
  <2> QED BY <2>4 DEF Registered
<1>20. Breaks'
  <2>1. todo[1] # DetachBreakpoint /\ todo[1] # MessageBreakpoint
    BY <1>2, OwnBreakpoints
  <2>2. breakpoints = Wanted /\ Wanted' = Wanted
    BY <1>1, <1>2, <1>9, <2>1 DEF Breaks, Wanted
  <2> QED BY <1>4, <1>10, <2>2 DEF Breaks
<1>21. Replaced'
  <2>1. \A k : Replacement(k)' = Replacement(k)
    BY <1>4 DEF Replacement
  <2>2. Kind(at) = "call" => Head(stack) = Replacement(at)
    BY <1>1, <1>2 DEF Replaced
  <2>3. \A c \in called' : c[2] = Replacement(c[1])
    <3>1. CASE Kind(at) = "call"
      <4> TAKE c \in called'
      <4>1. CASE c \in called
        BY <4>1 DEF Replaced, CallsAreReplaced
      <4>2. CASE c = <<at, Head(stack)>>
        BY <2>2, <3>1, <4>2
      <4> QED BY <1>4, <4>1, <4>2
    <3>2. CASE Kind(at) # "call"
      BY <1>4, <3>2 DEF Replaced, CallsAreReplaced, Kind
    <3> QED BY <3>1, <3>2
  <2>4. CallsAreReplaced'
    BY <2>1, <2>3 DEF CallsAreReplaced
  <2> QED BY <1>10, <2>4 DEF Replaced
<1> QED BY <1>11, <1>12, <1>13, <1>14, <1>15, <1>16, <1>17, <1>18, <1>19, <1>20, <1>21

(* gdb carries out any command of the loop. *)
LEMMA GdbKeeps ==
  ASSUME Inv, GdbStep, UNCHANGED runVars
  PROVE  Inv'
<1>1. /\ todo # << >> /\ Head(toGdb) = todo[1].command /\ ~running /\ Shape(todo[1])
      /\ todo[1] \in Ops
  BY GdbReads, PlanFacts DEF Inv, Handling
<1>2. ~Refuse
  BY <1>1 DEF Refuse
<1>3. todo[1].command.do # "interrupt"
  <2>1. todo[1].command.do \in Commands
    BY <1>1, OpFacts
  <2> QED BY <2>1 DEF Commands
<1> DEFINE c == todo[1].command
<1>4. \/ c.do = "-exec-continue" /\ Continue
      \/ c.do = "-exec-return" /\ ExecReturn(c.arg)
      \/ Redirects(todo[1]) /\ SetProgramCounter(c.arg)
      \/ c.do = "-data-evaluate-expression" /\ Evaluate(c.arg)
      \/ c.do = "-data-read-memory-bytes" /\ ReadMemory
      \/ c.do = "-break-insert" /\ SetBreakpoints(breakpoints \union {c.arg})
      \/ c.do = "-break-delete" /\ SetBreakpoints({})
      \/ c.do = "set" /\ SetVariable(c.arg)
  BY <1>1, <1>2, <1>3 DEF GdbStep, Redirects
<1>5. CASE c.do = "-exec-continue" /\ Continue
  BY <1>5, ContinueKeeps DEF Continues
<1>6. CASE c.do = "-exec-return" /\ ExecReturn(c.arg)
  BY <1>6, ExecReturnKeeps
<1>7. CASE Redirects(todo[1]) /\ SetProgramCounter(c.arg)
  BY <1>7, SetProgramCounterKeeps
<1>8. CASE c.do = "-data-evaluate-expression" /\ Evaluate(c.arg)
  BY <1>8, EvaluateKeeps
<1>9. CASE c.do = "-data-read-memory-bytes" /\ ReadMemory
  BY <1>9, ReadMemoryKeeps
<1>10. CASE \/ c.do = "-break-insert" /\ SetBreakpoints(breakpoints \union {c.arg})
            \/ c.do = "-break-delete" /\ SetBreakpoints({})
  BY <1>10, SetBreakpointsKeeps
<1>11. CASE c.do = "set" /\ SetVariable(c.arg)
  BY <1>11, SetVariableKeeps
<1> QED BY <1>4, <1>5, <1>6, <1>7, <1>8, <1>9, <1>10, <1>11
-----------------------------------------------------------------------------
(* The target runs *)

(* What holds while it runs. *)
LEMMA RunningFacts ==
  ASSUME Inv, running, at <= Len(program)
  PROVE  /\ Resumed /\ todo # << >> /\ Continues(todo[1]) /\ carried /\ place = 2 /\ ~Ahead
         /\ todo[1].waitForStopped /\ mode = "testing" /\ breakpoints = Wanted
         /\ stops = Len(handled) /\ stops \in Nat /\ ~NewStop /\ ~Handling /\ passed = at - 1
         /\ at \in 2..Len(program) /\ at \in Nat /\ at \in 1..Len(program)
         /\ program \in Programs /\ Lists(Live(at - 1)) /\ mocks \in Seq(Replacements)
         /\ Value = << >> /\ Dump = << >> /\ decoded.frame = NoFrame
<1> USE DEF Inv
<1>1. at \in Nat /\ at > 1 /\ program \in Programs /\ mocks \in Seq(Replacements)
      /\ stops = Len(handled) /\ stops \in Nat
  BY DEF Typed, Stands
<1>2. at \in 2..Len(program) /\ at \in 1..Len(program) /\ at # Len(program) + 1
  BY <1>1, ProgramLength
<1>3. Resumed
  BY <1>2 DEF Channel, Quiet, Asked, Answered, Decoded, Noticed, Ended
<1>4. todo # << >> /\ Continues(todo[1]) /\ carried /\ place = 2
  BY <1>3 DEF Resumed, carried, place, Waiting, Start
<1>5. todo[1].waitForStopped
  BY <1>2, <1>3 DEF Resumed
<1>6. ~Ahead /\ mode = "testing" /\ ~Registers(todo[1]) /\ ~Evaluates(todo[1])
      /\ todo[1].name = "execute"
  BY <1>4, ContinueFacts
<1>7. ~NewStop /\ ~Handling
  BY <1>1 DEF NewStop, Handling
<1>8. passed = at - 1
  BY DEF passed
<1>9. Lists(Live(at - 1))
  BY <1>7, <1>8 DEF Registered
<1>10. breakpoints = Wanted
  BY <1>6 DEF Breaks
<1>11. Value = << >> /\ Dump = << >>
  BY <1>6 DEF Value, Dump
<1>12. decoded.frame = NoFrame
  BY <1>3, LineFacts DEF Resumed
<1> QED BY <1>1, <1>2, <1>3, <1>4, <1>5, <1>6, <1>7, <1>8, <1>9, <1>10, <1>11, <1>12

(* It stops at a breakpoint. *)
LEMMA StopKeeps ==
  ASSUME Inv, running, at <= Len(program), UNCHANGED runVars,
         Head(StackIn(program[at])) \in breakpoints, Stops(StackIn(program[at])),
         UNCHANGED <<breakpoints, toGdb, decoderVars, streamVars, waits>>
  PROVE  Inv'
<1> USE DEF Inv
<1>1. /\ Resumed /\ todo # << >> /\ Continues(todo[1]) /\ carried /\ place = 2 /\ ~Ahead
      /\ todo[1].waitForStopped /\ mode = "testing" /\ breakpoints = Wanted
      /\ stops = Len(handled) /\ stops \in Nat /\ ~NewStop /\ ~Handling /\ passed = at - 1
      /\ at \in 2..Len(program) /\ at \in Nat /\ at \in 1..Len(program)
      /\ program \in Programs /\ Lists(Live(at - 1)) /\ mocks \in Seq(Replacements)
      /\ Value = << >> /\ Dump = << >> /\ decoded.frame = NoFrame
  BY RunningFacts
<1>2. /\ running' = FALSE /\ interrupted' = FALSE /\ stack' = StackIn(program[at])
      /\ stops' = stops + 1
      /\ fromGdb' = Append(fromGdb, [Line("*stopped") EXCEPT
              !.frame = [fn |-> Head(StackIn(program[at])), stop |-> stops', step |-> at]])
      /\ UNCHANGED <<program, at, called, cleared>>
  BY DEF Stops
<1>3. UNCHANGED <<todo, frame, mode, handled, mocks, analysed, testNotFinYet, isTimeout, timeouts>>
      /\ UNCHANGED <<breakpoints, toGdb, lastCommand, debuggerState, decoded, stopFrames,
                     values, dumps, waits>>
  BY DEF runVars, decoderVars, streamVars
<1>4. Kind(at) \in StopKinds
  <2> SUFFICES ASSUME Kind(at) \notin StopKinds PROVE FALSE
    OBVIOUS
  <2>1. StackIn(program[at]) = <<"test", "group">>
    BY <1>1, StackFacts
  <2>2. Head(StackIn(program[at])) = "test"
    BY <2>1
  <2>3. "test" \in Wanted
    BY <1>1, <2>2
  <2>4. PICK k \in 1..Len(mocks) : mocks[k].when = "test"
    BY <2>3 DEF Wanted, EUnitBreakpoints
  <2>5. at - 1 \in 0..Len(program)
    BY <1>1, ProgramLength
  <2> QED BY <1>1, <2>4, <2>5, MocksAreFunctions
<1>5. fromGdb' = Append(fromGdb, StopLine')
  BY <1>2 DEF Line, StopLine, StopFrame
<1>6. /\ stack' \in Seq(Texts) /\ Len(stack') > 0 /\ stack'[Len(stack')] = "test"
      /\ Head(stack') \in Texts
  <2>1. stack' = StackIn(program[at]) /\ stack' \in Seq(Texts)
    BY <1>1, <1>2, StackFacts
  <2>2. \/ stack' = <<"MessageToDebugger", Caller(program[at]), "test">>
        \/ stack' = <<program[at].fn, "test">>
        \/ stack' = <<"detachTarget", "test">>
    BY <1>1, <1>4, <2>1, StackFacts DEF StopKinds
  <2>3. Len(stack') > 0 /\ stack'[Len(stack')] = "test" /\ stack' # << >>
    BY <2>2
  <2> QED BY <2>1, <2>3, TailOf
<1>7. StopFrame(stops', at) \in Frames /\ StopFrame(stops', at) # NoFrame
  <2>1. StopFrame(stops', at) = [fn |-> Head(stack'), stop |-> stops', step |-> at]
    BY <1>2 DEF StopFrame
  <2>2. StopFrame(stops', at).step # 0 /\ NoFrame.step = 0
    <3>1. StopFrame(stops', at).step = at /\ NoFrame.step = 0
      BY <2>1 DEF NoFrame
    <3> QED BY <1>1, <3>1
  <2>3. stops' \in Nat
    BY <1>1, <1>2
  <2> QED BY <1>1, <1>6, <2>1, <2>2, <2>3 DEF Frames
<1>8. StopLine' \in Lines /\ StopLine'.frame = StopFrame(stops', at)
      /\ StopLine'.values = << >> /\ StopLine'.dumps = << >>
  <2>1. StopLine' = [msg |-> "*stopped", frame |-> StopFrame(stops', at), values |-> << >>,
                     dumps |-> << >>]
    BY <1>2 DEF StopLine, StopFrame
  <2>2. << >> \in Seq(Values) /\ << >> \in Seq(Nat)
    OBVIOUS
  <2> QED BY <1>7, <2>1, <2>2 DEF Lines
<1>9. /\ fromGdb' \in Seq(Lines) /\ fromGdb' # << >> /\ fromGdb'[Len(fromGdb')] = StopLine'
      /\ Len(fromGdb') = Len(fromGdb) + 1 /\ Len(fromGdb) \in Nat
      /\ \A i \in 1..Len(fromGdb) : fromGdb'[i] = fromGdb[i]
  <2>1. fromGdb \in Seq(Lines)
    BY DEF Typed
  <2> QED BY <1>5, <1>8, <2>1, PutLast
<1>10. Typed'
  <2>1. stops' \in Nat
    BY <1>1, <1>2
  <2> QED BY <1>1, <1>2, <1>3, <1>6, <1>9, <2>1 DEF Typed
<1>11. /\ Handling' = FALSE /\ NewStop' /\ ~Ahead' /\ carried' /\ place' = 2
  <2>1. stops' = Len(handled') + 1 /\ Len(handled') \in Nat
    BY <1>1, <1>2, <1>3
  <2>2. carried' /\ place' = 2
    BY <1>1, <1>3 DEF carried, place, Waiting
  <2>3. ~Ahead'
    BY <1>1, <1>3, <2>2 DEF Ahead
  <2> QED BY <2>1, <2>2, <2>3 DEF Handling, NewStop
<1>12. Channel'
  <2>1. \A lines : Comes(lines) => Comes(lines)'
    BY <1>2, <1>5 DEF Comes
  <2>2. Resumed'
    BY <1>1, <1>2, <1>3, <2>1 DEF Resumed, Start, Continues
  <2> QED BY <2>2 DEF Channel
<1>13. Data'
  <2>1. Value' = << >> /\ Dump' = << >>
    BY <1>1, <1>2, <1>3, <1>11, ContinueFacts DEF Value, Dump, Evaluates
  <2>2. values = << >> /\ dumps = << >>
        /\ \A k \in 1..Len(fromGdb) : fromGdb[k].values = << >> /\ fromGdb[k].dumps = << >>
    BY <1>1 DEF Data
  <2>3. \A k \in 1..Len(fromGdb') : fromGdb'[k].values = << >> /\ fromGdb'[k].dumps = << >>
    <3> TAKE k \in 1..Len(fromGdb')
    <3>1. CASE k = Len(fromGdb')
      BY <1>8, <1>9, <3>1
    <3>2. CASE k # Len(fromGdb')
      BY <1>9, <2>2, <3>2
    <3> QED BY <3>1, <3>2
  <2> QED BY <1>3, <2>1, <2>2, <2>3 DEF Data
<1>14. Plan' /\ HandledInOrder' /\ GoesRound'
  <2>1. Plan'
    BY <1>2, <1>3 DEF Plan, IsLast, Kind
  <2>2. HandledInOrder'
    BY <1>2, <1>3 DEF HandledInOrder, Kind, StopFrame
  <2>3. GoesRound'
    BY <1>3 DEF GoesRound
  <2> QED BY <2>1, <2>2, <2>3
<1>15. Stands'
  <2>1. allFrames' # << >> /\ latest' = StopFrame(stops, at)'
    <3>1. arriving' = StopFrame(stops', at)
      BY <1>7, <1>8, <1>9 DEF arriving
    <3>2. allFrames' = Append(stopFrames', StopFrame(stops', at))
      BY <1>7, <3>1 DEF allFrames
    <3>3. latest' = StopFrame(stops', at) /\ allFrames' # << >>
      BY <1>7, <1>10, <3>2, PutLast DEF latest, Typed
    <3> QED BY <1>2, <3>3 DEF StopFrame
  <2>2. stops' = Len(handled') + 1 /\ at' <= Len(program') /\ at' \in 1..(Len(program') + 1)
    BY <1>1, <1>2, <1>3, ProgramLength
  <2>3. at' > 1 /\ (handled' # << >> => handled'[Len(handled')].step < at')
        /\ frame'.fn # "detachTarget" /\ ~cleared'
    BY <1>1, <1>2, <1>3 DEF Stands
  <2>4. Kind(at)' \in StopKinds /\ stack' = StackIn(program[at])'
    BY <1>2, <1>4 DEF Kind
  <2> QED BY <1>1, <1>2, <1>3, <1>11, <2>1, <2>2, <2>3, <2>4 DEF Stands
<1>16. InTest'
  BY <1>2, <1>6, <1>11 DEF InTest
<1>17. JumpsOut'
  BY <1>1, <1>3, <1>11, ContinueFacts DEF JumpsOut, Registers
<1>18. Batches'
  <2>1. BatchesOnce'
    BY <1>3 DEF Batches, BatchesOnce
  <2>2. \A k : HasBatch(handled[k])' <=> HasBatch(handled[k])
    BY <1>2, <1>3 DEF HasBatch, Reports
  <2>3. ~Reads(todo[1])
    BY <1>1, ContinueFacts
  <2> QED BY <1>3, <2>1, <2>2, <2>3 DEF Batches
<1>19. Registered'
  <2>1. passed' = at - 1
    BY <1>2, <1>11 DEF passed
  <2>2. Live(passed)' = Live(at - 1)
    BY <1>2, <2>1 DEF Live, Kind
  <2>3. Lists(Live(passed))'
    BY <1>1, <1>2, <1>3, <2>2 DEF Lists
  <2> QED BY <2>3 DEF Registered
<1>20. Breaks'
  BY <1>1, <1>3, <1>11 DEF Breaks, Wanted
<1>21. Replaced'
  <2>1. \A k : Replacement(k)' = Replacement(k)
    BY <1>2 DEF Replacement
  <2>2. CallsAreReplaced'
    BY <1>2, <2>1 DEF Replaced, CallsAreReplaced
  <2> QED BY <1>11, <2>2 DEF Replaced
<1> QED BY <1>10, <1>12, <1>13, <1>14, <1>15, <1>16, <1>17, <1>18, <1>19, <1>20, <1>21

(* It runs through a step that does not stop it. *)
LEMMA ProceedKeeps ==
  ASSUME Inv, running, at <= Len(program), UNCHANGED runVars, Proceeds,
         UNCHANGED <<breakpoints, toGdb, decoderVars, streamVars, waits>>,
         \/ /\ Head(StackIn(program[at])) \notin breakpoints
            /\ called' = IF program[at].kind = "call"
                         THEN called \union {<<at, program[at].fn>>} ELSE called
         \/ program[at].kind = "slow" /\ called' = called
  PROVE  Inv'
<1> USE DEF Inv
<1>1. /\ Resumed /\ todo # << >> /\ Continues(todo[1]) /\ carried /\ place = 2 /\ ~Ahead
      /\ todo[1].waitForStopped /\ mode = "testing" /\ breakpoints = Wanted
      /\ stops = Len(handled) /\ stops \in Nat /\ ~NewStop /\ ~Handling /\ passed = at - 1
      /\ at \in 2..Len(program) /\ at \in Nat /\ at \in 1..Len(program)
      /\ program \in Programs /\ Lists(Live(at - 1)) /\ mocks \in Seq(Replacements)
      /\ Value = << >> /\ Dump = << >> /\ decoded.frame = NoFrame
  BY RunningFacts
<1>2. at' = at + 1 /\ UNCHANGED <<program, stack, running, interrupted, fromGdb, stops, cleared>>
  BY DEF Proceeds
<1>3. UNCHANGED <<todo, frame, mode, handled, mocks, analysed, testNotFinYet, isTimeout, timeouts>>
      /\ UNCHANGED <<breakpoints, toGdb, lastCommand, debuggerState, decoded, stopFrames,
                     values, dumps, waits>>
  BY DEF runVars, decoderVars, streamVars
<1>4. {"MessageToDebugger", "detachTarget"} \subseteq Wanted
  BY DEF Wanted, EUnitBreakpoints
<1>5. Kind(at) \notin Messages \union {"detachTarget"}
  <2>1. ASSUME Kind(at) \in Messages PROVE FALSE
    <3>1. StackIn(program[at]) = <<"MessageToDebugger", Caller(program[at]), "test">>
      BY <1>1, <2>1, StackFacts
    <3>2. Head(StackIn(program[at])) = "MessageToDebugger"
      BY <3>1
    <3> QED BY <1>1, <1>4, <2>1, <3>2 DEF Kind, Messages
  <2>2. ASSUME Kind(at) = "detachTarget" PROVE FALSE
    <3>1. StackIn(program[at]) = <<"detachTarget", "test">>
      BY <1>1, <2>2, StackFacts
    <3>2. Head(StackIn(program[at])) = "detachTarget"
      BY <3>1
    <3> QED BY <1>1, <1>4, <2>2, <3>2 DEF Kind
  <2> QED BY <2>1, <2>2
<1>6. Live(at) = Live(at - 1)
  BY <1>1, <1>5, LiveStays DEF Messages
<1>7. Kind(at) = "call" => Replacement(at) = program[at].fn
  <2> SUFFICES ASSUME Kind(at) = "call" PROVE ~HasMock(program[at].fn)
    BY <1>1, <1>6, FirstReplaces
  <2>1. StackIn(program[at]) = <<program[at].fn, "test">>
    BY <1>1, StackFacts
  <2>2. Head(StackIn(program[at])) = program[at].fn
    BY <2>1
  <2>3. program[at].fn \notin Wanted
    BY <1>1, <2>2 DEF Kind
  <2> QED BY <2>3 DEF Wanted, HasMock
<1>8. ~Handling' /\ ~NewStop' /\ ~Ahead' /\ carried' /\ place' = 2
  <2>1. carried' /\ place' = 2
    BY <1>1, <1>3 DEF carried, place, Waiting
  <2>2. ~Ahead'
    BY <1>1, <1>3, <2>1 DEF Ahead
  <2>3. ~NewStop'
    BY <1>1, <1>2, <1>3 DEF NewStop
  <2> QED BY <1>2, <2>1, <2>2, <2>3 DEF Handling
<1>9. Typed'
  <2>1. at' \in Nat
    BY <1>1, <1>2
  <2> QED BY <1>2, <1>3, <2>1 DEF Typed
<1>10. Channel'
  <2>1. \A lines : Comes(lines) => Comes(lines)'
    BY <1>2 DEF Comes
  <2>2. Resumed'
    BY <1>1, <1>2, <1>3, <2>1 DEF Resumed, Start, Continues
  <2> QED BY <2>2 DEF Channel
<1>11. Data'
  <2>1. Value' = << >> /\ Dump' = << >>
    BY <1>1, <1>2, <1>3, <1>8, ContinueFacts DEF Value, Dump, Evaluates
  <2> QED BY <1>1, <1>2, <1>3, <2>1 DEF Data
<1>12. Plan' /\ HandledInOrder' /\ GoesRound'
  <2>1. Plan'
    BY <1>2, <1>3 DEF Plan, IsLast, Kind
  <2>2. HandledInOrder'
    BY <1>2, <1>3 DEF HandledInOrder, Kind, StopFrame
  <2>3. GoesRound'
    BY <1>3 DEF GoesRound
  <2> QED BY <2>1, <2>2, <2>3
<1>13. Stands'
  <2>1. at' \in 1..(Len(program') + 1) /\ at' > 1
    BY <1>1, <1>2, ProgramLength
  <2>2. handled # << >> => handled[Len(handled)].step < at'
    <3>1. handled # << >> => handled[Len(handled)].step < at /\ handled[Len(handled)].step \in Nat
      <4> SUFFICES ASSUME handled # << >>
                   PROVE  handled[Len(handled)].step < at /\ handled[Len(handled)].step \in Nat
        OBVIOUS
      <4>1. handled[Len(handled)] \in Frames
        BY ButLast DEF Typed
      <4>2. handled[Len(handled)].step \in Nat
        BY <4>1 DEF Frames
      <4> QED BY <4>2 DEF Stands
    <3> QED BY <1>1, <1>2, <3>1
  <2> QED BY <1>1, <1>2, <1>3, <1>8, <2>1, <2>2 DEF Stands
<1>14. InTest'
  BY <1>2, <1>8 DEF InTest
<1>15. JumpsOut'
  BY <1>1, <1>3, <1>8, ContinueFacts DEF JumpsOut, Registers
<1>16. Batches'
  <2>1. BatchesOnce'
    BY <1>3 DEF Batches, BatchesOnce
  <2>2. \A k : HasBatch(handled[k])' <=> HasBatch(handled[k])
    BY <1>2, <1>3 DEF HasBatch, Reports
  <2>3. ~Reads(todo[1])
    BY <1>1, ContinueFacts
  <2> QED BY <1>3, <2>1, <2>2, <2>3 DEF Batches
<1>17. Registered'
  <2>1. passed' = at
    BY <1>1, <1>2 DEF passed
  <2>2. Live(passed)' = Live(at - 1)
    BY <1>2, <1>6, <2>1 DEF Live, Kind
  <2>3. Lists(Live(passed))'
    BY <1>1, <1>2, <1>3, <2>2 DEF Lists
  <2> QED BY <2>3 DEF Registered
<1>18. Breaks'
  BY <1>1, <1>3, <1>8 DEF Breaks, Wanted
<1>19. Replaced'
  <2>1. \A k : Replacement(k)' = Replacement(k)
    BY <1>2 DEF Replacement
  <2>2. \A c \in called' : c[2] = Replacement(c[1])
    <3>1. CASE called' = called
      BY <3>1 DEF Replaced, CallsAreReplaced
    <3>2. CASE Kind(at) = "call" /\ called' = called \union {<<at, program[at].fn>>}
      <4> TAKE c \in called'
      <4>1. CASE c \in called
        BY <4>1 DEF Replaced, CallsAreReplaced
      <4>2. CASE c = <<at, program[at].fn>>
        BY <1>7, <3>2, <4>2
      <4> QED BY <3>2, <4>1, <4>2
    <3> QED BY <3>1, <3>2 DEF Kind
  <2>3. CallsAreReplaced'
    BY <2>1, <2>2 DEF CallsAreReplaced
  <2> QED BY <1>8, <2>3 DEF Replaced
<1> QED BY <1>9, <1>10, <1>11, <1>12, <1>13, <1>14, <1>15, <1>16, <1>17, <1>18, <1>19

(* One step of the target. *)
LEMMA TargetKeeps ==
  ASSUME Inv, TargetStep, UNCHANGED runVars
  PROVE  Inv'
<1>1. /\ running /\ at <= Len(program)
      /\ UNCHANGED <<breakpoints, toGdb, decoderVars, streamVars, waits>>
  BY DEF TargetStep
<1>2. ~interrupted
  BY DEF Inv, Typed
<1>3. \/ Head(StackIn(program[at])) \in breakpoints /\ Stops(StackIn(program[at]))
      \/ /\ Head(StackIn(program[at])) \notin breakpoints /\ Proceeds
         /\ called' = IF program[at].kind = "call"
                      THEN called \union {<<at, program[at].fn>>} ELSE called
      \/ program[at].kind = "slow" /\ Proceeds /\ called' = called
  BY <1>2 DEF TargetStep
<1> QED BY <1>1, <1>3, StopKeeps, ProceedKeeps
================================================================================
