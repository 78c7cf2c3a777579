----------------------------- MODULE TestAnalyser -----------------------------
(***************************************************************************)
(* The host's reading of a dump of the result buffer                       *)
(* (src/GDBManipulator/src/tester/TestAnalyser.cpp).  The loop goes from    *)
(* one status or record to the next; i and shift are its variables.  Each  *)
(* round finds an event, and Apply is what the event does to the           *)
(* analyser's counters and names.                                          *)
(*                                                                         *)
(* The loop is a function of the number of rounds, so that the module can  *)
(* be used from a module with proofs.                                      *)
(***************************************************************************)
EXTENDS Integers, Sequences

OkEvent == [event |-> "ok"]
FailEvent(is, should, line) ==
  [event |-> "fail", is |-> is, should |-> should, line |-> line]
TimeoutEvent(line) == [event |-> "timeout", line |-> line]
TextEvent(type, text) == [event |-> "text", type |-> type, text |-> text]
ErrorEvent == [event |-> "error"]
UndefinedEvent(line) == [event |-> "undefined", line |-> line]
NoEvent == [event |-> "none"]

(* The byte at i; past is whatever follows the dump in the host's memory. *)
At(data, i, past) == IF i < Len(data) THEN data[i + 1] ELSE past

Bytes(data, i, n, past) == [k \in 1..n |-> At(data, i + k - 1, past)]

(* The four bytes at i as an integer; a size no dump can have is Huge. *)
Huge == 1048576
SizeAt(data, i, past) ==
  IF At(data, i + 2, past) = 0 /\ At(data, i + 3, past) = 0
  THEN At(data, i, past) + 256 * At(data, i + 1, past)
  ELSE Huge

(* The C string that starts at i: the bytes up to the first NUL. *)
CString(data, i, past) ==
  LET ends == {k \in i..Len(data) : At(data, k, past) = 0}
      last == CHOOSE k \in ends \union {Len(data)} : \A j \in ends : k <= j
  IN  Bytes(data, i, last - i, past)

(* Mutant: the sizes of an array are not skipped, as for other results. *)
SizesNotSkipped(data, i, line, past) ==
  LET n == IF At(data, i + 1, past) % 8 = 3 THEN 4 ELSE 1
      t == i + 1
  IN  [event |-> FailEvent(Bytes(data, t + 1, n, past),
                           Bytes(data, t + 1 + n, n, past), line),
       last |-> t + 2 * n]

(* analyseFailedResult: i is the byte before the type flags.  The event    *)
(* and the last byte the record takes.                                     *)
FailedResultAt(data, i, line, past) ==
  LET flags  == At(data, i + 1, past)
      kind   == flags % 8
      t      == i + 1
      sizeIs == SizeAt(data, t + 1, past)
      atShould == t + 5 + sizeIs
      sizeShould == IF sizeIs = Huge THEN Huge ELSE SizeAt(data, atShould, past)
      Scalar(n) == [event |-> FailEvent(Bytes(data, t + 1, n, past),
                                        Bytes(data, t + 1 + n, n, past), line),
                    last |-> t + 2 * n]
      Array(fields) ==
        [event |-> IF sizeIs = Huge \/ sizeShould = Huge THEN FailEvent(<< >>, << >>, line)
                   ELSE FailEvent(Bytes(data, t + 5, sizeIs, past),
                                  Bytes(data, atShould + 4, sizeShould, past), line),
         last |-> t + sizeIs + sizeShould + fields]
  IN  IF (flags \div 16) % 2 = 1
      THEN [event |-> TimeoutEvent(line), last |-> t + 2]
      ELSE CASE kind = 1 -> Scalar(1)
             [] kind = 2 -> Scalar(2)
             [] kind = 3 -> Scalar(4)
             [] kind = 5 -> Array(8)
             [] kind = 0 -> Array(0)
             [] OTHER -> [event |-> UndefinedEvent(line), last |-> t]

(* byte >> shift and the two bits of a status *)
Shifted(byte, shift) ==
  byte \div (CASE shift = 0 -> 1 [] shift = 2 -> 4 [] shift = 4 -> 16 [] OTHER -> 64)

(* Mutant: the first status of a byte is looked for in its upper bits. *)
StatusFromTheTop(data, i, shift) == Shifted(data[i + 1], 6 - shift) % 4

Status(data, i, shift) == Shifted(data[i + 1], shift) % 4

(* What a round has found, and the byte and the shift of the next round. *)
Found(event, i, shift) == [event |-> event, i |-> i, shift |-> shift]
ThenNextStatus(event, i, shift) ==
  IF shift < 6 THEN Found(event, i, shift + 2) ELSE Found(event, i + 1, 0)

(* testNotRun: the rest of this byte is empty; is there a next byte? *)
NotRunAt(data, i, shift, past) ==
  IF shift > 0 /\ At(data, i + 1, past) # 0 THEN Found(NoEvent, i + 1, 0)
  ELSE Found(NoEvent, Len(data), 0)

(* The string behind a testName. *)
TextAt(data, i, types, past) ==
  LET type == At(data, i + 1, past)
  IN  IF type \in types THEN TextEvent(type, CString(data, i + 6, past)) ELSE ErrorEvent

(* analyseSuccess: levels justSuccess and testNames. *)
SuccessAt(data, justTheStatus, i, shift, past) ==
  CASE Status(data, i, shift) = 1 -> ThenNextStatus(OkEvent, i, shift)
    [] Status(data, i, shift) = 2 ->
         ThenNextStatus(FailEvent(<< >>, << >>, << >>), i, shift)
    [] Status(data, i, shift) = 3 ->
         IF justTheStatus THEN ThenNextStatus(ErrorEvent, i, shift)
         ELSE ThenNextStatus(TextAt(data, i, {0, 2, 3}, past),
                             i + At(data, i + 2, past) + 5, shift)
    [] OTHER -> NotRunAt(data, i, shift, past)

(* analyseResults: levels testResults and lineNumbers. *)
ResultAt(data, withLines, i, shift, past) ==
  CASE Status(data, i, shift) = 1 -> ThenNextStatus(OkEvent, i, shift)
    [] Status(data, i, shift) = 2 ->
         LET res == IF withLines
                    THEN FailedResultAt(data, i + 4, Bytes(data, i + 1, 4, past), past)
                    ELSE FailedResultAt(data, i, << >>, past)
         IN  Found(res.event, res.last + 1, 0)
    [] Status(data, i, shift) = 3 ->
         Found(TextAt(data, i, 0..3, past), i + At(data, i + 2, past) + 6, 0)
    [] OTHER -> NotRunAt(data, i, shift, past)
-----------------------------------------------------------------------------
(* The analyser's state: its counters, the names the next result belongs   *)
(* to, and what it has shown so far.                                        *)
AnalyserInit ==
  [succeed |-> 0, failed |-> 0, errors |-> 0, testPerGroup |-> 0,
   class |-> << >>, test |-> << >>, file |-> << >>, shown |-> << >>, groups |-> << >>]

Show(st, event) ==
  Append(st.shown, [class |-> st.class, test |-> st.test, file |-> st.file,
                    of |-> event])

(* Mutant: the count goes on over the groups. *)
CountGoesOn(st, count, text) ==
  [st EXCEPT !.class = text,
             !.testPerGroup = count,
             !.groups = IF st.class # << >> /\ count > 0
                        THEN Append(@, [class |-> st.class, tests |-> count])
                        ELSE @]

(* A new class name closes the group before it, with its number of tests. *)
NewClass(st, count, text) ==
  LET closes == st.class # << >> /\ count > 0
  IN  [st EXCEPT !.class = text,
                 !.testPerGroup = IF closes THEN 0 ELSE count,
                 !.groups = IF closes THEN Append(@, [class |-> st.class, tests |-> count])
                            ELSE @]

NewText(level, st, event) ==
  LET count == IF level <= 1 \/ event.type = 0 THEN st.testPerGroup + 1
               ELSE st.testPerGroup
      counted == [st EXCEPT !.testPerGroup = count]
  IN  CASE event.type = 0 -> [counted EXCEPT !.test = event.text]
        [] event.type = 1 -> [counted EXCEPT !.file = event.text]
        [] event.type = 2 -> NewClass(st, count, event.text)
        [] event.type = 3 -> counted

Apply(level, st, event) ==
  CASE event.event = "ok" ->
         [st EXCEPT !.succeed = @ + 1, !.shown = Show(st, event)]
    [] event.event \in {"fail", "timeout"} ->
         [st EXCEPT !.failed = @ + 1, !.shown = Show(st, event)]
    [] event.event = "undefined" ->
         [st EXCEPT !.errors = @ + 1, !.failed = @ + 1,
                    !.shown = Show(st, FailEvent(<< >>, << >>, event.line))]
    [] event.event = "text" -> NewText(level, st, event)
    [] event.event = "error" ->
         [st EXCEPT !.errors = @ + 1,
                    !.testPerGroup = IF level <= 1 THEN @ + 1 ELSE @]
    [] OTHER -> st

(* One round of the loop: a byte and a shift, and the state so far. *)
Read(level, data, past, r) ==
  IF r.i >= Len(data) THEN r
  ELSE LET found == IF level <= 1 THEN SuccessAt(data, level = 0, r.i, r.shift, past)
                    ELSE ResultAt(data, level = 3, r.i, r.shift, past)
       IN  [i |-> found.i, shift |-> found.shift, st |-> Apply(level, r.st, found.event)]

(* The rounds one after the other; what they have read is the only element *)
(* of a set, so that the readings below can be put together.  No dump takes *)
(* more rounds than it has statuses.                                        *)
Rounds(level, st, data, past) ==
  LET After[n \in 0..(4 * Len(data))] ==
        IF n = 0 THEN {[i |-> 0, shift |-> 0, st |-> st]}
        ELSE {Read(level, data, past, before) : before \in After[n - 1]}
  IN  After

(* What may follow the dump in the host's memory: nothing or another byte. *)
Past == {0, 1}

(* analyse: the states the analyser may be in once it has read a dump. *)
Analyse(level, st, dump) ==
  UNION {{r.st : r \in Rounds(level, st, data, past)[4 * Len(data)]} :
           data \in {dump}, past \in Past}

(* analyseDirect: a result read straight from the target's memory. *)
AnalyseDirect(st, event) ==
  CASE event.event = "fail" -> [st EXCEPT !.failed = @ + 1, !.shown = Show(st, event)]
    [] event.event = "ok" -> [st EXCEPT !.succeed = @ + 1, !.shown = Show(st, event)]
    [] OTHER -> st
=============================================================================
