------------------------------- MODULE MCTestRun -------------------------------
(* Small instances of TestRun: all programs with a few steps of some kinds. *)
EXTENDS TestRun

StepOf(kind, data, fn, by) == [kind |-> kind, data |-> data, fn |-> fn, by |-> by]
Plain(kind, data) == StepOf(kind, data, "", "")

ProgramsOf(steps, n) ==
  {<<Plain("startTesting", FALSE)>> \o p \o <<Plain("finishAllTest", d)>> :
     p \in UNION {[1..k -> steps] : k \in 0..n}, d \in BOOLEAN}

Full == Plain("bufferIsFull", TRUE)
Small == {Plain("bufferToSmall", d) : d \in BOOLEAN}
Delete == Plain("deleteMocks", FALSE)
Calls == {StepOf("call", FALSE, f, "") : f \in {"f", "g"}}
Stubs == {StepOf("addStub", FALSE, "f", "1"), StepOf("addMock", FALSE, "f", "h"),
          StepOf("addStub", FALSE, "g", "2")}
Slow == Plain("slow", FALSE)
Hang == Plain("hang", FALSE)
Detach == Plain("detachTarget", FALSE)

ResultPrograms == ProgramsOf({Full, Detach} \union Small, 3)
StubPrograms == ProgramsOf({Full, Delete} \union Calls \union Stubs, 4)
HangPrograms == ProgramsOf({Full, Hang, Detach} \union Small, 3)
PromptPrograms == HangPrograms \union StubPrograms
RacePrograms == ProgramsOf({Full, Slow, Plain("bufferToSmall", FALSE), Delete,
  StepOf("addStub", FALSE, "f", "1"), StepOf("call", FALSE, "f", "")}, 3)
AbortPrograms == ProgramsOf({Full, Delete, Detach, StepOf("call", FALSE, "f", "")} \union Small
                            \union {StepOf("addStub", FALSE, "f", "1")}, 3)
================================================================================
