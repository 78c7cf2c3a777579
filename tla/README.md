# A TLA+ model of the Dependency Reduction Unit Framework

The framework runs unit tests on an embedded target.  The target part (**eUnit**,
`src/eUnit/`) is C code that the tests are linked with; it stores results in a small
buffer.  The host part (**GDBManipulator**, `src/GDBManipulator/`) drives gdb over its
machine interface, reads that buffer whenever the target stops, replaces functions of
the target by stubs and mocks, and prints the results.  The interesting protocol is
between the two: one target, one gdb, and three threads of the host, which share two
flags and a few queues without a lock.

Contents: 1 inventory, 2 modules, 3 runs, 4 fairness and assumptions, 5 proofs,
6 what disagrees, 7 what is left out, 8 plan.

## 1. Inventory

| Part (source) | State | Operations | Talks to |
|---|---|---|---|
| Result buffer (`eUnit.c` 120-470, 690-735) | `test_result_buffer`, `test_result_index`, `bitShift`, `test_amount_of_stored_data` | `CompareInt`, `byteComp`, `testCaseSuccess`, `addTestName`..., `printOverGdb`, `MessageToDebugger` | gdb, by stopping in `MessageToDebugger` |
| Dependencies on the target (`eUnit.c`) | `hasNewMocks`, `breaksMode` | `whenMock`, `whenStub`, `deleteAllMocks`, `detachTarget` | the same |
| Test filters (`eUnit.c` 270-360) | `optInTestGroups`, `optOutTestGroups` | `shallExecuteTestGroup` | set by the host at the start |
| Generated test code (`src/awk`) | `testSuccess`, the `longjmp` buffer | name, assertions, end of a test | the result buffer |
| Test analyser (`tester/TestAnalyser.cpp`, `MemoryDump`) | counters, current class/test/file, `testPerGroup` | `analyse` (4 levels), `analyseDirect` | test mode |
| Test mode (`runModes/TestMode.cpp`) | `isTimeout`, the frame in hand, `testNotFinYet` | `executeAllTest`, `gdbMessagesToDebugger`, the timer thread | command chain, analyser |
| Command chain (`comChain/ComGnuDebugger.cpp`) | nothing of its own: it polls the decoder | `sendCommand`, continue, return, evaluate, read memory, breakpoints | gdb, decoder |
| Decoder of gdb's output (`comChain/decoder`) | `lastCommand`, `debuggerState`, `stopFrames`, `storedValues`, `storedMemoryDumps` | the reader thread's `analyseLine` | gdb, and whoever polls |
| Stubs and mocks of the host (`tester/TargetMock.cpp`) | `toMock` | add, search, delete | test mode, breakpoints in gdb |
| Run mode, flash mode (`runModes`) | as test mode | a second loop for `printOverGdb`; flashing | command chain |
| Arm chain (`ComArmNoneEabiGdb.cpp`) | `isOpen` | connect, flash, the first stop, the program counter before a continue | command chain |
| Version checks (`FeatureCheck.cpp`, `eUnitVersionsChecker.cpp`) | a table | `checkFeature` | command chain, modes |
| Shutdown (`Utils.cpp`, `testMode::modeFailed`) | a flag in shared memory, `childProzesses` | `cleanUpAndExit`, the alarm thread | every thread, and the forked children |
| Processes (`GdbInterface.cpp`, `GdbErrorStream.cpp`) | two children, three pipes, five threads | fork, exec, the readers and the lines that end the host | gdb, the gdb server, shutdown |
| `main.cpp` | options, the mode | the order of everything; the exit code | all of it |
| Construction (`ComChain.cpp`, `ArgumentCallBackFunctions.cpp`) | options, the chains | parsing | - |
| Reports (`TestStatistic`, `XmlGenerator`), self test mode (`eUnit.c`) | timers, text, a counter | printing, callbacks | - |

What is hard in it, and what has to hold:

* **Result buffer.**  Two bits per status are packed by `|=` into the byte *before* the
  index, strings and results are whole bytes behind it, and the length that is reserved is
  computed in another place than the one that stores.  The size of a record is tested once,
  then the target stops, and after the stop the record is stored without another test.
  Records must stay inside the array, the bytes behind them must be zero, and nothing may
  be overwritten before it was read.
* **Transfer.**  The analyser finds the boundaries of records only from what it reads.
  What it reads must be what was reported, in order, under the right name, over any
  sequence of flushes; and a record that does not fit is read from a stack frame instead.
* **Command chain.**  `sendCommand` resets two flags, writes, and polls them.  The reader
  stores values, sets `lastCommand`, then the state, and pushes the stop frame *last*, so a
  command may return before its frame is there.  Frames are taken last in, first out,
  values first in, first out; one that nobody takes shifts all later ones.
* **Timer.**  A second thread sends `interrupt` through the same flags, sets `isTimeout`
  for the main thread to find, and may do so just as the test ends by itself.
* **Stubs and mocks.**  The list of the host, the breakpoints of gdb and the way a stop is
  answered have to agree at each call of a replaced function.
* **Start-up.**  Which commands are sent depends on the options, on bits the target was
  compiled with, and on what gdb refuses.  The target must not run on before it can be
  watched and knows its level and filters, and the exit code must tell success from failure.
* **Shutdown.**  `cleanUpAndExit` may be entered by every thread and by the forked children,
  at the same time and while children are still being started.  It must leave no process
  behind, must not report as a failure what the host has caused itself, and must be reached.
* **Signals.**  The handler runs `modeFailed` on the main thread, in the middle of any
  command, to rescue the results in the buffer.
* **Termination.**  The loop of `executeAllTest` ends at the first stop it cannot explain;
  it must end with `finishAllTest`, and it must end.

`PROJECT.json` lists each hazard at its line with the properties that cover it.

## 2. Modules

```
EUnitBuffer --+--> EUnitBufferProofs           ResultChannel (abstract)
              |                                      ^  refinement
              +--> ResultTransfer <-- TestAnalyser   |     ResultTransferProofs
              |         +----------------------------+
GdbSession ------> TestRun ---> TestRunInvariant --> TestRunProofs
                      :  (one step, executeAllTest, of)
HostProgram -----> HostProgramProofs --> HostStartProofs   GroupFilter --> FilterProofs
     :  (the mode, one step, of)
HostProcesses ---> HostProofs
```

Each component has a module `MC...` with the constants of its runs.  Some modules hold a few
operators whose comment says *Mutant*: variants of the definition that follows them, with a
plausible bug, which the property named in `PROJECT.json` must notice.  They are not part of
any specification.

**EUnitBuffer** is the target's side.  `memory` is the array *and* a few bytes around it
(addresses -1 to `Top`), so that a write outside is seen rather than assumed away.  The
target has one thread, so one API call is one action.  A call that has to stop leaves
`message` and the record `rest` it still has to store; `ContinueAfterMessage` is the end of
`MessageToDebugger` plus the end of its caller, `ReturnFromFunction` is what happens when
the debugger returns from the function instead (for `bufferToSmall`, and for a
`finishAllTest` with an empty buffer).  Data are bytes, because packing, zero bytes and
sizes are what the properties are about; `SizeField` steps over three bytes without writing
them, as the code does, and `IsFull` has the unsigned difference of `eUnit.c:368`.

**TestAnalyser** is the host's reading of a dump as pure operators.  `Read` is one round of
the loop: it finds a status at a byte and a shift (`SuccessAt`, `ResultAt`), an event and the
place of the next status (`TextAt`, `FailedResultAt`, `ThenNextStatus`), and `Apply` is what
the event does to counters and names.  `Rounds` repeats it as a function of the number of
rounds, so that theorems can speak of it.  A read behind the end of the dump
(`TestAnalyser.cpp:122`) may find zero or something else (`Past`), so `Analyse` is the set of
states the analyser may end in.  The printed text is left out.

**ResultTransfer** composes the two with the order of calls the generated code makes
(group, test, expectations that go on, assertions that leave by `longjmp`, end) and with
the three messages.  `sent` is a history of what the tests reported, as far as this level
transmits it (`View`).  **ResultChannel** is the abstract promise: report, deliver a prefix
in order, close when everything was delivered.  `ImplementsChannel` is the refinement with
`received <- analyser.shown`.

**GdbSession** is the command channel at the grain of the shared variables: `Send` (reset
both flags and write), `SeesStop`, `Succeeds`/`Fails` (the polls), and the reader in three
steps, `DecodeLine`, `SetLateState` and `PushFrame`, in the order of
`GdbDecoder::analyseLine` and `GdbOutputStream::run`.  gdb (`GdbStep`) and the target
(`TargetStep`) are external: they are modelled from how the host uses them.  gdb answers in
order and refuses everything but `interrupt` while the target runs.  The target executes a
`program` of steps: messages, calls, slow or endless tests, `detachTarget`.

**TestRun** is `executeAllTest` with all it calls, and the timer thread.  `todo` is what is
left of the handler of the current frame: a list of commands, each sent (`MainSends`),
waited for, and ended by an action that uses its result (`ReadIndexEnds`,
`BuffToSmallEnds`, ...), which may put more commands in front.  Between any two of them the
reader, gdb, the target and the timer may take steps.  Uses of a frame without a test for
`nullptr` lead to `mode = "crashed"`, `cleanUpAndExit` to `"exited"`.  With `Signals`, one
signal may arrive between any two steps: the list of the main thread is replaced by that of
`modeFailed` (interrupt, delete the breakpoints, read the last buffer, disconnect), which
comes to its end (`"rescued"`) unless the alarm rings first.

**HostProgram** is the main thread around that loop: the start-up of both chains, the three
modes, the script, and the end with its exit code.  `todo` is again a list of operations;
gdb's answer is one step, since one command is sent after the other, and `executeAllTest`
is one step with the outcomes `TestRun` has.  gdb may refuse every command for which there
is a reason (`MayFail`, `NeedsHalted`), also in turn; the target is compiled in one of the
ways of `Targets`, encodes that in `EUNIT_TARGET_MODE`, and may stop anywhere.  The loop of
run mode is here in full, with the frame it keeps from one round to the next.  A null
pointer that is followed ends in `Crashed`, an exception nobody catches in `Aborted`.

**HostProcesses** is the life of the host: `main`, the three readers, the two threads that
start children, the alarm thread, and the two children from fork to death, a child that
cannot `exec` included.  Each may be in `cleanUpAndExit`, which takes one step for each of
its statements (`RaiseFlag`, `WakeUp`, `KillNext`, `Exit`).  `childProzesses` has a copy for
every fork, the flag in shared memory has none.  `Faults` is what may go wrong outside:
lines of gdb that end the host, output on stderr, a server that fails, programs that are
not there.  A run mode ends, exits, or never returns.

**GroupFilter** is `shallExecuteTestGroup`.  `behind` is what `strtok` may find behind the
copy of a filter on the stack; a word is a sequence of characters, a pattern is given as its
tokens (`strtok` gives no empty ones) and by whether it is open at its ends.

## 3. Runs

| Run | Question | Bounds |
|---|---|---|
| BufferRecords | the four buffer properties with calls in any order | 22 bytes, levels testResults and lineNumbers, two strings (one too long), a string comparison, a timeout; no bound on the calls |
| TransferStatuses | no byte around the array is written, nothing is lost at level justSuccess | 3 bytes, so 11 results cause three or more flushes in every alignment |
| TransferRecords | the analyser reads what was reported at levels 1 to 3; groups; progress | 21 bytes, where two or three records fill the buffer; six strings, three integers, two comparisons, a timeout, 5 calls |
| SessionLag | the loop is right when the reader lags without bound | all programs of up to 3 messages with and without results, with `detachTarget` |
| SessionPrompt | timeouts lose nothing, stubs replace what they should, every run ends | all programs of up to 3 steps with endless tests (3 timeouts) and of up to 4 with stubs and mocks |
| SessionRaces | whatever goes wrong, no batch is counted twice | slow tests, stubs, one timeout, a lagging reader |
| Filters | filters select what they say | names up to 4 characters over two letters, lists of up to 2 patterns |
| SessionAbort | a signal at any moment loses no result, and only the latest batch may be counted twice | all programs of up to 3 steps with results, `detachTarget`, a stub and its calls; one signal |
| HostStart | nothing runs unobserved or without its level; refusals, crashes and exit codes are right; the host ends | every combination of options, targets with 4 versions and all bits that matter; up to 3 stops; gdb may refuse any number of times |
| HostLife | no orphans, no false blame, failures end the host | all ten faults, one of them per run, and one signal, with and without a server |
| StringHeader, NamesOff | the disagreements of section 6 | the smallest instance that shows each |

Why the bounds are enough.  The buffer's behaviour depends on the room that is left and on
the alignment of the packed bits; each size above is just large enough for every kind of
record to fit and to be refused, at every alignment, before and after a flush.  `Top` only
has to be far enough behind the array for the longest record that may pass the end.
`MaxCalls` bounds the history.  A session is a sequence of stops that are handled alike;
what one leaves behind for the next (a frame, a value, a dump, a breakpoint, a flag) shows
within three or four.  `MaxTimeouts` bounds only how often the timer fires.  In HostStart
three stops are the first one, a message and one more, so that each frame the loop of run
mode keeps meets each it may find next; 7 is the last version that fits into
`EUNIT_TARGET_MODE`, 0 to 2 are the known one and its neighbours.  In HostLife one fault and
one signal already bring up to four threads and a child into `cleanUpAndExit`; the two
safety properties are proved for any number, and a longer search with two of each (18.9
million states) found no error.  Deadlock is
not checked in the session, transfer and host runs, because what has ended stops; where it
must not stop earlier, `RunEnds`, `HostEnds` and `FailureEnds` say so.

## 4. Fairness and assumptions

* `ResultTransfer!FairSpec`: the host's handlers are weakly fair, since `executeAllTest`
  polls for the next frame until it has seen `finishAllTest`.  The test code owes nothing.
* `TestRun!FairSpec`: main thread, timer, reader, gdb and target are weakly fair: threads
  and processes are scheduled.  A slow test is a step that need not be taken; an endless
  one is never left except by the interrupt.
* `HostProgram!FairSpec`: the main thread, gdb's answers and the target's stops.  A target
  that runs is assumed to stop some day: the start-up has no timeout of its own, so a target
  that never stops keeps the host waiting.  Run mode has no end the host could reach.
* `HostProcesses!FairSpec`: the threads are scheduled.  Nothing is assumed of the run mode,
  the target or gdb, and nobody has to raise a signal.
* `Prompt` of HostProcesses says whether the `usleep(100000)` of `cleanUpAndExit`, and the
  `sleep(3)` of the alarm, are long enough for the threads that start the host's children
  to fork and to note them (`Settled`).  Without that, `NoOrphans` does not hold; the other
  properties do not need it.
* Signals are handled by the main thread, in the middle of a command; a second one that
  interrupts the handler, and a handler that runs into a lock its thread already holds, are
  not modelled in TestRun: the alarm ends those, and HostProcesses takes them as a
  `modeFailed` that never returns.
* In HostProgram the operands of `a & b` and of `a && b` are evaluated from left to right.
* `Prompt` of GdbSession says whether `usleep(1000)` at the end of `sendCommand` is long enough for the
  reader to push the frame and for the other thread's next poll.  It is TRUE in
  SessionPrompt and SessionAbort, where it also stands for the sleep of `modeFailed` after its
  interrupt, and FALSE in SessionLag and SessionRaces.  With FALSE the properties about stubs and
  crashes do *not* hold: a lagging frame lets the loop take the frame of a stub's
  `-exec-return` for a stop, or use a frame that is not there.  The code relies on the sleep.
* SessionPrompt does not mix stubs with timeouts (section 6 says what becomes of that): with
  programs that do, of the properties of the loop only `NeverCrashes` is left.
* `SessionAssumption` says what a program is: it starts with `startTesting`, only its last step
  is `finishAllTest`, the functions tests call or replace are not those eUnit stops in
  (`MessageToDebugger`, `detachTarget`) or the test itself, and a stub has a value.
* While a signal is handled the flag in shared memory is up, and an `^error` would leave
  `lastCommand` undefined; SessionAbort shows with `NothingRefused` that gdb refuses nothing
  then, so the model needs no such value there.
* The timeout is longer than anything but slow and endless tests, and gdb has carried out
  one command before the timer sends the next.
* An interrupted test whose frame the host returns from goes on at any later step: which
  frame it was in is not known.  The `CompareInt` gdb evaluates for a timeout is assumed
  not to stop in `MessageToDebugger` itself.
* gdb carries out well-formed commands on a stopped target; failing `-exec-return` or
  `memset` and breakpoints that cannot be inserted are not modelled.
* In TransferRecords the byte behind the array counts as writable and as zero, so that the
  run shows the transfer beside the overflow that StringHeader shows.

## 5. Proofs

`EUnitBufferProofs` holds for every buffer size, every set of levels and inputs, and every
order of calls, from the named assumptions of `EUnitBuffer` only (sizes are naturals,
`Top` lies behind the array, inputs are well typed).

* `TypeCorrect`: `BufferTypeOK` is inductive by itself.  The lemmas before it type each
  record (`FailedIntType`, `StringBytesType`, ...), and `StoreEffect` and `PackEffect` say
  what the two ways of writing do; `WriteCases` reduces every write to one of them.
* `RecordsStayInside`: `RecordsInside` is not inductive: the write after a stop tests
  nothing.  It needs `StoppedCallFits`, which remembers what was tested before the stop;
  the conjunction with the type invariant is inductive.  `FailedBytesFit` shows that the
  bytes stored are at most those reserved by `calcResultLength`.  Only justSuccess and
  lineNumbers are covered; in between the claim is false (StringHeader).
* `TailStaysClean`: everything from the index on is zero, relative to the type invariant;
  this is what `|=` and the skipped bytes of a size field rely on.
* `DrainedOnlyWhenStopped`: an action property, from the effect of each call on the index.
* `StatusesStayInside`: at justSuccess no byte outside the array changes.  The
  strengthening `StatusInv` ties the shift to the index, which excludes the write
  to the byte before the array.

`ResultTransferProofs` carries this over to whole runs: `TransferImplementsBuffer` maps each
step of `ResultTransfer`, the test code's by `TestCodeCalls` and the host's by
`HostAnswers`, to a step of `EUnitBuffer` or a stutter, and `TransferStaysInside` and
`TransferStatusesInside` follow from it and the theorems above.

The rest of the module proves that the two programs understand each other: that
`TestAnalyser.cpp` reads from the buffer what `eUnit.c` has put there, for every buffer size,
every level, every set of inputs and runs of every length.  The results are
`TheBufferHoldsTheRest`, `TheGroupsAreCounted`, `AllResultsAreRead` and the refinement
`TransferImplementsChannel`.  They have two hypotheses:

* `OrdinaryInputs`: operands of one, two or four bytes, arrays and strings of at most 255
  bytes (only one byte of a length is stored), strings with one NUL, their last byte.  It is
  what the assertion macros and generated code pass, but for longer arrays and 64-bit
  operands (section 6).
* `Regular`: test names are announced unless only statuses are stored, and at level
  testResults the bytes around the array are zero.  Neither can be dropped.  NamesOff shows what
  happens without names.  At testResults a string that just fills the buffer ends one byte
  behind it, the next result is stored after it over bytes the size field steps over, and its
  size is misread if they are not zero; TLC finds that with 17 bytes and `Foreign = 85`.

The argument is one induction over the steps of a run.  `Reads(lv, m, N, s, from, to)` says
that the loop, started in state `from` on any dump that begins with the `N` bytes of memory `m`,
the last of them filled up to shift `s`, comes to the end of these with state `to`.  Speaking
of all dumps that may follow is what makes it inductive: appending does not disturb what was
read.  So each way of storing needs one lemma, `PackReads` for a packed status, `FailureReads`
for a failure and `StringReads` for a string, which rest on `FailedResultAt` and `CString`
reading back integers, arrays, timeouts and names (`ScalarIsRead`, `ArrayIsRead`,
`TimeoutIsRead`, `TextIsRead`).  That the loop follows its recursion at all
is `RoundsAreDefined`, by a least counterexample; nothing else needs an induction over data.

`TransferInv` joins this to the run.  `Follows`: the buffer reads to a state that has shown
what was sent, but for a record that waits for room, and whose names agree with those
announced, but for a string that waits (`Pending`, `Agrees`).  `BufferShape`: the bytes a
reader or the next record relies on, next to `TailIsClean`.  `RunShape`: what the
test code can be doing; above all, that a shift which a `bufferToSmall` has left behind is not
used, since a string comes before the next status.  TLC checked the invariant before, with
buffers of 1 to 21 bytes.  `DrainedIs` then turns `Reads` into what `Analyse` returns, `ReportStep`,
`TextStep`, `FullIsAnswered`, `TooSmallIsAnswered` and `FinishIsAnswered` carry the steps, and
`ChannelStep` maps each of them to a step of the channel or a stutter.

`TestRunInvariant` and `TestRunProofs` hold for every set of programs and for programs of
every length.  The first half assumes `Undisturbed`: the sleep at the end of `sendCommand` is
long enough, the timer does not run and no signal comes.  Then every property of the loop
holds that the session runs check there: `TakesEveryStop`, `NoBatchIsLost`, `NoBatchTwice`,
`TakesItsValue`, `NeverTooEarly`, `ReplacesCalls`, `EndsWell` and `FindsItsFrames`.  None of
them is inductive, nor is their conjunction, since each depends on where a command is on its way to
gdb and back; `Inv` is.  Its conjuncts:

* `Channel`: the phases of a command.  It is on its way (`Asked`), the answer is (`Answered`),
  it is decoded but for the late state (`Decoded`), both flags are as they should be
  (`Noticed`), or the target has been resumed (`Resumed`, with everything the reader may have
  read of the three lines that follow).  The second loop of `sendCommand` can end in two of
  these only.  `Data` says which value or dump comes with an answer.
* `Plan`: which operation of the list may follow which, and what the last one is.  It is what
  makes the target stand still (`StandsStill`) until the list is done.
* `HandledInOrder`, `Stands`, `GoesRound`: the frames the loop has taken are the stops of the
  target so far, but for one that is on its way, and the target stands where the last one says.
* `InTest`, `JumpsOut`: the functions the target is in, and that the latest frame is the one of
  the loop's own `-exec-return` whenever one is used.
* `Batches`: a batch is either analysed or being read, and the buffer not yet cleared.
* `Registered`, `Breaks`, `Replaced`: the list of mocks enumerates the registrations since the
  last `deleteMocks` in order (`Lists`), gdb's breakpoints are the host's own and one for each
  of these once the insertions that are left in the list are done, and a call that has stopped
  is answered by the first of them.

`TestRunInvariant` has the invariant, lemmas on sequences, programs and the list of mocks, and
the steps of the reader, of gdb and of the target; `TestRunProofs` has the steps of the main
thread.  There, `TakeKeeps` is what all stops have in common when the loop takes their frame,
and `NextKeeps`, `TailKeeps` and `FrontKeeps` what all operations have in common that end
and leave the rest of the list, or the rest behind a new one.  The invariant was checked
with TLC before (programs of up to four steps with stubs, messages and `detachTarget`).

The second half of `TestRunProofs` lets a signal come at any moment (a second one is section
4's), for every set of programs.  It assumes `Untimed`: the sleep of `sendCommand` and that of
`modeFailed` after its interrupt are long enough, and the timer does not run.  Its
invariant is `SessionInv`: either the loop still converses with gdb as above, or `modeFailed`
does, and then `Rescue` holds (`SessionHolds`).

* `MessagesTaken` is what the loop adds: it has taken every message before the step the target
  is in.  `Inv` alone allows frames taken out of a shorter history, and then a signal would find
  batches nobody can read any more.
* `RescuePlan`: what is left of `modeFailed`'s list.  The interrupt comes first, the one read of
  the results behind it, and the disconnect last.
* `RescueChannel`: until the interrupt has been carried out, gdb may still have to answer the
  command the signal has interrupted (`Old`); this may be the continue that resumes the target,
  which is then interrupted or meets its next message.  From then on there is one command at a
  time, and the target stands still.
* `RescueResults`: every batch before the step the target is in is analysed, and that of this
  step (`Unread`) is analysed or will be.
* `RescueTyped` says what gdb tells, or may have told before: a dump, and a value that agrees with
  the buffer (`ValuesHere`).  TLC found the two facts without which this is not
  inductive.  `modeFailed` takes the first value in the queue for the index, so no other may be
  there while a batch is unread; and a target that runs has not just had its buffer cleared,
  otherwise the batch at its next stop would look empty.

`SignalRescues` is the step of the signal: each phase of the loop's command ends in one of those
`Rescue` knows.  `RescueStep` has the others.  From `SessionInv` follow `SignalLosesNothing`
(`EndLosesNothing`), `SignalCountsLastTwice` (`OnlyLastTwice`) and `SignalIsHeeded`
(`NothingRefused`).

`HostProofs` holds for every set of faults and every number of faults and signals.

* `TypeCorrect`: the type invariant, inductive by itself.
* `NoOrphansLeft` assumes `Prompt`.  That all children are dead when the host has ended is
  not inductive: it depends on how far each thread has come in its loop over
  `childProzesses`.  `OrphanInv` adds `StarterInv` (a child exists only between its fork and
  its entry in the list, as far as its starter has come) and `KillInv` (a thread in the loop
  has seen all starters finish, and everything before its index is dead).  `Quiet` names what
  most steps have in common, so that each of them is proved by one lemma, and only forks,
  entries, kills and exits need an argument of their own.
* `OwnShutdownIsNotBlamed` needs no `Prompt`.  `BlameInv` follows the flag: it is up before
  any thread sleeps or kills, before the connection is closed, hence before gdb is dead,
  hence before the server says that it shuts down; only the target's own detach comes
  without it.  `Harmless` collects the steps that touch none of this.

`HostProgramProofs` holds for every set of targets and command lines.  `DecodesWhatIsEncoded`
shows, bit by bit, that `getTargetDefines` undoes `EUNIT_TARGET_MODE`; `RefusedForVersion`
follows with the invariant that the host has either read nothing or just that
(`RefusalInv`), and a lemma on the table of versions.  `TestModeIsSafe` needs to know what is
in main's list: `SafeInv` says that without a script it only ever holds the operations of
test mode, none of which goes through `executeCommand` or run mode's loop, and there is a
lemma for each part of `Main` that replaces operations by others.

`LevelIsToldFirst`, in the same module, proves `LevelBeforeTests`, a statement about order: the start-up tells the
target its level and its filters before the `continue`, but commands may be refused, a filter
may be skipped, the mode may be given up, and the target may end by itself.  `OrderInv` makes
the order a property of the list: whatever the target needs is known to it, or told by an
operation that stands before every operation that resumes it, or the target is gone for good
(`ToldFirst`).  The other conjuncts are what makes this inductive: nothing starts a target
behind an operation that belongs to a started one (`StartsBefore`), main can only wait while
the target runs (`OnlyWaits`, hence `RunningBlocks`), a closed chain resumes nothing
(`ClosedEnds`), and a command that was answered was obeyed or had nobody to obey it
(`ToldOrLost`).  One lemma, `Replace`, carries every operation that ends and leaves others in
its place; giving up, skipping a filter, sending, gdb's answers and the stops have their own.

`HostStartProofs` holds for all three modes, again for every set of targets and command lines.
Its three invariants rest on one description of how main goes on: what takes the place of an
operation is a list of its `Successors`, or the mode is given up, or a filter is skipped
(`ChainGoesOn`, `ModeGoesOn`, `EndGoesOn`).

* `HostTypes`: that description makes the list one of `AnyOperation`, which `TypeOK` needs to
  know which flags a command waits for; both together are inductive.
* `RunsAreObserved`: `WatchInv` is about the order of the list.  Before every operation that
  resumes the target, or leads to one that does, stands one that sets its breakpoints, unless
  they are set (`SetFirst`).  That a breakpoint is set when its command has ended needs
  that gdb does not refuse it and that its answer is awaited (`BreaksAreSet`, `SoundList`), and
  that a chain that is closed resumes nothing (`ClosedRuns`).  It builds on `RefusalInv`: what
  the host knows of the target is what the target is, or nothing, and then it is refused.
* `FailuresAreReported`: exit code 0 needs that every filter is known, or still to be told, or
  an error has been counted (`KnownOrToTell`).  gdb accepts a filter only from a target that has
  stopped, so `HaltedWhileTold` follows the target from the stop at startTesting
  (`LatestIsHalted`, `MessagesAreStops`) to the last filter, which no continue and no end of
  main precedes (`TellsFirst`); `ClosedIsError` covers the modes that are given up.

`FilterProofs` holds for every name and every list of patterns.  `FoundWalks` shows that the
function the loop over the tokens computes exists and satisfies its recursion, by a least
counterexample (`LeastNumber`, from the library's well-founded induction).  From there,
`FoundIsFirst` shows that the loop finds every token at or before any place where a match has
it, hence misses nothing (`MatchesAreFound`); `FoundMatches` shows that what it finds is a
match when neighbouring tokens share no character, since their occurrences then cannot overlap
(`DistinctWordsFollow`).  The three theorems say this of the groups that run.

Only model-checked: the sessions with timeouts or a lagging reader (SessionLag shows the
properties of the loop for programs without stubs, SessionRaces what is left of them with
both), and all liveness, which is beyond the prover.

## 6. What disagrees

* **StringHeader**: `addStringToBuffer` reserves 5 bytes for a header of 6 except at level
  lineNumbers (`eUnit.c:436`, comment at 423).  At testNames such a string passes the array
  by one byte; at testResults `eUnit.c:368` then finds the room huge, and failed results are
  stored behind it until the next flush, where the sizes of arrays are misread unless the
  bytes there were zero.
* **NamesOff**: for `bufferToSmall` the host clears the buffer and skips the target's
  `bitShift = 0`; without test names the next status goes to the byte before the buffer.

Found while modelling, without a run of their own:

* A 64-bit comparison is stored with size fields the analyser does not skip
  (`TestAnalyser.cpp:351`), so that what follows it in the dump is misread.
* The frame left by a stub's `-exec-return` is taken for the stop of a later timeout
  (`TestMode.cpp:127`); the loop then ends early and nothing records an error.  This is why
  SessionPrompt does not mix the two.
* An interrupt that meets a test which ends by itself lets both threads return on one `^done`;
  a batch is not read (SessionRaces asks only that none is counted twice).
* A signal after a batch was analysed and before the target has cleared its buffer makes
  `modeFailed` count that batch again; `OnlyLastTwice` shows that this is all.
* A signal before the mode object exists follows a pointer that is not set
  (`main.cpp:119-124`), though the Readme says (114-115) that signals end with a cleanup.
* A start-up that fails ends with exit code 0 unless an option asks for -1
  (`main.cpp:101`), and the Readme (101-102) says that 0 means all results were read.  A
  server that cannot be started is never reported as -3: the exit is the forked child's.
* `executeCommand` follows the null pointer of a chain that has no next one
  (`ComGnuDebugger.cpp:355`) where gdb refuses a continue, a detach or a script in run mode,
  flash mode or after the mode; `TestModeNeverCrashes` shows that plain test mode is safe.
* "jump over software breakpoint" (`ComArmNoneEabiGdb.h:46-47`): run mode sends it to targets
  without software breakpoints, and not to those with them
  (`ComArmNoneEabiGdb.cpp:56-66`).
* The long-jump bit of `EUNIT_TARGET_MODE` sets the host's flag for the self test mode
  (`ComGnuDebugger.cpp:110-114`); nothing reads that flag.
* Run mode follows a null pointer when its first continue returns without a frame, and
  repeats the last message when a later one does (`RunMode.cpp:132-138`).
* In built-in self test mode `byteComp` does not count its failures (`eUnit.c:680`), so that a
  run in which only these fail is reported as successful.
* At level testNames `analyseSuccess` counts class names and messages
  as tests of the group (`TestAnalyser.cpp:184`), so `GroupsAreCounted` is stated for the
  levels above.
* Filters select more than they say when a pattern's tokens overlap or garbage follows the
  filter; `NothingElseSelected` names those conditions.

## 7. Not modelled

* Parsing: options and configuration files, test sources, the text of gdb's lines.  The
  decoder is modelled by the order of its effects; a line of gdb is what it means.
* Bytes on pipes: lines arrive whole and in order.  The Windows variant of the pipes.
* Reports (`TestStatistic`, `XmlGenerator`): timers and text nothing else reads.
* The built-in self test mode: sequential callbacks without a host, and a counter.
* In HostProgram, the reader's three steps per line and the timer: they are the subject of
  GdbSession and TestRun, and one command at a time is what SessionLag and SessionPrompt
  establish for the loop.  Run mode's loop therefore has no lagging reader.
* Examples, self tests and build files.

## 8. Plan

The plan was carried out in this order: the buffer and its proofs, the transfer and the
analyser, the session with the loop of test mode, the filters; then the processes and
shutdown with their proofs, the start-up with all modes, and `modeFailed`.  What is left:

1. An abstract session (commands and answers one at a time) that `GdbSession` refines while
   `Prompt` holds, so that HostProgram's single step per answer is a theorem, not an
   argument.
2. Proofs: that the level testNames overruns the array by one byte at most; the loop of
   `TestRun` with the timer and with a lagging reader.
3. Run mode over a lagging reader.
