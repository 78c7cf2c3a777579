----------------------------- MODULE HostProcesses -----------------------------
(***************************************************************************)
(* The processes and threads of the GDBManipulator and how they end        *)
(* (src/GDBManipulator/src: main.cpp, Utils.cpp, GdbInterface.cpp).        *)
(*                                                                         *)
(* Every thread of the host, and a child process whose program could not   *)
(* be started, may enter cleanUpAndExit: it raises a flag in shared memory *)
(* ("true"), sleeps, kills the children it knows of and exits.  What the   *)
(* main thread talks about with gdb is the subject of HostProgram; here a  *)
(* run mode ends, fails, is asked to detach, or never returns.             *)
(***************************************************************************)
EXTENDS Integers, Sequences, FiniteSets

CONSTANTS
  Faults,     \* what may go wrong outside of the host
  MaxFaults,  \* bound on the number of faults of a run
  MaxSignals, \* bound on the number of SIGINT, SIGABRT and SIGTERM
  Prompt      \* is a sleep of the host long enough for the threads that start
              \* the host and its children?

Processes == {"server", "gdb"}
Threads == {"main", "handleServer", "callGdbServer", "handleError", "handleOut",
            "handleGDB", "alarm"}

(* The lines of gdb that end the host: for each the exit code. *)
BadLines == {"undecodable", "unknownDone", "noFile", "closed", "undefined"}
AllFaults == BadLines \union {"stderr", "serverFailure", "serverPath", "serverExec",
                              "clientExec"}

ASSUME ProcessesAssumption ==
  /\ Faults \subseteq AllFaults /\ Prompt \in BOOLEAN
  /\ MaxFaults \in Nat /\ MaxSignals \in Nat

VARIABLES
  callServer,      \* is the host to start a gdb server?
  phase,           \* how far main has come
  flag,            \* does the shared memory hold "true"?
  at,              \* where each thread, or child that failed to start, is
  code,            \* the argument of its cleanUpAndExit
  index,           \* the next of childProzesses it will kill
  childProzesses,  \* the list of the host and the copy each child inherits
  process,         \* the state of each child
  detached,        \* has the connection of gdb to the server been closed?
  fromGdb, gdbError, fromServer, \* what the children have written
  exitCode,        \* how the host has ended
  causes,          \* history: the faults, and what else may end the host
  signals          \* number of signals so far

hostVars == <<callServer, phase, exitCode, signals>>
cleanVars == <<code, index>>
childVars == <<childProzesses, process>>
pipeVars == <<fromGdb, gdbError, fromServer>>
vars == <<hostVars, flag, at, cleanVars, childVars, detached, pipeVars, causes>>

Alive == 1      \* no exit code of the host
Crashed == 139  \* by SIGSEGV
SIGINT == 2

gone == exitCode # Alive
TheHost(c) == IF c \in Processes THEN c ELSE "host"
CanAct(c) == IF c \in Processes THEN process[c] = "failed" ELSE ~gone
GoesTo(c, place) == at' = [at EXCEPT ![c] = place]

Ends(n) == exitCode' = n /\ UNCHANGED <<callServer, phase, signals>>

Happens(fault) ==
  /\ fault \in Faults
  /\ Cardinality(causes \intersect AllFaults) < MaxFaults
  /\ causes' = causes \union {fault}
-----------------------------------------------------------------------------
(* cleanUpAndExit *)

cleanUpAndExit(c, n) ==
  /\ GoesTo(c, "flag")
  /\ code' = [code EXCEPT ![c] = n]
  /\ UNCHANGED index

(* The first statements of the host are over: every thread that starts a   *)
(* process has noted its child.                                            *)
Settled ==
  /\ phase \notin {"options", "memory", "chain", "opened"}
  /\ at["callGdbServer"] \in {"off", "over"} /\ at["handleGDB"] \in {"off", "over"}

RaiseFlag(c) ==
  /\ at[c] = "flag" /\ CanAct(c)
  /\ flag' = TRUE
  /\ GoesTo(c, "sleep")
  /\ UNCHANGED <<hostVars, cleanVars, childVars, detached, pipeVars, causes>>

(* Mutant: the loop starts before the first child. *)
WakeUpTooLow(c) ==
  /\ at[c] = "sleep" /\ CanAct(c)
  /\ Prompt => Settled
  /\ GoesTo(c, "kill")
  /\ index' = [index EXCEPT ![c] = 0]
  /\ UNCHANGED <<hostVars, flag, code, childVars, detached, pipeVars, causes>>

(* usleep(100000); alarmThread has slept before. *)
WakeUp(c) ==
  /\ at[c] = "sleep" /\ CanAct(c)
  /\ Prompt => Settled
  /\ GoesTo(c, "kill")
  /\ index' = [index EXCEPT ![c] = 1]
  /\ UNCHANGED <<hostVars, flag, code, childVars, detached, pipeVars, causes>>

KillNext(c) ==
  /\ at[c] = "kill" /\ CanAct(c)
  /\ index[c] <= Len(childProzesses[TheHost(c)])
  /\ process' = [process EXCEPT ![childProzesses[TheHost(c)][index[c]]] = "dead"]
  /\ index' = [index EXCEPT ![c] = @ + 1]
  /\ UNCHANGED <<hostVars, flag, at, code, childProzesses, detached, pipeVars, causes>>

(* exit(code): of the host with all its threads, or of the child. *)
Exit(c) ==
  /\ at[c] = "kill" /\ CanAct(c)
  /\ index[c] > Len(childProzesses[TheHost(c)])
  /\ GoesTo(c, "over")
  /\ IF c \in Processes
     THEN process' = [process EXCEPT ![c] = "dead"] /\ UNCHANGED hostVars
     ELSE Ends(code[c]) /\ UNCHANGED process
  /\ UNCHANGED <<flag, cleanVars, childProzesses, detached, pipeVars, causes>>

CleanUp(c) == RaiseFlag(c) \/ WakeUp(c) \/ KillNext(c) \/ Exit(c)
-----------------------------------------------------------------------------
(* main *)

Main(from, to) ==
  /\ at["main"] = "on" /\ ~gone /\ phase = from
  /\ phase' = to
  /\ UNCHANGED <<callServer, exitCode, signals>>
  /\ UNCHANGED <<code, index, childVars, pipeVars>>

(* A missing argument: return -5. *)
analyseArgv ==
  \/ Main("options", "memory") /\ UNCHANGED <<flag, at, detached, causes>>
  \/ /\ phase = "options" /\ ~gone /\ at["main"] = "on"
     /\ Ends(-5)
     /\ UNCHANGED <<flag, at, cleanVars, childVars, detached, pipeVars, causes>>

sharedMemoryInit ==
  /\ Main("memory", "chain")
  /\ flag' = FALSE
  /\ UNCHANGED <<at, detached, causes>>

(* gdbInterface and gdbInterface::open start the threads. *)
gdbInterface ==
  /\ Main("chain", "opened")
  /\ at' = [at EXCEPT !["handleServer"] = IF callServer THEN "on" ELSE "off",
                      !["callGdbServer"] = IF callServer THEN "on" ELSE "off"]
  /\ UNCHANGED <<flag, detached, causes>>

open ==
  /\ Main("opened", "built")
  /\ at' = [at EXCEPT !["handleError"] = "on", !["handleOut"] = "on", !["handleGDB"] = "on"]
  /\ UNCHANGED <<flag, detached, causes>>

BuildMode ==
  /\ Main("built", "mode")
  /\ UNCHANGED <<flag, at, detached, causes>>

(* The run mode returns, after closeComChain if the start has failed. *)
ModeReturns ==
  /\ Main("mode", "end")
  /\ flag' \in {flag, TRUE}
  /\ UNCHANGED <<at, detached, causes>>

(* The mode calls cleanUpAndExit: the target is to be detached, has been   *)
(* reset (-10), or is of an unknown version (-14).                         *)
ModeExits(n) ==
  /\ at["main"] = "on" /\ ~gone /\ phase = "mode"
  /\ cleanUpAndExit("main", n)
  /\ detached' = (detached \/ n = -11)
  /\ causes' = IF n = -11 THEN causes \union {"target"} ELSE causes
  /\ UNCHANGED <<hostVars, flag, childVars, pipeVars>>

(* Mutant: the flag is left to cleanUpAndExit. *)
DetachSilently ==
  /\ Main("end", "detached")
  /\ detached' = TRUE
  /\ UNCHANGED <<flag, at, causes>>

(* failSilent and detachTarget *)
detachTarget ==
  \/ Main("end", "silent") /\ flag' = TRUE /\ UNCHANGED <<at, detached, causes>>
  \/ Main("silent", "detached") /\ detached' = TRUE /\ UNCHANGED <<flag, at, causes>>

EndOfMain ==
  /\ at["main"] = "on" /\ ~gone /\ phase = "detached"
  /\ \E n \in {0, -1} : cleanUpAndExit("main", n)
  /\ UNCHANGED <<hostVars, flag, childVars, detached, pipeVars, causes>>

StartUp == sharedMemoryInit \/ gdbInterface \/ open \/ BuildMode

MainThread ==
  \/ analyseArgv \/ StartUp
  \/ ModeReturns \/ (\E n \in {-10, -11, -14} : ModeExits(n))
  \/ detachTarget \/ EndOfMain

(* Mutant: no alarm. *)
SignalWithoutAlarm ==
  /\ ~gone /\ signals < MaxSignals
  /\ signals' = signals + 1
  /\ causes' = causes \union {"signal"}
  /\ IF phase \in {"options", "memory", "chain", "opened", "built"}
     THEN exitCode' = Crashed /\ UNCHANGED <<at, code>>
     ELSE /\ at' = [at EXCEPT !["main"] = "modeFailed"]
          /\ code' = [code EXCEPT !["main"] = SIGINT]
          /\ UNCHANGED exitCode
  /\ UNCHANGED <<callServer, phase, flag, index, childVars, detached, pipeVars>>

(* A signal: cleanUpAndExit on the main thread, whatever that is doing. It *)
(* calls mode->modeFailed(): before there is a mode, of a null pointer.    *)
Signal ==
  /\ ~gone /\ signals < MaxSignals
  /\ signals' = signals + 1
  /\ causes' = causes \union {"signal"}
  /\ IF phase \in {"options", "memory", "chain", "opened", "built"}
     THEN exitCode' = Crashed /\ UNCHANGED <<at, code>>
     ELSE /\ at' = [at EXCEPT !["main"] = "modeFailed",
                              !["alarm"] = IF @ = "off" THEN "flag" ELSE @]
          /\ code' = [code EXCEPT !["main"] = SIGINT, !["alarm"] = -12]
          /\ UNCHANGED exitCode
  /\ UNCHANGED <<callServer, phase, flag, index, childVars, detached, pipeVars>>

(* modeFailed has read the last buffer, if gdb answers at all. *)
modeFailed ==
  /\ at["main"] = "modeFailed" /\ ~gone
  /\ GoesTo("main", "flag")
  /\ flag' = TRUE /\ detached' = TRUE
  /\ UNCHANGED <<hostVars, cleanVars, childVars, pipeVars, causes>>
-----------------------------------------------------------------------------
(* The threads that start the children: callGdbServer and handleGDB. *)

Starter(p) == IF p = "server" THEN "callGdbServer" ELSE "handleGDB"

createSubProcess(p) ==
  /\ at[Starter(p)] = "on" /\ ~gone
  /\ process' = [process EXCEPT ![p] = "forked"]
  /\ childProzesses' = [childProzesses EXCEPT ![p] = childProzesses["host"]]
  /\ GoesTo(Starter(p), "forked")
  /\ UNCHANGED <<hostVars, flag, cleanVars, detached, pipeVars, causes>>

(* Mutant: only the client is noted. *)
AddClientOnly(p) ==
  /\ at[Starter(p)] = "forked" /\ ~gone
  /\ childProzesses' = IF p = "gdb"
                       THEN [childProzesses EXCEPT !["host"] = Append(@, p)]
                       ELSE childProzesses
  /\ GoesTo(Starter(p), "over")
  /\ UNCHANGED <<hostVars, flag, cleanVars, process, detached, pipeVars, causes>>

addChildProzess(p) ==
  /\ at[Starter(p)] = "forked" /\ ~gone
  /\ childProzesses' = [childProzesses EXCEPT !["host"] = Append(@, p)]
  /\ GoesTo(Starter(p), "over")
  /\ UNCHANGED <<hostVars, flag, cleanVars, process, detached, pipeVars, causes>>

execv(p) ==
  /\ process[p] = "forked"
  /\ process' = [process EXCEPT ![p] = "running"]
  /\ UNCHANGED <<hostVars, flag, at, cleanVars, childProzesses, detached, pipeVars, causes>>

(* A server command without a directory, or with one that is not there:    *)
(* the only thread of the child returns.                                   *)
ServerPathFails ==
  /\ process["server"] = "forked" /\ Happens("serverPath")
  /\ process' = [process EXCEPT !["server"] = "dead"]
  /\ UNCHANGED <<hostVars, flag, at, cleanVars, childProzesses, detached, pipeVars>>

(* execv returns: the child of the server enters cleanUpAndExit(-3). *)
ServerExecFails ==
  /\ process["server"] = "forked" /\ Happens("serverExec")
  /\ process' = [process EXCEPT !["server"] = "failed"]
  /\ cleanUpAndExit("server", -3)
  /\ UNCHANGED <<hostVars, flag, childProzesses, detached, pipeVars>>

(* The child of the client logs that to its pipe. *)
ClientExecFails ==
  /\ process["gdb"] = "forked" /\ Happens("clientExec")
  /\ process' = [process EXCEPT !["gdb"] = "failed"]
  /\ fromGdb' = Append(fromGdb, "undefined")
  /\ GoesTo("gdb", "logged")
  /\ UNCHANGED <<hostVars, flag, cleanVars, childProzesses, detached, gdbError, fromServer>>

ClientRaisesFlag ==
  /\ process["gdb"] = "failed" /\ at["gdb"] = "logged"
  /\ flag' = TRUE
  /\ GoesTo("gdb", "raised")
  /\ UNCHANGED <<hostVars, cleanVars, childVars, detached, pipeVars, causes>>

(* The list without the last p, unless that is the first of the list. *)
deleteChildProcess(list, p) ==
  LET IsLast(i) == list[i] = p /\ \A j \in (i + 1)..Len(list) : list[j] # p
      last == CHOOSE i \in 2..Len(list) : IsLast(i)
  IN  IF \E i \in 2..Len(list) : IsLast(i)
      THEN SubSeq(list, 1, last - 1) \o SubSeq(list, last + 1, Len(list)) ELSE list

(* It logs again, after sleep(1), and enters cleanUpAndExit(-7). *)
ClientGivesUp ==
  /\ process["gdb"] = "failed" /\ at["gdb"] = "raised"
  /\ fromGdb' = Append(fromGdb, "undefined")
  /\ childProzesses' = [childProzesses EXCEPT !["gdb"] = deleteChildProcess(@, "gdb")]
  /\ cleanUpAndExit("gdb", -7)
  /\ UNCHANGED <<hostVars, flag, process, detached, gdbError, fromServer, causes>>

Children ==
  \/ \E p \in Processes : execv(p)
  \/ ServerPathFails \/ ServerExecFails \/ ClientExecFails
ClientFails == ClientRaisesFlag \/ ClientGivesUp

Starters == \E p \in Processes : createSubProcess(p) \/ addChildProzess(p)
-----------------------------------------------------------------------------
(* What the children write. *)

GdbWrites(line) ==
  /\ process["gdb"] = "running" /\ fromGdb = << >>
  /\ line = "closed" => process["server"] = "dead"
  /\ Happens(line)
  /\ fromGdb' = <<line>>
  /\ UNCHANGED <<hostVars, flag, at, cleanVars, childVars, detached, gdbError, fromServer>>

GdbComplains ==
  /\ process["gdb"] = "running" /\ ~gdbError /\ Happens("stderr")
  /\ gdbError' = TRUE
  /\ UNCHANGED <<hostVars, flag, at, cleanVars, childVars, detached, fromGdb, fromServer>>

ServerFails ==
  /\ process["server"] = "running" /\ fromServer = "nothing" /\ Happens("serverFailure")
  /\ fromServer' = "failure"
  /\ UNCHANGED <<hostVars, flag, at, cleanVars, childVars, detached, fromGdb, gdbError>>

(* The server ends with its client: it writes "Shutting down...".          *)
ServerEnds ==
  /\ process["server"] = "running" /\ fromServer = "nothing"
  /\ detached \/ process["gdb"] = "dead"
  /\ fromServer' = "shutDown"
  /\ process' = [process EXCEPT !["server"] = "dead"]
  /\ UNCHANGED <<hostVars, flag, at, cleanVars, childProzesses, detached, fromGdb, gdbError,
                 causes>>

Writes ==
  \/ \E line \in BadLines : GdbWrites(line)
  \/ GdbComplains \/ ServerFails \/ ServerEnds
-----------------------------------------------------------------------------
(* The threads that read. *)

(* gdbOutputStream::run with the exits of analyseLine and evaluateDone. *)
analyseLine ==
  /\ at["handleOut"] = "on" /\ ~gone /\ fromGdb # << >>
  /\ fromGdb' = Tail(fromGdb)
  /\ LET line == Head(fromGdb)
     IN  \/ line \in {"noFile", "closed"} /\ cleanUpAndExit("handleOut", -4)
         \/ line = "undecodable" /\ cleanUpAndExit("handleOut", -2)
         \/ line = "unknownDone" /\ ~flag /\ cleanUpAndExit("handleOut", -2)
         \/ /\ line = "unknownDone" /\ flag    \* evaluateDone never returns
            /\ GoesTo("handleOut", "stuck") /\ UNCHANGED cleanVars
         \/ line = "undefined" /\ ~flag /\ UNCHANGED <<at, cleanVars>>
         \/ line = "undefined" /\ flag /\ cleanUpAndExit("handleOut", -11)
  /\ UNCHANGED <<hostVars, flag, childVars, detached, gdbError, fromServer, causes>>

readError ==
  /\ at["handleError"] = "on" /\ ~gone /\ gdbError
  /\ cleanUpAndExit("handleError", -13)
  /\ UNCHANGED <<hostVars, flag, childVars, detached, pipeVars, causes>>

(* Mutant: every shutdown is reported. *)
ReportEveryShutdown ==
  /\ at["handleServer"] = "on" /\ ~gone /\ fromServer # "nothing"
  /\ cleanUpAndExit("handleServer", -3)
  /\ fromServer' = "nothing"
  /\ UNCHANGED <<hostVars, flag, childVars, detached, fromGdb, gdbError, causes>>

handleServer ==
  /\ at["handleServer"] = "on" /\ ~gone /\ fromServer # "nothing"
  /\ IF fromServer = "failure" \/ ~flag
     THEN cleanUpAndExit("handleServer", -3) ELSE UNCHANGED <<at, cleanVars>>
  /\ fromServer' = "nothing"
  /\ UNCHANGED <<hostVars, flag, childVars, detached, fromGdb, gdbError, causes>>

Readers == analyseLine \/ readError \/ handleServer
-----------------------------------------------------------------------------
Init ==
  /\ callServer \in BOOLEAN
  /\ phase = "options" /\ exitCode = Alive /\ signals = 0 /\ flag = FALSE
  /\ at = [c \in Threads \union Processes |-> IF c = "main" THEN "on" ELSE "off"]
  /\ code = [c \in Threads \union Processes |-> 0]
  /\ index = [c \in Threads \union Processes |-> 1]
  /\ childProzesses = [o \in Processes \union {"host"} |-> << >>]
  /\ process = [p \in Processes |-> "none"]
  /\ detached = FALSE /\ fromGdb = << >> /\ gdbError = FALSE /\ fromServer = "nothing"
  /\ causes = {}

Next ==
  \/ MainThread \/ Signal \/ modeFailed
  \/ Starters \/ Children \/ ClientFails
  \/ Writes \/ Readers
  \/ \E c \in Threads \union Processes : CleanUp(c)

Spec == Init /\ [][Next]_vars

(* Threads are scheduled.  How long the target, gdb and the run mode take  *)
(* is not known, and nobody has to raise a signal.                         *)
FairSpec ==
  /\ Spec
  /\ WF_vars(StartUp) /\ WF_vars(Starters) /\ WF_vars(ClientFails)
  /\ WF_vars(analyseLine) /\ WF_vars(readError) /\ WF_vars(handleServer)
  /\ \A c \in Threads \union Processes : WF_vars(CleanUp(c))
-----------------------------------------------------------------------------
(* Properties *)

TypeOK ==
  /\ callServer \in BOOLEAN /\ flag \in BOOLEAN /\ detached \in BOOLEAN
  /\ phase \in {"options", "memory", "chain", "opened", "built", "mode", "end", "silent",
                "detached"}
  /\ at \in [Threads \union Processes ->
               {"off", "on", "forked", "logged", "raised", "modeFailed", "flag", "sleep",
                "kill", "stuck", "over"}]
  /\ code \in [Threads \union Processes -> Int] /\ exitCode \in Int
  /\ index \in [Threads \union Processes -> Nat \ {0}]
  /\ childProzesses \in [Processes \union {"host"} -> Seq(Processes)]
  /\ process \in [Processes -> {"none", "forked", "failed", "running", "dead"}]
  /\ fromGdb \in Seq(BadLines) /\ gdbError \in BOOLEAN
  /\ fromServer \in {"nothing", "failure", "shutDown"}
  /\ causes \subseteq AllFaults \union {"signal", "target"} /\ signals \in Nat

(* However the host ends through exit, and however many threads clean up   *)
(* at the same time, no gdb and no server is left behind: closeComChain    *)
(* never gets its "quit" to gdb, so nothing else ends it.                  *)
NoOrphans ==
  gone /\ exitCode # Crashed => \A p \in Processes : process[p] \in {"none", "dead"}

(* A server that shuts down because the host closes the connection, or     *)
(* kills gdb, is not reported as a failure of the server: every thread     *)
(* raises the flag before it does either.  (The target's own detach does   *)
(* not.)                                                                   *)
OwnShutdownNotBlamed ==
  exitCode = -3 => "serverFailure" \in causes \/ "target" \in causes

(* A signal, a client that cannot be started, output of gdb on stderr and  *)
(* a failure the server reports end the host, whatever the main thread is  *)
(* waiting for.                                                            *)
FailureEnds ==
  causes \intersect {"signal", "clientExec", "stderr", "serverFailure"} # {} ~> gone
===============================================================================
