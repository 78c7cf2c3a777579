----------------------------- MODULE HostProofs ------------------------------
(***************************************************************************)
(* Proofs about HostProcesses, for any faults and any number of faults and *)
(* signals.                                                                *)
(***************************************************************************)
EXTENDS HostProcesses, TLAPS

Actors == Threads \union Processes

(* What deleteChildProcess leaves is a list of processes.                  *)
LEMMA DeleteType ==
  ASSUME NEW list \in Seq(Processes), NEW p
  PROVE  deleteChildProcess(list, p) \in Seq(Processes)
<1> DEFINE IsLast(i) == list[i] = p /\ \A j \in (i + 1)..Len(list) : list[j] # p
           last == CHOOSE i \in 2..Len(list) : IsLast(i)
<1>1. CASE ~\E i \in 2..Len(list) : IsLast(i)
  BY <1>1 DEF deleteChildProcess
<1>2. CASE \E i \in 2..Len(list) : IsLast(i)
  <2>1. last \in 2..Len(list) BY <1>2
  <2> HIDE DEF last
  <2>2. /\ SubSeq(list, 1, last - 1) \in Seq(Processes)
        /\ SubSeq(list, last + 1, Len(list)) \in Seq(Processes)
    BY <2>1
  <2>3. deleteChildProcess(list, p)
          = SubSeq(list, 1, last - 1) \o SubSeq(list, last + 1, Len(list))
    BY <1>2 DEF deleteChildProcess, last
  <2> QED BY <2>2, <2>3
<1> QED BY <1>1, <1>2

Places == {"off", "on", "forked", "logged", "raised", "modeFailed", "flag", "sleep", "kill",
           "stuck", "over"}

LEMMA CleanUpType ==
  ASSUME TypeOK, NEW c, NEW n \in Int, cleanUpAndExit(c, n)
  PROVE  /\ at' \in [Threads \union Processes -> Places]
         /\ code' \in [Threads \union Processes -> Int]
         /\ index' = index
<1>1. at' = [at EXCEPT ![c] = "flag"] /\ code' = [code EXCEPT ![c] = n] /\ index' = index
  BY DEF cleanUpAndExit, GoesTo
<1>2. /\ at \in [Threads \union Processes -> Places]
      /\ code \in [Threads \union Processes -> Int]
  BY DEF TypeOK, Places
<1>3. "flag" \in Places BY DEF Places
<1> QED BY <1>1, <1>2, <1>3

LEMMA MainThreadType == ASSUME TypeOK, MainThread PROVE TypeOK'
<1>1. ASSUME analyseArgv PROVE TypeOK'
  BY <1>1 DEF analyseArgv, Main, Ends, TypeOK, hostVars, cleanVars, childVars, pipeVars
<1>2. ASSUME StartUp PROVE TypeOK'
  BY <1>2 DEF StartUp, sharedMemoryInit, gdbInterface, open, BuildMode, Main, TypeOK,
              childVars, pipeVars
<1>3. ASSUME ModeReturns PROVE TypeOK'
  BY <1>3 DEF ModeReturns, Main, TypeOK, childVars, pipeVars
<1>4. ASSUME NEW n \in {-10, -11, -14}, ModeExits(n) PROVE TypeOK'
  BY <1>4, CleanUpType DEF ModeExits, Places, TypeOK, hostVars, childVars, pipeVars
<1>5. ASSUME detachTarget PROVE TypeOK'
  BY <1>5 DEF detachTarget, Main, TypeOK, childVars, pipeVars
<1>6. ASSUME EndOfMain PROVE TypeOK'
  BY <1>6, CleanUpType DEF EndOfMain, Places, TypeOK, hostVars, childVars, pipeVars
<1> QED BY <1>1, <1>2, <1>3, <1>4, <1>5, <1>6 DEF MainThread

LEMMA ActorsType == ASSUME TypeOK, NEW c \in Actors, CleanUp(c) PROVE TypeOK'
<1>1. ASSUME RaiseFlag(c) PROVE TypeOK'
  BY <1>1 DEF RaiseFlag, GoesTo, TypeOK, hostVars, cleanVars, childVars, pipeVars
<1>2. ASSUME WakeUp(c) PROVE TypeOK'
  <2>1. index' \in [Threads \union Processes -> Nat \ {0}]
    <3>1. index' = [index EXCEPT ![c] = 1] BY <1>2 DEF WakeUp
    <3>2. index \in [Threads \union Processes -> Nat \ {0}] BY DEF TypeOK
    <3>3. 1 \in Nat \ {0} OBVIOUS
    <3> QED BY <3>1, <3>2, <3>3, Zenon
  <2> QED BY <1>2, <2>1 DEF WakeUp, GoesTo, TypeOK, hostVars, childVars, pipeVars
<1>3. ASSUME KillNext(c) PROVE TypeOK'
  <2>1. index[c] + 1 \in Nat \ {0} BY DEF TypeOK, Actors
  <2> QED BY <1>3, <2>1 DEF KillNext, TypeOK, hostVars, pipeVars
<1>4. ASSUME Exit(c) PROVE TypeOK'
  <2>1. code[c] \in Int BY DEF TypeOK, Actors
  <2> QED BY <1>4, <2>1 DEF Exit, GoesTo, Ends, TypeOK, hostVars, cleanVars, pipeVars
<1> QED BY <1>1, <1>2, <1>3, <1>4 DEF CleanUp

(* The threads that start the children, and the children themselves.       *)
LEMMA ChildrenType ==
  ASSUME TypeOK, Starters \/ Children \/ ClientFails
  PROVE  TypeOK'
<1>1. ASSUME NEW p \in Processes, createSubProcess(p) PROVE TypeOK'
  BY <1>1 DEF createSubProcess, GoesTo, TypeOK, hostVars, cleanVars, pipeVars
<1>2. ASSUME NEW p \in Processes, addChildProzess(p) PROVE TypeOK'
  <2>1. childProzesses' \in [Processes \union {"host"} -> Seq(Processes)]
    <3>1. Append(childProzesses["host"], p) \in Seq(Processes) BY DEF TypeOK
    <3> QED BY <1>2, <3>1 DEF addChildProzess, TypeOK
  <2> QED
    BY <1>2, <2>1 DEF addChildProzess, GoesTo, TypeOK, hostVars, cleanVars, pipeVars
<1>3. ASSUME NEW p \in Processes, execv(p) PROVE TypeOK'
  BY <1>3 DEF execv, TypeOK, hostVars, cleanVars, pipeVars
<1>4. ASSUME ServerPathFails PROVE TypeOK'
  BY <1>4 DEF ServerPathFails, Happens, AllFaults, TypeOK, hostVars, cleanVars, pipeVars
<1>5. ASSUME ServerExecFails PROVE TypeOK'
  <2>1. /\ at' \in [Threads \union Processes -> Places]
        /\ code' \in [Threads \union Processes -> Int]
        /\ index' = index
    BY <1>5, CleanUpType DEF ServerExecFails
  <2>2. "serverExec" \in AllFaults BY DEF AllFaults
  <2> QED
    BY <1>5, <2>1, <2>2 DEF ServerExecFails, Happens, Places, TypeOK, hostVars, pipeVars
<1>6. ASSUME ClientExecFails PROVE TypeOK'
  <2>1. "undefined" \in BadLines /\ "clientExec" \in AllFaults BY DEF BadLines, AllFaults
  <2>2. fromGdb' \in Seq(BadLines) BY <1>6, <2>1 DEF ClientExecFails, TypeOK
  <2> QED
    BY <1>6, <2>1, <2>2 DEF ClientExecFails, Happens, GoesTo, TypeOK, hostVars, cleanVars
<1>7. ASSUME ClientRaisesFlag PROVE TypeOK'
  BY <1>7 DEF ClientRaisesFlag, GoesTo, TypeOK, hostVars, cleanVars, childVars, pipeVars
<1>8. ASSUME ClientGivesUp PROVE TypeOK'
  <2>1. "undefined" \in BadLines BY DEF BadLines
  <2>2. fromGdb' \in Seq(BadLines) BY <1>8, <2>1 DEF ClientGivesUp, TypeOK
  <2>3. childProzesses' \in [Processes \union {"host"} -> Seq(Processes)]
    BY <1>8, DeleteType DEF ClientGivesUp, TypeOK, Processes
  <2>4. /\ at' \in [Threads \union Processes -> Places]
        /\ code' \in [Threads \union Processes -> Int]
        /\ index' = index
    <3>1. cleanUpAndExit("gdb", -7) /\ -7 \in Int BY <1>8 DEF ClientGivesUp
    <3> QED BY <3>1, CleanUpType
  <2> QED BY <1>8, <2>2, <2>3, <2>4 DEF ClientGivesUp, Places, TypeOK, hostVars
<1> QED
  BY <1>1, <1>2, <1>3, <1>4, <1>5, <1>6, <1>7, <1>8 DEF Starters, Children, ClientFails

LEMMA PipesType == ASSUME TypeOK, Writes \/ Readers PROVE TypeOK'
<1>1. ASSUME NEW line \in BadLines, GdbWrites(line) PROVE TypeOK'
  BY <1>1 DEF GdbWrites, Happens, AllFaults, TypeOK, hostVars, cleanVars, childVars
<1>2. ASSUME GdbComplains PROVE TypeOK'
  BY <1>2 DEF GdbComplains, Happens, AllFaults, TypeOK, hostVars, cleanVars, childVars
<1>3. ASSUME ServerFails PROVE TypeOK'
  BY <1>3 DEF ServerFails, Happens, AllFaults, TypeOK, hostVars, cleanVars, childVars
<1>4. ASSUME ServerEnds PROVE TypeOK'
  BY <1>4 DEF ServerEnds, TypeOK, hostVars, cleanVars
<1>5. ASSUME analyseLine PROVE TypeOK'
  <2>1. /\ at' \in [Threads \union Processes -> Places]
        /\ code' \in [Threads \union Processes -> Int]
        /\ index' = index
    <3>1. CASE UNCHANGED <<at, code, index>> BY <3>1 DEF TypeOK, Places
    <3>2. CASE GoesTo("handleOut", "stuck") /\ UNCHANGED cleanVars
      BY <3>2 DEF GoesTo, TypeOK, Places, cleanVars
    <3>3. CASE \E n \in {-2, -4, -11} : cleanUpAndExit("handleOut", n)
      BY <3>3, CleanUpType
    <3> QED BY <1>5, <3>1, <3>2, <3>3 DEF analyseLine, cleanVars
  <2>2. fromGdb' \in Seq(BadLines) BY <1>5 DEF analyseLine, TypeOK
  <2>3. UNCHANGED <<hostVars, flag, childVars, detached, gdbError, fromServer, causes>>
    BY <1>5 DEF analyseLine
  <2> QED BY <2>1, <2>2, <2>3 DEF TypeOK, Places, hostVars, childVars
<1>6. ASSUME readError PROVE TypeOK'
  BY <1>6, CleanUpType DEF readError, Places, TypeOK, hostVars, childVars, pipeVars
<1>7. ASSUME handleServer PROVE TypeOK'
  BY <1>7, CleanUpType DEF handleServer, Places, TypeOK, hostVars, cleanVars, childVars
<1> QED BY <1>1, <1>2, <1>3, <1>4, <1>5, <1>6, <1>7 DEF Writes, Readers

(* Every variable keeps its type.                                          *)
THEOREM TypeCorrect == Spec => []TypeOK
<1>1. Init => TypeOK
  <2> SUFFICES ASSUME Init PROVE TypeOK OBVIOUS
  <2>1. at \in [Threads \union Processes -> Places] BY DEF Init, Places
  <2>2. childProzesses \in [Processes \union {"host"} -> Seq(Processes)] BY DEF Init
  <2>3. code \in [Threads \union Processes -> Int] BY DEF Init
  <2>4. index \in [Threads \union Processes -> Nat \ {0}] BY DEF Init
  <2>5. process \in [Processes -> {"none", "forked", "failed", "running", "dead"}]
    BY DEF Init
  <2>6. fromGdb \in Seq(BadLines) BY DEF Init
  <2>7. causes \subseteq AllFaults \union {"signal", "target"} BY DEF Init
  <2>8. /\ callServer \in BOOLEAN /\ flag \in BOOLEAN /\ detached \in BOOLEAN
        /\ gdbError \in BOOLEAN
        /\ phase = "options" /\ exitCode = 1 /\ signals = 0 /\ fromServer = "nothing"
    BY DEF Init, Alive
  <2> QED BY <2>1, <2>2, <2>3, <2>4, <2>5, <2>6, <2>7, <2>8 DEF TypeOK, Places
<1>2. TypeOK /\ [Next]_vars => TypeOK'
  <2> SUFFICES ASSUME TypeOK, [Next]_vars PROVE TypeOK' OBVIOUS
  <2>1. ASSUME Signal PROVE TypeOK'
    <3>1. CASE exitCode' = Crashed /\ UNCHANGED <<at, code>>
      BY <2>1, <3>1 DEF Signal, Crashed, TypeOK, childVars, pipeVars
    <3>2. CASE /\ at' = [at EXCEPT !["main"] = "modeFailed",
                                  !["alarm"] = IF @ = "off" THEN "flag" ELSE @]
               /\ code' = [code EXCEPT !["main"] = SIGINT, !["alarm"] = -12]
               /\ UNCHANGED exitCode
      <4>1. at' \in [Threads \union Processes -> Places]
        BY <3>2 DEF TypeOK, Places, Threads
      <4>2. code' \in [Threads \union Processes -> Int]
        <5>1. code \in [Threads \union Processes -> Int] BY DEF TypeOK
        <5>2. SIGINT \in Int /\ -12 \in Int BY DEF SIGINT
        <5> QED BY <3>2, <5>1, <5>2
      <4>3. /\ signals' \in Nat /\ causes' \subseteq AllFaults \union {"signal", "target"}
            /\ UNCHANGED <<callServer, phase, flag, index, childVars, detached, pipeVars>>
        BY <2>1 DEF Signal, TypeOK
      <4> QED BY <3>2, <4>1, <4>2, <4>3 DEF TypeOK, Places, childVars, pipeVars
    <3> QED BY <2>1, <3>1, <3>2 DEF Signal
  <2>2. ASSUME modeFailed PROVE TypeOK'
    BY <2>2 DEF modeFailed, GoesTo, TypeOK, hostVars, cleanVars, childVars, pipeVars
  <2>3. ASSUME UNCHANGED vars PROVE TypeOK'
    BY <2>3 DEF vars, TypeOK, hostVars, cleanVars, childVars, pipeVars
  <2> QED
    BY <2>1, <2>2, <2>3, MainThreadType, ChildrenType, PipesType, ActorsType
    DEF Next, Actors
<1> QED BY <1>1, <1>2, PTL DEF Spec
-----------------------------------------------------------------------------
(* No orphans.                                                             *)
(*                                                                         *)
(* A thread that kills goes through the list of the host, so what it must  *)
(* know is that the list is complete when it starts.  A process is in the  *)
(* list as soon as the thread that forked it is "over"; before that it may *)
(* run without being listed, and the sleep of cleanUpAndExit is there to   *)
(* wait for that (Prompt).                                                 *)

hostList == childProzesses["host"]
NotRunning == {"none", "dead"}

StarterInv ==
  /\ \A p \in Processes :
       /\ at[Starter(p)] \in {"off", "on", "forked", "over"}
       /\ at[Starter(p)] \in {"off", "on"} => process[p] \in NotRunning
       /\ at[Starter(p)] = "over" => \E i \in 1..Len(hostList) : hostList[i] = p
  /\ phase \in {"options", "memory", "chain"} =>
       \A p \in Processes : at[Starter(p)] = "off"
  /\ phase = "opened" => at["handleGDB"] = "off"

KillInv ==
  \A c \in Threads : at[c] = "kill" =>
    /\ Settled
    /\ \A i \in 1..Len(hostList) : i < index[c] => process[hostList[i]] = "dead"

OrphanInv == StarterInv /\ KillInv /\ NoOrphans

(* Most steps start no child and note none, and bring no thread closer to  *)
(* the end of its loop.                                                    *)
Quiet ==
  /\ \A p \in Processes :
       /\ process[p] \in NotRunning => process'[p] \in NotRunning
       /\ process[p] = "dead" => process'[p] = "dead"
       /\ at'[Starter(p)] = at[Starter(p)]
  /\ hostList' = hostList
  /\ \A c \in Threads : at'[c] = "kill" => at[c] = "kill" /\ index'[c] = index[c]
  /\ exitCode' \in {exitCode, Crashed}
  /\ phase' \in {"options", "memory", "chain"} => phase \in {"options", "memory", "chain"}
  /\ phase' = "opened" => phase = "opened"

LEMMA StarterType == \A p \in Processes : Starter(p) \in Threads
BY DEF Starter, Threads

LEMMA QuietKeeps == ASSUME TypeOK, OrphanInv, Quiet PROVE OrphanInv'
<1>1. StarterInv'
  BY DEF OrphanInv, StarterInv, Quiet, Starter, Processes
<1>2. Settled => Settled'
  BY DEF Settled, Quiet, Starter, Processes
<1>3. \A i \in 1..Len(hostList) : hostList[i] \in Processes
  BY DEF TypeOK, hostList
<1>4. KillInv'
  BY <1>2, <1>3 DEF OrphanInv, KillInv, Quiet
<1>5. NoOrphans'
  BY DEF OrphanInv, NoOrphans, Quiet, gone, NotRunning, Alive, Crashed
<1> QED BY <1>1, <1>4, <1>5 DEF OrphanInv

(* The steps of main and of signals are quiet, but for the two that let    *)
(* the starters go and the return from a command line that is refused.     *)
LEMMA MainIsQuiet ==
  ASSUME TypeOK, OrphanInv, MainThread
  PROVE  Quiet \/ (exitCode' = -5 /\ analyseArgv) \/ gdbInterface \/ open
<1>1. ASSUME phase = "options", analyseArgv PROVE Quiet \/ exitCode' = -5
  BY <1>1 DEF analyseArgv, Main, Ends, Quiet, hostList, childVars
<1>2. ASSUME sharedMemoryInit \/ BuildMode \/ ModeReturns \/ detachTarget PROVE Quiet
  BY <1>2 DEF sharedMemoryInit, BuildMode, ModeReturns, detachTarget, Main, Quiet, hostList,
              childVars
<1>3. ASSUME NEW n \in {-10, -11, -14}, ModeExits(n) PROVE Quiet
  BY <1>3 DEF ModeExits, cleanUpAndExit, GoesTo, Quiet, hostList, childVars, hostVars,
              Starter, TypeOK
<1>4. ASSUME EndOfMain PROVE Quiet
  BY <1>4 DEF EndOfMain, cleanUpAndExit, GoesTo, Quiet, hostList, childVars, hostVars,
              Starter, TypeOK
<1>5. analyseArgv => phase = "options" BY DEF analyseArgv, Main
<1> QED BY <1>1, <1>2, <1>3, <1>4, <1>5 DEF MainThread, StartUp

LEMMA SignalIsQuiet ==
  ASSUME TypeOK, OrphanInv, Signal \/ modeFailed
  PROVE  Quiet
<1>1. ASSUME Signal PROVE Quiet
  <2>1. /\ \A p \in Processes : at'[Starter(p)] = at[Starter(p)]
        /\ \A c \in Threads : at'[c] = "kill" => at[c] = "kill"
        /\ exitCode' \in {exitCode, Crashed}
    <3>1. CASE exitCode' = Crashed /\ at' = at BY <3>1
    <3>2. CASE /\ at' = [at EXCEPT !["main"] = "modeFailed",
                                  !["alarm"] = IF @ = "off" THEN "flag" ELSE @]
               /\ exitCode' = exitCode
      <4>1. at \in [Threads \union Processes -> Places] BY DEF TypeOK, Places
      <4>2. \A p \in Processes : Starter(p) \notin {"main", "alarm"} BY DEF Starter
      <4>3. \A p \in Processes : at'[Starter(p)] = at[Starter(p)]
        BY <3>2, <4>1, <4>2, StarterType
      <4>4. \A c \in Threads : at'[c] = "kill" => at[c] = "kill" BY <3>2, <4>1
      <4> QED BY <3>2, <4>3, <4>4
    <3> QED BY <1>1, <3>1, <3>2 DEF Signal
  <2>2. UNCHANGED <<phase, index, childVars>> BY <1>1 DEF Signal
  <2> QED BY <2>1, <2>2 DEF Quiet, hostList, childVars
<1>2. ASSUME modeFailed PROVE Quiet
  BY <1>2 DEF modeFailed, GoesTo, Quiet, hostList, childVars, hostVars, cleanVars, Starter,
              TypeOK
<1> QED BY <1>1, <1>2

LEMMA ChildrenAreQuiet ==
  ASSUME TypeOK, OrphanInv, Children \/ ClientFails
  PROVE  Quiet
<1>1. ASSUME NEW p \in Processes, execv(p) PROVE Quiet
  BY <1>1 DEF execv, Quiet, hostList, hostVars, cleanVars, TypeOK, NotRunning
<1>2. ASSUME ServerPathFails PROVE Quiet
  BY <1>2 DEF ServerPathFails, Quiet, hostList, hostVars, cleanVars, TypeOK, NotRunning
<1>3. ASSUME ServerExecFails PROVE Quiet
  BY <1>3 DEF ServerExecFails, cleanUpAndExit, GoesTo, Quiet, hostList, hostVars, TypeOK,
              NotRunning, Starter
<1>4. ASSUME ClientExecFails PROVE Quiet
  BY <1>4 DEF ClientExecFails, GoesTo, Quiet, hostList, hostVars, cleanVars, TypeOK,
              NotRunning, Starter
<1>5. ASSUME ClientRaisesFlag PROVE Quiet
  BY <1>5 DEF ClientRaisesFlag, GoesTo, Quiet, hostList, hostVars, cleanVars, childVars,
              TypeOK, Starter
<1>6. ASSUME ClientGivesUp PROVE Quiet
  BY <1>6 DEF ClientGivesUp, cleanUpAndExit, GoesTo, Quiet, hostList, hostVars, TypeOK,
              Starter, Processes
<1> QED BY <1>1, <1>2, <1>3, <1>4, <1>5, <1>6 DEF Children, ClientFails

LEMMA PipesAreQuiet ==
  ASSUME TypeOK, OrphanInv, Writes \/ Readers
  PROVE  Quiet
<1>1. ASSUME NEW line \in BadLines, GdbWrites(line) PROVE Quiet
  BY <1>1 DEF GdbWrites, Quiet, hostList, hostVars, cleanVars, childVars
<1>2. ASSUME GdbComplains \/ ServerFails PROVE Quiet
  BY <1>2 DEF GdbComplains, ServerFails, Quiet, hostList, hostVars, cleanVars, childVars
<1>3. ASSUME ServerEnds PROVE Quiet
  BY <1>3 DEF ServerEnds, Quiet, hostList, hostVars, cleanVars, TypeOK, NotRunning
<1>4. ASSUME analyseLine PROVE Quiet
  <2>1. /\ \/ at' = at
           \/ \E place \in {"flag", "stuck"} : at' = [at EXCEPT !["handleOut"] = place]
        /\ UNCHANGED <<index, hostVars, childVars>>
    BY <1>4 DEF analyseLine, cleanUpAndExit, GoesTo, cleanVars
  <2>2. \A p \in Processes : at'[Starter(p)] = at[Starter(p)]
    BY <2>1 DEF TypeOK, Starter, Processes, Threads
  <2>3. \A c \in Threads : at'[c] = "kill" => at[c] = "kill"
    BY <2>1 DEF TypeOK
  <2> QED BY <2>1, <2>2, <2>3 DEF Quiet, hostList, hostVars, childVars
<1>5. ASSUME readError PROVE Quiet
  BY <1>5 DEF readError, cleanUpAndExit, GoesTo, Quiet, hostList, hostVars, childVars,
              TypeOK, Starter
<1>6. ASSUME handleServer PROVE Quiet
  <2>1. /\ at' = at \/ at' = [at EXCEPT !["handleServer"] = "flag"]
        /\ UNCHANGED <<index, hostVars, childVars>>
    BY <1>6 DEF handleServer, cleanUpAndExit, GoesTo, cleanVars
  <2>2. \A p \in Processes : at'[Starter(p)] = at[Starter(p)]
    BY <2>1 DEF TypeOK, Starter, Processes, Threads
  <2>3. \A c \in Threads : at'[c] = "kill" => at[c] = "kill"
    BY <2>1 DEF TypeOK
  <2> QED BY <2>1, <2>2, <2>3 DEF Quiet, hostList, hostVars, childVars
<1> QED BY <1>1, <1>2, <1>3, <1>4, <1>5, <1>6 DEF Writes, Readers

(* The other steps, one by one. *)
LEMMA StartersKeep ==
  ASSUME TypeOK, OrphanInv, gdbInterface \/ open
  PROVE  OrphanInv'
<1>1. /\ ~Settled /\ phase \in {"chain", "opened"} /\ phase' \in {"opened", "built"}
      /\ UNCHANGED <<index, childVars, exitCode>> /\ ~gone
  BY DEF gdbInterface, open, Main, Settled
<1>2. \A c \in Threads : at[c] # "kill" BY <1>1 DEF OrphanInv, KillInv
<1>3. \A c \in Threads : at'[c] # "kill"
  BY <1>2 DEF gdbInterface, open, TypeOK, Threads
<1>4. \A p \in Processes :
        \/ at'[Starter(p)] = at[Starter(p)]
        \/ at[Starter(p)] = "off" /\ at'[Starter(p)] \in {"off", "on"}
  <2>1. CASE gdbInterface
    BY <2>1, StarterType
    DEF gdbInterface, Main, TypeOK, Starter, Processes, Threads, OrphanInv, StarterInv
  <2>2. CASE open
    <3>1. at'["callGdbServer"] = at["callGdbServer"] /\ at'["handleGDB"] = "on"
      BY <2>2 DEF open, TypeOK, Threads
    <3>2. at["handleGDB"] = "off" BY <2>2 DEF open, Main, OrphanInv, StarterInv
    <3> QED BY <3>1, <3>2 DEF Starter, Processes
  <2> QED BY <2>1, <2>2
<1>5. phase' # "opened" \/ at'["handleGDB"] = "off"
  BY <1>1, <1>4 DEF gdbInterface, open, Main, OrphanInv, StarterInv, Starter, TypeOK,
                    Threads, Processes
<1>6. StarterInv' BY <1>1, <1>4, <1>5 DEF OrphanInv, StarterInv, hostList, childVars
<1>7. KillInv' BY <1>3 DEF KillInv
<1>8. NoOrphans' BY <1>1 DEF NoOrphans, gone
<1> QED BY <1>6, <1>7, <1>8 DEF OrphanInv

LEMMA ForkKeeps ==
  ASSUME TypeOK, OrphanInv, NEW p \in Processes, createSubProcess(p) \/ addChildProzess(p)
  PROVE  OrphanInv'
<1>1. at[Starter(p)] \in {"on", "forked"} /\ ~gone /\ ~gone' /\ phase' = phase
  BY DEF createSubProcess, addChildProzess, hostVars, gone
<1>2. \A c \in Threads : at[c] # "kill"
  BY <1>1 DEF OrphanInv, KillInv, Settled, Starter, Processes
<1>3. KillInv'
  BY <1>2 DEF KillInv, createSubProcess, addChildProzess, GoesTo, TypeOK
<1>4. NoOrphans' BY <1>1 DEF NoOrphans
<1>5. /\ phase \notin {"options", "memory", "chain"}
      /\ phase = "opened" => at'["handleGDB"] = "off"
  <2>1. phase \notin {"options", "memory", "chain"} BY <1>1 DEF OrphanInv, StarterInv
  <2>2. phase = "opened" => at["handleGDB"] = "off" /\ Starter(p) # "handleGDB"
    BY <1>1 DEF OrphanInv, StarterInv
  <2>3. \E place \in Places : at' = [at EXCEPT ![Starter(p)] = place]
    BY DEF createSubProcess, addChildProzess, GoesTo, Places
  <2>4. at \in [Threads \union Processes -> Places] /\ "handleGDB" \in Threads
    BY DEF TypeOK, Places, Threads
  <2> QED BY <2>1, <2>2, <2>3, <2>4
<1>6. CASE createSubProcess(p)
  <2>1. \A q \in Processes :
          /\ q # p => at'[Starter(q)] = at[Starter(q)] /\ process'[q] = process[q]
          /\ at'[Starter(p)] = "forked"
    BY <1>6 DEF createSubProcess, GoesTo, TypeOK, Starter, Processes, Threads
  <2>2. hostList' = hostList
    BY <1>6 DEF createSubProcess, hostList, TypeOK, Processes
  <2> QED BY <1>1, <1>3, <1>4, <1>5, <2>1, <2>2 DEF OrphanInv, StarterInv
<1>7. CASE addChildProzess(p)
  <2>1. \A q \in Processes :
          /\ q # p => at'[Starter(q)] = at[Starter(q)]
          /\ at'[Starter(p)] = "over" /\ process' = process
    BY <1>7 DEF addChildProzess, GoesTo, TypeOK, Starter, Processes, Threads
  <2>2. hostList \in Seq(Processes) /\ hostList' = Append(hostList, p)
    BY <1>7 DEF addChildProzess, hostList, TypeOK
  <2>3. hostList'[Len(hostList')] = p /\ Len(hostList') \in 1..Len(hostList')
    BY <2>2
  <2>4. \A i \in 1..Len(hostList) : i \in 1..Len(hostList') /\ hostList'[i] = hostList[i]
    BY <2>2
  <2> QED BY <1>1, <1>3, <1>4, <1>5, <2>1, <2>3, <2>4 DEF OrphanInv, StarterInv
<1> QED BY <1>6, <1>7

LEMMA CleanUpKeeps ==
  ASSUME Prompt, TypeOK, OrphanInv, NEW c \in Actors, CleanUp(c)
  PROVE  OrphanInv'
<1>1. CASE RaiseFlag(c)
  <2>1. Quiet
    <3>1. /\ at[c] = "flag" /\ at' = [at EXCEPT ![c] = "sleep"]
          /\ UNCHANGED <<hostVars, cleanVars, childVars>>
      BY <1>1 DEF RaiseFlag, GoesTo
    <3>2. \A p \in Processes : at'[Starter(p)] = at[Starter(p)]
      BY <3>1, StarterType DEF OrphanInv, StarterInv, TypeOK
    <3>3. \A d \in Threads : at'[d] = "kill" => at[d] = "kill"
      BY <3>1 DEF TypeOK
    <3> QED BY <3>1, <3>2, <3>3 DEF Quiet, hostList, hostVars, cleanVars, childVars
  <2> QED BY <2>1, QuietKeeps
<1>2. CASE WakeUp(c)
  <2>1. /\ Settled /\ at' = [at EXCEPT ![c] = "kill"] /\ index' = [index EXCEPT ![c] = 1]
        /\ UNCHANGED <<hostVars, childVars>> /\ at[c] = "sleep"
    BY <1>2 DEF WakeUp, GoesTo
  <2>2. \A p \in Processes : at'[Starter(p)] = at[Starter(p)]
    BY <2>1, StarterType DEF OrphanInv, StarterInv, TypeOK
  <2>3. Settled' BY <2>1, <2>2 DEF Settled, hostVars, Starter, Processes
  <2>4. index'[c] = 1 BY <2>1 DEF TypeOK, Actors
  <2>5. \A d \in Threads : d # c => at'[d] = at[d] /\ index'[d] = index[d]
    BY <2>1 DEF TypeOK
  <2>6. KillInv'
    BY <2>1, <2>3, <2>4, <2>5 DEF OrphanInv, KillInv, hostList, childVars
  <2> QED
    BY <2>1, <2>2, <2>6 DEF OrphanInv, StarterInv, NoOrphans, gone, hostList, hostVars,
       childVars
<1>3. CASE KillNext(c)
  <2>1. /\ UNCHANGED <<hostVars, at, childProzesses>> /\ at[c] = "kill"
        /\ index' = [index EXCEPT ![c] = index[c] + 1]
        /\ index[c] <= Len(childProzesses[TheHost(c)])
    BY <1>3 DEF KillNext
  <2>2. /\ index[c] \in Nat \ {0} /\ index'[c] = index[c] + 1
        /\ \A d \in Threads : d # c => index'[d] = index[d]
    BY <2>1 DEF TypeOK, Actors
  <2>3. \A q \in Processes : process'[q] = process[q] \/ process'[q] = "dead"
    BY <1>3 DEF KillNext, TypeOK
  <2>4. /\ hostList \in Seq(Processes) /\ hostList' = hostList
        /\ \A i \in 1..Len(hostList) : hostList[i] \in Processes
    BY <2>1 DEF TypeOK, hostList
  <2>5. c \in Threads =>
          index[c] \in 1..Len(hostList) /\ process'[hostList[index[c]]] = "dead"
    <3>1. c \in Threads => TheHost(c) = "host" BY DEF TheHost, Threads, Processes
    <3>2. c \in Threads => index[c] \in 1..Len(hostList)
      BY <2>1, <2>2, <2>4, <3>1 DEF hostList
    <3> QED BY <1>3, <2>4, <3>1, <3>2 DEF KillNext, TypeOK, hostList
  <2>6. Settled => Settled' BY <2>1 DEF Settled, hostVars
  <2>7. KillInv'
    <3> SUFFICES ASSUME NEW d \in Threads, at'[d] = "kill", NEW i \in 1..Len(hostList),
                        i < index'[d]
                 PROVE  Settled' /\ process'[hostList[i]] = "dead"
      BY <2>1, <2>4, <2>6 DEF KillInv, OrphanInv
    <3>1. Settled'
      <4>1. at[d] = "kill" BY <2>1
      <4>2. Settled BY <4>1 DEF OrphanInv, KillInv
      <4> QED BY <2>6, <4>2
    <3>2. CASE i < index[d]
      <4>1. at[d] = "kill" BY <2>1
      <4>2. process[hostList[i]] = "dead" BY <3>2, <4>1 DEF OrphanInv, KillInv
      <4> QED BY <2>3, <2>4, <3>1, <4>2
    <3>3. CASE ~(i < index[d])
      <4>1. d = c /\ i = index[c] BY <2>2, <3>3
      <4> QED BY <2>5, <3>1, <4>1
    <3> QED BY <3>1, <3>2, <3>3
  <2> QED
    BY <2>1, <2>3, <2>4, <2>7 DEF OrphanInv, StarterInv, NoOrphans, gone, hostVars,
                                  NotRunning
<1>4. CASE Exit(c) /\ c \in Processes
  <2>1. Quiet
    BY <1>4 DEF Exit, GoesTo, Quiet, hostList, hostVars, cleanVars, TypeOK, NotRunning,
       OrphanInv, StarterInv, Processes, Starter
  <2> QED BY <2>1, QuietKeeps
<1>5. CASE Exit(c) /\ c \in Threads
  <2>1. /\ at[c] = "kill" /\ at' = [at EXCEPT ![c] = "over"] /\ TheHost(c) = "host"
        /\ index[c] > Len(hostList) /\ UNCHANGED <<phase, childVars, index>>
    BY <1>5 DEF Exit, GoesTo, Ends, TheHost, Threads, Processes, hostList, cleanVars,
       childVars
  <2>2. hostList \in Seq(Processes) /\ index[c] \in Nat /\ hostList' = hostList
    BY <1>5, <2>1 DEF TypeOK, hostList, childVars
  <2>3. \A i \in 1..Len(hostList) : process[hostList[i]] = "dead"
    BY <1>5, <2>1, <2>2 DEF OrphanInv, KillInv
  <2>4. \A p \in Processes : at[Starter(p)] \in {"off", "over"}
    BY <1>5, <2>1 DEF OrphanInv, KillInv, Settled, Starter, Processes
  <2>5. \A p \in Processes : process[p] \in NotRunning
    BY <2>3, <2>4 DEF OrphanInv, StarterInv, NotRunning
  <2>6. \A p \in Processes : at'[Starter(p)] = at[Starter(p)]
    BY <2>1, <2>4, StarterInv DEF OrphanInv, StarterInv, TypeOK
  <2>7. Settled' BY <1>5, <2>1, <2>6 DEF OrphanInv, KillInv, Settled, Starter, Processes
  <2>8. KillInv'
    BY <2>1, <2>2, <2>7 DEF OrphanInv, KillInv, TypeOK, childVars
  <2>9. NoOrphans' BY <2>1, <2>5 DEF NoOrphans, NotRunning, childVars
  <2> QED BY <2>1, <2>2, <2>6, <2>8, <2>9 DEF OrphanInv, StarterInv, childVars
<1> QED BY <1>1, <1>2, <1>3, <1>4, <1>5 DEF CleanUp, Actors

(* However the host ends through exit, it leaves no child behind.          *)
THEOREM NoOrphansLeft == ASSUME Prompt PROVE Spec => []NoOrphans
<1>1. Init => OrphanInv
  <2> SUFFICES ASSUME Init PROVE OrphanInv OBVIOUS
  <2>1. /\ \A c \in Threads : at[c] # "kill"
        /\ \A p \in Processes : at[Starter(p)] = "off" /\ process[p] = "none"
        /\ exitCode = Alive /\ at["handleGDB"] = "off"
    BY DEF Init, Threads, Starter, Processes
  <2> QED BY <2>1 DEF OrphanInv, StarterInv, KillInv, NoOrphans, gone, NotRunning
<1>2. TypeOK /\ OrphanInv /\ [Next]_vars => OrphanInv'
  <2> SUFFICES ASSUME TypeOK, OrphanInv, [Next]_vars PROVE OrphanInv' OBVIOUS
  <2>1. CASE MainThread
    <3>1. CASE exitCode' = -5 /\ analyseArgv
      <4>1. phase = "options" /\ UNCHANGED <<phase, at, index, childVars>>
        BY <3>1 DEF analyseArgv, Main, Ends, cleanVars, gone, Alive
      <4>2. \A p \in Processes : process[p] \in NotRunning
        BY <4>1 DEF OrphanInv, StarterInv
      <4> QED
        BY <4>1, <4>2 DEF OrphanInv, StarterInv, KillInv, NoOrphans, Settled, hostList,
           childVars, NotRunning
    <3> QED BY <2>1, <3>1, MainIsQuiet, QuietKeeps, StartersKeep
  <2>2. CASE Signal \/ modeFailed BY <2>2, SignalIsQuiet, QuietKeeps
  <2>3. CASE Starters BY <2>3, ForkKeeps DEF Starters
  <2>4. CASE Children \/ ClientFails BY <2>4, ChildrenAreQuiet, QuietKeeps
  <2>5. CASE Writes \/ Readers BY <2>5, PipesAreQuiet, QuietKeeps
  <2>6. CASE \E c \in Actors : CleanUp(c) BY <2>6, CleanUpKeeps
  <2>7. CASE UNCHANGED vars
    BY <2>7 DEF vars, hostVars, cleanVars, childVars, OrphanInv, StarterInv, KillInv,
       NoOrphans, Settled, hostList, gone
  <2> QED BY <2>1, <2>2, <2>3, <2>4, <2>5, <2>6, <2>7 DEF Next, Actors
<1> QED BY <1>1, <1>2, TypeCorrect, PTL DEF Spec, OrphanInv
-----------------------------------------------------------------------------
(* The host's own shutdown.                                                *)
(*                                                                         *)
(* Nothing ends the server but the end of gdb and the end of the           *)
(* connection, and the flag is up before either, except where the target   *)
(* asks for it.  The flag is lowered once, before anything has happened.   *)

Blamed == "serverFailure" \in causes \/ "target" \in causes

Untouched ==
  /\ \A c \in Actors : at[c] = IF c = "main" THEN "on" ELSE "off"
  /\ \A p \in Processes : process[p] = "none"
  /\ ~detached /\ fromServer = "nothing" /\ exitCode # -3

BlameInv ==
  /\ phase \in {"options", "memory"} => Untouched
  /\ \A c \in Actors : at[c] \in {"sleep", "kill"} => flag
  /\ process["gdb"] = "dead" => flag
  /\ phase \in {"silent", "detached"} => flag
  /\ detached => flag \/ "target" \in causes
  /\ fromServer = "failure" => "serverFailure" \in causes
  /\ fromServer = "shutDown" => flag \/ "target" \in causes
  /\ \A c \in Threads : code[c] = -3 => Blamed
  /\ OwnShutdownNotBlamed

(* A step that leaves the server, the flag and the reasons to exit alone.  *)
Harmless ==
  /\ \A c \in Actors : at'[c] \in {"sleep", "kill"} => flag' \/ at[c] \in {"sleep", "kill"}
  /\ process'["gdb"] = "dead" => flag' \/ process["gdb"] = "dead"
  /\ phase' \in {"silent", "detached"} => flag' \/ phase \in {"silent", "detached"}
  /\ detached' => detached \/ flag' \/ "target" \in causes'
  /\ fromServer' \in {"nothing", fromServer}
  /\ \A c \in Threads : code'[c] \in {code[c], SIGINT, 0, -1, -2, -4, -10, -11, -12, -13, -14}
  /\ exitCode' \in {exitCode, Crashed, -5}
  /\ flag => flag'
  /\ causes \subseteq causes'

LEMMA HarmlessKeeps ==
  ASSUME TypeOK, BlameInv, Harmless, phase' \in {"options", "memory"} => Untouched'
  PROVE  BlameInv'
<1>1. Blamed => Blamed' BY DEF Blamed, Harmless
<1>2. OwnShutdownNotBlamed'
  BY <1>1 DEF OwnShutdownNotBlamed, Blamed, BlameInv, Harmless, Crashed
<1>3. \A c \in Threads : code'[c] = -3 => Blamed'
  BY <1>1 DEF BlameInv, Harmless, SIGINT
<1>4. \A c \in Actors : at'[c] \in {"sleep", "kill"} => flag'
  BY DEF BlameInv, Harmless
<1> QED BY <1>2, <1>3, <1>4 DEF BlameInv, Harmless

(* Before the flag is lowered there is nobody but main, and signals.       *)
LEMMA UntouchedKeeps ==
  ASSUME TypeOK, BlameInv, [Next]_vars, phase' \in {"options", "memory"}
  PROVE  Untouched'
<1>1. ASSUME phase \in {"options", "memory"}, UNCHANGED <<at, process, detached, fromServer>>,
             exitCode' # -3
      PROVE  Untouched'
  BY <1>1 DEF BlameInv, Untouched
<1>2. ASSUME phase \in {"options", "memory"}
      PROVE  /\ \A c \in Actors : ~CleanUp(c)
             /\ ~modeFailed /\ ~Starters /\ ~Children /\ ~ClientFails /\ ~Writes
             /\ ~Readers
  <2>1. Untouched BY <1>2 DEF BlameInv
  <2>2. \A c \in Actors : ~CleanUp(c)
    BY <2>1 DEF Untouched, CleanUp, RaiseFlag, WakeUp, KillNext, Exit
  <2>3. /\ at["main"] = "on" /\ at["handleError"] = "off" /\ at["handleOut"] = "off"
        /\ at["handleServer"] = "off" /\ \A p \in Processes : at[Starter(p)] = "off"
    BY <2>1 DEF Untouched, Actors, Threads, Starter
  <2>4. ~modeFailed /\ ~Readers /\ ~Starters
    BY <2>3 DEF modeFailed, Readers, analyseLine, readError, handleServer, Starters,
       createSubProcess, addChildProzess
  <2>5. ~Children /\ ~ClientFails /\ ~Writes
    BY <2>1 DEF Untouched, Children, execv, ServerPathFails, ServerExecFails,
       ClientExecFails, ClientFails, ClientRaisesFlag, ClientGivesUp, Writes, GdbWrites,
       GdbComplains, ServerFails, ServerEnds, Processes
  <2> QED BY <2>2, <2>4, <2>5
<1>3. phase \in {"options", "memory"}
  <2>1. CASE MainThread \/ Signal \/ modeFailed
    BY <2>1 DEF MainThread, analyseArgv, StartUp, sharedMemoryInit, gdbInterface, open,
       BuildMode, ModeReturns, ModeExits, detachTarget, EndOfMain, Main, Signal, modeFailed,
       hostVars, Ends
  <2>2. CASE Starters \/ Children \/ ClientFails
    BY <2>2 DEF Starters, createSubProcess, addChildProzess, Children, execv,
       ServerPathFails, ServerExecFails, ClientExecFails, ClientFails, ClientRaisesFlag,
       ClientGivesUp, hostVars
  <2>3. CASE Writes \/ Readers
    BY <2>3 DEF Writes, GdbWrites, GdbComplains, ServerFails, ServerEnds, Readers,
       analyseLine, readError, handleServer, hostVars
  <2>4. CASE \E c \in Actors : CleanUp(c)
    BY <2>4 DEF CleanUp, RaiseFlag, WakeUp, KillNext, Exit, Ends, hostVars
  <2>5. CASE UNCHANGED vars BY <2>5 DEF vars, hostVars
  <2> QED BY <2>1, <2>2, <2>3, <2>4, <2>5 DEF Next, Actors
<1>4. CASE MainThread
  <2>1. ASSUME analyseArgv PROVE Untouched'
    BY <1>1, <1>3, <2>1 DEF analyseArgv, Main, Ends, childVars, pipeVars, BlameInv, Untouched
  <2>2. ~StartUp /\ ~ModeReturns /\ ~detachTarget /\ ~EndOfMain
    BY <1>3 DEF StartUp, sharedMemoryInit, gdbInterface, open, BuildMode, ModeReturns,
       detachTarget, EndOfMain, Main
  <2>3. \A n \in {-10, -11, -14} : ~ModeExits(n) BY <1>3 DEF ModeExits
  <2> QED BY <1>4, <2>1, <2>2, <2>3 DEF MainThread
<1>5. CASE Signal
  BY <1>1, <1>3, <1>5 DEF Signal, Crashed, childVars, pipeVars
<1>6. CASE UNCHANGED vars
  BY <1>1, <1>3, <1>6 DEF vars, hostVars, childVars, pipeVars, BlameInv, Untouched
<1> QED BY <1>2, <1>3, <1>4, <1>5, <1>6 DEF Next, Actors

(* Who leaves things alone ... *)
LEMMA MainIsHarmless ==
  ASSUME TypeOK, BlameInv, MainThread \/ Signal \/ modeFailed, ~sharedMemoryInit
  PROVE  Harmless
<1>1. ASSUME analyseArgv PROVE Harmless
  BY <1>1 DEF analyseArgv, Main, Ends, Harmless, childVars, pipeVars, cleanVars
<1>2. ASSUME gdbInterface \/ open PROVE Harmless
  <2>1. \A c \in Actors : at'[c] \in {"on", "off", at[c]}
    BY <1>2 DEF gdbInterface, open, TypeOK, Actors
  <2> QED BY <1>2, <2>1 DEF gdbInterface, open, Main, Harmless, childVars, pipeVars
<1>3. ASSUME BuildMode \/ ModeReturns \/ detachTarget PROVE Harmless
  <2>1. CASE BuildMode BY <2>1 DEF BuildMode, Main, Harmless, childVars, pipeVars
  <2>2. CASE ModeReturns
    <3>1. flag => flag' BY <2>2 DEF ModeReturns, TypeOK
    <3> QED BY <2>2, <3>1 DEF ModeReturns, Main, Harmless, childVars, pipeVars
  <2>3. CASE detachTarget
    BY <2>3 DEF detachTarget, Main, Harmless, childVars, pipeVars, BlameInv
  <2> QED BY <1>3, <2>1, <2>2, <2>3
<1>4. ASSUME NEW n \in {-10, -11, -14}, ModeExits(n) PROVE Harmless
  BY <1>4 DEF ModeExits, cleanUpAndExit, GoesTo, Harmless, hostVars, childVars, pipeVars,
     TypeOK, Actors
<1>5. ASSUME EndOfMain PROVE Harmless
  BY <1>5 DEF EndOfMain, cleanUpAndExit, GoesTo, Harmless, hostVars, childVars, pipeVars,
     TypeOK, Actors
<1>6. ASSUME Signal PROVE Harmless
  <2>1. /\ \A c \in Actors : at'[c] \in {"modeFailed", "flag", at[c]}
        /\ \A c \in Threads : code'[c] \in {code[c], SIGINT, -12}
        /\ exitCode' \in {exitCode, Crashed}
    <3>1. CASE exitCode' = Crashed /\ at' = at /\ code' = code BY <3>1
    <3>2. CASE /\ at' = [at EXCEPT !["main"] = "modeFailed",
                                  !["alarm"] = IF @ = "off" THEN "flag" ELSE @]
               /\ code' = [code EXCEPT !["main"] = SIGINT, !["alarm"] = -12]
               /\ exitCode' = exitCode
      <4>1. at \in [Actors -> Places] /\ code \in [Actors -> Int]
        BY DEF TypeOK, Places, Actors
      <4>2. Threads \subseteq Actors BY DEF Actors
      <4> QED BY <3>2, <4>1, <4>2
    <3> QED BY <1>6, <3>1, <3>2 DEF Signal
  <2>2. /\ UNCHANGED <<phase, flag, process, detached, fromServer>>
        /\ causes \subseteq causes'
    BY <1>6 DEF Signal, childVars, pipeVars
  <2> QED BY <2>1, <2>2 DEF Harmless
<1>7. ASSUME modeFailed PROVE Harmless
  BY <1>7 DEF modeFailed, GoesTo, Harmless, hostVars, cleanVars, childVars, pipeVars,
     TypeOK, Actors
<1> QED BY <1>1, <1>2, <1>3, <1>4, <1>5, <1>6, <1>7 DEF MainThread, StartUp

LEMMA ChildrenAreHarmless ==
  ASSUME TypeOK, BlameInv, Starters \/ Children \/ ClientFails
  PROVE  Harmless
<1>1. ASSUME NEW p \in Processes, createSubProcess(p) \/ addChildProzess(p) PROVE Harmless
  <2>1. /\ UNCHANGED <<hostVars, flag, cleanVars, detached, pipeVars, causes>>
        /\ process' = process \/ process' = [process EXCEPT ![p] = "forked"]
        /\ \E place \in {"forked", "over"} : at' = [at EXCEPT ![Starter(p)] = place]
    BY <1>1 DEF createSubProcess, addChildProzess, GoesTo
  <2>2. \A c \in Actors : at'[c] \in {"forked", "over", at[c]}
    BY <2>1 DEF TypeOK, Actors
  <2>3. process'["gdb"] \in {"forked", process["gdb"]} BY <2>1 DEF TypeOK, Processes
  <2> QED BY <2>1, <2>2, <2>3 DEF Harmless, hostVars, cleanVars, pipeVars
<1>2. ASSUME NEW p \in Processes, execv(p) PROVE Harmless
  BY <1>2 DEF execv, Harmless, hostVars, cleanVars, pipeVars, TypeOK
<1>3. ASSUME ServerPathFails PROVE Harmless
  BY <1>3 DEF ServerPathFails, Happens, Harmless, hostVars, cleanVars, pipeVars, TypeOK
<1>4. ASSUME ServerExecFails PROVE Harmless
  BY <1>4 DEF ServerExecFails, Happens, cleanUpAndExit, GoesTo, Harmless, hostVars,
     pipeVars, TypeOK, Actors, Threads, Processes
<1>5. ASSUME ClientExecFails PROVE Harmless
  BY <1>5 DEF ClientExecFails, Happens, GoesTo, Harmless, hostVars, cleanVars, TypeOK,
     Actors
<1>6. ASSUME ClientRaisesFlag PROVE Harmless
  BY <1>6 DEF ClientRaisesFlag, GoesTo, Harmless, hostVars, cleanVars, childVars, pipeVars,
     TypeOK, Actors
<1>7. ASSUME ClientGivesUp PROVE Harmless
  BY <1>7 DEF ClientGivesUp, cleanUpAndExit, GoesTo, Harmless, hostVars, TypeOK, Actors,
     Threads
<1> QED BY <1>1, <1>2, <1>3, <1>4, <1>5, <1>6, <1>7 DEF Starters, Children, ClientFails

LEMMA PipesAreHarmless ==
  ASSUME TypeOK, BlameInv, Writes \/ analyseLine \/ readError, ~ServerFails, ~ServerEnds
  PROVE  Harmless
<1>1. ASSUME NEW line \in BadLines, GdbWrites(line) PROVE Harmless
  BY <1>1 DEF GdbWrites, Happens, Harmless, hostVars, cleanVars, childVars
<1>2. ASSUME GdbComplains PROVE Harmless
  BY <1>2 DEF GdbComplains, Happens, Harmless, hostVars, cleanVars, childVars
<1>3. ASSUME analyseLine PROVE Harmless
  <2>1. /\ \/ at' = at
           \/ \E place \in {"flag", "stuck"} : at' = [at EXCEPT !["handleOut"] = place]
        /\ code' = code \/ \E n \in {-2, -4, -11} : code' = [code EXCEPT !["handleOut"] = n]
        /\ UNCHANGED <<hostVars, flag, childVars, detached, fromServer, causes>>
    BY <1>3 DEF analyseLine, cleanUpAndExit, GoesTo, cleanVars
  <2>2. \A c \in Actors : at'[c] \in {"flag", "stuck", at[c]}
    BY <2>1 DEF TypeOK, Actors
  <2>3. \A c \in Threads : code'[c] \in {code[c], -2, -4, -11}
    BY <2>1 DEF TypeOK
  <2> QED BY <2>1, <2>2, <2>3 DEF Harmless, hostVars, childVars
<1>4. ASSUME readError PROVE Harmless
  BY <1>4 DEF readError, cleanUpAndExit, GoesTo, Harmless, hostVars, childVars, pipeVars,
     TypeOK, Actors
<1> QED BY <1>1, <1>2, <1>3, <1>4 DEF Writes

LEMMA CleanUpIsHarmless ==
  ASSUME TypeOK, BlameInv, NEW c \in Actors, CleanUp(c), ~(Exit(c) /\ c \in Threads)
  PROVE  Harmless
<1>1. CASE RaiseFlag(c)
  BY <1>1 DEF RaiseFlag, GoesTo, Harmless, hostVars, cleanVars, childVars, pipeVars, TypeOK
<1>2. CASE WakeUp(c)
  BY <1>2 DEF WakeUp, GoesTo, Harmless, hostVars, childVars, pipeVars, TypeOK, Actors
<1>3. CASE KillNext(c)
  <2>1. flag /\ flag' BY <1>3 DEF KillNext, BlameInv
  <2> QED BY <1>3, <2>1 DEF KillNext, Harmless, hostVars, pipeVars
<1>4. CASE Exit(c) /\ c \in Processes
  <2>1. flag /\ flag' BY <1>4 DEF Exit, BlameInv
  <2> QED BY <1>4, <2>1 DEF Exit, Harmless, hostVars, cleanVars, pipeVars
<1> QED BY <1>1, <1>2, <1>3, <1>4 DEF CleanUp, Actors

(* ... and what the other steps do. *)
LEMMA ServerKeeps ==
  ASSUME TypeOK, BlameInv, ServerFails \/ ServerEnds \/ handleServer,
         phase' \in {"options", "memory"} => Untouched'
  PROVE  BlameInv'
<1>1. CASE ServerFails
  BY <1>1 DEF ServerFails, Happens, BlameInv, Blamed, OwnShutdownNotBlamed, hostVars,
     cleanVars, childVars
<1>2. CASE ServerEnds
  <2>1. flag \/ "target" \in causes BY <1>2 DEF ServerEnds, BlameInv
  <2> QED
    BY <1>2, <2>1 DEF ServerEnds, BlameInv, Blamed, OwnShutdownNotBlamed, hostVars, cleanVars,
       TypeOK
<1>3. CASE handleServer
  <2>1. /\ fromServer' = "nothing"
        /\ UNCHANGED <<hostVars, flag, childVars, detached, causes>>
        /\ \/ UNCHANGED <<at, code>>
           \/ /\ at' = [at EXCEPT !["handleServer"] = "flag"]
              /\ code' = [code EXCEPT !["handleServer"] = -3]
              /\ fromServer = "failure" \/ (fromServer # "nothing" /\ ~flag)
    BY <1>3 DEF handleServer, cleanUpAndExit, GoesTo, cleanVars
  <2>2. \A c \in Actors : at'[c] \in {"sleep", "kill"} => flag'
    BY <2>1 DEF BlameInv, TypeOK, Actors
  <2>3. UNCHANGED code \/ Blamed BY <2>1 DEF BlameInv, TypeOK, Blamed
  <2>4. \A c \in Threads : code'[c] = -3 => Blamed'
    BY <2>1, <2>3 DEF BlameInv, Blamed
  <2> QED
    BY <2>1, <2>2, <2>4 DEF BlameInv, OwnShutdownNotBlamed, hostVars, childVars
<1> QED BY <1>1, <1>2, <1>3

LEMMA HostExitKeeps ==
  ASSUME TypeOK, BlameInv, NEW c \in Threads, Exit(c),
         phase' \in {"options", "memory"} => Untouched'
  PROVE  BlameInv'
<1>1. /\ exitCode' = code[c] /\ at' = [at EXCEPT ![c] = "over"]
      /\ UNCHANGED <<phase, code, flag, process, detached, fromServer, causes>>
  BY DEF Exit, GoesTo, Ends, cleanVars, pipeVars, Threads, Processes
<1>2. OwnShutdownNotBlamed'
  BY <1>1 DEF BlameInv, Blamed, OwnShutdownNotBlamed
<1>3. \A d \in Actors : at'[d] \in {"sleep", "kill"} => flag'
  BY <1>1 DEF BlameInv, TypeOK, Actors
<1> QED BY <1>1, <1>2, <1>3 DEF BlameInv, Blamed

LEMMA LoweringKeeps ==
  ASSUME TypeOK, BlameInv, sharedMemoryInit
  PROVE  BlameInv'
<1>1. Untouched BY DEF sharedMemoryInit, Main, BlameInv
<1>2. /\ phase' = "chain"
      /\ UNCHANGED <<at, process, detached, fromServer, code, exitCode, causes>>
  BY DEF sharedMemoryInit, Main, childVars, pipeVars
<1>3. \A c \in Actors : at'[c] \notin {"sleep", "kill"} BY <1>1, <1>2 DEF Untouched
<1>4. process'["gdb"] = "none" BY <1>1, <1>2 DEF Untouched, Processes
<1> QED BY <1>1, <1>2, <1>3, <1>4 DEF BlameInv, Untouched, Blamed, OwnShutdownNotBlamed

(* A server that is shut down is not blamed for it.                        *)
THEOREM OwnShutdownIsNotBlamed == Spec => []OwnShutdownNotBlamed
<1>1. Init => BlameInv
  <2> SUFFICES ASSUME Init PROVE BlameInv OBVIOUS
  <2>1. Untouched
    BY DEF Init, Untouched, Actors, Processes, Alive
  <2>2. \A c \in Threads : code[c] = 0 BY DEF Init
  <2>3. /\ ~detached /\ fromServer = "nothing" /\ exitCode # -3 /\ phase = "options"
        /\ process["gdb"] = "none" /\ \A c \in Actors : at[c] \in {"on", "off"}
    BY <2>1 DEF Init, Untouched, Processes
  <2> QED BY <2>1, <2>2, <2>3 DEF BlameInv, OwnShutdownNotBlamed
<1>2. TypeOK /\ BlameInv /\ [Next]_vars => BlameInv'
  <2> SUFFICES ASSUME TypeOK, BlameInv, [Next]_vars PROVE BlameInv' OBVIOUS
  <2>1. phase' \in {"options", "memory"} => Untouched' BY UntouchedKeeps
  <2>2. CASE MainThread \/ Signal \/ modeFailed
    BY <2>1, <2>2, MainIsHarmless, HarmlessKeeps, LoweringKeeps
  <2>3. CASE Starters \/ Children \/ ClientFails
    BY <2>1, <2>3, ChildrenAreHarmless, HarmlessKeeps
  <2>4. CASE Writes \/ Readers
    BY <2>1, <2>4, PipesAreHarmless, HarmlessKeeps, ServerKeeps DEF Readers
  <2>5. CASE \E c \in Actors : CleanUp(c)
    BY <2>1, <2>5, CleanUpIsHarmless, HarmlessKeeps, HostExitKeeps
  <2>6. CASE UNCHANGED vars
    <3>1. Harmless
      BY <2>6 DEF vars, hostVars, cleanVars, childVars, pipeVars, Harmless
    <3> QED BY <2>1, <3>1, HarmlessKeeps
  <2> QED BY <2>2, <2>3, <2>4, <2>5, <2>6 DEF Next, Actors
<1> QED BY <1>1, <1>2, TypeCorrect, PTL DEF Spec, BlameInv
===============================================================================
