----------------------------- MODULE ClientNode ------------------------------
(***************************************************************************)
(* One node of procnanny, version 3: the client process (the parent of     *)
(* clientFunctions.c), its pool of forked children (child.c), the pipes    *)
(* between them and the socket to the server.  The parent learns the       *)
(* process names to watch from the server, starts a child per process id   *)
(* it finds, re-uses children that became idle, adds up the kills they     *)
(* report and passes the total to the server when it is asked to exit.     *)
(*                                                                         *)
(* A pipe message is one element of a sequence: read_message blocks until  *)
(* header and body are there, and an "output" header is followed by its    *)
(* text before the writer does anything else.  Texts, timestamps and sleep *)
(* times are left out; ps output order is any order.                       *)
(***************************************************************************)
EXTENDS Integers, Sequences, FiniteSets

CONSTANTS
    Names,        \* process names a configuration may list
    Pids,         \* process ids of the user's processes
    Commands,     \* command lines, each the set of the Names it contains as words
    Configs,      \* configurations the server may send
    MaxChildren,  \* bound: slots of the child pool
    MaxSpawns,    \* bound: processes started while the client runs
    MaxConfigs,   \* bound: config messages sent
    MaxZombies,   \* bound: times a dead process stays in the ps listing
    MaxForkFails, \* bound: failed forks
    ReusePids,    \* may a process id be given to a second process?
    MayClose      \* may the server close the connection by itself?

ASSUME PidsAssumption == Pids \subseteq Nat \ {0} /\ IsFiniteSet(Pids)
ASSUME CommandsAssumption == Commands \subseteq SUBSET Names
\* readFile of the server discards a name that is already in the list
ASSUME ConfigsAssumption ==
    \A c \in Configs : /\ c \in Seq(Names)
                       /\ \A i, j \in 1..Len(c) : c[i] = c[j] => i = j
ASSUME BoundsAssumption ==
    /\ {MaxChildren, MaxSpawns, MaxConfigs, MaxZombies, MaxForkFails} \subseteq Nat
    /\ {ReusePids, MayClose} \subseteq BOOLEAN

VARIABLES
    pc,             \* where the parent is
    idx,            \* the loop counter i of the function it is in
    scan,           \* process ids of the current pidList not handled yet
    config,         \* monitorProcs[0 .. procCount-1]
    childCount, idleChildCount, killCount,
    poolCap,        \* number of child structs childPool has room for
    exited,         \* the local variable of waitForChildren
    m_pid,          \* childPool[i].m_pid
    p2c, c2p,       \* contents of the pipes of every child
    cpc,            \* where every child is, "none" before its fork
    job,            \* the monitor message a child works on
    msgVal,         \* child: did the kill succeed?
    proc,           \* the user's processes: state and command line
    spawns, zombies, forkFails, cfgSent,   \* counters behind the bounds
    inbox,          \* messages of the server not read yet
    serverClosed,   \* the server's end of the socket is closed
    report,         \* kill count of the exit message sent, -1 before it
    kills           \* history: kill() calls that returned 0

parentVars == <<pc, idx, scan, config, exited, report>>
poolVars   == <<childCount, idleChildCount, killCount, poolCap, m_pid>>
pipeVars   == <<p2c, c2p>>
childVars  == <<cpc, job, msgVal, kills>>
procVars   == <<proc, spawns, zombies>>
serverVars == <<inbox, serverClosed, cfgSent>>
vars == <<parentVars, poolVars, pipeVars, childVars, procVars, serverVars,
          forkFails>>

Slots == 1..MaxChildren

\* The m_pid of a struct nobody has written: memwatch fills memory with 0xFE.
Junk == -1

MonitorMsgs == [type : {"monitor"}, name : Names, pid : Pids]
ExitMsg     == [type |-> "exit"]
Monitor(n, p) == [type |-> "monitor", name |-> n, pid |-> p]

Available(v) == IF v = 1 THEN "available 1" ELSE "available 0"
Availables   == {"available 0", "available 1"}
ChildMsgs    == {"output", "exit complete"} \cup Availables

Processes == [st : {"unused", "alive", "zombie", "free"}, words : Commands]

Init ==
    /\ pc = "receiveConfig" /\ idx = 1 /\ scan = {} /\ config = <<>>
    /\ childCount = 0 /\ idleChildCount = 0 /\ killCount = 0 /\ poolCap = 0
    /\ exited = 0 /\ report = -1
    /\ m_pid  = [i \in Slots |-> Junk]
    /\ p2c    = [i \in Slots |-> <<>>]
    /\ c2p    = [i \in Slots |-> <<>>]
    /\ cpc    = [i \in Slots |-> "none"]
    /\ job    = [i \in Slots |-> ExitMsg]
    /\ msgVal = [i \in Slots |-> 0]
    /\ kills = 0
    /\ proc \in [Pids -> {q \in Processes : q.st \in {"unused", "alive"}}]
    /\ spawns = 0 /\ zombies = 0 /\ forkFails = 0
    /\ inbox = <<>> /\ serverClosed = FALSE /\ cfgSent = 0

-----------------------------------------------------------------------------
(* Slips this code could contain.  No action uses them: put in the place of *)
(* the definition named behind each, they show that a property notices.    *)

AnyProcess(n) == {p \in Pids : proc[p].st \in {"alive", "zombie"}}   \* Listed
NeverMonitored(p) == FALSE                                     \* ProcessMonitored
EveryAnswer(m) == IF m \in Availables THEN 1 ELSE 0            \* KillsIn
NoRoom(found) == 0                                             \* Room
AllButOneExited == exited + 1 >= childCount                    \* AllExited
MoreThanAllExited == exited > childCount                       \* AllExited

\* ForkChild, with idleChildCount decremented as for a re-used child.
ForkTakesIdle(n, p) ==
    LET new == childCount + 1 IN
    /\ new \in Slots
    /\ childCount' = new
    /\ idleChildCount' = idleChildCount - 1
    /\ m_pid' = [m_pid EXCEPT ![new] = p]
    /\ p2c' = [p2c EXCEPT ![new] = <<Monitor(n, p)>>]
    /\ cpc' = [cpc EXCEPT ![new] = "read"]
    /\ UNCHANGED <<killCount, c2p, job, msgVal, kills, forkFails>>

\* HandleChildMessage, leaving the old process id in the struct.
KeepsPid(i) ==
    LET m == Head(c2p[i]) IN
    /\ c2p' = [c2p EXCEPT ![i] = Tail(@)]
    /\ idleChildCount' = idleChildCount + (IF m \in Availables THEN 1 ELSE 0)
    /\ killCount' = killCount + (IF m = "available 1" THEN 1 ELSE 0)
    /\ UNCHANGED m_pid

\* HandleChildMessage, taking any message for the end of the child's work.
AnyMessageFrees(i) ==
    /\ c2p' = [c2p EXCEPT ![i] = Tail(@)]
    /\ idleChildCount' = idleChildCount + (IF m_pid[i] # 0 THEN 1 ELSE 0)
    /\ m_pid' = [m_pid EXCEPT ![i] = 0]
    /\ killCount' = killCount + (IF Head(c2p[i]) = "available 1" THEN 1 ELSE 0)

-----------------------------------------------------------------------------
(* The processes of the user and the server's end of the socket.           *)

\* A line of ps is printed for a process that has not been waited for yet.
InPs(p) == proc[p].st \in {"alive", "zombie"}

\* getPidList of a name: ps | grep -w name
Listed(n) == {p \in Pids : InPs(p) /\ n \in proc[p].words}

\* What is left of a process that dies, or of a zombie killed again.
Leave(p) ==
    \E st \in {"zombie", "free"} :
        /\ st = "zombie" => zombies < MaxZombies
        /\ zombies' = zombies + (IF st = "zombie" THEN 1 ELSE 0)
        /\ proc' = [proc EXCEPT ![p].st = st]

Spawn ==
    /\ spawns < MaxSpawns
    /\ \E p \in Pids, w \in Commands :
          /\ proc[p].st = "unused" \/ (ReusePids /\ proc[p].st = "free")
          /\ proc' = [proc EXCEPT ![p] = [st |-> "alive", words |-> w]]
    /\ spawns' = spawns + 1
    /\ UNCHANGED <<parentVars, poolVars, pipeVars, childVars, zombies,
                   serverVars, forkFails>>

ProcessExit ==
    /\ \E p \in Pids : proc[p].st = "alive" /\ Leave(p)
    /\ UNCHANGED <<parentVars, poolVars, pipeVars, childVars, spawns,
                   serverVars, forkFails>>

Reap ==
    /\ \E p \in Pids : /\ proc[p].st = "zombie"
                       /\ proc' = [proc EXCEPT ![p].st = "free"]
    /\ UNCHANGED <<parentVars, poolVars, pipeVars, childVars, spawns, zombies,
                   serverVars, forkFails>>

ServerSendsConfig ==
    /\ cfgSent < MaxConfigs /\ ~serverClosed
    /\ \A k \in 1..Len(inbox) : inbox[k].type # "exit"
    /\ \E c \in Configs : inbox' = Append(inbox, [type |-> "config", procs |-> c])
    /\ cfgSent' = cfgSent + 1
    /\ UNCHANGED <<parentVars, poolVars, pipeVars, childVars, procVars,
                   serverClosed, forkFails>>

\* The server asks only clients it has sent a configuration to (clientCount++
\* follows sendConfig in serverLoop), and asks once.
ServerSendsExit ==
    /\ cfgSent > 0 /\ ~serverClosed /\ pc \notin {"exit", "wait", "report", "done"}
    /\ \A k \in 1..Len(inbox) : inbox[k].type # "exit"
    /\ inbox' = Append(inbox, [type |-> "exit", procs |-> <<>>])
    /\ UNCHANGED <<parentVars, poolVars, pipeVars, childVars, procVars,
                   serverClosed, cfgSent, forkFails>>

ServerCloses ==
    /\ MayClose /\ ~serverClosed
    /\ serverClosed' = TRUE
    /\ UNCHANGED <<parentVars, poolVars, pipeVars, childVars, procVars, inbox,
                   cfgSent, forkFails>>

-----------------------------------------------------------------------------
(* The child pool.                                                         *)

ProcessMonitored(p) == \E i \in 1..childCount : m_pid[i] = p

\* Child i is the one getIdleChildIndex returns.
IsIdleChildIndex(i) ==
    i <= childCount /\ m_pid[i] = 0 /\ \A j \in 1..(i-1) : m_pid[j] # 0

\* childCount is incremented and the pipes are opened before fork; a failed
\* fork has no branch of its own and leaves m_pid of the new struct unwritten.
ForkChild(n, p) ==
    LET new == childCount + 1 IN
    /\ new \in Slots
    /\ childCount' = new
    /\ \/ /\ m_pid' = [m_pid EXCEPT ![new] = p]
          /\ p2c' = [p2c EXCEPT ![new] = <<Monitor(n, p)>>]
          /\ cpc' = [cpc EXCEPT ![new] = "read"]
          /\ UNCHANGED forkFails
       \/ /\ forkFails < MaxForkFails
          /\ forkFails' = forkFails + 1
          /\ UNCHANGED <<m_pid, p2c, cpc>>
    /\ UNCHANGED <<idleChildCount, killCount, c2p, job, msgVal, kills>>

\* Without an idle child getIdleChildIndex returns -1 and the code would write
\* outside the pool; here no such step exists, and a parent stuck for that
\* reason would be found as a deadlock.
ReuseChild(n, p) ==
    \E i \in Slots :
        /\ IsIdleChildIndex(i)
        /\ idleChildCount' = idleChildCount - 1
        /\ m_pid' = [m_pid EXCEPT ![i] = p]
        /\ p2c' = [p2c EXCEPT ![i] = Append(@, Monitor(n, p))]
        /\ UNCHANGED <<childCount, killCount, poolCap, c2p, childVars, forkFails>>

\* The kill count of a message, atoi of its text.
KillsIn(m) == IF m = "available 1" THEN 1 ELSE 0

\* One message of child i, as readChildMessages and waitForChildren treat it.
HandleChildMessage(i) ==
    LET m == Head(c2p[i]) IN
    /\ c2p' = [c2p EXCEPT ![i] = Tail(@)]
    /\ IF m \in Availables
         THEN /\ idleChildCount' = idleChildCount + 1
              /\ m_pid' = [m_pid EXCEPT ![i] = 0]
              /\ killCount' = killCount + KillsIn(m)
         ELSE UNCHANGED <<idleChildCount, m_pid, killCount>>

-----------------------------------------------------------------------------
(* The parent.  Its sleep(5) is the state "read" with idx = 1.             *)

\* What a read of the socket may find: the next message; at end of file the
\* header is an uninitialised buffer and config keeps what it holds.
Readable ==
    IF inbox # <<>> THEN {Head(inbox)}
    ELSE IF serverClosed
         THEN [type : {"config", "exit", "other"}, procs : {config}]
         ELSE {}

Consume == inbox' = IF inbox = <<>> THEN inbox ELSE Tail(inbox)

\* receiveConfig leaves its loop after the first readable header of any type;
\* procCount and monitorProcs are still zero if no config followed it.
ReceiveConfig ==
    /\ pc = "receiveConfig"
    /\ \E m \in Readable :
          config' = IF m.type = "config" THEN m.procs ELSE config
    /\ Consume
    /\ poolCap' = Len(config')
    /\ pc' = "initScan"
    /\ UNCHANGED <<idx, scan, exited, report, childCount, idleChildCount,
                   killCount, m_pid, pipeVars, childVars, procVars,
                   serverClosed, cfgSent, forkFails>>

\* More than one process of a name makes the pool grow by their number; a
\* single one uses the room there is.
Room(found) == IF Cardinality(found) > 1 THEN Cardinality(found) ELSE 0

\* initChildren: getPidList of the next name.
InitScan ==
    /\ pc = "initScan"
    /\ IF idx > Len(config)
         THEN /\ pc' = "read" /\ idx' = 1
              /\ UNCHANGED <<scan, poolCap>>
         ELSE LET found == Listed(config[idx]) IN
              /\ scan' = found
              /\ poolCap' = poolCap + Room(found)
              /\ pc'  = IF found = {} THEN pc ELSE "initFork"
              /\ idx' = IF found = {} THEN idx + 1 ELSE idx
    /\ UNCHANGED <<config, exited, report, childCount, idleChildCount,
                   killCount, m_pid, pipeVars, childVars, procVars, serverVars,
                   forkFails>>

\* initChildren forks a child per process, without looking at processMonitored.
InitFork ==
    /\ pc = "initFork"
    /\ \E p \in scan :
          /\ ForkChild(config[idx], p)
          /\ scan' = scan \ {p}
    /\ pc'  = IF scan' = {} THEN "initScan" ELSE pc
    /\ idx' = IF scan' = {} THEN idx + 1 ELSE idx
    /\ UNCHANGED <<config, exited, report, poolCap, procVars, serverVars>>

\* readChildMessages empties the pipe of child idx before it goes on.
ReadChild ==
    /\ pc = "read"
    /\ IF idx > childCount
         THEN pc' = "server" /\ UNCHANGED <<idx, c2p, poolVars>>
         ELSE IF c2p[idx] = <<>>
         THEN idx' = idx + 1 /\ UNCHANGED <<pc, c2p, poolVars>>
         ELSE /\ HandleChildMessage(idx)
              /\ UNCHANGED <<pc, idx, childCount, poolCap>>
    /\ UNCHANGED <<scan, config, exited, report, p2c, childVars, procVars,
                   serverVars, forkFails>>

\* readServerMessages takes one message per round of parentLoop.
ReadServer ==
    /\ pc = "server"
    /\ \/ /\ Readable = {}
          /\ pc' = "rescan"
          /\ UNCHANGED <<config, inbox>>
       \/ /\ \E m \in Readable :
                /\ config' = IF m.type = "config" THEN m.procs ELSE config
                /\ pc' = IF m.type = "exit" THEN "exit" ELSE "rescan"
          /\ Consume
    /\ idx' = 1
    /\ UNCHANGED <<scan, exited, report, poolVars, pipeVars, childVars,
                   procVars, serverClosed, cfgSent, forkFails>>

\* rescanProcs: getPidList of the next name.
Rescan ==
    /\ pc = "rescan"
    /\ IF idx > Len(config)
         THEN pc' = "read" /\ idx' = 1 /\ UNCHANGED scan
         ELSE LET found == Listed(config[idx]) IN
              /\ scan' = found
              /\ pc'  = IF found = {} THEN pc ELSE "rescanPid"
              /\ idx' = IF found = {} THEN idx + 1 ELSE idx
    /\ UNCHANGED <<config, exited, report, poolVars, pipeVars, childVars,
                   procVars, serverVars, forkFails>>

\* rescanProcs: one process id of the list, which may be out of date by now.
RescanPid ==
    /\ pc = "rescanPid"
    /\ \E p \in scan :
          /\ scan' = scan \ {p}
          /\ \/ /\ ProcessMonitored(p)
                /\ UNCHANGED <<poolVars, pipeVars, childVars, forkFails>>
             \/ /\ ~ProcessMonitored(p) /\ idleChildCount > 0
                /\ ReuseChild(config[idx], p)
             \/ /\ ~ProcessMonitored(p) /\ idleChildCount <= 0
                /\ ForkChild(config[idx], p)
                /\ poolCap' = childCount'
    /\ pc'  = IF scan' = {} THEN "rescan" ELSE pc
    /\ idx' = IF scan' = {} THEN idx + 1 ELSE idx
    /\ UNCHANGED <<config, exited, report, procVars, serverVars>>

\* cleanExit: an exit message for every child of the pool.
SendExit ==
    /\ pc = "exit"
    /\ IF idx > childCount
         THEN pc' = "wait" /\ idx' = 1 /\ UNCHANGED p2c
         ELSE /\ p2c' = [p2c EXCEPT ![idx] = Append(@, ExitMsg)]
              /\ idx' = idx + 1
              /\ UNCHANGED pc
    /\ UNCHANGED <<scan, config, exited, report, poolVars, c2p, childVars,
                   procVars, serverVars, forkFails>>

AllExited == exited >= childCount

\* waitForChildren: at most one message of every child in each pass, and the
\* count of exited children is looked at between passes.
WaitForChildren ==
    /\ pc = "wait"
    /\ IF idx > childCount
         THEN /\ pc'  = IF AllExited THEN "report" ELSE pc
              /\ idx' = 1
              /\ UNCHANGED <<exited, c2p, poolVars>>
         ELSE /\ idx' = idx + 1
              /\ IF c2p[idx] = <<>>
                   THEN UNCHANGED <<exited, c2p, poolVars>>
                   ELSE /\ HandleChildMessage(idx)
                        /\ exited' = exited + (IF Head(c2p[idx]) = "exit complete"
                                                 THEN 1 ELSE 0)
                        /\ UNCHANGED <<childCount, poolCap>>
              /\ UNCHANGED pc
    /\ UNCHANGED <<scan, config, report, p2c, childVars, procVars, serverVars,
                   forkFails>>

\* cleanExit: "exit" and the kill count go to the server, the process ends.
Report ==
    /\ pc = "report"
    /\ report' = killCount
    /\ pc' = "done"
    /\ UNCHANGED <<idx, scan, config, exited, poolVars, pipeVars, childVars,
                   procVars, serverVars, forkFails>>

\* The writes to the socket: log lines made here, log lines of the children,
\* and the exit message.
WritesToServer ==
    \/ /\ pc \in {"initScan", "rescan"} /\ idx <= Len(config)
       /\ Listed(config[idx]) = {}
    \/ /\ pc \in {"read", "wait"} /\ idx <= childCount
       /\ c2p[idx] # <<>> /\ Head(c2p[idx]) = "output"
    \/ pc = "report"

\* SIGPIPE is not handled: a write after the server has reset the connection
\* ends the client.  (The first write after the close still succeeds.)
KilledBySigpipe ==
    /\ serverClosed /\ WritesToServer
    /\ pc' = "killed"
    /\ UNCHANGED <<idx, scan, config, exited, report, poolVars, pipeVars,
                   childVars, procVars, serverVars, forkFails>>

Parent ==
    \/ ReceiveConfig \/ InitScan \/ InitFork
    \/ ReadChild \/ ReadServer \/ Rescan \/ RescanPid
    \/ SendExit \/ WaitForChildren \/ Report \/ KilledBySigpipe

-----------------------------------------------------------------------------
(* A child.  timestampToParent puts an "output" into the pipe to the parent. *)

\* childExec: the next message of the parent; childExit answers "exit".
ChildRead(i) ==
    /\ cpc[i] = "read" /\ p2c[i] # <<>>
    /\ p2c' = [p2c EXCEPT ![i] = Tail(@)]
    /\ LET m == Head(p2c[i]) IN
       \/ /\ m.type = "exit"
          /\ c2p' = [c2p EXCEPT ![i] = Append(@, "exit complete")]
          /\ cpc' = [cpc EXCEPT ![i] = "gone"]
          /\ UNCHANGED job
       \/ /\ m.type = "monitor"
          /\ c2p' = [c2p EXCEPT ![i] = Append(@, "output")]
          /\ cpc' = [cpc EXCEPT ![i] = "sleep"]
          /\ job' = [job EXCEPT ![i] = m]
    /\ UNCHANGED <<parentVars, poolVars, msgVal, kills, procVars,
                   serverVars, forkFails>>

\* monitorProcess after the sleep: getPidList(pidToKill).
ChildCheck(i) ==
    /\ cpc[i] = "sleep"
    /\ IF InPs(job[i].pid)
         THEN /\ cpc' = [cpc EXCEPT ![i] = "kill"]
              /\ UNCHANGED <<c2p, msgVal>>
         ELSE /\ cpc' = [cpc EXCEPT ![i] = "report"]
              /\ c2p' = [c2p EXCEPT ![i] = Append(@, "output")]
              /\ msgVal' = [msgVal EXCEPT ![i] = 0]
    /\ UNCHANGED <<parentVars, poolVars, p2c, job, kills, procVars,
                   serverVars, forkFails>>

\* kill(pidToKillInt, SIGKILL) also succeeds on a zombie.
ChildKill(i) ==
    LET p == job[i].pid IN
    /\ cpc[i] = "kill"
    /\ cpc' = [cpc EXCEPT ![i] = "report"]
    /\ c2p' = [c2p EXCEPT ![i] = Append(@, "output")]
    /\ \/ /\ InPs(p)
          /\ Leave(p)
          /\ kills' = kills + 1
          /\ msgVal' = [msgVal EXCEPT ![i] = 1]
       \/ /\ ~InPs(p)
          /\ msgVal' = [msgVal EXCEPT ![i] = 0]
          /\ UNCHANGED <<proc, zombies, kills>>
    /\ UNCHANGED <<parentVars, poolVars, p2c, job, spawns, serverVars, forkFails>>

\* monitorProcess ends with "available 0" or "available 1"; its parameters and
\* msgVal are not read again before they are set anew.
ChildReport(i) ==
    /\ cpc[i] = "report"
    /\ c2p' = [c2p EXCEPT ![i] = Append(@, Available(msgVal[i]))]
    /\ cpc' = [cpc EXCEPT ![i] = "read"]
    /\ job' = [job EXCEPT ![i] = ExitMsg]
    /\ msgVal' = [msgVal EXCEPT ![i] = 0]
    /\ UNCHANGED <<parentVars, poolVars, p2c, kills, procVars,
                   serverVars, forkFails>>

Child(i) == ChildRead(i) \/ ChildCheck(i) \/ ChildKill(i) \/ ChildReport(i)

-----------------------------------------------------------------------------
Environment ==
    \/ Spawn \/ ProcessExit \/ Reap
    \/ ServerSendsConfig \/ ServerSendsExit \/ ServerCloses

\* The client process is over.  Children it leaves behind block in read for
\* good: they hold the write end of their own pipe.
Finished == pc \in {"done", "killed"} /\ UNCHANGED vars

Next ==
    \/ Environment
    \/ Parent
    \/ \E i \in Slots : Child(i)
    \/ Finished

\* The scheduler runs every process of the node; nothing is promised about
\* the user's processes or the server.
Fairness == WF_vars(Parent) /\ \A i \in Slots : WF_vars(Child(i))

Spec == Init /\ [][Next]_vars
FairSpec == Spec /\ Fairness

-----------------------------------------------------------------------------
(* Properties.                                                             *)

\* Every variable stays in its range; in particular no counter of the parent
\* becomes negative.
TypeOK ==
    /\ pc \in {"receiveConfig", "initScan", "initFork", "read", "server",
               "rescan", "rescanPid", "exit", "wait", "report", "done", "killed"}
    /\ idx \in Nat \ {0} /\ scan \subseteq Pids /\ config \in Seq(Names)
    /\ exited \in Nat /\ report \in Nat \cup {-1}
    /\ {childCount, idleChildCount, killCount, poolCap} \subseteq Nat
    /\ childCount <= MaxChildren
    /\ m_pid \in [Slots -> Pids \cup {0, Junk}]
    /\ p2c \in [Slots -> Seq(MonitorMsgs \cup {ExitMsg})]
    /\ c2p \in [Slots -> Seq(ChildMsgs)]
    /\ cpc \in [Slots -> {"none", "read", "sleep", "kill", "report", "gone"}]
    /\ job \in [Slots -> MonitorMsgs \cup {ExitMsg}]
    /\ msgVal \in [Slots -> {0, 1}]
    /\ proc \in [Pids -> Processes]
    /\ {spawns, zombies, forkFails, cfgSent, kills} \subseteq Nat
    /\ inbox \in Seq([type : {"config"}, procs : Configs]
                     \cup [type : {"exit"}, procs : {<<>>}])
    /\ serverClosed \in BOOLEAN

\* idleChildCount, kept by hand in three functions, is the number of structs
\* whose m_pid is 0: a positive count always finds a child to re-use, so
\* childPool[idleIndex] is never childPool[-1].
Idle == {i \in Slots : m_pid[i] = 0}
IdleCountExact == idleChildCount = Cardinality(Idle)

Busy == {"sleep", "kill", "report"}

\* The places where the work of child i can be: asked for, under way, reported.
Asked(i)    == \E k \in 1..Len(p2c[i]) : p2c[i][k].type = "monitor"
Reported(i) == \E k \in 1..Len(c2p[i]) : c2p[i][k] \in Availables

\* m_pid tells the truth about a child that the parent cannot see: it names a
\* process exactly while a request for it is in one of three places (the pipe
\* to the child, the child, the pipe back), and never in two of them.  A
\* child therefore has at most one request and owes at most one answer.
OneRequest(i) ==
    /\ m_pid[i] # 0 <=> Asked(i) \/ cpc[i] \in Busy \/ Reported(i)
    /\ ~(Asked(i) /\ cpc[i] \in Busy)
    /\ ~(Asked(i) /\ Reported(i))
    /\ ~(cpc[i] \in Busy /\ Reported(i))
    /\ \A k, l \in 1..Len(c2p[i]) :
          c2p[i][k] \in Availables /\ c2p[i][l] \in Availables => k = l
JobAccounting == \A i \in Slots : cpc[i] # "none" => OneRequest(i)

\* Children with a kill the parent has not been told about.
OwesKill(i) == \/ cpc[i] = "report" /\ msgVal[i] = 1
               \/ \E k \in 1..Len(c2p[i]) : c2p[i][k] = "available 1"
Unreported == {i \in Slots : OwesKill(i)}

\* No kill is lost or counted twice on its way from a child to killCount.
KillsAccounted == kills = killCount + Cardinality(Unreported)

\* The count confirmed to the server is the number of kills on the node, even
\* of those performed between the exit request and the answer, and nothing a
\* child has said is left unread.
ReportExact ==
    pc = "done" => /\ report = kills
                   /\ \A i \in Slots : cpc[i] \in {"none", "gone"} /\ c2p[i] = <<>>

\* Every child struct that is written lies inside the allocation made by
\* initChildren (room for one per name, more where a name has more) or by
\* rescanProcs.
PoolInBounds == childCount <= poolCap

\* Two children never watch the same process.  (It needs command lines with
\* one configured name each, and process ids that are not given out twice.)
NoDoubleMonitor ==
    \A i, j \in Slots : i # j /\ m_pid[i] = m_pid[j] => m_pid[i] \in {0, Junk}

\* Idle children are used up before another one is forked: the pool never has
\* more children than there are process ids to watch.
PoolBounded == childCount <= Cardinality(Pids) + forkFails

\* A child kills only a process whose command line has the name it was listed
\* under.  (It needs process ids that are not given out twice.)
KillsWhatWasListed ==
    [][\A i \in Slots :
          cpc[i] = "kill" /\ cpc'[i] = "report" /\ msgVal'[i] = 1
             => job[i].name \in proc[job[i].pid].words]_vars

-----------------------------------------------------------------------------
(* The inductive invariant behind the safety properties.                   *)

\* Child i has been sent "exit", or the client no longer cares.
Told(i) == \/ pc \in {"wait", "report", "done", "killed"}
           \/ pc = "exit" /\ i < idx

\* A pipe to a child holds at most a request and then "exit".
RequestPipe(i) ==
    \A k \in 1..Len(p2c[i]) :
        /\ p2c[i][k].type = "monitor" => k = 1
        /\ p2c[i][k].type = "exit" => k = Len(p2c[i]) /\ Told(i)

\* A pipe back ends with "exit complete" exactly if the child is gone.
AnswerPipe(i) ==
    /\ \A k \in 1..Len(c2p[i]) :
          c2p[i][k] = "exit complete" => k = Len(c2p[i]) /\ cpc[i] = "gone"
    /\ cpc[i] = "gone" /\ c2p[i] # <<>> => c2p[i][Len(c2p[i])] = "exit complete"

\* A child exists in a written struct only, and is gone only if it was told to;
\* a struct whose fork failed has nobody at the other end and is never idle.
Lifetime(i) ==
    /\ cpc[i] = "gone" => Told(i) /\ p2c[i] = <<>>
    /\ cpc[i] = "none" => m_pid[i] = Junk /\ c2p[i] = <<>> /\ ~Asked(i)
    /\ cpc[i] # "none" => m_pid[i] # Junk /\ i <= childCount
    /\ cpc[i] \in Busy => job[i] \in MonitorMsgs
    /\ i > childCount => p2c[i] = <<>>

PipeShape(i) == RequestPipe(i) /\ AnswerPipe(i) /\ Lifetime(i)

SaidAll(i) == cpc[i] = "gone" /\ c2p[i] = <<>>
Drained == {i \in Slots : SaidAll(i)}

\* exited counts the children whose last message has been read.
ExitedExact ==
    /\ exited = Cardinality(Drained)
    /\ pc \in {"report", "done"} => 1..childCount \subseteq Drained

\* While initChildren runs there is room for the processes found under the
\* current name and for one process of every name to come.
PoolRoom ==
    CASE pc = "receiveConfig" -> childCount = 0 /\ idx = 1
      [] pc = "initScan" -> /\ childCount + Len(config) + 1 - idx <= poolCap
                            /\ idx <= Len(config) + 1
      [] pc = "initFork" -> /\ childCount + Cardinality(scan) + Len(config) - idx
                                  <= poolCap
                            /\ idx <= Len(config)
      [] OTHER -> childCount <= poolCap

\* The scans look at names of the configuration only.
ScanInConfig == pc \in {"initFork", "rescanPid"} => idx <= Len(config)

IndInv ==
    /\ TypeOK
    /\ \A i \in Slots : PipeShape(i)
    /\ JobAccounting
    /\ IdleCountExact
    /\ KillsAccounted
    /\ ExitedExact
    /\ PoolRoom
    /\ ScanInConfig
    /\ pc = "done" => report = killCount

-----------------------------------------------------------------------------
(* The invariants behind the three properties that need unused process ids. *)

\* Process p exists or has existed, and n is a word of its command line.
Bears(p, n) == proc[p].st # "unused" /\ n \in proc[p].words

\* A request names a process by a word of its command line wherever it is: in
\* the list just read, in the pipe to a child, with the child.
RequestsBear ==
    /\ pc \in {"initFork", "rescanPid"} => \A p \in scan : Bears(p, config[idx])
    /\ \A i \in Slots :
          /\ \A k \in 1..Len(p2c[i]) :
                p2c[i][k].type = "monitor" => Bears(p2c[i][k].pid, p2c[i][k].name)
          /\ cpc[i] \in Busy => Bears(job[i].pid, job[i].name)

\* Structs with a child behind them.
Forked == {i \in Slots : m_pid[i] # Junk}

\* initChildren has given p to a child under the name before the current one,
\* or under the current one and crossed it off the list.
GivenOut(p) ==
    \/ \E j \in 1..Len(config) : j < idx /\ Bears(p, config[j])
    \/ pc = "initFork" /\ Bears(p, config[idx]) /\ p \notin scan

NamedOnce == \A i, j \in 1..Len(config) : config[i] = config[j] => i = j

\* No child has answered yet while initChildren runs, and the processes given
\* out are those it has passed.
InitialPool ==
    /\ pc = "receiveConfig" => Forked = {}
    /\ pc \in {"initScan", "initFork"} =>
          \A i \in Forked : m_pid[i] # 0 /\ GivenOut(m_pid[i])

PidInv ==
    /\ NamedOnce
    /\ InitialPool
    /\ NoDoubleMonitor
    /\ childCount = Cardinality(Forked) + forkFails
    /\ Cardinality(Forked) <= Cardinality(Pids)

-----------------------------------------------------------------------------
(* The abstract view, and what must eventually happen.                     *)

Exiting == {"exit", "wait", "report"}

\* The node implements Nanny: it answers an exit request once, with an exact
\* count, whatever its children were doing when the request came.
nanny == INSTANCE Nanny WITH
            phase <- IF pc \in Exiting THEN "exiting"
                     ELSE IF pc = "done" THEN "done"
                     ELSE IF pc = "killed" THEN "lost" ELSE "running"
ImplementsNanny == nanny!Spec

Wanted(p) == \E k \in 1..Len(config) : config[k] \in proc[p].words

\* A process that runs under a configured name does not outlive the rounds of
\* the parent for ever: it ends, or the configuration stops naming it, or the
\* client stops.
NannyPromise ==
    \A p \in Pids :
        proc[p].st = "alive" /\ Wanted(p)
          ~> proc[p].st # "alive" \/ ~Wanted(p) \/ pc \in Exiting \cup {"done", "killed"}

\* An exit message that reached the socket is read and answered.
ExitAnswered ==
    (\E k \in 1..Len(inbox) : inbox[k].type = "exit") /\ pc # "receiveConfig"
        ~> pc \in {"done", "killed"}

-----------------------------------------------------------------------------
(* What the repository's own words claim and the code does not do.         *)

\* client.c:45 "don't proceed until config file is received": the node leaves
\* receiveConfig only with a configuration of the server in hand.
ConfigBeforeChildren ==
    [][pc = "receiveConfig" /\ pc' # pc
         => inbox # <<>> /\ Head(inbox).type = "config"]_vars
=============================================================================
