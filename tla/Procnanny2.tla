------------------------------ MODULE Procnanny2 ------------------------------
(***************************************************************************)
(* procnanny, version 2: one host, a parent (mainFunctions.c), its pool of *)
(* forked children (child.c), a pipe in each direction, and two signals    *)
(* the parent catches.  What version 2 adds to the others is that its      *)
(* handlers run inside whatever statement the parent has reached: SIGHUP   *)
(* reads the configuration again under the loops that walk it, SIGINT asks *)
(* the children to exit and never returns.  The parent is therefore split  *)
(* at every statement a handler could tell apart, and a pipe carries the   *)
(* two halves of a message, header and body, as the two writes and the two *)
(* reads of pipeMessage.c move them.  The handlers are installed without   *)
(* SA_RESTART, so SIGHUP also ends the call it falls into: the reading of  *)
(* the ps output, a select that found nothing, a read that waits.          *)
(*                                                                         *)
(* A signal is delivered when it is sent.  Not modelled: process ids used  *)
(* twice, zombies in the ps listing (module ClientNode has both), a signal *)
(* inside malloc, the wording of messages, sleep times, and killPrevious,  *)
(* which ends before the first child exists.                               *)
(***************************************************************************)
EXTENDS Integers, Sequences, FiniteSets

CONSTANTS
    Names,        \* process names a configuration may list
    Self,         \* the name 'procnanny', refused in a configuration
    Pids,         \* process ids of the user's processes
    Words,        \* the names that occur as words in the ps line of each process
    Files,        \* contents the configuration file may have, as lists of names
    MaxChildren,  \* bound: slots of the child pool
    MaxSpawns,    \* bound: processes started after the parent
    MaxHups,      \* bound: SIGHUPs
    MaxForkFails, \* bound: failed forks
    ToGroup       \* is SIGINT sent to the whole process group, as a terminal does?

ASSUME NamesAssumption == Self \notin Names /\ IsFiniteSet(Names)
ASSUME PidsAssumption ==
    Pids \subseteq Nat \ {0} /\ IsFiniteSet(Pids) /\ Words \in [Pids -> SUBSET Names]
ASSUME FilesAssumption == Files \subseteq Seq(Names \cup {Self})
ASSUME BoundsAssumption ==
    {MaxChildren, MaxSpawns, MaxHups, MaxForkFails} \subseteq Nat /\ ToGroup \in BOOLEAN

VARIABLES
    pc,             \* where the parent is, a handler included
    phase,          \* "init" in initChildren, "rescan" from then on
    idx,            \* loop counter of the function it is in
    scan,           \* process ids of the current pidList not handled yet
    cut,            \* a signal interrupts the reading of the ps output
    cur, target,    \* process and slot of the monitor message under way
    hand,           \* message read from a child and not handled yet
    monitorProcs, procCount,
    childCount, idleChildCount, killCount,
    poolCap,        \* number of child structs childPool has room for
    m_pid,          \* childPool[i].m_pid
    p2c, c2p,       \* halves of messages in the pipes
    cpc, job, msgVal,      \* child: where it is, its process, its last result
    proc,           \* the user's processes
    from,           \* where SIGINT found the parent, "none" before it
    exited,         \* the local variable of waitForChildren
    hups, spawns, forkFails,
    cutReads,       \* history: message bodies whose read SIGHUP interrupted
    grown,          \* history: SIGHUP made the configuration longer during init
    kills           \* history: kill() calls of the children that returned 0

posVars   == <<phase, idx, scan, cut, cur, target, hand>>
cfgVars   == <<monitorProcs, procCount>>
countVars == <<childCount, idleChildCount, killCount, poolCap, m_pid>>
childVars == <<cpc, job, msgVal, kills>>
sigVars   == <<from, exited, hups, cutReads, grown>>
envVars   == <<proc, spawns>>
vars == <<pc, posVars, cfgVars, countVars, p2c, c2p, childVars, sigVars, envVars,
          forkFails>>

Slots    == 1..MaxChildren
MaxNames == 1..Cardinality(Names)    \* entries of monitorProcs a file can fill

Junk == -1      \* the m_pid of a struct nobody has written
Exit == 0       \* the message "exit"; a positive number is the process of "monitor"

\* A message as the two halves write_message puts into a pipe.
Header(m) == <<"header", m>>
Body(m)   == <<"body", m>>
Message(m) == <<Header(m), Body(m)>>
IsHeader(h) == h[1] = "header"

Answers == {"available0", "available1", "exitComplete"}
Available(v) == IF v = 1 THEN "available1" ELSE "available0"

\* "poll" and "hWait" ask select before they read a header; "header" and
\* "hHeader" are that read after a select which failed, and so may have to wait.
HandlerPcs == {"hSend", "hWait", "hHeader", "hBody"}
ParentPcs  == {"scan", "pick", "fork", "writeHeader", "writeBody",
               "poll", "header", "body", "handle"}
\* The statements at which a signal finds the pool or a pipe half changed.
HalfDone   == {"fork", "writeBody", "body"}
Running    == pc \in ParentPcs \cup HandlerPcs

-----------------------------------------------------------------------------
(* Slips this code could contain.  No action uses them: put in the place of *)
(* the definition named behind each, they show that a property notices.    *)

KeepsDuplicates(f) == 1..Len(f)                                \* Kept
LastSkipped == idx >= procCount                                \* EndOfNames
AllButOneExited == exited + 1 >= childCount                    \* AllExited
MoreThanAllExited == exited > childCount                       \* AllExited

\* NewChild without the realloc of rescanProcs.
NoRealloc(p) ==
    /\ childCount + 1 \in Slots
    /\ childCount' = childCount + 1
    /\ target' = childCount + 1 /\ cur' = p /\ pc' = "fork"
    /\ UNCHANGED <<poolCap, idx, idleChildCount, m_pid>>

\* TakeMessage, leaving the old process in the struct.
KeepsPid(i, m) ==
    /\ idleChildCount' = idleChildCount + (IF m = "exitComplete" THEN 0 ELSE 1)
    /\ killCount' = killCount + (IF m = "available1" THEN 1 ELSE 0)
    /\ UNCHANGED m_pid

\* TakeMessage, counting every finished child as a kill.
CountsEveryAnswer(i, m) ==
    IF m \in {"available0", "available1"}
      THEN /\ idleChildCount' = idleChildCount + 1
           /\ m_pid' = [m_pid EXCEPT ![i] = 0]
           /\ killCount' = killCount + 1
      ELSE UNCHANGED <<idleChildCount, m_pid, killCount>>

-----------------------------------------------------------------------------
(* The configuration file.                                                 *)

\* readFile keeps the first line of every name.
Kept(f) == {k \in 1..Len(f) : \A j \in 1..(k-1) : f[j] # f[k]}
Rank(f, k) == Cardinality({j \in Kept(f) : j <= k})

\* The entries the file fills; readFile leaves the ones behind them as they are.
Fill(f, old) ==
    [n \in MaxNames |-> IF \E k \in Kept(f) : Rank(f, k) = n
                          THEN f[CHOOSE k \in Kept(f) : Rank(f, k) = n]
                          ELSE old[n]]

\* With 'procnanny' in the file, as without a file, readFile ends the program.
Unusable(f) == \E k \in 1..Len(f) : f[k] = Self

Init ==
    /\ pc = "scan" /\ phase = "init" /\ idx = 1 /\ scan = {} /\ cut = FALSE
    /\ cur = 0 /\ target = 0 /\ hand = "none"
    /\ \E f \in Files :
          /\ ~Unusable(f)
          /\ monitorProcs = Fill(f, [n \in MaxNames |-> Self])
          /\ procCount = Cardinality(Kept(f))
    /\ poolCap = procCount
    /\ childCount = 0 /\ idleChildCount = 0 /\ killCount = 0
    /\ m_pid  = [i \in Slots |-> Junk]
    /\ p2c    = [i \in Slots |-> <<>>]
    /\ c2p    = [i \in Slots |-> <<>>]
    /\ cpc    = [i \in Slots |-> "none"]
    /\ job    = [i \in Slots |-> 0]
    /\ msgVal = [i \in Slots |-> 0]
    /\ proc \in [Pids -> {"unused", "alive"}]
    /\ from = "none" /\ exited = 0
    /\ hups = 0 /\ spawns = 0 /\ forkFails = 0
    /\ cutReads = 0 /\ grown = FALSE /\ kills = 0

-----------------------------------------------------------------------------
(* The user's processes.                                                   *)

Listed(n) == {p \in Pids : proc[p] = "alive" /\ n \in Words[p]}

\* A process started after the last listing is none of the program's business.
Spawn ==
    /\ spawns < MaxSpawns /\ pc \in ParentPcs
    /\ \E p \in Pids : proc[p] = "unused" /\ proc' = [proc EXCEPT ![p] = "alive"]
    /\ spawns' = spawns + 1
    /\ UNCHANGED <<pc, posVars, cfgVars, countVars, p2c, c2p, childVars, sigVars,
                   forkFails>>

ProcessExit ==
    /\ \E p \in Pids : proc[p] = "alive" /\ proc' = [proc EXCEPT ![p] = "gone"]
    /\ UNCHANGED <<pc, posVars, cfgVars, countVars, p2c, c2p, childVars, sigVars,
                   spawns, forkFails>>

-----------------------------------------------------------------------------
(* The loops of initChildren and rescanProcs.                              *)

ProcessMonitored(p) == \E i \in 1..childCount : m_pid[i] = p

\* getIdleChildIndex returns i.
IsIdleChildIndex(i) ==
    i <= childCount /\ m_pid[i] = 0 /\ \A j \in 1..(i-1) : m_pid[j] # 0

\* initChildren makes room for the processes of a name that has several.
Room(found) ==
    IF phase = "init" /\ Cardinality(found) > 1 THEN Cardinality(found) ELSE 0

\* The list of the current name holds sc: go on with it or with the next name.
Continue(sc) ==
    /\ scan' = sc
    /\ pc'   = (IF sc = {} THEN "scan" ELSE "pick")
    /\ idx'  = (IF sc = {} THEN idx + 1 ELSE idx)

EndOfNames == idx > procCount

\* getPidList of the next name.  procCount is read again in every round, and
\* an interrupted fgets ends the list early.  After the last name parentLoop
\* sleeps: that is the state "poll" with idx = 1.
Scan ==
    /\ pc = "scan"
    /\ IF EndOfNames
         THEN /\ pc' = "poll" /\ phase' = "rescan" /\ idx' = 1
              /\ UNCHANGED <<scan, poolCap>>
         ELSE /\ \E found \in IF cut THEN SUBSET Listed(monitorProcs[idx])
                              ELSE {Listed(monitorProcs[idx])} :
                    Continue(found) /\ poolCap' = poolCap + Room(found)
              /\ UNCHANGED phase
    /\ cut' = FALSE
    /\ UNCHANGED <<cur, target, hand, cfgVars, childCount, idleChildCount,
                   killCount, m_pid, p2c, c2p, childVars, sigVars, envVars,
                   forkFails>>

\* childCount is incremented before the pipes are opened and the child exists.
NewChild(p) ==
    /\ childCount + 1 \in Slots
    /\ childCount' = childCount + 1
    /\ target' = childCount + 1
    /\ poolCap' = IF phase = "init" THEN poolCap ELSE childCount + 1
    /\ cur' = p
    /\ pc' = "fork"
    /\ UNCHANGED <<idx, idleChildCount, m_pid>>

IdleChild(p) ==
    /\ idleChildCount' = idleChildCount - 1
    /\ \E i \in Slots : /\ IsIdleChildIndex(i)
                        /\ target' = i
                        /\ m_pid' = [m_pid EXCEPT ![i] = p]
    /\ cur' = p
    /\ pc' = "writeHeader"
    /\ UNCHANGED <<idx, childCount, poolCap>>

\* The next process of the list.  rescanProcs skips the monitored ones and
\* prefers an idle child; initChildren looks at neither.
PickProcess ==
    /\ pc = "pick"
    /\ \E p \in scan :
          IF phase = "rescan" /\ ProcessMonitored(p)
            THEN /\ Continue(scan \ {p})
                 /\ UNCHANGED <<cur, target, childCount, idleChildCount, poolCap, m_pid>>
            ELSE /\ scan' = scan \ {p}
                 /\ IF phase = "rescan" /\ idleChildCount > 0
                      THEN IdleChild(p) ELSE NewChild(p)
    /\ UNCHANGED <<phase, cut, hand, cfgVars, killCount, p2c, c2p, childVars,
                   sigVars, envVars, forkFails>>

\* A failed fork has no branch of its own: the struct stays counted.
Fork ==
    /\ pc = "fork"
    /\ \/ /\ cpc' = [cpc EXCEPT ![target] = "forked"]
          /\ m_pid' = [m_pid EXCEPT ![target] = cur]
          /\ pc' = "writeHeader"
          /\ UNCHANGED <<idx, scan, cur, target, forkFails>>
       \/ /\ forkFails < MaxForkFails
          /\ forkFails' = forkFails + 1
          /\ Continue(scan) /\ cur' = 0 /\ target' = 0
          /\ UNCHANGED <<cpc, m_pid>>
    /\ UNCHANGED <<phase, cut, hand, cfgVars, childCount,
                   idleChildCount, killCount, poolCap, p2c, c2p, job, msgVal,
                   kills, sigVars, envVars>>

WriteHeader ==
    /\ pc = "writeHeader" /\ pc' = "writeBody"
    /\ p2c' = [p2c EXCEPT ![target] = Append(@, Header(cur))]
    /\ UNCHANGED <<posVars, cfgVars, countVars, c2p, childVars, sigVars, envVars,
                   forkFails>>

WriteBody ==
    /\ pc = "writeBody" /\ Continue(scan) /\ cur' = 0 /\ target' = 0
    /\ p2c' = [p2c EXCEPT ![target] = Append(@, Body(cur))]
    /\ UNCHANGED <<phase, cut, hand, cfgVars, countVars, c2p, childVars, sigVars, envVars,
                   forkFails>>

-----------------------------------------------------------------------------
(* parentLoop and readChildMessages: one message per child and round.      *)

\* Four bytes of a body taken for a header are a length of over a gigabyte:
\* the allocation fails, or the read takes all the pipe holds.
Misread(i, next) ==
    \/ pc' = "dead" /\ UNCHANGED c2p
    \/ pc' = next /\ c2p' = [c2p EXCEPT ![i] = <<>>]

\* A child with nothing to say is skipped, unless select was interrupted: its -1
\* counts as readable.
ReadHeader ==
    /\ pc \in {"poll", "header"}
    /\ \/ /\ pc = "poll" /\ idx > childCount
          /\ pc' = "scan" /\ idx' = 1 /\ UNCHANGED c2p
       \/ /\ pc = "poll" /\ idx <= childCount /\ c2p[idx] = <<>>
          /\ idx' = idx + 1 /\ UNCHANGED <<pc, c2p>>
       \/ /\ idx <= childCount /\ c2p[idx] # <<>> /\ IsHeader(Head(c2p[idx]))
          /\ pc' = "body" /\ c2p' = [c2p EXCEPT ![idx] = Tail(@)] /\ UNCHANGED idx
       \/ /\ idx <= childCount /\ c2p[idx] # <<>> /\ ~IsHeader(Head(c2p[idx]))
          /\ Misread(idx, "poll") /\ idx' = idx + 1
    /\ UNCHANGED <<phase, scan, cut, cur, target, hand, cfgVars, countVars,
                   p2c, childVars, sigVars, envVars, forkFails>>

ReadBody ==
    /\ pc = "body" /\ c2p[idx] # <<>>
    /\ hand' = Head(c2p[idx])[2]
    /\ c2p' = [c2p EXCEPT ![idx] = Tail(@)]
    /\ pc' = "handle"
    /\ UNCHANGED <<phase, idx, scan, cut, cur, target, cfgVars, countVars,
                   p2c, childVars, sigVars, envVars, forkFails>>

\* What readChildMessages and waitForChildren do with a message m of child i.
TakeMessage(i, m) ==
    IF m \in {"available0", "available1"}
      THEN /\ idleChildCount' = idleChildCount + 1
           /\ m_pid' = [m_pid EXCEPT ![i] = 0]
           /\ killCount' = killCount + (IF m = "available1" THEN 1 ELSE 0)
      ELSE UNCHANGED <<idleChildCount, m_pid, killCount>>

HandleMessage ==
    /\ pc = "handle" /\ pc' = "poll" /\ idx' = idx + 1
    /\ TakeMessage(idx, hand)
    /\ hand' = "none"
    /\ UNCHANGED <<phase, scan, cut, cur, target, cfgVars, childCount,
                   poolCap, p2c, c2p, childVars, sigVars, envVars, forkFails>>

-----------------------------------------------------------------------------
(* signalHandler.                                                          *)

\* The call SIGHUP falls into fails, and nothing tries it again.  A read_message
\* without its body goes on with what it has, which is nothing; one without its
\* header allocates what the unwritten struct asks for, and crashes.
Interrupted ==
    \/ /\ pc = "scan" /\ ~EndOfNames /\ cut' = TRUE
       /\ UNCHANGED <<pc, idx, cutReads>>
    \/ /\ pc = "poll" /\ idx <= childCount /\ c2p[idx] = <<>>
       /\ pc' = "header"
       /\ UNCHANGED <<cut, idx, cutReads>>
    \/ /\ pc = "hWait" /\ pc' = "hHeader"
       /\ \E i \in 1..childCount :
             (exited < childCount \/ i > idx) /\ c2p[i] = <<>> /\ idx' = i
       /\ UNCHANGED <<cut, cutReads>>
    \/ /\ pc \in {"header", "hHeader"} /\ c2p[idx] = <<>>
       /\ pc' = "dead"
       /\ UNCHANGED <<cut, idx, cutReads>>
    \/ /\ pc \in {"body", "hBody"} /\ c2p[idx] = <<>>
       /\ cutReads' = cutReads + 1
       /\ pc' = (IF pc = "body" THEN "poll" ELSE "hWait")
       /\ idx' = idx + 1
       /\ UNCHANGED cut

\* SIGHUP: readFile, between two statements of the parent or inside a call that
\* waits.
Sighup ==
    /\ Running /\ hups < MaxHups
    /\ hups' = hups + 1
    /\ \E f \in Files :
          \/ /\ Unusable(f)
             /\ pc' = "dead"
             /\ UNCHANGED <<cfgVars, cut, idx, cutReads, grown>>
          \/ /\ ~Unusable(f)
             /\ monitorProcs' = Fill(f, monitorProcs)
             /\ procCount' = Cardinality(Kept(f))
             /\ grown' = (grown \/ (phase = "init" /\ procCount' > procCount))
             /\ Interrupted \/ UNCHANGED <<pc, cut, idx, cutReads>>
    /\ UNCHANGED <<phase, scan, cur, target, hand, countVars, p2c, c2p,
                   childVars, from, exited, envVars, forkFails>>

\* SIGINT: the handler starts where the parent is, and what the parent held in
\* its local variables is lost.  A child that has not reached signal(SIGINT,
\* SIG_IGN) yet runs the handler it inherited.
Sigint ==
    /\ pc \in ParentPcs
    /\ from' = (IF pc \in HalfDone \cup {"handle"} THEN pc ELSE "whole")
    /\ pc' = "hSend" /\ idx' = 1
    /\ scan' = {} /\ cut' = FALSE /\ cur' = 0 /\ hand' = "none"
    /\ cpc' = [i \in Slots |-> IF ToGroup /\ cpc[i] = "forked"
                                 THEN "handler" ELSE cpc[i]]
    /\ UNCHANGED <<phase, target, cfgVars, countVars,
                   p2c, c2p, job, msgVal, kills, exited, hups, cutReads, grown,
                   envVars, forkFails>>

\* The loop over childPool as one step: every child reads a pipe of its own.
\* Between childCount++ and fork nobody reads the last one, if it is open.
SendExit ==
    /\ pc = "hSend" /\ pc' = "hWait"
    /\ p2c' = [i \in Slots |->
                 IF i > childCount \/ (from = "fork" /\ i = target)
                   THEN p2c[i] ELSE p2c[i] \o Message(Exit)]
    /\ UNCHANGED <<posVars, cfgVars, countVars, c2p, childVars, sigVars, envVars,
                   forkFails>>

\* waitForChildren polls the children in turn; the order is left open, but for
\* the child in whose read it waits after an interrupted select.
WaitHeader ==
    /\ \E i \in 1..childCount :
          /\ (pc = "hWait" /\ exited < childCount) \/ (pc = "hHeader" /\ i = idx)
          /\ c2p[i] # <<>>
          /\ idx' = i
          /\ IF IsHeader(Head(c2p[i]))
               THEN pc' = "hBody" /\ c2p' = [c2p EXCEPT ![i] = Tail(@)]
               ELSE Misread(i, "hWait")
    /\ UNCHANGED <<phase, scan, cut, cur, target, hand, cfgVars, countVars,
                   p2c, childVars, sigVars, envVars, forkFails>>

WaitBody ==
    /\ pc = "hBody" /\ c2p[idx] # <<>> /\ pc' = "hWait"
    /\ LET m == Head(c2p[idx])[2] IN
          /\ TakeMessage(idx, m)
          /\ exited' = exited + (IF m = "exitComplete" THEN 1 ELSE 0)
    /\ c2p' = [c2p EXCEPT ![idx] = Tail(@)]
    /\ UNCHANGED <<posVars, cfgVars, childCount, poolCap, p2c, childVars, from,
                   hups, cutReads, grown, envVars, forkFails>>

\* Before pipe() the descriptors are junk, and select fails on them.
WaitOnJunk ==
    /\ pc = "hWait" /\ from = "fork" /\ pc' = "dead"
    /\ UNCHANGED <<posVars, cfgVars, countVars, p2c, c2p, childVars, sigVars,
                   envVars, forkFails>>

AllExited == exited >= childCount

\* The final message gives killCount; exit closes the parent.
Finish ==
    /\ pc = "hWait" /\ AllExited /\ pc' = "done"
    /\ UNCHANGED <<posVars, cfgVars, countVars, p2c, c2p, childVars, sigVars,
                   envVars, forkFails>>

-----------------------------------------------------------------------------
(* The children.                                                           *)

parentOnly == <<pc, posVars, cfgVars, countVars, sigVars, spawns, forkFails>>

IgnoreSignals(i) ==
    /\ cpc[i] = "forked"
    /\ cpc' = [cpc EXCEPT ![i] = "read"]
    /\ UNCHANGED <<parentOnly, p2c, c2p, job, msgVal, kills, proc>>

\* read_message of the child: a header, then as many bytes as it announces.
\* When the parent was interrupted between its two writes these are the bytes
\* of "exit", and no message that follows can be told from the rest.
ChildRead(i) ==
    /\ cpc[i] = "read" /\ Len(p2c[i]) >= 2
    /\ LET m == p2c[i][1][2] IN
          IF p2c[i][2] = Body(m)
            THEN /\ p2c' = [p2c EXCEPT ![i] = Tail(Tail(@))]
                 /\ cpc' = [cpc EXCEPT ![i] =
                              IF m = Exit THEN "exitHeader" ELSE "sleep"]
                 /\ job' = [job EXCEPT ![i] = m]
            ELSE /\ cpc' = [cpc EXCEPT ![i] = "lost"]
                 /\ UNCHANGED <<p2c, job>>
    /\ UNCHANGED <<parentOnly, c2p, msgVal, kills, proc>>

\* monitorProcess after its sleep.  A process that ends between getPidList and
\* kill gives the answer of one that ended before: both are the last case.
MonitorProcess(i) ==
    /\ cpc[i] = "sleep"
    /\ cpc' = [cpc EXCEPT ![i] = "availableHeader"]
    /\ IF proc[job[i]] = "alive"
         THEN /\ proc' = [proc EXCEPT ![job[i]] = "gone"]
              /\ msgVal' = [msgVal EXCEPT ![i] = 1]
              /\ kills' = kills + 1
         ELSE UNCHANGED <<proc, msgVal, kills>>
    /\ UNCHANGED <<parentOnly, p2c, c2p, job>>

\* The four writes of a child: header and body of each of its two messages.
AfterWrite == [availableHeader |-> "availableBody", availableBody |-> "read",
               exitHeader |-> "exitBody", exitBody |-> "gone"]
WrittenHalf(i) ==
    CASE cpc[i] = "availableHeader" -> Header(Available(msgVal[i]))
      [] cpc[i] = "availableBody"   -> Body(Available(msgVal[i]))
      [] cpc[i] = "exitHeader"      -> Header("exitComplete")
      [] cpc[i] = "exitBody"        -> Body("exitComplete")

ChildWrite(i) ==
    /\ cpc[i] \in DOMAIN AfterWrite
    /\ c2p' = [c2p EXCEPT ![i] = Append(@, WrittenHalf(i))]
    /\ cpc' = [cpc EXCEPT ![i] = AfterWrite[cpc[i]]]
    /\ IF cpc[i] = "availableBody"
         THEN job' = [job EXCEPT ![i] = 0] /\ msgVal' = [msgVal EXCEPT ![i] = 0]
         ELSE UNCHANGED <<job, msgVal>>
    /\ UNCHANGED <<parentOnly, p2c, kills, proc>>

\* The handler in a child: its copy of childCount is its own number.
ChildHandler(i) ==
    \/ /\ cpc[i] = "handler"
       /\ p2c' = [j \in Slots |-> IF j <= i THEN p2c[j] \o Message(Exit) ELSE p2c[j]]
       /\ cpc' = [cpc EXCEPT ![i] = "taking"]
       /\ UNCHANGED <<parentOnly, c2p, job, msgVal, kills, proc>>
    \/ /\ cpc[i] = "taking"
       /\ \E j \in 1..i : /\ Len(c2p[j]) >= 2 /\ IsHeader(c2p[j][1])
                          /\ c2p' = [c2p EXCEPT ![j] = Tail(Tail(@))]
       /\ UNCHANGED <<parentOnly, p2c, cpc, job, msgVal, kills, proc>>

-----------------------------------------------------------------------------
Parent ==
    \/ Scan \/ PickProcess \/ Fork \/ WriteHeader \/ WriteBody
    \/ ReadHeader \/ ReadBody \/ HandleMessage
    \/ SendExit \/ WaitHeader \/ WaitBody \/ WaitOnJunk \/ Finish

Child(i) ==
    \/ IgnoreSignals(i) \/ ChildRead(i) \/ MonitorProcess(i)
    \/ ChildWrite(i) \/ ChildHandler(i)

Next ==
    \/ Parent
    \/ \E i \in Slots : Child(i)
    \/ Sighup \/ Sigint
    \/ Spawn \/ ProcessExit

Spec == Init /\ [][Next]_vars

\* The processes are scheduled; nothing obliges anyone to send a signal.
FairSpec == Spec /\ WF_vars(Parent) /\ \A i \in Slots : WF_vars(Child(i))

-----------------------------------------------------------------------------
(* Properties.                                                             *)

Halves(M) == {Header(m) : m \in M} \cup {Body(m) : m \in M}

\* Types, and the shape of the loops: the counters stay within the arrays.
TypeOK ==
    /\ pc \in ParentPcs \cup HandlerPcs \cup {"done", "dead"}
    /\ phase \in {"init", "rescan"} /\ cut \in BOOLEAN
    /\ idx \in 1..(MaxChildren + Cardinality(Names) + 2)
    /\ scan \subseteq Pids /\ cur \in Pids \cup {0} /\ target \in 0..childCount
    /\ hand \in Answers \cup {"none"}
    /\ monitorProcs \in [MaxNames -> Names \cup {Self}]
    /\ procCount \in 0..Cardinality(Names)
    /\ childCount \in 0..MaxChildren /\ {idleChildCount, killCount, poolCap} \subseteq Nat
    /\ m_pid \in [Slots -> Pids \cup {0, Junk}]
    /\ p2c \in [Slots -> Seq(Halves(Pids \cup {Exit}))]
    /\ c2p \in [Slots -> Seq(Halves(Answers))]
    /\ cpc \in [Slots -> {"none", "forked", "read", "sleep", "gone", "lost",
                           "handler", "taking"} \cup DOMAIN AfterWrite]
    /\ job \in [Slots -> Pids \cup {0}] /\ msgVal \in [Slots -> {0, 1}]
    /\ proc \in [Pids -> {"unused", "alive", "gone"}]
    /\ from \in HalfDone \cup {"handle", "whole", "none"} /\ exited \in 0..childCount
    /\ {hups, spawns, forkFails, cutReads, kills} \subseteq Nat /\ grown \in BOOLEAN

\* Outside the SIGINT handler idleChildCount is the number of children whose
\* m_pid is 0, and each of them is blocked in read with nothing in its pipes:
\* rescanProcs finds an index for every child it counts as idle, and what it
\* writes there is the next thing the child does, whatever signals came before.
PoolConsistent ==
    pc \in ParentPcs =>
        LET idle == {i \in 1..childCount : m_pid[i] = 0} IN
        /\ idleChildCount = Cardinality(idle)
        /\ \A i \in idle : cpc[i] = "read" /\ p2c[i] = <<>> /\ c2p[i] = <<>>

\* initChildren writes no struct outside childPool, unless a SIGHUP made the
\* list it walks longer than the one its malloc was sized for.
PoolInBounds == grown \/ childCount <= poolCap

\* When the parent prints its final message every child it counted has ended.
DoneMeansGone == pc = "done" => \A i \in 1..childCount : cpc[i] = "gone"

\* The final message never counts a kill that was not made, and misses at most
\* the one whose message SIGINT took out of the parent's hands, and one for
\* every message a SIGHUP cut in two.
TallyClose ==
    pc = "done" =>
        /\ killCount <= kills
        /\ kills - killCount <= cutReads + (IF from \in {"body", "handle"} THEN 1 ELSE 0)

\* The parent waits in a read that select did not announce, on a child with
\* nothing more to say: it holds the other end of the pipe itself, so the read
\* never ends.
Stuck ==
    /\ pc \in {"header", "hHeader"} /\ c2p[idx] = <<>>
    /\ cpc[idx] \in {"none", "gone"} \/ (cpc[idx] = "read" /\ p2c[idx] = <<>>)

\* "sends an exit message to each child, and waits for every child to send
\* back an exit complete acknowledgement": a SIGINT at any other statement
\* ends the program, if every fork succeeded, no child was caught before it
\* ignored the signal, and no SIGHUP cut a message, ended the program or made
\* a select fail.
ExitCompletes ==
    (/\ from \in {"whole", "handle"} /\ forkFails = 0
     /\ \A i \in Slots : cpc[i] \notin {"handler", "taking"})
        ~> (pc \in {"done", "dead"} \/ cutReads > 0 \/ Stuck)

Wanted(p) == proc[p] = "alive" /\ \E k \in 1..procCount : monitorProcs[k] \in Words[p]

\* A running process with a configured name does not stay: it is killed or
\* ends, however SIGHUP falls into initChildren, rescanProcs or a message,
\* unless the configuration drops its name, the parent stops, or a SIGHUP has
\* made the select on a silent child fail.
Promise ==
    \A p \in Pids : Wanted(p) ~> (~Wanted(p) \/ pc \notin ParentPcs \/ Stuck)

=============================================================================
