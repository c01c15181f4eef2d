--------------------------- MODULE ClientPidProofs ---------------------------
(***************************************************************************)
(* Proofs about ClientNode where process ids are not given out twice while *)
(* the client runs (and, for the last two theorems, a command line holds   *)
(* at most one configured name): a child kills only what was listed, two   *)
(* children never watch the same process, and the pool never has more      *)
(* children than there are processes.                                      *)
(***************************************************************************)
EXTENDS ClientNodeProofs

-----------------------------------------------------------------------------
(* What a process id stands for.                                           *)

\* Once a process id is in use its command line never changes.
LEMMA NamesStay ==
    ASSUME ~ReusePids, IndInv, [Next]_vars,
           NEW p \in Pids, NEW n, Bears(p, n)
    PROVE  Bears(p, n)'
<1>1. proc \in [Pids -> Processes]
  BY RestTypes DEF TypeOK
<1>2. ASSUME UNCHANGED proc PROVE Bears(p, n)'
  BY <1>2 DEF Bears
<1>3. ASSUME NEW q \in Pids, NEW st \in {"zombie", "free"},
             proc' = [proc EXCEPT ![q].st = st]
      PROVE  Bears(p, n)'
  BY <1>1, <1>3 DEF Bears
<1>4. CASE Spawn
  <2>1. PICK q \in Pids, w \in Commands :
           proc[q].st = "unused" /\ proc' = [proc EXCEPT ![q] = [st |-> "alive", words |-> w]]
    BY <1>4 DEF Spawn
  <2>2. q # p
    BY <2>1 DEF Bears
  <2>. QED
    BY <1>1, <2>1, <2>2 DEF Bears
<1>5. CASE ProcessExit \/ Reap
  BY <1>3, <1>5 DEF ProcessExit, Reap, Leave
<1>6. CASE ServerSendsConfig \/ ServerSendsExit \/ ServerCloses
  BY <1>2, <1>6 DEF ServerSendsConfig, ServerSendsExit, ServerCloses, procVars
<1>7. CASE Parent
  BY <1>2, <1>7 DEF Parent, ReceiveConfig, InitScan, InitFork, ReadChild, ReadServer,
         Rescan, RescanPid, SendExit, WaitForChildren, Report, KilledBySigpipe, procVars
<1>8. ASSUME NEW i \in Slots, Child(i) PROVE Bears(p, n)'
  <2>1. CASE ChildRead(i) \/ ChildCheck(i) \/ ChildReport(i)
    BY <1>2, <2>1 DEF ChildRead, ChildCheck, ChildReport, procVars
  <2>2. CASE ChildKill(i)
    <3>1. CASE UNCHANGED proc
      BY <1>2, <3>1
    <3>2. CASE InPs(job[i].pid) /\ Leave(job[i].pid)
      <4>1. PICK st \in {"zombie", "free"} : proc' = [proc EXCEPT ![job[i].pid].st = st]
        BY <3>2 DEF Leave
      <4>2. job[i].pid \in Pids
        BY <2>2, BusyChild DEF ChildKill, Busy
      <4>. QED
        BY <1>3, <4>1, <4>2
    <3>. QED
      BY <2>2, <3>1, <3>2 DEF ChildKill
  <2>. QED
    BY <1>8, <2>1, <2>2 DEF Child
<1>9. CASE Finished \/ UNCHANGED vars
  BY <1>2, <1>9 DEF Finished, vars, procVars
<1>. QED
  BY <1>4, <1>5, <1>6, <1>7, <1>8, <1>9 DEF Next, Environment

-----------------------------------------------------------------------------
(* A request names what was listed.                                        *)

\* RequestsBear, of the list and of one child.
ScanBears == pc \in {"initFork", "rescanPid"} => \A p \in scan : Bears(p, config[idx])

ChildBears(i) ==
    /\ \A k \in 1..Len(p2c[i]) :
          p2c[i][k].type = "monitor" => Bears(p2c[i][k].pid, p2c[i][k].name)
    /\ cpc[i] \in Busy => Bears(job[i].pid, job[i].name)

LEMMA RequestsParts == RequestsBear <=> ScanBears /\ \A i \in Slots : ChildBears(i)
BY DEF RequestsBear, ScanBears, ChildBears

\* What getPidList returns bears the name asked for.
LEMMA ListedBear ==
    ASSUME NEW n, NEW p \in Listed(n)
    PROVE  p \in Pids /\ Bears(p, n)
BY DEF Listed, InPs, Bears

\* The list loses process ids until the next name is looked up.
LEMMA ScanBearsStep ==
    ASSUME ~ReusePids, IndInv, ScanBears, [Next]_vars
    PROVE  ScanBears'
<1>1. scan \subseteq Pids
  BY RestTypes
<1>2. ASSUME UNCHANGED <<pc, idx, config>>, scan' \subseteq scan PROVE ScanBears'
  BY <1>1, <1>2, NamesStay DEF ScanBears
<1>3. ASSUME pc' \notin {"initFork", "rescanPid"} PROVE ScanBears'
  BY <1>3 DEF ScanBears
<1>4. CASE Environment
  BY <1>2, <1>4 DEF Environment, Spawn, ProcessExit, Reap, ServerSendsConfig,
         ServerSendsExit, ServerCloses, parentVars
<1>5. CASE ReceiveConfig \/ ReadServer \/ SendExit \/ Report \/ KilledBySigpipe
  BY <1>3, <1>5 DEF ReceiveConfig, ReadServer, SendExit, Report, KilledBySigpipe
<1>6. CASE ReadChild \/ WaitForChildren
  BY <1>3, <1>6 DEF ReadChild, WaitForChildren
<1>7. CASE InitScan \/ Rescan
  <2>1. CASE pc' \notin {"initFork", "rescanPid"}
    BY <1>3, <2>1
  <2>2. CASE pc' \in {"initFork", "rescanPid"}
    <3>1. scan' = Listed(config[idx]) /\ UNCHANGED <<idx, config>>
      BY <1>7, <2>2 DEF InitScan, Rescan
    <3>. QED
      BY <3>1, ListedBear, NamesStay DEF ScanBears
  <2>. QED
    BY <2>1, <2>2
<1>8. CASE InitFork \/ RescanPid
  <2>1. /\ scan' \subseteq scan /\ UNCHANGED config
        /\ scan' # {} => UNCHANGED <<pc, idx>>
        /\ scan' = {} => pc' \notin {"initFork", "rescanPid"}
    BY <1>8 DEF InitFork, RescanPid
  <2>. QED
    BY <1>2, <1>3, <2>1
<1>9. ASSUME NEW i \in Slots, Child(i) PROVE ScanBears'
  BY <1>2, <1>9 DEF Child, ChildRead, ChildCheck, ChildKill, ChildReport, parentVars
<1>10. CASE Finished \/ UNCHANGED vars
  BY <1>2, <1>10 DEF Finished, vars, parentVars
<1>. QED
  BY <1>4, <1>5, <1>6, <1>7, <1>8, <1>9, <1>10 DEF Next, Parent

\* A child whose pipe, job and place do not change has nothing new.
LEMMA ChildBearsKept ==
    ASSUME ~ReusePids, IndInv, [Next]_vars, NEW i \in Slots, ChildBears(i),
           p2c'[i] = p2c[i], cpc'[i] \in Busy => cpc[i] \in Busy /\ job'[i] = job[i]
    PROVE  ChildBears(i)'
<1>1. /\ p2c[i] \in Seq(MonitorMsgs \cup {ExitMsg})
      /\ cpc[i] \in Busy => job[i].pid \in Pids
  BY SlotParts, BusyChild DEF SlotTypes
<1>2. ASSUME NEW k \in 1..Len(p2c[i]), p2c[i][k].type = "monitor"
      PROVE  p2c[i][k].pid \in Pids
  <2>1. p2c[i][k] \in MonitorMsgs
    BY <1>1, <1>2 DEF ExitMsg
  <2>. QED
    BY <2>1 DEF MonitorMsgs
<1>. QED
  BY <1>1, <1>2, NamesStay DEF ChildBears

\* A request put behind what is in the pipe, or taken out of it.
LEMMA ChildBearsAppend ==
    ASSUME ~ReusePids, IndInv, [Next]_vars, NEW i \in Slots, ChildBears(i),
           NEW m \in MonitorMsgs \cup {ExitMsg},
           m.type = "monitor" => Bears(m.pid, m.name),
           p2c'[i] = Append(p2c[i], m), cpc'[i] = cpc[i], job'[i] = job[i]
    PROVE  ChildBears(i)'
<1>. DEFINE M == MonitorMsgs \cup {ExitMsg}
<1>1. PICK s \in Seq(M) : s = p2c[i]
  BY SlotParts DEF SlotTypes
<1>2. PICK t : t = Append(s, m)
  OBVIOUS
<1>3. /\ Len(s) \in Nat /\ Len(t) = Len(s) + 1 /\ t[Len(t)] = m
      /\ \A k \in 1..Len(s) : t[k] = s[k] /\ s[k] \in M
  BY <1>1, <1>2, AppendMembers
<1>4. \A x \in M : x.type = "monitor" => x.pid \in Pids
  BY DEF MonitorMsgs, ExitMsg
<1>5. ASSUME NEW k \in 1..Len(t), t[k].type = "monitor" PROVE Bears(t[k].pid, t[k].name)'
  <2>1. k = Len(t) \/ k \in 1..Len(s)
    BY ONLY <1>3
  <2>2. Bears(t[k].pid, t[k].name) /\ t[k].pid \in Pids
    BY <1>1, <1>3, <1>4, <1>5, <2>1 DEF ChildBears
  <2>. QED
    BY <2>2, NamesStay
<1>6. cpc[i] \in Busy => Bears(job[i].pid, job[i].name)'
  BY BusyChild, NamesStay DEF ChildBears
<1>. QED
  BY <1>1, <1>2, <1>5, <1>6 DEF ChildBears

LEMMA ChildBearsRead ==
    ASSUME ~ReusePids, IndInv, [Next]_vars, NEW i \in Slots, ChildBears(i), ChildRead(i)
    PROVE  ChildBears(i)'
<1>. DEFINE M == MonitorMsgs \cup {ExitMsg}
<1>1. SlotTypes
  BY SlotParts
<1>2. PICK s \in Seq(M) : s = p2c[i] /\ s # <<>>
  BY <1>1 DEF SlotTypes, ChildRead
<1>3. PICK t : t = Tail(s)
  OBVIOUS
<1>4. /\ Head(s) = s[1] /\ 1 \in 1..Len(s) /\ s[1] \in M
      /\ \A k \in 1..Len(t) : t[k] = s[k + 1] /\ k + 1 \in 1..Len(s) /\ s[k + 1] \in M
  BY <1>2, <1>3, TailFacts
<1>5. p2c'[i] = t
  BY <1>1, <1>2, <1>3 DEF ChildRead, SlotTypes
<1>6. \A x \in M : x.type = "monitor" => x.pid \in Pids
  BY DEF MonitorMsgs, ExitMsg
<1>7. ASSUME NEW k \in 1..Len(t), t[k].type = "monitor" PROVE Bears(t[k].pid, t[k].name)'
  <2>1. Bears(t[k].pid, t[k].name) /\ t[k].pid \in Pids
    BY <1>2, <1>4, <1>6, <1>7 DEF ChildBears
  <2>. QED
    BY <2>1, NamesStay
<1>8. cpc'[i] \in Busy => job'[i] = s[1] /\ s[1].type = "monitor"
  BY <1>1, <1>2, <1>4 DEF ChildRead, SlotTypes, Busy
<1>9. s[1].type = "monitor" => Bears(s[1].pid, s[1].name)'
  BY <1>2, <1>4, <1>6, NamesStay DEF ChildBears
<1>. QED
  BY <1>5, <1>7, <1>8, <1>9 DEF ChildBears

\* The parent asks a child for a process of the list it has just read.
LEMMA ChildBearsFork ==
    ASSUME ~ReusePids, IndInv, [Next]_vars, NEW i \in Slots, ChildBears(i),
           NEW n \in Names, NEW p \in Pids, Bears(p, n),
           ForkChild(n, p) \/ ReuseChild(n, p)
    PROVE  ChildBears(i)'
<1>1. SlotTypes
  BY SlotParts
<1>2. Monitor(n, p) \in MonitorMsgs /\ Monitor(n, p).pid = p /\ Monitor(n, p).name = n
  BY DEF Monitor, MonitorMsgs
<1>3. CASE ForkChild(n, p)
  <2>1. CASE p2c'[i] = p2c[i] /\ cpc'[i] = cpc[i]
    BY <1>3, <2>1, ChildBearsKept DEF ForkChild
  <2>2. CASE p2c'[i] = <<Monitor(n, p)>> /\ cpc'[i] = "read"
    <3>1. /\ \A k \in 1..Len(p2c'[i]) : p2c'[i][k] = Monitor(n, p)
          /\ cpc'[i] \notin Busy
      BY <2>2 DEF Busy
    <3>. QED
      BY <1>2, <3>1, NamesStay DEF ChildBears
  <2>. QED
    BY <1>1, <1>3, <2>1, <2>2 DEF ForkChild, SlotTypes
<1>4. CASE ReuseChild(n, p)
  <2>1. CASE p2c'[i] = p2c[i]
    BY <1>4, <2>1, ChildBearsKept DEF ReuseChild, childVars
  <2>2. CASE p2c'[i] = Append(p2c[i], Monitor(n, p))
    BY <1>2, <1>4, <2>2, ChildBearsAppend DEF ReuseChild, childVars
  <2>. QED
    BY <1>1, <1>4, <2>1, <2>2 DEF ReuseChild, SlotTypes
<1>. QED
  BY <1>3, <1>4

LEMMA ChildBearsStep ==
    ASSUME ~ReusePids, IndInv, RequestsBear, [Next]_vars, NEW i \in Slots
    PROVE  ChildBears(i)'
<1>1. SlotTypes /\ ChildBears(i) /\ ScanBears
  BY SlotParts, RequestsParts
<1>2. ASSUME p2c'[i] = p2c[i], cpc'[i] \in Busy => cpc[i] \in Busy /\ job'[i] = job[i]
      PROVE  ChildBears(i)'
  BY <1>1, <1>2, ChildBearsKept
<1>3. ASSUME UNCHANGED <<p2c, cpc, job>> PROVE ChildBears(i)'
  BY <1>2, <1>3
<1>4. CASE Environment
  BY <1>3, <1>4 DEF Environment, Spawn, ProcessExit, Reap, ServerSendsConfig,
         ServerSendsExit, ServerCloses, pipeVars, childVars
<1>5. CASE ReceiveConfig \/ InitScan \/ ReadServer \/ Rescan \/ Report \/ KilledBySigpipe
  BY <1>3, <1>5 DEF ReceiveConfig, InitScan, ReadServer, Rescan, Report,
         KilledBySigpipe, pipeVars, childVars
<1>6. CASE ReadChild \/ WaitForChildren
  BY <1>3, <1>6 DEF ReadChild, WaitForChildren, childVars
<1>7. CASE InitFork \/ RescanPid
  <2>1. PICK p \in scan : \/ ForkChild(config[idx], p) \/ ReuseChild(config[idx], p)
                          \/ UNCHANGED <<pipeVars, childVars>>
    BY <1>7 DEF InitFork, RescanPid
  <2>2. pc \in {"initFork", "rescanPid"}
    BY <1>7 DEF InitFork, RescanPid
  <2>3. config[idx] \in Names /\ p \in Pids /\ Bears(p, config[idx])
    BY <1>1, <2>1, <2>2, ScannedName, RestTypes DEF ScanBears
  <2>. QED
    BY <1>1, <1>3, <2>1, <2>3, ChildBearsFork DEF pipeVars, childVars
<1>8. CASE SendExit
  <2>1. UNCHANGED <<cpc, job>>
    BY <1>8 DEF SendExit, childVars
  <2>2. CASE p2c'[i] = p2c[i]
    BY <1>2, <2>1, <2>2
  <2>3. CASE p2c'[i] = Append(p2c[i], ExitMsg)
    BY <1>1, <2>1, <2>3, ChildBearsAppend DEF ExitMsg
  <2>. QED
    BY <1>1, <1>8, <2>2, <2>3 DEF SendExit, SlotTypes
<1>9. ASSUME NEW j \in Slots, Child(j) PROVE ChildBears(i)'
  <2>1. CASE i # j
    BY <1>1, <1>2, <1>9, <2>1
    DEF Child, ChildRead, ChildCheck, ChildKill, ChildReport, SlotTypes
  <2>2. CASE i = j /\ ChildRead(i)
    BY <1>1, <2>2, ChildBearsRead
  <2>3. CASE i = j /\ (ChildCheck(i) \/ ChildKill(i) \/ ChildReport(i))
    BY <1>1, <1>2, <2>3 DEF ChildCheck, ChildKill, ChildReport, SlotTypes, Busy
  <2>. QED
    BY <1>9, <2>1, <2>2, <2>3 DEF Child
<1>10. CASE Finished \/ UNCHANGED vars
  BY <1>3, <1>10 DEF Finished, vars, pipeVars, childVars
<1>. QED
  BY <1>4, <1>5, <1>6, <1>7, <1>8, <1>9, <1>10 DEF Next, Parent

LEMMA RequestsBearInvariant ==
    ASSUME ~ReusePids PROVE Spec => [](IndInv /\ RequestsBear)
<1>1. Init => RequestsBear
  BY DEF Init, RequestsBear, Busy
<1>2. IndInv /\ RequestsBear /\ [Next]_vars => RequestsBear'
  BY RequestsParts, ScanBearsStep, ChildBearsStep
  DEF RequestsBear, ScanBears, ChildBears
<1>. QED
  BY <1>1, <1>2, Inductive, PTL DEF Spec

\* A child kills only a process whose command line has the name it was listed
\* under, however long ago it was asked to: the sleep, the check and the kill
\* are separate steps, and the process may have ended between any two.
THEOREM KillsListedOnly == ASSUME ~ReusePids PROVE Spec => KillsWhatWasListed
<1>1. ASSUME RequestsBear, NEW i \in Slots, cpc[i] = "kill"
      PROVE  job[i].name \in proc[job[i].pid].words
  BY <1>1 DEF RequestsBear, Bears, Busy
<1>2. RequestsBear => \A i \in Slots : cpc[i] = "kill" /\ cpc'[i] = "report" /\ msgVal'[i] = 1
                         => job[i].name \in proc[job[i].pid].words
  BY <1>1
<1>. QED
  BY <1>2, RequestsBearInvariant, PTL DEF KillsWhatWasListed

-----------------------------------------------------------------------------
(* Command lines with one configured name each.                            *)

\* At most one word of a command line is a name a configuration may list.
OneNameEach == \A w \in Commands : \A a, b \in w : a = b

LEMMA OneBearing ==
    ASSUME OneNameEach, TypeOK, NEW p \in Pids, NEW a, NEW b, Bears(p, a), Bears(p, b)
    PROVE  a = b
BY DEF OneNameEach, TypeOK, Processes, Bears

\* What the steps leave of the part of PidInv that looks at m_pid alone.
WatchInv ==
    /\ NoDoubleMonitor
    /\ childCount = Cardinality(Forked) + forkFails
    /\ Cardinality(Forked) <= Cardinality(Pids)

LEMMA ForkedFacts ==
    ASSUME TypeOK
    PROVE  /\ m_pid \in [Slots -> Pids \cup {0, Junk}] /\ Forked \subseteq Slots
           /\ IsFiniteSet(Forked) /\ Cardinality(Forked) \in Nat
           /\ IsFiniteSet(Pids) /\ Cardinality(Pids) \in Nat
           /\ childCount \in Nat /\ forkFails \in Nat
           /\ 0 \notin Pids /\ Junk \notin Pids /\ Junk # 0
<1>1. Forked \subseteq Slots
  BY DEF Forked
<1>2. IsFiniteSet(Forked) /\ Cardinality(Forked) \in Nat
  BY <1>1, SlotsFinite, FS_Subset
<1>3. IsFiniteSet(Pids) /\ Cardinality(Pids) \in Nat
  BY PidSets, PidsAssumption
<1>4. 0 \notin Pids /\ Junk \notin Pids /\ Junk # 0
  BY PidsAssumption DEF Junk
<1>. QED
  BY <1>1, <1>2, <1>3, <1>4 DEF TypeOK

\* Steps that hand no process to a child.
LEMMA WatchKept ==
    ASSUME IndInv, WatchInv, UNCHANGED <<childCount, forkFails>>,
           NEW i \in Slots, m_pid[i] # Junk,
           m_pid' = m_pid \/ m_pid' = [m_pid EXCEPT ![i] = 0]
    PROVE  WatchInv' /\ Forked' = Forked
<1>1. m_pid \in [Slots -> Pids \cup {0, Junk}] /\ Junk # 0
  BY RestTypes, ForkedFacts
<1>2. Forked' = Forked
  BY <1>1 DEF Forked
<1>3. NoDoubleMonitor'
  BY <1>1 DEF WatchInv, NoDoubleMonitor
<1>. QED
  BY <1>2, <1>3 DEF WatchInv

LEMMA WatchSame ==
    ASSUME WatchInv, UNCHANGED <<childCount, forkFails, m_pid>>
    PROVE  WatchInv' /\ Forked' = Forked
BY DEF WatchInv, NoDoubleMonitor, Forked

\* A process that no struct names may be given to an idle struct.
LEMMA WatchReuse ==
    ASSUME IndInv, WatchInv, NEW n, NEW p \in Pids, ReuseChild(n, p),
           \A i \in Slots : m_pid[i] # p
    PROVE  WatchInv'
<1>1. /\ m_pid \in [Slots -> Pids \cup {0, Junk}] /\ Junk # 0
      /\ p # Junk
  BY RestTypes, ForkedFacts
<1>2. PICK i \in Slots : m_pid[i] = 0 /\ m_pid' = [m_pid EXCEPT ![i] = p]
  BY DEF ReuseChild, IsIdleChildIndex
<1>3. UNCHANGED <<childCount, forkFails>>
  BY DEF ReuseChild
<1>4. Forked' = Forked
  BY <1>1, <1>2 DEF Forked
<1>5. NoDoubleMonitor'
  BY <1>1, <1>2 DEF WatchInv, NoDoubleMonitor
<1>. QED
  BY <1>3, <1>4, <1>5 DEF WatchInv

\* Without an idle struct the children watch different processes, and one
\* more process is there that none of them watches: a pigeonhole is free.
LEMMA RoomForOne ==
    ASSUME IndInv, WatchInv, NEW p \in Pids,
           \A i \in Slots : m_pid[i] # p, \A i \in Slots : m_pid[i] # 0
    PROVE  Cardinality(Forked) + 1 <= Cardinality(Pids)
<1>1. /\ m_pid \in [Slots -> Pids \cup {0, Junk}] /\ Forked \subseteq Slots
      /\ IsFiniteSet(Pids) /\ Cardinality(Pids) \in Nat
      /\ Cardinality(Forked) \in Nat /\ 0 \notin Pids /\ Junk \notin Pids
  BY RestTypes, ForkedFacts
<1>. DEFINE f == [i \in Forked |-> m_pid[i]]
            T == Pids \ {p}
<1>2. \A i \in Forked : m_pid[i] \in T
  BY <1>1 DEF Forked
<1>3. \A i, j \in Forked : m_pid[i] = m_pid[j] => i = j
  BY <1>1, <1>2 DEF WatchInv, NoDoubleMonitor
<1>4. f \in Injection(Forked, T)
  BY <1>2, <1>3 DEF Injection, IsInjective
<1>5. IsFiniteSet(T) /\ Cardinality(T) = Cardinality(Pids) - 1
  BY <1>1, FS_RemoveElement
<1>6. Cardinality(Forked) <= Cardinality(T)
  <2>. HIDE DEF f, T
  <2>. QED
    BY <1>4, <1>5, FS_Injection
<1>. QED
  BY <1>1, <1>5, <1>6

LEMMA WatchFork ==
    ASSUME IndInv, WatchInv, NEW n, NEW p \in Pids, ForkChild(n, p),
           \A i \in Slots : m_pid[i] # p, \A i \in Slots : m_pid[i] # 0
    PROVE  WatchInv'
<1>1. /\ m_pid \in [Slots -> Pids \cup {0, Junk}] /\ Forked \subseteq Slots
      /\ childCount \in Nat /\ forkFails \in Nat
      /\ Cardinality(Forked) \in Nat /\ Cardinality(Pids) \in Nat /\ p # Junk
  BY RestTypes, ForkedFacts
<1>2. PICK new \in Slots : new = childCount + 1
  BY DEF ForkChild
<1>3. childCount' = childCount + 1
  BY DEF ForkChild
<1>4. m_pid[new] = Junk
  <2>1. PipeShape(new) /\ ~(new <= childCount)
    BY <1>1, <1>2, SlotParts DEF SlotsInv
  <2>. QED
    BY <2>1 DEF PipeShape, Lifetime
<1>5. CASE forkFails' = forkFails + 1 /\ UNCHANGED m_pid
  <2>1. Forked' = Forked /\ NoDoubleMonitor'
    BY <1>5 DEF Forked, WatchInv, NoDoubleMonitor
  <2>. QED
    BY <1>1, <1>3, <1>5, <2>1 DEF WatchInv
<1>6. CASE UNCHANGED forkFails /\ m_pid' = [m_pid EXCEPT ![new] = p]
  <2>1. Forked' = Forked \cup {new} /\ new \notin Forked
    BY <1>1, <1>4, <1>6 DEF Forked
  <2>2. Cardinality(Forked') = Cardinality(Forked) + 1
    BY <1>1, <2>1, SlotCount
  <2>3. NoDoubleMonitor'
    BY <1>1, <1>6 DEF WatchInv, NoDoubleMonitor
  <2>4. Cardinality(Forked) + 1 <= Cardinality(Pids)
    BY RoomForOne
  <2>. QED
    BY <1>1, <1>3, <1>6, <2>2, <2>3, <2>4 DEF WatchInv
<1>. QED
  BY <1>2, <1>5, <1>6 DEF ForkChild

-----------------------------------------------------------------------------
(* The first children.                                                     *)

\* A process crossed off no list yet has no child, and the other way round.
LEMMA NotGivenOut ==
    ASSUME OneNameEach, IndInv, PidInv, ScanBears, pc = "initFork", NEW p \in scan
    PROVE  \A i \in Slots : m_pid[i] # p /\ m_pid[i] # 0
<1>1. /\ p \in Pids /\ idx <= Len(config) /\ idx \in Nat \ {0} /\ Len(config) \in Nat
      /\ 0 \notin Pids /\ Junk \notin Pids /\ Junk # 0 /\ TypeOK
  BY RestTypes, ScannedName, ForkedFacts
<1>2. Bears(p, config[idx]) /\ idx \in 1..Len(config)
  BY <1>1 DEF ScanBears
<1>3. ~GivenOut(p)
  <2>1. ASSUME NEW j \in 1..Len(config), j < idx, Bears(p, config[j]) PROVE FALSE
    <3>1. config[j] = config[idx]
      BY <1>1, <1>2, <2>1, OneBearing
    <3>. QED
      BY <1>1, <1>2, <2>1, <3>1 DEF PidInv, NamedOnce
  <2>. QED
    BY <2>1 DEF GivenOut
<1>. QED
  BY <1>1, <1>3 DEF PidInv, InitialPool, Forked

LEMMA NamedOnceStep ==
    ASSUME IndInv, NamedOnce, [Next]_vars
    PROVE  NamedOnce'
<1>1. ASSUME UNCHANGED config PROVE NamedOnce'
  BY <1>1 DEF NamedOnce
<1>2. ASSUME NEW m \in Readable, config' = IF m.type = "config" THEN m.procs ELSE config
      PROVE  NamedOnce'
  <2>1. CASE m.type = "config" /\ inbox # <<>>
    <3>1. m = Head(inbox) /\ inbox \in InboxType
      BY <2>1, RestTypes DEF Readable
    <3>2. m \in [type : {"config"}, procs : Configs] \cup [type : {"exit"}, procs : {<<>>}]
      BY <2>1, <3>1 DEF InboxType
    <3>3. config' \in Configs
      BY <1>2, <2>1, <3>2
    <3>. QED
      BY <3>3, ConfigsAssumption DEF NamedOnce
  <2>2. CASE m.type = "config" /\ inbox = <<>>
    <3>1. m \in [type : {"config", "exit", "other"}, procs : {config}]
      BY <2>2 DEF Readable
    <3>. QED
      BY <1>1, <1>2, <2>2, <3>1
  <2>3. CASE m.type # "config"
    BY <1>1, <1>2, <2>3
  <2>. QED
    BY <2>1, <2>2, <2>3
<1>3. CASE Environment
  BY <1>1, <1>3 DEF Environment, Spawn, ProcessExit, Reap, ServerSendsConfig,
         ServerSendsExit, ServerCloses, parentVars
<1>4. CASE ReceiveConfig \/ ReadServer
  BY <1>1, <1>2, <1>4 DEF ReceiveConfig, ReadServer
<1>5. CASE InitScan \/ InitFork \/ ReadChild \/ Rescan \/ RescanPid
  BY <1>1, <1>5 DEF InitScan, InitFork, ReadChild, Rescan, RescanPid
<1>6. CASE SendExit \/ WaitForChildren \/ Report \/ KilledBySigpipe
  BY <1>1, <1>6 DEF SendExit, WaitForChildren, Report, KilledBySigpipe
<1>7. ASSUME NEW i \in Slots, Child(i) PROVE NamedOnce'
  BY <1>1, <1>7 DEF Child, ChildRead, ChildCheck, ChildKill, ChildReport, parentVars
<1>8. CASE Finished \/ UNCHANGED vars
  BY <1>1, <1>8 DEF Finished, vars, parentVars
<1>. QED
  BY <1>3, <1>4, <1>5, <1>6, <1>7, <1>8 DEF Next, Parent

\* What GivenOut says of a process stays true when the scan goes on.
LEMMA GivenOutStays ==
    ASSUME ~ReusePids, IndInv, [Next]_vars, NEW p \in Pids, GivenOut(p),
           UNCHANGED config,
           \/ UNCHANGED <<pc, idx, scan>>
           \/ pc = "initScan" /\ idx' \in {idx, idx + 1}
           \/ /\ pc = "initFork" /\ scan' \subseteq scan
              /\ UNCHANGED <<pc, idx>> \/ idx' = idx + 1
    PROVE  GivenOut(p)'
<1>1. idx \in Nat \ {0} /\ Len(config) \in Nat
  BY RestTypes
<1>2. CASE \E j \in 1..Len(config) : j < idx /\ Bears(p, config[j])
  <2>1. PICK j \in 1..Len(config) : j < idx /\ Bears(p, config[j])
    BY <1>2
  <2>2. j < idx' /\ Bears(p, config[j])' /\ j \in 1..Len(config')
    BY <1>1, <2>1, NamesStay
  <2>. QED
    BY <2>2 DEF GivenOut
<1>3. CASE pc = "initFork" /\ Bears(p, config[idx]) /\ p \notin scan
  <2>1. PICK n : n = config[idx]
    OBVIOUS
  <2>2. Bears(p, n)'
    BY <1>3, <2>1, NamesStay
  <2>3. CASE UNCHANGED <<pc, idx>> /\ scan' \subseteq scan
    BY <1>3, <2>1, <2>2, <2>3 DEF GivenOut
  <2>4. CASE idx' = idx + 1
    <3>1. idx \in 1..Len(config') /\ idx < idx' /\ config'[idx] = n
      BY <1>1, <1>3, <2>1, <2>4, ScannedName
    <3>. QED
      BY <2>2, <3>1 DEF GivenOut, Bears
  <2>. QED
    BY <1>3, <2>3, <2>4
<1>. QED
  BY <1>2, <1>3 DEF GivenOut

LEMMA InitialPoolStep ==
    ASSUME ~ReusePids, OneNameEach, IndInv, PidInv, ScanBears, [Next]_vars
    PROVE  InitialPool'
<1>0. /\ m_pid \in [Slots -> Pids \cup {0, Junk}] /\ idx \in Nat \ {0} /\ Len(config) \in Nat
  BY RestTypes, ForkedFacts
<1>1. ASSUME pc' \notin {"receiveConfig", "initScan", "initFork"} PROVE InitialPool'
  BY <1>1 DEF InitialPool
<1>2. ASSUME NEW i \in Forked, pc \in {"initScan", "initFork"}
      PROVE  m_pid[i] # 0 /\ m_pid[i] \in Pids /\ GivenOut(m_pid[i])
  BY <1>0, <1>2 DEF Forked, PidInv, InitialPool
<1>3. ASSUME UNCHANGED <<pc, idx, scan, config, m_pid>> PROVE InitialPool'
  <2>1. Forked' = Forked
    BY <1>3 DEF Forked
  <2>2. pc' = "receiveConfig" => Forked' = {}
    BY <1>3, <2>1 DEF PidInv, InitialPool
  <2>3. ASSUME pc \in {"initScan", "initFork"}, NEW i \in Forked
        PROVE  m_pid'[i] # 0 /\ GivenOut(m_pid[i])'
    BY <1>2, <1>3, <2>3, GivenOutStays
  <2>. QED
    BY <1>3, <2>1, <2>2, <2>3 DEF InitialPool, GivenOut
<1>4. CASE Environment
  BY <1>3, <1>4 DEF Environment, Spawn, ProcessExit, Reap, ServerSendsConfig,
         ServerSendsExit, ServerCloses, parentVars, poolVars
<1>5. CASE ReceiveConfig
  <2>1. Forked' = {} /\ pc' = "initScan"
    BY <1>5 DEF ReceiveConfig, Forked, PidInv, InitialPool
  <2>. QED
    BY <2>1 DEF InitialPool
<1>6. CASE InitScan
  <2>1. CASE pc' = "read"
    BY <1>1, <2>1
  <2>2. CASE pc' # "read"
    <3>1. /\ pc = "initScan" /\ pc' \in {"initScan", "initFork"} /\ UNCHANGED <<m_pid, config>>
          /\ idx' \in {idx, idx + 1}
      BY <1>6, <2>2 DEF InitScan
    <3>2. Forked' = Forked
      BY <3>1 DEF Forked
    <3>3. ASSUME NEW i \in Forked PROVE m_pid'[i] # 0 /\ GivenOut(m_pid[i])'
      BY <1>2, <3>1, GivenOutStays
    <3>. QED
      BY <3>1, <3>2, <3>3 DEF InitialPool, GivenOut
  <2>. QED
    BY <2>1, <2>2
<1>7. CASE InitFork
  <2>1. PICK p \in scan : ForkChild(config[idx], p) /\ scan' = scan \ {p}
    BY <1>7 DEF InitFork
  <2>2. /\ pc = "initFork" /\ UNCHANGED config /\ pc' \in {"initFork", "initScan"}
        /\ \/ pc' = pc /\ idx' = idx
           \/ pc' = "initScan" /\ idx' = idx + 1
    BY <1>7 DEF InitFork
  <2>3. \A i \in Slots : m_pid[i] # p /\ m_pid[i] # 0
    BY <2>2, NotGivenOut
  <2>4. p \in Pids /\ p # 0 /\ idx \in 1..Len(config)
    BY <1>0, <2>1, <2>2, RestTypes, ScannedName, ForkedFacts
  <2>5. PICK n : n = config[idx]
    OBVIOUS
  <2>6. Bears(p, n)'
    BY <2>1, <2>2, <2>4, <2>5, NamesStay DEF ScanBears
  <2>7. GivenOut(p)'
    <3>1. CASE pc' = "initFork" /\ idx' = idx
      BY <2>1, <2>2, <2>5, <2>6, <3>1 DEF GivenOut
    <3>2. CASE idx' = idx + 1
      <4>1. idx \in 1..Len(config') /\ idx < idx' /\ config'[idx] = n
        BY <2>2, <2>4, <2>5, <3>2
      <4>. QED
        BY <2>6, <4>1 DEF GivenOut, Bears
    <3>. QED
      BY <2>2, <3>1, <3>2
  <2>8. \A q \in Pids : GivenOut(q) => GivenOut(q)'
    BY <2>1, <2>2, GivenOutStays
  <2>9. ASSUME NEW i \in Slots, m_pid'[i] # Junk
        PROVE  m_pid'[i] # 0 /\ (m_pid'[i] = p \/ (i \in Forked /\ m_pid'[i] = m_pid[i]))
    <3>1. \/ m_pid' = m_pid
          \/ \E new \in Slots : m_pid' = [m_pid EXCEPT ![new] = p]
      BY <2>1 DEF ForkChild
    <3>2. m_pid'[i] = p \/ m_pid'[i] = m_pid[i]
      <4>1. CASE m_pid' = m_pid
        BY <4>1
      <4>2. ASSUME NEW new \in Slots, m_pid' = [m_pid EXCEPT ![new] = p]
            PROVE  m_pid'[i] = p \/ m_pid'[i] = m_pid[i]
        BY <1>0, <4>2
      <4>. QED
        BY <3>1, <4>1, <4>2
    <3>. QED
      BY <2>3, <2>4, <2>9, <3>2 DEF Forked
  <2>10. ASSUME NEW i \in Slots, m_pid'[i] # Junk
         PROVE  m_pid'[i] # 0 /\ \E q \in Pids : q = m_pid'[i] /\ GivenOut(q)'
    BY <1>2, <2>2, <2>4, <2>7, <2>8, <2>9, <2>10
  <2>. QED
    BY <2>2, <2>10 DEF InitialPool, Forked, GivenOut
<1>8. CASE ReadChild \/ ReadServer \/ Rescan \/ RescanPid
  BY <1>1, <1>8 DEF ReadChild, ReadServer, Rescan, RescanPid
<1>9. CASE SendExit \/ WaitForChildren \/ Report \/ KilledBySigpipe
  BY <1>1, <1>9 DEF SendExit, WaitForChildren, Report, KilledBySigpipe
<1>10. ASSUME NEW i \in Slots, Child(i) PROVE InitialPool'
  BY <1>3, <1>10 DEF Child, ChildRead, ChildCheck, ChildKill, ChildReport,
         parentVars, poolVars
<1>11. CASE Finished \/ UNCHANGED vars
  BY <1>3, <1>11 DEF Finished, vars, parentVars, poolVars
<1>. QED
  BY <1>4, <1>5, <1>6, <1>7, <1>8, <1>9, <1>10, <1>11 DEF Next, Parent

-----------------------------------------------------------------------------
(* One child per process, and no more children than processes.             *)

\* The parent takes a message: the child it makes idle had a struct.
LEMMA WatchHandle ==
    ASSUME IndInv, WatchInv, NEW i \in Slots, c2p[i] # <<>>, HandleChildMessage(i),
           UNCHANGED <<childCount, forkFails>>
    PROVE  WatchInv'
<1>1. m_pid[i] # Junk
  <2>1. PipeShape(i)
    BY SlotParts DEF SlotsInv
  <2>. QED
    BY <2>1 DEF PipeShape, Lifetime
<1>2. m_pid' = m_pid \/ m_pid' = [m_pid EXCEPT ![i] = 0]
  BY DEF HandleChildMessage
<1>. QED
  BY <1>1, <1>2, WatchKept

LEMMA WatchStep ==
    ASSUME ~ReusePids, OneNameEach, IndInv, PidInv, ScanBears, [Next]_vars
    PROVE  WatchInv'
<1>0. WatchInv /\ childCount \in Nat /\ childCount <= MaxChildren
  BY RestTypes DEF PidInv, WatchInv, TypeOK
<1>1. ASSUME UNCHANGED <<childCount, forkFails, m_pid>> PROVE WatchInv'
  BY <1>0, <1>1, WatchSame
<1>2. CASE Environment
  BY <1>1, <1>2 DEF Environment, Spawn, ProcessExit, Reap, ServerSendsConfig,
         ServerSendsExit, ServerCloses, poolVars
<1>3. CASE ReceiveConfig \/ InitScan \/ ReadServer \/ Rescan
  BY <1>1, <1>3 DEF ReceiveConfig, InitScan, ReadServer, Rescan, poolVars
<1>4. CASE InitFork
  <2>1. PICK p \in scan : ForkChild(config[idx], p)
    BY <1>4 DEF InitFork
  <2>2. pc = "initFork" /\ p \in Pids
    BY <1>4, <2>1, RestTypes DEF InitFork
  <2>. QED
    BY <1>0, <2>1, <2>2, NotGivenOut, WatchFork
<1>5. CASE RescanPid
  <2>1. PICK p \in scan :
           \/ UNCHANGED <<poolVars, forkFails>>
           \/ ~ProcessMonitored(p) /\ ReuseChild(config[idx], p)
           \/ /\ ~ProcessMonitored(p) /\ idleChildCount <= 0
              /\ ForkChild(config[idx], p)
    BY <1>5 DEF RescanPid
  <2>2. p \in Pids
    BY <2>1, RestTypes
  <2>3. CASE UNCHANGED <<poolVars, forkFails>>
    BY <1>1, <2>3 DEF poolVars
  <2>4. ASSUME ~ProcessMonitored(p) PROVE \A i \in Slots : m_pid[i] # p
    <3>1. SUFFICES ASSUME NEW i \in Slots PROVE m_pid[i] # p
      OBVIOUS
    <3>2. CASE m_pid[i] = Junk
      BY <2>2, <3>2, RestTypes, ForkedFacts
    <3>3. CASE m_pid[i] # Junk
      <4>1. PipeShape(i) /\ i \in Nat \ {0}
        BY SlotParts, BoundsAssumption DEF SlotsInv, Slots
      <4>2. i \in 1..childCount
        BY <1>0, <3>3, <4>1 DEF PipeShape, Lifetime
      <4>. QED
        BY <2>4, <4>2 DEF ProcessMonitored
    <3>. QED
      BY <3>2, <3>3
  <2>5. ASSUME idleChildCount <= 0 PROVE \A i \in Slots : m_pid[i] # 0
    <3>1. idleChildCount = Cardinality(Idle) /\ idleChildCount \in Nat
      BY SlotParts DEF SlotsInv, SlotTypes, IdleCountExact
    <3>2. Idle \subseteq Slots /\ IsFiniteSet(Idle)
      BY SlotsFinite DEF Idle
    <3>3. Idle = {}
      BY <2>5, <3>1, <3>2, FS_EmptySet
    <3>. QED
      BY <3>3 DEF Idle
  <2>6. CASE ~ProcessMonitored(p) /\ ReuseChild(config[idx], p)
    BY <1>0, <2>2, <2>4, <2>6, WatchReuse
  <2>7. CASE /\ ~ProcessMonitored(p) /\ idleChildCount <= 0
             /\ ForkChild(config[idx], p)
    BY <1>0, <2>2, <2>4, <2>5, <2>7, WatchFork
  <2>. QED
    BY <2>1, <2>3, <2>6, <2>7
<1>6. CASE ReadChild \/ WaitForChildren
  <2>1. CASE UNCHANGED poolVars
    BY <1>1, <1>6, <2>1 DEF ReadChild, WaitForChildren, poolVars
  <2>2. CASE ~UNCHANGED poolVars
    <3>1. /\ ~(idx > childCount) /\ c2p[idx] # <<>> /\ HandleChildMessage(idx)
          /\ UNCHANGED <<childCount, forkFails>>
      BY <1>6, <2>2 DEF ReadChild, WaitForChildren
    <3>2. idx \in Slots
      BY <1>0, <3>1, RestTypes, BoundsAssumption DEF Slots
    <3>. QED
      BY <1>0, <3>1, <3>2, WatchHandle
  <2>. QED
    BY <2>1, <2>2
<1>7. CASE SendExit \/ Report \/ KilledBySigpipe
  BY <1>1, <1>7 DEF SendExit, Report, KilledBySigpipe, poolVars
<1>8. ASSUME NEW i \in Slots, Child(i) PROVE WatchInv'
  BY <1>1, <1>8 DEF Child, ChildRead, ChildCheck, ChildKill, ChildReport, poolVars
<1>9. CASE Finished \/ UNCHANGED vars
  BY <1>1, <1>9 DEF Finished, vars, poolVars
<1>. QED
  BY <1>2, <1>3, <1>4, <1>5, <1>6, <1>7, <1>8, <1>9 DEF Next, Parent

LEMMA PidInvariant ==
    ASSUME ~ReusePids, OneNameEach PROVE Spec => [](IndInv /\ PidInv)
<1>1. Init => PidInv
  <2>1. SUFFICES ASSUME Init PROVE PidInv
    OBVIOUS
  <2>2. Forked = {} /\ Len(config) = 0 /\ childCount = 0 /\ forkFails = 0
    BY <2>1 DEF Init, Forked
  <2>3. Cardinality(Forked) = 0 /\ Cardinality(Pids) \in Nat
    BY <2>2, FS_EmptySet, PidSets
  <2>4. NoDoubleMonitor
    BY <2>1 DEF Init, NoDoubleMonitor
  <2>. QED
    BY <2>1, <2>2, <2>3, <2>4 DEF Init, PidInv, NamedOnce, InitialPool
<1>2. IndInv /\ RequestsBear /\ PidInv /\ [Next]_vars => PidInv'
  <2>1. SUFFICES ASSUME IndInv, RequestsBear, PidInv, [Next]_vars PROVE PidInv'
    OBVIOUS
  <2>2. ScanBears
    BY <2>1, RequestsParts
  <2>3. NamedOnce'
    BY <2>1, NamedOnceStep DEF PidInv
  <2>4. InitialPool' /\ WatchInv'
    BY <2>1, <2>2, InitialPoolStep, WatchStep
  <2>. QED
    BY <2>3, <2>4 DEF PidInv, WatchInv
<1>. QED
  BY <1>1, <1>2, RequestsBearInvariant, PTL DEF Spec

\* Two children never watch the same process: the first scan forks without
\* asking processMonitored, so it rests on names that share no process; every
\* later scan asks.
THEOREM NoDoubleMonitorCorrect ==
    ASSUME ~ReusePids, OneNameEach PROVE Spec => []NoDoubleMonitor
<1>1. PidInv => NoDoubleMonitor
  BY DEF PidInv
<1>. QED
  BY <1>1, PidInvariant, PTL

\* The pool has at most one child per process id of the node, apart from the
\* structs that failed forks leave behind.
THEOREM PoolBoundedCorrect ==
    ASSUME ~ReusePids, OneNameEach PROVE Spec => []PoolBounded
<1>1. IndInv /\ PidInv => PoolBounded
  BY RestTypes, ForkedFacts DEF PidInv, PoolBounded
<1>. QED
  BY <1>1, PidInvariant, PTL
=============================================================================
