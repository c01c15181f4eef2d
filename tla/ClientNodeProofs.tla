-------------------------- MODULE ClientNodeProofs ---------------------------
(***************************************************************************)
(* Proofs about ClientNode, for every value of its constants.  IndInv is   *)
(* inductive; the safety properties that need no assumption about process  *)
(* ids or command lines follow from it, and so does the refinement of the  *)
(* safety part of Nanny.                                                   *)
(***************************************************************************)
EXTENDS ClientNode, FiniteSetTheorems, SequenceTheorems, TLAPS

-----------------------------------------------------------------------------
(* Facts about the state space.                                            *)

\* Slots is finite, so that sets of slots can be counted.
LEMMA SlotsFinite ==
    /\ IsFiniteSet(Slots)
    /\ \A S \in SUBSET Slots : IsFiniteSet(S) /\ Cardinality(S) \in Nat
<1>1. MaxChildren \in Int
  BY BoundsAssumption
<1>2. IsFiniteSet(Slots)
  BY <1>1, FS_Interval DEF Slots
<1>. QED
  BY <1>2, FS_Subset, FS_CardinalityType

\* Adding or removing one slot changes the count by one.
LEMMA SlotCount ==
    ASSUME NEW S \in SUBSET Slots, NEW i \in Slots
    PROVE  /\ i \notin S => Cardinality(S \cup {i}) = Cardinality(S) + 1
           /\ i \in S => Cardinality(S \ {i}) = Cardinality(S) - 1
BY SlotsFinite, FS_AddElement, FS_RemoveElement

\* Sets of process ids are finite as well.
LEMMA PidSets ==
    ASSUME NEW S \in SUBSET Pids
    PROVE  /\ IsFiniteSet(S) /\ Cardinality(S) \in Nat
           /\ (Cardinality(S) = 0 <=> S = {})
           /\ \A p \in S : Cardinality(S \ {p}) = Cardinality(S) - 1
<1>1. IsFiniteSet(S)
  BY PidsAssumption, FS_Subset
<1>. QED
  BY <1>1, FS_CardinalityType, FS_EmptySet, FS_RemoveElement

\* The variables that the accounting of the pool looks at, their types, and
\* the parts of IndInv about them.
slotVars == <<childCount, idleChildCount, killCount, m_pid, p2c, c2p, cpc, job,
              msgVal, kills, exited>>

SlotTypes ==
    /\ {childCount, idleChildCount, killCount, kills, exited} \subseteq Nat
    /\ childCount <= MaxChildren
    /\ m_pid \in [Slots -> Pids \cup {0, Junk}]
    /\ p2c \in [Slots -> Seq(MonitorMsgs \cup {ExitMsg})]
    /\ c2p \in [Slots -> Seq(ChildMsgs)]
    /\ cpc \in [Slots -> {"none", "read", "sleep", "kill", "report", "gone"}]
    /\ job \in [Slots -> MonitorMsgs \cup {ExitMsg}]
    /\ msgVal \in [Slots -> {0, 1}]

SlotsInv ==
    /\ \A i \in Slots : PipeShape(i)
    /\ JobAccounting
    /\ IdleCountExact
    /\ KillsAccounted
    /\ exited = Cardinality(Drained)

ToldGrows == \A i \in Slots : Told(i) => Told(i)'

LEMMA SlotParts == IndInv => SlotTypes /\ SlotsInv
BY DEF IndInv, TypeOK, SlotTypes, SlotsInv, ExitedExact

\* What the parts say of a slot depends on that slot, on childCount and on
\* whether its child has been told to exit.
SameSlot(i) ==
    /\ m_pid'[i] = m_pid[i] /\ p2c'[i] = p2c[i] /\ c2p'[i] = c2p[i]
    /\ cpc'[i] = cpc[i] /\ job'[i] = job[i] /\ msgVal'[i] = msgVal[i]

LEMMA SameSlotKept ==
    ASSUME NEW i \in Slots, SameSlot(i), Told(i) => Told(i)',
           childCount \in Nat, childCount' \in Nat, childCount' >= childCount
    PROVE  /\ PipeShape(i) => PipeShape(i)'
           /\ OneRequest(i)' <=> OneRequest(i)
           /\ OwesKill(i)' <=> OwesKill(i)
           /\ SaidAll(i)' <=> SaidAll(i)
<1>. USE DEF SameSlot
<1>1. PipeShape(i) => PipeShape(i)'
  <2>1. /\ i <= childCount => i <= childCount'
        /\ i > childCount' => i > childCount
    BY BoundsAssumption DEF Slots
  <2>2. Asked(i)' <=> Asked(i)
    BY DEF Asked
  <2>. QED
    BY <2>1, <2>2 DEF PipeShape, RequestPipe, AnswerPipe, Lifetime
<1>2. OneRequest(i)' <=> OneRequest(i)
  BY DEF OneRequest, Asked, Reported
<1>3. OwesKill(i)' <=> OwesKill(i)
  BY DEF OwesKill
<1>4. SaidAll(i)' <=> SaidAll(i)
  BY DEF SaidAll
<1>. QED
  BY <1>1, <1>2, <1>3, <1>4

\* A step that touches one slot: the parts hold again if they hold for that
\* slot, and the sets that are counted change by that slot at most.
LEMMA OneSlotChanged ==
    ASSUME IndInv, ToldGrows, childCount' \in Nat, childCount' >= childCount,
           NEW x \in Slots, \A i \in Slots : i # x => SameSlot(i)
    PROVE  /\ PipeShape(x)' => \A i \in Slots : PipeShape(i)'
           /\ (cpc'[x] # "none" => OneRequest(x)') => JobAccounting'
           /\ Idle' = IF m_pid'[x] = 0 THEN Idle \cup {x} ELSE Idle \ {x}
           /\ Unreported' = IF OwesKill(x)' THEN Unreported \cup {x}
                                            ELSE Unreported \ {x}
           /\ Drained' = IF SaidAll(x)' THEN Drained \cup {x} ELSE Drained \ {x}
<1>1. \A i \in Slots : PipeShape(i)
  BY SlotParts DEF SlotsInv
<1>2. ASSUME NEW i \in Slots, i # x
      PROVE  /\ SameSlot(i) /\ PipeShape(i)'
             /\ OneRequest(i)' <=> OneRequest(i)
             /\ OwesKill(i)' <=> OwesKill(i)
             /\ SaidAll(i)' <=> SaidAll(i)
  BY <1>1, <1>2, SameSlotKept, SlotParts DEF ToldGrows, SlotTypes
<1>3. PipeShape(x)' => \A i \in Slots : PipeShape(i)'
  BY <1>2
<1>4. (cpc'[x] # "none" => OneRequest(x)') => JobAccounting'
  BY <1>2, SlotParts DEF JobAccounting, SlotsInv, SameSlot
<1>5. Idle' = IF m_pid'[x] = 0 THEN Idle \cup {x} ELSE Idle \ {x}
  BY <1>2 DEF Idle, SameSlot
<1>6. Unreported' = IF OwesKill(x)' THEN Unreported \cup {x} ELSE Unreported \ {x}
  BY <1>2 DEF Unreported
<1>7. Drained' = IF SaidAll(x)' THEN Drained \cup {x} ELSE Drained \ {x}
  BY <1>2 DEF Drained
<1>. QED
  BY <1>3, <1>4, <1>5, <1>6, <1>7

\* A step that keeps the pool, the pipes and the children keeps what IndInv
\* says of them, if nobody becomes untold.
LEMMA SlotsKept ==
    ASSUME IndInv, UNCHANGED slotVars, ToldGrows
    PROVE  SlotTypes' /\ SlotsInv' /\ Drained' = Drained
<1>. USE SlotParts DEF slotVars
<1>1. \A i \in Slots : SameSlot(i)
  BY DEF SameSlot
<1>2. /\ \A i \in Slots : PipeShape(i)' /\ (OneRequest(i)' <=> OneRequest(i))
      /\ \A i \in Slots : OwesKill(i)' <=> OwesKill(i)
      /\ \A i \in Slots : SaidAll(i)' <=> SaidAll(i)
  BY <1>1, SameSlotKept DEF ToldGrows, SlotTypes, SlotsInv
<1>3. JobAccounting'
  BY <1>2 DEF JobAccounting, SlotsInv
<1>4. Idle' = Idle /\ Unreported' = Unreported /\ Drained' = Drained
  BY <1>2 DEF Idle, Unreported, Drained
<1>. QED
  BY <1>2, <1>3, <1>4 DEF SlotsInv, SlotTypes, IdleCountExact, KillsAccounted

-----------------------------------------------------------------------------
(* The initial states.                                                     *)

LEMMA InitIndInv == Init => IndInv
<1>. SUFFICES ASSUME Init PROVE IndInv
  OBVIOUS
<1>. USE DEF Init
<1>1. TypeOK
  <2>1. proc \in [Pids -> Processes]
    OBVIOUS
  <2>2. /\ p2c \in [Slots -> Seq(MonitorMsgs \cup {ExitMsg})]
        /\ c2p \in [Slots -> Seq(ChildMsgs)]
        /\ config \in Seq(Names)
        /\ inbox \in Seq([type : {"config"}, procs : Configs]
                         \cup [type : {"exit"}, procs : {<<>>}])
    OBVIOUS
  <2>3. /\ job \in [Slots -> MonitorMsgs \cup {ExitMsg}]
        /\ m_pid \in [Slots -> Pids \cup {0, Junk}]
        /\ msgVal \in [Slots -> {0, 1}]
        /\ cpc \in [Slots -> {"none", "read", "sleep", "kill", "report", "gone"}]
    OBVIOUS
  <2>4. /\ {childCount, idleChildCount, killCount, poolCap} \subseteq Nat
        /\ {spawns, zombies, forkFails, cfgSent, kills} \subseteq Nat
        /\ childCount <= MaxChildren
        /\ exited \in Nat /\ report \in Nat \cup {-1}
    BY BoundsAssumption
  <2>5. pc = "receiveConfig" /\ idx \in Nat \ {0} /\ scan \subseteq Pids
    OBVIOUS
  <2>6. serverClosed \in BOOLEAN
    BY Zenon
  <2>. QED
    BY ONLY <2>1, <2>2, <2>3, <2>4, <2>5, <2>6 DEF TypeOK
<1>2. \A i \in Slots : PipeShape(i)
  BY DEF PipeShape, RequestPipe, AnswerPipe, Lifetime, Asked, Busy, Slots
<1>3. JobAccounting
  BY DEF JobAccounting
<1>4. Idle = {} /\ Unreported = {} /\ Drained = {}
  <2>1. \A i \in Slots : m_pid[i] = Junk /\ cpc[i] = "none" /\ 1..Len(c2p[i]) = {}
    OBVIOUS
  <2>2. Idle = {}
    BY ONLY <2>1 DEF Idle, Junk
  <2>3. Unreported = {} /\ Drained = {}
    BY ONLY <2>1 DEF Unreported, OwesKill, Drained, SaidAll
  <2>. QED
    BY <2>2, <2>3
<1>5. IdleCountExact /\ KillsAccounted /\ ExitedExact
  BY <1>4, FS_EmptySet DEF IdleCountExact, KillsAccounted, ExitedExact
<1>6. PoolRoom /\ ScanInConfig
  BY DEF PoolRoom, ScanInConfig
<1>. QED
  BY <1>1, <1>2, <1>3, <1>5, <1>6 DEF IndInv

-----------------------------------------------------------------------------
(* The user's processes and the server.                                    *)

LEMMA ProcessesKept ==
    ASSUME TypeOK, NEW p \in Pids, Leave(p)
    PROVE  proc' \in [Pids -> Processes] /\ zombies' \in Nat
<1>1. PICK st \in {"zombie", "free"} :
         /\ zombies' = zombies + (IF st = "zombie" THEN 1 ELSE 0)
         /\ proc' = [proc EXCEPT ![p].st = st]
  BY DEF Leave
<1>2. proc[p] \in Processes /\ [proc[p] EXCEPT !.st = st] \in Processes
  BY DEF TypeOK, Processes
<1>. QED
  BY <1>1, <1>2 DEF TypeOK

LEMMA EnvironmentStep ==
    ASSUME IndInv, Environment
    PROVE  IndInv'
<1>1. /\ UNCHANGED <<parentVars, poolVars, pipeVars, childVars, forkFails>>
      /\ UNCHANGED slotVars
  BY DEF Environment, Spawn, ProcessExit, Reap, ServerSendsConfig,
         ServerSendsExit, ServerCloses, parentVars, poolVars, pipeVars,
         childVars, slotVars
<1>2. proc' \in [Pids -> Processes] /\ {spawns', zombies'} \subseteq Nat
  <2>. USE DEF IndInv, TypeOK
  <2>1. CASE Spawn
    BY <2>1 DEF Spawn, Processes
  <2>2. CASE ProcessExit
    BY <2>2, ProcessesKept DEF ProcessExit
  <2>3. CASE Reap
    BY <2>3 DEF Reap, Processes
  <2>4. CASE ServerSendsConfig \/ ServerSendsExit \/ ServerCloses
    BY <2>4 DEF ServerSendsConfig, ServerSendsExit, ServerCloses, procVars
  <2>. QED
    BY <2>1, <2>2, <2>3, <2>4 DEF Environment
<1>3. /\ inbox' \in Seq([type : {"config"}, procs : Configs]
                        \cup [type : {"exit"}, procs : {<<>>}])
      /\ serverClosed' \in BOOLEAN /\ cfgSent' \in Nat
  <2>. USE DEF IndInv, TypeOK
  <2>1. CASE Spawn \/ ProcessExit \/ Reap
    BY <2>1 DEF Spawn, ProcessExit, Reap, serverVars
  <2>2. CASE ServerSendsConfig
    <3>1. PICK c \in Configs : inbox' = Append(inbox, [type |-> "config", procs |-> c])
      BY <2>2 DEF ServerSendsConfig
    <3>. QED
      BY <2>2, <3>1 DEF ServerSendsConfig
  <2>3. CASE ServerSendsExit
    BY <2>3 DEF ServerSendsExit
  <2>4. CASE ServerCloses
    BY <2>4 DEF ServerCloses
  <2>. QED
    BY <2>1, <2>2, <2>3, <2>4 DEF Environment
<1>4. TypeOK'
  BY <1>1, <1>2, <1>3 DEF IndInv, TypeOK, parentVars, poolVars, pipeVars, childVars
<1>5. ToldGrows
  BY <1>1 DEF ToldGrows, Told, parentVars
<1>6. SlotsInv' /\ Drained' = Drained
  BY <1>1, <1>5, SlotsKept
<1>7. /\ ExitedExact' /\ PoolRoom' /\ ScanInConfig'
      /\ (pc = "done" => report = killCount)'
  BY <1>1, <1>6
  DEF IndInv, SlotsInv, ExitedExact, PoolRoom, ScanInConfig, parentVars, poolVars
<1>. QED
  BY <1>4, <1>6, <1>7 DEF IndInv, SlotsInv

-----------------------------------------------------------------------------
(* Steps of the parent on the pool.                                        *)

\* A new child starts with one request; a failed fork leaves a struct that is
\* neither idle nor anybody's.
LEMMA ForkChildKeeps ==
    ASSUME IndInv, NEW n \in Names, NEW p \in Pids, ForkChild(n, p),
           exited' = exited, ToldGrows
    PROVE  SlotTypes' /\ SlotsInv' /\ Drained' = Drained
<1>. USE SlotParts
<1>0. PICK new \in Slots : new = childCount + 1
  BY DEF ForkChild
<1>1. /\ childCount \in Nat /\ childCount' \in Nat
      /\ childCount' = new /\ new > childCount /\ childCount' >= childCount
      /\ new <= MaxChildren
      /\ UNCHANGED <<idleChildCount, killCount, c2p, job, msgVal, kills>>
  BY <1>0, BoundsAssumption DEF ForkChild, SlotTypes, Slots
<1>2. cpc[new] = "none" /\ m_pid[new] = Junk /\ c2p[new] = <<>> /\ p2c[new] = <<>>
  <2>1. PipeShape(new) /\ new > childCount /\ ~(new <= childCount)
    BY <1>1 DEF SlotsInv
  <2>. QED
    BY <2>1 DEF PipeShape, Lifetime
<1>3. CASE UNCHANGED <<m_pid, p2c, cpc>>
  <2>1. \A i \in Slots : SameSlot(i)
    BY <1>1, <1>3 DEF SameSlot
  <2>2. /\ \A i \in Slots : PipeShape(i)' /\ (OneRequest(i)' <=> OneRequest(i))
        /\ \A i \in Slots : OwesKill(i)' <=> OwesKill(i)
        /\ \A i \in Slots : SaidAll(i)' <=> SaidAll(i)
    BY <1>1, <2>1, SameSlotKept DEF ToldGrows, SlotTypes, SlotsInv
  <2>3. JobAccounting'
    BY <1>3, <2>2 DEF JobAccounting, SlotsInv
  <2>4. Idle' = Idle /\ Unreported' = Unreported /\ Drained' = Drained
    BY <1>3, <2>2 DEF Idle, Unreported, Drained
  <2>. QED
    BY <1>1, <1>3, <2>2, <2>3, <2>4
    DEF SlotsInv, SlotTypes, Slots, IdleCountExact, KillsAccounted
<1>4. CASE /\ m_pid' = [m_pid EXCEPT ![new] = p]
           /\ p2c' = [p2c EXCEPT ![new] = <<Monitor(n, p)>>]
           /\ cpc' = [cpc EXCEPT ![new] = "read"]
  <2>0. p # 0 /\ p # Junk /\ p \in Nat
    BY PidsAssumption DEF Junk
  <2>1. SlotTypes'
    BY <1>1, <1>4 DEF SlotTypes, Slots, Monitor, MonitorMsgs
  <2>2. /\ m_pid'[new] = p /\ cpc'[new] = "read" /\ c2p'[new] = <<>>
        /\ p2c'[new] = <<Monitor(n, p)>>
    BY <1>1, <1>2, <1>4 DEF SlotTypes
  <2>3. \A i \in Slots : i # new => SameSlot(i)
    BY <1>1, <1>4 DEF SlotTypes, SameSlot
  <2>4. /\ 1..Len(p2c'[new]) = {1} /\ 1..Len(c2p'[new]) = {}
        /\ p2c'[new][1].type = "monitor"
    BY <2>2 DEF Monitor
  <2>5. Asked(new)' /\ ~Reported(new)' /\ ~OwesKill(new)' /\ ~SaidAll(new)'
    BY <2>2, <2>4 DEF Asked, Reported, OwesKill, SaidAll
  <2>6. PipeShape(new)'
    BY <1>1, <2>0, <2>2, <2>4 DEF PipeShape, RequestPipe, AnswerPipe, Lifetime, Busy
  <2>7. OneRequest(new)'
    BY <2>0, <2>2, <2>4, <2>5 DEF OneRequest, Busy
  <2>8. new \notin Idle /\ new \notin Unreported /\ new \notin Drained
    <3>1. m_pid[new] # 0 /\ cpc[new] = "none" /\ 1..Len(c2p[new]) = {}
      BY <1>2 DEF Junk
    <3>. QED
      BY ONLY <3>1 DEF Idle, Unreported, OwesKill, Drained, SaidAll
  <2>9. /\ \A i \in Slots : PipeShape(i)'
        /\ JobAccounting'
        /\ Idle' = Idle /\ Unreported' = Unreported /\ Drained' = Drained
    <3>1. /\ \A i \in Slots : PipeShape(i)'
          /\ JobAccounting'
          /\ Idle' = Idle \ {new}
          /\ Unreported' = Unreported \ {new} /\ Drained' = Drained \ {new}
      BY <1>1, <2>0, <2>2, <2>3, <2>5, <2>6, <2>7, OneSlotChanged
    <3>. QED
      BY <2>8, <3>1
  <2>. QED
    BY <1>1, <2>1, <2>9 DEF SlotsInv, IdleCountExact, KillsAccounted
<1>. QED
  BY <1>0, <1>3, <1>4 DEF ForkChild

\* An idle child has empty hands: its pipe holds nothing but the new request.
LEMMA ReuseChildKeeps ==
    ASSUME IndInv, NEW n \in Names, NEW p \in Pids, ReuseChild(n, p),
           exited' = exited, ToldGrows, \A i \in Slots : ~Told(i)
    PROVE  SlotTypes' /\ SlotsInv' /\ Drained' = Drained
<1>. USE SlotParts
<1>1. PICK i \in Slots :
         /\ IsIdleChildIndex(i)
         /\ idleChildCount' = idleChildCount - 1
         /\ m_pid' = [m_pid EXCEPT ![i] = p]
         /\ p2c' = [p2c EXCEPT ![i] = Append(@, Monitor(n, p))]
         /\ UNCHANGED <<childCount, killCount, c2p, cpc, job, msgVal, kills>>
  BY DEF ReuseChild, childVars
<1>2. m_pid[i] = 0 /\ i \in Idle
  BY <1>1 DEF IsIdleChildIndex, Idle
<1>3. p # 0 /\ p # Junk /\ p \in Nat
  BY PidsAssumption DEF Junk
<1>4. /\ PipeShape(i) /\ cpc[i] # "none" /\ cpc[i] # "gone" /\ i <= childCount
      /\ OneRequest(i) /\ ~Told(i)
  <2>1. PipeShape(i) /\ ~Told(i)
    BY DEF SlotsInv
  <2>2. cpc[i] # "none" /\ cpc[i] # "gone" /\ i <= childCount
    BY <1>2, <2>1 DEF PipeShape, Lifetime, Junk
  <2>. QED
    BY <2>1, <2>2 DEF SlotsInv, JobAccounting
<1>5. ~Asked(i) /\ cpc[i] \notin Busy /\ ~Reported(i)
  BY <1>2, <1>4 DEF OneRequest
<1>6. p2c[i] = <<>>
  <2>1. p2c[i] \in Seq(MonitorMsgs \cup {ExitMsg})
    BY DEF SlotTypes
  <2>2. \A k \in 1..Len(p2c[i]) : p2c[i][k].type \in {"monitor", "exit"}
    BY <2>1 DEF MonitorMsgs, ExitMsg
  <2>3. 1..Len(p2c[i]) = {}
    BY <1>4, <1>5, <2>2 DEF PipeShape, RequestPipe, Asked
  <2>. QED
    BY <2>1, <2>3
<1>7. /\ m_pid'[i] = p /\ p2c'[i] = <<Monitor(n, p)>>
      /\ cpc'[i] = cpc[i] /\ c2p'[i] = c2p[i] /\ msgVal'[i] = msgVal[i]
      /\ job'[i] = job[i] /\ childCount' = childCount
  BY <1>1, <1>6 DEF SlotTypes
<1>8. 1..Len(p2c'[i]) = {1} /\ p2c'[i][1].type = "monitor"
  BY <1>7 DEF Monitor
<1>9. /\ Asked(i)'
      /\ Reported(i)' <=> Reported(i)
      /\ OwesKill(i)' <=> OwesKill(i)
      /\ SaidAll(i)' <=> SaidAll(i)
  BY <1>7, <1>8 DEF Asked, Reported, OwesKill, SaidAll
<1>10. PipeShape(i)'
  <2>1. ~(i > childCount)
    BY <1>4 DEF SlotTypes, Slots
  <2>. QED
    BY <1>3, <1>4, <1>5, <1>7, <1>8, <2>1
    DEF PipeShape, RequestPipe, AnswerPipe, Lifetime
<1>11. OneRequest(i)'
  BY <1>3, <1>4, <1>5, <1>7, <1>9 DEF OneRequest
<1>12. \A j \in Slots : j # i => SameSlot(j)
  BY <1>1 DEF SlotTypes, SameSlot
<1>13. /\ \A j \in Slots : PipeShape(j)'
       /\ JobAccounting'
       /\ Idle' = Idle \ {i}
       /\ Unreported' = IF OwesKill(i)' THEN Unreported \cup {i} ELSE Unreported \ {i}
       /\ Drained' = IF SaidAll(i)' THEN Drained \cup {i} ELSE Drained \ {i}
  <2>1. childCount' \in Nat /\ childCount' >= childCount
    BY <1>7 DEF SlotTypes
  <2>. QED
    BY <1>3, <1>7, <1>10, <1>11, <1>12, <2>1, OneSlotChanged
<1>14. Unreported' = Unreported /\ Drained' = Drained
  BY <1>9, <1>13 DEF Unreported, Drained
<1>15. idleChildCount' = Cardinality(Idle')
  BY <1>1, <1>2, <1>13, SlotCount DEF SlotsInv, IdleCountExact, Idle
<1>16. SlotTypes'
  <2>1. idleChildCount' \in Nat
    BY <1>13, <1>15, SlotsFinite DEF Idle
  <2>2. m_pid' \in [Slots -> Pids \cup {0, Junk}]
    BY <1>1 DEF SlotTypes
  <2>3. p2c' \in [Slots -> Seq(MonitorMsgs \cup {ExitMsg})]
    BY <1>1 DEF SlotTypes, Monitor, MonitorMsgs
  <2>. QED
    BY <1>1, <2>1, <2>2, <2>3 DEF SlotTypes
<1>. QED
  BY <1>1, <1>13, <1>14, <1>15, <1>16 DEF SlotsInv, IdleCountExact, KillsAccounted

\* Taking the first message off a pipe.
LEMMA TailFacts ==
    ASSUME NEW S, NEW s \in Seq(S), s # <<>>
    PROVE  /\ Len(s) \in Nat /\ Len(s) > 0 /\ Head(s) = s[1]
           /\ Tail(s) \in Seq(S) /\ Len(Tail(s)) = Len(s) - 1
           /\ \A k \in 1..Len(Tail(s)) : Tail(s)[k] = s[k + 1] /\ k + 1 \in 1..Len(s)
           /\ 1 \in 1..Len(s) /\ Len(s) \in 1..Len(s) /\ s[1] \in S
           /\ \A k \in 2..Len(s) : k - 1 \in 1..Len(Tail(s)) /\ s[k] = Tail(s)[k - 1]
           /\ Tail(s) = <<>> <=> Len(s) = 1
<1>1. Len(s) \in Nat /\ Len(s) > 0 /\ Head(s) = s[1] /\ s[1] \in S
  OBVIOUS
<1>2. Tail(s) \in Seq(S) /\ Len(Tail(s)) = Len(s) - 1
  OBVIOUS
<1>3. \A k \in 1..Len(Tail(s)) : Tail(s)[k] = s[k + 1] /\ k + 1 \in 1..Len(s)
  OBVIOUS
<1>4. \A k \in 2..Len(s) : k - 1 \in 1..Len(Tail(s)) /\ s[k] = Tail(s)[k - 1]
  BY <1>1, <1>2, <1>3
<1>5. Tail(s) = <<>> <=> Len(s) = 1
  <2>1. Len(Tail(s)) = 0 <=> Len(s) = 1
    BY <1>1, <1>2
  <2>2. Tail(s) = <<>> <=> Len(Tail(s)) = 0
    BY <1>2, EmptySeq
  <2>. QED
    BY <2>1, <2>2
<1>. QED
  BY <1>1, <1>2, <1>3, <1>4, <1>5


\* Which messages of a kind A are left when the first one is taken.
LEMMA TailMembers ==
    ASSUME NEW S, NEW s \in Seq(S), s # <<>>, NEW A
    PROVE  /\ s[1] \in A => \E k \in 1..Len(s) : s[k] \in A
           /\ s[1] \notin A => ((\E k \in 1..Len(Tail(s)) : Tail(s)[k] \in A)
                               <=> (\E k \in 1..Len(s) : s[k] \in A))
           /\ (\A k, l \in 1..Len(s) : s[k] \in A /\ s[l] \in A => k = l)
                => /\ s[1] \in A => \A k \in 1..Len(Tail(s)) : Tail(s)[k] \notin A
                   /\ \A k, l \in 1..Len(Tail(s)) :
                        Tail(s)[k] \in A /\ Tail(s)[l] \in A => k = l
<1>. DEFINE t == Tail(s)
<1>1. /\ Len(s) \in Nat /\ Len(s) > 0 /\ 1 \in 1..Len(s)
      /\ Len(t) = Len(s) - 1
      /\ \A k \in 1..Len(t) : t[k] = s[k + 1] /\ k + 1 \in 1..Len(s)
      /\ \A k \in 2..Len(s) : k - 1 \in 1..Len(t) /\ s[k] = t[k - 1]
  BY TailFacts
<1>2. s[1] \in A => \E k \in 1..Len(s) : s[k] \in A
  BY <1>1
<1>3. ASSUME s[1] \notin A
      PROVE  (\E k \in 1..Len(t) : t[k] \in A) <=> (\E k \in 1..Len(s) : s[k] \in A)
  <2>. HIDE DEF t
  <2>1. ASSUME NEW k \in 1..Len(t), t[k] \in A
        PROVE  \E l \in 1..Len(s) : s[l] \in A
    BY <1>1, <2>1
  <2>2. ASSUME NEW k \in 1..Len(s), s[k] \in A
        PROVE  \E l \in 1..Len(t) : t[l] \in A
    <3>1. k \in 2..Len(s)
      BY ONLY <1>1, <1>3, <2>2
    <3>. QED
      BY ONLY <1>1, <2>2, <3>1
  <2>. QED
    BY <2>1, <2>2
<1>4. ASSUME \A k, l \in 1..Len(s) : s[k] \in A /\ s[l] \in A => k = l
      PROVE  /\ s[1] \in A => \A k \in 1..Len(t) : t[k] \notin A
             /\ \A k, l \in 1..Len(t) : t[k] \in A /\ t[l] \in A => k = l
  <2>. HIDE DEF t
  <2>1. ASSUME s[1] \in A, NEW k \in 1..Len(t), t[k] \in A PROVE FALSE
    BY ONLY <1>1, <1>4, <2>1
  <2>2. ASSUME NEW k \in 1..Len(t), NEW l \in 1..Len(t), t[k] \in A, t[l] \in A
        PROVE  k = l
    BY ONLY <1>1, <1>4, <2>2
  <2>. QED
    BY <2>1, <2>2
<1>. QED
  BY <1>2, <1>3, <1>4

\* The parent takes a message of child i: an answer makes the child idle and is
\* counted once, "exit complete" is the last thing a child says.
LEMMA HandleChildMessageKeeps ==
    ASSUME IndInv, NEW i \in Slots, c2p[i] # <<>>, HandleChildMessage(i),
           Head(c2p[i]) = "exit complete" => exited' = exited + 1,
           Head(c2p[i]) # "exit complete" => exited' = exited,
           UNCHANGED <<childCount, p2c, cpc, job, msgVal, kills>>, ToldGrows
    PROVE  SlotTypes' /\ SlotsInv' /\ Drained \subseteq Drained'
<1>1. SlotTypes /\ SlotsInv
  BY SlotParts
<1>2. PICK s \in Seq(ChildMsgs) : s = c2p[i]
  BY <1>1 DEF SlotTypes
<1>3. /\ s # <<>> /\ Len(s) \in Nat /\ Len(s) > 0 /\ s[1] \in ChildMsgs
      /\ Head(s) = s[1] /\ Tail(s) \in Seq(ChildMsgs)
      /\ Tail(s) = <<>> <=> Len(s) = 1
  BY ONLY <1>2, c2p[i] # <<>>, TailFacts
<1>4. PICK t \in Seq(ChildMsgs) : t = Tail(s)
  BY <1>3
<1>5. /\ Len(t) = Len(s) - 1
      /\ \A k \in 1..Len(t) : t[k] = s[k + 1] /\ k + 1 \in 1..Len(s)
      /\ 1 \in 1..Len(s) /\ Len(s) \in 1..Len(s)
      /\ \A k \in 2..Len(s) : k - 1 \in 1..Len(t) /\ s[k] = t[k - 1]
      /\ t = <<>> <=> Len(s) = 1
  BY ONLY <1>3, <1>4, TailFacts
<1>6. /\ c2p' = [c2p EXCEPT ![i] = t] /\ c2p'[i] = t
      /\ p2c'[i] = p2c[i] /\ cpc'[i] = cpc[i] /\ job'[i] = job[i]
      /\ msgVal'[i] = msgVal[i]
      /\ childCount \in Nat /\ childCount' = childCount /\ childCount' >= childCount
  <2>1. c2p' = [c2p EXCEPT ![i] = t]
    BY <1>2, <1>4 DEF HandleChildMessage
  <2>2. c2p'[i] = t
    BY <1>1, <2>1 DEF SlotTypes
  <2>3. childCount \in Nat /\ childCount' = childCount
    BY <1>1 DEF SlotTypes
  <2>4. childCount' >= childCount
    BY ONLY <2>3
  <2>. QED
    BY <2>1, <2>2, <2>3, <2>4
<1>7. /\ s[1] \in Availables =>
            /\ idleChildCount' = idleChildCount + 1
            /\ m_pid' = [m_pid EXCEPT ![i] = 0]
            /\ killCount' = killCount + (IF s[1] = "available 1" THEN 1 ELSE 0)
      /\ s[1] \notin Availables => UNCHANGED <<idleChildCount, m_pid, killCount>>
  BY <1>2, <1>3 DEF HandleChildMessage, KillsIn
<1>8. PipeShape(i) /\ RequestPipe(i) /\ AnswerPipe(i) /\ Lifetime(i)
  BY <1>1 DEF SlotsInv, PipeShape
<1>9. cpc[i] # "none" /\ OneRequest(i) /\ m_pid[i] # Junk /\ i <= childCount
  <2>1. cpc[i] # "none"
    BY <1>8 DEF Lifetime
  <2>. QED
    BY <1>1, <1>8, <2>1 DEF SlotsInv, JobAccounting, Lifetime
<1>10. /\ \A k \in 1..Len(s) : s[k] = "exit complete" => k = Len(s) /\ cpc[i] = "gone"
       /\ cpc[i] = "gone" => s[Len(s)] = "exit complete"
  BY <1>2, <1>3, <1>8 DEF AnswerPipe
<1>11. /\ s[1] = "exit complete" => Len(s) = 1 /\ cpc[i] = "gone"
       /\ cpc[i] = "gone" /\ Len(s) = 1 => s[1] = "exit complete"
  BY ONLY <1>5, <1>10
<1>12. SaidAll(i)' <=> s[1] = "exit complete"
  BY <1>5, <1>6, <1>11 DEF SaidAll
<1>13. m_pid'[i] # Junk /\ m_pid' \in [Slots -> Pids \cup {0, Junk}]
  <2>1. m_pid \in [Slots -> Pids \cup {0, Junk}]
    BY <1>1 DEF SlotTypes
  <2>2. CASE s[1] \in Availables
    <3>1. m_pid' = [m_pid EXCEPT ![i] = 0]
      BY ONLY <1>7, <2>2
    <3>. QED
      BY ONLY <2>1, <3>1, i \in Slots DEF Junk
  <2>3. CASE s[1] \notin Availables
    BY <1>7, <1>9, <2>1, <2>3
  <2>. QED
    BY <2>2, <2>3
<1>14. PipeShape(i)'
  <2>1. RequestPipe(i)'
    BY <1>6, <1>8 DEF RequestPipe, ToldGrows
  <2>2. AnswerPipe(i)'
    <3>1. ASSUME NEW k \in 1..Len(t), t[k] = "exit complete"
          PROVE  k = Len(t) /\ cpc[i] = "gone"
      <4>1. s[k + 1] = "exit complete" /\ k + 1 \in 1..Len(s)
        BY ONLY <1>5, <3>1
      <4>2. k + 1 = Len(s) /\ cpc[i] = "gone"
        BY ONLY <1>10, <4>1
      <4>. QED
        BY ONLY <1>3, <1>5, <4>2, k \in 1..Len(t)
    <3>2. ASSUME cpc[i] = "gone", t # <<>> PROVE t[Len(t)] = "exit complete"
      <4>1. s[Len(s)] = "exit complete" /\ Len(s) # 1
        BY <1>5, <1>10, <3>2
      <4>2. Len(s) \in 2..Len(s)
        <5>1. Len(s) \in Nat /\ Len(s) > 0 /\ Len(s) # 1
          BY <1>3, <4>1
        <5>2. ASSUME NEW n \in Nat, n > 0, n # 1 PROVE n \in 2..n
          BY ONLY <5>2
        <5>. QED
          BY ONLY <5>1, <5>2
      <4>3. s[Len(s)] = t[Len(s) - 1]
        BY ONLY <1>5, <4>2
      <4>. QED
        BY ONLY <1>3, <1>5, <4>1, <4>3
    <3>. QED
      BY <1>6, <3>1, <3>2 DEF AnswerPipe
  <2>3. Lifetime(i)'
    BY <1>6, <1>8, <1>9, <1>13 DEF Lifetime, ToldGrows
  <2>. QED
    BY <2>1, <2>2, <2>3 DEF PipeShape
<1>15. \A j \in Slots : j # i => SameSlot(j)
  BY <1>1, <1>6, <1>7 DEF SlotTypes, SameSlot
<1>16. /\ \A j \in Slots : PipeShape(j)'
       /\ OneRequest(i)' => JobAccounting'
       /\ Idle' = IF m_pid'[i] = 0 THEN Idle \cup {i} ELSE Idle \ {i}
       /\ Unreported' = IF OwesKill(i)' THEN Unreported \cup {i} ELSE Unreported \ {i}
       /\ Drained' = IF SaidAll(i)' THEN Drained \cup {i} ELSE Drained \ {i}
  BY <1>6, <1>14, <1>15, OneSlotChanged
<1>17. exited' = Cardinality(Drained') /\ exited' \in Nat /\ Drained \subseteq Drained'
  <2>1. i \notin Drained /\ Drained \in SUBSET Slots
    BY <1>2, <1>3 DEF Drained, SaidAll
  <2>2. exited = Cardinality(Drained) /\ exited \in Nat
    BY <1>1, <2>1, SlotsFinite DEF SlotsInv
  <2>3. CASE s[1] = "exit complete"
    <3>1. exited' = exited + 1 /\ Drained' = Drained \cup {i}
      BY <1>2, <1>3, <1>12, <1>16, <2>3
    <3>. QED
      BY ONLY <2>1, <2>2, <3>1, i \in Slots, SlotCount
  <2>4. CASE s[1] # "exit complete"
    <3>1. exited' = exited /\ Drained' = Drained
      BY <1>2, <1>3, <1>12, <1>16, <2>1, <2>4
    <3>. QED
      BY ONLY <2>2, <3>1
  <2>. QED
    BY <2>3, <2>4
<1>18. /\ Asked(i)' <=> Asked(i)
       /\ Reported(i) <=> \E k \in 1..Len(s) : s[k] \in Availables
       /\ Reported(i)' <=> \E k \in 1..Len(t) : t[k] \in Availables
       /\ OwesKill(i) <=> \/ cpc[i] = "report" /\ msgVal[i] = 1
                          \/ \E k \in 1..Len(s) : s[k] \in {"available 1"}
       /\ OwesKill(i)' <=> \/ cpc[i] = "report" /\ msgVal[i] = 1
                           \/ \E k \in 1..Len(t) : t[k] \in {"available 1"}
  BY <1>2, <1>6 DEF Asked, Reported, OwesKill
<1>19. \A k, l \in 1..Len(s) : s[k] \in Availables /\ s[l] \in Availables => k = l
  BY <1>2, <1>9 DEF OneRequest
<1>20. /\ {idleChildCount, killCount, kills} \subseteq Nat
       /\ idleChildCount = Cardinality(Idle) /\ Idle \in SUBSET Slots
       /\ kills = killCount + Cardinality(Unreported) /\ Unreported \in SUBSET Slots
       /\ kills' = kills
  BY <1>1 DEF SlotTypes, SlotsInv, IdleCountExact, KillsAccounted, Idle, Unreported
<1>21. c2p' \in [Slots -> Seq(ChildMsgs)]
  BY <1>1, <1>6 DEF SlotTypes
<1>22. CASE s[1] \in Availables
  <2>1. \A k \in 1..Len(t) : t[k] \notin Availables
    BY ONLY <1>3, <1>4, <1>19, <1>22, TailMembers
  <2>2. Reported(i) /\ ~Asked(i) /\ cpc[i] \notin Busy /\ m_pid[i] # 0
    BY <1>9, <1>18, <1>22, <1>5 DEF OneRequest
  <2>3. ~Reported(i)' /\ ~OwesKill(i)'
    BY <1>18, <2>1, <2>2 DEF Busy, Availables
  <2>4. m_pid'[i] = 0
    BY <1>1, <1>7, <1>22 DEF SlotTypes
  <2>5. OneRequest(i)'
    BY <1>6, <1>18, <2>1, <2>2, <2>3, <2>4 DEF OneRequest
  <2>6. i \notin Idle /\ Idle' = Idle \cup {i}
    BY <1>16, <2>2, <2>4 DEF Idle
  <2>7. idleChildCount' = Cardinality(Idle')
    BY ONLY <1>7, <1>20, <1>22, <2>6, i \in Slots, SlotCount
  <2>8. OwesKill(i) <=> s[1] = "available 1"
    <3>1. (\E k \in 1..Len(s) : s[k] \in {"available 1"}) <=> s[1] = "available 1"
      BY ONLY <1>5, <1>19, <1>22 DEF Availables
    <3>. QED
      BY <1>18, <2>2, <3>1 DEF Busy
  <2>9. Unreported' = Unreported \ {i} /\ (i \in Unreported <=> s[1] = "available 1")
    BY <1>16, <2>3, <2>8 DEF Unreported
  <2>10. kills' = killCount' + Cardinality(Unreported')
    <3>1. CASE s[1] = "available 1"
      <4>1. Cardinality(Unreported') = Cardinality(Unreported) - 1
        BY ONLY <1>20, <2>9, <3>1, i \in Slots, SlotCount
      <4>2. killCount' = killCount + 1 /\ Cardinality(Unreported) \in Nat
        BY <1>7, <1>20, <1>22, <3>1, SlotsFinite
      <4>. QED
        BY ONLY <1>20, <4>1, <4>2
    <3>2. CASE s[1] # "available 1"
      <4>1. Unreported' = Unreported
        BY ONLY <2>9, <3>2
      <4>2. killCount' = killCount + 0
        BY <1>7, <1>22, <3>2
      <4>. QED
        BY ONLY <1>20, <4>1, <4>2
    <3>. QED
      BY <3>1, <3>2
  <2>11. {idleChildCount', killCount'} \subseteq Nat
    <3>1. killCount \in Nat /\ idleChildCount \in Nat
      BY ONLY <1>20
    <3>2. killCount' = killCount + 0 \/ killCount' = killCount + 1
      BY <1>7, <1>22
    <3>3. idleChildCount' = idleChildCount + 1
      BY <1>7, <1>22
    <3>. QED
      BY ONLY <3>1, <3>2, <3>3
  <2>12. SlotTypes'
    BY <1>1, <1>13, <1>17, <1>21, <2>11 DEF SlotTypes
  <2>. QED
    BY <1>16, <1>17, <2>5, <2>7, <2>10, <2>12
    DEF SlotsInv, IdleCountExact, KillsAccounted
<1>23. CASE s[1] \notin Availables
  <2>1. UNCHANGED <<idleChildCount, m_pid, killCount>>
    BY <1>7, <1>23
  <2>2. Reported(i)' <=> Reported(i)
    BY ONLY <1>3, <1>4, <1>18, <1>23, TailMembers
  <2>3. OwesKill(i)' <=> OwesKill(i)
    <3>1. s[1] \notin {"available 1"}
      BY <1>23 DEF Availables
    <3>. QED
      BY ONLY <1>3, <1>4, <1>18, <3>1, TailMembers
  <2>4. \A k, l \in 1..Len(t) : t[k] \in Availables /\ t[l] \in Availables => k = l
    BY ONLY <1>3, <1>4, <1>19, TailMembers
  <2>5. OneRequest(i)'
    BY <1>6, <1>9, <1>18, <2>1, <2>2, <2>4 DEF OneRequest
  <2>6. Idle' = Idle /\ Unreported' = Unreported
    BY <1>16, <2>1, <2>3 DEF Idle, Unreported
  <2>7. SlotTypes'
    BY <1>1, <1>17, <1>21, <2>1 DEF SlotTypes
  <2>. QED
    BY <1>16, <1>17, <2>1, <2>5, <2>6, <2>7, <1>20
    DEF SlotsInv, IdleCountExact, KillsAccounted
<1>. QED
  BY <1>22, <1>23

\* A message of a kind A in a pipe after one more message is put into it.
LEMMA AppendMembers ==
    ASSUME NEW S, NEW s \in Seq(S), NEW e \in S, NEW A
    PROVE  LET t == Append(s, e) IN
           /\ t \in Seq(S) /\ t # <<>> /\ t[Len(t)] = e /\ Len(t) = Len(s) + 1
           /\ Len(s) \in Nat /\ \A k \in 1..Len(s) : t[k] = s[k]
           /\ e \in A => \E k \in 1..Len(t) : t[k] \in A
           /\ e \notin A => ((\E k \in 1..Len(t) : t[k] \in A)
                            <=> (\E k \in 1..Len(s) : s[k] \in A))
           /\ /\ \A k, l \in 1..Len(s) : s[k] \in A /\ s[l] \in A => k = l
              /\ e \notin A \/ \A k \in 1..Len(s) : s[k] \notin A
              => \A k, l \in 1..Len(t) : t[k] \in A /\ t[l] \in A => k = l
<1>. DEFINE t == Append(s, e)
<1>1. /\ t \in Seq(S) /\ Len(t) = Len(s) + 1 /\ Len(s) \in Nat
      /\ \A k \in 1..Len(s) : t[k] = s[k]
      /\ t[Len(t)] = e /\ t # <<>>
  OBVIOUS
<1>. HIDE DEF t
<1>2. /\ Len(t) \in 1..Len(t) /\ \A k \in 1..Len(s) : k \in 1..Len(t)
      /\ \A k \in 1..Len(t) : k = Len(t) \/ k \in 1..Len(s)
  BY ONLY <1>1
<1>3. e \in A => \E k \in 1..Len(t) : t[k] \in A
  BY ONLY <1>1, <1>2
<1>4. e \notin A => ((\E k \in 1..Len(t) : t[k] \in A)
                     <=> (\E k \in 1..Len(s) : s[k] \in A))
  BY ONLY <1>1, <1>2
<1>5. ASSUME \A k, l \in 1..Len(s) : s[k] \in A /\ s[l] \in A => k = l,
             e \notin A \/ \A k \in 1..Len(s) : s[k] \notin A,
             NEW k \in 1..Len(t), NEW l \in 1..Len(t), t[k] \in A, t[l] \in A
      PROVE  k = l
  BY ONLY <1>1, <1>2, <1>5
<1>. QED
  BY <1>1, <1>3, <1>4, <1>5 DEF t

\* In particular the messages of a kind that e is not of stay as they are.
LEMMA AppendOthers ==
    ASSUME NEW S, NEW s \in Seq(S), NEW e \in S, NEW A, e \notin A,
           NEW t, t = Append(s, e)
    PROVE  (\E k \in 1..Len(t) : t[k] \in A) <=> (\E k \in 1..Len(s) : s[k] \in A)
<1>1. LET r == Append(s, e) IN
      (\E k \in 1..Len(r) : r[k] \in A) <=> (\E k \in 1..Len(s) : s[k] \in A)
  BY AppendMembers, Zenon
<1>. QED
  BY <1>1

\* cleanExit puts "exit" behind whatever the child was asked for.
LEMMA SendExitKeeps ==
    ASSUME IndInv, NEW i \in Slots, ~Told(i), Told(i)', ToldGrows, i <= childCount,
           p2c' = [p2c EXCEPT ![i] = Append(@, ExitMsg)],
           UNCHANGED <<childCount, idleChildCount, killCount, m_pid, c2p, cpc,
                       job, msgVal, kills, exited>>
    PROVE  SlotTypes' /\ SlotsInv' /\ Drained' = Drained
<1>1. SlotTypes /\ SlotsInv
  BY SlotParts
<1>. DEFINE S == MonitorMsgs \cup {ExitMsg}
            A == {x \in S : x.type = "monitor"}
<1>2. PICK s \in Seq(S) : s = p2c[i]
  BY <1>1 DEF SlotTypes
<1>3. PICK t : t = Append(s, ExitMsg)
  OBVIOUS
<1>4. ExitMsg \in S /\ ExitMsg \notin A /\ ExitMsg.type = "exit"
  BY DEF ExitMsg
<1>5. /\ t \in Seq(S) /\ t[Len(t)] = ExitMsg /\ Len(t) = Len(s) + 1
      /\ Len(s) \in Nat /\ \A k \in 1..Len(s) : t[k] = s[k]
  BY ONLY <1>3, <1>4, AppendMembers
<1>6. /\ p2c'[i] = t /\ m_pid'[i] = m_pid[i] /\ c2p'[i] = c2p[i]
      /\ cpc'[i] = cpc[i] /\ job'[i] = job[i] /\ msgVal'[i] = msgVal[i]
      /\ p2c' \in [Slots -> Seq(S)]
  BY <1>1, <1>2, <1>3, <1>5 DEF SlotTypes
<1>7. PipeShape(i) /\ RequestPipe(i) /\ AnswerPipe(i) /\ Lifetime(i)
  BY <1>1 DEF SlotsInv, PipeShape
<1>8. \A k \in 1..Len(t) : k \in 1..Len(s) \/ k = Len(t)
  BY ONLY <1>5
<1>9. Asked(i)' <=> Asked(i)
  <2>1. Asked(i) <=> \E k \in 1..Len(s) : s[k].type = "monitor"
    BY <1>2 DEF Asked
  <2>2. Asked(i)' <=> \E k \in 1..Len(t) : t[k].type = "monitor"
    BY <1>6 DEF Asked
  <2>3. \A k \in 1..Len(s) : k \in 1..Len(t)
    BY ONLY <1>5
  <2>. QED
    BY ONLY <1>4, <1>5, <1>8, <2>1, <2>2, <2>3
<1>10. \A k \in 1..Len(s) : /\ s[k].type = "monitor" => k = 1
                            /\ s[k].type # "exit"
  BY <1>2, <1>7 DEF RequestPipe
<1>12. PipeShape(i)'
  <2>1. \A k \in 1..Len(t) : /\ t[k].type = "monitor" => k = 1
                             /\ t[k].type = "exit" => k = Len(t)
    BY ONLY <1>4, <1>5, <1>8, <1>10
  <2>2. RequestPipe(i)'
    BY <1>6, <2>1 DEF RequestPipe
  <2>3. AnswerPipe(i)'
    BY <1>6, <1>7 DEF AnswerPipe
  <2>4. ~(i > childCount)
    BY <1>1 DEF SlotTypes, Slots
  <2>5. Lifetime(i)'
    BY <1>6, <1>7, <1>9, <2>4 DEF Lifetime
  <2>. QED
    BY <2>2, <2>3, <2>5 DEF PipeShape
<1>13. (OneRequest(i)' <=> OneRequest(i)) /\ (OwesKill(i)' <=> OwesKill(i))
  BY <1>6, <1>9 DEF OneRequest, Reported, OwesKill
<1>14. \A j \in Slots : j # i => SameSlot(j)
  BY <1>1 DEF SlotTypes, SameSlot
<1>15. childCount' \in Nat /\ childCount' >= childCount
  BY <1>1 DEF SlotTypes
<1>16. \A j \in Slots : PipeShape(j)'
  BY <1>12, <1>14, <1>15, OneSlotChanged
<1>17. JobAccounting'
  <2>1. cpc'[i] # "none" => OneRequest(i)'
    BY <1>1, <1>6, <1>13 DEF SlotsInv, JobAccounting
  <2>. QED
    BY <1>14, <1>15, <2>1, OneSlotChanged
<1>18. Idle' = Idle /\ Drained' = Drained /\ Unreported' = Unreported
  BY DEF Idle, Drained, SaidAll, Unreported, OwesKill
<1>19. SlotTypes'
  BY <1>1, <1>6 DEF SlotTypes
<1>. QED
  BY <1>1, <1>16, <1>17, <1>18, <1>19 DEF SlotsInv, IdleCountExact, KillsAccounted

-----------------------------------------------------------------------------
(* Steps of a child.                                                       *)

\* A step of child i keeps the parts if its own slot is in order and every
\* kill makes it owe one.
LEMMA ChildStepKeeps ==
    ASSUME IndInv, NEW i \in Slots, UNCHANGED <<parentVars, poolVars>>,
           \A j \in Slots : j # i => SameSlot(j),
           SlotTypes', PipeShape(i)', OneRequest(i)',
           ~SaidAll(i), ~SaidAll(i)',
           \/ (OwesKill(i)' <=> OwesKill(i)) /\ kills' = kills
           \/ OwesKill(i)' /\ ~OwesKill(i) /\ kills' = kills + 1
    PROVE  SlotsInv' /\ Drained' = Drained /\ ToldGrows
<1>1. SlotTypes /\ SlotsInv
  BY SlotParts
<1>2. ToldGrows
  BY DEF ToldGrows, Told, parentVars
<1>3. childCount' \in Nat /\ childCount' >= childCount
  BY <1>1 DEF SlotTypes, poolVars
<1>4. /\ \A j \in Slots : PipeShape(j)'
      /\ JobAccounting'
      /\ Unreported' = IF OwesKill(i)' THEN Unreported \cup {i} ELSE Unreported \ {i}
      /\ Drained' = Drained \ {i}
  BY <1>2, <1>3, OneSlotChanged
<1>5. Drained' = Drained
  BY <1>4 DEF Drained
<1>6. Idle' = Idle /\ UNCHANGED <<idleChildCount, killCount, exited>>
  BY DEF Idle, poolVars, parentVars
<1>7. kills = killCount + Cardinality(Unreported) /\ Unreported \in SUBSET Slots
  BY <1>1 DEF SlotsInv, KillsAccounted, Unreported
<1>8. kills' = killCount + Cardinality(Unreported')
  <2>1. CASE (OwesKill(i)' <=> OwesKill(i)) /\ kills' = kills
    <3>1. Unreported' = Unreported
      BY <1>4, <2>1 DEF Unreported
    <3>. QED
      BY <1>7, <2>1, <3>1
  <2>2. CASE OwesKill(i)' /\ ~OwesKill(i) /\ kills' = kills + 1
    <3>1. Unreported' = Unreported \cup {i} /\ i \notin Unreported
      BY <1>4, <2>2 DEF Unreported
    <3>2. Cardinality(Unreported') = Cardinality(Unreported) + 1
      BY ONLY <1>7, <3>1, i \in Slots, SlotCount
    <3>3. killCount \in Nat /\ Cardinality(Unreported) \in Nat
      BY <1>1, <1>7, SlotsFinite DEF SlotTypes
    <3>4. kills' = kills + 1
      BY <2>2
    <3>. QED
      BY ONLY <1>7, <3>2, <3>3, <3>4
  <2>. QED
    BY <2>1, <2>2
<1>. QED
  BY <1>1, <1>2, <1>4, <1>5, <1>6, <1>8 DEF SlotsInv, IdleCountExact, KillsAccounted

\* What the invariant says of a child at work: its pipe back holds no answer.
LEMMA BusyChild ==
    ASSUME IndInv, NEW i \in Slots, cpc[i] \in Busy
    PROVE  /\ PipeShape(i) /\ OneRequest(i)
           /\ ~Asked(i) /\ ~Reported(i) /\ m_pid[i] # 0
           /\ job[i] \in MonitorMsgs /\ job[i].pid \in Pids
           /\ \A k \in 1..Len(c2p[i]) :
                 c2p[i][k] \notin Availables /\ c2p[i][k] # "exit complete"
<1>1. PipeShape(i) /\ cpc[i] # "none" /\ cpc[i] # "gone"
  BY SlotParts DEF SlotsInv, Busy
<1>2. OneRequest(i)
  BY <1>1, SlotParts DEF SlotsInv, JobAccounting
<1>3. ~Asked(i) /\ ~Reported(i) /\ m_pid[i] # 0
  BY <1>2 DEF OneRequest
<1>4. job[i] \in MonitorMsgs /\ job[i].pid \in Pids
  BY <1>1 DEF PipeShape, Lifetime, MonitorMsgs
<1>5. \A k \in 1..Len(c2p[i]) :
         c2p[i][k] \notin Availables /\ c2p[i][k] # "exit complete"
  BY <1>1, <1>3 DEF PipeShape, AnswerPipe, Reported
<1>. QED
  BY <1>1, <1>2, <1>3, <1>4, <1>5

\* A child at work that writes a log line and stays at work.
LEMMA ChildOutputKeeps ==
    ASSUME IndInv, NEW i \in Slots, cpc[i] \in {"sleep", "kill"},
           NEW v \in {0, 1},
           UNCHANGED <<parentVars, poolVars, p2c, job>>,
           c2p' = [c2p EXCEPT ![i] = Append(@, "output")],
           cpc' = [cpc EXCEPT ![i] = "report"],
           msgVal' = [msgVal EXCEPT ![i] = v],
           kills' = kills + v
    PROVE  SlotTypes' /\ SlotsInv' /\ Drained' = Drained /\ ToldGrows
<1>1. SlotTypes /\ SlotsInv
  BY SlotParts
<1>2. cpc[i] \in Busy
  BY DEF Busy
<1>3. PICK s \in Seq(ChildMsgs) : s = c2p[i]
  BY <1>1 DEF SlotTypes
<1>4. PICK t : t = Append(s, "output")
  OBVIOUS
<1>5. "output" \in ChildMsgs /\ "output" \notin Availables /\ "output" # "exit complete"
  BY DEF ChildMsgs, Availables
<1>6. /\ t \in Seq(ChildMsgs) /\ t # <<>> /\ Len(t) = Len(s) + 1 /\ Len(s) \in Nat
      /\ t[Len(t)] = "output" /\ \A k \in 1..Len(s) : t[k] = s[k]
  BY ONLY <1>4, <1>5, AppendMembers
<1>7. /\ c2p'[i] = t /\ cpc'[i] = "report" /\ msgVal'[i] = v
      /\ p2c'[i] = p2c[i] /\ m_pid'[i] = m_pid[i] /\ job'[i] = job[i]
      /\ childCount' = childCount
      /\ c2p' \in [Slots -> Seq(ChildMsgs)]
  BY <1>1, <1>3, <1>4, <1>6 DEF SlotTypes, poolVars
<1>8. SlotTypes'
  <2>1. kills' \in Nat
    <3>1. kills \in Nat
      BY <1>1 DEF SlotTypes
    <3>. QED
      BY ONLY <3>1, kills' = kills + v, v \in {0, 1}
  <2>. QED
    BY <1>1, <1>7, <2>1 DEF SlotTypes, poolVars, parentVars
<1>9. /\ PipeShape(i) /\ OneRequest(i) /\ ~Asked(i) /\ ~Reported(i) /\ m_pid[i] # 0
      /\ job[i] \in MonitorMsgs
      /\ \A k \in 1..Len(s) : s[k] \notin Availables /\ s[k] # "exit complete"
  BY <1>2, <1>3, BusyChild
<1>10. \A k \in 1..Len(t) : t[k] \notin Availables /\ t[k] # "exit complete"
  <2>1. \A k \in 1..Len(t) : k \in 1..Len(s) \/ k = Len(t)
    BY ONLY <1>6
  <2>. QED
    BY ONLY <1>5, <1>6, <1>9, <2>1
<1>11. PipeShape(i)'
  <2>1. RequestPipe(i)'
    BY <1>7, <1>9 DEF PipeShape, RequestPipe, Told, parentVars
  <2>2. AnswerPipe(i)'
    BY <1>7, <1>10 DEF AnswerPipe
  <2>3. Lifetime(i)'
    BY <1>2, <1>7, <1>9 DEF PipeShape, Lifetime, Busy
  <2>. QED
    BY <2>1, <2>2, <2>3 DEF PipeShape
<1>12. ~Asked(i)' /\ ~Reported(i)' /\ (OwesKill(i)' <=> v = 1)
  BY <1>7, <1>9, <1>10 DEF Asked, Reported, OwesKill, Availables
<1>13. OneRequest(i)'
  BY <1>7, <1>9, <1>10, <1>12 DEF OneRequest, Busy
<1>14. ~OwesKill(i)
  BY <1>3, <1>9 DEF OwesKill, Availables
<1>15. ~SaidAll(i) /\ ~SaidAll(i)'
  BY <1>7 DEF SaidAll
<1>16. \A j \in Slots : j # i => SameSlot(j)
  BY <1>1 DEF SlotTypes, SameSlot, poolVars
<1>17. \/ (OwesKill(i)' <=> OwesKill(i)) /\ kills' = kills
       \/ OwesKill(i)' /\ ~OwesKill(i) /\ kills' = kills + 1
  <2>1. CASE v = 0
    <3>1. kills' = kills
      BY <1>1, <2>1 DEF SlotTypes
    <3>. QED
      BY <1>12, <1>14, <2>1, <3>1
  <2>2. CASE v = 1
    BY <1>12, <1>14, <2>2
  <2>. QED
    BY <2>1, <2>2
<1>. QED
  BY <1>8, <1>11, <1>13, <1>15, <1>16, <1>17, ChildStepKeeps

\* The rest of IndInv does not depend on the children.
LEMMA ChildRest ==
    ASSUME IndInv, UNCHANGED <<parentVars, poolVars, serverVars, forkFails, spawns>>,
           SlotTypes', SlotsInv', Drained' = Drained,
           proc' \in [Pids -> Processes], zombies' \in Nat
    PROVE  IndInv'
<1>1. TypeOK'
  BY DEF IndInv, TypeOK, SlotTypes, parentVars, poolVars, serverVars
<1>2. ExitedExact' /\ PoolRoom' /\ ScanInConfig' /\ (pc = "done" => report = killCount)'
  BY DEF IndInv, SlotsInv, ExitedExact, PoolRoom, ScanInConfig, parentVars, poolVars
<1>. QED
  BY <1>1, <1>2 DEF IndInv, SlotsInv

\* A request makes a child busy, "exit" makes it leave.
LEMMA ChildReadStep ==
    ASSUME IndInv, NEW i \in Slots, ChildRead(i)
    PROVE  IndInv'
<1>1. SlotTypes /\ SlotsInv
  BY SlotParts
<1>. DEFINE M == MonitorMsgs \cup {ExitMsg}
<1>2. PICK q \in Seq(M) : q = p2c[i] /\ q # <<>>
  BY <1>1 DEF SlotTypes, ChildRead
<1>3. PICK s \in Seq(ChildMsgs) : s = c2p[i]
  BY <1>1 DEF SlotTypes
<1>4. /\ Len(q) \in Nat /\ Len(q) > 0 /\ Head(q) = q[1] /\ q[1] \in M /\ 1 \in 1..Len(q)
      /\ Tail(q) \in Seq(M) /\ Len(Tail(q)) = Len(q) - 1
      /\ \A k \in 1..Len(Tail(q)) : Tail(q)[k] = q[k + 1] /\ k + 1 \in 1..Len(q)
      /\ Tail(q) = <<>> <=> Len(q) = 1
  BY <1>2, TailFacts
<1>5. PICK r \in Seq(M) : r = Tail(q)
  BY <1>4
<1>6. /\ PipeShape(i) /\ RequestPipe(i) /\ AnswerPipe(i) /\ Lifetime(i)
      /\ OneRequest(i) /\ m_pid[i] # Junk /\ i <= childCount /\ cpc[i] = "read"
  BY <1>1 DEF ChildRead, SlotsInv, PipeShape, Lifetime, JobAccounting
<1>7. /\ UNCHANGED <<parentVars, poolVars, msgVal, kills, procVars,
                      serverVars, forkFails>>
      /\ p2c' = [p2c EXCEPT ![i] = r]
  BY <1>2, <1>5 DEF ChildRead
<1>8. /\ p2c'[i] = r /\ p2c' \in [Slots -> Seq(M)]
      /\ m_pid'[i] = m_pid[i] /\ msgVal'[i] = msgVal[i] /\ childCount' = childCount
  BY <1>1, <1>7 DEF SlotTypes, poolVars
<1>9. \A k \in 1..Len(q) : /\ q[k].type = "monitor" => k = 1
                           /\ q[k].type = "exit" => k = Len(q) /\ Told(i)
  BY <1>2, <1>6 DEF RequestPipe
<1>10. \A k \in 1..Len(r) : /\ r[k].type # "monitor"
                            /\ r[k].type = "exit" => k = Len(r) /\ Told(i)
  <2>1. SUFFICES ASSUME NEW k \in 1..Len(r)
                 PROVE  /\ r[k].type # "monitor"
                        /\ r[k].type = "exit" => k = Len(r) /\ Told(i)
    OBVIOUS
  <2>2. r[k] = q[k + 1] /\ k + 1 \in 1..Len(q) /\ Len(r) = Len(q) - 1
    BY <1>4, <1>5
  <2>3. /\ q[k + 1].type = "monitor" => k + 1 = 1
        /\ q[k + 1].type = "exit" => k + 1 = Len(q) /\ Told(i)
    BY ONLY <1>9, <2>2
  <2>4. k \in Nat /\ k > 0 /\ Len(q) \in Nat
    BY <1>4
  <2>. QED
    BY ONLY <2>2, <2>3, <2>4
<1>11. RequestPipe(i)' /\ ~Asked(i)'
  BY <1>7, <1>8, <1>10 DEF RequestPipe, Asked, Told, parentVars
<1>12. UNCHANGED <<parentVars, poolVars, serverVars, forkFails, spawns>>
       /\ proc' \in [Pids -> Processes] /\ zombies' \in Nat
  BY <1>7 DEF IndInv, TypeOK, procVars
<1>13. CASE q[1].type = "monitor"
  <2>1. /\ c2p' = [c2p EXCEPT ![i] = Append(@, "output")]
        /\ cpc' = [cpc EXCEPT ![i] = "sleep"]
        /\ job' = [job EXCEPT ![i] = q[1]] /\ q[1] \in MonitorMsgs
    <3>1. q[1] \in MonitorMsgs /\ q[1].type # "exit" /\ Head(p2c[i]) = q[1]
      BY <1>2, <1>4, <1>13 DEF ExitMsg
    <3>. QED
      BY <3>1 DEF ChildRead
  <2>2. PICK t : t = Append(s, "output")
    OBVIOUS
  <2>3. "output" \in ChildMsgs /\ "output" \notin Availables /\ "output" # "exit complete"
    BY DEF ChildMsgs, Availables
  <2>4. /\ t \in Seq(ChildMsgs) /\ t # <<>> /\ Len(t) = Len(s) + 1 /\ Len(s) \in Nat
        /\ t[Len(t)] = "output" /\ \A k \in 1..Len(s) : t[k] = s[k]
    BY ONLY <2>2, <2>3, AppendMembers
  <2>5. /\ c2p'[i] = t /\ c2p' \in [Slots -> Seq(ChildMsgs)]
        /\ cpc'[i] = "sleep" /\ job'[i] = q[1]
    BY <1>1, <1>3, <2>1, <2>2, <2>4 DEF SlotTypes
  <2>6. Asked(i)
    BY <1>2, <1>4, <1>13 DEF Asked
  <2>7. m_pid[i] # 0 /\ ~Reported(i)
    BY <1>6, <2>6 DEF OneRequest
  <2>8. \A k \in 1..Len(s) : s[k] \notin Availables /\ s[k] # "exit complete"
    BY <1>3, <1>6, <2>7 DEF AnswerPipe, Reported
  <2>9. \A k \in 1..Len(t) : t[k] \notin Availables /\ t[k] # "exit complete"
    <3>1. \A k \in 1..Len(t) : k \in 1..Len(s) \/ k = Len(t)
      BY ONLY <2>4
    <3>. QED
      BY ONLY <2>3, <2>4, <2>8, <3>1
  <2>10. PipeShape(i)'
    <3>1. AnswerPipe(i)'
      BY <2>5, <2>9 DEF AnswerPipe
    <3>2. Lifetime(i)'
      <4>1. ~(i > childCount)
        BY <1>1, <1>6 DEF SlotTypes, Slots
      <4>. QED
        BY <1>6, <1>8, <2>1, <2>5, <4>1 DEF Lifetime
    <3>. QED
      BY <1>11, <3>1, <3>2 DEF PipeShape
  <2>11. ~Reported(i)' /\ ~OwesKill(i)' /\ ~OwesKill(i)
    BY <1>3, <1>6, <2>5, <2>8, <2>9 DEF Reported, OwesKill, Availables
  <2>12. OneRequest(i)'
    BY <1>8, <1>11, <2>5, <2>7, <2>9, <2>11 DEF OneRequest, Busy
  <2>13. ~SaidAll(i) /\ ~SaidAll(i)'
    BY <1>6, <2>5 DEF SaidAll
  <2>14. \A j \in Slots : j # i => SameSlot(j)
    BY <1>1, <1>7, <2>1 DEF SlotTypes, SameSlot, poolVars
  <2>15. SlotTypes'
    BY <1>1, <1>7, <1>8, <2>1, <2>5 DEF SlotTypes, poolVars, parentVars
  <2>16. SlotsInv' /\ Drained' = Drained
    BY <1>7, <2>10, <2>11, <2>12, <2>13, <2>14, <2>15, ChildStepKeeps
  <2>. QED
    BY <1>12, <2>15, <2>16, ChildRest
<1>14. CASE q[1].type = "exit"
  <2>1. /\ c2p' = [c2p EXCEPT ![i] = Append(@, "exit complete")]
        /\ cpc' = [cpc EXCEPT ![i] = "gone"] /\ job' = job
    BY <1>2, <1>4, <1>14 DEF ChildRead
  <2>0. PICK e : e = "exit complete"
    OBVIOUS
  <2>2. PICK t : t = Append(s, e)
    OBVIOUS
  <2>3. e \in ChildMsgs /\ e \notin Availables
    BY <2>0 DEF ChildMsgs, Availables
  <2>4. /\ t \in Seq(ChildMsgs) /\ t # <<>> /\ Len(t) = Len(s) + 1 /\ Len(s) \in Nat
        /\ t[Len(t)] = e /\ \A k \in 1..Len(s) : t[k] = s[k]
    BY ONLY <2>2, <2>3, AppendMembers
  <2>5. /\ c2p'[i] = t /\ c2p' \in [Slots -> Seq(ChildMsgs)]
        /\ cpc'[i] = "gone" /\ job'[i] = job[i]
    BY <1>1, <1>3, <2>0, <2>1, <2>2, <2>4 DEF SlotTypes
  <2>6. Told(i) /\ Len(q) = 1 /\ r = <<>>
    BY <1>4, <1>5, <1>9, <1>14
  <2>7. ~Asked(i)
    BY <1>2, <1>14, <2>6 DEF Asked
  <2>8. \A k \in 1..Len(s) : s[k] # e
    BY <1>3, <1>6, <2>0 DEF AnswerPipe
  <2>9. PipeShape(i)'
    <3>1. \A k \in 1..Len(t) : k \in 1..Len(s) \/ k = Len(t)
      BY ONLY <2>4
    <3>2. \A k \in 1..Len(t) : t[k] = e => k = Len(t)
      BY ONLY <2>4, <2>8, <3>1
    <3>3. AnswerPipe(i)'
      BY <2>0, <2>4, <2>5, <3>2 DEF AnswerPipe
    <3>4. Lifetime(i)'
      BY <1>6, <1>7, <1>8, <2>5, <2>6 DEF Lifetime, Busy, Told, parentVars
    <3>. QED
      BY <1>11, <3>3, <3>4 DEF PipeShape
  <2>10. /\ Reported(i) <=> \E k \in 1..Len(s) : s[k] \in Availables
         /\ Reported(i)' <=> \E k \in 1..Len(t) : t[k] \in Availables
         /\ OwesKill(i) <=> \E k \in 1..Len(s) : s[k] \in {"available 1"}
         /\ OwesKill(i)' <=> \E k \in 1..Len(t) : t[k] \in {"available 1"}
    BY <1>3, <1>6, <2>5 DEF Reported, OwesKill
  <2>11. Reported(i)' <=> Reported(i)
    <3>1. (\E k \in 1..Len(t) : t[k] \in Availables)
             <=> (\E k \in 1..Len(s) : s[k] \in Availables)
      BY ONLY <2>2, <2>3, AppendOthers
    <3>. QED
      BY <2>10, <3>1
  <2>12. OwesKill(i)' <=> OwesKill(i)
    <3>1. e \notin {"available 1"}
      BY <2>0
    <3>2. (\E k \in 1..Len(t) : t[k] \in {"available 1"})
             <=> (\E k \in 1..Len(s) : s[k] \in {"available 1"})
      BY ONLY <2>2, <2>3, <3>1, AppendOthers
    <3>. QED
      BY <1>6, <2>5, <2>10, <3>2
  <2>13. \A k, l \in 1..Len(t) : t[k] \in Availables /\ t[l] \in Availables => k = l
    <3>1. \A k, l \in 1..Len(s) : s[k] \in Availables /\ s[l] \in Availables => k = l
      BY <1>3, <1>6 DEF OneRequest
    <3>. QED
      BY ONLY <2>2, <2>3, <3>1, AppendMembers
  <2>14. OneRequest(i)'
    BY <1>6, <1>8, <1>11, <2>5, <2>7, <2>11, <2>13 DEF OneRequest, Busy
  <2>15. ~SaidAll(i) /\ ~SaidAll(i)'
    BY <1>6, <2>4, <2>5 DEF SaidAll
  <2>16. \A j \in Slots : j # i => SameSlot(j)
    BY <1>1, <1>7, <2>1 DEF SlotTypes, SameSlot, poolVars
  <2>17. SlotTypes'
    BY <1>1, <1>7, <1>8, <2>1, <2>5 DEF SlotTypes, poolVars, parentVars
  <2>18. SlotsInv' /\ Drained' = Drained
    BY <1>7, <2>9, <2>12, <2>14, <2>15, <2>16, <2>17, ChildStepKeeps
  <2>. QED
    BY <1>12, <2>17, <2>18, ChildRest
<1>. QED
  BY <1>2, <1>4, <1>13, <1>14 DEF ChildRead

\* The child looks for the process again, and gives up or goes on.
LEMMA ChildCheckStep ==
    ASSUME IndInv, NEW i \in Slots, ChildCheck(i)
    PROVE  IndInv'
<1>1. /\ UNCHANGED <<parentVars, poolVars, p2c, job, kills, procVars,
                      serverVars, forkFails>>
      /\ cpc[i] = "sleep"
  BY DEF ChildCheck
<1>2. /\ UNCHANGED <<parentVars, poolVars, serverVars, forkFails, spawns>>
      /\ proc' \in [Pids -> Processes] /\ zombies' \in Nat
  BY <1>1 DEF IndInv, TypeOK, procVars
<1>3. SlotTypes /\ SlotsInv /\ cpc[i] \in Busy
  BY <1>1, SlotParts DEF Busy
<1>4. CASE /\ cpc' = [cpc EXCEPT ![i] = "kill"]
           /\ UNCHANGED <<c2p, msgVal>>
  <2>1. /\ cpc'[i] = "kill" /\ p2c'[i] = p2c[i] /\ c2p'[i] = c2p[i]
        /\ m_pid'[i] = m_pid[i] /\ job'[i] = job[i] /\ msgVal'[i] = msgVal[i]
        /\ childCount' = childCount
        /\ \A j \in Slots : j # i => SameSlot(j)
    BY <1>1, <1>3, <1>4 DEF SlotTypes, SameSlot, poolVars
  <2>2. PipeShape(i) /\ OneRequest(i)
    BY <1>3, BusyChild
  <2>3. PipeShape(i)'
    <3>1. RequestPipe(i)'
      BY <1>1, <2>1, <2>2 DEF PipeShape, RequestPipe, Told, parentVars
    <3>2. AnswerPipe(i)'
      BY <1>1, <2>1, <2>2 DEF PipeShape, AnswerPipe
    <3>3. Lifetime(i)'
      BY <1>1, <2>1, <2>2 DEF PipeShape, Lifetime, Busy
    <3>. QED
      BY <3>1, <3>2, <3>3 DEF PipeShape
  <2>4. OneRequest(i)' /\ (OwesKill(i)' <=> OwesKill(i)) /\ kills' = kills
    <3>1. /\ Asked(i)' <=> Asked(i)
          /\ Reported(i)' <=> Reported(i)
          /\ OwesKill(i)' <=> OwesKill(i)
      BY <1>1, <2>1 DEF Asked, Reported, OwesKill
    <3>. QED
      BY <1>1, <2>1, <2>2, <3>1 DEF OneRequest, Busy
  <2>5. ~SaidAll(i) /\ ~SaidAll(i)'
    BY <1>1, <2>1 DEF SaidAll
  <2>6. SlotTypes'
    BY <1>1, <1>3, <1>4 DEF SlotTypes, poolVars, parentVars
  <2>7. SlotsInv' /\ Drained' = Drained
    BY <1>1, <2>1, <2>3, <2>4, <2>5, <2>6, ChildStepKeeps
  <2>. QED
    BY <1>2, <2>6, <2>7, ChildRest
<1>5. CASE /\ cpc' = [cpc EXCEPT ![i] = "report"]
           /\ c2p' = [c2p EXCEPT ![i] = Append(@, "output")]
           /\ msgVal' = [msgVal EXCEPT ![i] = 0]
  <2>1. kills' = kills + 0
    BY <1>1, <1>3 DEF SlotTypes
  <2>2. SlotTypes' /\ SlotsInv' /\ Drained' = Drained
    BY <1>1, <1>5, <2>1, ChildOutputKeeps
  <2>. QED
    BY <1>2, <2>2, ChildRest
<1>. QED
  BY <1>4, <1>5 DEF ChildCheck

\* A kill that succeeds is owed to the parent from then on.
LEMMA ChildKillStep ==
    ASSUME IndInv, NEW i \in Slots, ChildKill(i)
    PROVE  IndInv'
<1>1. /\ UNCHANGED <<parentVars, poolVars, p2c, job, spawns, serverVars, forkFails>>
      /\ cpc[i] = "kill"
      /\ cpc' = [cpc EXCEPT ![i] = "report"]
      /\ c2p' = [c2p EXCEPT ![i] = Append(@, "output")]
  BY DEF ChildKill
<1>2. SlotTypes /\ SlotsInv /\ job[i].pid \in Pids
  BY <1>1, SlotParts, BusyChild DEF Busy
<1>3. CASE /\ Leave(job[i].pid)
           /\ kills' = kills + 1
           /\ msgVal' = [msgVal EXCEPT ![i] = 1]
  <2>1. SlotTypes' /\ SlotsInv' /\ Drained' = Drained
    BY <1>1, <1>3, ChildOutputKeeps
  <2>2. proc' \in [Pids -> Processes] /\ zombies' \in Nat
    BY <1>2, <1>3, ProcessesKept DEF IndInv
  <2>. QED
    BY <1>1, <2>1, <2>2, ChildRest
<1>4. CASE /\ msgVal' = [msgVal EXCEPT ![i] = 0]
           /\ UNCHANGED <<proc, zombies, kills>>
  <2>1. kills' = kills + 0
    BY <1>2, <1>4 DEF SlotTypes
  <2>2. SlotTypes' /\ SlotsInv' /\ Drained' = Drained
    BY <1>1, <1>4, <2>1, ChildOutputKeeps
  <2>3. proc' \in [Pids -> Processes] /\ zombies' \in Nat
    BY <1>4 DEF IndInv, TypeOK
  <2>. QED
    BY <1>1, <2>2, <2>3, ChildRest
<1>. QED
  BY <1>3, <1>4 DEF ChildKill

\* The answer takes over what the child owes.
LEMMA ChildReportStep ==
    ASSUME IndInv, NEW i \in Slots, ChildReport(i)
    PROVE  IndInv'
<1>1. /\ UNCHANGED <<parentVars, poolVars, p2c, kills, procVars,
                      serverVars, forkFails>>
      /\ cpc[i] = "report" /\ cpc[i] \in Busy
      /\ cpc' = [cpc EXCEPT ![i] = "read"]
      /\ job' = [job EXCEPT ![i] = ExitMsg]
      /\ msgVal' = [msgVal EXCEPT ![i] = 0]
  BY DEF ChildReport, Busy
<1>2. SlotTypes /\ SlotsInv
  BY SlotParts
<1>3. /\ UNCHANGED <<parentVars, poolVars, serverVars, forkFails, spawns>>
      /\ proc' \in [Pids -> Processes] /\ zombies' \in Nat
  BY <1>1 DEF IndInv, TypeOK, procVars
<1>4. PICK s \in Seq(ChildMsgs) : s = c2p[i]
  BY <1>2 DEF SlotTypes
<1>5. PICK v \in {0, 1} : v = msgVal[i]
  BY <1>2 DEF SlotTypes
<1>6. PICK e : e = Available(v)
  OBVIOUS
<1>7. /\ e \in ChildMsgs /\ e \in Availables /\ e # "exit complete"
      /\ e = "available 1" <=> v = 1
  BY <1>6 DEF Available, Availables, ChildMsgs
<1>71. e \in ChildMsgs
  BY <1>7
<1>8. PICK t : t = Append(s, e)
  OBVIOUS
<1>9. /\ t \in Seq(ChildMsgs) /\ t # <<>> /\ Len(t) = Len(s) + 1 /\ Len(s) \in Nat
      /\ t[Len(t)] = e /\ \A k \in 1..Len(s) : t[k] = s[k]
  BY ONLY <1>71, <1>8, AppendMembers
<1>10. /\ c2p'[i] = t /\ c2p' \in [Slots -> Seq(ChildMsgs)]
       /\ cpc'[i] = "read" /\ job'[i] = ExitMsg /\ msgVal'[i] = 0
       /\ p2c'[i] = p2c[i] /\ m_pid'[i] = m_pid[i] /\ childCount' = childCount
       /\ \A j \in Slots : j # i => SameSlot(j)
  <2>1. c2p' = [c2p EXCEPT ![i] = t]
    BY <1>4, <1>5, <1>6, <1>8 DEF ChildReport
  <2>. QED
    BY <1>1, <1>2, <1>9, <2>1 DEF SlotTypes, SameSlot, poolVars
<1>11. /\ PipeShape(i) /\ OneRequest(i) /\ ~Asked(i) /\ m_pid[i] # 0
       /\ \A k \in 1..Len(s) : s[k] \notin Availables /\ s[k] # "exit complete"
  BY <1>1, <1>4, BusyChild
<1>12. /\ \A k \in 1..Len(t) : k \in 1..Len(s) \/ k = Len(t)
       /\ Len(t) \in 1..Len(t)
  BY ONLY <1>9
<1>13. /\ \A k \in 1..Len(t) : t[k] # "exit complete"
       /\ \A k \in 1..Len(t) : t[k] \in Availables => k = Len(t)
  BY ONLY <1>7, <1>9, <1>11, <1>12
<1>14. PipeShape(i)'
  <2>1. RequestPipe(i)'
    BY <1>1, <1>10, <1>11 DEF PipeShape, RequestPipe, Told, parentVars
  <2>2. AnswerPipe(i)'
    BY <1>10, <1>13 DEF AnswerPipe
  <2>3. Lifetime(i)'
    BY <1>1, <1>10, <1>11 DEF PipeShape, Lifetime, Busy
  <2>. QED
    BY <2>1, <2>2, <2>3 DEF PipeShape
<1>15. ~Asked(i)' /\ Reported(i)'
  <2>1. ~Asked(i)'
    BY <1>10, <1>11 DEF Asked
  <2>2. Reported(i)'
    BY <1>7, <1>9, <1>10, <1>12 DEF Reported
  <2>. QED
    BY <2>1, <2>2
<1>16. OneRequest(i)'
  BY <1>10, <1>11, <1>13, <1>15 DEF OneRequest, Busy
<1>17. OwesKill(i)' <=> OwesKill(i)
  <2>1. OwesKill(i) <=> v = 1
    BY <1>1, <1>4, <1>5, <1>11 DEF OwesKill, Availables
  <2>2. OwesKill(i)' <=> \E k \in 1..Len(t) : t[k] = "available 1"
    BY <1>10 DEF OwesKill
  <2>3. (\E k \in 1..Len(t) : t[k] = "available 1") <=> v = 1
    <3>1. \A k \in 1..Len(t) : t[k] = "available 1" => k = Len(t)
      BY <1>13 DEF Availables
    <3>. QED
      BY ONLY <1>7, <1>9, <1>12, <3>1
  <2>. QED
    BY <2>1, <2>2, <2>3
<1>18. ~SaidAll(i) /\ ~SaidAll(i)'
  BY <1>1, <1>10 DEF SaidAll
<1>19. SlotTypes'
  BY <1>1, <1>2, <1>10 DEF SlotTypes, poolVars, parentVars
<1>20. SlotsInv' /\ Drained' = Drained
  BY <1>1, <1>10, <1>14, <1>16, <1>17, <1>18, <1>19, ChildStepKeeps
<1>. QED
  BY <1>3, <1>19, <1>20, ChildRest

-----------------------------------------------------------------------------
(* Steps of the parent.                                                    *)

InboxType == Seq([type : {"config"}, procs : Configs]
                 \cup [type : {"exit"}, procs : {<<>>}])

\* What TypeOK says of the variables that are not about slots.
LEMMA RestTypes ==
    /\ TypeOK => /\ idx \in Nat \ {0} /\ scan \subseteq Pids /\ config \in Seq(Names)
                 /\ Len(config) \in Nat
                 /\ {poolCap, forkFails, childCount} \subseteq Nat
                 /\ report \in Nat \cup {-1} /\ inbox \in InboxType
    /\ IndInv => TypeOK
BY DEF IndInv, TypeOK, InboxType

\* A step of the parent keeps every type if it keeps those of the slots and of
\* the variables it may assign.
LEMMA ParentTypes ==
    ASSUME IndInv, SlotTypes', UNCHANGED <<procVars, serverClosed, cfgSent>>,
           pc' \in {"receiveConfig", "initScan", "initFork", "read", "server",
                    "rescan", "rescanPid", "exit", "wait", "report", "done", "killed"},
           idx' \in Nat \ {0}, scan' \subseteq Pids, config' \in Seq(Names),
           poolCap' \in Nat, forkFails' \in Nat, report' \in Nat \cup {-1},
           inbox' \in InboxType
    PROVE  TypeOK'
BY DEF IndInv, TypeOK, SlotTypes, InboxType, procVars

\* Before cleanExit nobody has been told to exit.
LEMMA NobodyTold ==
    ASSUME pc \notin {"exit", "wait", "report", "done", "killed"}
    PROVE  ToldGrows /\ \A i \in Slots : ~Told(i)
BY DEF ToldGrows, Told

\* The pool is inside its allocation everywhere.
LEMMA PoolRoomBounds == TypeOK /\ PoolRoom => childCount <= poolCap
<1>. SUFFICES ASSUME TypeOK, PoolRoom PROVE childCount <= poolCap
  OBVIOUS
<1>1. idx \in Nat /\ Len(config) \in Nat /\ childCount \in Nat /\ poolCap \in Nat
  BY RestTypes
<1>2. Cardinality(scan) \in Nat
  BY RestTypes, PidSets
<1>3. CASE pc = "receiveConfig"
  <2>1. childCount = 0
    BY <1>3 DEF PoolRoom
  <2>. QED
    BY ONLY <1>1, <2>1
<1>4. CASE pc = "initScan"
  <2>1. /\ childCount + Len(config) + 1 - idx <= poolCap
        /\ idx <= Len(config) + 1
    BY <1>4 DEF PoolRoom
  <2>. QED
    BY ONLY <1>1, <2>1
<1>5. CASE pc = "initFork"
  <2>1. /\ childCount + Cardinality(scan) + Len(config) - idx <= poolCap
        /\ idx <= Len(config)
    BY <1>5 DEF PoolRoom
  <2>. QED
    BY ONLY <1>1, <1>2, <2>1
<1>6. CASE pc \notin {"receiveConfig", "initScan", "initFork"}
  BY <1>6 DEF PoolRoom
<1>. QED
  BY <1>3, <1>4, <1>5, <1>6

LEMMA ReadableTypes ==
    ASSUME TypeOK, NEW m \in Readable
    PROVE  m.type = "config" => m.procs \in Seq(Names)
<1>1. CASE inbox # <<>>
  <2>1. m = Head(inbox) /\ inbox \in InboxType
    BY <1>1, RestTypes DEF Readable
  <2>2. m \in [type : {"config"}, procs : Configs] \cup [type : {"exit"}, procs : {<<>>}]
    BY <1>1, <2>1 DEF InboxType
  <2>. QED
    BY <2>2, ConfigsAssumption
<1>2. CASE inbox = <<>>
  <2>1. m \in [type : {"config", "exit", "other"}, procs : {config}]
    BY <1>2 DEF Readable
  <2>. QED
    BY <2>1, RestTypes
<1>. QED
  BY <1>1, <1>2

LEMMA ConsumeTypes == TypeOK /\ Consume => inbox' \in InboxType
BY RestTypes DEF Consume, InboxType

\* A step before cleanExit that leaves the slots alone.
LEMMA QuietStep ==
    ASSUME IndInv, pc \notin {"exit", "wait", "report", "done", "killed"},
           UNCHANGED slotVars, pc' \notin {"report", "done"}
    PROVE  SlotTypes' /\ SlotsInv' /\ ExitedExact'
<1>1. SlotTypes' /\ SlotsInv' /\ Drained' = Drained
  BY NobodyTold, SlotsKept
<1>. QED
  BY <1>1 DEF SlotsInv, ExitedExact

LEMMA ReceiveConfigStep ==
    ASSUME IndInv, ReceiveConfig
    PROVE  IndInv'
<1>1. /\ pc = "receiveConfig" /\ pc' = "initScan" /\ poolCap' = Len(config') /\ Consume
      /\ UNCHANGED <<idx, scan, report, procVars, serverClosed, cfgSent, forkFails,
                     childCount, killCount>>
      /\ UNCHANGED slotVars
  BY DEF ReceiveConfig, slotVars, pipeVars, childVars
<1>2. SlotTypes' /\ SlotsInv' /\ ExitedExact'
  BY <1>1, QuietStep
<1>3. PICK m \in Readable : config' = IF m.type = "config" THEN m.procs ELSE config
  BY DEF ReceiveConfig
<1>4. config' \in Seq(Names)
  BY <1>3, ReadableTypes, RestTypes
<1>5. PICK n \in Nat : n = Len(config')
  BY <1>4
<1>6. TypeOK'
  BY <1>1, <1>2, <1>4, <1>5, ConsumeTypes, RestTypes, ParentTypes
<1>7. PoolRoom'
  <2>1. childCount' = 0 /\ idx' = 1 /\ poolCap' = n /\ Len(config') = n
    BY <1>1, <1>5 DEF IndInv, PoolRoom
  <2>2. childCount' + Len(config') + 1 - idx' <= poolCap' /\ idx' <= Len(config') + 1
    BY ONLY <2>1, n \in Nat
  <2>. QED
    BY <1>1, <2>2 DEF PoolRoom
<1>8. ScanInConfig' /\ (pc = "done" => report = killCount)'
  BY <1>1 DEF ScanInConfig
<1>. QED
  BY <1>2, <1>6, <1>7, <1>8 DEF IndInv, SlotsInv

LEMMA InitScanStep ==
    ASSUME IndInv, InitScan
    PROVE  IndInv'
<1>1. /\ pc = "initScan"
      /\ UNCHANGED <<config, report, procVars, inbox, serverClosed, cfgSent, forkFails,
                     childCount>>
      /\ UNCHANGED slotVars
  BY DEF InitScan, slotVars, pipeVars, childVars, serverVars
<1>2. /\ idx \in Nat \ {0} /\ Len(config) \in Nat /\ childCount \in Nat /\ poolCap \in Nat
      /\ childCount + Len(config) + 1 - idx <= poolCap /\ idx <= Len(config) + 1
  BY <1>1, RestTypes DEF IndInv, PoolRoom
<1>3. CASE idx > Len(config)
  <2>1. pc' = "read" /\ idx' = 1 /\ scan' = scan /\ poolCap' = poolCap
    BY <1>3 DEF InitScan
  <2>2. SlotTypes' /\ SlotsInv' /\ ExitedExact'
    BY <1>1, <2>1, QuietStep
  <2>3. TypeOK'
    BY <1>1, <2>1, <2>2, RestTypes, ParentTypes
  <2>4. childCount <= poolCap
    BY ONLY <1>2, <1>3
  <2>5. PoolRoom' /\ ScanInConfig' /\ (pc = "done" => report = killCount)'
    BY <1>1, <2>1, <2>4 DEF PoolRoom, ScanInConfig
  <2>. QED
    BY <2>2, <2>3, <2>5 DEF IndInv, SlotsInv
<1>4. CASE idx <= Len(config)
  <2>1. PICK found \in SUBSET Pids : found = Listed(config[idx])
    BY DEF Listed
  <2>2. ~(idx > Len(config))
    BY ONLY <1>2, <1>4
  <2>3. /\ scan' = found
        /\ poolCap' = poolCap + Room(found)
        /\ pc'  = IF found = {} THEN pc ELSE "initFork"
        /\ idx' = IF found = {} THEN idx + 1 ELSE idx
    BY <2>1, <2>2 DEF InitScan
  <2>4. PICK n \in Nat : n = Cardinality(found)
    BY PidSets
  <2>5. n = 0 <=> found = {}
    BY <2>4, PidSets
  <2>6. SlotTypes' /\ SlotsInv' /\ ExitedExact'
    BY <1>1, <2>3, QuietStep
  <2>7. PICK cap \in Nat : /\ poolCap' = cap /\ cap >= poolCap
                           /\ n > 1 => cap = poolCap + n
    <3>1. PICK r \in Nat : r = Room(found) /\ (n > 1 => r = n)
      BY <2>4 DEF Room
    <3>2. poolCap + r \in Nat /\ poolCap + r >= poolCap
      BY ONLY <1>2, r \in Nat
    <3>. QED
      BY <2>3, <3>1, <3>2
  <2>8. cap >= poolCap /\ (n > 1 => cap = poolCap + n)
    BY <2>7
  <2>9. CASE found = {}
    <3>1. pc' = "initScan" /\ idx' = idx + 1 /\ scan' = {}
      BY <1>1, <2>3, <2>9
    <3>2. idx + 1 \in Nat \ {0}
      BY ONLY <1>2
    <3>3. TypeOK'
      BY <1>1, <2>6, <2>7, <3>1, <3>2, RestTypes, ParentTypes
    <3>4. /\ childCount + Len(config) + 1 - (idx + 1) <= cap
          /\ idx + 1 <= Len(config) + 1
      BY ONLY <1>2, <1>4, <2>8
    <3>5. PoolRoom'
      BY <1>1, <2>7, <3>1, <3>4 DEF PoolRoom
    <3>6. ScanInConfig' /\ (pc = "done" => report = killCount)'
      BY <3>1 DEF ScanInConfig
    <3>. QED
      BY <2>6, <3>3, <3>5, <3>6 DEF IndInv, SlotsInv
  <2>10. CASE found # {}
    <3>1. pc' = "initFork" /\ idx' = idx /\ scan' = found
      BY <1>1, <2>3, <2>10
    <3>2. TypeOK'
      BY <1>1, <1>2, <2>6, <2>7, <3>1, RestTypes, ParentTypes
    <3>3. childCount + n + Len(config) - idx <= cap
      <4>1. n # 0
        BY <2>5, <2>10
      <4>. QED
        BY ONLY <1>2, <1>4, <2>8, <4>1, n \in Nat
    <3>4. PoolRoom'
      BY <1>1, <1>4, <2>4, <2>7, <3>1, <3>3 DEF PoolRoom
    <3>5. ScanInConfig' /\ (pc = "done" => report = killCount)'
      BY <1>1, <1>4, <3>1 DEF ScanInConfig
    <3>. QED
      BY <2>6, <3>2, <3>4, <3>5 DEF IndInv, SlotsInv
  <2>. QED
    BY <2>9, <2>10
<1>. QED
  BY <1>2, <1>3, <1>4

\* The name a scan looks at, and the process ids left of it.
LEMMA ScannedName ==
    ASSUME IndInv, pc \in {"initFork", "rescanPid"}
    PROVE  config[idx] \in Names /\ idx <= Len(config) /\ idx + 1 \in Nat \ {0}
<1>1. idx <= Len(config) /\ idx \in Nat \ {0} /\ Len(config) \in Nat /\ config \in Seq(Names)
  BY RestTypes DEF IndInv, ScanInConfig
<1>2. idx \in 1..Len(config) /\ idx + 1 \in Nat \ {0}
  BY ONLY <1>1
<1>. QED
  BY <1>1, <1>2

LEMMA InitForkStep ==
    ASSUME IndInv, InitFork
    PROVE  IndInv'
<1>1. /\ pc = "initFork"
      /\ UNCHANGED <<config, exited, report, poolCap, procVars, inbox, serverClosed,
                     cfgSent>>
  BY DEF InitFork, serverVars
<1>2. PICK p \in scan : ForkChild(config[idx], p) /\ scan' = scan \ {p}
  BY DEF InitFork
<1>3. /\ pc'  = IF scan' = {} THEN "initScan" ELSE pc
      /\ idx' = IF scan' = {} THEN idx + 1 ELSE idx
  BY DEF InitFork
<1>4. p \in Pids /\ scan \subseteq Pids
  BY <1>2, RestTypes
<1>5. ToldGrows
  BY <1>1, NobodyTold
<1>6. SlotTypes' /\ SlotsInv' /\ Drained' = Drained
  BY <1>1, <1>2, <1>4, <1>5, ScannedName, ForkChildKeeps
<1>7. ExitedExact'
  BY <1>1, <1>3, <1>6 DEF SlotsInv, ExitedExact
<1>8. forkFails' \in Nat /\ childCount' = childCount + 1
  BY <1>2, RestTypes DEF ForkChild
<1>9. /\ idx \in Nat \ {0} /\ idx + 1 \in Nat \ {0} /\ Len(config) \in Nat
      /\ childCount \in Nat /\ poolCap \in Nat
  BY <1>1, RestTypes, ScannedName
<1>10. TypeOK'
  BY <1>1, <1>3, <1>4, <1>2, <1>6, <1>8, <1>9, RestTypes, ParentTypes
<1>11. PICK n \in Nat : n = Cardinality(scan)
  BY <1>4, PidSets
<1>12. /\ Cardinality(scan') = n - 1 /\ n - 1 \in Nat
       /\ scan' = {} <=> n - 1 = 0
  BY <1>2, <1>4, <1>11, PidSets
<1>13. childCount + n + Len(config) - idx <= poolCap /\ idx <= Len(config)
  BY <1>1, <1>11 DEF IndInv, PoolRoom
<1>14. PICK c : c = childCount + 1
  OBVIOUS
<1>15. PoolRoom'
  <2>1. CASE scan' = {}
    <3>1. c + Len(config) + 1 - (idx + 1) <= poolCap /\ idx + 1 <= Len(config) + 1
      BY ONLY <1>9, <1>12, <1>13, <1>14, <2>1, n \in Nat
    <3>. QED
      BY <1>1, <1>3, <1>8, <1>14, <2>1, <3>1 DEF PoolRoom
  <2>2. CASE scan' # {}
    <3>1. c + (n - 1) + Len(config) - idx <= poolCap
      BY ONLY <1>9, <1>13, <1>14, n \in Nat
    <3>. QED
      BY <1>1, <1>3, <1>8, <1>12, <1>13, <1>14, <2>2, <3>1 DEF PoolRoom
  <2>. QED
    BY <2>1, <2>2
<1>16. ScanInConfig' /\ (pc = "done" => report = killCount)'
  BY <1>1, <1>3, <1>13 DEF ScanInConfig
<1>. QED
  BY <1>6, <1>7, <1>10, <1>15, <1>16 DEF IndInv, SlotsInv

LEMMA ReadChildStep ==
    ASSUME IndInv, ReadChild
    PROVE  IndInv'
<1>1. /\ pc = "read"
      /\ UNCHANGED <<scan, config, exited, report, p2c, childVars, procVars, inbox,
                     serverClosed, cfgSent, forkFails>>
  BY DEF ReadChild, serverVars
<1>2. UNCHANGED <<cpc, job, msgVal, kills>>
  BY <1>1 DEF childVars
<1>3. idx \in Nat \ {0} /\ idx + 1 \in Nat \ {0} /\ childCount <= poolCap
  BY RestTypes, PoolRoomBounds DEF IndInv
<1>4. /\ pc' \in {"read", "server"} /\ idx' \in Nat \ {0}
      /\ poolCap' = poolCap /\ childCount' = childCount
  BY <1>1, <1>3 DEF ReadChild, poolVars
<1>5. SlotTypes' /\ SlotsInv' /\ ExitedExact'
  <2>1. CASE UNCHANGED <<c2p, poolVars>>
    <3>1. UNCHANGED slotVars
      BY <1>1, <1>2, <2>1 DEF slotVars, poolVars
    <3>. QED
      BY <1>1, <1>4, <3>1, QuietStep
  <2>2. CASE /\ idx <= childCount /\ c2p[idx] # <<>> /\ HandleChildMessage(idx)
    <3>1. idx \in Slots
      BY <1>3, <2>2, BoundsAssumption, SlotParts DEF SlotTypes, Slots
    <3>2. Head(c2p[idx]) # "exit complete"
      <4>1. PICK s \in Seq(ChildMsgs) : s = c2p[idx]
        BY <3>1, SlotParts DEF SlotTypes
      <4>2. cpc[idx] # "gone" /\ PipeShape(idx)
        BY <1>1, <3>1, SlotParts DEF SlotsInv, PipeShape, Lifetime, Told
      <4>3. 1 \in 1..Len(s) /\ Head(s) = s[1]
        BY <2>2, <4>1, TailFacts
      <4>. QED
        BY <4>1, <4>2, <4>3 DEF PipeShape, AnswerPipe
    <3>3. ToldGrows
      BY <1>1, NobodyTold
    <3>4. SlotTypes' /\ SlotsInv'
      BY <1>1, <1>2, <1>4, <2>2, <3>1, <3>2, <3>3, HandleChildMessageKeeps
    <3>. QED
      BY <1>4, <3>4 DEF SlotsInv, ExitedExact
  <2>3. ~(idx > childCount) => idx <= childCount
    <3>1. idx \in Nat /\ childCount \in Nat
      BY RestTypes
    <3>. QED
      BY ONLY <3>1
  <2>. QED
    BY <2>1, <2>2, <2>3 DEF ReadChild
<1>6. TypeOK'
  BY <1>1, <1>2, <1>4, <1>5, RestTypes, ParentTypes
<1>7. PoolRoom' /\ ScanInConfig' /\ (pc = "done" => report = killCount)'
  BY <1>3, <1>4 DEF PoolRoom, ScanInConfig
<1>. QED
  BY <1>5, <1>6, <1>7 DEF IndInv, SlotsInv

LEMMA ReadServerStep ==
    ASSUME IndInv, ReadServer
    PROVE  IndInv'
<1>1. /\ pc = "server" /\ idx' = 1
      /\ UNCHANGED <<scan, exited, report, poolVars, pipeVars, childVars, procVars,
                     serverClosed, cfgSent, forkFails>>
      /\ pc' \in {"rescan", "exit"}
  BY DEF ReadServer
<1>2. UNCHANGED slotVars /\ UNCHANGED <<poolCap>>
  BY <1>1 DEF slotVars, poolVars, pipeVars, childVars
<1>3. config' \in Seq(Names)
  <2>1. CASE UNCHANGED <<config, inbox>>
    BY <2>1, RestTypes
  <2>2. CASE \E m \in Readable :
                config' = IF m.type = "config" THEN m.procs ELSE config
    <3>1. PICK m \in Readable : config' = IF m.type = "config" THEN m.procs ELSE config
      BY <2>2
    <3>. QED
      BY <3>1, ReadableTypes, RestTypes
  <2>. QED
    BY <2>1, <2>2 DEF ReadServer
<1>30. inbox' \in InboxType
  <2>1. UNCHANGED inbox \/ Consume
    BY DEF ReadServer
  <2>. QED
    BY <2>1, ConsumeTypes, RestTypes
<1>4. SlotTypes' /\ SlotsInv' /\ ExitedExact'
  BY <1>1, <1>2, QuietStep
<1>5. TypeOK'
  BY <1>1, <1>2, <1>3, <1>30, <1>4, RestTypes, ParentTypes
<1>6. PoolRoom' /\ ScanInConfig' /\ (pc = "done" => report = killCount)'
  BY <1>1, <1>2, RestTypes, PoolRoomBounds DEF IndInv, PoolRoom, ScanInConfig, slotVars
<1>. QED
  BY <1>4, <1>5, <1>6 DEF IndInv, SlotsInv

LEMMA RescanStep ==
    ASSUME IndInv, Rescan
    PROVE  IndInv'
<1>1. /\ pc = "rescan"
      /\ UNCHANGED <<config, exited, report, poolVars, pipeVars, childVars, procVars,
                     inbox, serverClosed, cfgSent, forkFails>>
  BY DEF Rescan, serverVars
<1>2. UNCHANGED slotVars /\ UNCHANGED <<poolCap>>
  BY <1>1 DEF slotVars, poolVars, pipeVars, childVars
<1>3. idx \in Nat \ {0} /\ idx + 1 \in Nat \ {0} /\ Len(config) \in Nat
  BY RestTypes
<1>4. /\ pc' \in {"read", "rescan", "rescanPid"} /\ idx' \in Nat \ {0} /\ scan' \subseteq Pids
      /\ pc' = "rescanPid" => idx' <= Len(config)
  <2>1. CASE idx > Len(config)
    BY <2>1, RestTypes DEF Rescan
  <2>2. CASE idx <= Len(config)
    <3>1. ~(idx > Len(config))
      BY ONLY <1>3, <2>2
    <3>. QED
      BY <1>1, <1>3, <2>2, <3>1 DEF Rescan, Listed
  <2>. QED
    BY <1>3, <2>1, <2>2
<1>5. SlotTypes' /\ SlotsInv' /\ ExitedExact'
  BY <1>1, <1>2, <1>4, QuietStep
<1>6. TypeOK'
  BY <1>1, <1>2, <1>4, <1>5, RestTypes, ParentTypes
<1>7. PoolRoom' /\ ScanInConfig' /\ (pc = "done" => report = killCount)'
  BY <1>1, <1>2, <1>4, RestTypes, PoolRoomBounds
  DEF IndInv, PoolRoom, ScanInConfig, slotVars
<1>. QED
  BY <1>5, <1>6, <1>7 DEF IndInv, SlotsInv

LEMMA RescanPidStep ==
    ASSUME IndInv, RescanPid
    PROVE  IndInv'
<1>1. /\ pc = "rescanPid"
      /\ UNCHANGED <<config, exited, report, procVars, inbox, serverClosed, cfgSent>>
      /\ pc'  = IF scan' = {} THEN "rescan" ELSE pc
      /\ idx' = IF scan' = {} THEN idx + 1 ELSE idx
  BY DEF RescanPid, serverVars
<1>2. PICK p \in scan :
         /\ scan' = scan \ {p}
         /\ \/ UNCHANGED <<poolVars, pipeVars, childVars, forkFails>>
            \/ ReuseChild(config[idx], p)
            \/ ForkChild(config[idx], p) /\ poolCap' = childCount'
  BY DEF RescanPid
<1>3. p \in Pids /\ scan' \subseteq Pids /\ config[idx] \in Names
  BY <1>1, <1>2, RestTypes, ScannedName
<1>4. ToldGrows /\ \A i \in Slots : ~Told(i)
  BY <1>1, NobodyTold
<1>5. {poolCap, childCount, forkFails} \subseteq Nat /\ childCount <= poolCap
  BY RestTypes, PoolRoomBounds DEF IndInv
<1>6. /\ SlotTypes' /\ SlotsInv' /\ Drained' = Drained
      /\ poolCap' \in Nat /\ forkFails' \in Nat /\ childCount' <= poolCap'
  <2>1. CASE UNCHANGED <<poolVars, pipeVars, childVars, forkFails>>
    <3>1. UNCHANGED slotVars
      BY <1>1, <2>1 DEF slotVars, poolVars, pipeVars, childVars
    <3>2. UNCHANGED <<poolCap, childCount, forkFails>>
      BY <2>1 DEF poolVars, childVars
    <3>. QED
      BY <1>4, <1>5, <3>1, <3>2, SlotsKept
  <2>2. CASE ReuseChild(config[idx], p)
    <3>1. UNCHANGED <<poolCap, childCount, forkFails>>
      BY <2>2 DEF ReuseChild, childVars
    <3>2. SlotTypes' /\ SlotsInv' /\ Drained' = Drained
      BY <1>1, <1>3, <1>4, <2>2, ReuseChildKeeps
    <3>. QED
      BY <1>5, <3>1, <3>2
  <2>3. CASE ForkChild(config[idx], p) /\ poolCap' = childCount'
    <3>1. SlotTypes' /\ SlotsInv' /\ Drained' = Drained
      BY <1>1, <1>3, <1>4, <2>3, ForkChildKeeps
    <3>2. childCount' \in Nat
      BY <3>1 DEF SlotTypes
    <3>3. forkFails' \in Nat
      BY <1>5, <2>3 DEF ForkChild
    <3>4. childCount' <= poolCap'
      BY ONLY <2>3, <3>2
    <3>. QED
      BY <2>3, <3>1, <3>2, <3>3, <3>4
  <2>. QED
    BY <1>2, <2>1, <2>2, <2>3
<1>7. /\ pc' \in {"rescan", "rescanPid"} /\ idx' \in Nat \ {0}
      /\ pc' = "rescanPid" => idx' <= Len(config)
  BY <1>1, RestTypes, ScannedName
<1>8. TypeOK'
  BY <1>1, <1>3, <1>6, <1>7, RestTypes, ParentTypes
<1>9. /\ ExitedExact' /\ PoolRoom' /\ ScanInConfig'
      /\ (pc = "done" => report = killCount)'
  BY <1>1, <1>6, <1>7 DEF SlotsInv, ExitedExact, PoolRoom, ScanInConfig
<1>. QED
  BY <1>6, <1>8, <1>9 DEF IndInv, SlotsInv

\* What the steps of cleanExit have in common.
LEMMA ExitRest ==
    ASSUME IndInv, pc \in {"exit", "wait", "report"},
           pc' \in {"exit", "wait", "report", "done", "killed"}, idx' \in Nat \ {0},
           UNCHANGED <<scan, config, procVars, inbox, serverClosed, cfgSent,
                       forkFails, childCount, poolCap>>,
           report' \in Nat \cup {-1}, SlotTypes', SlotsInv', ExitedExact',
           pc' = "done" => report' = killCount'
    PROVE  IndInv'
<1>1. TypeOK'
  BY RestTypes, ParentTypes
<1>2. childCount <= poolCap
  BY PoolRoomBounds DEF IndInv
<1>3. PoolRoom' /\ ScanInConfig'
  BY <1>2 DEF PoolRoom, ScanInConfig
<1>. QED
  BY <1>1, <1>3 DEF IndInv, SlotsInv

LEMMA SendExitStep ==
    ASSUME IndInv, SendExit
    PROVE  IndInv'
<1>1. /\ pc = "exit"
      /\ UNCHANGED <<scan, config, exited, report, procVars, inbox, serverClosed,
                     cfgSent, forkFails, childCount, poolCap>>
      /\ UNCHANGED <<childCount, idleChildCount, killCount, m_pid, c2p, cpc,
                     job, msgVal, kills, exited>>
  BY DEF SendExit, serverVars, poolVars, childVars
<1>2. /\ idx \in Nat \ {0} /\ childCount \in Nat /\ childCount <= MaxChildren
      /\ report \in Nat \cup {-1}
  BY RestTypes, SlotParts DEF SlotTypes
<1>3. CASE idx > childCount
  <2>1. pc' = "wait" /\ idx' = 1 /\ UNCHANGED slotVars
    BY <1>1, <1>3 DEF SendExit, slotVars
  <2>2. ToldGrows
    BY <2>1 DEF ToldGrows, Told
  <2>3. SlotTypes' /\ SlotsInv' /\ Drained' = Drained
    BY <2>1, <2>2, SlotsKept
  <2>4. ExitedExact'
    BY <2>1, <2>3 DEF SlotsInv, ExitedExact
  <2>. QED
    BY <1>1, <1>2, <2>1, <2>3, <2>4, ExitRest
<1>4. CASE idx <= childCount
  <2>1. ~(idx > childCount) /\ idx \in Slots /\ idx + 1 \in Nat \ {0}
    <3>1. ~(idx > childCount) /\ idx \in 1..MaxChildren /\ idx + 1 \in Nat \ {0}
      BY ONLY <1>2, <1>4, BoundsAssumption
    <3>. QED
      BY <3>1 DEF Slots
  <2>0. PICK x \in Slots : x = idx
    BY <2>1
  <2>2. /\ p2c' = [p2c EXCEPT ![x] = Append(@, ExitMsg)]
        /\ idx' = idx + 1 /\ pc' = pc
    BY <2>0, <2>1 DEF SendExit
  <2>3. ~Told(x) /\ Told(x)'
    <3>1. ~(x < idx) /\ x < idx + 1
      BY ONLY <1>2, <2>0
    <3>. QED
      BY <1>1, <2>2, <3>1 DEF Told
  <2>4. ToldGrows
    <3>1. \A i \in Slots : i < idx => i < idx + 1
      BY <1>2 DEF Slots
    <3>. QED
      BY <1>1, <2>2, <3>1 DEF ToldGrows, Told
  <2>5. SlotTypes' /\ SlotsInv' /\ Drained' = Drained
    BY <1>1, <1>4, <2>0, <2>2, <2>3, <2>4, SendExitKeeps
  <2>6. ExitedExact'
    BY <1>1, <2>2, <2>5 DEF SlotsInv, ExitedExact
  <2>. QED
    BY <1>1, <1>2, <2>1, <2>2, <2>5, <2>6, ExitRest
<1>5. idx > childCount \/ idx <= childCount
  BY ONLY <1>2
<1>. QED
  BY <1>3, <1>4, <1>5

\* When every child has been counted, none has anything left to say.
LEMMA AllDrained ==
    ASSUME IndInv, exited >= childCount
    PROVE  1..childCount \subseteq Drained
<1>1. childCount \in Nat /\ childCount <= MaxChildren /\ exited = Cardinality(Drained)
  BY SlotParts DEF SlotTypes, SlotsInv
<1>2. Drained \subseteq 1..childCount
  <2>1. ASSUME NEW i \in Drained PROVE i \in 1..childCount
    <3>1. i \in Slots /\ cpc[i] = "gone"
      BY DEF Drained, SaidAll
    <3>2. i <= childCount /\ i \in 1..MaxChildren
      BY <3>1, SlotParts DEF SlotsInv, PipeShape, Lifetime, Slots
    <3>. QED
      BY ONLY <1>1, <3>2, BoundsAssumption
  <2>. QED
    BY <2>1
<1>3. IsFiniteSet(1..childCount) /\ Cardinality(1..childCount) = childCount
  BY <1>1, FS_Interval
<1>4. /\ Cardinality(Drained) <= childCount /\ Cardinality(Drained) \in Nat
      /\ Cardinality(Drained) = childCount => Drained = 1..childCount
  BY <1>2, <1>3, FS_Subset, FS_CardinalityType
<1>5. Cardinality(Drained) = childCount
  BY ONLY <1>1, <1>4, exited >= childCount
<1>. QED
  BY <1>4, <1>5

LEMMA WaitForChildrenStep ==
    ASSUME IndInv, WaitForChildren
    PROVE  IndInv'
<1>1. /\ pc = "wait"
      /\ UNCHANGED <<scan, config, report, p2c, cpc, job, msgVal, kills,
                     procVars, inbox, serverClosed, cfgSent, forkFails>>
      /\ UNCHANGED <<childCount, poolCap>>
  BY DEF WaitForChildren, serverVars, childVars, poolVars
<1>2. /\ idx \in Nat \ {0} /\ childCount \in Nat /\ childCount <= MaxChildren
      /\ report \in Nat \cup {-1} /\ idx + 1 \in Nat \ {0} /\ exited \in Nat
  BY RestTypes, SlotParts DEF SlotTypes
<1>3. pc' \in {"wait", "report"} /\ idx' \in Nat \ {0}
  <2>1. pc' \in {"wait", "report"}
    BY <1>1 DEF WaitForChildren
  <2>2. idx' = 1 \/ idx' = idx + 1
    BY DEF WaitForChildren
  <2>. QED
    BY <1>2, <2>1, <2>2
<1>4. ToldGrows
  BY <1>1, <1>3 DEF ToldGrows, Told
<1>5. CASE idx > childCount
  <2>1. /\ UNCHANGED slotVars
        /\ pc' = "report" => exited >= childCount
    BY <1>1, <1>5 DEF WaitForChildren, AllExited, slotVars, poolVars
  <2>2. SlotTypes' /\ SlotsInv' /\ Drained' = Drained
    BY <1>4, <2>1, SlotsKept
  <2>4. ExitedExact'
    BY <1>1, <1>3, <2>1, <2>2, AllDrained DEF SlotsInv, ExitedExact
  <2>. QED
    BY <1>1, <1>2, <1>3, <2>2, <2>4, ExitRest
<1>6. CASE idx <= childCount
  <2>1. ~(idx > childCount) /\ idx \in Slots
    <3>1. ~(idx > childCount) /\ idx \in 1..MaxChildren
      BY ONLY <1>2, <1>6, BoundsAssumption
    <3>. QED
      BY <3>1 DEF Slots
  <2>2. pc' = "wait"
    BY <1>1, <2>1 DEF WaitForChildren
  <2>3. SlotTypes' /\ SlotsInv'
    <3>1. CASE c2p[idx] = <<>>
      <4>1. UNCHANGED slotVars
        BY <1>1, <2>1, <3>1 DEF WaitForChildren, slotVars, poolVars
      <4>. QED
        BY <1>4, <4>1, SlotsKept
    <3>2. CASE c2p[idx] # <<>>
      <4>1. /\ HandleChildMessage(idx)
            /\ exited' = exited + (IF Head(c2p[idx]) = "exit complete" THEN 1 ELSE 0)
        BY <2>1, <3>2 DEF WaitForChildren
      <4>2. /\ Head(c2p[idx]) = "exit complete" => exited' = exited + 1
            /\ Head(c2p[idx]) # "exit complete" => exited' = exited
        <5>1. /\ Head(c2p[idx]) = "exit complete" => exited' = exited + 1
              /\ Head(c2p[idx]) # "exit complete" => exited' = exited + 0
          BY <4>1
        <5>2. exited + 0 = exited
          BY ONLY <1>2
        <5>. QED
          BY ONLY <5>1, <5>2
      <4>. QED
        BY <1>1, <1>4, <2>1, <3>2, <4>1, <4>2, HandleChildMessageKeeps
    <3>. QED
      BY <3>1, <3>2
  <2>4. ExitedExact'
    BY <2>2, <2>3 DEF SlotsInv, ExitedExact
  <2>. QED
    BY <1>1, <1>2, <1>3, <2>3, <2>4, ExitRest
<1>7. idx > childCount \/ idx <= childCount
  BY ONLY <1>2
<1>. QED
  BY <1>5, <1>6, <1>7

LEMMA ReportStep ==
    ASSUME IndInv, Report
    PROVE  IndInv'
<1>1. /\ pc = "report" /\ pc' = "done" /\ report' = killCount
      /\ UNCHANGED <<idx, scan, config, exited, poolVars, pipeVars, childVars, procVars,
                     inbox, serverClosed, cfgSent, forkFails>>
  BY DEF Report, serverVars
<1>2. UNCHANGED slotVars /\ UNCHANGED <<poolCap, childCount, killCount>>
  BY <1>1 DEF slotVars, poolVars, pipeVars, childVars
<1>3. ToldGrows
  BY <1>1 DEF ToldGrows, Told
<1>4. SlotTypes' /\ SlotsInv' /\ Drained' = Drained
  BY <1>2, <1>3, SlotsKept
<1>5. ExitedExact'
  BY <1>1, <1>2, <1>4 DEF SlotsInv, IndInv, ExitedExact
<1>6. report' \in Nat \cup {-1} /\ idx' \in Nat \ {0}
  BY <1>1, RestTypes, SlotParts DEF SlotTypes
<1>. QED
  BY <1>1, <1>2, <1>4, <1>5, <1>6, ExitRest

LEMMA KilledBySigpipeStep ==
    ASSUME IndInv, KilledBySigpipe
    PROVE  IndInv'
<1>1. /\ pc' = "killed"
      /\ UNCHANGED <<idx, scan, config, exited, report, poolVars, pipeVars, childVars,
                     procVars, inbox, serverClosed, cfgSent, forkFails>>
  BY DEF KilledBySigpipe, serverVars
<1>2. UNCHANGED slotVars /\ UNCHANGED <<poolCap, childCount>>
  BY <1>1 DEF slotVars, poolVars, pipeVars, childVars
<1>3. ToldGrows
  BY <1>1 DEF ToldGrows, Told
<1>4. SlotTypes' /\ SlotsInv'
  BY <1>2, <1>3, SlotsKept
<1>5. TypeOK'
  BY <1>1, <1>2, <1>4, RestTypes, ParentTypes
<1>6. /\ ExitedExact' /\ PoolRoom' /\ ScanInConfig'
      /\ (pc = "done" => report = killCount)'
  BY <1>1, <1>2, <1>4, PoolRoomBounds
  DEF SlotsInv, IndInv, ExitedExact, PoolRoom, ScanInConfig
<1>. QED
  BY <1>4, <1>5, <1>6 DEF IndInv, SlotsInv

-----------------------------------------------------------------------------
(* The theorems.                                                           *)

\* A step that changes nothing.
LEMMA StutteringStep == IndInv /\ UNCHANGED vars => IndInv'
<1>. SUFFICES ASSUME IndInv, UNCHANGED vars PROVE IndInv'
  OBVIOUS
<1>1. /\ UNCHANGED slotVars
      /\ UNCHANGED <<pc, idx, scan, config, exited, report, poolCap, procVars,
                     serverVars, forkFails, childCount, killCount>>
  BY DEF vars, slotVars, parentVars, poolVars, pipeVars, childVars
<1>2. ToldGrows
  BY <1>1 DEF ToldGrows, Told
<1>3. SlotTypes' /\ SlotsInv' /\ Drained' = Drained
  BY <1>1, <1>2, SlotsKept
<1>4. TypeOK'
  BY <1>1, <1>3 DEF IndInv, TypeOK, SlotTypes, procVars, serverVars
<1>5. /\ ExitedExact' /\ PoolRoom' /\ ScanInConfig'
      /\ (pc = "done" => report = killCount)'
  BY <1>1, <1>3 DEF SlotsInv, IndInv, ExitedExact, PoolRoom, ScanInConfig
<1>. QED
  BY <1>3, <1>4, <1>5 DEF IndInv, SlotsInv

\* Every step of the node, of its environment and of its children keeps IndInv.
LEMMA IndInvStep == IndInv /\ [Next]_vars => IndInv'
<1>. SUFFICES ASSUME IndInv, [Next]_vars PROVE IndInv'
  OBVIOUS
<1>1. CASE Environment
  BY <1>1, EnvironmentStep
<1>2. CASE Parent
  <2>1. CASE ReceiveConfig \/ InitScan \/ InitFork
    BY <2>1, ReceiveConfigStep, InitScanStep, InitForkStep
  <2>2. CASE ReadChild \/ ReadServer \/ Rescan \/ RescanPid
    BY <2>2, ReadChildStep, ReadServerStep, RescanStep, RescanPidStep
  <2>3. CASE SendExit \/ WaitForChildren \/ Report \/ KilledBySigpipe
    BY <2>3, SendExitStep, WaitForChildrenStep, ReportStep, KilledBySigpipeStep
  <2>. QED
    BY <1>2, <2>1, <2>2, <2>3 DEF Parent
<1>3. ASSUME NEW i \in Slots, Child(i) PROVE IndInv'
  BY <1>3, ChildReadStep, ChildCheckStep, ChildKillStep, ChildReportStep DEF Child
<1>4. CASE Finished
  BY <1>4, StutteringStep DEF Finished
<1>5. CASE UNCHANGED vars
  BY <1>5, StutteringStep
<1>. QED
  BY <1>1, <1>2, <1>3, <1>4, <1>5 DEF Next

\* The inductive invariant holds in every reachable state of the node.
THEOREM Inductive == Spec => []IndInv
BY InitIndInv, IndInvStep, PTL DEF Spec

\* Types are kept; idleChildCount and the other counters of the parent never
\* become negative.
THEOREM TypeCorrect == Spec => []TypeOK
<1>1. IndInv => TypeOK
  BY DEF IndInv
<1>. QED
  BY <1>1, Inductive, PTL

\* idleChildCount is the number of idle structs in the pool, whatever the
\* number of children: a re-used index is never -1.
THEOREM IdleCountCorrect == Spec => []IdleCountExact
<1>1. IndInv => IdleCountExact
  BY DEF IndInv
<1>. QED
  BY <1>1, Inductive, PTL

\* A child has one request at a time, and m_pid names it all the while.
THEOREM JobsCorrect == Spec => []JobAccounting
<1>1. IndInv => JobAccounting
  BY DEF IndInv
<1>. QED
  BY <1>1, Inductive, PTL

\* Kills and the reports of kills agree in every state.
THEOREM KillsCorrect == Spec => []KillsAccounted
<1>1. IndInv => KillsAccounted
  BY DEF IndInv
<1>. QED
  BY <1>1, Inductive, PTL

\* The children of the pool, and those only, are in Drained once the parent
\* has left waitForChildren: nobody can kill any more, and nothing is owed.
LEMMA NothingOwed ==
    ASSUME IndInv, pc \in {"report", "done"}
    PROVE  /\ kills = killCount
           /\ \A i \in Slots : cpc[i] \in {"none", "gone"} /\ c2p[i] = <<>>
<1>1. SlotTypes /\ SlotsInv /\ 1..childCount \subseteq Drained
  BY SlotParts DEF IndInv, ExitedExact
<1>2. \A i \in Slots : cpc[i] \in {"none", "gone"} /\ c2p[i] = <<>>
  <2>1. SUFFICES ASSUME NEW i \in Slots, cpc[i] # "none"
                 PROVE  cpc[i] = "gone" /\ c2p[i] = <<>>
    BY <1>1 DEF SlotsInv, PipeShape, Lifetime
  <2>2. i <= childCount /\ childCount \in Nat
    BY <1>1, <2>1 DEF SlotTypes, SlotsInv, PipeShape, Lifetime
  <2>3. i \in 1..childCount
    BY <2>2, BoundsAssumption DEF Slots
  <2>. QED
    BY <1>1, <2>3 DEF Drained, SaidAll
<1>3. Unreported = {}
  <2>1. \A i \in Slots : cpc[i] # "report" /\ 1..Len(c2p[i]) = {}
    BY <1>2
  <2>. QED
    BY ONLY <2>1 DEF Unreported, OwesKill
<1>4. kills = killCount + Cardinality(Unreported) /\ killCount \in Nat
  BY <1>1 DEF SlotTypes, SlotsInv, KillsAccounted
<1>. QED
  BY <1>2, <1>3, <1>4, FS_EmptySet

\* The count confirmed to the server is the number of kills on the node.
THEOREM ReportCorrect == Spec => []ReportExact
<1>1. IndInv => ReportExact
  BY NothingOwed DEF IndInv, ReportExact
<1>. QED
  BY <1>1, Inductive, PTL

\* The pool never outgrows its allocation, although initChildren gives no room
\* of its own to a name that has one process.
THEOREM PoolCorrect == Spec => []PoolInBounds
<1>1. IndInv => PoolInBounds
  BY PoolRoomBounds DEF IndInv, PoolInBounds
<1>. QED
  BY <1>1, Inductive, PTL

-----------------------------------------------------------------------------
(* The node implements the safety part of Nanny.                           *)

\* A step that leaves the node's phase, kills and report alone is invisible to
\* the server.
LEMMA Invisible ==
    ASSUME UNCHANGED <<kills, report>>,
           pc \in Exiting <=> pc' \in Exiting,
           pc = "done" <=> pc' = "done", pc = "killed" <=> pc' = "killed"
    PROVE  UNCHANGED nanny!vars
BY DEF nanny!vars

LEMMA NannyStep == IndInv /\ [Next]_vars => [nanny!Next]_(nanny!vars)
<1>. SUFFICES ASSUME IndInv, [Next]_vars PROVE [nanny!Next]_(nanny!vars)
  OBVIOUS
<1>1. CASE Environment
  BY <1>1, Invisible
  DEF Environment, Spawn, ProcessExit, Reap, ServerSendsConfig, ServerSendsExit,
      ServerCloses, parentVars, childVars
<1>2. CASE Parent
  <2>1. CASE ReceiveConfig \/ InitScan \/ InitFork \/ Rescan \/ RescanPid \/ ReadChild
    <3>1. /\ pc \notin Exiting \cup {"done", "killed"}
          /\ pc' \notin Exiting \cup {"done", "killed"}
      BY <2>1 DEF ReceiveConfig, InitScan, InitFork, Rescan, RescanPid, ReadChild, Exiting
    <3>2. UNCHANGED <<kills, report>>
      BY <2>1 DEF ReceiveConfig, InitScan, InitFork, Rescan, RescanPid, ReadChild,
                  ForkChild, ReuseChild, childVars
    <3>. QED
      BY <3>1, <3>2, Invisible
  <2>2. CASE ReadServer
    <3>1. pc = "server" /\ pc' \in {"rescan", "exit"} /\ UNCHANGED <<kills, report>>
      BY <2>2 DEF ReadServer, childVars
    <3>2. CASE pc' = "rescan"
      BY <3>1, <3>2, Invisible DEF Exiting
    <3>3. CASE pc' = "exit"
      BY <3>1, <3>3 DEF Exiting, nanny!Next, nanny!AskExit
    <3>. QED
      BY <3>1, <3>2, <3>3
  <2>3. CASE SendExit \/ WaitForChildren
    <3>1. pc \in Exiting /\ pc' \in Exiting /\ UNCHANGED <<kills, report>>
      BY <2>3 DEF SendExit, WaitForChildren, Exiting, childVars
    <3>. QED
      BY <3>1, Invisible DEF Exiting
  <2>4. CASE Report
    <3>1. /\ pc = "report" /\ pc' = "done" /\ report' = killCount /\ kills' = kills
          /\ kills = killCount
      BY <2>4, NothingOwed DEF Report, childVars
    <3>. QED
      BY <3>1 DEF Exiting, nanny!Next, nanny!Report
  <2>5. CASE KilledBySigpipe
    <3>1. /\ pc \notin {"done", "killed"} /\ pc' = "killed"
          /\ UNCHANGED <<kills, report>>
      BY <2>5 DEF KilledBySigpipe, WritesToServer, childVars
    <3>. QED
      BY <3>1 DEF Exiting, nanny!Next, nanny!Crash
  <2>. QED
    BY <1>2, <2>1, <2>2, <2>3, <2>4, <2>5 DEF Parent
<1>3. ASSUME NEW i \in Slots, Child(i) PROVE [nanny!Next]_(nanny!vars)
  <2>1. UNCHANGED parentVars /\ (kills' = kills \/ kills' = kills + 1)
    BY <1>3 DEF Child, ChildRead, ChildCheck, ChildKill, ChildReport
  <2>2. pc' = pc /\ report' = report
    BY <2>1 DEF parentVars
  <2>3. CASE kills' = kills
    BY <2>2, <2>3, Invisible
  <2>4. CASE kills' = kills + 1 /\ kills' # kills
    <3>1. cpc[i] = "kill"
      BY <1>3, <2>4 DEF Child, ChildRead, ChildCheck, ChildKill, ChildReport
    <3>2. pc # "done"
      BY <3>1, NothingOwed
    <3>. QED
      BY <2>2, <2>4, <3>2 DEF Exiting, nanny!Next, nanny!Kill
  <2>. QED
    BY <2>1, <2>3, <2>4
<1>4. CASE Finished \/ UNCHANGED vars
  BY <1>4, Invisible DEF Finished, vars, parentVars, childVars
<1>. QED
  BY <1>1, <1>2, <1>3, <1>4 DEF Next

\* Every behaviour of the node is one of Nanny: it answers an exit request once,
\* with the exact number of kills, and kills nothing after that.
THEOREM ImplementsNannySafety == Spec => nanny!Init /\ [][nanny!Next]_(nanny!vars)
<1>1. Init => nanny!Init
  BY DEF Init, nanny!Init, Exiting
<1>. QED
  BY <1>1, NannyStep, Inductive, PTL DEF Spec

=============================================================================
