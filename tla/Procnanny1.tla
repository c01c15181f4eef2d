------------------------------ MODULE Procnanny1 ------------------------------
(***************************************************************************)
(* procnanny, version 1: a parent forks one child for every process it     *)
(* finds under a configured name, waits for all of them and counts from    *)
(* their exit statuses how many killed.  Before that it ends every earlier *)
(* procnanny of the same user (killPrevious), children included; the later *)
(* versions keep that function.                                            *)
(*                                                                         *)
(* Several procnannys may be started at any time, the next one before the  *)
(* last has finished its own killPrevious, and each on a processor of its  *)
(* own: one that has entered kill() completes it although SIGKILL of       *)
(* another ends it meanwhile, so that two can end each other.  A listing   *)
(* of ps is one step; from the moment kill() has marked a process, that    *)
(* process takes no step of its own; it stays in ps as a zombie until it   *)
(* is reaped.  Not modelled: process ids given out twice, a configuration  *)
(* that names procnanny itself, sleep times, texts.                        *)
(***************************************************************************)
EXTENDS Integers, Sequences, FiniteSets

CONSTANTS
    Nannies,      \* procnannys that may be started
    Names,        \* process names a configuration may list
    Pids,         \* process ids of the user's processes
    Words,        \* the names that occur as words in the ps line of each process
    Files,        \* configurations, as lists of names; a name may occur twice
    MaxChildren,  \* bound: children of one procnanny
    MaxSpawns,    \* bound: processes started later
    MaxForkFails  \* bound: failed forks

ASSUME SetsAssumption == IsFiniteSet(Nannies) /\ IsFiniteSet(Pids)
ASSUME WordsAssumption == Words \in [Pids -> SUBSET Names]
ASSUME FilesAssumption == Files \subseteq Seq(Names)
ASSUME BoundsAssumption == {MaxChildren, MaxSpawns, MaxForkFails} \subseteq Nat

VARIABLES
    st,           \* every process named procnanny, as ps and kill see it
    pc,           \* the function a parent is in
    list,         \* pidList of killPrevious: what is left of it
    aim,          \* the process it is inside kill() for, if any
    said,         \* the outcome killPrevious reports
    file, idx,    \* processNames and the loop counter of initChildren
    scan,         \* process ids of the current name not handled yet
    childCount, arraySize,
    forked,       \* children whose process id is in childpid
    status,       \* what waitpid wrote for each child
    waited,       \* loop counter of parentFinish
    killCount,
    job,          \* pidToKill of a child
    killed,       \* children whose kill() returned 0
    wst,          \* exit status of a child, or Signal
    proc,         \* the user's processes
    spawns, forkFails

killVars  == <<list, aim, said>>
initVars  == <<file, idx, scan, childCount, arraySize, forked, forkFails>>
waitVars  == <<status, waited, killCount>>
childVars == <<job, killed, wst>>
userVars  == <<proc, spawns>>
vars == <<st, pc, killVars, initVars, waitVars, childVars, userVars>>

\* <<n, 0>> is the parent of procnanny n, <<n, k>> its k-th child.
Ranks   == 1..MaxChildren
Kids    == Nannies \X Ranks
Procs   == Nannies \X (0..MaxChildren)

Running == {"up", "sleep", "kill", "exit"}
States  == {"none", "zombie", "gone"} \cup Running
Up(n)   == st[<<n, 0>>] = "up"

Junk   == -2    \* malloc under memwatch, 0xFEFEFEFE: WEXITSTATUS finds no 1 in it
Signal == 9     \* the status of a child that SIGKILL ended: nor in this

-----------------------------------------------------------------------------
(* Slips this code could contain.  No action uses them: put in the place of *)
(* the definition named behind each, they show that a property notices.    *)

OneMoreAllowed(found) == Cardinality(found) < 3                \* NoPrevious
AnyStatus(s) == s # 0                                          \* CountsAsKill

\* Listed, leaving out what any child was ever given.
NeverTwice(name) == {p \in Pids : /\ proc[p] \in {"alive", "zombie"} /\ name \in Words[p]
                                  /\ \A q \in Kids : job[q] # p}

-----------------------------------------------------------------------------

Init ==
    /\ st         = [q \in Procs |-> "none"]
    /\ pc         = [n \in Nannies |-> "unborn"]
    /\ list       = [n \in Nannies |-> {}]
    /\ aim        = [n \in Nannies |-> {}]
    /\ said       = [n \in Nannies |-> "nothing"]
    /\ file       = [n \in Nannies |-> <<>>]
    /\ idx        = [n \in Nannies |-> 1]
    /\ scan       = [n \in Nannies |-> {}]
    /\ childCount = [n \in Nannies |-> 0]
    /\ arraySize  = [n \in Nannies |-> 0]
    /\ forked     = {}
    /\ status     = [q \in Kids |-> Junk]
    /\ waited     = [n \in Nannies |-> 0]
    /\ killCount  = [n \in Nannies |-> 0]
    /\ job        = [q \in Kids |-> 0]
    /\ killed     = {}
    /\ wst        = [q \in Kids |-> Junk]
    /\ proc \in [Pids -> {"unused", "alive"}]
    /\ spawns = 0 /\ forkFails = 0

-----------------------------------------------------------------------------
(* The user's processes, and the wait of whoever started a process.        *)

Listed(name) == {p \in Pids : proc[p] \in {"alive", "zombie"} /\ name \in Words[p]}

Spawn ==
    /\ spawns < MaxSpawns /\ spawns' = spawns + 1
    /\ \E p \in Pids : proc[p] = "unused" /\ proc' = [proc EXCEPT ![p] = "alive"]
    /\ UNCHANGED <<st, pc, killVars, initVars, waitVars, childVars>>

ProcessExit ==
    /\ \E p \in Pids : proc[p] = "alive" /\ proc' = [proc EXCEPT ![p] = "zombie"]
    /\ UNCHANGED <<st, pc, killVars, initVars, waitVars, childVars, spawns>>

ReapProcess ==
    /\ \E p \in Pids : proc[p] = "zombie" /\ proc' = [proc EXCEPT ![p] = "gone"]
    /\ UNCHANGED <<st, pc, killVars, initVars, waitVars, childVars, spawns>>

\* The shell reaps a parent, init the children of a parent that is no more.
Reap ==
    /\ \E q \in Procs : /\ st[q] = "zombie"
                        /\ q[2] > 0 => ~Up(q[1])
                        /\ st' = [st EXCEPT ![q] = "gone"]
    /\ UNCHANGED <<pc, killVars, initVars, waitVars, childVars, userVars>>

-----------------------------------------------------------------------------
(* main and killPrevious.                                                  *)

InPs == {q \in Procs : st[q] \notin {"none", "gone"}}

\* "the only procnanny is the one running"
NoPrevious(found) == Cardinality(found) < 2
Others(n, found) == found \ {<<n, 0>>}

\* main up to killPrevious.
Start(n) ==
    /\ pc[n] = "unborn"
    /\ st' = [st EXCEPT ![<<n, 0>>] = "up"]
    /\ pc' = [pc EXCEPT ![n] = "list"]
    /\ \E f \in Files : /\ file' = [file EXCEPT ![n] = f]
                        /\ arraySize' = [arraySize EXCEPT ![n] = Len(f)]
    /\ UNCHANGED <<killVars, idx, scan, childCount, forked, forkFails, waitVars,
                   childVars, userVars>>

List(n) ==
    /\ Up(n) /\ pc[n] = "list"
    /\ IF NoPrevious(InPs)
         THEN pc' = [pc EXCEPT ![n] = "scan"] /\ UNCHANGED list
         ELSE /\ pc' = [pc EXCEPT ![n] = "kill"]
              /\ list' = [list EXCEPT ![n] = Others(n, InPs)]
    /\ UNCHANGED <<st, aim, said, initVars, waitVars, childVars, userVars>>

\* kill() is called with the next process of the list...
Aim(n) ==
    /\ Up(n) /\ pc[n] = "kill" /\ aim[n] = {}
    /\ \E q \in list[n] : /\ aim'  = [aim EXCEPT ![n] = {q}]
                          /\ list' = [list EXCEPT ![n] = @ \ {q}]
    /\ UNCHANGED <<st, pc, said, initVars, waitVars, childVars, userVars>>

\* ...and has its effect, whatever has become of that process, and of the
\* caller: SIGKILL does not stop a call that has begun.
Hit(n) ==
    /\ \E q \in aim[n] :
          /\ aim' = [aim EXCEPT ![n] = @ \ {q}]
          /\ IF st[q] \in Running
               THEN /\ st' = [st EXCEPT ![q] = "zombie"]
                    /\ wst' = IF q \in Kids THEN [wst EXCEPT ![q] = Signal] ELSE wst
               ELSE UNCHANGED <<st, wst>>
    /\ UNCHANGED <<pc, list, said, initVars, waitVars, job, killed, userVars>>

Limit == 2

\* "check if there are still other procnanny's left"
ListAgain(n) ==
    /\ Up(n) /\ pc[n] = "kill" /\ list[n] = {} /\ aim[n] = {}
    /\ said' = [said EXCEPT ![n] =
                  IF Cardinality(InPs) > Limit THEN "unable" ELSE "cleaned"]
    /\ pc' = [pc EXCEPT ![n] = "scan"]
    /\ UNCHANGED <<st, list, aim, initVars, waitVars, childVars, userVars>>

-----------------------------------------------------------------------------
(* initChildren.                                                           *)

\* The list of the current name holds sc: go on with it or with the next name.
Continue(n, sc) ==
    /\ scan' = [scan EXCEPT ![n] = sc]
    /\ pc'   = [pc EXCEPT ![n] = IF sc = {} THEN "scan" ELSE "fork"]
    /\ idx'  = [idx EXCEPT ![n] = IF sc = {} THEN @ + 1 ELSE @]

EndOfNames(n) == idx[n] > Len(file[n])

\* getPidList of the next name; several processes make room in childpid.
Scan(n) ==
    /\ Up(n) /\ pc[n] = "scan"
    /\ IF EndOfNames(n)
         THEN pc' = [pc EXCEPT ![n] = "wait"] /\ UNCHANGED <<scan, idx, arraySize>>
         ELSE LET found == Listed(file[n][idx[n]]) IN
              /\ Continue(n, found)
              /\ arraySize' = [arraySize EXCEPT ![n] =
                    IF Cardinality(found) > 1 THEN @ + Cardinality(found) ELSE @]
    /\ UNCHANGED <<st, killVars, file, childCount, forked, forkFails, waitVars,
                   childVars, userVars>>

\* A failed fork has no branch: the child stays counted, childpid unwritten.
Fork(n) ==
    /\ Up(n) /\ pc[n] = "fork" /\ childCount[n] < MaxChildren
    /\ \E p \in scan[n] :
          LET q == <<n, childCount[n] + 1>> IN
          /\ Continue(n, scan[n] \ {p})
          /\ \/ /\ forked' = forked \cup {q}
                /\ st'  = [st EXCEPT ![q] = "sleep"]
                /\ job' = [job EXCEPT ![q] = p]
                /\ UNCHANGED forkFails
             \/ /\ forkFails < MaxForkFails /\ forkFails' = forkFails + 1
                /\ UNCHANGED <<forked, st, job>>
    /\ childCount' = [childCount EXCEPT ![n] = @ + 1]
    /\ UNCHANGED <<killVars, file, arraySize, waitVars, killed, wst, userVars>>

-----------------------------------------------------------------------------
(* parentFinish.                                                           *)

\* waitpid of the next child; for junk instead of a process id it returns at
\* once and writes nothing.
WaitOne(n) ==
    /\ Up(n) /\ pc[n] = "wait" /\ waited[n] < childCount[n]
    /\ LET q == <<n, waited[n] + 1>> IN
          IF q \in forked
            THEN /\ st[q] = "zombie"
                 /\ st' = [st EXCEPT ![q] = "gone"]
                 /\ status' = [status EXCEPT ![q] = wst[q]]
            ELSE UNCHANGED <<st, status>>
    /\ waited' = [waited EXCEPT ![n] = @ + 1]
    /\ UNCHANGED <<pc, killVars, initVars, killCount, childVars, userVars>>

CountsAsKill(s) == s = 1

Finish(n) ==
    /\ Up(n) /\ pc[n] = "wait" /\ waited[n] = childCount[n]
    /\ killCount' = [killCount EXCEPT ![n] =
          Cardinality({k \in 1..childCount[n] : CountsAsKill(status[<<n, k>>])})]
    /\ pc' = [pc EXCEPT ![n] = "done"]
    /\ st' = [st EXCEPT ![<<n, 0>>] = "zombie"]
    /\ UNCHANGED <<killVars, initVars, status, waited, childVars, userVars>>

-----------------------------------------------------------------------------
(* childExec.                                                              *)

parentVars == <<pc, killVars, initVars, waitVars>>

\* After the sleep: is the process still in ps?
Check(q) ==
    /\ st[q] = "sleep"
    /\ st' = [st EXCEPT ![q] = IF proc[job[q]] = "gone" THEN "exit" ELSE "kill"]
    /\ UNCHANGED <<parentVars, childVars, userVars>>

\* kill() succeeds for a zombie, too.
Kill(q) ==
    /\ st[q] = "kill"
    /\ st' = [st EXCEPT ![q] = "exit"]
    /\ killed' = IF proc[job[q]] = "gone" THEN killed ELSE killed \cup {q}
    /\ proc' = [proc EXCEPT ![job[q]] = IF @ = "alive" THEN "zombie" ELSE @]
    /\ UNCHANGED <<parentVars, job, wst, spawns>>

Exit(q) ==
    /\ st[q] = "exit"
    /\ st'  = [st EXCEPT ![q] = "zombie"]
    /\ wst' = [wst EXCEPT ![q] = IF q \in killed THEN 1 ELSE 0]
    /\ UNCHANGED <<parentVars, job, killed, userVars>>

-----------------------------------------------------------------------------

Nanny(n) == List(n) \/ Aim(n) \/ Hit(n) \/ ListAgain(n) \/ Scan(n) \/ Fork(n)
            \/ WaitOne(n) \/ Finish(n)
Child(q) == Check(q) \/ Kill(q) \/ Exit(q)

Next == \/ \E n \in Nannies : Start(n) \/ Nanny(n)
        \/ \E q \in Kids : Child(q)
        \/ Spawn \/ ProcessExit \/ ReapProcess \/ Reap

Spec == Init /\ [][Next]_vars

\* What was started is scheduled; nobody has to start or reap anything.
FairSpec ==
    /\ Spec
    /\ \A n \in Nannies : WF_vars(Nanny(n))
    /\ \A q \in Kids : WF_vars(Child(q))

-----------------------------------------------------------------------------
(* Properties.                                                             *)

\* However many are started at once, no two procnannys get past killPrevious:
\* of two that have listed ps at least one has the other on its list.
Past == {"scan", "fork", "wait"}
OneNanny == \A m, n \in Nannies : 
    m # n => ~(Up(m) /\ Up(n) /\ pc[m] \in Past /\ pc[n] \in Past)

\* The count in the final message is the number of its children whose kill
\* succeeded and that lived to say so, all of them have ended, and it is the
\* number of all that killed as long as no other procnanny ends processes.
TallyExact ==
    \A n \in Nannies : pc[n] = "done" =>
        LET did == {k \in 1..childCount[n] : <<n, k>> \in killed} IN
        /\ killCount[n] = Cardinality({k \in did : wst[<<n, k>>] # Signal})
        /\ \A k \in 1..childCount[n] : st[<<n, k>>] \in {"none", "gone"}
        /\ (\A m \in Nannies \ {n} : pc[m] \in {"unborn", "list"}) =>
              killCount[n] = Cardinality(did)

Named(p) == \A f \in Files : \E k \in 1..Len(f) : f[k] \in Words[p]

\* Every procnanny that was started has been ended, none of them reached its end.
NobodyLeft == \A n \in Nannies : pc[n] # "unborn" => ~Up(n) /\ pc[n] # "done"

\* A process that runs when a procnanny starts does not stay if every
\* configuration names it: should that procnanny be ended, with the child it
\* forked, the one that ended it finds the process again, unless the two have
\* ended each other.
Takeover ==
    \A p \in Pids :
        (proc[p] = "alive" /\ Named(p) /\ \E n \in Nannies : Up(n) /\ pc[n] = "list")
            ~> (proc[p] # "alive" \/ forkFails > 0 \/ NobodyLeft)

-----------------------------------------------------------------------------
(* What the repository's own words claim and the code does not do.         *)

\* mainFunctions.c:67 "kills all previous instances of procnanny", line 97 "if
\* more than 1 'procnanny' running, kill was unsuccessful", line 102 "else print
\* successful clean message": where it reports success nothing else ran.
CleanedUp ==
    [][\A n \in Nannies :
          said'[n] = "cleaned" /\ said[n] # "cleaned"
             => \A q \in Procs \ {<<n, 0>>} : st[q] \notin Running]_vars

=============================================================================
