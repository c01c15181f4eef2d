--------------------------- MODULE Procnanny1Proofs ---------------------------
(***************************************************************************)
(* Theorems about version 1, for any number of procnannys started at any   *)
(* time, any processes and configurations.  Typed gives the types, Rivals  *)
(* says who has whom on the list of killPrevious, Family where every child *)
(* is and what its parent knows of it, Room that childpid is large enough. *)
(***************************************************************************)
EXTENDS Procnanny1, FiniteSetTheorems, SequenceTheorems, TLAPS

PCs      == {"unborn", "list", "kill", "scan", "fork", "wait", "done"}
Statuses == {Junk, 0, 1, Signal}

Typed ==
    /\ st \in [Procs -> States] /\ pc \in [Nannies -> PCs]
    /\ list \in [Nannies -> SUBSET Procs] /\ aim \in [Nannies -> SUBSET Procs]
    /\ said \in [Nannies -> {"nothing", "unable", "cleaned"}]
    /\ file \in [Nannies -> Seq(Names)] /\ idx \in [Nannies -> Nat \ {0}]
    /\ scan \in [Nannies -> SUBSET Pids]
    /\ childCount \in [Nannies -> 0..MaxChildren] /\ arraySize \in [Nannies -> Nat]
    /\ forked \subseteq Kids /\ killed \subseteq Kids
    /\ status \in [Kids -> Statuses] /\ wst \in [Kids -> Statuses]
    /\ waited \in [Nannies -> Nat] /\ killCount \in [Nannies -> Nat]
    /\ forkFails \in Nat

\* Of two that have listed ps and are up, one has the other on its list or is
\* inside kill() for it, and nobody does that to itself.
Targets(n) == list[n] \cup aim[n]
Listing == {"kill", "scan", "fork", "wait"}
Rivals ==
    /\ \A n \in Nannies : pc[n] # "kill" => Targets(n) = {}
    /\ \A n \in Nannies : <<n, 0>> \notin Targets(n)
    /\ \A m, n \in Nannies :
          m # n /\ Up(m) /\ Up(n) /\ pc[m] \in Listing /\ pc[n] \in Listing
             => <<m, 0>> \in Targets(n) \/ <<n, 0>> \in Targets(m)

\* The life of child q, and how it ended.
Life(q) ==
    /\ st[q] = "none" <=> q \notin forked
    /\ st[q] \in {"none", "sleep", "kill"} => q \notin killed
    /\ st[q] \in {"none"} \cup Running => wst[q] = Junk
    /\ st[q] \in {"zombie", "gone"} => wst[q] \in {0, 1, Signal}
    /\ wst[q] = 1 => q \in killed
    /\ wst[q] = 0 => q \notin killed

\* What parent n has done with its k-th child.
Awaited(n, k) ==
    IF k <= waited[n] /\ <<n, k>> \in forked
      THEN st[<<n, k>>] = "gone" /\ status[<<n, k>>] = wst[<<n, k>>]
      ELSE status[<<n, k>>] = Junk

Counted(n) == {k \in 1..childCount[n] : CountsAsKill(status[<<n, k>>])}

Parental(n) ==
    /\ \A k \in Ranks : Awaited(n, k) /\ (<<n, k>> \in forked => k <= childCount[n])
    /\ waited[n] <= childCount[n]
    /\ pc[n] \in {"unborn", "list", "kill"} => childCount[n] = 0
    /\ pc[n] \notin {"wait", "done"} => waited[n] = 0
    /\ pc[n] = "done" => waited[n] = childCount[n] /\ killCount[n] = Cardinality(Counted(n))

Family == (\A q \in Kids : Life(q)) /\ (\A n \in Nannies : Parental(n))

\* Nobody kills its own children: a signalled child was a target of somebody else.
Blame ==
    /\ \A n \in Nannies : \A q \in Targets(n) : q[1] # n
    /\ \A q \in Kids : wst[q] = Signal =>
          \E m \in Nannies \ {q[1]} : pc[m] \notin {"unborn", "list"}

\* Room for the processes found under the current name and for one of each of
\* the names to come.
Room ==
    \A n \in Nannies :
        /\ pc[n] \in {"unborn", "list", "kill"} =>
              idx[n] = 1 /\ scan[n] = {} /\ arraySize[n] = Len(file[n])
        /\ pc[n] = "scan" =>
              /\ idx[n] <= Len(file[n]) + 1
              /\ childCount[n] + Len(file[n]) + 1 - idx[n] <= arraySize[n]
        /\ pc[n] = "fork" =>
              /\ idx[n] <= Len(file[n])
              /\ childCount[n] + Cardinality(scan[n]) + Len(file[n]) - idx[n] <= arraySize[n]
        /\ childCount[n] <= arraySize[n]
-----------------------------------------------------------------------------
LEMMA ProcFacts ==
    /\ Kids \subseteq Procs
    /\ \A n \in Nannies : <<n, 0>> \in Procs \ Kids
    /\ \A n \in Nannies : \A k \in Ranks : <<n, k>> \in Kids
    /\ \A q \in Kids : q[1] \in Nannies /\ q[2] \in Ranks /\ q = <<q[1], q[2]>>
    /\ \A q \in Procs : q[1] \in Nannies /\ (q[2] = 0 => q = <<q[1], 0>>)
    /\ \A q \in Procs \ Kids : q = <<q[1], 0>>
  BY BoundsAssumption DEF Kids, Procs, Ranks

LEMMA PsFinite == IsFiniteSet(Procs) /\ \A S \in SUBSET Procs : IsFiniteSet(S)
  <1>1. IsFiniteSet(0..MaxChildren)
    BY FS_Interval, BoundsAssumption
  <1>2. IsFiniteSet(Procs)
    BY <1>1, SetsAssumption, FS_Product DEF Procs
  <1>3. QED
    BY <1>2, FS_Subset

\* Two processes in ps are two in every count of them.
LEMMA TwoInPs ==
    ASSUME NEW p \in Procs, NEW q \in Procs, p # q, p \in InPs, q \in InPs
    PROVE  Cardinality(InPs) \in Nat /\ Cardinality(InPs) >= 2
  <1>1. {p, q} \subseteq InPs /\ IsFiniteSet(InPs)
    BY PsFinite DEF InPs
  <1>2. Cardinality({p, q}) = 2
    <2>1. Cardinality({p}) = 1 /\ IsFiniteSet({p})
      BY FS_Singleton
    <2>2. Cardinality({p} \cup {q}) = Cardinality({p}) + 1
      BY <2>1, FS_AddElement
    <2>3. {p, q} = {p} \cup {q}
      OBVIOUS
    <2>4. QED
      BY <2>1, <2>2, <2>3
  <1>3. QED
    BY <1>1, <1>2, FS_Subset, FS_CardinalityType

LEMMA PidsFinite == \A S \in SUBSET Pids : IsFiniteSet(S) /\ Cardinality(S) \in Nat
  BY SetsAssumption, FS_Subset, FS_CardinalityType
-----------------------------------------------------------------------------
(* Types.                                                                  *)

LEMMA InitTyped == Init => Typed
  <1> SUFFICES ASSUME Init PROVE Typed
    OBVIOUS
  <1>1. \A n \in Nannies : <<>> \in Seq(Names) /\ 0 \in 0..MaxChildren
    BY BoundsAssumption
  <1>2. QED
    BY <1>1 DEF Init, Typed, States, Running, PCs, Statuses

LEMMA TypedStart == ASSUME Typed, NEW n \in Nannies, Start(n) PROVE Typed'
  <1>1. PICK f \in Files : /\ file' = [file EXCEPT ![n] = f]
                           /\ arraySize' = [arraySize EXCEPT ![n] = Len(f)]
    BY DEF Start
  <1>2. f \in Seq(Names) /\ Len(f) \in Nat
    BY FilesAssumption, LenProperties
  <1>3. file' \in [Nannies -> Seq(Names)] /\ arraySize' \in [Nannies -> Nat]
    BY <1>1, <1>2 DEF Typed
  <1>4. st' \in [Procs -> States] /\ pc' \in [Nannies -> PCs]
    BY DEF Start, Typed, States, Running, PCs
  <1>5. QED
    BY <1>3, <1>4 DEF Start, Typed, killVars, waitVars, childVars

LEMMA TypedKill ==
    ASSUME Typed, NEW n \in Nannies, List(n) \/ Aim(n) \/ Hit(n) \/ ListAgain(n)
    PROVE  Typed'
  <1>1. CASE List(n)
    <2>1. InPs \subseteq Procs
      BY DEF InPs
    <2>2. pc' \in [Nannies -> PCs]
      BY <1>1 DEF List, Typed, PCs
    <2>3. Others(n, InPs) \in SUBSET Procs
      BY <2>1 DEF Others
    <2>4. list' \in [Nannies -> SUBSET Procs]
      BY <1>1, <2>3 DEF List, Typed
    <2>5. QED
      BY <1>1, <2>2, <2>4 DEF List, Typed, initVars, waitVars, childVars
  <1>2. CASE Aim(n)
    <2>1. PICK q \in list[n] : /\ aim'  = [aim EXCEPT ![n] = {q}]
                               /\ list' = [list EXCEPT ![n] = @ \ {q}]
      BY <1>2 DEF Aim
    <2>2. {q} \in SUBSET Procs /\ list[n] \ {q} \in SUBSET Procs
      BY DEF Typed
    <2>3. aim' \in [Nannies -> SUBSET Procs] /\ list' \in [Nannies -> SUBSET Procs]
      BY <2>1, <2>2 DEF Typed
    <2>4. QED
      BY <1>2, <2>3 DEF Aim, Typed, initVars, waitVars, childVars
  <1>3. CASE Hit(n)
    <2>1. PICK q \in aim[n] :
            /\ aim' = [aim EXCEPT ![n] = @ \ {q}]
            /\ IF st[q] \in Running
                 THEN /\ st' = [st EXCEPT ![q] = "zombie"]
                      /\ wst' = IF q \in Kids THEN [wst EXCEPT ![q] = Signal] ELSE wst
                 ELSE UNCHANGED <<st, wst>>
      BY <1>3 DEF Hit
    <2>2. aim' \in [Nannies -> SUBSET Procs]
      BY <2>1 DEF Typed
    <2>3. st' \in [Procs -> States]
      BY <2>1 DEF Typed, States
    <2>4. wst' \in [Kids -> Statuses]
      BY <2>1 DEF Typed, Statuses
    <2>5. QED
      BY <1>3, <2>2, <2>3, <2>4 DEF Hit, Typed, initVars, waitVars
  <1>4. CASE ListAgain(n)
    BY <1>4 DEF ListAgain, Typed, PCs, initVars, waitVars, childVars
  <1>5. QED
    BY <1>1, <1>2, <1>3, <1>4

LEMMA TypedContinue ==
    ASSUME Typed, NEW n \in Nannies, NEW sc \in SUBSET Pids, Continue(n, sc)
    PROVE  /\ scan' \in [Nannies -> SUBSET Pids] /\ pc' \in [Nannies -> PCs]
           /\ idx' \in [Nannies -> Nat \ {0}]
  BY DEF Continue, Typed, PCs

LEMMA TypedInit ==
    ASSUME Typed, NEW n \in Nannies, Scan(n) \/ Fork(n) PROVE Typed'
  <1>1. CASE Scan(n)
    <2>1. CASE EndOfNames(n)
      BY <1>1, <2>1 DEF Scan, Typed, PCs, killVars, waitVars, childVars
    <2>2. CASE ~EndOfNames(n)
      <3> DEFINE found == Listed(file[n][idx[n]])
      <3>1. found \in SUBSET Pids /\ Cardinality(found) \in Nat
        BY PidsFinite DEF Listed
      <3>2. Continue(n, found)
            /\ arraySize' = [arraySize EXCEPT ![n] =
                    IF Cardinality(found) > 1 THEN @ + Cardinality(found) ELSE @]
        BY <1>1, <2>2 DEF Scan
      <3>3. arraySize' \in [Nannies -> Nat]
        BY <3>1, <3>2 DEF Typed
      <3>4. /\ scan' \in [Nannies -> SUBSET Pids] /\ pc' \in [Nannies -> PCs]
            /\ idx' \in [Nannies -> Nat \ {0}]
        BY <3>1, <3>2, TypedContinue
      <3>5. QED
        BY <1>1, <3>3, <3>4 DEF Scan, Typed, killVars, waitVars, childVars
    <2>3. QED
      BY <2>1, <2>2
  <1>2. CASE Fork(n)
    <2> DEFINE q == <<n, childCount[n] + 1>>
    <2>1. q \in Kids /\ q \in Procs /\ childCount' \in [Nannies -> 0..MaxChildren]
      BY <1>2, ProcFacts, BoundsAssumption DEF Fork, Typed, Ranks
    <2>2. PICK p \in scan[n] :
            /\ Continue(n, scan[n] \ {p})
            /\ \/ forked' = forked \cup {q} /\ st' = [st EXCEPT ![q] = "sleep"]
                  /\ UNCHANGED forkFails
               \/ forkFails' = forkFails + 1 /\ UNCHANGED <<forked, st>>
      BY <1>2 DEF Fork
    <2>3. forked' \subseteq Kids /\ st' \in [Procs -> States] /\ forkFails' \in Nat
      <3>1. "sleep" \in States
        BY DEF States, Running
      <3>2. forked' \subseteq Kids
        BY <2>1, <2>2 DEF Typed
      <3>3. st' \in [Procs -> States]
        BY <2>1, <2>2, <3>1 DEF Typed
      <3>4. forkFails' \in Nat
        BY <2>2 DEF Typed
      <3>5. QED
        BY <3>2, <3>3, <3>4
    <2>4. scan[n] \ {p} \in SUBSET Pids
      BY DEF Typed
    <2>5. /\ scan' \in [Nannies -> SUBSET Pids] /\ pc' \in [Nannies -> PCs]
          /\ idx' \in [Nannies -> Nat \ {0}]
      BY <2>2, <2>4, TypedContinue
    <2>6. QED
      BY <1>2, <2>1, <2>3, <2>5 DEF Fork, Typed, killVars, waitVars
  <1>3. QED
    BY <1>1, <1>2

LEMMA TypedWait ==
    ASSUME Typed, NEW n \in Nannies, WaitOne(n) \/ Finish(n) PROVE Typed'
  <1>1. CASE WaitOne(n)
    <2> DEFINE q == <<n, waited[n] + 1>>
    <2>1. q \in Kids /\ q \in Procs
      <3>1. /\ childCount[n] \in 0..MaxChildren /\ waited[n] \in Nat
            /\ waited[n] < childCount[n] /\ MaxChildren \in Nat
        BY <1>1, BoundsAssumption DEF WaitOne, Typed
      <3>2. waited[n] + 1 \in Ranks
        BY <3>1 DEF Ranks
      <3>3. QED
        BY <3>2, ProcFacts
    <2>2. st' \in [Procs -> States] /\ status' \in [Kids -> Statuses]
      BY <1>1, <2>1 DEF WaitOne, Typed, States
    <2>3. QED
      BY <1>1, <2>2 DEF WaitOne, Typed, killVars, initVars, childVars
  <1>2. CASE Finish(n)
    <2>1. IsFiniteSet({k \in 1..childCount[n] : CountsAsKill(status[<<n, k>>])})
      <3>1. childCount[n] \in Int /\ IsFiniteSet(1..childCount[n])
        BY FS_Interval, BoundsAssumption DEF Typed
      <3>2. QED
        BY <3>1, FS_Subset
    <2>2. killCount' \in [Nannies -> Nat]
      BY <1>2, <2>1, FS_CardinalityType DEF Finish, Typed
    <2>3. QED
      BY <1>2, <2>2 DEF Finish, Typed, States, PCs, killVars, initVars, childVars
  <1>3. QED
    BY <1>1, <1>2

LEMMA TypedChild == ASSUME Typed, NEW q \in Kids, Child(q) PROVE Typed'
  <1>1. q \in Procs
    BY ProcFacts
  <1>2. st' \in [Procs -> States] /\ killed' \subseteq Kids /\ wst' \in [Kids -> Statuses]
    BY <1>1 DEF Child, Check, Kill, Exit, Typed, States, Running, Statuses, childVars
  <1>3. QED
    BY <1>2 DEF Child, Check, Kill, Exit, Typed, parentVars, killVars, initVars,
                waitVars, childVars

LEMMA TypedOthers ==
    ASSUME Typed, Spawn \/ ProcessExit \/ ReapProcess \/ Reap \/ UNCHANGED vars
    PROVE  Typed'
  <1>1. st' \in [Procs -> States]
    BY DEF Spawn, ProcessExit, ReapProcess, Reap, Typed, States, vars
  <1>2. QED
    BY <1>1 DEF Spawn, ProcessExit, ReapProcess, Reap, Typed, vars, killVars, initVars,
                waitVars, childVars

LEMMA NextTyped == Typed /\ [Next]_vars => Typed'
  BY TypedStart, TypedKill, TypedInit, TypedWait, TypedChild, TypedOthers
     DEF Next, Nanny
-----------------------------------------------------------------------------
(* Who has whom on the list of killPrevious.                               *)

\* Steps that neither list nor kill, nor bring a parent among those who did.
LEMMA RivalsFrame ==
    ASSUME Rivals, UNCHANGED <<list, aim>>,
           \A n \in Nannies : Up(n)' /\ pc'[n] \in Listing => Up(n) /\ pc[n] \in Listing,
           \A n \in Nannies : pc'[n] # "kill" => Targets(n) = {}
    PROVE  Rivals'
  BY DEF Rivals, Targets

LEMMA RivalsStart == ASSUME Typed, Rivals, NEW n \in Nannies, Start(n) PROVE Rivals'
  <1>1. pc'[n] = "list" /\ pc[n] = "unborn" /\ UNCHANGED <<list, aim>>
    BY DEF Start, Typed, killVars
  <1>2. \A m \in Nannies \ {n} : pc'[m] = pc[m] /\ (Up(m)' <=> Up(m))
    BY ProcFacts DEF Start, Typed, Up
  <1>3. \A m \in Nannies : Up(m)' /\ pc'[m] \in Listing => Up(m) /\ pc[m] \in Listing
    BY <1>1, <1>2 DEF Listing
  <1>4. \A m \in Nannies : pc'[m] # "kill" => Targets(m) = {}
    BY <1>1, <1>2 DEF Rivals
  <1>5. QED
    BY <1>1, <1>3, <1>4, RivalsFrame

LEMMA RivalsList == ASSUME Typed, Rivals, NEW n \in Nannies, List(n) PROVE Rivals'
  <1>1. /\ UNCHANGED <<st, aim>> /\ \A m \in Nannies \ {n} : pc'[m] = pc[m] /\ list'[m] = list[m]
        /\ list' \in [Nannies -> SUBSET Procs]
    <2>1. Typed'
      BY TypedKill
    <2>2. QED
      BY <2>1 DEF List, Typed
  <1>2. <<n, 0>> \in InPs
    BY ProcFacts DEF List, Up, InPs
  <1>3. ASSUME NEW m \in Nannies \ {n}, Up(m)
        PROVE  <<m, 0>> \in Targets(n)'
    <2>1. <<m, 0>> \in Procs /\ <<n, 0>> \in Procs /\ <<m, 0>> # <<n, 0>>
      BY ProcFacts
    <2>2. <<m, 0>> \in InPs
      BY <1>3, <2>1 DEF Up, InPs
    <2>3. ~NoPrevious(InPs)
      BY <1>2, <2>1, <2>2, TwoInPs DEF NoPrevious
    <2>4. QED
      BY <2>1, <2>2, <2>3 DEF List, Others, Typed, Targets
  <1>4. \A k \in Nannies : pc'[k] # "kill" => Targets(k)' = {}
    BY <1>1 DEF List, Typed, Rivals, Targets
  <1>5. \A k \in Nannies : <<k, 0>> \notin Targets(k)'
    <2>1. list'[n] = list[n] \/ list'[n] = Others(n, InPs)
      BY DEF List, Typed
    <2>2. <<n, 0>> \notin Targets(n)'
      BY <1>1, <2>1 DEF Others, Rivals, Targets
    <2>3. QED
      BY <1>1, <2>2 DEF Rivals, Targets
  <1>6. ASSUME NEW k \in Nannies, NEW m \in Nannies, k # m, Up(k)', Up(m)',
               pc'[k] \in Listing, pc'[m] \in Listing
        PROVE  <<k, 0>> \in Targets(m)' \/ <<m, 0>> \in Targets(k)'
    <2>1. Up(k) /\ Up(m)
      BY <1>1, <1>6 DEF Up
    <2>2. CASE k = n
      BY <1>3, <1>6, <2>1, <2>2
    <2>3. CASE m = n
      BY <1>3, <1>6, <2>1, <2>3
    <2>4. CASE k # n /\ m # n
      BY <1>1, <1>6, <2>1, <2>4 DEF Rivals, Targets
    <2>5. QED
      BY <2>2, <2>3, <2>4
  <1>7. QED
    BY <1>4, <1>5, <1>6 DEF Rivals

\* A target of the list becomes the one kill() is called with.
LEMMA RivalsAim == ASSUME Typed, Rivals, NEW n \in Nannies, Aim(n) PROVE Rivals'
  <1>1. PICK q \in list[n] : /\ aim'  = [aim EXCEPT ![n] = {q}]
                             /\ list' = [list EXCEPT ![n] = @ \ {q}]
    BY DEF Aim
  <1>2. UNCHANGED <<st, pc>> /\ pc[n] = "kill" /\ aim[n] = {}
    BY DEF Aim
  <1>3. \A m \in Nannies : Targets(m)' = Targets(m)
    BY <1>1, <1>2 DEF Typed, Targets
  <1>4. QED
    BY <1>2, <1>3 DEF Rivals, Up

\* The target is up no longer, whether its killer is or not.
LEMMA RivalsHit == ASSUME Typed, Rivals, NEW n \in Nannies, Hit(n) PROVE Rivals'
  <1>1. PICK q \in aim[n] :
          /\ aim' = [aim EXCEPT ![n] = @ \ {q}]
          /\ IF st[q] \in Running THEN st' = [st EXCEPT ![q] = "zombie"] ELSE UNCHANGED st
    BY DEF Hit
  <1>2. q \in Procs /\ UNCHANGED <<pc, list>>
    BY DEF Hit, Typed
  <1>3. \A m \in Nannies : Up(m)' => Up(m) /\ <<m, 0>> # q
    BY <1>1, <1>2, ProcFacts DEF Typed, Up, Running
  <1>4. \A m \in Nannies : /\ Targets(m)' \subseteq Targets(m)
                            /\ Targets(m) \subseteq Targets(m)' \cup {q}
    <2>1. \A m \in Nannies \ {n} : aim'[m] = aim[m]
      BY <1>1 DEF Typed
    <2>2. aim'[n] = aim[n] \ {q}
      BY <1>1 DEF Typed
    <2>3. QED
      BY <1>2, <2>1, <2>2 DEF Targets
  <1>5. QED
    BY <1>2, <1>3, <1>4 DEF Rivals

LEMMA RivalsOthers ==
    ASSUME Typed, Rivals,
           \/ \E n \in Nannies : ListAgain(n) \/ Scan(n) \/ Fork(n) \/ WaitOne(n) \/ Finish(n)
           \/ \E q \in Kids : Child(q)
           \/ Spawn \/ ProcessExit \/ ReapProcess \/ Reap \/ UNCHANGED vars
    PROVE  Rivals'
  <1>1. CASE \E n \in Nannies : ListAgain(n) \/ Scan(n) \/ Fork(n) \/ WaitOne(n) \/ Finish(n)
    <2>1. PICK n \in Nannies : ListAgain(n) \/ Scan(n) \/ Fork(n) \/ WaitOne(n) \/ Finish(n)
      BY <1>1
    <2>2. UNCHANGED <<list, aim>> /\ Up(n) /\ pc[n] \in Listing /\ Targets(n) = {}
      BY <2>1 DEF ListAgain, Scan, Fork, WaitOne, Finish, killVars, Listing, Rivals, Targets
    <2>3. \A m \in Nannies \ {n} : pc'[m] = pc[m]
      BY <2>1 DEF ListAgain, Scan, Fork, WaitOne, Finish, Continue, Typed
    <2>4. pc'[n] # "kill"
      BY <2>1 DEF ListAgain, Scan, Fork, WaitOne, Finish, Continue, Typed
    <2>5. \A m \in Nannies : Up(m)' => Up(m)
      BY <2>1, ProcFacts DEF ListAgain, Scan, Fork, WaitOne, Finish, Typed, Up
    <2>6. QED
      <3>1. \A m \in Nannies : Up(m)' /\ pc'[m] \in Listing => Up(m) /\ pc[m] \in Listing
        BY <2>2, <2>3, <2>5
      <3>2. \A m \in Nannies : pc'[m] # "kill" => Targets(m) = {}
        BY <2>2, <2>3, <2>4 DEF Rivals
      <3>3. QED
        BY <2>2, <3>1, <3>2, RivalsFrame
  <1>2. CASE \E q \in Kids : Child(q)
    <2>1. PICK q \in Kids : Child(q)
      BY <1>2
    <2>2. UNCHANGED <<list, aim, pc>>
      BY <2>1 DEF Child, Check, Kill, Exit, parentVars, killVars
    <2>3. \A m \in Nannies : Up(m)' => Up(m)
      BY <2>1, ProcFacts DEF Child, Check, Kill, Exit, Typed, Up
    <2>4. QED
      BY <2>2, <2>3, RivalsFrame DEF Rivals
  <1>3. CASE Spawn \/ ProcessExit \/ ReapProcess \/ Reap \/ UNCHANGED vars
    <2>1. UNCHANGED <<list, aim, pc>>
      BY <1>3 DEF Spawn, ProcessExit, ReapProcess, Reap, vars, killVars
    <2>2. \A m \in Nannies : Up(m)' => Up(m)
      BY <1>3, ProcFacts DEF Spawn, ProcessExit, ReapProcess, Reap, vars, Typed, Up
    <2>3. QED
      BY <2>1, <2>2, RivalsFrame DEF Rivals
  <1>4. QED
    BY <1>1, <1>2, <1>3

LEMMA NextRivals == Typed /\ Rivals /\ [Next]_vars => Rivals'
  BY RivalsStart, RivalsList, RivalsAim, RivalsHit, RivalsOthers DEF Next, Nanny

LEMMA InitRivals == Init => Rivals
  BY DEF Init, Rivals, Listing, Targets

LEMMA RivalsHold == Spec => [](Typed /\ Rivals)
  <1>1. Init => Typed /\ Rivals
    BY InitTyped, InitRivals
  <1>2. Typed /\ Rivals /\ [Next]_vars => (Typed /\ Rivals)'
    BY NextTyped, NextRivals
  <1>3. QED
    BY <1>1, <1>2, PTL DEF Spec

\* No two procnannys of a user get past killPrevious together, however many are
\* started and at whatever moment.
THEOREM MutualExclusion == Spec => []OneNanny
  <1>1. Rivals => OneNanny
    BY DEF Rivals, OneNanny, Past, Listing, Targets
  <1>2. QED
    BY <1>1, RivalsHold, PTL

-----------------------------------------------------------------------------
(* Parents and children.                                                   *)

LEMMA LifeFrame ==
    ASSUME NEW q \in Kids, Life(q), st'[q] = st[q], wst'[q] = wst[q],
           q \in forked' <=> q \in forked, q \in killed' <=> q \in killed
    PROVE  Life(q)'
  BY DEF Life

\* What keeps parent n in order: its children as they were or further, its loop
\* counters, and a step of its own that does not end it.
LEMMA ParentalFrame ==
    ASSUME Typed, NEW n \in Nannies, Parental(n),
           UNCHANGED <<status, waited, childCount, killCount>>,
           \A k \in Ranks :
              LET q == <<n, k>> IN
              /\ q \in forked' <=> q \in forked
              /\ st[q] = "gone" => st'[q] = "gone" /\ wst'[q] = wst[q],
           \/ pc'[n] = pc[n]
           \/ /\ pc[n] \notin {"wait", "done"} /\ pc'[n] # "done"
              /\ pc[n] \notin {"unborn", "list", "kill"} =>
                    pc'[n] \notin {"unborn", "list", "kill"}
    PROVE  Parental(n)'
  <1>1. \A k \in Ranks : Awaited(n, k)'
    BY DEF Parental, Awaited
  <1>2. Counted(n)' = Counted(n)
    BY DEF Counted
  <1>3. QED
    BY <1>1, <1>2 DEF Parental

LEMMA InitFamily == Init => Family
  <1> SUFFICES ASSUME Init PROVE Family
    OBVIOUS
  <1>1. \A q \in Kids : Life(q)
    BY ProcFacts DEF Init, Life, Running, Junk
  <1>2. \A n \in Nannies : Parental(n)
    BY ProcFacts DEF Init, Parental, Awaited
  <1>3. QED
    BY <1>1, <1>2 DEF Family

LEMMA FamilyParent ==
    ASSUME Typed, Family, NEW n \in Nannies,
           Start(n) \/ List(n) \/ Aim(n) \/ ListAgain(n) \/ Scan(n)
    PROVE  Family'
  <1>1. UNCHANGED <<status, waited, childCount, killCount, forked, killed, wst>>
    BY DEF Start, List, Aim, ListAgain, Scan, waitVars, childVars, initVars
  <1>2. \A q \in Kids : st'[q] = st[q]
    BY ProcFacts DEF Start, List, Aim, ListAgain, Scan, Typed
  <1>3. /\ \A m \in Nannies \ {n} : pc'[m] = pc[m]
        /\ pc[n] \notin {"wait", "done"} /\ pc'[n] # "done"
        /\ pc[n] \notin {"unborn", "list", "kill"} =>
              pc'[n] \notin {"unborn", "list", "kill"}
    BY DEF Start, List, Aim, ListAgain, Scan, Continue, Typed
  <1>4. \A q \in Kids : Life(q)'
    BY <1>1, <1>2, LifeFrame DEF Family
  <1>5. ASSUME NEW m \in Nannies PROVE Parental(m)'
    <2>1. \A k \in Ranks : st'[<<m, k>>] = st[<<m, k>>]
      BY <1>2, ProcFacts
    <2>2. QED
      BY <1>1, <1>3, <2>1, ParentalFrame DEF Family
  <1>6. QED
    BY <1>4, <1>5 DEF Family

\* A process that runs becomes a zombie, marked if it is a child.
LEMMA FamilyKill == ASSUME Typed, Family, NEW n \in Nannies, Hit(n) PROVE Family'
  <1>1. PICK q \in aim[n] :
          IF st[q] \in Running
            THEN /\ st' = [st EXCEPT ![q] = "zombie"]
                 /\ wst' = IF q \in Kids THEN [wst EXCEPT ![q] = Signal] ELSE wst
            ELSE UNCHANGED <<st, wst>>
    BY DEF Hit
  <1>2. q \in Procs
    BY DEF Typed
  <1>3. UNCHANGED <<status, waited, childCount, killCount, forked, killed, pc>>
    BY DEF Hit, waitVars, initVars
  <1>4. ASSUME NEW r \in Kids PROVE Life(r)'
    <2>1. r \in Procs
      BY ProcFacts
    <2>2. CASE r = q /\ st[q] \in Running
      <3>1. st'[r] = "zombie" /\ wst'[r] = Signal
        BY <1>1, <1>2, <2>2 DEF Typed
      <3>2. r \in forked
        BY <2>2, <1>4 DEF Family, Life, Running
      <3>3. QED
        BY <1>3, <3>1, <3>2 DEF Life, Running, Signal, Junk
    <2>3. CASE ~(r = q /\ st[q] \in Running)
      <3>1. st'[r] = st[r] /\ wst'[r] = wst[r]
        BY <1>1, <1>2, <2>1, <2>3 DEF Typed
      <3>2. QED
        BY <1>3, <3>1, LifeFrame DEF Family
    <2>4. QED
      BY <2>2, <2>3
  <1>5. ASSUME NEW m \in Nannies PROVE Parental(m)'
    <2>1. \A k \in Ranks : st[<<m, k>>] = "gone" =>
              st'[<<m, k>>] = "gone" /\ wst'[<<m, k>>] = wst[<<m, k>>]
      BY <1>1, <1>2, ProcFacts DEF Typed, Running
    <2>2. QED
      BY <1>3, <2>1, ParentalFrame DEF Family
  <1>6. QED
    BY <1>4, <1>5 DEF Family

LEMMA FamilyFork == ASSUME Typed, Family, NEW n \in Nannies, Fork(n) PROVE Family'
  <1> DEFINE q == <<n, childCount[n] + 1>>
  <1>1. /\ childCount[n] \in Nat /\ childCount[n] < MaxChildren /\ MaxChildren \in Nat
        /\ childCount[n] + 1 \in Ranks
    BY BoundsAssumption DEF Fork, Typed, Ranks
  <1>2. q \in Kids /\ q \in Procs
    BY <1>1, ProcFacts
  <1>3. PICK p \in scan[n] :
          /\ Continue(n, scan[n] \ {p})
          /\ \/ forked' = forked \cup {q} /\ st' = [st EXCEPT ![q] = "sleep"]
             \/ UNCHANGED <<forked, st>>
    BY DEF Fork
  <1>4. /\ UNCHANGED <<status, waited, killCount, killed, wst>>
        /\ childCount' = [childCount EXCEPT ![n] = @ + 1]
    BY DEF Fork, waitVars
  <1>5. /\ pc[n] = "fork" /\ pc'[n] \in {"scan", "fork"}
        /\ \A m \in Nannies \ {n} : pc'[m] = pc[m]
    BY <1>3 DEF Fork, Continue, Typed
  <1>6. q \notin forked /\ st[q] = "none" /\ q \notin killed /\ wst[q] = Junk
    BY <1>1, <1>2 DEF Family, Parental, Life
  <1> HIDE DEF q
  <1>7. ASSUME NEW r \in Kids PROVE Life(r)'
    <2>1. r \in Procs
      BY ProcFacts
    <2>2. CASE r = q /\ q \in forked'
      <3>1. st'[r] = "sleep"
        BY <1>2, <1>3, <1>6, <2>2 DEF Typed
      <3>2. QED
        BY <1>4, <1>6, <2>2, <3>1 DEF Life, Running, Junk
    <2>3. CASE ~(r = q /\ q \in forked')
      <3>1. st'[r] = st[r] /\ (r \in forked' <=> r \in forked)
        BY <1>2, <1>3, <2>1, <2>3 DEF Typed
      <3>2. QED
        BY <1>4, <3>1, LifeFrame DEF Family
    <2>4. QED
      BY <2>2, <2>3
  <1>8. ASSUME NEW m \in Nannies PROVE Parental(m)'
    <2>1. CASE m = n
      <3>1. waited[n] = 0 /\ waited'[n] = 0
        BY <1>4, <1>5 DEF Family, Parental
      <3>2. ASSUME NEW k \in Ranks
            PROVE  Awaited(n, k)' /\ (<<n, k>> \in forked' => k <= childCount'[n])
        <4>1. ~(k <= waited[n]) /\ status[<<n, k>>] = Junk
          BY <3>1 DEF Ranks, Family, Parental, Awaited
        <4>2. <<n, k>> \in forked' => k <= childCount[n] + 1
          <5>1. <<n, k>> \in forked' => <<n, k>> \in forked \/ <<n, k>> = q
            BY <1>3
          <5>2. k \in Nat /\ childCount[n] \in Nat
            BY <1>1 DEF Ranks
          <5>3. QED
            BY <5>1, <5>2 DEF Family, Parental, q
        <4>3. QED
          BY <1>4, <3>1, <4>1, <4>2 DEF Typed, Awaited, Ranks
      <3>3. childCount'[n] = childCount[n] + 1
        BY <1>4 DEF Typed
      <3>4. QED
        BY <1>1, <1>5, <2>1, <3>1, <3>2, <3>3 DEF Parental
    <2>2. CASE m # n
      <3>1. \A k \in Ranks : <<m, k>> # q /\ <<m, k>> \in Procs
        BY <2>2, ProcFacts DEF q
      <3>2. \A k \in Ranks : st'[<<m, k>>] = st[<<m, k>>]
        BY <1>2, <1>3, <3>1 DEF Typed
      <3>3. \A k \in Ranks : <<m, k>> \in forked' <=> <<m, k>> \in forked
        BY <1>3, <3>1
      <3>4. childCount'[m] = childCount[m] /\ pc'[m] = pc[m]
        BY <1>4, <1>5, <2>2 DEF Typed
      <3>5. \A k \in Ranks : Awaited(m, k)'
        BY <1>4, <3>2, <3>3 DEF Family, Parental, Awaited
      <3>6. Counted(m)' = Counted(m)
        BY <1>4, <3>4 DEF Counted
      <3>7. QED
        BY <1>4, <3>3, <3>4, <3>5, <3>6 DEF Family, Parental
    <2>3. QED
      BY <2>1, <2>2
  <1>9. QED
    BY <1>7, <1>8 DEF Family

\* The parent waits for its next child, and for that one only.
LEMMA FamilyWait == ASSUME Typed, Family, NEW n \in Nannies, WaitOne(n) PROVE Family'
  <1> DEFINE w == waited[n] + 1
             q == <<n, w>>
  <1>1. /\ pc[n] = "wait" /\ waited[n] \in Nat /\ childCount[n] \in Nat
        /\ waited[n] < childCount[n] /\ w \in Ranks
    BY BoundsAssumption DEF WaitOne, Typed, Ranks
  <1>2. q \in Kids /\ q \in Procs
    BY <1>1, ProcFacts
  <1>3. \/ /\ q \in forked /\ st[q] = "zombie"
           /\ st' = [st EXCEPT ![q] = "gone"] /\ status' = [status EXCEPT ![q] = wst[q]]
        \/ q \notin forked /\ UNCHANGED <<st, status>>
    BY DEF WaitOne
  <1>4. /\ UNCHANGED <<killCount, killed, wst, forked, childCount, pc>>
        /\ waited' = [waited EXCEPT ![n] = @ + 1]
    BY DEF WaitOne, initVars, childVars
  <1> HIDE DEF q
  <1>5. ASSUME NEW r \in Kids PROVE Life(r)'
    <2>1. r \in Procs
      BY ProcFacts
    <2>2. CASE r = q /\ q \in forked
      <3>1. st'[r] = "gone"
        BY <1>2, <1>3, <2>2 DEF Typed
      <3>2. QED
        BY <1>3, <1>4, <2>2, <3>1 DEF Family, Life, Running
    <2>3. CASE ~(r = q /\ q \in forked)
      <3>1. st'[r] = st[r]
        BY <1>2, <1>3, <2>1, <2>3 DEF Typed
      <3>2. QED
        BY <1>4, <3>1, LifeFrame DEF Family
    <2>4. QED
      BY <2>2, <2>3
  <1>6. ASSUME NEW m \in Nannies PROVE Parental(m)'
    <2>1. \A k \in Ranks : <<m, k>> # q =>
              /\ st'[<<m, k>>] = st[<<m, k>>] /\ status'[<<m, k>>] = status[<<m, k>>]
      <3>1. ASSUME NEW r \in Kids \ {q} PROVE st'[r] = st[r] /\ status'[r] = status[r]
        <4>1. r \in Procs
          BY ProcFacts
        <4>2. st \in [Procs -> States] /\ status \in [Kids -> Statuses]
          BY DEF Typed
        <4>3. QED
          BY <1>2, <1>3, <4>1, <4>2
      <3>2. QED
        BY <3>1, ProcFacts
    <2>2. CASE m = n
      <3>1. waited'[n] = w
        BY <1>4 DEF Typed
      <3>2. ASSUME NEW k \in Ranks PROVE Awaited(n, k)'
        <4>1. CASE k = w
          <5>1. q = <<n, k>>
            BY <4>1 DEF q
          <5>2. ~(k <= waited[n]) /\ k <= w
            BY <1>1, <4>1
          <5>3. status[q] = Junk
            BY <5>1, <5>2 DEF Family, Parental, Awaited
          <5>4. CASE q \in forked
            BY <1>2, <1>3, <1>4, <3>1, <5>1, <5>2, <5>4 DEF Typed, Awaited
          <5>5. CASE q \notin forked
            BY <1>3, <1>4, <5>1, <5>3, <5>5 DEF Awaited
          <5>6. QED
            BY <5>4, <5>5
        <4>2. CASE k # w
          <5>1. <<n, k>> # q
            BY <4>2 DEF q
          <5>2. k <= w <=> k <= waited[n]
            BY <1>1, <4>2 DEF Ranks
          <5>3. QED
            BY <1>4, <2>1, <2>2, <3>1, <5>1, <5>2 DEF Family, Parental, Awaited
        <4>3. QED
          BY <4>1, <4>2
      <3>3. w <= childCount[n]
        BY <1>1
      <3>4. QED
        BY <1>1, <1>4, <2>2, <3>1, <3>2, <3>3 DEF Family, Parental
    <2>3. CASE m # n
      <3>1. \A k \in Ranks : <<m, k>> # q
        BY <2>3 DEF q
      <3>2. waited'[m] = waited[m]
        BY <1>4, <2>3 DEF Typed
      <3>3. \A k \in Ranks : Awaited(m, k)'
        BY <1>4, <2>1, <3>1, <3>2 DEF Family, Parental, Awaited
      <3>4. Counted(m)' = Counted(m)
        <4>1. 1..childCount[m] \subseteq Ranks
          BY BoundsAssumption DEF Typed, Ranks
        <4>2. \A k \in 1..childCount[m] : status'[<<m, k>>] = status[<<m, k>>]
          BY <2>1, <3>1, <4>1
        <4>3. QED
          BY <1>4, <4>2 DEF Counted
      <3>5. QED
        BY <1>4, <3>2, <3>3, <3>4 DEF Family, Parental
    <2>4. QED
      BY <2>2, <2>3
  <1>7. QED
    BY <1>5, <1>6 DEF Family

LEMMA FamilyFinish == ASSUME Typed, Family, NEW n \in Nannies, Finish(n) PROVE Family'
  <1>1. /\ UNCHANGED <<status, waited, killed, wst, forked, childCount>>
        /\ st' = [st EXCEPT ![<<n, 0>>] = "zombie"] /\ pc' = [pc EXCEPT ![n] = "done"]
        /\ killCount' = [killCount EXCEPT ![n] = Cardinality(Counted(n))]
    BY DEF Finish, Counted, initVars, childVars
  <1>2. \A q \in Kids : st'[q] = st[q]
    BY <1>1, ProcFacts DEF Typed
  <1>3. \A q \in Kids : Life(q)'
    BY <1>1, <1>2, LifeFrame DEF Family
  <1>4. ASSUME NEW m \in Nannies PROVE Parental(m)'
    <2>1. \A k \in Ranks : Awaited(m, k)' /\ (<<m, k>> \in forked' => k <= childCount'[m])
      BY <1>1, <1>2, ProcFacts DEF Family, Parental, Awaited
    <2>2. Counted(m)' = Counted(m)
      BY <1>1 DEF Counted
    <2>3. CASE m = n
      <3>1. pc'[n] = "done" /\ killCount'[n] = Cardinality(Counted(n))
        BY <1>1 DEF Typed
      <3>2. waited[n] = childCount[n]
        BY DEF Finish
      <3>3. QED
        BY <1>1, <2>1, <2>2, <2>3, <3>1, <3>2 DEF Family, Parental
    <2>4. CASE m # n
      <3>1. pc'[m] = pc[m] /\ killCount'[m] = killCount[m]
        BY <1>1, <2>4 DEF Typed
      <3>2. QED
        BY <1>1, <2>1, <2>2, <3>1 DEF Family, Parental
    <2>5. QED
      BY <2>3, <2>4
  <1>5. QED
    BY <1>3, <1>4 DEF Family

\* A child that runs is none its parent has waited for.
LEMMA FamilyChild == ASSUME Typed, Family, NEW q \in Kids, Child(q) PROVE Family'
  <1>1. q \in Procs /\ UNCHANGED <<forked, status, waited, childCount, killCount, pc>>
    BY ProcFacts DEF Child, Check, Kill, Exit, parentVars, waitVars, initVars
  <1>2. /\ st[q] \in {"sleep", "kill", "exit"} /\ q \in forked /\ wst[q] = Junk
    BY DEF Child, Check, Kill, Exit, Family, Life, Running
  <1>3. \A r \in Kids \ {q} : r \in Procs /\ st'[r] = st[r] /\ wst'[r] = wst[r]
                              /\ (r \in killed' <=> r \in killed)
    BY ProcFacts DEF Child, Check, Kill, Exit, Typed, childVars
  <1>4. Life(q)'
    <2>1. CASE Check(q)
      <3>1. /\ st[q] = "sleep" /\ st'[q] \in {"exit", "kill"}
            /\ UNCHANGED <<killed, wst>>
        BY <1>1, <2>1 DEF Check, Typed, childVars
      <3>2. QED
        BY <1>1, <1>2, <3>1 DEF Family, Life, Running, Junk
    <2>2. CASE Kill(q)
      <3>1. st'[q] = "exit" /\ UNCHANGED wst
        BY <1>1, <2>2 DEF Kill, Typed
      <3>2. QED
        BY <1>1, <1>2, <3>1 DEF Family, Life, Running, Junk
    <2>3. CASE Exit(q)
      <3>1. /\ st'[q] = "zombie" /\ UNCHANGED killed
            /\ wst'[q] = IF q \in killed THEN 1 ELSE 0
        BY <1>1, <2>3 DEF Exit, Typed
      <3>2. QED
        BY <1>1, <1>2, <3>1 DEF Family, Life, Running, Junk, Signal
    <2>4. QED
      BY <2>1, <2>2, <2>3 DEF Child
  <1>5. \A r \in Kids \ {q} : Life(r)'
    BY <1>1, <1>3, LifeFrame DEF Family
  <1>6. ASSUME NEW m \in Nannies PROVE Parental(m)'
    <2>1. ASSUME NEW k \in Ranks, st[<<m, k>>] = "gone"
          PROVE  st'[<<m, k>>] = "gone" /\ wst'[<<m, k>>] = wst[<<m, k>>]
      <3>1. <<m, k>> \in Kids /\ <<m, k>> # q
        BY <1>2, <2>1, ProcFacts
      <3>2. QED
        BY <1>3, <2>1, <3>1
    <2>2. QED
      BY <1>1, <2>1, ParentalFrame DEF Family
  <1>7. QED
    BY <1>4, <1>5, <1>6 DEF Family

LEMMA FamilyOthers ==
    ASSUME Typed, Family, Spawn \/ ProcessExit \/ ReapProcess \/ Reap \/ UNCHANGED vars
    PROVE  Family'
  <1>1. UNCHANGED <<forked, killed, wst, status, waited, childCount, killCount, pc>>
    BY DEF Spawn, ProcessExit, ReapProcess, Reap, vars, initVars, waitVars, childVars
  <1>2. \A q \in Procs : st'[q] = st[q] \/ (st[q] = "zombie" /\ st'[q] = "gone")
    BY DEF Spawn, ProcessExit, ReapProcess, Reap, vars, Typed
  <1>3. ASSUME NEW q \in Kids PROVE Life(q)'
    <2>1. st'[q] = st[q] \/ (st[q] = "zombie" /\ st'[q] = "gone")
      BY <1>2, ProcFacts
    <2>2. QED
      BY <1>1, <2>1 DEF Family, Life, Running
  <1>4. ASSUME NEW m \in Nannies PROVE Parental(m)'
    <2>1. \A k \in Ranks : st[<<m, k>>] = "gone" => st'[<<m, k>>] = "gone"
      BY <1>2, ProcFacts
    <2>2. QED
      BY <1>1, <2>1, ParentalFrame DEF Family
  <1>5. QED
    BY <1>3, <1>4 DEF Family

LEMMA NextFamily == Typed /\ Family /\ [Next]_vars => Family'
  BY FamilyParent, FamilyKill, FamilyFork, FamilyWait, FamilyFinish, FamilyChild,
     FamilyOthers DEF Next, Nanny

-----------------------------------------------------------------------------
(* The count of the final message.                                         *)

\* Who has begun to kill stays among those who have.
LEMMA BlameFrame ==
    ASSUME Blame, UNCHANGED <<list, aim>>, \A q \in Kids : wst'[q] = Signal => wst[q] = Signal,
           \A n \in Nannies : pc[n] \notin {"unborn", "list"} => pc'[n] \notin {"unborn", "list"}
    PROVE  Blame'
  BY DEF Blame, Targets

LEMMA NextBlame == Typed /\ Rivals /\ Family /\ Blame /\ [Next]_vars => Blame'
  <1> SUFFICES ASSUME Typed, Rivals, Family, Blame, [Next]_vars PROVE Blame'
    OBVIOUS
  <1>1. ASSUME NEW n \in Nannies, List(n) PROVE Blame'
    <2>1. UNCHANGED <<aim, wst>> /\ \A m \in Nannies \ {n} : pc'[m] = pc[m] /\ list'[m] = list[m]
      BY <1>1 DEF List, childVars, Typed
    <2>2. pc[n] = "list" /\ list'[n] \in {list[n], Others(n, InPs)}
      BY <1>1 DEF List, Typed
    <2>3. ASSUME NEW q \in Others(n, InPs), q[1] = n PROVE FALSE
      <3>1. q \in Procs /\ st[q] # "none" /\ q # <<n, 0>>
        BY <2>3 DEF Others, InPs
      <3>2. q \in Kids /\ q = <<n, q[2]>> /\ q[2] \in Ranks
        BY <2>3, <3>1, ProcFacts
      <3>3. q \in forked
        BY <3>1, <3>2 DEF Family, Life
      <3>4. q[2] <= 0
        BY <2>2, <3>2, <3>3 DEF Family, Parental
      <3>5. QED
        BY <3>2, <3>4 DEF Ranks
    <2>4. \A m \in Nannies : \A q \in Targets(m)' : q[1] # m
      BY <2>1, <2>2, <2>3 DEF Blame, Targets
    <2>5. \A m \in Nannies : pc[m] \notin {"unborn", "list"} => pc'[m] \notin {"unborn", "list"}
      BY <2>1, <2>2
    <2>6. QED
      BY <2>1, <2>4, <2>5 DEF Blame
  <1>2. ASSUME NEW n \in Nannies, Aim(n) PROVE Blame'
    <2>1. UNCHANGED <<pc, wst>> /\ \A m \in Nannies : Targets(m)' \subseteq Targets(m)
      BY <1>2 DEF Aim, Typed, Targets, childVars
    <2>2. QED
      BY <2>1 DEF Blame
  <1>3. ASSUME NEW n \in Nannies, Hit(n) PROVE Blame'
    <2>1. PICK q \in aim[n] :
            /\ aim' = [aim EXCEPT ![n] = @ \ {q}]
            /\ IF st[q] \in Running
                 THEN wst' = IF q \in Kids THEN [wst EXCEPT ![q] = Signal] ELSE wst
                 ELSE UNCHANGED wst
      BY <1>3 DEF Hit
    <2>2. UNCHANGED <<pc, list>> /\ pc[n] = "kill" /\ q[1] # n
      BY <1>3 DEF Hit, Blame, Rivals, Targets
    <2>3. \A m \in Nannies : Targets(m)' \subseteq Targets(m)
      BY <2>1, <2>2 DEF Typed, Targets
    <2>4. \A r \in Kids : wst'[r] = Signal => wst[r] = Signal \/ r = q
      BY <2>1 DEF Typed
    <2>5. QED
      BY <2>2, <2>3, <2>4 DEF Blame
  <1>4. ASSUME NEW n \in Nannies,
               Start(n) \/ ListAgain(n) \/ Scan(n) \/ Fork(n) \/ WaitOne(n) \/ Finish(n)
        PROVE  Blame'
    <2>1. UNCHANGED <<list, aim, wst>>
      BY <1>4 DEF Start, ListAgain, Scan, Fork, WaitOne, Finish, killVars, childVars
    <2>2. \A m \in Nannies :
              pc[m] \notin {"unborn", "list"} => pc'[m] \notin {"unborn", "list"}
      BY <1>4 DEF Start, ListAgain, Scan, Fork, WaitOne, Finish, Continue, initVars, Typed
    <2>3. QED
      BY <2>1, <2>2, BlameFrame
  <1>5. ASSUME NEW q \in Kids, Child(q) PROVE Blame'
    <2>1. UNCHANGED <<list, aim, pc>> /\ \A r \in Kids : wst'[r] = Signal => wst[r] = Signal
      BY <1>5 DEF Child, Check, Kill, Exit, parentVars, killVars, childVars, Typed, Signal
    <2>2. QED
      BY <2>1, BlameFrame
  <1>6. ASSUME Spawn \/ ProcessExit \/ ReapProcess \/ Reap \/ UNCHANGED vars PROVE Blame'
    <2>1. UNCHANGED <<list, aim, pc, wst>>
      BY <1>6 DEF Spawn, ProcessExit, ReapProcess, Reap, vars, killVars, childVars
    <2>2. QED
      BY <2>1, BlameFrame
  <1>7. QED
    BY <1>1, <1>2, <1>3, <1>4, <1>5, <1>6 DEF Next, Nanny

LEMMA TallyFollows == ASSUME Typed, Family, Blame PROVE TallyExact
  <1> SUFFICES ASSUME NEW n \in Nannies, pc[n] = "done"
               PROVE  LET did == {k \in 1..childCount[n] : <<n, k>> \in killed} IN
                      /\ killCount[n] = Cardinality({k \in did : wst[<<n, k>>] # Signal})
                      /\ \A k \in 1..childCount[n] : st[<<n, k>>] \in {"none", "gone"}
                      /\ (\A m \in Nannies \ {n} : pc[m] \in {"unborn", "list"}) =>
                            killCount[n] = Cardinality(did)
    BY DEF TallyExact
  <1> DEFINE did == {k \in 1..childCount[n] : <<n, k>> \in killed}
  <1>1. /\ killCount[n] = Cardinality(Counted(n)) /\ waited[n] = childCount[n]
        /\ 1..childCount[n] \subseteq Ranks
    BY BoundsAssumption DEF Family, Parental, Typed, Ranks
  <1>2. ASSUME NEW k \in 1..childCount[n]
        PROVE  /\ st[<<n, k>>] \in {"none", "gone"}
               /\ CountsAsKill(status[<<n, k>>]) <=>
                     <<n, k>> \in killed /\ wst[<<n, k>>] # Signal
    <2>1. <<n, k>> \in Kids /\ Life(<<n, k>>) /\ Awaited(n, k) /\ k <= waited[n]
      BY <1>1, ProcFacts DEF Family, Parental, Typed
    <2>2. CASE <<n, k>> \in forked
      BY <2>1, <2>2 DEF Life, Awaited, CountsAsKill, Running, Signal
    <2>3. CASE <<n, k>> \notin forked
      BY <2>1, <2>3 DEF Life, Awaited, CountsAsKill, Junk
    <2>4. QED
      BY <2>2, <2>3
  <1>3. Counted(n) = {k \in did : wst[<<n, k>>] # Signal}
    BY <1>2 DEF Counted
  <1>4. ASSUME \A m \in Nannies \ {n} : pc[m] \in {"unborn", "list"}
        PROVE  killCount[n] = Cardinality(did)
    <2>1. \A k \in 1..childCount[n] : wst[<<n, k>>] # Signal
      <3> SUFFICES ASSUME NEW k \in 1..childCount[n] PROVE wst[<<n, k>>] # Signal
        OBVIOUS
      <3>1. <<n, k>> \in Kids /\ <<n, k>>[1] = n
        BY <1>1, ProcFacts
      <3>2. QED
        BY <1>4, <3>1 DEF Blame
    <2>2. {k \in did : wst[<<n, k>>] # Signal} = did
      BY <2>1
    <2>3. QED
      BY <1>1, <1>3, <2>2
  <1>5. QED
    BY <1>1, <1>2, <1>3, <1>4

\* The final count is the number of the parent's own children whose kill
\* succeeded and that no other procnanny ended, whatever forks failed.
THEOREM TallyCorrect == Spec => []TallyExact
  <1>1. Init => Typed /\ Rivals /\ Family /\ Blame
    BY InitTyped, InitFamily, InitRivals, ProcFacts DEF Init, Blame, Targets, Junk, Signal
  <1>2. Typed /\ Rivals /\ Family /\ Blame /\ [Next]_vars
          => (Typed /\ Rivals /\ Family /\ Blame)'
    BY NextTyped, NextRivals, NextFamily, NextBlame
  <1>3. Typed /\ Family /\ Blame => TallyExact
    BY TallyFollows
  <1>4. QED
    BY <1>1, <1>2, <1>3, PTL DEF Spec

-----------------------------------------------------------------------------
(* The room in childpid.                                                   *)

LEMMA RoomFrame ==
    ASSUME Room, NEW n \in Nannies,
           \A m \in Nannies \ {n} :
              /\ pc'[m] = pc[m] /\ idx'[m] = idx[m] /\ scan'[m] = scan[m] /\ file'[m] = file[m]
              /\ arraySize'[m] = arraySize[m] /\ childCount'[m] = childCount[m],
           /\ pc'[n] \in {"unborn", "list", "kill"} =>
                 idx'[n] = 1 /\ scan'[n] = {} /\ arraySize'[n] = Len(file'[n])
           /\ pc'[n] = "scan" =>
                 /\ idx'[n] <= Len(file'[n]) + 1
                 /\ childCount'[n] + Len(file'[n]) + 1 - idx'[n] <= arraySize'[n]
           /\ pc'[n] = "fork" =>
                 /\ idx'[n] <= Len(file'[n])
                 /\ childCount'[n] + Cardinality(scan'[n]) + Len(file'[n]) - idx'[n]
                       <= arraySize'[n]
           /\ childCount'[n] <= arraySize'[n]
    PROVE  Room'
  BY DEF Room

\* The old values of everything Room speaks of are numbers.
LEMMA RoomNumbers ==
    ASSUME Typed, NEW n \in Nannies
    PROVE  /\ childCount[n] \in Nat /\ arraySize[n] \in Nat /\ idx[n] \in Nat \ {0}
           /\ Len(file[n]) \in Nat /\ IsFiniteSet(scan[n]) /\ Cardinality(scan[n]) \in Nat
  BY BoundsAssumption, PidsFinite, LenProperties DEF Typed

LEMMA RoomStart ==
    ASSUME Typed, Family, Room, NEW n \in Nannies,
           Start(n) \/ List(n) \/ ListAgain(n)
    PROVE  Room'
  <1>1. CASE Start(n)
    <2>1. PICK f \in Files : /\ file' = [file EXCEPT ![n] = f]
                             /\ arraySize' = [arraySize EXCEPT ![n] = Len(f)]
      BY <1>1 DEF Start
    <2>2. /\ pc[n] = "unborn" /\ pc'[n] = "list" /\ file'[n] = f /\ arraySize'[n] = Len(f)
          /\ UNCHANGED <<idx, scan, childCount>> /\ Len(f) \in Nat
      BY <1>1, <2>1, FilesAssumption, LenProperties DEF Start, Typed
    <2>3. \A m \in Nannies \ {n} :
              pc'[m] = pc[m] /\ file'[m] = file[m] /\ arraySize'[m] = arraySize[m]
      BY <1>1, <2>1 DEF Start, Typed
    <2>4. idx[n] = 1 /\ scan[n] = {} /\ childCount[n] = 0
      BY <2>2 DEF Room, Family, Parental
    <2>5. QED
      BY <2>2, <2>3, <2>4, RoomFrame
  <1>2. CASE List(n) \/ ListAgain(n)
    <2>1. UNCHANGED <<file, arraySize, idx, scan, childCount>>
      BY <1>2 DEF List, ListAgain, initVars
    <2>2. /\ pc[n] \in {"list", "kill"} /\ pc'[n] \in {"kill", "scan"}
          /\ \A m \in Nannies \ {n} : pc'[m] = pc[m]
      BY <1>2 DEF List, ListAgain, Typed
    <2>3. idx[n] = 1 /\ scan[n] = {} /\ arraySize[n] = Len(file[n]) /\ childCount[n] = 0
      BY <2>2 DEF Room, Family, Parental
    <2>4. /\ idx[n] <= Len(file[n]) + 1
          /\ childCount[n] + Len(file[n]) + 1 - idx[n] <= arraySize[n]
          /\ childCount[n] <= arraySize[n]
      BY <2>3, RoomNumbers
    <2>5. QED
      BY <2>1, <2>2, <2>3, <2>4, RoomFrame
  <1>3. QED
    BY <1>1, <1>2

LEMMA RoomScan == ASSUME Typed, Room, NEW n \in Nannies, Scan(n) PROVE Room'
  <1>1. /\ idx[n] <= Len(file[n]) + 1 /\ childCount[n] <= arraySize[n]
        /\ childCount[n] + Len(file[n]) + 1 - idx[n] <= arraySize[n]
        /\ UNCHANGED <<file, childCount>>
    BY DEF Scan, Room
  <1>2. \A m \in Nannies \ {n} :
            /\ pc'[m] = pc[m] /\ idx'[m] = idx[m] /\ scan'[m] = scan[m]
            /\ arraySize'[m] = arraySize[m]
    BY DEF Scan, Continue, Typed
  <1>3. CASE EndOfNames(n)
    <2>1. pc'[n] = "wait" /\ arraySize'[n] = arraySize[n]
      BY <1>3 DEF Scan, Typed
    <2>2. QED
      BY <1>1, <1>2, <2>1, RoomFrame
  <1>4. CASE ~EndOfNames(n)
    <2> DEFINE found == Listed(file[n][idx[n]])
               c     == Cardinality(found)
    <2>1. found \in SUBSET Pids /\ c \in Nat /\ IsFiniteSet(found) /\ (c = 0 <=> found = {})
      BY PidsFinite, FS_EmptySet DEF Listed
    <2>2. idx[n] <= Len(file[n])
      BY <1>4, RoomNumbers DEF EndOfNames
    <2>3. /\ Continue(n, found)
          /\ arraySize' = [arraySize EXCEPT ![n] = IF c > 1 THEN @ + c ELSE @]
      BY <1>4 DEF Scan
    <2> HIDE DEF found, c
    <2>4. arraySize'[n] = IF c > 1 THEN arraySize[n] + c ELSE arraySize[n]
      BY <2>3 DEF Typed
    <2>5. CASE c = 0
      <3>1. pc'[n] = "scan" /\ idx'[n] = idx[n] + 1
        BY <2>1, <2>3, <2>5 DEF Continue, Typed
      <3>2. /\ idx[n] + 1 <= Len(file[n]) + 1
            /\ childCount[n] + Len(file[n]) + 1 - (idx[n] + 1) <= arraySize'[n]
            /\ childCount[n] <= arraySize'[n]
        BY <1>1, <2>2, <2>4, <2>5, RoomNumbers
      <3>3. QED
        BY <1>1, <1>2, <3>1, <3>2, RoomFrame
    <2>6. CASE c # 0
      <3>1. pc'[n] = "fork" /\ idx'[n] = idx[n] /\ scan'[n] = found
        BY <2>1, <2>3, <2>6 DEF Continue, Typed
      <3>2. /\ childCount[n] + c + Len(file[n]) - idx[n] <= arraySize'[n]
            /\ childCount[n] <= arraySize'[n]
        <4>1. c = 1 \/ c > 1
          BY <2>1, <2>6
        <4>2. /\ c = 1 => arraySize'[n] = arraySize[n]
              /\ c > 1 => arraySize'[n] = arraySize[n] + c
          BY <2>1, <2>4
        <4>3. /\ childCount[n] \in Nat /\ arraySize[n] \in Nat /\ idx[n] \in Nat \ {0}
              /\ Len(file[n]) \in Nat /\ c \in Nat
          BY <2>1, RoomNumbers
        <4> DEFINE a == arraySize[n]
                   d == arraySize'[n]
                   k == childCount[n]
                   i == idx[n]
                   l == Len(file[n])
        <4>4. k <= a /\ k + l + 1 - i <= a /\ i <= l
          BY <1>1, <2>2
        <4> HIDE DEF a, d, k, i, l
        <4>5. /\ k \in Nat /\ a \in Nat /\ i \in Nat /\ l \in Nat /\ c \in Nat
              /\ (c = 1 => d = a) /\ (c > 1 => d = a + c)
          BY <4>2, <4>3 DEF a, d, k, i, l
        <4>6. k + c + l - i <= d /\ k <= d
          BY <4>1, <4>4, <4>5
        <4>7. QED
          BY <4>6 DEF a, d, k, i, l
      <3>3. QED
        BY <1>1, <1>2, <2>2, <3>1, <3>2, RoomFrame DEF c
    <2>7. QED
      BY <2>5, <2>6
  <1>5. QED
    BY <1>3, <1>4

LEMMA RoomFork == ASSUME Typed, Room, NEW n \in Nannies, Fork(n) PROVE Room'
  <1>1. /\ idx[n] <= Len(file[n]) /\ UNCHANGED <<file, arraySize>>
        /\ childCount[n] + Cardinality(scan[n]) + Len(file[n]) - idx[n] <= arraySize[n]
    BY DEF Fork, Room
  <1>2. PICK p \in scan[n] : Continue(n, scan[n] \ {p})
    BY DEF Fork
  <1>3. /\ \A m \in Nannies \ {n} :
              /\ pc'[m] = pc[m] /\ idx'[m] = idx[m] /\ scan'[m] = scan[m]
              /\ childCount'[m] = childCount[m]
        /\ childCount'[n] = childCount[n] + 1
    BY <1>2 DEF Fork, Continue, Typed
  <1> DEFINE left == scan[n] \ {p}
             c    == Cardinality(left)
  <1>4. c = Cardinality(scan[n]) - 1 /\ c \in Nat /\ (c = 0 <=> left = {})
    <2>1. IsFiniteSet(scan[n])
      BY RoomNumbers
    <2>2. IsFiniteSet(left) /\ c = Cardinality(scan[n]) - 1
      BY <2>1, FS_RemoveElement
    <2>3. QED
      BY <2>2, FS_EmptySet, FS_CardinalityType
  <1> HIDE DEF left, c
  <1>5. CASE c = 0
    <2>1. pc'[n] = "scan" /\ idx'[n] = idx[n] + 1
      BY <1>2, <1>4, <1>5 DEF Continue, Typed, left
    <2>2. /\ idx[n] + 1 <= Len(file[n]) + 1
          /\ childCount[n] + 1 + Len(file[n]) + 1 - (idx[n] + 1) <= arraySize[n]
          /\ childCount[n] + 1 <= arraySize[n]
      BY <1>1, <1>4, <1>5, RoomNumbers
    <2>3. QED
      BY <1>1, <1>3, <2>1, <2>2, RoomFrame
  <1>6. CASE c # 0
    <2>1. pc'[n] = "fork" /\ idx'[n] = idx[n] /\ scan'[n] = left
      BY <1>2, <1>4, <1>6 DEF Continue, Typed, left
    <2>2. /\ childCount[n] + 1 + c + Len(file[n]) - idx[n] <= arraySize[n]
          /\ childCount[n] + 1 <= arraySize[n]
      BY <1>1, <1>4, <1>6, RoomNumbers
    <2>3. QED
      BY <1>1, <1>3, <2>1, <2>2, RoomFrame DEF c
  <1>7. QED
    BY <1>5, <1>6

LEMMA RoomOthers ==
    ASSUME Typed, Room,
           \/ \E n \in Nannies : Aim(n) \/ Hit(n) \/ WaitOne(n) \/ Finish(n)
           \/ \E q \in Kids : Child(q)
           \/ Spawn \/ ProcessExit \/ ReapProcess \/ Reap \/ UNCHANGED vars
    PROVE  Room'
  <1>1. UNCHANGED <<file, arraySize, idx, scan, childCount>>
    BY DEF Aim, Hit, WaitOne, Finish, Child, Check, Kill, Exit, Spawn, ProcessExit,
           ReapProcess, Reap, vars, initVars, parentVars
  <1>2. \A n \in Nannies : pc'[n] = pc[n] \/ pc'[n] = "done"
    BY DEF Aim, Hit, WaitOne, Finish, Child, Check, Kill, Exit, Spawn, ProcessExit,
           ReapProcess, Reap, vars, parentVars, Typed
  <1>3. QED
    BY <1>1, <1>2 DEF Room

\* childpid holds an entry for every child a parent forks: it starts with one for
\* each name and grows by the processes found only when there are several.
THEOREM RoomForAll == Spec => [](\A n \in Nannies : childCount[n] <= arraySize[n])
  <1>1. Init => Typed /\ Family /\ Room
    <2>1. Init => Room
      <3>1. Len(<<>>) = 0
        OBVIOUS
      <3>2. QED
        BY <3>1 DEF Init, Room
    <2>2. QED
      BY <2>1, InitTyped, InitFamily
  <1>2. Typed /\ Room /\ Family /\ [Next]_vars => Room'
    BY RoomStart, RoomScan, RoomFork, RoomOthers DEF Next, Nanny
  <1>3. Typed /\ Family /\ Room /\ [Next]_vars => (Typed /\ Family /\ Room)'
    BY <1>2, NextTyped, NextFamily
  <1>4. Room => \A n \in Nannies : childCount[n] <= arraySize[n]
    BY DEF Room
  <1>5. QED
    BY <1>1, <1>3, <1>4, PTL DEF Spec
=============================================================================
