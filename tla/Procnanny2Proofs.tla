--------------------------- MODULE Procnanny2Proofs ---------------------------
(***************************************************************************)
(* Theorems about version 2, for any names, processes, configurations and  *)
(* bounds: the pool of initChildren is large enough unless SIGHUP made the *)
(* configuration longer, the final message comes after every child has     *)
(* ended, wherever the signals fell, an idle child has nothing in its      *)
(* pipes, and every variable stays in its range.                           *)
(***************************************************************************)
EXTENDS Procnanny2, FiniteSetTheorems, SequenceTheorems, TLAPS

ChildPcs == {"none", "forked", "read", "sleep", "gone", "lost", "handler", "taking",
             "availableHeader", "availableBody", "exitHeader", "exitBody"}

\* Where everybody is, and the one slot that is counted before its child exists.
Places ==
    /\ pc \in ParentPcs \cup HandlerPcs \cup {"done", "dead"}
    /\ phase \in {"init", "rescan"} /\ idx \in Nat \ {0} /\ scan \subseteq Pids
    /\ procCount \in Nat /\ childCount \in 0..MaxChildren /\ poolCap \in Nat /\ exited \in Nat
    /\ cpc \in [Slots -> ChildPcs] /\ c2p \in [Slots -> Seq(Halves(Answers))]
    /\ pc \in {"poll", "header", "body", "handle"} => phase = "rescan"
    /\ pc \in {"scan", "poll", "header", "body", "handle"} => scan = {}
    /\ pc = "fork" => target = childCount /\ childCount > 0
    /\ pc \in {"header", "body", "handle", "hHeader", "hBody"} => idx \in 1..childCount
    /\ \A i \in Slots :
          i > childCount \/ (pc = "fork" /\ i = childCount) => cpc[i] = "none"

\* While initChildren walks the names, childPool has room for the children there
\* are, for those the list of the current name still asks for, and for one child
\* of every name that follows.
Walking == pc \in {"scan", "pick", "fork", "writeHeader", "writeBody"}
Pool ==
    ~grown =>
        /\ childCount <= poolCap
        /\ phase = "init" /\ Walking =>
              /\ childCount + Cardinality(scan) <= poolCap
              /\ childCount + Cardinality(scan) + procCount
                    + (IF pc = "scan" THEN 1 ELSE 0) <= poolCap + idx

\* The pipe q of a child at s holds headers and bodies in turn, the last of which
\* tells where the child is; the body of "exitComplete" is the last thing it
\* writes.
Piped(q, s) ==
    /\ q # <<>> => (IsHeader(q[Len(q)]) <=> s \in {"availableBody", "exitBody"})
    /\ \A k \in 1..(Len(q) - 1) : IsHeader(q[k]) <=> ~IsHeader(q[k + 1])
    /\ \A k \in 1..Len(q) : q[k] = Body("exitComplete") => s = "gone" /\ k = Len(q)

\* What waitForChildren reads behind a header is a body.
Behind(q, s) ==
    /\ q = <<>> => s \in {"availableBody", "exitBody"}
    /\ q # <<>> => ~IsHeader(q[1])

Pipes == \A i \in Slots : /\ Piped(c2p[i], cpc[i])
                          /\ pc = "hBody" /\ idx = i => Behind(c2p[i], cpc[i])

\* The children that have ended and whose last words are not in the pipe any more.
Quiet(q, s) == s = "gone" /\ \A k \in 1..Len(q) : q[k] # Body("exitComplete")
Heard == {i \in Slots : Quiet(c2p[i], cpc[i])}

Ends == /\ exited <= Cardinality(Heard)
        /\ pc = "done" => childCount <= exited

Inv == Places /\ Pool /\ Pipes /\ Ends

\* Before SIGINT: what the parent is doing to slot i, and what a slot can be.
\* Of one request there is one trace at a time: in the parent's hands, in the
\* pipe to the child, in the child, in the pipe back.  Where the parent has
\* lost an answer SIGHUP cut, the slot keeps the process for ever.
Writes(i)  == pc \in {"writeHeader", "writeBody"} /\ target = i
Handles(i) == pc = "handle" /\ idx = i
Reads(i)   == pc \in {"body", "handle"} /\ idx = i
Left(i)    == ~Writes(i) /\ ~Reads(i)

NoChild(i)   == cpc[i] = "none" /\ p2c[i] = <<>> /\ Len(c2p[i]) = 0 /\ Left(i)
IdleSlot(i)  == cpc[i] = "read" /\ p2c[i] = <<>> /\ Len(c2p[i]) = 0 /\ Left(i)
Asked(i) ==
    /\ cpc[i] \in {"forked", "read"} /\ Len(c2p[i]) = 0 /\ ~Reads(i)
    /\ \/ pc = "writeHeader" /\ target = i /\ p2c[i] = <<>>
       \/ pc = "writeBody" /\ target = i /\ p2c[i] = <<Header(cur)>>
       \/ ~Writes(i) /\ \E m \in Pids : p2c[i] = Message(m)
Working(i)   == /\ cpc[i] \in {"sleep", "availableHeader"} /\ p2c[i] = <<>>
                /\ Len(c2p[i]) = 0 /\ Left(i)
Answering(i) == /\ cpc[i] = "availableBody" /\ p2c[i] = <<>> /\ ~Writes(i) /\ ~Handles(i)
                /\ (Len(c2p[i]) = 0 \/ (Len(c2p[i]) = 1 /\ ~Reads(i)))
Answered(i)  == /\ cpc[i] = "read" /\ p2c[i] = <<>> /\ ~Writes(i)
                /\ \/ Len(c2p[i]) = 0
                   \/ Len(c2p[i]) = 1 /\ ~Handles(i)
                   \/ Len(c2p[i]) = 2 /\ ~Reads(i)
Busy(i)  == Asked(i) \/ Working(i) \/ Answering(i) \/ Answered(i)
Shape(i) == \/ m_pid[i] = Junk /\ NoChild(i)
            \/ m_pid[i] = 0 /\ IdleSlot(i)
            \/ m_pid[i] \in Pids /\ Busy(i)

Idles == {i \in Slots : m_pid[i] = 0}
Asks  == Halves(Pids \cup {Exit})
Jobs ==
    pc \in ParentPcs =>
        /\ m_pid \in [Slots -> Int] /\ p2c \in [Slots -> Seq(Asks)]
        /\ pc \in {"fork", "writeHeader", "writeBody"} => cur \in Pids /\ target \in Slots
        /\ \A i \in Slots : Shape(i)
        /\ idleChildCount = Cardinality(Idles)

-----------------------------------------------------------------------------
(* Pipes.                                                                  *)

Half == Halves(Answers)

LEMMA HalfFacts ==
    /\ \A m \in Answers : Header(m) \in Half /\ Body(m) \in Half
    /\ \A m : IsHeader(Header(m)) /\ ~IsHeader(Body(m))
    /\ \A h \in Half : ~IsHeader(h) => h = Body(h[2])
  BY DEF Half, Halves, Header, Body, IsHeader

LEMMA PipedEmpty == ASSUME NEW s PROVE Piped(<<>>, s)
  BY DEF Piped

LEMMA PipedTail ==
    ASSUME NEW q \in Seq(Half), q # <<>>, NEW s, Piped(q, s)
    PROVE  /\ Tail(q) \in Seq(Half) /\ Piped(Tail(q), s)
           /\ Head(q) = q[1] /\ q[1] \in Half
           /\ IsHeader(q[1]) => Behind(Tail(q), s)
           /\ Quiet(q, s) => Quiet(Tail(q), s)
           /\ q[1] = Body("exitComplete") => Tail(q) = <<>> /\ s = "gone"
  <1> DEFINE r == Tail(q)
  <1>1. Len(q) \in Nat \ {0} /\ Head(q) = q[1] /\ q[1] \in Half
    BY EmptySeq, HeadTailProperties
  <1>2. /\ r \in Seq(Half) /\ Len(r) = Len(q) - 1
        /\ \A j \in 1..Len(r) : r[j] = q[j + 1]
    BY HeadTailProperties
  <1>3. r = <<>> <=> Len(q) = 1
    <2>1. r = <<>> <=> Len(r) = 0
      BY <1>2, EmptySeq
    <2>2. QED
      BY <1>1, <1>2, <2>1
  <1>4. r # <<>> => r[Len(r)] = q[Len(q)] /\ r[1] = q[2] /\ 1 \in 1..(Len(q) - 1)
    BY <1>1, <1>2, <1>3
  <1>5. Piped(r, s)
    <2>1. r # <<>> => (IsHeader(r[Len(r)]) <=> s \in {"availableBody", "exitBody"})
      BY <1>4 DEF Piped
    <2>2. ASSUME NEW k \in 1..(Len(r) - 1) PROVE IsHeader(r[k]) <=> ~IsHeader(r[k + 1])
      <3>1. k + 1 \in 1..(Len(q) - 1) /\ r[k] = q[k + 1] /\ r[k + 1] = q[k + 1 + 1]
        BY <1>1, <1>2
      <3>2. QED
        BY <3>1 DEF Piped
    <2>3. ASSUME NEW k \in 1..Len(r), r[k] = Body("exitComplete")
          PROVE  s = "gone" /\ k = Len(r)
      <3>1. k + 1 \in 1..Len(q) /\ q[k + 1] = Body("exitComplete")
        BY <1>1, <1>2, <2>3
      <3>2. s = "gone" /\ k + 1 = Len(q)
        BY <3>1 DEF Piped
      <3>3. k \in Int /\ Len(q) \in Int /\ Len(r) = Len(q) - 1
        BY <1>1, <1>2
      <3>4. QED
        BY <3>2, <3>3
    <2>4. QED
      BY <2>1, <2>2, <2>3 DEF Piped
  <1>6. IsHeader(q[1]) => Behind(r, s)
    <2>1. r = <<>> => q[Len(q)] = q[1]
      BY <1>1, <1>3
    <2>2. 1 \in 1..(Len(q) - 1) => (IsHeader(q[1]) <=> ~IsHeader(q[1 + 1]))
      BY DEF Piped
    <2>3. QED
      BY <1>4, <2>1, <2>2 DEF Behind, Piped
  <1>7. Quiet(q, s) => Quiet(r, s)
    <2> SUFFICES ASSUME Quiet(q, s), NEW k \in 1..Len(r) PROVE r[k] # Body("exitComplete")
      BY DEF Quiet
    <2>1. k + 1 \in 1..Len(q) /\ r[k] = q[k + 1]
      BY <1>1, <1>2
    <2>2. QED
      BY <2>1 DEF Quiet
  <1>8. q[1] = Body("exitComplete") => r = <<>> /\ s = "gone"
    BY <1>1, <1>3 DEF Piped
  <1>9. QED
    BY <1>1, <1>2, <1>5, <1>6, <1>7, <1>8

LEMMA LongTail == ASSUME NEW q \in Seq(Half), q # <<>>, Len(q) >= 2 PROVE Tail(q) # <<>>
  <1>1. Len(q) \in Nat /\ Len(Tail(q)) = Len(q) - 1
    BY HeadTailProperties, LenProperties
  <1>2. Len(Tail(q)) # 0
    BY <1>1
  <1>3. QED
    BY <1>2, EmptySeq

\* What a child writes next: a header after a body, a body after a header.
LEMMA PipedAppend ==
    ASSUME NEW q \in Seq(Half), NEW s, Piped(q, s), s # "gone", NEW h \in Half, NEW t,
           IsHeader(h) <=> s \notin {"availableBody", "exitBody"},
           IsHeader(h) <=> t \in {"availableBody", "exitBody"},
           h = Body("exitComplete") => t = "gone"
    PROVE  /\ Append(q, h) \in Seq(Half) /\ Piped(Append(q, h), t)
           /\ Behind(q, s) => Behind(Append(q, h), t)
  <1> DEFINE r == Append(q, h)
  <1>1. /\ Len(q) \in Nat /\ r \in Seq(Half) /\ Len(r) = Len(q) + 1
        /\ \A j \in 1..Len(q) : r[j] = q[j]
        /\ r[Len(q) + 1] = h
    BY AppendProperties, LenProperties
  <1>2. q = <<>> <=> Len(q) = 0
    BY <1>1, EmptySeq
  <1>3. ASSUME NEW k \in 1..(Len(r) - 1) PROVE IsHeader(r[k]) <=> ~IsHeader(r[k + 1])
    <2>1. CASE k = Len(q)
      <3>1. q # <<>> /\ r[k] = q[Len(q)] /\ r[k + 1] = h
        BY <1>1, <1>2, <2>1
      <3>2. QED
        BY <3>1 DEF Piped
    <2>2. CASE k # Len(q)
      <3>1. k \in 1..(Len(q) - 1) /\ r[k] = q[k] /\ r[k + 1] = q[k + 1]
        BY <1>1, <2>2
      <3>2. QED
        BY <3>1 DEF Piped
    <2>3. QED
      BY <2>1, <2>2
  <1>4. ASSUME NEW k \in 1..Len(r), r[k] = Body("exitComplete") PROVE t = "gone" /\ k = Len(r)
    <2>1. k = Len(q) + 1
      <3>1. CASE k \in 1..Len(q)
        BY <1>1, <1>4, <3>1 DEF Piped
      <3>2. QED
        BY <1>1, <3>1
    <2>2. QED
      BY <1>1, <1>4, <2>1
  <1>5. r # <<>> /\ (IsHeader(r[Len(r)]) <=> t \in {"availableBody", "exitBody"})
    BY <1>1, EmptySeq
  <1>6. Behind(q, s) => Behind(r, t)
    <2> SUFFICES ASSUME Behind(q, s) PROVE ~IsHeader(r[1])
      BY <1>5 DEF Behind
    <2>1. CASE q = <<>>
      BY <1>1, <1>2, <2>1 DEF Behind
    <2>2. CASE q # <<>>
      BY <1>1, <1>2, <2>2 DEF Behind
    <2>3. QED
      BY <2>1, <2>2
  <1>7. QED
    BY <1>1, <1>3, <1>4, <1>5, <1>6 DEF Piped

\* A child that writes nothing and does not end.
Silent == ChildPcs \ {"availableBody", "exitBody", "gone"}

LEMMA PipedSilent ==
    ASSUME NEW q \in Seq(Half), NEW s \in Silent, NEW t \in Silent, Piped(q, s)
    PROVE  Piped(q, t) /\ (Behind(q, s) => Behind(q, t)) /\ ~Quiet(q, s)
  BY DEF Piped, Behind, Quiet, Silent, ChildPcs

-----------------------------------------------------------------------------
(* Steps that leave the pipes of the children alone.                       *)

LEMMA SlotsFinite == IsFiniteSet(Slots) /\ MaxChildren \in Nat
  BY BoundsAssumption, FS_Interval DEF Slots

\* The children heard of can only become more.
LEMMA EndsGrow ==
    ASSUME Ends, exited \in Nat, exited' = exited,
           \A i \in Slots : Quiet(c2p[i], cpc[i]) => Quiet(c2p[i], cpc[i])',
           pc' = "done" => childCount' <= exited
    PROVE  Ends'
  <1>1. IsFiniteSet(Heard) /\ IsFiniteSet(Heard')
    BY SlotsFinite, FS_Subset DEF Heard
  <1>2. Heard \subseteq Heard'
    BY DEF Heard
  <1>3. Cardinality(Heard) \in Nat /\ Cardinality(Heard') \in Nat
        /\ Cardinality(Heard) <= Cardinality(Heard')
    BY <1>1, <1>2, FS_Subset, FS_CardinalityType
  <1>4. QED
    BY <1>3 DEF Ends

LEMMA PipesKept ==
    ASSUME Places, Pipes, Ends, c2p' = c2p, exited' = exited,
           \A i \in Slots : cpc'[i] = cpc[i] \/ (cpc[i] \in Silent /\ cpc'[i] \in Silent),
           pc' = "hBody" => pc = "hBody" /\ idx' = idx,
           pc' = "done" => childCount' <= exited
    PROVE  Pipes' /\ Ends'
  <1>1. ASSUME NEW i \in Slots
        PROVE  /\ Piped(c2p[i], cpc[i])'
               /\ pc' = "hBody" /\ idx' = i => Behind(c2p[i], cpc[i])'
               /\ Quiet(c2p[i], cpc[i]) => Quiet(c2p[i], cpc[i])'
    <2>1. c2p[i] \in Seq(Half) /\ Piped(c2p[i], cpc[i])
          /\ (pc = "hBody" /\ idx = i => Behind(c2p[i], cpc[i]))
      BY DEF Places, Pipes, Half
    <2>2. CASE cpc'[i] = cpc[i]
      BY <2>1, <2>2
    <2>3. CASE cpc[i] \in Silent /\ cpc'[i] \in Silent
      BY <2>1, <2>3, PipedSilent
    <2>4. QED
      BY <2>2, <2>3
  <1>2. Pipes'
    BY <1>1 DEF Pipes
  <1>3. Ends'
    BY <1>1, EndsGrow DEF Places
  <1>4. QED
    BY <1>2, <1>3

\* The same with one pipe c2p[j] changed by a step that says nothing of children.
LEMMA PipesRead ==
    ASSUME Places, Pipes, Ends, NEW j \in Slots, NEW r,
           c2p' = [c2p EXCEPT ![j] = r], r \in Seq(Half), Piped(r, cpc[j]),
           Quiet(c2p[j], cpc[j]) => Quiet(r, cpc[j]),
           cpc' = cpc,
           pc' = "hBody" /\ idx' = j => Behind(r, cpc[j]),
           pc' = "hBody" /\ idx' # j => pc = "hBody" /\ idx' = idx
    PROVE  /\ Pipes'
           /\ c2p' \in [Slots -> Seq(Half)]
           /\ \A i \in Slots : Quiet(c2p[i], cpc[i]) => Quiet(c2p[i], cpc[i])'
  <1>1. c2p \in [Slots -> Seq(Half)]
    BY DEF Places, Half
  <1>2. c2p' \in [Slots -> Seq(Half)] /\ c2p'[j] = r
        /\ \A i \in Slots \ {j} : c2p'[i] = c2p[i]
    BY <1>1
  <1>3. ASSUME NEW i \in Slots
        PROVE  /\ Piped(c2p[i], cpc[i])'
               /\ pc' = "hBody" /\ idx' = i => Behind(c2p[i], cpc[i])'
               /\ Quiet(c2p[i], cpc[i]) => Quiet(c2p[i], cpc[i])'
    <2>1. Piped(c2p[i], cpc[i])
          /\ (pc = "hBody" /\ idx = i => Behind(c2p[i], cpc[i]))
      BY DEF Pipes
    <2>2. CASE i = j
      BY <1>2, <2>2
    <2>3. CASE i # j
      BY <1>2, <2>1, <2>3
    <2>4. QED
      BY <2>2, <2>3
  <1>4. QED
    BY <1>2, <1>3 DEF Pipes

-----------------------------------------------------------------------------
(* initChildren and rescanProcs.                                           *)

LEMMA ListsFinite ==
    /\ \A sc \in SUBSET Pids : IsFiniteSet(sc) /\ Cardinality(sc) \in Nat
    /\ Cardinality({}) = 0
    /\ \A sc \in SUBSET Pids : \A p \in sc :
          sc \ {p} \in SUBSET Pids /\ Cardinality(sc \ {p}) = Cardinality(sc) - 1
    /\ \A sc \in SUBSET Pids : Cardinality(sc) = 0 <=> sc = {}
  <1>1. \A sc \in SUBSET Pids : IsFiniteSet(sc) /\ Cardinality(sc) \in Nat
    BY PidsAssumption, FS_Subset, FS_CardinalityType
  <1>2. QED
    BY <1>1, FS_EmptySet, FS_RemoveElement

LEMMA Sums ==
    /\ \A c, p, a, b, i \in Nat :
          c + p + 1 <= a + i /\ i <= p /\ b >= a => c + 1 <= b /\ c + 1 + p <= b + i
    /\ \A c, n, p, a, i \in Nat :
          c + n <= a /\ c + n + p <= a + i =>
             /\ c + 1 <= a \/ n = 0
             /\ c + 1 + (n - 1) <= a /\ c + 1 + (n - 1) + p <= a + i
  OBVIOUS

LEMMA ScanStep == ASSUME Inv, Scan PROVE Inv'
  <1>1. pc = "scan" /\ scan = {} /\ UNCHANGED <<childCount, procCount, cpc, c2p, exited, grown, target>>
        /\ poolCap \in Nat /\ childCount \in Nat /\ procCount \in Nat /\ idx \in Nat \ {0}
    BY DEF Inv, Places, Scan, cfgVars, childVars, sigVars
  <1>2. Pipes' /\ Ends'
    <2>1. pc' \notin {"hBody", "done"}
      BY DEF Scan, Continue
    <2>2. QED
      BY <1>1, <2>1, PipesKept DEF Inv
  <1>3. CASE EndOfNames
    <2>1. pc' = "poll" /\ phase' = "rescan" /\ idx' = 1 /\ scan' = scan /\ poolCap' = poolCap
      BY <1>3 DEF Scan
    <2>2. Places'
      BY <1>1, <2>1 DEF Inv, Places, ParentPcs
    <2>3. Pool'
      BY <1>1, <2>1 DEF Inv, Pool, Walking
    <2>4. QED
      BY <1>2, <2>2, <2>3 DEF Inv
  <1>4. CASE ~EndOfNames
    <2>1. PICK found \in SUBSET Pids : Continue(found) /\ poolCap' = poolCap + Room(found)
      BY <1>4 DEF Scan, Listed
    <2>2. phase' = phase /\ idx <= procCount
      BY <1>1, <1>4 DEF Scan, EndOfNames
    <2>3. Cardinality(found) \in Nat /\ (found = {} => Cardinality(found) = 0)
          /\ (found # {} => Cardinality(found) >= 1)
      BY ListsFinite
    <2>4. poolCap' \in Nat /\ poolCap' >= poolCap
          /\ (phase = "init" /\ Cardinality(found) > 1 => poolCap' = poolCap + Cardinality(found))
      BY <1>1, <2>1, <2>3 DEF Room
    <2>5. Places'
      <3>1. scan' = found /\ pc' = (IF found = {} THEN "scan" ELSE "pick") /\ idx' \in Nat \ {0}
        BY <1>1, <2>1 DEF Continue
      <3>2. QED
        BY <1>1, <2>2, <2>4, <3>1 DEF Inv, Places, ParentPcs
    <2>6. Pool'
      <3> SUFFICES ASSUME ~grown
                   PROVE  /\ childCount <= poolCap'
                          /\ phase = "init" =>
                                /\ childCount + Cardinality(found) <= poolCap'
                                /\ childCount + Cardinality(found) + procCount
                                      + (IF found = {} THEN 1 ELSE 0) <= poolCap' + idx'
        BY <1>1, <2>1, <2>2 DEF Pool, Continue
      <3>1. childCount <= poolCap
            /\ (phase = "init" => childCount + procCount + 1 <= poolCap + idx)
        BY <1>1, ListsFinite DEF Inv, Pool, Walking
      <3>2. idx' = (IF found = {} THEN idx + 1 ELSE idx)
        BY <2>1 DEF Continue
      <3>3. CASE found = {}
        BY <1>1, <2>2, <2>3, <2>4, <3>1, <3>2, <3>3
      <3>4. CASE found # {} /\ Cardinality(found) = 1
        <4>1. idx' = idx /\ poolCap' >= poolCap /\ poolCap' \in Nat
          BY <2>4, <3>2, <3>4
        <4>2. phase = "init" => /\ childCount + procCount + 1 <= poolCap + idx
                                /\ idx <= procCount
          BY <2>2, <3>1
        <4>3. phase = "init" => childCount + 1 <= poolCap'
                                /\ childCount + 1 + procCount <= poolCap' + idx
          <5>1. {childCount, procCount, poolCap, poolCap', idx} \subseteq Nat
            BY <1>1, <4>1
          <5>2. QED
            BY <4>1, <4>2, <5>1, Sums
        <4>4. childCount <= poolCap' /\ childCount + 1 + procCount + 0 = childCount + 1 + procCount
          BY <1>1, <3>1, <4>1
        <4>5. QED
          BY <3>4, <4>1, <4>3, <4>4
      <3>5. CASE found # {} /\ Cardinality(found) > 1
        BY <1>1, <2>2, <2>3, <2>4, <3>1, <3>2, <3>5
      <3>6. QED
        BY <2>3, <3>3, <3>4, <3>5
    <2>7. QED
      BY <1>2, <2>5, <2>6 DEF Inv
  <1>5. QED
    BY <1>3, <1>4

LEMMA PickStep == ASSUME Inv, PickProcess PROVE Inv'
  <1>1. /\ pc = "pick"
        /\ UNCHANGED <<phase, procCount, cpc, c2p, exited, grown>>
        /\ poolCap \in Nat /\ childCount \in 0..MaxChildren /\ procCount \in Nat /\ idx \in Nat \ {0}
    BY DEF Inv, Places, PickProcess, cfgVars, childVars, sigVars
  <1>2. PICK p \in scan :
          \/ /\ phase = "rescan" /\ Continue(scan \ {p})
             /\ UNCHANGED <<childCount, poolCap, target>>
          \/ scan' = scan \ {p} /\ phase = "rescan" /\ IdleChild(p)
          \/ scan' = scan \ {p} /\ NewChild(p)
    BY DEF PickProcess
  <1>3. /\ scan \in SUBSET Pids /\ scan \ {p} \in SUBSET Pids
        /\ Cardinality(scan) \in Nat /\ Cardinality(scan \ {p}) = Cardinality(scan) - 1
    BY ListsFinite DEF Inv, Places
  <1>4. /\ phase \in {"init", "rescan"} /\ scan' = scan \ {p} /\ idx' \in Nat \ {0}
        /\ pc' \in {"scan", "pick", "fork", "writeHeader"}
        /\ pc' = "scan" => scan' = {}
    BY <1>1, <1>2 DEF Continue, IdleChild, NewChild, Inv, Places
  <1>5. \/ childCount' = childCount /\ poolCap' = poolCap /\ pc' # "fork" /\ phase = "rescan"
        \/ /\ childCount' = childCount + 1 /\ pc' = "fork" /\ target' = childCount'
           /\ childCount' \in 0..MaxChildren /\ idx' = idx
           /\ poolCap' = (IF phase = "init" THEN poolCap ELSE childCount + 1)
    BY <1>1, <1>2, SlotsFinite DEF Continue, IdleChild, NewChild, Slots
  <1>6. Pipes' /\ Ends'
    BY <1>1, <1>4, PipesKept DEF Inv
  <1>7. Places'
    <2>1. \A i \in Slots : i > childCount => cpc[i] = "none"
      BY DEF Inv, Places
    <2>2. \A i \in Slots : i > childCount' \/ (pc' = "fork" /\ i = childCount') => i > childCount
      BY <1>1, <1>5, SlotsFinite DEF Slots
    <2>3. childCount' \in 0..MaxChildren /\ poolCap' \in Nat
          /\ (pc' = "fork" => target' = childCount' /\ childCount' > 0)
      BY <1>1, <1>5, SlotsFinite
    <2>4. QED
      BY <1>1, <1>3, <1>4, <2>1, <2>2, <2>3 DEF Inv, Places, ParentPcs
  <1>8. Pool'
    <2>1. ~grown => /\ childCount <= poolCap
                    /\ phase = "init" => childCount + Cardinality(scan) <= poolCap
                          /\ childCount + Cardinality(scan) + procCount <= poolCap + idx
      BY <1>1, <1>3 DEF Inv, Pool, Walking
    <2>2. CASE childCount' = childCount /\ poolCap' = poolCap /\ phase = "rescan"
      BY <1>1, <2>1, <2>2 DEF Pool
    <2>3. CASE /\ childCount' = childCount + 1 /\ pc' = "fork" /\ idx' = idx
               /\ poolCap' = (IF phase = "init" THEN poolCap ELSE childCount + 1)
      <3>1. CASE phase = "init"
        <4>1. ~grown => childCount + 1 <= poolCap
          <5>1. p \in scan /\ Cardinality(scan) # 0
            BY <1>3, ListsFinite
          <5>2. QED
            BY <1>1, <1>3, <2>1, <3>1, <5>1, Sums
        <4>2. ~grown => /\ childCount' + Cardinality(scan') <= poolCap
                        /\ childCount' + Cardinality(scan') + procCount <= poolCap + idx
          BY <1>1, <1>3, <1>4, <2>1, <2>3, <3>1, Sums
        <4>3. childCount' + Cardinality(scan') + procCount + 0
                = childCount' + Cardinality(scan') + procCount
          BY <1>1, <1>3, <1>4, <2>3
        <4>4. QED
          BY <1>1, <2>3, <3>1, <4>1, <4>2, <4>3 DEF Pool
      <3>2. CASE phase # "init"
        BY <1>1, <2>3, <3>2 DEF Pool
      <3>3. QED
        BY <3>1, <3>2
    <2>4. QED
      BY <1>5, <2>2, <2>3
  <1>9. QED
    BY <1>6, <1>7, <1>8 DEF Inv

\* The end of a round of the loops, at fork or at the last write.
LEMMA RoundOver ==
    ASSUME Places, Pool, pc \in {"fork", "writeBody"}, Continue(scan), Places',
           UNCHANGED <<phase, procCount, childCount, poolCap, grown>>
    PROVE  Pool'
  <1>1. /\ Cardinality(scan) \in Nat /\ (scan = {} => Cardinality(scan) = 0)
        /\ poolCap \in Nat /\ childCount \in Nat /\ procCount \in Nat /\ idx \in Nat \ {0}
    <2>1. scan \in SUBSET Pids
      BY DEF Places
    <2>2. Cardinality(scan) \in Nat /\ (scan = {} => Cardinality(scan) = 0)
      BY <2>1, ListsFinite
    <2>3. QED
      BY <2>2 DEF Places
  <1>2. ~grown =>
           /\ childCount <= poolCap
           /\ phase = "init" => childCount + Cardinality(scan) <= poolCap
                 /\ childCount + Cardinality(scan) + procCount <= poolCap + idx
    <2>1. CASE pc = "fork"
      BY <1>1, <2>1 DEF Pool, Walking
    <2>2. CASE pc = "writeBody"
      BY <1>1, <2>2 DEF Pool, Walking
    <2>3. QED
      BY <2>1, <2>2
  <1>3. CASE scan = {}
    <2>1. pc' = "scan" /\ idx' = idx + 1 /\ scan' = {} /\ Cardinality(scan) = 0
      BY <1>1, <1>3 DEF Continue
    <2>2. QED
      BY <1>1, <1>2, <1>3, <2>1 DEF Pool
  <1>4. CASE scan # {}
    <2>1. pc' = "pick" /\ idx' = idx /\ scan' = scan
      BY <1>4 DEF Continue
    <2>2. QED
      BY <1>1, <1>2, <2>1 DEF Pool
  <1>5. QED
    BY <1>3, <1>4

LEMMA ForkStep == ASSUME Inv, Fork PROVE Inv'
  <1>1. /\ pc = "fork" /\ UNCHANGED <<phase, procCount, childCount, poolCap, c2p, exited, grown>>
        /\ target = childCount /\ childCount > 0 /\ childCount \in 0..MaxChildren
        /\ cpc \in [Slots -> ChildPcs] /\ childCount \in Slots /\ cpc[childCount] = "none"
    BY SlotsFinite DEF Inv, Places, Fork, cfgVars, sigVars, Slots
  <1>2. CASE cpc' = [cpc EXCEPT ![target] = "forked"] /\ pc' = "writeHeader"
             /\ UNCHANGED <<idx, scan, cur, target>>
    <2>1. Pipes' /\ Ends'
      <3>1. \A i \in Slots : cpc'[i] = cpc[i] \/ (cpc[i] \in Silent /\ cpc'[i] \in Silent)
        BY <1>1, <1>2 DEF Silent, ChildPcs
      <3>2. QED
        BY <1>1, <1>2, <3>1, PipesKept DEF Inv
    <2>2. Places'
      <3>1. cpc' \in [Slots -> ChildPcs]
            /\ \A i \in Slots : i > childCount => cpc'[i] = "none"
        BY <1>1, <1>2 DEF Inv, Places, ChildPcs, Slots
      <3>2. QED
        BY <1>1, <1>2, <3>1 DEF Inv, Places, ParentPcs
    <2>3. Pool'
      BY <1>1, <1>2 DEF Inv, Pool, Walking
    <2>4. QED
      BY <2>1, <2>2, <2>3 DEF Inv
  <1>3. CASE Continue(scan) /\ UNCHANGED cpc
    <2>1. pc' \in {"scan", "pick"} /\ scan' = scan /\ idx' \in Nat \ {0} /\ (pc' = "scan" => scan' = {})
      BY <1>3 DEF Continue, Inv, Places
    <2>2. Pipes' /\ Ends'
      BY <1>1, <1>3, <2>1, PipesKept DEF Inv
    <2>3. Places'
      BY <1>1, <1>3, <2>1 DEF Inv, Places, ParentPcs
    <2>4. Pool'
      BY <1>1, <1>3, <2>3, RoundOver DEF Inv
    <2>5. QED
      BY <2>2, <2>3, <2>4 DEF Inv
  <1>4. QED
    BY <1>2, <1>3 DEF Fork

LEMMA WriteStep == ASSUME Inv, WriteHeader \/ WriteBody PROVE Inv'
  <1>1. /\ pc \in {"writeHeader", "writeBody"}
        /\ UNCHANGED <<phase, procCount, childCount, poolCap, cpc, c2p, exited, grown>>
        /\ pc' \in {"writeBody", "scan", "pick"} /\ scan' = scan /\ idx' \in Nat \ {0}
        /\ pc' = "scan" => scan' = {}
    BY DEF Inv, Places, WriteHeader, WriteBody, Continue, posVars, cfgVars, countVars,
           childVars, sigVars
  <1>2. Pipes' /\ Ends'
    BY <1>1, PipesKept DEF Inv
  <1>3. Places'
    BY <1>1 DEF Inv, Places, ParentPcs
  <1>4. Pool'
    <2>1. CASE WriteHeader
      BY <1>1, <2>1 DEF WriteHeader, posVars, Inv, Pool, Walking
    <2>2. CASE WriteBody
      BY <1>1, <1>3, <2>2, RoundOver DEF WriteBody, Inv
    <2>3. QED
      BY <2>1, <2>2
  <1>5. QED
    BY <1>2, <1>3, <1>4 DEF Inv

-----------------------------------------------------------------------------
(* parentLoop and the handlers.                                            *)

\* A misread header leaves the program dead, or the pipe empty.
LEMMA MisreadStep ==
    ASSUME Places, Pipes, Ends, NEW j \in Slots, NEW next, Misread(j, next),
           next # "hBody", next # "done", cpc' = cpc, exited' = exited
    PROVE  /\ Pipes' /\ Ends' /\ c2p' \in [Slots -> Seq(Half)]
           /\ pc' \in {"dead", next}
  <1>1. c2p \in [Slots -> Seq(Half)] /\ exited \in Nat
    BY DEF Places, Half
  <1>2. CASE pc' = "dead" /\ c2p' = c2p
    BY <1>1, <1>2, PipesKept
  <1>3. CASE pc' = next /\ c2p' = [c2p EXCEPT ![j] = <<>>]
    <2>1. <<>> \in Seq(Half) /\ Piped(<<>>, cpc[j]) /\ (Quiet(c2p[j], cpc[j]) => Quiet(<<>>, cpc[j]))
      BY PipedEmpty, EmptySeq DEF Quiet
    <2>2. /\ Pipes' /\ c2p' \in [Slots -> Seq(Half)]
          /\ \A i \in Slots : Quiet(c2p[i], cpc[i]) => Quiet(c2p[i], cpc[i])'
      BY <1>3, <2>1, PipesRead
    <2>3. Ends'
      BY <1>1, <1>3, <2>2, EndsGrow
    <2>4. QED
      BY <1>3, <2>2, <2>3
  <1>4. QED
    BY <1>2, <1>3 DEF Misread

\* Reading the first half of a message out of the pipe of j.
LEMMA ReadStep ==
    ASSUME Places, Pipes, Ends, NEW j \in Slots, c2p[j] # <<>>,
           c2p' = [c2p EXCEPT ![j] = Tail(@)], cpc' = cpc, exited' = exited,
           pc' = "hBody" => idx' = j /\ IsHeader(Head(c2p[j])),
           pc' # "done"
    PROVE  Pipes' /\ Ends' /\ c2p' \in [Slots -> Seq(Half)]
  <1>1. c2p \in [Slots -> Seq(Half)] /\ exited \in Nat /\ Piped(c2p[j], cpc[j])
    BY DEF Places, Half, Pipes
  <1>2. c2p[j] \in Seq(Half) /\ c2p' = [c2p EXCEPT ![j] = Tail(c2p[j])]
    BY <1>1
  <1>3. /\ Tail(c2p[j]) \in Seq(Half) /\ Piped(Tail(c2p[j]), cpc[j])
        /\ IsHeader(Head(c2p[j])) => Behind(Tail(c2p[j]), cpc[j])
        /\ Quiet(c2p[j], cpc[j]) => Quiet(Tail(c2p[j]), cpc[j])
    BY <1>1, <1>2, PipedTail
  <1>4. /\ Pipes' /\ c2p' \in [Slots -> Seq(Half)]
        /\ \A i \in Slots : Quiet(c2p[i], cpc[i]) => Quiet(c2p[i], cpc[i])'
    BY <1>2, <1>3, PipesRead
  <1>5. QED
    BY <1>1, <1>4, EndsGrow

\* What the steps that neither walk the names nor touch the children's places keep.
LEMMA PlacesPool ==
    ASSUME Places, Pool,
           UNCHANGED <<phase, scan, procCount, childCount, poolCap, grown, cpc, target>>,
           c2p' \in [Slots -> Seq(Half)], idx' \in Nat \ {0}, exited' \in Nat,
           pc' \in {"poll", "body", "handle", "hSend", "hWait", "hBody", "done", "dead"},
           pc' \in {"poll", "body", "handle"} => phase = "rescan" /\ scan = {},
           pc' \in {"body", "handle", "hBody"} => idx' \in 1..childCount
    PROVE  Places' /\ Pool'
  <1>1. Places'
    BY DEF Places, Half, ParentPcs, HandlerPcs
  <1>2. Pool'
    BY DEF Pool, Walking
  <1>3. QED
    BY <1>1, <1>2

LEMMA ReadHeaderStep == ASSUME Inv, ReadHeader PROVE Inv'
  <1>1. /\ pc \in {"poll", "header"} /\ phase = "rescan" /\ scan = {} /\ idx \in Nat \ {0}
        /\ childCount \in 0..MaxChildren /\ exited \in Nat /\ c2p \in [Slots -> Seq(Half)]
        /\ UNCHANGED <<phase, scan, procCount, childCount, poolCap, grown, cpc, target, exited>>
    BY DEF Inv, Places, Half, ReadHeader, cfgVars, countVars, childVars, sigVars
  <1>2. CASE pc' = "scan" /\ idx' = 1 /\ UNCHANGED c2p
    <2>1. Pipes' /\ Ends'
      BY <1>1, <1>2, PipesKept DEF Inv
    <2>2. Places' /\ Pool'
      BY <1>1, <1>2 DEF Inv, Places, ParentPcs, Pool, Walking
    <2>3. QED
      BY <2>1, <2>2 DEF Inv
  <1>3. CASE pc = "poll" /\ pc' = pc /\ idx' = idx + 1 /\ UNCHANGED c2p
    <2>1. Pipes' /\ Ends'
      BY <1>1, <1>3, PipesKept DEF Inv
    <2>2. Places' /\ Pool'
      BY <1>1, <1>3, PlacesPool DEF Inv
    <2>3. QED
      BY <2>1, <2>2 DEF Inv
  <1>4. CASE idx <= childCount /\ c2p[idx] # <<>>
             /\ pc' = "body" /\ c2p' = [c2p EXCEPT ![idx] = Tail(@)] /\ UNCHANGED idx
    <2>1. idx \in Slots /\ idx \in 1..childCount
      BY <1>1, <1>4, SlotsFinite DEF Slots
    <2>2. Pipes' /\ Ends' /\ c2p' \in [Slots -> Seq(Half)]
      BY <1>1, <1>4, <2>1, ReadStep DEF Inv
    <2>3. Places' /\ Pool'
      BY <1>1, <1>4, <2>1, <2>2, PlacesPool DEF Inv
    <2>4. QED
      BY <2>2, <2>3 DEF Inv
  <1>5. CASE Misread(idx, "poll") /\ idx' = idx + 1 /\ idx <= childCount
    <2>1. idx \in Slots
      BY <1>1, <1>5, SlotsFinite DEF Slots
    <2>2. /\ Pipes' /\ Ends' /\ c2p' \in [Slots -> Seq(Half)]
          /\ pc' \in {"dead", "poll"}
      BY <1>1, <1>5, <2>1, MisreadStep DEF Inv
    <2>3. Places' /\ Pool'
      BY <1>1, <1>5, <2>2, PlacesPool DEF Inv
    <2>4. QED
      BY <2>2, <2>3 DEF Inv
  <1>6. QED
    BY <1>2, <1>3, <1>4, <1>5 DEF ReadHeader

LEMMA ReadBodyStep == ASSUME Inv, ReadBody PROVE Inv'
  <1>1. /\ pc = "body" /\ phase = "rescan" /\ scan = {} /\ idx \in Nat \ {0} /\ exited \in Nat
        /\ c2p[idx] # <<>> /\ c2p' = [c2p EXCEPT ![idx] = Tail(@)] /\ pc' = "handle"
        /\ idx \in Slots /\ idx \in 1..childCount
        /\ UNCHANGED <<phase, scan, procCount, childCount, poolCap, grown, cpc, target, exited, idx>>
    BY SlotsFinite DEF Inv, Places, ReadBody, cfgVars, countVars, childVars, sigVars, Slots
  <1>2. Pipes' /\ Ends' /\ c2p' \in [Slots -> Seq(Half)]
    BY <1>1, ReadStep DEF Inv
  <1>3. Places' /\ Pool'
    BY <1>1, <1>2, PlacesPool DEF Inv
  <1>4. QED
    BY <1>2, <1>3 DEF Inv

\* HandleMessage, SendExit, WaitOnJunk and Finish touch no pipe of a child's.
LEMMA StayStep ==
    ASSUME Inv, HandleMessage \/ SendExit \/ WaitOnJunk \/ Finish
    PROVE  Inv'
  <1>1. /\ c2p \in [Slots -> Seq(Half)] /\ idx \in Nat \ {0} /\ exited \in Nat
        /\ childCount \in Nat
        /\ UNCHANGED <<phase, scan, procCount, childCount, poolCap, grown, cpc, c2p, target, exited>>
        /\ \/ pc = "handle" /\ pc' = "poll" /\ idx' = idx + 1
           \/ pc' \in {"hWait", "dead", "done"} /\ idx' = idx
        /\ pc = "handle" => phase = "rescan" /\ scan = {}
    BY DEF Inv, Places, Half, HandleMessage, SendExit, WaitOnJunk, Finish,
           cfgVars, countVars, childVars, sigVars, posVars
  <1>2. pc' = "done" => childCount' <= exited
    BY <1>1 DEF HandleMessage, SendExit, WaitOnJunk, Finish, AllExited
  <1>3. Pipes' /\ Ends'
    BY <1>1, <1>2, PipesKept DEF Inv
  <1>4. Places' /\ Pool'
    BY <1>1, PlacesPool DEF Inv
  <1>5. QED
    BY <1>3, <1>4 DEF Inv

LEMMA WaitHeaderStep == ASSUME Inv, WaitHeader PROVE Inv'
  <1>1. PICK i \in 1..childCount :
          /\ pc \in {"hWait", "hHeader"}
          /\ c2p[i] # <<>>
          /\ idx' = i
          /\ IF IsHeader(Head(c2p[i]))
               THEN pc' = "hBody" /\ c2p' = [c2p EXCEPT ![i] = Tail(@)]
               ELSE Misread(i, "hWait")
    BY DEF WaitHeader
  <1>2. /\ i \in Slots /\ exited \in Nat /\ idx' \in Nat \ {0}
        /\ UNCHANGED <<phase, scan, procCount, childCount, poolCap, grown, cpc, target, exited>>
    BY <1>1, SlotsFinite
       DEF Inv, Places, WaitHeader, cfgVars, countVars, childVars, sigVars, Slots
  <1>3. CASE IsHeader(Head(c2p[i]))
    <2>1. Pipes' /\ Ends' /\ c2p' \in [Slots -> Seq(Half)]
      BY <1>1, <1>2, <1>3, ReadStep DEF Inv
    <2>2. Places' /\ Pool'
      BY <1>1, <1>2, <1>3, <2>1, PlacesPool DEF Inv
    <2>3. QED
      BY <2>1, <2>2 DEF Inv
  <1>4. CASE Misread(i, "hWait")
    <2>1. Pipes' /\ Ends' /\ c2p' \in [Slots -> Seq(Half)] /\ pc' \in {"dead", "hWait"}
      BY <1>2, <1>4, MisreadStep DEF Inv
    <2>2. Places' /\ Pool'
      BY <1>1, <1>2, <2>1, PlacesPool DEF Inv
    <2>3. QED
      BY <2>1, <2>2 DEF Inv
  <1>5. QED
    BY <1>1, <1>3, <1>4

\* A child more has exited when its last body has left its pipe.
LEMMA WaitBodyStep == ASSUME Inv, WaitBody PROVE Inv'
  <1> DEFINE q == c2p[idx]
             last == q[1] = Body("exitComplete")
  <1>1. /\ pc = "hBody" /\ pc' = "hWait" /\ idx \in Nat \ {0} /\ idx \in Slots /\ exited \in Nat
        /\ q # <<>> /\ c2p \in [Slots -> Seq(Half)]
        /\ c2p' = [c2p EXCEPT ![idx] = Tail(@)]
        /\ exited' = exited + (IF Head(q)[2] = "exitComplete" THEN 1 ELSE 0)
        /\ UNCHANGED <<phase, scan, procCount, childCount, poolCap, grown, cpc, target, idx>>
    BY SlotsFinite DEF Inv, Places, WaitBody, cfgVars, childVars, sigVars, posVars, Slots, Half
  <1>2. q \in Seq(Half) /\ Piped(q, cpc[idx]) /\ ~IsHeader(q[1])
    BY <1>1 DEF Inv, Pipes, Behind
  <1>3. /\ Tail(q) \in Seq(Half) /\ Piped(Tail(q), cpc[idx])
        /\ Head(q) = q[1] /\ q[1] \in Half
        /\ Quiet(q, cpc[idx]) => Quiet(Tail(q), cpc[idx])
        /\ last => Tail(q) = <<>> /\ cpc[idx] = "gone"
    BY <1>1, <1>2, PipedTail
  <1>4. /\ Pipes' /\ c2p' \in [Slots -> Seq(Half)]
        /\ \A i \in Slots : Quiet(c2p[i], cpc[i]) => Quiet(c2p[i], cpc[i])'
    BY <1>1, <1>3, PipesRead DEF Inv
  <1>5. exited' = exited + (IF last THEN 1 ELSE 0)
    <2>1. q[1] = Body(q[1][2])
      BY <1>2, <1>3, HalfFacts
    <2>2. last <=> q[1][2] = "exitComplete"
      BY <2>1 DEF Body
    <2>3. QED
      BY <1>1, <1>3, <2>2
  <1>6. last => idx \in Heard' /\ idx \notin Heard
    <2> SUFFICES ASSUME last PROVE idx \in Heard' /\ idx \notin Heard
      OBVIOUS
    <2>1. 1 \in 1..Len(q)
      BY <1>1, <1>2, EmptySeq, LenProperties
    <2>2. c2p'[idx] = <<>> /\ cpc'[idx] = "gone" /\ Len(<<>>) = 0
      BY <1>1, <1>3
    <2>3. ~Quiet(q, cpc[idx])
      BY <2>1 DEF Quiet
    <2>4. Quiet(c2p'[idx], cpc'[idx])
      BY <2>2 DEF Quiet
    <2>5. QED
      BY <1>1, <2>3, <2>4 DEF Heard
  <1>7. Ends'
    <2>1. IsFiniteSet(Heard) /\ IsFiniteSet(Heard')
      BY SlotsFinite, FS_Subset DEF Heard
    <2>2. Heard \subseteq Heard'
      BY <1>4 DEF Heard
    <2>3. Cardinality(Heard) \in Nat /\ Cardinality(Heard') \in Nat
          /\ Cardinality(Heard) <= Cardinality(Heard')
          /\ (Heard # Heard' => Cardinality(Heard) < Cardinality(Heard'))
      BY <2>1, <2>2, FS_Subset, FS_CardinalityType
    <2>4. last => Heard # Heard'
      BY <1>6
    <2>5. exited' <= Cardinality(Heard')
      BY <1>1, <1>5, <2>3, <2>4 DEF Inv, Ends
    <2>6. QED
      BY <1>1, <2>5 DEF Ends
  <1>8. exited' \in Nat
    BY <1>1
  <1>9. Places' /\ Pool'
    BY <1>1, <1>4, <1>8, PlacesPool DEF Inv
  <1>10. QED
    BY <1>4, <1>7, <1>9 DEF Inv

-----------------------------------------------------------------------------
(* The signals.                                                            *)

\* Where the calls a SIGHUP interrupts leave the parent.
LEMMA InterruptedMoves ==
    ASSUME Places, Interrupted
    PROVE  \/ pc = "scan" /\ cut' = TRUE /\ UNCHANGED <<pc, idx, cutReads>>
           \/ /\ pc = "poll" /\ pc' = "header" /\ idx \in 1..childCount
              /\ UNCHANGED <<cut, idx, cutReads>>
           \/ /\ pc = "hWait" /\ pc' = "hHeader" /\ idx' \in 1..childCount
              /\ UNCHANGED <<cut, cutReads>>
           \/ pc' = "dead" /\ UNCHANGED <<cut, idx, cutReads>>
           \/ /\ pc \in {"body", "hBody"} /\ cutReads' = cutReads + 1
              /\ pc' = (IF pc = "body" THEN "poll" ELSE "hWait")
              /\ idx' = idx + 1 /\ idx \in 1..childCount
              /\ UNCHANGED cut
  <1>1. idx \in Nat \ {0} /\ childCount \in 0..MaxChildren /\ MaxChildren \in Nat
        /\ (pc \in {"body", "hBody"} => idx \in 1..childCount)
    BY SlotsFinite DEF Places
  <1>2. idx <= childCount => idx \in 1..childCount
    BY <1>1
  <1>3. QED
    BY <1>1, <1>2, Zenon DEF Interrupted

LEMMA SighupStep == ASSUME Inv, Sighup PROVE Inv'
  <1>1. /\ c2p \in [Slots -> Seq(Half)] /\ idx \in Nat \ {0} /\ exited \in Nat
        /\ procCount \in Nat /\ childCount \in 0..MaxChildren
        /\ UNCHANGED <<phase, scan, childCount, poolCap, cpc, c2p, target, exited>>
        /\ pc \in ParentPcs \cup HandlerPcs
    BY DEF Inv, Places, Half, Sighup, countVars, childVars, Running
  <1>2. PICK f \in Files :
          \/ pc' = "dead" /\ UNCHANGED <<procCount, idx, grown>>
          \/ /\ procCount' = Cardinality(Kept(f))
             /\ grown' = (grown \/ (phase = "init" /\ procCount' > procCount))
             /\ Interrupted \/ UNCHANGED <<pc, idx>>
    BY Zenon DEF Sighup, cfgVars
  <1>3. procCount' \in Nat
    <2>1. f \in Seq(Names \cup {Self})
      BY FilesAssumption
    <2>2. Kept(f) \subseteq 1..Len(f) /\ Len(f) \in Nat
      BY <2>1, LenProperties DEF Kept
    <2>3. IsFiniteSet(1..Len(f))
      BY <2>2, FS_Interval
    <2>4. Cardinality(Kept(f)) \in Nat
      BY <2>2, <2>3, FS_Subset, FS_CardinalityType
    <2>5. QED
      BY <1>1, <1>2, <2>4
  <1>4. /\ \/ UNCHANGED <<pc, idx>>
           \/ pc = "poll" /\ pc' = "header" /\ idx' = idx /\ idx \in 1..childCount
           \/ pc = "hWait" /\ pc' = "hHeader" /\ idx' \in 1..childCount
           \/ pc' = "dead" /\ idx' = idx
           \/ pc = "body" /\ pc' = "poll" /\ idx' = idx + 1
           \/ pc = "hBody" /\ pc' = "hWait" /\ idx' = idx + 1
        /\ grown => grown'
    <2>1. grown => grown'
      BY <1>2, Zenon
    <2>2. (pc' = "dead" /\ idx' = idx) \/ Interrupted \/ UNCHANGED <<pc, idx>>
      BY <1>2, Zenon
    <2>3. QED
      BY <2>1, <2>2, InterruptedMoves DEF Inv
  <1>10. idx' \in Nat \ {0} /\ pc' # "done" /\ (pc' = pc => idx' = idx)
         /\ (pc' = "hBody" => pc = "hBody")
    BY <1>1, <1>4 DEF ParentPcs, HandlerPcs
  <1>5. Pipes' /\ Ends'
    BY <1>1, <1>10, PipesKept DEF Inv
  <1>6. Places'
    BY <1>1, <1>3, <1>4, <1>10 DEF Inv, Places, ParentPcs, HandlerPcs
  <1>7. Pool'
    <2>1. CASE pc' # pc
      BY <1>1, <1>4, <2>1 DEF Inv, Pool, Walking
    <2>2. CASE pc' = pc
      <3> SUFFICES ASSUME ~grown', pc' = pc PROVE Pool'
        BY <2>2 DEF Pool
      <3>1. pc' # "dead" /\ ~grown
        BY <1>1, <1>4, <1>10 DEF ParentPcs, HandlerPcs
      <3>2. phase = "init" => procCount' <= procCount
        <4>1. ~(phase = "init" /\ procCount' > procCount)
          BY <1>2, <3>1
        <4>2. QED
          BY <1>1, <1>3, <4>1
      <3>3. Cardinality(scan) \in Nat /\ poolCap \in Nat
        BY ListsFinite DEF Inv, Places
      <3>4. idx' = idx /\ UNCHANGED <<phase, scan, childCount, poolCap>>
        BY <1>1, <1>10
      <3>5. QED
        BY <1>1, <1>3, <3>1, <3>2, <3>3, <3>4 DEF Inv, Pool, Walking
    <2>3. QED
      BY <2>1, <2>2
  <1>8. QED
    BY <1>5, <1>6, <1>7 DEF Inv

LEMMA SigintStep == ASSUME Inv, Sigint PROVE Inv'
  <1>1. /\ pc' = "hSend" /\ idx' = 1 /\ scan' = {}
        /\ cpc' = [i \in Slots |-> IF ToGroup /\ cpc[i] = "forked" THEN "handler" ELSE cpc[i]]
        /\ UNCHANGED <<phase, procCount, childCount, poolCap, c2p, exited, grown>>
        /\ cpc \in [Slots -> ChildPcs]
    BY DEF Inv, Places, Sigint, cfgVars, countVars
  <1>2. Pipes' /\ Ends'
    <2>1. \A i \in Slots : cpc'[i] = cpc[i] \/ (cpc[i] \in Silent /\ cpc'[i] \in Silent)
      BY <1>1 DEF Silent, ChildPcs
    <2>2. QED
      BY <1>1, <2>1, PipesKept DEF Inv
  <1>3. Places'
    <2>1. cpc' \in [Slots -> ChildPcs]
          /\ \A i \in Slots : cpc[i] = "none" => cpc'[i] = "none"
      BY <1>1 DEF ChildPcs
    <2>2. QED
      BY <1>1, <2>1 DEF Inv, Places, HandlerPcs
  <1>4. Pool'
    BY <1>1 DEF Inv, Pool, Walking
  <1>5. QED
    BY <1>2, <1>3, <1>4 DEF Inv

-----------------------------------------------------------------------------
(* The children.                                                           *)

\* What a step of a child leaves of Places and Pool.
LEMMA ChildPlaces ==
    ASSUME Places, Pool, UNCHANGED parentOnly, NEW i \in Slots, cpc[i] # "none",
           NEW s \in ChildPcs, cpc' = [cpc EXCEPT ![i] = s], c2p' \in [Slots -> Seq(Half)]
    PROVE  Places' /\ Pool' /\ UNCHANGED <<pc, idx, exited, childCount>>
  <1>1. UNCHANGED <<pc, phase, idx, scan, procCount, childCount, poolCap, exited, target, grown>>
    BY DEF parentOnly, posVars, cfgVars, countVars, sigVars
  <1>2. /\ cpc' \in [Slots -> ChildPcs]
        /\ \A k \in Slots : cpc[k] = "none" => cpc'[k] = "none"
    BY DEF Places
  <1>3. Places'
    BY <1>1, <1>2 DEF Places, Half
  <1>4. Pool'
    BY <1>1 DEF Pool, Walking
  <1>5. QED
    BY <1>1, <1>3, <1>4

\* A child that writes nothing to its parent.
LEMMA SilentStep ==
    ASSUME Inv, NEW i \in Slots, IgnoreSignals(i) \/ ChildRead(i) \/ MonitorProcess(i)
    PROVE  Inv'
  <1>1. PICK s \in Silent : cpc' = [cpc EXCEPT ![i] = s]
    BY Zenon DEF IgnoreSignals, ChildRead, MonitorProcess, Silent, ChildPcs, Exit
  <1>2. /\ cpc[i] \in {"forked", "read", "sleep"}
        /\ UNCHANGED parentOnly /\ UNCHANGED c2p
    BY DEF IgnoreSignals, ChildRead, MonitorProcess
  <1>3. Places' /\ Pool' /\ UNCHANGED <<pc, idx, exited, childCount>>
    BY <1>1, <1>2, ChildPlaces DEF Inv, Silent, Places, Half
  <1>4. \A k \in Slots : cpc'[k] = cpc[k] \/ (cpc[k] \in Silent /\ cpc'[k] \in Silent)
    BY <1>1, <1>2 DEF Inv, Places, Silent, ChildPcs
  <1>5. Pipes' /\ Ends'
    BY <1>2, <1>3, <1>4, PipesKept DEF Inv, Ends
  <1>6. QED
    BY <1>3, <1>5 DEF Inv

\* What a child at s writes, and where it goes.
LEMMA WriteFacts ==
    ASSUME NEW i \in Slots, cpc \in [Slots -> ChildPcs], cpc[i] \in DOMAIN AfterWrite
    PROVE  LET s == cpc[i]
               t == AfterWrite[s]
               h == WrittenHalf(i)
           IN  /\ s # "none" /\ s # "gone" /\ h \in Half /\ t \in ChildPcs
               /\ IsHeader(h) <=> s \notin {"availableBody", "exitBody"}
               /\ IsHeader(h) <=> t \in {"availableBody", "exitBody"}
               /\ h = Body("exitComplete") => t = "gone"
  <1>1. cpc[i] \in {"availableHeader", "availableBody", "exitHeader", "exitBody"}
    BY DEF AfterWrite
  <1>2. Available(msgVal[i]) \in Answers /\ Available(msgVal[i]) # "exitComplete"
        /\ "exitComplete" \in Answers
    BY DEF Available, Answers
  <1>3. CASE cpc[i] = "availableHeader"
    <2>1. WrittenHalf(i) = Header(Available(msgVal[i])) /\ AfterWrite[cpc[i]] = "availableBody"
      BY <1>3 DEF WrittenHalf, AfterWrite
    <2>2. QED
      BY <1>2, <1>3, <2>1, HalfFacts DEF ChildPcs, IsHeader, Header, Body
  <1>4. CASE cpc[i] = "availableBody"
    <2>1. WrittenHalf(i) = Body(Available(msgVal[i])) /\ AfterWrite[cpc[i]] = "read"
      BY <1>4 DEF WrittenHalf, AfterWrite
    <2>2. Body(Available(msgVal[i])) # Body("exitComplete")
      BY <1>2 DEF Body
    <2>3. QED
      BY <1>2, <1>4, <2>1, <2>2, HalfFacts DEF ChildPcs
  <1>5. CASE cpc[i] = "exitHeader"
    <2>1. WrittenHalf(i) = Header("exitComplete") /\ AfterWrite[cpc[i]] = "exitBody"
      BY <1>5 DEF WrittenHalf, AfterWrite
    <2>2. QED
      BY <1>2, <1>5, <2>1, HalfFacts DEF ChildPcs, IsHeader, Header, Body
  <1>6. CASE cpc[i] = "exitBody"
    <2>1. WrittenHalf(i) = Body("exitComplete") /\ AfterWrite[cpc[i]] = "gone"
      BY <1>6 DEF WrittenHalf, AfterWrite
    <2>2. QED
      BY <1>2, <1>6, <2>1, HalfFacts DEF ChildPcs
  <1>7. QED
    BY <1>1, <1>3, <1>4, <1>5, <1>6

LEMMA ChildWriteStep == ASSUME Inv, NEW i \in Slots, ChildWrite(i) PROVE Inv'
  <1> DEFINE s == cpc[i]
             t == AfterWrite[s]
             h == WrittenHalf(i)
             r == Append(c2p[i], h)
  <1>1. /\ c2p \in [Slots -> Seq(Half)] /\ cpc \in [Slots -> ChildPcs] /\ exited \in Nat
        /\ s \in DOMAIN AfterWrite /\ UNCHANGED parentOnly
        /\ c2p' = [c2p EXCEPT ![i] = r] /\ cpc' = [cpc EXCEPT ![i] = t]
    BY DEF Inv, Places, Half, ChildWrite
  <1>2. /\ s # "none" /\ s # "gone" /\ h \in Half /\ t \in ChildPcs
        /\ IsHeader(h) <=> s \notin {"availableBody", "exitBody"}
        /\ IsHeader(h) <=> t \in {"availableBody", "exitBody"}
        /\ h = Body("exitComplete") => t = "gone"
    BY <1>1, WriteFacts
  <1>3. /\ c2p[i] \in Seq(Half) /\ Piped(c2p[i], s)
        /\ pc = "hBody" /\ idx = i => Behind(c2p[i], s)
    BY <1>1 DEF Inv, Pipes
  <1>4. r \in Seq(Half) /\ Piped(r, t) /\ (Behind(c2p[i], s) => Behind(r, t))
    BY <1>2, <1>3, PipedAppend
  <1>5. /\ c2p' \in [Slots -> Seq(Half)] /\ c2p'[i] = r /\ cpc'[i] = t
        /\ \A k \in Slots \ {i} : c2p'[k] = c2p[k] /\ cpc'[k] = cpc[k]
    BY <1>1, <1>4
  <1>6. Places' /\ Pool' /\ UNCHANGED <<pc, idx, exited, childCount>>
    BY <1>1, <1>2, <1>5, ChildPlaces DEF Inv
  <1>7. Pipes'
    <2> SUFFICES ASSUME NEW k \in Slots
                 PROVE  Piped(c2p'[k], cpc'[k])
                        /\ (pc = "hBody" /\ idx = k => Behind(c2p'[k], cpc'[k]))
      BY <1>6 DEF Pipes
    <2>1. CASE k = i
      BY <1>3, <1>4, <1>5, <2>1
    <2>2. CASE k # i
      BY <1>5, <2>2 DEF Inv, Pipes
    <2>3. QED
      BY <2>1, <2>2
  <1>8. Ends'
    <2>1. ASSUME NEW k \in Slots, Quiet(c2p[k], cpc[k]) PROVE Quiet(c2p'[k], cpc'[k])
      <3>1. k # i
        BY <1>2, <2>1 DEF Quiet
      <3>2. QED
        BY <1>5, <2>1, <3>1
    <2>2. QED
      BY <1>1, <1>6, <2>1, EndsGrow DEF Inv, Ends
  <1>9. QED
    BY <1>6, <1>7, <1>8 DEF Inv

\* A child in the handler it inherited takes whole messages from its brothers.
LEMMA ChildHandlerStep == ASSUME Inv, NEW i \in Slots, ChildHandler(i) PROVE Inv'
  <1>1. /\ c2p \in [Slots -> Seq(Half)] /\ cpc \in [Slots -> ChildPcs] /\ exited \in Nat
        /\ UNCHANGED parentOnly
    BY DEF Inv, Places, Half, ChildHandler
  <1>2. CASE cpc[i] = "handler" /\ cpc' = [cpc EXCEPT ![i] = "taking"] /\ UNCHANGED c2p
    <2>1. Places' /\ Pool' /\ UNCHANGED <<pc, idx, exited, childCount>>
      BY <1>1, <1>2, ChildPlaces DEF Inv, ChildPcs
    <2>2. \A k \in Slots : cpc'[k] = cpc[k] \/ (cpc[k] \in Silent /\ cpc'[k] \in Silent)
      BY <1>1, <1>2 DEF Silent, ChildPcs
    <2>3. Pipes' /\ Ends'
      BY <1>2, <2>1, <2>2, PipesKept DEF Inv, Ends
    <2>4. QED
      BY <2>1, <2>3 DEF Inv
  <1>3. ASSUME cpc[i] = "taking", UNCHANGED cpc, NEW j \in 1..i,
               Len(c2p[j]) >= 2, IsHeader(c2p[j][1]), c2p' = [c2p EXCEPT ![j] = Tail(Tail(c2p[j]))]
        PROVE  Inv'
    <2> DEFINE q == c2p[j]
               u == cpc[j]
    <2>1. j \in Slots /\ q \in Seq(Half) /\ q # <<>> /\ Piped(q, u)
          /\ (pc = "hBody" => idx # j)
      <3>1. j \in Slots
        BY <1>3, SlotsFinite DEF Slots
      <3>2. q \in Seq(Half)
        BY <1>1, <3>1
      <3>3. q # <<>>
        BY <1>3, <3>2, EmptySeq, LenProperties
      <3>4. QED
        BY <1>3, <3>1, <3>2, <3>3 DEF Inv, Pipes, Behind
    <2>2. Tail(q) \in Seq(Half) /\ Piped(Tail(q), u) /\ (Quiet(q, u) => Quiet(Tail(q), u))
      BY <2>1, PipedTail
    <2>3. Tail(q) # <<>>
      BY <1>3, <2>1, LongTail
    <2>4. Tail(Tail(q)) \in Seq(Half) /\ Piped(Tail(Tail(q)), u)
          /\ (Quiet(Tail(q), u) => Quiet(Tail(Tail(q)), u))
      BY <2>2, <2>3, PipedTail
    <2>5. c2p' = [c2p EXCEPT ![j] = Tail(Tail(q))]
      BY <1>1, <1>3, <2>1
    <2>6. UNCHANGED <<pc, idx>>
      BY <1>1 DEF parentOnly, posVars
    <2>7. /\ Pipes' /\ c2p' \in [Slots -> Seq(Half)]
          /\ \A k \in Slots : Quiet(c2p[k], cpc[k]) => Quiet(c2p[k], cpc[k])'
      BY <1>3, <2>1, <2>2, <2>4, <2>5, <2>6, PipesRead DEF Inv
    <2>8. Places' /\ Pool' /\ UNCHANGED <<pc, idx, exited, childCount>>
      <3>1. cpc' = [cpc EXCEPT ![i] = "taking"] /\ cpc[i] # "none"
        BY <1>1, <1>3
      <3>2. QED
        BY <1>1, <2>7, <3>1, ChildPlaces DEF Inv, ChildPcs
    <2>9. Ends'
      BY <1>1, <2>7, <2>8, EndsGrow DEF Inv, Ends
    <2>10. QED
      BY <2>7, <2>8, <2>9 DEF Inv
  <1>4. QED
    BY <1>2, <1>3 DEF ChildHandler

-----------------------------------------------------------------------------
LEMMA InitInv == Init => Inv
  <1> SUFFICES ASSUME Init PROVE Inv
    OBVIOUS
  <1>1. PICK f \in Files : procCount = Cardinality(Kept(f))
    BY DEF Init
  <1>2. procCount \in Nat
    <2>1. f \in Seq(Names \cup {Self})
      BY FilesAssumption
    <2>2. Kept(f) \subseteq 1..Len(f) /\ Len(f) \in Nat
      BY <2>1, LenProperties DEF Kept
    <2>3. IsFiniteSet(1..Len(f))
      BY <2>2, FS_Interval
    <2>4. QED
      BY <1>1, <2>2, <2>3, FS_Subset, FS_CardinalityType
  <1>3. \A i \in Slots : c2p[i] = <<>> /\ cpc[i] = "none"
    BY DEF Init
  <1>4. Places
    <2>1. c2p \in [Slots -> Seq(Half)]
      BY EmptySeq DEF Init
    <2>2. QED
      BY <1>2, <1>3, <2>1, SlotsFinite DEF Init, Places, Half, ParentPcs, ChildPcs
  <1>5. Pool
    BY <1>2, ListsFinite DEF Init, Pool
  <1>6. Pipes
    BY <1>3, PipedEmpty DEF Init, Pipes
  <1>7. Ends
    <2>1. Heard = {}
      BY <1>3 DEF Heard, Quiet
    <2>2. QED
      BY <2>1, ListsFinite DEF Init, Ends
  <1>8. QED
    BY <1>4, <1>5, <1>6, <1>7 DEF Inv

LEMMA NextInv == Inv /\ [Next]_vars => Inv'
  <1> SUFFICES ASSUME Inv, [Next]_vars PROVE Inv'
    OBVIOUS
  <1>1. CASE Parent
    BY <1>1, ScanStep, PickStep, ForkStep, WriteStep, ReadHeaderStep, ReadBodyStep,
       StayStep, WaitHeaderStep, WaitBodyStep DEF Parent
  <1>2. ASSUME NEW i \in Slots, Child(i) PROVE Inv'
    BY <1>2, SilentStep, ChildWriteStep, ChildHandlerStep DEF Child
  <1>3. CASE Sighup \/ Sigint
    BY <1>3, SighupStep, SigintStep
  <1>4. ASSUME UNCHANGED <<pc, posVars, cfgVars, countVars, c2p, cpc, sigVars>> PROVE Inv'
    <2>1. UNCHANGED <<pc, phase, idx, scan, procCount, childCount, poolCap, exited, target,
                      grown, cpc, c2p>>
      BY <1>4 DEF posVars, cfgVars, countVars, sigVars
    <2>2. Places' /\ Pool'
      BY <2>1 DEF Inv, Places, Pool, Walking
    <2>3. Pipes' /\ Ends'
      BY <2>1, PipesKept DEF Inv, Ends
    <2>4. QED
      BY <2>2, <2>3 DEF Inv
  <1>5. CASE Spawn \/ ProcessExit \/ UNCHANGED vars
    BY <1>4, <1>5 DEF Spawn, ProcessExit, vars, childVars
  <1>6. QED
    BY <1>1, <1>2, <1>3, <1>5 DEF Next

\* The inductive invariant holds in every reachable state.
THEOREM Invariant == Spec => []Inv
  BY InitInv, NextInv, PTL DEF Spec

\* initChildren writes no struct outside childPool, whatever the configuration
\* lists and wherever the signals fall, unless a SIGHUP made the list longer.
THEOREM PoolCorrect == Spec => []PoolInBounds
  <1>1. Inv => PoolInBounds
    BY DEF Inv, Pool, PoolInBounds
  <1>2. QED
    BY <1>1, Invariant, PTL

\* A child counted as exited is one that has been heard of.
LEMMA HeardCounted ==
    ASSUME Inv
    PROVE  /\ IsFiniteSet(Heard) /\ Cardinality(Heard) \in 0..childCount
           /\ Cardinality(Heard) = childCount => Heard = 1..childCount
           /\ exited \in 0..childCount
  <1>1. childCount \in Nat /\ exited \in Nat /\ childCount \in 0..MaxChildren
        /\ exited <= Cardinality(Heard)
    BY DEF Inv, Places, Ends
  <1>2. Heard \subseteq 1..childCount
    <2>1. \A k \in Slots : k > childCount => ~Quiet(c2p[k], cpc[k])
      BY DEF Inv, Places, Quiet
    <2>2. QED
      BY <1>1, <2>1, SlotsFinite DEF Heard, Slots
  <1>3. IsFiniteSet(1..childCount) /\ Cardinality(1..childCount) = childCount
    BY <1>1, FS_Interval
  <1>4. IsFiniteSet(Heard) /\ Cardinality(Heard) <= childCount
        /\ (Cardinality(Heard) = childCount => Heard = 1..childCount)
    BY <1>2, <1>3, FS_Subset
  <1>5. Cardinality(Heard) \in Nat
    BY <1>4, FS_CardinalityType
  <1>6. QED
    BY <1>1, <1>4, <1>5

\* When waitForChildren gives its final message every child it counted has ended,
\* also when a child caught in the inherited handler took messages meant for it,
\* and when SIGHUP cut messages in two.
THEOREM DoneCorrect == Spec => []DoneMeansGone
  <1>1. Inv => DoneMeansGone
    <2> SUFFICES ASSUME Inv, pc = "done", NEW i \in 1..childCount PROVE cpc[i] = "gone"
      BY DEF DoneMeansGone
    <2>1. childCount \in Nat /\ childCount <= exited /\ exited <= Cardinality(Heard)
      BY DEF Inv, Places, Ends
    <2>2. Cardinality(Heard) \in 0..childCount /\ exited \in 0..childCount
      BY HeardCounted
    <2>3. Cardinality(Heard) = childCount
      BY <2>1, <2>2
    <2>4. Heard = 1..childCount
      BY <2>3, HeardCounted
    <2>5. QED
      BY <2>4 DEF Heard, Quiet
  <1>2. QED
    BY <1>1, Invariant, PTL

-----------------------------------------------------------------------------
(* One trace of every request.                                             *)

\* A slot nobody touches keeps its shape; what the parent does may end.
LEMMA ShapeKept ==
    ASSUME NEW i \in Slots, Shape(i),
           cpc'[i] = cpc[i], m_pid'[i] = m_pid[i], p2c'[i] = p2c[i], c2p'[i] = c2p[i],
           \/ ~Writes(i) /\ ~Writes(i)'
           \/ Writes(i) /\ UNCHANGED <<pc, target, cur>>,
           Reads(i)' => Reads(i), Handles(i)' => Handles(i)
    PROVE  Shape(i)'
  <1>1. CASE ~Writes(i) /\ ~Writes(i)'
    <2>1. NoChild(i) => NoChild(i)'
      BY <1>1 DEF NoChild, Left
    <2>2. IdleSlot(i) => IdleSlot(i)'
      BY <1>1 DEF IdleSlot, Left
    <2>3. Asked(i) => Asked(i)'
      BY <1>1 DEF Asked, Writes
    <2>4. Working(i) => Working(i)'
      BY <1>1 DEF Working, Left
    <2>5. Answering(i) => Answering(i)'
      BY <1>1 DEF Answering
    <2>6. Answered(i) => Answered(i)'
      BY <1>1 DEF Answered
    <2>7. QED
      BY <2>1, <2>2, <2>3, <2>4, <2>5, <2>6 DEF Shape, Busy
  <1>2. CASE Writes(i) /\ UNCHANGED <<pc, target, cur>>
    <2>1. Asked(i) /\ m_pid[i] \in Pids
      BY <1>2 DEF Shape, Busy, NoChild, IdleSlot, Working, Answering, Answered, Left
    <2>2. Asked(i)'
      BY <1>2, <2>1 DEF Asked, Writes
    <2>3. QED
      BY <2>1, <2>2 DEF Shape, Busy
  <1>3. QED
    BY <1>1, <1>2

\* Steps that touch no slot, no pipe and no count.
LEMMA JobsKept ==
    ASSUME Jobs, pc \in ParentPcs, UNCHANGED <<cpc, m_pid, p2c, c2p, idleChildCount>>,
           pc' \in {"fork", "writeHeader", "writeBody"} => cur' \in Pids /\ target' \in Slots,
           \/ UNCHANGED <<pc, target, cur, idx>>
           \/ /\ pc \notin {"writeHeader", "writeBody"} \/ pc' \notin ParentPcs
              /\ pc' \notin {"writeHeader", "writeBody", "body", "handle"}
    PROVE  Jobs'
  <1> SUFFICES ASSUME pc' \in ParentPcs PROVE Jobs'
    BY DEF Jobs
  <1>1. ASSUME NEW i \in Slots PROVE Shape(i)'
    <2>1. Shape(i)
      BY DEF Jobs
    <2>2. \/ ~Writes(i) /\ ~Writes(i)'
          \/ Writes(i) /\ UNCHANGED <<pc, target, cur>>
      BY DEF Writes
    <2>3. (Reads(i)' => Reads(i)) /\ (Handles(i)' => Handles(i))
      BY DEF Reads, Handles
    <2>4. QED
      BY <2>1, <2>2, <2>3, ShapeKept
  <1>2. Idles' = Idles
    BY DEF Idles
  <1>3. QED
    BY <1>1, <1>2 DEF Jobs

LEMMA IdlesCount ==
    /\ IsFiniteSet(Idles) /\ Cardinality(Idles) \in Nat
    /\ \A i \in Idles : Cardinality(Idles \ {i}) = Cardinality(Idles) - 1
    /\ \A i \in Slots \ Idles : Cardinality(Idles \cup {i}) = Cardinality(Idles) + 1
  <1>1. IsFiniteSet(Idles)
    BY SlotsFinite, FS_Subset DEF Idles
  <1>2. QED
    BY <1>1, FS_CardinalityType, FS_RemoveElement, FS_AddElement

LEMMA ScanJobs == ASSUME Inv, Jobs, Scan PROVE Jobs'
  <1>1. /\ pc = "scan" /\ pc' \in {"poll", "scan", "pick"}
        /\ UNCHANGED <<cpc, m_pid, p2c, c2p, idleChildCount>>
    BY DEF Scan, Continue, childVars
  <1>2. QED
    BY <1>1, JobsKept DEF ParentPcs

LEMMA PickJobs == ASSUME Inv, Jobs, PickProcess PROVE Jobs'
  <1>1. /\ pc = "pick" /\ UNCHANGED <<cpc, p2c, c2p>> /\ pc \in ParentPcs /\ scan \subseteq Pids
    BY DEF PickProcess, childVars, ParentPcs, Inv, Places
  <1>2. PICK p \in scan :
          \/ Continue(scan \ {p}) /\ UNCHANGED <<idleChildCount, m_pid, cur, target>>
          \/ NewChild(p)
          \/ IdleChild(p)
    BY DEF PickProcess
  <1>3. CASE Continue(scan \ {p}) /\ UNCHANGED <<idleChildCount, m_pid, cur, target>>
    <2>1. pc' \in {"scan", "pick"}
      BY <1>3 DEF Continue
    <2>2. QED
      BY <1>1, <1>3, <2>1, JobsKept
  <1>4. CASE NewChild(p)
    <2>1. /\ pc' = "fork" /\ cur' \in Pids /\ target' \in Slots
          /\ UNCHANGED <<idleChildCount, m_pid>>
      BY <1>1, <1>4 DEF NewChild
    <2>2. QED
      BY <1>1, <2>1, JobsKept
  <1>5. CASE IdleChild(p)
    <2>1. PICK i \in Slots : /\ IsIdleChildIndex(i) /\ target' = i
                             /\ m_pid' = [m_pid EXCEPT ![i] = p]
      BY <1>5 DEF IdleChild
    <2>2. /\ pc' = "writeHeader" /\ cur' = p /\ p \in Pids /\ p # 0 /\ m_pid[i] = 0
          /\ idleChildCount' = idleChildCount - 1
      BY <1>1, <1>5, <2>1, PidsAssumption DEF IdleChild, IsIdleChildIndex
    <2>3. /\ m_pid \in [Slots -> Int] /\ Shape(i) /\ idleChildCount = Cardinality(Idles)
          /\ p2c \in [Slots -> Seq(Asks)]
      BY <1>1 DEF Jobs
    <2>4. m_pid' \in [Slots -> Int] /\ m_pid'[i] = p
          /\ \A j \in Slots \ {i} : m_pid'[j] = m_pid[j]
      BY <2>1, <2>2, <2>3, PidsAssumption
    <2>5. ASSUME NEW j \in Slots PROVE Shape(j)'
      <3>1. CASE j = i
        <4>1. IdleSlot(i)
          BY <2>2, <2>3, PidsAssumption DEF Shape, Junk
        <4>2. Asked(i)'
          BY <1>1, <2>1, <2>2, <4>1 DEF IdleSlot, Asked, Reads
        <4>3. QED
          BY <2>2, <2>4, <3>1, <4>2 DEF Shape, Busy
      <3>2. CASE j # i
        <4>1. ~Writes(j) /\ ~Writes(j)' /\ ~Reads(j)' /\ ~Handles(j)'
          BY <1>1, <2>1, <2>2, <3>2 DEF Writes, Reads, Handles
        <4>2. Shape(j)
          BY <1>1 DEF Jobs
        <4>3. QED
          BY <1>1, <2>4, <3>2, <4>1, <4>2, ShapeKept
      <3>3. QED
        BY <3>1, <3>2
    <2>6. Idles' = Idles \ {i} /\ i \in Idles
      BY <2>2, <2>4 DEF Idles
    <2>7. QED
      BY <1>1, <2>1, <2>2, <2>3, <2>4, <2>5, <2>6, IdlesCount DEF Jobs
  <1>6. QED
    BY <1>2, <1>3, <1>4, <1>5

\* One slot changes; the parent turns from it to nothing or stays with it.
LEMMA JobsAt ==
    ASSUME Jobs, pc \in ParentPcs, NEW i \in Slots, Shape(i)',
           m_pid' \in [Slots -> Int], p2c' \in [Slots -> Seq(Asks)],
           pc' \in {"fork", "writeHeader", "writeBody"} => cur' \in Pids /\ target' \in Slots,
           \A j \in Slots \ {i} :
              /\ cpc'[j] = cpc[j] /\ m_pid'[j] = m_pid[j]
              /\ p2c'[j] = p2c[j] /\ c2p'[j] = c2p[j]
              /\ \/ ~Writes(j) /\ ~Writes(j)'
                 \/ Writes(j) /\ UNCHANGED <<pc, target, cur>>
              /\ (Reads(j)' => Reads(j)) /\ (Handles(j)' => Handles(j)),
           idleChildCount' = idleChildCount
              + (IF m_pid[i] # 0 /\ m_pid'[i] = 0 THEN 1 ELSE 0),
           m_pid[i] = 0 => m_pid'[i] = 0
    PROVE  Jobs'
  <1>1. ASSUME NEW j \in Slots PROVE Shape(j)'
    <2>1. CASE j = i
      BY <2>1
    <2>2. CASE j # i
      <3>1. Shape(j)
        BY DEF Jobs
      <3>2. QED
        BY <2>2, <3>1, ShapeKept
    <2>3. QED
      BY <2>1, <2>2
  <1>2. idleChildCount' = Cardinality(Idles')
    <2>1. idleChildCount = Cardinality(Idles)
      BY DEF Jobs
    <2>2. CASE m_pid[i] # 0 /\ m_pid'[i] = 0
      <3>1. Idles' = Idles \cup {i} /\ i \in Slots \ Idles
        BY <2>2 DEF Idles
      <3>2. QED
        BY <2>1, <2>2, <3>1, IdlesCount
    <2>3. CASE ~(m_pid[i] # 0 /\ m_pid'[i] = 0)
      <3>1. Idles' = Idles
        BY <2>3 DEF Idles
      <3>2. QED
        BY <2>1, <2>3, <3>1, IdlesCount
    <2>4. QED
      BY <2>2, <2>3
  <1>3. QED
    BY <1>1, <1>2 DEF Jobs

LEMMA ForkJobs == ASSUME Inv, Jobs, Fork PROVE Jobs'
  <1>1. /\ pc = "fork" /\ pc \in ParentPcs /\ UNCHANGED <<p2c, c2p, idleChildCount>>
        /\ target \in Slots /\ cur \in Pids /\ cpc[target] = "none"
        /\ cpc \in [Slots -> ChildPcs]
        /\ m_pid \in [Slots -> Int] /\ p2c \in [Slots -> Seq(Asks)] /\ Shape(target)
    BY DEF Inv, Places, Fork, Jobs, ParentPcs
  <1>2. CASE /\ cpc' = [cpc EXCEPT ![target] = "forked"]
             /\ m_pid' = [m_pid EXCEPT ![target] = cur]
             /\ pc' = "writeHeader"
             /\ UNCHANGED <<idx, cur, target>>
    <2>1. NoChild(target) /\ m_pid[target] = Junk
      BY <1>1 DEF Shape, Busy, IdleSlot, Asked, Working, Answering, Answered
    <2>2. /\ cpc'[target] = "forked" /\ m_pid'[target] = cur /\ m_pid' \in [Slots -> Int]
          /\ \A j \in Slots \ {target} : cpc'[j] = cpc[j] /\ m_pid'[j] = m_pid[j]
      BY <1>1, <1>2, PidsAssumption
    <2>3. Shape(target)'
      <3>1. Asked(target)'
        BY <1>1, <1>2, <2>1, <2>2 DEF NoChild, Asked, Reads
      <3>2. m_pid'[target'] = cur /\ cur \in Pids
        BY <1>1, <1>2, <2>2
      <3>3. QED
        BY <3>1, <3>2 DEF Shape, Busy
    <2>4. \A j \in Slots \ {target} : ~Writes(j) /\ ~Writes(j)' /\ ~Reads(j)' /\ ~Handles(j)'
      BY <1>1, <1>2 DEF Writes, Reads, Handles
    <2>5. m_pid[target] # 0 /\ m_pid'[target] # 0 /\ idleChildCount' = idleChildCount + 0
      <3>1. idleChildCount \in Int
        BY <1>1, IdlesCount DEF Jobs
      <3>2. QED
        BY <1>1, <2>1, <2>2, <3>1, PidsAssumption DEF Junk
    <2>6. DEFINE i == target
    <2>7. Shape(i)'
      BY <1>2, <2>3
    <2> HIDE DEF i
    <2>8. QED
      BY <1>1, <1>2, <2>2, <2>4, <2>5, <2>7, JobsAt DEF i
  <1>3. CASE Continue(scan) /\ UNCHANGED <<cpc, m_pid>>
    <2>1. pc' \in {"scan", "pick"}
      BY <1>3 DEF Continue
    <2>2. QED
      BY <1>1, <1>3, <2>1, JobsKept
  <1>4. QED
    BY <1>2, <1>3 DEF Fork

LEMMA TwoHalves ==
    ASSUME NEW S, NEW a \in S, NEW b \in S
    PROVE  Append(<<a>>, b) = <<a, b>> /\ <<a, b>> \in Seq(S)
  <1>1. <<a>> \in Seq(S) /\ Len(<<a>>) = 1 /\ <<a>>[1] = a
    OBVIOUS
  <1>2. <<a, b>> \in Seq(S) /\ Len(<<a, b>>) = 2 /\ <<a, b>>[1] = a /\ <<a, b>>[2] = b
    OBVIOUS
  <1>3. /\ Append(<<a>>, b) \in Seq(S) /\ Len(Append(<<a>>, b)) = 2
        /\ Append(<<a>>, b)[1] = a /\ Append(<<a>>, b)[2] = b
    BY <1>1, AppendProperties
  <1> DEFINE r == Append(<<a>>, b)
             t == <<a, b>>
  <1>4. \A i \in 1..2 : i = 1 \/ i = 2
    OBVIOUS
  <1>5. r \in Seq(S) /\ t \in Seq(S) /\ Len(r) = 2 /\ Len(t) = 2
        /\ \A i \in 1..2 : r[i] = t[i]
    BY <1>2, <1>3, <1>4
  <1> HIDE DEF r, t
  <1>6. r = t
    BY <1>5, SeqEqual
  <1>7. QED
    BY <1>2, <1>6 DEF r, t

LEMMA WriteJobs == ASSUME Inv, Jobs, WriteHeader \/ WriteBody PROVE Jobs'
  <1>1. /\ pc \in {"writeHeader", "writeBody"} /\ pc \in ParentPcs
        /\ UNCHANGED <<cpc, c2p, idleChildCount, m_pid>>
        /\ target \in Slots /\ cur \in Pids
        /\ m_pid \in [Slots -> Int] /\ p2c \in [Slots -> Seq(Asks)] /\ Shape(target)
        /\ idleChildCount \in Int
    BY IdlesCount DEF Inv, Places, WriteHeader, WriteBody, Jobs, ParentPcs, childVars, countVars
  <1>2. Asked(target) /\ m_pid[target] \in Pids /\ m_pid[target] # 0
    <2>1. Writes(target)
      BY <1>1 DEF Writes
    <2>2. Asked(target) /\ m_pid[target] \in Pids
      BY <1>1, <2>1 DEF Shape, Busy, NoChild, IdleSlot, Working, Answering, Answered, Left
    <2>3. QED
      BY <2>2, PidsAssumption
  <1>3. Header(cur) \in Asks /\ Body(cur) \in Asks
    BY <1>1 DEF Asks, Halves
  <1>4. PICK i \in Slots : i = target
    BY <1>1
  <1>5. CASE WriteHeader
    <2>1. /\ pc = "writeHeader" /\ pc' = "writeBody" /\ UNCHANGED <<target, cur, idx>>
          /\ p2c' = [p2c EXCEPT ![i] = Append(p2c[i], Header(cur))]
      BY <1>1, <1>4, <1>5 DEF WriteHeader, posVars
    <2>2. p2c[i] = <<>>
      BY <1>2, <1>4, <2>1 DEF Asked, Writes
    <2>3. /\ p2c' \in [Slots -> Seq(Asks)] /\ p2c'[i] = <<Header(cur)>>
          /\ \A j \in Slots \ {i} : p2c'[j] = p2c[j]
      <3>1. Append(<<>>, Header(cur)) = <<Header(cur)>>
        OBVIOUS
      <3>2. <<Header(cur)>> \in Seq(Asks)
        BY <1>3
      <3>3. p2c' = [p2c EXCEPT ![i] = <<Header(cur)>>]
        BY <2>1, <2>2, <3>1
      <3>4. QED
        BY <1>1, <3>2, <3>3
    <2>4. Shape(i)'
      <3>1. Asked(i)'
        BY <1>1, <1>2, <1>4, <2>1, <2>3 DEF Asked, Reads
      <3>2. QED
        BY <1>1, <1>2, <1>4, <3>1 DEF Shape, Busy
    <2>5. \A j \in Slots \ {i} : ~Writes(j) /\ ~Writes(j)' /\ ~Reads(j)' /\ ~Handles(j)'
      BY <1>1, <1>4, <2>1 DEF Writes, Reads, Handles
    <2>6. QED
      BY <1>1, <1>2, <1>4, <2>1, <2>3, <2>4, <2>5, JobsAt
  <1>6. CASE WriteBody
    <2>1. /\ pc = "writeBody" /\ pc' \in {"scan", "pick"}
          /\ p2c' = [p2c EXCEPT ![i] = Append(p2c[i], Body(cur))]
      BY <1>1, <1>4, <1>6 DEF WriteBody, Continue
    <2>2. p2c[i] = <<Header(cur)>>
      BY <1>2, <1>4, <2>1 DEF Asked, Writes
    <2>3. /\ p2c' \in [Slots -> Seq(Asks)] /\ p2c'[i] = Message(cur)
          /\ \A j \in Slots \ {i} : p2c'[j] = p2c[j]
      <3>1. Append(<<Header(cur)>>, Body(cur)) = Message(cur) /\ Message(cur) \in Seq(Asks)
        BY <1>3, TwoHalves DEF Message
      <3>2. QED
        BY <1>1, <2>1, <2>2, <3>1
    <2>4. Shape(i)'
      <3>1. Asked(i)'
        BY <1>1, <1>2, <1>4, <2>1, <2>3 DEF Asked, Reads, Writes
      <3>2. QED
        BY <1>1, <1>2, <1>4, <3>1 DEF Shape, Busy
    <2>5. \A j \in Slots \ {i} : ~Writes(j) /\ ~Writes(j)' /\ ~Reads(j)' /\ ~Handles(j)'
      BY <1>1, <1>4, <2>1 DEF Writes, Reads, Handles
    <2>6. pc' \notin {"fork", "writeHeader", "writeBody"} /\ m_pid' \in [Slots -> Int]
          /\ m_pid' = m_pid /\ cpc' = cpc /\ c2p' = c2p /\ m_pid[i] # 0
          /\ idleChildCount' = idleChildCount + 0
      BY <1>1, <1>2, <1>4, <2>1
    <2>7. QED
      BY <1>1, <2>3, <2>4, <2>5, <2>6, JobsAt
  <1>7. QED
    BY <1>5, <1>6

\* The parent reads a half of what child idx said, or all of it.
LEMMA TakenFrom ==
    ASSUME Inv, Jobs, pc \in {"poll", "header", "body"}, idx \in Slots, c2p[idx] # <<>>,
           UNCHANGED <<cpc, m_pid, p2c, idleChildCount>>,
           \/ c2p' = [c2p EXCEPT ![idx] = <<>>] /\ pc' = "poll"
           \/ /\ c2p' = [c2p EXCEPT ![idx] = Tail(@)] /\ idx' = idx
              /\ pc' = (IF pc = "body" THEN "handle" ELSE "body")
    PROVE  Jobs'
  <1>1. PICK i \in Slots : i = idx
    OBVIOUS
  <1>2. /\ pc \in ParentPcs /\ Shape(i) /\ m_pid \in [Slots -> Int]
        /\ p2c \in [Slots -> Seq(Asks)] /\ c2p \in [Slots -> Seq(Half)]
        /\ idleChildCount \in Int
    BY IdlesCount DEF ParentPcs, Jobs, Inv, Places, Half
  <1>3. c2p[i] \in Seq(Half) /\ Len(c2p[i]) \in Nat /\ Len(c2p[i]) # 0
    BY <1>1, <1>2, EmptySeq, LenProperties
  <1>4. m_pid[i] \in Pids /\ (Answering(i) \/ Answered(i))
    BY <1>2, <1>3 DEF Shape, Busy, NoChild, IdleSlot, Asked, Working
  <1>5. \A j \in Slots : ~Writes(j) /\ ~Writes(j)'
    BY DEF Writes
  <1>6. /\ \A j \in Slots \ {i} : c2p'[j] = c2p[j]
        /\ \/ Len(c2p'[i]) = 0 /\ pc' = "poll"
           \/ Len(c2p'[i]) = Len(c2p[i]) - 1 /\ pc' = "body" /\ pc # "body"
           \/ Len(c2p'[i]) = Len(c2p[i]) - 1 /\ pc' = "handle" /\ pc = "body"
    <2>1. CASE c2p' = [c2p EXCEPT ![idx] = <<>>] /\ pc' = "poll"
      BY <1>1, <1>2, <2>1
    <2>2. CASE /\ c2p' = [c2p EXCEPT ![idx] = Tail(@)]
               /\ pc' = (IF pc = "body" THEN "handle" ELSE "body")
      <3>1. Len(Tail(c2p[i])) = Len(c2p[i]) - 1
        BY <1>1, <1>3, HeadTailProperties
      <3>2. c2p'[i] = Tail(c2p[i]) /\ \A j \in Slots \ {i} : c2p'[j] = c2p[j]
        BY <1>1, <1>2, <2>2
      <3>3. QED
        BY <2>2, <3>1, <3>2
    <2>3. QED
      BY <2>1, <2>2
  <1>7. Shape(i)'
    <2>1. pc = "body" => Reads(i) /\ ~Handles(i)
      BY <1>1 DEF Reads, Handles
    <2>2. CASE Len(c2p'[i]) = 0 /\ pc' = "poll"
      <3>1. ~Handles(i)'
        BY <2>2 DEF Handles
      <3>2. (Answering(i) => Answering(i)') /\ (Answered(i) => Answered(i)')
        BY <1>5, <2>2, <3>1 DEF Answering, Answered
      <3>3. QED
        BY <1>4, <3>2 DEF Shape, Busy
    <2>3. CASE Len(c2p'[i]) = Len(c2p[i]) - 1 /\ pc' = "body" /\ pc # "body"
      <3>1. ~Handles(i)'
        BY <2>3 DEF Handles
      <3>2. Answering(i) => Answering(i)'
        BY <1>3, <1>5, <2>3, <3>1 DEF Answering
      <3>3. Answered(i) => Answered(i)'
        BY <1>3, <1>5, <2>3, <3>1 DEF Answered
      <3>4. QED
        BY <1>4, <3>2, <3>3 DEF Shape, Busy
    <2>4. CASE Len(c2p'[i]) = Len(c2p[i]) - 1 /\ pc' = "handle" /\ pc = "body"
      <3>1. Answered(i) /\ Len(c2p[i]) = 1
        BY <1>3, <1>4, <2>1, <2>4 DEF Answering, Answered
      <3>2. Len(c2p'[i]) = 0
        BY <2>4, <3>1
      <3>3. Answered(i)'
        BY <1>5, <3>1, <3>2 DEF Answered
      <3>4. QED
        BY <1>4, <3>3 DEF Shape, Busy
    <2>5. QED
      BY <1>6, <2>2, <2>3, <2>4
  <1>8. \A j \in Slots \ {i} : (Reads(j)' => Reads(j)) /\ (Handles(j)' => Handles(j))
    BY <1>1, <1>6 DEF Reads, Handles
  <1>9. m_pid[i] # 0 /\ m_pid' \in [Slots -> Int] /\ p2c' \in [Slots -> Seq(Asks)]
        /\ pc' \notin {"fork", "writeHeader", "writeBody"}
        /\ idleChildCount' = idleChildCount + 0 /\ m_pid'[i] # 0
    BY <1>2, <1>4, <1>6, PidsAssumption
  <1>10. QED
    BY <1>2, <1>5, <1>6, <1>7, <1>8, <1>9, JobsAt

LEMMA ReadJobs == ASSUME Inv, Jobs, ReadHeader \/ ReadBody PROVE Jobs'
  <1>1. /\ pc \in {"poll", "header", "body"} /\ pc \in ParentPcs /\ idx \in Nat \ {0}
        /\ childCount \in 0..MaxChildren
        /\ UNCHANGED <<cpc, m_pid, p2c, idleChildCount>>
    BY DEF Inv, Places, ReadHeader, ReadBody, childVars, countVars, ParentPcs
  <1>2. CASE ReadHeader
    <2>1. CASE UNCHANGED c2p /\ pc' \in {"scan", "poll", "dead"}
      <3>1. pc \in {"poll", "header"}
        BY <1>2 DEF ReadHeader
      <3>2. QED
        BY <1>1, <2>1, <3>1, JobsKept
    <2>2. CASE /\ idx <= childCount /\ c2p[idx] # <<>>
               /\ pc' = "body" /\ c2p' = [c2p EXCEPT ![idx] = Tail(@)] /\ UNCHANGED idx
      <3>1. pc \in {"poll", "header"} /\ idx \in Slots
        BY <1>1, <1>2, <2>2, SlotsFinite DEF ReadHeader, Slots
      <3>2. QED
        BY <1>1, <2>2, <3>1, TakenFrom
    <2>3. CASE /\ idx <= childCount /\ c2p[idx] # <<>>
               /\ pc' = "poll" /\ c2p' = [c2p EXCEPT ![idx] = <<>>]
      <3>1. pc \in {"poll", "header"} /\ idx \in Slots
        BY <1>1, <1>2, <2>3, SlotsFinite DEF ReadHeader, Slots
      <3>2. QED
        BY <1>1, <2>3, <3>1, TakenFrom
    <2>4. QED
      BY <1>2, <2>1, <2>2, <2>3 DEF ReadHeader, Misread
  <1>3. CASE ReadBody
    <2>1. pc = "body" /\ idx \in Slots /\ c2p[idx] # <<>> /\ pc' = "handle" /\ idx' = idx
          /\ c2p' = [c2p EXCEPT ![idx] = Tail(@)]
      BY <1>3, SlotsFinite DEF ReadBody, Inv, Places, Slots
    <2>2. QED
      BY <1>1, <2>1, TakenFrom
  <1>4. QED
    BY <1>2, <1>3

LEMMA HandleJobs == ASSUME Inv, Jobs, HandleMessage PROVE Jobs'
  <1>1. /\ pc = "handle" /\ pc \in ParentPcs /\ pc' = "poll"
        /\ UNCHANGED <<cpc, c2p, p2c>> /\ TakeMessage(idx, hand)
        /\ m_pid \in [Slots -> Int] /\ p2c \in [Slots -> Seq(Asks)]
    BY DEF HandleMessage, childVars, ParentPcs, Jobs
  <1>2. CASE UNCHANGED <<idleChildCount, m_pid>>
    BY <1>1, <1>2, JobsKept
  <1>3. CASE idleChildCount' = idleChildCount + 1 /\ m_pid' = [m_pid EXCEPT ![idx] = 0]
             /\ idx \in Slots
    <2>1. PICK i \in Slots : i = idx
      BY <1>3
    <2>2. Answered(i) /\ Len(c2p[i]) = 0 /\ m_pid[i] \in Pids
      <3>1. Handles(i) /\ Reads(i) /\ Shape(i)
        BY <1>1, <2>1 DEF Handles, Reads, Jobs
      <3>2. QED
        BY <3>1 DEF Shape, Busy, NoChild, IdleSlot, Asked, Working, Answering, Answered, Left
    <2>3. m_pid' \in [Slots -> Int] /\ m_pid'[i] = 0 /\ m_pid[i] # 0
          /\ \A j \in Slots \ {i} : m_pid'[j] = m_pid[j]
      BY <1>1, <1>3, <2>1, <2>2, PidsAssumption
    <2>4. \A j \in Slots : ~Writes(j) /\ ~Writes(j)' /\ ~Reads(j)' /\ ~Handles(j)'
      BY <1>1 DEF Writes, Reads, Handles
    <2>5. Shape(i)'
      <3>1. IdleSlot(i)'
        BY <1>1, <2>2, <2>4 DEF Answered, IdleSlot, Left
      <3>2. QED
        BY <2>3, <3>1 DEF Shape
    <2>6. QED
      BY <1>1, <1>3, <2>3, <2>4, <2>5, JobsAt
  <1>4. idx \in Slots
    BY <1>1, SlotsFinite DEF Inv, Places, Slots
  <1>5. QED
    BY <1>1, <1>2, <1>3, <1>4 DEF TakeMessage

LEMMA SighupJobs == ASSUME Inv, Jobs, Sighup PROVE Jobs'
  <1>1. UNCHANGED <<cpc, m_pid, p2c, c2p, idleChildCount, target, cur>>
        /\ pc \in ParentPcs \cup HandlerPcs
    BY DEF Sighup, childVars, countVars, Running
  <1>2. pc' = "dead" \/ Interrupted \/ UNCHANGED <<pc, idx>>
    BY Zenon DEF Sighup
  <1>3. \/ UNCHANGED <<pc, idx>>
        \/ pc' \notin ParentPcs
        \/ pc = "body" /\ pc' = "poll"
        \/ pc = "poll" /\ pc' = "header"
    BY <1>2, InterruptedMoves DEF Inv, ParentPcs
  <1>4. CASE pc' \notin ParentPcs
    BY <1>4 DEF Jobs
  <1>5. CASE pc' \in ParentPcs
    <2>1. /\ pc \in ParentPcs
          /\ pc \in {"fork", "writeHeader", "writeBody"} => cur \in Pids /\ target \in Slots
          /\ UNCHANGED <<pc, idx>> \/ pc = "body" \/ pc = "poll"
          /\ UNCHANGED <<pc, idx>> \/ pc' \in {"poll", "header"}
      BY <1>3, <1>5 DEF Jobs, ParentPcs
    <2>2. QED
      BY <1>1, <1>5, <2>1, JobsKept
  <1>6. QED
    BY <1>4, <1>5

\* A step of child i.
LEMMA JobsChild ==
    ASSUME Jobs, pc \in ParentPcs, NEW i \in Slots, UNCHANGED parentOnly, Shape(i)',
           p2c' \in [Slots -> Seq(Asks)],
           \A j \in Slots \ {i} : cpc'[j] = cpc[j] /\ p2c'[j] = p2c[j] /\ c2p'[j] = c2p[j]
    PROVE  Jobs'
  <1>1. UNCHANGED <<pc, idx, cur, target, m_pid, idleChildCount>>
    BY DEF parentOnly, posVars, countVars
  <1>2. /\ m_pid \in [Slots -> Int] /\ idleChildCount \in Int
        /\ pc \in {"fork", "writeHeader", "writeBody"} => cur \in Pids /\ target \in Slots
    BY IdlesCount DEF Jobs
  <1>3. \A j \in Slots : /\ \/ ~Writes(j) /\ ~Writes(j)'
                            \/ Writes(j) /\ UNCHANGED <<pc, target, cur>>
                         /\ (Reads(j)' => Reads(j)) /\ (Handles(j)' => Handles(j))
    BY <1>1 DEF Writes, Reads, Handles
  <1>4. idleChildCount' = idleChildCount + 0 /\ m_pid' = m_pid
    BY <1>1, <1>2
  <1>5. QED
    BY <1>1, <1>2, <1>3, <1>4, JobsAt

LEMMA LongPipe ==
    ASSUME NEW q \in Seq(Asks), Len(q) >= 2, NEW h PROVE q # <<>> /\ q # <<h>>
  <1>1. PICK n \in Nat : n = Len(q) /\ n >= 2
    BY LenProperties
  <1>2. n # 0 /\ n # 1
    BY <1>1
  <1>3. Len(<<>>) = 0 /\ Len(<<h>>) = 1
    OBVIOUS
  <1>4. QED
    BY <1>1, <1>2, <1>3

LEMMA ChildJobs == ASSUME Inv, Jobs, pc \in ParentPcs, NEW i \in Slots, Child(i) PROVE Jobs'
  <1>1. /\ UNCHANGED parentOnly /\ Shape(i) /\ cpc \in [Slots -> ChildPcs]
        /\ c2p \in [Slots -> Seq(Half)] /\ p2c \in [Slots -> Seq(Asks)]
        /\ UNCHANGED <<pc, idx, cur, target, m_pid>>
    <2>1. UNCHANGED parentOnly
      BY DEF Child, IgnoreSignals, ChildRead, MonitorProcess, ChildWrite, ChildHandler
    <2>2. QED
      BY <2>1 DEF Inv, Places, Half, Jobs, parentOnly, posVars, countVars
  <1>2. c2p[i] \in Seq(Half) /\ Len(c2p[i]) \in Nat
    BY <1>1, LenProperties
  <1>3. /\ Writes(i)' <=> Writes(i)
        /\ Reads(i)' <=> Reads(i)
        /\ Handles(i)' <=> Handles(i)
        /\ m_pid'[i] = m_pid[i]
    BY <1>1 DEF Writes, Reads, Handles
  <1>4. CASE IgnoreSignals(i)
    <2>1. /\ cpc[i] = "forked" /\ cpc'[i] = "read" /\ UNCHANGED <<p2c, c2p>>
          /\ \A j \in Slots \ {i} : cpc'[j] = cpc[j]
      BY <1>1, <1>4 DEF IgnoreSignals
    <2>2. Asked(i) /\ m_pid[i] \in Pids
      BY <1>1, <2>1 DEF Shape, Busy, NoChild, IdleSlot, Working, Answering, Answered
    <2>3. Asked(i)'
      BY <1>1, <1>3, <2>1, <2>2 DEF Asked
    <2>4. Shape(i)'
      BY <1>3, <2>2, <2>3 DEF Shape, Busy
    <2>5. QED
      BY <1>1, <2>1, <2>4, JobsChild
  <1>5. CASE ChildRead(i)
    <2>1. cpc[i] = "read" /\ Len(p2c[i]) >= 2 /\ UNCHANGED c2p
      BY <1>5 DEF ChildRead
    <2>2. p2c[i] # <<>> /\ p2c[i] # <<Header(cur)>>
      BY <1>1, <2>1, LongPipe
    <2>3. Asked(i) /\ m_pid[i] \in Pids /\ ~Writes(i)
      BY <1>1, <2>1, <2>2
         DEF Shape, Busy, NoChild, IdleSlot, Asked, Working, Answering, Answered, Writes
    <2>4. PICK m \in Pids : p2c[i] = Message(m)
      BY <2>2, <2>3 DEF Asked, Writes
    <2>5. /\ p2c[i][1][2] = m /\ p2c[i][2] = Body(m) /\ m # Exit
          /\ Tail(Tail(p2c[i])) = <<>>
      BY <2>4, PidsAssumption DEF Message, Header, Body, Exit
    <2>6. /\ p2c' = [p2c EXCEPT ![i] = <<>>] /\ cpc' = [cpc EXCEPT ![i] = "sleep"]
      BY <1>1, <1>5, <2>5 DEF ChildRead
    <2>7. /\ p2c' \in [Slots -> Seq(Asks)] /\ p2c'[i] = <<>> /\ cpc'[i] = "sleep"
          /\ \A j \in Slots \ {i} : cpc'[j] = cpc[j] /\ p2c'[j] = p2c[j]
      <3>1. <<>> \in Seq(Asks)
        BY EmptySeq
      <3>2. QED
        BY <1>1, <2>6, <3>1
    <2>8. Working(i)'
      BY <1>3, <2>1, <2>3, <2>7 DEF Asked, Working, Left
    <2>9. Shape(i)'
      BY <1>3, <2>3, <2>8 DEF Shape, Busy
    <2>10. QED
      BY <1>1, <2>1, <2>7, <2>9, JobsChild
  <1>6. CASE MonitorProcess(i)
    <2>1. /\ cpc[i] = "sleep" /\ cpc'[i] = "availableHeader" /\ UNCHANGED <<p2c, c2p>>
          /\ \A j \in Slots \ {i} : cpc'[j] = cpc[j]
      BY <1>1, <1>6 DEF MonitorProcess
    <2>2. Working(i) /\ m_pid[i] \in Pids
      BY <1>1, <2>1 DEF Shape, Busy, NoChild, IdleSlot, Asked, Answering, Answered
    <2>3. Working(i)'
      BY <1>3, <2>1, <2>2 DEF Working, Left
    <2>4. Shape(i)'
      BY <1>3, <2>2, <2>3 DEF Shape, Busy
    <2>5. QED
      BY <1>1, <2>1, <2>4, JobsChild
  <1>7. CASE ChildWrite(i)
    <2>1. /\ cpc[i] \in DOMAIN AfterWrite /\ UNCHANGED p2c
          /\ c2p' = [c2p EXCEPT ![i] = Append(c2p[i], WrittenHalf(i))]
          /\ cpc' = [cpc EXCEPT ![i] = AfterWrite[cpc[i]]]
      BY <1>1, <1>7 DEF ChildWrite
    <2>2. /\ Len(c2p'[i]) = Len(c2p[i]) + 1 /\ cpc'[i] = AfterWrite[cpc[i]]
          /\ \A j \in Slots \ {i} : cpc'[j] = cpc[j] /\ c2p'[j] = c2p[j]
      <3>1. WrittenHalf(i) \in Half
        BY <1>1, <2>1, WriteFacts
      <3>2. Len(Append(c2p[i], WrittenHalf(i))) = Len(c2p[i]) + 1
        BY <1>2, <3>1, AppendProperties
      <3>3. QED
        BY <1>1, <2>1, <3>2
    <2>3. \/ cpc[i] = "availableHeader" /\ Working(i)
          \/ cpc[i] = "availableBody" /\ Answering(i)
      <3>1. cpc[i] \in {"availableHeader", "availableBody", "exitHeader", "exitBody"}
        BY <2>1 DEF AfterWrite
      <3>2. QED
        BY <1>1, <3>1 DEF Shape, Busy, NoChild, IdleSlot, Asked, Working, Answering, Answered
    <2>4. m_pid[i] \in Pids
      BY <1>1, <2>3 DEF Shape, NoChild, IdleSlot
    <2>5. CASE cpc[i] = "availableHeader" /\ Working(i)
      <3>1. cpc'[i] = "availableBody" /\ Len(c2p'[i]) = 1
        BY <1>2, <2>2, <2>5 DEF AfterWrite, Working
      <3>2. ~Reads(i) /\ ~Handles(i)
        BY <2>5 DEF Working, Left, Reads, Handles
      <3>3. Answering(i)'
        BY <1>3, <2>1, <2>5, <3>1, <3>2 DEF Answering, Working, Left
      <3>4. QED
        BY <1>1, <1>3, <2>1, <2>2, <2>4, <3>3, JobsChild DEF Shape, Busy
    <2>6. CASE cpc[i] = "availableBody" /\ Answering(i)
      <3>1. cpc'[i] = "read" /\ Len(c2p'[i]) = Len(c2p[i]) + 1
        BY <2>2, <2>6 DEF AfterWrite
      <3>2. Answered(i)'
        <4>1. CASE Len(c2p[i]) = 0
          BY <1>3, <2>1, <2>6, <3>1, <4>1 DEF Answering, Answered
        <4>2. CASE Len(c2p[i]) = 1 /\ ~Reads(i)
          BY <1>3, <2>1, <2>6, <3>1, <4>2 DEF Answering, Answered
        <4>3. QED
          BY <2>6, <4>1, <4>2 DEF Answering
      <3>3. QED
        BY <1>1, <1>3, <2>1, <2>2, <2>4, <3>2, JobsChild DEF Shape, Busy
    <2>7. QED
      BY <2>3, <2>5, <2>6
  <1>8. CASE ChildHandler(i)
    <2>1. cpc[i] \in {"handler", "taking"}
      BY <1>8 DEF ChildHandler
    <2>2. QED
      BY <1>1, <2>1 DEF Shape, Busy, NoChild, IdleSlot, Asked, Working, Answering, Answered
  <1>9. QED
    BY <1>4, <1>5, <1>6, <1>7, <1>8 DEF Child

LEMMA InitJobs == Init => Jobs
  <1> SUFFICES ASSUME Init PROVE Jobs
    OBVIOUS
  <1>1. ASSUME NEW i \in Slots PROVE Shape(i)
    <2>1. /\ m_pid[i] = Junk /\ cpc[i] = "none" /\ p2c[i] = <<>> /\ c2p[i] = <<>> /\ pc = "scan"
      BY DEF Init
    <2>2. QED
      BY <2>1 DEF Shape, NoChild, Left, Writes, Reads
  <1>2. Idles = {} /\ Cardinality({}) = 0
    BY FS_EmptySet DEF Init, Idles, Junk
  <1>3. p2c \in [Slots -> Seq(Asks)] /\ m_pid \in [Slots -> Int]
    BY EmptySeq DEF Init, Junk
  <1>4. QED
    BY <1>1, <1>2, <1>3 DEF Jobs, Init

LEMMA NextJobs == Inv /\ Jobs /\ [Next]_vars => Jobs'
  <1> SUFFICES ASSUME Inv, Jobs, [Next]_vars PROVE Jobs'
    OBVIOUS
  <1>1. CASE Scan \/ PickProcess \/ Fork \/ WriteHeader \/ WriteBody
    BY <1>1, ScanJobs, PickJobs, ForkJobs, WriteJobs
  <1>2. CASE ReadHeader \/ ReadBody \/ HandleMessage
    BY <1>2, ReadJobs, HandleJobs
  <1>3. CASE SendExit \/ WaitHeader \/ WaitBody \/ WaitOnJunk \/ Finish \/ Sigint
    <2>1. pc' \notin ParentPcs
      BY <1>3 DEF SendExit, WaitHeader, WaitBody, WaitOnJunk, Finish, Sigint, Misread, ParentPcs
    <2>2. QED
      BY <2>1 DEF Jobs
  <1>4. CASE Sighup
    BY <1>4, SighupJobs
  <1>5. ASSUME NEW i \in Slots, Child(i) PROVE Jobs'
    <2>1. CASE pc \in ParentPcs
      BY <1>5, <2>1, ChildJobs
    <2>2. CASE pc \notin ParentPcs
      <3>1. pc' = pc
        BY <1>5 DEF Child, IgnoreSignals, ChildRead, MonitorProcess, ChildWrite,
                    ChildHandler, parentOnly
      <3>2. QED
        BY <2>2, <3>1 DEF Jobs
    <2>3. QED
      BY <2>1, <2>2
  <1>6. CASE Spawn \/ ProcessExit \/ UNCHANGED vars
    <2>1. UNCHANGED <<pc, idx, cur, target, cpc, m_pid, p2c, c2p, idleChildCount>>
      BY <1>6 DEF Spawn, ProcessExit, vars, childVars, posVars, countVars
    <2>2. CASE pc \in ParentPcs
      BY <2>1, <2>2, JobsKept DEF Jobs
    <2>3. CASE pc \notin ParentPcs
      BY <2>1, <2>3 DEF Jobs
    <2>4. QED
      BY <2>2, <2>3
  <1>7. QED
    BY <1>1, <1>2, <1>3, <1>4, <1>5, <1>6 DEF Next, Parent

\* Before SIGINT idleChildCount is the number of children whose m_pid is 0, and
\* such a child is blocked in read with nothing in its pipes: wherever SIGHUP
\* interrupts the loops, and however many messages it cuts in two.
THEOREM PoolConsistency == Spec => []PoolConsistent
  <1>1. Inv /\ Jobs => PoolConsistent
    <2> SUFFICES ASSUME Inv, Jobs, pc \in ParentPcs
                 PROVE  LET idle == {i \in 1..childCount : m_pid[i] = 0} IN
                        /\ idleChildCount = Cardinality(idle)
                        /\ \A i \in idle : cpc[i] = "read" /\ p2c[i] = <<>> /\ c2p[i] = <<>>
      BY DEF PoolConsistent
    <2> DEFINE idle == {i \in 1..childCount : m_pid[i] = 0}
    <2>1. childCount \in 0..MaxChildren
          /\ \A i \in Slots : i > childCount => cpc[i] = "none"
      BY DEF Inv, Places
    <2>2. ASSUME NEW i \in Slots, m_pid[i] = 0
          PROVE  cpc[i] = "read" /\ p2c[i] = <<>> /\ c2p[i] = <<>>
      <3>1. Shape(i) /\ c2p[i] \in Seq(Half)
        BY DEF Jobs, Inv, Places, Half
      <3>2. IdleSlot(i)
        BY <2>2, <3>1, PidsAssumption DEF Shape, Junk
      <3>3. QED
        BY <3>1, <3>2, EmptySeq DEF IdleSlot
    <2>3. idle = Idles
      <3>1. ASSUME NEW i \in Idles PROVE i \in 1..childCount
        BY <2>1, <2>2, <3>1, SlotsFinite DEF Idles, Slots
      <3>2. 1..childCount \subseteq Slots
        BY <2>1, SlotsFinite DEF Slots
      <3>3. QED
        BY <3>1, <3>2 DEF Idles
    <2>4. QED
      BY <2>2, <2>3 DEF Jobs, Idles
  <1>2. Inv /\ Jobs /\ [Next]_vars => (Inv /\ Jobs)'
    BY NextInv, NextJobs
  <1>3. Init => Inv /\ Jobs
    BY InitInv, InitJobs
  <1>4. QED
    BY <1>1, <1>2, <1>3, PTL DEF Spec

-----------------------------------------------------------------------------
(* Types and ranges.                                                       *)

\* What readFile makes of a file it accepts.
LEMMA FileFacts ==
    ASSUME NEW f \in Files, ~Unusable(f), NEW old \in [MaxNames -> Names \cup {Self}]
    PROVE  /\ Cardinality(Kept(f)) \in 0..Cardinality(Names)
           /\ Fill(f, old) \in [MaxNames -> Names \cup {Self}]
  <1>1. f \in Seq(Names \cup {Self}) /\ Len(f) \in Nat
    BY FilesAssumption, LenProperties
  <1>2. ASSUME NEW k \in Kept(f) PROVE k \in 1..Len(f) /\ f[k] \in Names
    <2>1. k \in 1..Len(f) /\ f[k] \in Names \cup {Self}
      BY <1>1, ElementOfSeq DEF Kept
    <2>2. QED
      BY <2>1 DEF Unusable
  <1>3. Cardinality(Kept(f)) \in 0..Cardinality(Names)
    <2>1. IsFiniteSet(Kept(f)) /\ Cardinality(Kept(f)) \in Nat
      <3>1. Kept(f) \subseteq 1..Len(f) /\ IsFiniteSet(1..Len(f))
        BY <1>1, FS_Interval DEF Kept
      <3>2. QED
        BY <3>1, FS_Subset, FS_CardinalityType
    <2>2. IsFiniteSet(Names) /\ Cardinality(Names) \in Nat
      BY NamesAssumption, FS_CardinalityType
    <2> DEFINE g == [k \in Kept(f) |-> f[k]]
    <2>3. g \in Injection(Kept(f), Names)
      <3>1. g \in [Kept(f) -> Names]
        BY <1>2
      <3>2. ASSUME NEW j \in Kept(f), NEW k \in Kept(f), f[j] = f[k] PROVE j = k
        <4>1. j \in 1..Len(f) /\ k \in 1..Len(f) /\ ~(j \in 1..(k-1)) /\ ~(k \in 1..(j-1))
          BY <3>2 DEF Kept
        <4>2. QED
          BY <1>1, <4>1
      <3>3. QED
        BY <3>1, <3>2 DEF Injection, IsInjective
    <2>4. Cardinality(Kept(f)) <= Cardinality(Names)
      BY <2>1, <2>2, <2>3, FS_Injection DEF ExistsInjection
    <2>5. QED
      BY <2>1, <2>2, <2>4
  <1>4. ASSUME NEW n \in MaxNames
        PROVE  (IF \E k \in Kept(f) : Rank(f, k) = n
                  THEN f[CHOOSE k \in Kept(f) : Rank(f, k) = n] ELSE old[n]) \in Names \cup {Self}
    <2>1. CASE \E k \in Kept(f) : Rank(f, k) = n
      <3>1. (CHOOSE k \in Kept(f) : Rank(f, k) = n) \in Kept(f)
        BY <2>1
      <3>2. QED
        BY <1>2, <2>1, <3>1
    <2>2. QED
      BY <2>1
  <1>5. QED
    BY <1>3, <1>4 DEF Fill

\* The conjuncts of TypeOK that Places does not have; while the loops walk the
\* names idx is one of them, so that the next round stays within the bound.
MostNames == Cardinality(Names)
Cursor ==
    /\ idx \in 1..(MaxChildren + MostNames + 2)
    /\ pc \in {"pick", "fork", "writeHeader", "writeBody"} => idx <= MostNames
    /\ cut \in BOOLEAN /\ cur \in Pids \cup {0} /\ target \in 0..childCount
Config == monitorProcs \in [MaxNames -> Names \cup {Self}] /\ procCount \in 0..MostNames
Counts ==
    /\ idleChildCount \in Nat /\ killCount \in Nat /\ hups \in Nat /\ spawns \in Nat
    /\ forkFails \in Nat /\ cutReads \in Nat /\ kills \in Nat
    /\ grown \in BOOLEAN /\ from \in HalfDone \cup {"handle", "whole", "none"}
Mail ==
    /\ hand \in Answers \cup {"none"} /\ m_pid \in [Slots -> Pids \cup {0, Junk}]
    /\ p2c \in [Slots -> Seq(Asks)]
    /\ job \in [Slots -> Pids \cup {0}] /\ msgVal \in [Slots -> {0, 1}]
    /\ proc \in [Pids -> {"unused", "alive", "gone"}]
Ranges == Cursor /\ Config /\ Counts /\ Mail

LEMMA NamesCount == MostNames \in Nat /\ MaxChildren \in Nat
  BY NamesAssumption, BoundsAssumption, FS_CardinalityType DEF MostNames

LEMMA RoundRanges ==
    ASSUME Inv, Ranges, NEW sc, Continue(sc), idx <= MostNames, UNCHANGED <<childCount, cut>>,
           \/ UNCHANGED <<cur, target>>
           \/ cur' = 0 /\ target' = 0
    PROVE  Cursor'
  <1>1. childCount \in Nat
    BY DEF Inv, Places
  <1>2. QED
    BY <1>1, NamesCount DEF Ranges, Cursor, Continue

LEMMA ScanRanges == ASSUME Inv, Ranges, Scan PROVE Ranges'
  <1>1. UNCHANGED <<cur, target, childCount>> /\ cut' = FALSE /\ idx \in Nat \ {0}
        /\ childCount \in 0..MaxChildren /\ pc = "scan" /\ cut' \in BOOLEAN
    BY Zenon DEF Scan, Inv, Places
  <1>2. Cursor'
    <2>1. CASE EndOfNames
      <3>1. pc' = "poll" /\ idx' = 1
        BY <2>1 DEF Scan
      <3>2. QED
        BY <1>1, <3>1, NamesCount DEF Ranges, Cursor
    <2>2. CASE ~EndOfNames
      <3>1. idx <= MostNames
        BY <1>1, <2>2, NamesCount DEF EndOfNames, Ranges, Config
      <3>2. PICK sc : Continue(sc)
        BY <2>2 DEF Scan
      <3>3. QED
        <4>1. \/ pc' = "scan" /\ idx' = idx + 1
              \/ pc' = "pick" /\ idx' = idx
          BY <3>2 DEF Continue
        <4>2. QED
          BY <1>1, <3>1, <4>1, NamesCount DEF Ranges, Cursor
    <2>3. QED
      BY <2>1, <2>2
  <1>3. UNCHANGED <<hand, cfgVars, idleChildCount, killCount, m_pid, p2c, childVars,
                    sigVars, envVars, forkFails>>
    BY DEF Scan
  <1>4. QED
    BY <1>2, <1>3 DEF Ranges, Config, Counts, Mail, cfgVars, childVars, sigVars, envVars

LEMMA PickRanges == ASSUME Inv, Ranges, PickProcess PROVE Ranges'
  <1>1. /\ pc = "pick" /\ scan \subseteq Pids /\ childCount \in 0..MaxChildren /\ idx <= MostNames
        /\ UNCHANGED <<cut, hand, cfgVars, killCount, p2c, childVars, sigVars, envVars,
                       forkFails>>
    BY DEF PickProcess, Inv, Places, Ranges, Cursor
  <1>2. PICK p \in scan :
          \/ Continue(scan \ {p}) /\ UNCHANGED <<cur, target, childCount, idleChildCount, m_pid>>
          \/ NewChild(p)
          \/ IdleChild(p) /\ idleChildCount > 0
    BY DEF PickProcess
  <1>3. Cursor'
    <2>1. CASE Continue(scan \ {p}) /\ UNCHANGED <<cur, target, childCount>>
      BY <1>1, <2>1, RoundRanges
    <2>2. CASE NewChild(p)
      BY <1>1, <2>2 DEF NewChild, Ranges, Cursor
    <2>3. CASE IdleChild(p)
      BY <1>1, <2>3 DEF IdleChild, IsIdleChildIndex, Ranges, Cursor, Slots
    <2>4. QED
      BY <1>2, <2>1, <2>2, <2>3
  <1>4. idleChildCount' \in Nat /\ m_pid' \in [Slots -> Pids \cup {0, Junk}]
    <2>1. CASE UNCHANGED <<idleChildCount, m_pid>>
      BY <2>1 DEF Ranges, Counts, Mail
    <2>2. CASE IdleChild(p) /\ idleChildCount > 0
      BY <1>1, <2>2 DEF IdleChild, Ranges, Counts, Mail
    <2>3. QED
      BY <1>2, <2>1, <2>2 DEF NewChild
  <1>5. QED
    BY <1>1, <1>3, <1>4 DEF Ranges, Config, Counts, Mail, cfgVars, childVars, sigVars, envVars

LEMMA ForkRanges == ASSUME Inv, Jobs, Ranges, Fork PROVE Ranges'
  <1>1. /\ pc = "fork" /\ childCount \in 0..MaxChildren /\ idx <= MostNames /\ cur \in Pids
        /\ UNCHANGED <<cut, hand, cfgVars, childCount, idleChildCount, killCount, p2c, job,
                       msgVal, kills, sigVars, envVars>>
    BY DEF Fork, Inv, Places, Jobs, ParentPcs, Ranges, Cursor
  <1>2. \/ /\ m_pid' = [m_pid EXCEPT ![target] = cur] /\ pc' = "writeHeader"
           /\ UNCHANGED <<idx, cur, target, forkFails>>
        \/ /\ forkFails' = forkFails + 1 /\ Continue(scan) /\ cur' = 0 /\ target' = 0
           /\ UNCHANGED m_pid
    BY DEF Fork
  <1>3. Cursor'
    <2>1. CASE pc' = "writeHeader" /\ UNCHANGED <<idx, cur, target>>
      BY <1>1, <2>1 DEF Ranges, Cursor
    <2>2. CASE Continue(scan) /\ cur' = 0 /\ target' = 0
      BY <1>1, <2>2, RoundRanges
    <2>3. QED
      BY <1>2, <2>1, <2>2
  <1>4. forkFails' \in Nat /\ m_pid' \in [Slots -> Pids \cup {0, Junk}]
    BY <1>1, <1>2 DEF Ranges, Counts, Mail
  <1>5. QED
    BY <1>1, <1>3, <1>4 DEF Ranges, Config, Counts, Mail, cfgVars, sigVars, envVars

LEMMA WriteRanges == ASSUME Inv, Ranges, WriteHeader \/ WriteBody PROVE Ranges'
  <1>1. /\ pc \in {"writeHeader", "writeBody"} /\ childCount \in 0..MaxChildren
        /\ idx <= MostNames
        /\ UNCHANGED <<cut, hand, cfgVars, countVars, childVars, sigVars, envVars, forkFails>>
    BY DEF WriteHeader, WriteBody, posVars, Inv, Places, Ranges, Cursor
  <1>2. Cursor'
    <2>1. CASE WriteHeader
      BY <1>1, <2>1 DEF WriteHeader, posVars, countVars, Ranges, Cursor
    <2>2. CASE WriteBody
      <3>1. Continue(scan) /\ cur' = 0 /\ target' = 0 /\ UNCHANGED <<childCount, cut>>
        BY <1>1, <2>2 DEF WriteBody, countVars
      <3>2. QED
        BY <1>1, <3>1, RoundRanges
    <2>3. QED
      BY <2>1, <2>2
  <1>3. p2c' \in [Slots -> Seq(Asks)]
    <2>1. cur \in Pids \cup {0} /\ p2c \in [Slots -> Seq(Asks)]
      BY DEF Ranges, Cursor, Mail
    <2>2. Header(cur) \in Asks /\ Body(cur) \in Asks
      BY <2>1 DEF Asks, Halves, Exit
    <2>3. PICK h \in Asks : p2c' = [p2c EXCEPT ![target] = Append(@, h)]
      BY <2>2 DEF WriteHeader, WriteBody
    <2>4. \A q \in Seq(Asks) : Append(q, h) \in Seq(Asks)
      BY AppendProperties
    <2>5. QED
      BY <2>1, <2>3, <2>4
  <1>4. QED
    BY <1>1, <1>2, <1>3
       DEF Ranges, Config, Counts, Mail, cfgVars, countVars, childVars, sigVars, envVars

LEMMA HalfSecond == \A h \in Half : h[2] \in Answers
  BY DEF Half, Halves, Header, Body

LEMMA TakeRanges ==
    ASSUME Counts, Mail, NEW i, NEW m, TakeMessage(i, m)
    PROVE  /\ idleChildCount' \in Nat /\ killCount' \in Nat
           /\ m_pid' \in [Slots -> Pids \cup {0, Junk}]
  <1>1. CASE m \in {"available0", "available1"}
    <2>1. killCount' \in {killCount, killCount + 1} /\ idleChildCount' = idleChildCount + 1
          /\ m_pid' = [m_pid EXCEPT ![i] = 0]
      BY <1>1 DEF TakeMessage, Counts
    <2>2. killCount' \in Nat /\ idleChildCount' \in Nat
      BY <2>1 DEF Counts
    <2>3. m_pid' \in [Slots -> Pids \cup {0, Junk}]
      BY <2>1 DEF Mail
    <2>4. QED
      BY <2>2, <2>3
  <1>2. CASE m \notin {"available0", "available1"}
    BY <1>2 DEF TakeMessage, Counts, Mail
  <1>3. QED
    BY <1>1, <1>2

\* The steps of parentLoop and of the handlers that put idx behind a child.
LEMMA PollRanges ==
    ASSUME Inv, Ranges, ReadHeader \/ ReadBody \/ HandleMessage PROVE Ranges'
  <1>1. /\ childCount \in 0..MaxChildren /\ idx \in Nat \ {0}
        /\ pc = "handle" => idx \in 1..childCount
        /\ UNCHANGED <<cut, cur, target, cfgVars, childCount, p2c, childVars, sigVars, envVars,
                       forkFails>>
    BY DEF ReadHeader, ReadBody, HandleMessage, Inv, Places, countVars
  <1>2. Cursor'
    <2>1. /\ idx' \in {1, idx} \/ (idx' = idx + 1 /\ idx <= childCount)
          /\ pc' \in {"scan", "poll", "body", "handle", "dead"}
      BY <1>1 DEF ReadHeader, ReadBody, HandleMessage, Misread
    <2>2. QED
      BY <1>1, <2>1, NamesCount DEF Ranges, Cursor
  <1>3. hand' \in Answers \cup {"none"}
    <2>1. CASE ReadHeader \/ HandleMessage
      BY <2>1 DEF ReadHeader, HandleMessage, Ranges, Mail
    <2>2. CASE ReadBody
      <3>1. idx \in Slots /\ c2p[idx] # <<>> /\ hand' = Head(c2p[idx])[2]
        BY <2>2, SlotsFinite DEF ReadBody, Inv, Places, Slots
      <3>2. Head(c2p[idx]) \in Half
        <4>1. c2p[idx] \in Seq(Half)
          BY <3>1 DEF Inv, Places, Half
        <4>2. QED
          BY <3>1, <4>1, HeadTailProperties
      <3>3. QED
        BY <3>1, <3>2, HalfSecond
    <2>3. QED
      BY <2>1, <2>2
  <1>4. /\ idleChildCount' \in Nat /\ killCount' \in Nat
        /\ m_pid' \in [Slots -> Pids \cup {0, Junk}]
    <2>1. CASE ReadHeader \/ ReadBody
      BY <2>1 DEF ReadHeader, ReadBody, countVars, Ranges, Counts, Mail
    <2>2. CASE HandleMessage
      BY <2>2, TakeRanges DEF HandleMessage, Ranges
    <2>3. QED
      BY <2>1, <2>2
  <1>5. QED
    BY <1>1, <1>2, <1>3, <1>4 DEF Ranges, Config, Counts, Mail, cfgVars, childVars, sigVars, envVars

LEMMA SighupRanges == ASSUME Inv, Ranges, Sighup PROVE Ranges'
  <1>1. /\ UNCHANGED <<cur, target, hand, countVars, p2c, childVars, from, envVars, forkFails>>
        /\ childCount \in 0..MaxChildren /\ hups' = hups + 1
        /\ pc \in {"body", "hBody"} => idx \in 1..childCount
    BY DEF Sighup, Inv, Places, countVars
  <1>2. PICK f \in Files :
          \/ /\ pc' = "dead"
             /\ UNCHANGED <<cfgVars, cut, idx, cutReads, grown>>
          \/ /\ ~Unusable(f)
             /\ monitorProcs' = Fill(f, monitorProcs)
             /\ procCount' = Cardinality(Kept(f))
             /\ grown' = (grown \/ (phase = "init" /\ procCount' > procCount))
             /\ Interrupted \/ UNCHANGED <<pc, cut, idx, cutReads>>
    BY Zenon DEF Sighup
  <1>3. cut' \in BOOLEAN /\ grown' \in BOOLEAN
    <2>1. cut' = TRUE \/ cut' = cut
      BY <1>2, InterruptedMoves, Zenon DEF Inv
    <2>2. QED
      BY <1>2, <2>1, Zenon DEF Ranges, Cursor, Counts
  <1>4. /\ \/ idx' = idx /\ pc' \in {pc, "header", "dead"}
           \/ idx' \in 1..childCount /\ pc' = "hHeader"
           \/ idx \in 1..childCount /\ idx' = idx + 1 /\ pc' \in {"poll", "hWait"}
        /\ cutReads' = cutReads \/ cutReads' = cutReads + 1
    BY <1>2, InterruptedMoves DEF Inv
  <1>5. Cursor'
    BY <1>1, <1>3, <1>4, NamesCount DEF countVars, Ranges, Cursor
  <1>6. Config'
    <2>1. CASE UNCHANGED cfgVars
      BY <2>1 DEF cfgVars, Ranges, Config
    <2>2. CASE /\ ~Unusable(f)
               /\ monitorProcs' = Fill(f, monitorProcs)
               /\ procCount' = Cardinality(Kept(f))
      BY <2>2, FileFacts DEF Ranges, Config, MostNames
    <2>3. QED
      BY <1>2, <2>1, <2>2
  <1>7. Counts'
    BY <1>1, <1>3, <1>4 DEF Ranges, Counts, countVars, childVars, envVars
  <1>8. Mail'
    BY <1>1 DEF Ranges, Mail, countVars, childVars, envVars
  <1>9. QED
    BY <1>5, <1>6, <1>7, <1>8 DEF Ranges

LEMMA SigintRanges == ASSUME Inv, Ranges, Sigint PROVE Ranges'
  <1>1. /\ pc' = "hSend" /\ idx' = 1 /\ cut' = FALSE /\ cur' = 0 /\ hand' = "none"
        /\ from' \in HalfDone \cup {"handle", "whole"}
        /\ UNCHANGED <<target, cfgVars, countVars, p2c, job, msgVal, kills, hups, cutReads,
                       grown, envVars, forkFails>>
    BY DEF Sigint
  <1>2. cut' \in BOOLEAN
    BY <1>1, Zenon
  <1>3. Cursor'
    BY <1>1, <1>2, NamesCount DEF countVars, Ranges, Cursor
  <1>4. QED
    BY <1>1, <1>3 DEF Ranges, Config, Counts, Mail, cfgVars, countVars, envVars

\* What the SIGINT handler and a child caught in it append to a pipe.
LEMMA ExitMessage ==
    /\ Message(Exit) \in Seq(Asks)
    /\ \A q \in Seq(Asks) :
          /\ q \o Message(Exit) \in Seq(Asks)
          /\ Len(q \o Message(Exit)) = Len(q) + 2
          /\ \A k \in 1..Len(q) : (q \o Message(Exit))[k] = q[k]
          /\ \A k \in 1..(Len(q) + 2) : k > Len(q) => (q \o Message(Exit))[k][2] = Exit
  <1>1. Header(Exit) \in Asks /\ Body(Exit) \in Asks
    BY DEF Asks, Halves
  <1>2. Message(Exit) \in Seq(Asks) /\ Len(Message(Exit)) = 2
        /\ Message(Exit)[1][2] = Exit /\ Message(Exit)[2][2] = Exit
    BY <1>1 DEF Message, Header, Body
  <1>3. ASSUME NEW q \in Seq(Asks)
        PROVE  /\ q \o Message(Exit) \in Seq(Asks)
               /\ Len(q \o Message(Exit)) = Len(q) + 2
               /\ \A k \in 1..Len(q) : (q \o Message(Exit))[k] = q[k]
               /\ \A k \in 1..(Len(q) + 2) : k > Len(q) => (q \o Message(Exit))[k][2] = Exit
    <2> DEFINE m == Message(Exit)
               r == q \o m
    <2>1. m \in Seq(Asks) /\ Len(m) = 2 /\ \A k \in 1..2 : m[k][2] = Exit
      <3>1. \A k \in 1..2 : k = 1 \/ k = 2
        OBVIOUS
      <3>2. QED
        BY <1>2, <3>1
    <2> HIDE DEF m
    <2>2. /\ r \in Seq(Asks) /\ Len(r) = Len(q) + 2 /\ Len(q) \in Nat
          /\ \A k \in 1..(Len(q) + 2) : r[k] = IF k <= Len(q) THEN q[k] ELSE m[k - Len(q)]
      <3>1. /\ r \in Seq(Asks) /\ Len(r) = Len(q) + Len(m)
            /\ \A k \in 1..(Len(q) + Len(m)) :
                  r[k] = IF k <= Len(q) THEN q[k] ELSE m[k - Len(q)]
        BY <2>1, ConcatProperties
      <3>2. QED
        BY <2>1, <3>1, LenProperties
    <2>3. \A k \in 1..Len(q) : r[k] = q[k]
      BY <2>2
    <2>4. ASSUME NEW k \in 1..(Len(q) + 2), k > Len(q) PROVE r[k][2] = Exit
      <3>1. r[k] = m[k - Len(q)] /\ k - Len(q) \in 1..2
        BY <2>2, <2>4
      <3>2. QED
        BY <2>1, <3>1
    <2>5. QED
      BY <2>2, <2>3, <2>4 DEF m
  <1>4. QED
    BY <1>2, <1>3

LEMMA HandlerRanges ==
    ASSUME Inv, Ranges, SendExit \/ WaitHeader \/ WaitBody \/ WaitOnJunk \/ Finish
    PROVE  Ranges'
  <1>1. /\ childCount \in 0..MaxChildren /\ UNCHANGED <<cut, cur, target, hand, cfgVars,
           childCount, childVars, from, hups, cutReads, grown, envVars, forkFails>>
    BY DEF SendExit, WaitHeader, WaitBody, WaitOnJunk, Finish, posVars, countVars, sigVars,
           Inv, Places
  <1>2. Cursor'
    <2>1. /\ pc' \in {"hWait", "hBody", "done", "dead"}
          /\ idx' = idx \/ idx' \in 1..childCount
      BY DEF SendExit, WaitHeader, WaitBody, WaitOnJunk, Finish, Misread, posVars
    <2>2. QED
      BY <1>1, <2>1, NamesCount DEF Ranges, Cursor
  <1>3. p2c' \in [Slots -> Seq(Asks)]
    <2>1. CASE SendExit
      BY <2>1, ExitMessage DEF SendExit, Ranges, Mail
    <2>2. CASE WaitHeader \/ WaitBody \/ WaitOnJunk \/ Finish
      BY <2>2 DEF WaitHeader, WaitBody, WaitOnJunk, Finish, Ranges, Mail
    <2>3. QED
      BY <2>1, <2>2
  <1>4. /\ idleChildCount' \in Nat /\ killCount' \in Nat
        /\ m_pid' \in [Slots -> Pids \cup {0, Junk}]
    <2>1. CASE WaitBody
      <3>1. PICK m : TakeMessage(idx, m)
        BY <2>1 DEF WaitBody
      <3>2. QED
        BY <3>1, TakeRanges DEF Ranges
    <2>2. CASE SendExit \/ WaitHeader \/ WaitOnJunk \/ Finish
      BY <2>2 DEF SendExit, WaitHeader, WaitOnJunk, Finish, countVars, Ranges, Counts, Mail
    <2>3. QED
      BY <2>1, <2>2
  <1>5. QED
    BY <1>1, <1>2, <1>3, <1>4
       DEF Ranges, Config, Counts, Mail, cfgVars, childVars, envVars

\* A pipe without its first message.
LEMMA TailTail ==
    ASSUME NEW S, NEW q \in Seq(S), Len(q) >= 2
    PROVE  /\ q[1] \in S /\ Tail(Tail(q)) \in Seq(S)
           /\ Len(Tail(Tail(q))) = Len(q) - 2
           /\ \A k \in 1..(Len(q) - 2) : Tail(Tail(q))[k] = q[k + 2]
  <1>1. Len(q) \in Nat /\ q # <<>>
    BY LenProperties, EmptySeq
  <1>2. /\ q[1] \in S /\ Tail(q) \in Seq(S) /\ Len(Tail(q)) = Len(q) - 1
        /\ \A k \in 1..(Len(q) - 1) : Tail(q)[k] = q[k + 1]
    BY <1>1, HeadTailProperties
  <1>3. Tail(q) # <<>>
    <2>1. Len(Tail(q)) # 0
      BY <1>1, <1>2
    <2>2. QED
      BY <1>2, <2>1, EmptySeq
  <1>4. /\ Tail(Tail(q)) \in Seq(S) /\ Len(Tail(Tail(q))) = Len(q) - 2
        /\ \A k \in 1..(Len(q) - 2) : Tail(Tail(q))[k] = Tail(q)[k + 1]
    <2>1. /\ Tail(Tail(q)) \in Seq(S) /\ Len(Tail(Tail(q))) = Len(Tail(q)) - 1
          /\ \A k \in 1..(Len(Tail(q)) - 1) : Tail(Tail(q))[k] = Tail(q)[k + 1]
      BY <1>2, <1>3, HeadTailProperties
    <2>2. QED
      BY <1>1, <1>2, <2>1
  <1>5. \A k \in 1..(Len(q) - 2) : Tail(q)[k + 1] = q[k + 2]
    BY <1>1, <1>2
  <1>6. QED
    BY <1>2, <1>4, <1>5

LEMMA ChildRanges == ASSUME Inv, Ranges, NEW i \in Slots, Child(i) PROVE Ranges'
  <1>1. UNCHANGED parentOnly
    BY DEF Child, IgnoreSignals, ChildRead, MonitorProcess, ChildWrite, ChildHandler
  <1>2. /\ p2c \in [Slots -> Seq(Asks)] /\ job \in [Slots -> Pids \cup {0}]
        /\ msgVal \in [Slots -> {0, 1}] /\ kills \in Nat
        /\ proc \in [Pids -> {"unused", "alive", "gone"}]
    BY DEF Ranges, Counts, Mail
  <1>3. /\ p2c' \in [Slots -> Seq(Asks)] /\ job' \in [Slots -> Pids \cup {0}]
        /\ msgVal' \in [Slots -> {0, 1}] /\ kills' \in Nat
        /\ proc' \in [Pids -> {"unused", "alive", "gone"}]
    <2>1. CASE IgnoreSignals(i)
      BY <1>2, <2>1 DEF IgnoreSignals
    <2>2. CASE ChildRead(i)
      <3>1. p2c[i] \in Seq(Asks) /\ Len(p2c[i]) >= 2
        BY <1>2, <2>2 DEF ChildRead
      <3>2. p2c[i][1] \in Asks /\ Tail(Tail(p2c[i])) \in Seq(Asks)
        BY <3>1, TailTail
      <3>3. p2c[i][1][2] \in Pids \cup {0}
        BY <3>2 DEF Asks, Halves, Header, Body, Exit
      <3>4. QED
        BY <1>2, <2>2, <3>2, <3>3 DEF ChildRead
    <2>3. CASE MonitorProcess(i)
      <3>1. CASE UNCHANGED <<proc, msgVal, kills>>
        BY <1>2, <2>3, <3>1 DEF MonitorProcess
      <3>2. CASE /\ proc' = [proc EXCEPT ![job[i]] = "gone"]
                 /\ msgVal' = [msgVal EXCEPT ![i] = 1] /\ kills' = kills + 1
        <4>1. kills' \in Nat
          BY <1>2, <3>2
        <4>2. /\ msgVal' \in [Slots -> {0, 1}]
              /\ proc' \in [Pids -> {"unused", "alive", "gone"}]
          BY <1>2, <3>2
        <4>3. QED
          BY <1>2, <2>3, <4>1, <4>2 DEF MonitorProcess
      <3>3. QED
        BY <2>3, <3>1, <3>2 DEF MonitorProcess
    <2>4. CASE ChildWrite(i)
      BY <1>2, <2>4 DEF ChildWrite
    <2>5. CASE ChildHandler(i)
      <3>1. p2c' = p2c \/ p2c' = [j \in Slots |-> IF j <= i THEN p2c[j] \o Message(Exit)
                                                           ELSE p2c[j]]
        BY <2>5 DEF ChildHandler
      <3>2. p2c' \in [Slots -> Seq(Asks)]
        BY <1>2, <3>1, ExitMessage
      <3>3. QED
        BY <1>2, <2>5, <3>2 DEF ChildHandler
    <2>6. QED
      BY <2>1, <2>2, <2>3, <2>4, <2>5 DEF Child
  <1>4. QED
    BY <1>1, <1>3
       DEF parentOnly, posVars, cfgVars, countVars, sigVars, Ranges, Cursor, Config, Counts, Mail

LEMMA InitRanges == Init => Ranges
  <1> SUFFICES ASSUME Init PROVE Ranges
    OBVIOUS
  <1>1. PICK f \in Files : /\ ~Unusable(f)
                           /\ monitorProcs = Fill(f, [n \in MaxNames |-> Self])
                           /\ procCount = Cardinality(Kept(f))
    BY DEF Init
  <1>2. Config
    BY <1>1, FileFacts DEF Config, MostNames
  <1>3. cut \in BOOLEAN /\ grown \in BOOLEAN
    BY Zenon DEF Init
  <1>4. Cursor
    BY <1>3, NamesCount DEF Init, Cursor
  <1>5. Counts
    BY <1>3 DEF Init, Counts
  <1>6. Mail
    BY EmptySeq DEF Init, Mail
  <1>7. QED
    BY <1>2, <1>4, <1>5, <1>6 DEF Ranges

LEMMA NextRanges == Inv /\ Jobs /\ Ranges /\ [Next]_vars => Ranges'
  <1> SUFFICES ASSUME Inv, Jobs, Ranges, [Next]_vars PROVE Ranges'
    OBVIOUS
  <1>1. CASE Parent
    BY <1>1, ScanRanges, PickRanges, ForkRanges, WriteRanges, PollRanges, HandlerRanges
       DEF Parent
  <1>2. ASSUME NEW i \in Slots, Child(i) PROVE Ranges'
    BY <1>2, ChildRanges
  <1>3. CASE Sighup \/ Sigint
    BY <1>3, SighupRanges, SigintRanges
  <1>4. CASE Spawn \/ ProcessExit \/ UNCHANGED vars
    <2>1. /\ UNCHANGED <<pc, posVars, cfgVars, countVars, p2c, childVars, sigVars, forkFails>>
          /\ spawns' \in Nat /\ proc' \in [Pids -> {"unused", "alive", "gone"}]
      <3>1. CASE Spawn
        BY <3>1 DEF Spawn, Ranges, Counts, Mail
      <3>2. CASE ProcessExit
        BY <3>2 DEF ProcessExit, Ranges, Counts, Mail
      <3>3. CASE UNCHANGED vars
        BY <3>3 DEF vars, envVars, Ranges, Counts, Mail
      <3>4. QED
        BY <1>4, <3>1, <3>2, <3>3
    <2>2. QED
      BY <2>1 DEF Ranges, Cursor, Config, Counts, Mail, posVars, cfgVars, countVars, childVars,
                  sigVars
  <1>5. QED
    BY <1>1, <1>2, <1>3, <1>4 DEF Next

\* Types and ranges of version 2: among them that the loops stay within the
\* arrays they walk although a SIGHUP replaces the list under them, and that
\* no more children are counted as exited than there are.
THEOREM TypeCorrect == Spec => []TypeOK
  <1>1. Inv /\ Ranges => TypeOK
    <2> SUFFICES ASSUME Inv, Ranges PROVE TypeOK
      OBVIOUS
    <2>1. cpc \in [Slots -> {"none", "forked", "read", "sleep", "gone", "lost",
                             "handler", "taking"} \cup DOMAIN AfterWrite]
      <3>1. DOMAIN AfterWrite = {"availableHeader", "availableBody", "exitHeader", "exitBody"}
        BY DEF AfterWrite
      <3>2. QED
        BY <3>1 DEF Inv, Places, ChildPcs
    <2>2. cut \in BOOLEAN /\ grown \in BOOLEAN
      BY DEF Ranges, Cursor, Counts
    <2>3. /\ {idleChildCount, killCount, poolCap} \subseteq Nat
          /\ {hups, spawns, forkFails, cutReads, kills} \subseteq Nat
      BY DEF Inv, Places, Ranges, Counts
    <2>4. exited \in 0..childCount
      BY HeardCounted
    <2>5. QED
      BY <2>1, <2>2, <2>3, <2>4
         DEF TypeOK, Inv, Places, Ranges, Cursor, Config, Counts, Mail, MostNames, Asks
  <1>2. Inv /\ Jobs /\ Ranges /\ [Next]_vars => (Inv /\ Jobs /\ Ranges)'
    BY NextInv, NextJobs, NextRanges
  <1>3. Init => Inv /\ Jobs /\ Ranges
    BY InitInv, InitJobs, InitRanges
  <1>4. QED
    BY <1>1, <1>2, <1>3, PTL DEF Spec

===============================================================================
