------------------------- MODULE Procnanny2TallyProofs -------------------------
(***************************************************************************)
(* The number of processes killed in the final message of version 2, for   *)
(* any names, processes, configurations and bounds.  Fresh says what of a  *)
(* request and its answer can be under way at once, also after SIGINT;     *)
(* Tally says where the kills are that killCount does not have: with a     *)
(* child that owes the parent the news, in the parent's hands, or among    *)
(* the messages the signals cut or dropped.                                *)
(***************************************************************************)
EXTENDS Procnanny2Proofs

-----------------------------------------------------------------------------
(* One answer to a request, also after SIGINT.                             *)

\* The pipe q of a child at s: nothing before the answer, one answer at most,
\* the farewell last.
Answer(q, s) ==
    /\ s \in {"none", "forked", "sleep", "availableHeader", "handler"} => Len(q) = 0
    /\ s = "availableBody" => \A k \in 1..Len(q) : IsHeader(q[k])
    /\ s = "gone" /\ Len(q) # 0 => q[Len(q)] = Body("exitComplete")
    /\ \A j, k \in 1..Len(q) : q[j] = Body("available1") /\ q[k] = Body("available1") => j = k

\* The pipe p to it: a request is the first thing in it, and not answered yet.
Ask(p, q, s) ==
    \A k \in 1..Len(p) :
        p[k][2] # Exit => /\ k \in {1, 2}
                          /\ s \in {"forked", "read", "lost", "handler", "taking"}
                          /\ s = "read" => Len(q) = 0

Fresh == \A i \in Slots : Answer(c2p[i], cpc[i]) /\ Ask(p2c[i], c2p[i], cpc[i])

\* Before SIGINT this is what Jobs says.
LEMMA JobsFresh == ASSUME Inv, Jobs, pc \in ParentPcs PROVE Fresh
  <1> SUFFICES ASSUME NEW i \in Slots
               PROVE  Answer(c2p[i], cpc[i]) /\ Ask(p2c[i], c2p[i], cpc[i])
    BY DEF Fresh
  <1> DEFINE p == p2c[i]   q == c2p[i]   s == cpc[i]
  <1>1. /\ Shape(i) /\ q \in Seq(Half) /\ Len(q) \in Nat /\ Piped(q, s) /\ s \in ChildPcs
        /\ p \in Seq(Asks) /\ pc \in {"writeHeader", "writeBody"} => cur \in Pids
    BY LenProperties DEF Inv, Places, Pipes, Jobs, Half
  <1>2. CASE Len(q) = 0 /\ s \notin {"forked", "read"} /\ p = <<>>
    <2>1. Len(p) = 0
      BY <1>2
    <2>2. QED
      BY <1>2, <2>1 DEF Answer, Ask
  <1>3. CASE Len(q) = 0 /\ s \in {"forked", "read"}
             /\ (p = <<>> \/ p = <<Header(cur)>> \/ \E m \in Pids : p = Message(m))
    <2>1. \A k \in 1..Len(p) : k \in {1, 2}
      <3>1. PICK n \in {0, 1, 2} : n = Len(p)
        BY <1>3 DEF Message
      <3>2. \A k \in 1..n : k \in {1, 2}
        BY <3>1
      <3>3. QED
        BY <3>1, <3>2
    <2>2. QED
      BY <1>3, <2>1 DEF Answer, Ask
  <1>4. CASE s = "availableBody" /\ Len(q) = 1 /\ p = <<>>
    <2>1. IsHeader(q[1]) /\ q # <<>>
      <3>1. Len(q) # 0 /\ Len(q) = 1
        BY <1>4
      <3>2. q # <<>>
        BY <3>1, EmptySeq
      <3>3. QED
        BY <1>1, <1>4, <3>1, <3>2 DEF Piped
    <2>2. Len(p) = 0 /\ \A k \in 1..Len(q) : k = 1
      BY <1>4
    <2>3. QED
      BY <1>4, <2>1, <2>2 DEF Answer, Ask
  <1>5. CASE s = "read" /\ Len(q) \in {1, 2} /\ p = <<>>
    <2>1. Len(q) = 2 => (IsHeader(q[1]) <=> ~IsHeader(q[2]))
      <3>1. Len(q) = 2 => 1 \in 1..(Len(q) - 1) /\ 1 + 1 = 2
        BY <1>1
      <3>2. QED
        BY <1>1, <3>1 DEF Piped
    <2>2. Len(p) = 0 /\ \A k \in 1..Len(q) : k = 1 \/ (k = 2 /\ Len(q) = 2)
      <3>1. PICK n \in {1, 2} : n = Len(q)
        BY <1>5
      <3>2. \A k \in 1..1 : k = 1
        OBVIOUS
      <3>3. \A k \in 1..2 : k = 1 \/ k = 2
        OBVIOUS
      <3>4. QED
        BY <1>5, <3>1, <3>2, <3>3
    <2>3. ~IsHeader(Body("available1"))
      BY HalfFacts
    <2>4. QED
      BY <1>5, <2>1, <2>2, <2>3 DEF Answer, Ask
  <1>6. QED
    BY <1>1, <1>2, <1>3, <1>4, <1>5
       DEF Shape, NoChild, IdleSlot, Busy, Asked, Working, Answering, Answered

LEMMA AnswerTail ==
    ASSUME NEW q \in Seq(Half), q # <<>>, NEW s, Answer(q, s)
    PROVE  Answer(Tail(q), s)
  <1> DEFINE r == Tail(q)
  <1>1. PICK n \in Nat : n = Len(q) /\ n # 0
    BY LenProperties, EmptySeq
  <1>2. Len(r) = n - 1 /\ \A k \in 1..(n - 1) : r[k] = q[k + 1]
    BY <1>1, HeadTailProperties
  <1>3. s \notin {"none", "forked", "sleep", "availableHeader", "handler"}
    BY <1>1 DEF Answer
  <1>4. s = "availableBody" => \A k \in 1..Len(r) : IsHeader(r[k])
    BY <1>1, <1>2 DEF Answer
  <1>5. s = "gone" /\ Len(r) # 0 => r[Len(r)] = Body("exitComplete")
    <2> SUFFICES ASSUME s = "gone", n - 1 # 0 PROVE r[n - 1] = Body("exitComplete")
      BY <1>2
    <2>1. r[n - 1] = q[n - 1 + 1] /\ n - 1 + 1 = n
      BY <1>1, <1>2
    <2>2. QED
      BY <1>1, <2>1 DEF Answer
  <1>6. ASSUME NEW j \in 1..Len(r), NEW k \in 1..Len(r),
               r[j] = Body("available1"), r[k] = Body("available1")
        PROVE  j = k
    <2>1. /\ j + 1 \in 1..Len(q) /\ k + 1 \in 1..Len(q)
          /\ q[j + 1] = Body("available1") /\ q[k + 1] = Body("available1")
      BY <1>1, <1>2, <1>6
    <2>2. j + 1 = k + 1
      BY <2>1 DEF Answer
    <2>3. QED
      BY <1>1, <1>2, <2>2
  <1>7. QED
    BY <1>3, <1>4, <1>5, <1>6 DEF Answer

\* What a child writes keeps its pipe in order.
LEMMA AnswerWrite ==
    ASSUME NEW i \in Slots, cpc \in [Slots -> ChildPcs], cpc[i] \in DOMAIN AfterWrite,
           NEW q \in Seq(Half), Answer(q, cpc[i])
    PROVE  Answer(Append(q, WrittenHalf(i)), AfterWrite[cpc[i]])
  <1> DEFINE s == cpc[i]
             t == AfterWrite[s]
             h == WrittenHalf(i)
             r == Append(q, h)
  <1>1. h \in Half
    BY WriteFacts
  <1>2. PICK n \in Nat : n = Len(q)
    BY LenProperties
  <1>3. Len(r) = n + 1 /\ r[n + 1] = h /\ \A k \in 1..n : r[k] = q[k]
    BY <1>1, <1>2, AppendProperties
  <1>4. ASSUME NEW j \in 1..(n + 1), NEW k \in 1..(n + 1),
               r[j] = Body("available1"), r[k] = Body("available1"),
               h = Body("available1") => \A l \in 1..n : q[l] # Body("available1")
        PROVE  j = k
    <2>1. CASE h = Body("available1")
      <3>1. j \notin 1..n /\ k \notin 1..n
        BY <1>3, <1>4, <2>1
      <3>2. QED
        BY <1>2, <3>1
    <2>2. CASE h # Body("available1")
      <3>1. j \in 1..n /\ k \in 1..n
        BY <1>2, <1>3, <1>4, <2>2
      <3>2. QED
        BY <1>2, <1>3, <1>4, <3>1 DEF Answer
    <2>3. QED
      BY <2>1, <2>2
  <1>5. s \in {"availableHeader", "availableBody", "exitHeader", "exitBody"}
    BY DEF AfterWrite
  <1>6. CASE s = "availableHeader"
    <2>1. h = Header(Available(msgVal[i])) /\ t = "availableBody" /\ n = 0
      BY <1>2, <1>6 DEF WrittenHalf, AfterWrite, Answer
    <2>2. \A k \in 1..Len(r) : IsHeader(r[k])
      BY <1>2, <1>3, <2>1, HalfFacts
    <2>3. \A k \in 1..Len(r) : r[k] # Body("available1")
      BY <2>2, HalfFacts
    <2>4. QED
      BY <2>1, <2>2, <2>3 DEF Answer
  <1>7. CASE s = "availableBody"
    <2>1. t = "read" /\ \A l \in 1..n : q[l] # Body("available1")
      BY <1>2, <1>7, HalfFacts DEF AfterWrite, Answer
    <2>2. QED
      BY <1>3, <1>4, <2>1 DEF Answer
  <1>8. CASE s = "exitHeader"
    <2>1. h = Header("exitComplete") /\ t = "exitBody"
      BY <1>8 DEF WrittenHalf, AfterWrite
    <2>2. h # Body("available1")
      BY <2>1, HalfFacts
    <2>3. QED
      BY <1>3, <1>4, <2>1, <2>2 DEF Answer
  <1>9. CASE s = "exitBody"
    <2>1. h = Body("exitComplete") /\ t = "gone"
      BY <1>9 DEF WrittenHalf, AfterWrite
    <2>2. h # Body("available1")
      BY <2>1 DEF Body
    <2>3. QED
      BY <1>3, <1>4, <2>1, <2>2 DEF Answer
  <1>10. QED
    BY <1>5, <1>6, <1>7, <1>8, <1>9

\* A child that writes nothing: it goes where nothing is asked of its pipe, or
\* the pipe is empty.
LEMMA AnswerSilent ==
    ASSUME NEW q, NEW s, NEW t, Answer(q, s),
           t \in {"read", "exitHeader", "lost", "taking"} \/ Len(q) = 0
    PROVE  Answer(q, t)
  <1>1. CASE t \in {"read", "exitHeader", "lost", "taking"}
    BY <1>1 DEF Answer
  <1>2. CASE Len(q) = 0
    BY <1>2 DEF Answer
  <1>3. QED
    BY <1>1, <1>2

LEMMA AskExit ==
    ASSUME NEW p \in Seq(Asks), NEW q, NEW s, Ask(p, q, s)
    PROVE  Ask(p \o Message(Exit), q, s)
  <1> DEFINE r == p \o Message(Exit)
  <1>1. PICK n \in Nat : n = Len(p)
    BY LenProperties
  <1>2. Len(r) = n + 2 /\ (\A k \in 1..n : r[k] = p[k])
        /\ \A k \in 1..(n + 2) : k > n => r[k][2] = Exit
    BY <1>1, ExitMessage
  <1> HIDE DEF r
  <1>3. ASSUME NEW k \in 1..Len(r), r[k][2] # Exit PROVE k \in 1..Len(p) /\ r[k] = p[k]
    BY <1>1, <1>2, <1>3
  <1>4. Ask(r, q, s)
    BY <1>3 DEF Ask
  <1>5. QED
    BY <1>4 DEF r

\* The steps that change no pipe of the child's, or read from the other one.
LEMMA FreshKept ==
    ASSUME Inv, Ranges, Fresh, UNCHANGED p2c,
           \A i \in Slots : \/ c2p'[i] = c2p[i]
                            \/ c2p[i] # <<>> /\ c2p'[i] \in {Tail(c2p[i]), <<>>},
           \A i \in Slots : cpc'[i] = cpc[i] \/ (cpc[i] = "forked" /\ cpc'[i] = "handler")
    PROVE  Fresh'
  <1> SUFFICES ASSUME NEW i \in Slots
               PROVE  Answer(c2p'[i], cpc'[i]) /\ Ask(p2c'[i], c2p'[i], cpc'[i])
    BY DEF Fresh
  <1>1. /\ Answer(c2p[i], cpc[i]) /\ Ask(p2c[i], c2p[i], cpc[i])
        /\ c2p[i] \in Seq(Half) /\ p2c'[i] = p2c[i]
    BY DEF Fresh, Inv, Places, Half
  <1>2. Answer(c2p'[i], cpc[i])
    <2>1. Answer(<<>>, cpc[i])
      BY DEF Answer
    <2>2. QED
      BY <1>1, <2>1, AnswerTail
  <1>3. Ask(p2c[i], c2p'[i], cpc[i])
    <2>1. CASE c2p'[i] = c2p[i]
      BY <1>1, <2>1
    <2>2. CASE c2p[i] # <<>>
      <3>1. Len(c2p[i]) # 0
        BY <1>1, <2>2, EmptySeq
      <3>2. QED
        BY <1>1, <3>1 DEF Ask
    <2>3. QED
      BY <2>1, <2>2
  <1>4. CASE cpc'[i] = cpc[i]
    BY <1>1, <1>2, <1>3, <1>4
  <1>5. CASE cpc[i] = "forked" /\ cpc'[i] = "handler"
    <2>1. Len(c2p'[i]) = 0
      BY <1>2, <1>5 DEF Answer
    <2>2. Answer(c2p'[i], cpc'[i])
      BY <1>2, <2>1, AnswerSilent
    <2>3. QED
      BY <1>1, <1>3, <1>5, <2>2 DEF Ask
  <1>6. QED
    BY <1>4, <1>5

\* A step of child i that touches its own pipes only.
LEMMA FreshAt ==
    ASSUME Fresh, NEW i \in Slots, Answer(c2p'[i], cpc'[i]), Ask(p2c'[i], c2p'[i], cpc'[i]),
           \A j \in Slots \ {i} : cpc'[j] = cpc[j] /\ p2c'[j] = p2c[j] /\ c2p'[j] = c2p[j]
    PROVE  Fresh'
  BY DEF Fresh

LEMMA ChildFresh == ASSUME Inv, Ranges, Fresh, NEW i \in Slots, Child(i) PROVE Fresh'
  <1> DEFINE p == p2c[i]   q == c2p[i]   s == cpc[i]
  <1>1. /\ Answer(q, s) /\ Ask(p, q, s) /\ p \in Seq(Asks) /\ q \in Seq(Half)
        /\ cpc \in [Slots -> ChildPcs] /\ p2c \in [Slots -> Seq(Asks)]
        /\ c2p \in [Slots -> Seq(Half)]
    BY DEF Fresh, Ranges, Mail, Inv, Places, Half
  <1>2. CASE IgnoreSignals(i)
    <2>1. /\ s = "forked" /\ UNCHANGED <<p2c, c2p>> /\ cpc'[i] = "read"
          /\ \A j \in Slots \ {i} : cpc'[j] = cpc[j]
      BY <1>1, <1>2 DEF IgnoreSignals
    <2>2. Len(q) = 0 /\ Answer(q, "read")
      BY <1>1, <2>1, AnswerSilent DEF Answer
    <2>3. Ask(p, q, "read")
      BY <1>1, <2>2 DEF Ask
    <2>4. QED
      BY <2>1, <2>2, <2>3, FreshAt
  <1>3. CASE ChildRead(i)
    <2>1. s = "read" /\ UNCHANGED c2p /\ Len(p) >= 2
      BY <1>3 DEF ChildRead
    <2> DEFINE m == p[1][2]
    <2>2. CASE /\ p2c' = [p2c EXCEPT ![i] = Tail(Tail(@))]
               /\ cpc' = [cpc EXCEPT ![i] = IF m = Exit THEN "exitHeader" ELSE "sleep"]
      <3> DEFINE r == Tail(Tail(p))
                 t == IF m = Exit THEN "exitHeader" ELSE "sleep"
      <3>1. /\ Len(r) = Len(p) - 2 /\ \A k \in 1..(Len(p) - 2) : r[k] = p[k + 2]
            /\ Len(p) \in Nat
        BY <1>1, <2>1, TailTail, LenProperties
      <3>2. ASSUME NEW k \in 1..Len(r) PROVE r[k][2] = Exit
        <4>1. k + 2 \in 1..Len(p) /\ k + 2 \notin {1, 2} /\ r[k] = p[k + 2]
          BY <3>1
        <4>2. QED
          BY <1>1, <4>1 DEF Ask
      <3>3. Ask(r, q, t)
        BY <3>2 DEF Ask
      <3>4. m # Exit => Len(q) = 0
        <4>1. 1 \in 1..Len(p)
          BY <2>1, <3>1
        <4>2. QED
          BY <1>1, <2>1, <4>1 DEF Ask
      <3>5. Answer(q, t)
        BY <1>1, <3>4, AnswerSilent
      <3>6. /\ p2c'[i] = r /\ cpc'[i] = t
            /\ \A j \in Slots \ {i} : cpc'[j] = cpc[j] /\ p2c'[j] = p2c[j]
        BY <1>1, <2>2
      <3>7. QED
        BY <2>1, <3>3, <3>5, <3>6, FreshAt
    <2>3. CASE cpc' = [cpc EXCEPT ![i] = "lost"] /\ UNCHANGED p2c
      <3>1. cpc'[i] = "lost" /\ \A j \in Slots \ {i} : cpc'[j] = cpc[j]
        BY <1>1, <2>3
      <3>2. Ask(p, q, "lost") /\ Answer(q, "lost")
        BY <1>1, AnswerSilent DEF Ask
      <3>3. QED
        BY <2>1, <2>3, <3>1, <3>2, FreshAt
    <2>4. QED
      BY <1>3, <2>2, <2>3 DEF ChildRead
  <1>4. CASE MonitorProcess(i)
    <2>1. /\ s = "sleep" /\ UNCHANGED <<p2c, c2p>> /\ cpc'[i] = "availableHeader"
          /\ \A j \in Slots \ {i} : cpc'[j] = cpc[j]
      BY <1>1, <1>4 DEF MonitorProcess
    <2>2. Len(q) = 0 /\ Answer(q, "availableHeader")
      BY <1>1, <2>1, AnswerSilent DEF Answer
    <2>3. Ask(p, q, "availableHeader")
      BY <1>1, <2>1 DEF Ask
    <2>4. QED
      BY <2>1, <2>2, <2>3, FreshAt
  <1>5. CASE ChildWrite(i)
    <2> DEFINE r == Append(q, WrittenHalf(i))
               t == AfterWrite[s]
    <2>1. /\ s \in DOMAIN AfterWrite /\ UNCHANGED p2c
          /\ c2p' = [c2p EXCEPT ![i] = r] /\ cpc' = [cpc EXCEPT ![i] = t]
      BY <1>1, <1>5 DEF ChildWrite
    <2>2. Answer(r, t)
      BY <1>1, <2>1, AnswerWrite
    <2>3. Ask(p, r, t)
      <3>1. s \in {"availableHeader", "availableBody", "exitHeader", "exitBody"}
        BY <2>1 DEF AfterWrite
      <3>2. QED
        BY <1>1, <3>1 DEF Ask
    <2>4. /\ c2p'[i] = r /\ cpc'[i] = t
          /\ \A j \in Slots \ {i} : cpc'[j] = cpc[j] /\ c2p'[j] = c2p[j]
      BY <1>1, <2>1
    <2>5. QED
      BY <2>1, <2>2, <2>3, <2>4, FreshAt
  <1>6. CASE ChildHandler(i)
    <2>1. CASE /\ s = "handler" /\ cpc' = [cpc EXCEPT ![i] = "taking"] /\ UNCHANGED c2p
               /\ p2c' = [j \in Slots |-> IF j <= i THEN p2c[j] \o Message(Exit) ELSE p2c[j]]
      <3> SUFFICES ASSUME NEW j \in Slots
                   PROVE  Answer(c2p[j], cpc'[j]) /\ Ask(p2c'[j], c2p[j], cpc'[j])
        BY <2>1 DEF Fresh
      <3>1. /\ Answer(c2p[j], cpc[j]) /\ Ask(p2c[j], c2p[j], cpc[j]) /\ p2c[j] \in Seq(Asks)
            /\ p2c'[j] \in {p2c[j], p2c[j] \o Message(Exit)}
            /\ cpc'[j] = cpc[j] \/ (cpc[j] = "handler" /\ cpc'[j] = "taking")
        BY <1>1, <2>1 DEF Fresh
      <3>2. Ask(p2c'[j], c2p[j], cpc[j])
        BY <3>1, AskExit
      <3>3. CASE cpc'[j] = cpc[j]
        BY <3>1, <3>2, <3>3
      <3>4. CASE cpc[j] = "handler" /\ cpc'[j] = "taking"
        <4>1. Answer(c2p[j], "taking")
          BY <3>1, AnswerSilent
        <4>2. QED
          BY <3>2, <3>4, <4>1 DEF Ask
      <3>5. QED
        BY <3>1, <3>3, <3>4
    <2>2. ASSUME UNCHANGED <<p2c, cpc>>, NEW j \in 1..i, Len(c2p[j]) >= 2,
                 c2p' = [c2p EXCEPT ![j] = Tail(Tail(@))]
          PROVE  Fresh'
      <3>1. j \in Slots
        BY SlotsFinite DEF Slots
      <3>2. c2p[j] \in Seq(Half) /\ c2p[j] # <<>> /\ Len(c2p[j]) # 0
        <4>1. c2p[j] \in Seq(Half)
          BY <1>1, <3>1
        <4>2. QED
          BY <2>2, <4>1, LenProperties, EmptySeq
      <3>3. Tail(c2p[j]) \in Seq(Half) /\ Tail(c2p[j]) # <<>>
        BY <2>2, <3>2, HeadTailProperties, LongTail
      <3>4. Answer(c2p[j], cpc[j]) /\ Ask(p2c[j], c2p[j], cpc[j])
        BY <3>1 DEF Fresh
      <3>5. Answer(Tail(Tail(c2p[j])), cpc[j])
        BY <3>2, <3>3, <3>4, AnswerTail
      <3>6. Ask(p2c[j], Tail(Tail(c2p[j])), cpc[j])
        BY <3>2, <3>4 DEF Ask
      <3>7. c2p'[j] = Tail(Tail(c2p[j])) /\ \A k \in Slots \ {j} : c2p'[k] = c2p[k]
        BY <1>1, <2>2, <3>1
      <3>8. QED
        BY <2>2, <3>1, <3>5, <3>6, <3>7, FreshAt
    <2>3. QED
      BY <1>6, <2>1, <2>2 DEF ChildHandler
  <1>7. QED
    BY <1>2, <1>3, <1>4, <1>5, <1>6 DEF Child

LEMMA SendExitFresh == ASSUME Inv, Ranges, Fresh, SendExit PROVE Fresh'
  <1> SUFFICES ASSUME NEW i \in Slots
               PROVE  Answer(c2p'[i], cpc'[i]) /\ Ask(p2c'[i], c2p'[i], cpc'[i])
    BY DEF Fresh
  <1>1. /\ UNCHANGED <<c2p, cpc>> /\ p2c'[i] \in {p2c[i], p2c[i] \o Message(Exit)}
        /\ Answer(c2p[i], cpc[i]) /\ Ask(p2c[i], c2p[i], cpc[i]) /\ p2c[i] \in Seq(Asks)
    BY DEF SendExit, childVars, Fresh, Ranges, Mail
  <1>2. QED
    BY <1>1, AskExit

LEMMA NextFresh ==
    ASSUME Inv, Jobs, Ranges, Fresh, [Next]_vars, Inv', Jobs' PROVE Fresh'
  <1>1. CASE pc' \in ParentPcs
    <2>1. (Inv /\ Jobs /\ pc \in ParentPcs => Fresh)'
      BY JobsFresh, PTL
    <2>2. QED
      BY <1>1, <2>1
  <1>2. CASE Parent /\ pc' \notin ParentPcs
    <2>1. CASE ReadHeader
      <3>1. UNCHANGED <<p2c, c2p, cpc>>
        BY <1>2, <2>1 DEF ReadHeader, Misread, ParentPcs, childVars
      <3>2. QED
        BY <3>1, FreshKept
    <2>2. CASE SendExit
      BY <2>2, SendExitFresh
    <2>3. CASE WaitHeader
      <3>1. UNCHANGED <<p2c, cpc>>
        BY <2>3 DEF WaitHeader, childVars
      <3>2. PICK j \in Slots :
               /\ c2p[j] # <<>>
               /\ c2p' = c2p \/ c2p' = [c2p EXCEPT ![j] = Tail(@)]
                             \/ c2p' = [c2p EXCEPT ![j] = <<>>]
        <4>1. 1..childCount \subseteq Slots
          BY SlotsFinite DEF Inv, Places, Slots
        <4>2. QED
          BY <2>3, <4>1 DEF WaitHeader, Misread
      <3>3. c2p \in [Slots -> Seq(Half)]
        BY DEF Inv, Places, Half
      <3>4. QED
        BY <3>1, <3>2, <3>3, FreshKept
    <2>4. CASE WaitBody
      <3>1. UNCHANGED <<p2c, cpc>> /\ c2p[idx] # <<>> /\ c2p' = [c2p EXCEPT ![idx] = Tail(@)]
        BY <2>4 DEF WaitBody, childVars
      <3>2. c2p \in [Slots -> Seq(Half)]
        BY DEF Inv, Places, Half
      <3>3. QED
        BY <3>1, <3>2, FreshKept
    <2>5. CASE WaitOnJunk \/ Finish
      <3>1. UNCHANGED <<p2c, c2p, cpc>>
        BY <2>5 DEF WaitOnJunk, Finish, childVars
      <3>2. QED
        BY <3>1, FreshKept
    <2>6. CASE Scan \/ PickProcess \/ Fork \/ WriteHeader \/ WriteBody \/ ReadBody
               \/ HandleMessage
      BY <1>2, <2>6 DEF Scan, PickProcess, Continue, NewChild, IdleChild, Fork, WriteHeader,
                        WriteBody, ReadBody, HandleMessage, ParentPcs
    <2>7. QED
      BY <1>2, <2>1, <2>2, <2>3, <2>4, <2>5, <2>6 DEF Parent
  <1>3. ASSUME NEW i \in Slots, Child(i) PROVE Fresh'
    BY <1>3, ChildFresh
  <1>4. CASE Sighup \/ Sigint
    <2>1. UNCHANGED <<p2c, c2p>>
      BY <1>4 DEF Sighup, Sigint
    <2>2. \A i \in Slots : cpc'[i] = cpc[i] \/ (cpc[i] = "forked" /\ cpc'[i] = "handler")
      BY <1>4 DEF Sighup, Sigint, childVars
    <2>3. QED
      BY <2>1, <2>2, FreshKept
  <1>5. CASE Spawn \/ ProcessExit \/ UNCHANGED vars
    <2>1. UNCHANGED <<p2c, c2p, cpc>>
      BY <1>5 DEF Spawn, ProcessExit, vars, childVars
    <2>2. QED
      BY <2>1, FreshKept
  <1>6. QED
    BY <1>1, <1>2, <1>3, <1>4, <1>5 DEF Next

-----------------------------------------------------------------------------
(* The number in the final message.                                        *)

Sure == Body("available1")
Telling == {"availableHeader", "availableBody"}

\* Child i has killed and killCount does not have it yet: the child has to say
\* so, or what it said is in its pipe.
Owes(i) == \/ cpc[i] \in Telling /\ msgVal[i] = 1
           \/ \E k \in 1..Len(c2p[i]) : c2p[i][k] = Sure
Owing == {i \in Slots : Owes(i)}

\* The parent is in the middle of a message of child i.
Midway(i) == pc \in {"body", "hBody"} /\ idx = i

\* What the parent will come to read as the message it is.
Whole == {i \in Slots : Owes(i) /\ (Behind(c2p[i], cpc[i]) => Midway(i))}

InHand  == IF pc = "handle" /\ hand = "available1" THEN 1 ELSE 0
Dropped == IF from \in {"body", "handle"} THEN 1 ELSE 0
Caught  == \E i \in Slots : cpc[i] \in {"handler", "taking"}

Told     == \A i \in Slots : msgVal[i] = 1 => cpc[i] \in Telling
FromNone == pc \in ParentPcs => from = "none"
AtLeast  == killCount + Cardinality(Owing) + InHand <= kills
AtMost   == \/ pc = "dead" \/ Caught
            \/ kills <= killCount + Cardinality(Whole) + InHand + cutReads + Dropped

Tally == Told /\ FromNone /\ AtLeast /\ AtMost

LEMMA CountFacts ==
    /\ Owing \subseteq Slots /\ Whole \subseteq Slots
    /\ \A X \in SUBSET Slots : Cardinality(X) \in Nat
    /\ \A X, Y \in SUBSET Slots : X \subseteq Y => Cardinality(X) <= Cardinality(Y)
    /\ \A X, Y \in SUBSET Slots : \A i \in Slots :
          /\ X \subseteq Y \cup {i} => Cardinality(X) <= Cardinality(Y) + 1
          /\ X \subseteq Y \ {i} /\ i \in Y => Cardinality(X) + 1 <= Cardinality(Y)
  <1>1. \A X \in SUBSET Slots : IsFiniteSet(X) /\ Cardinality(X) \in Nat
    BY SlotsFinite, FS_Subset, FS_CardinalityType
  <1>2. ASSUME NEW X \in SUBSET Slots, NEW Y \in SUBSET Slots, X \subseteq Y
        PROVE  Cardinality(X) <= Cardinality(Y)
    BY <1>1, <1>2, FS_Subset
  <1>3. ASSUME NEW X \in SUBSET Slots, NEW Y \in SUBSET Slots, NEW i \in Slots,
               X \subseteq Y \cup {i}
        PROVE  Cardinality(X) <= Cardinality(Y) + 1
    <2>1. Y \cup {i} \in SUBSET Slots /\ Cardinality(X) <= Cardinality(Y \cup {i})
      BY <1>2, <1>3
    <2>2. Cardinality(Y \cup {i}) \in {Cardinality(Y), Cardinality(Y) + 1}
      BY <1>1, FS_AddElement
    <2>3. QED
      BY <1>1, <2>1, <2>2
  <1>4. ASSUME NEW X \in SUBSET Slots, NEW Y \in SUBSET Slots, NEW i \in Y,
               X \subseteq Y \ {i}
        PROVE  Cardinality(X) + 1 <= Cardinality(Y)
    <2>1. Y \ {i} \in SUBSET Slots /\ Cardinality(X) <= Cardinality(Y \ {i})
      BY <1>2, <1>4
    <2>2. Cardinality(Y \ {i}) = Cardinality(Y) - 1
      BY <1>1, FS_RemoveElement
    <2>3. QED
      BY <1>1, <2>1, <2>2
  <1>5. Owing \subseteq Slots /\ Whole \subseteq Slots
    BY DEF Owing, Whole
  <1>6. QED
    BY <1>1, <1>2, <1>3, <1>4, <1>5

LEMMA HandFacts == InHand \in {0, 1} /\ Dropped \in {0, 1}
  BY DEF InHand, Dropped

\* The steps that change no count.
LEMMA TallySame ==
    ASSUME Tally, Ranges, UNCHANGED <<killCount, kills, cutReads, InHand, Dropped>>,
           Owing' \subseteq Owing,
           \/ pc' = "dead" \/ Caught'
           \/ Whole \subseteq Whole' /\ pc # "dead" /\ ~Caught
           \/ Whole \subseteq Whole' /\ UNCHANGED pc /\ ~Caught
    PROVE  AtLeast' /\ AtMost'
  <1>1. /\ Cardinality(Owing') <= Cardinality(Owing)
        /\ Whole \subseteq Whole' => Cardinality(Whole) <= Cardinality(Whole')
        /\ Cardinality(Owing) \in Nat /\ Cardinality(Owing') \in Nat
        /\ Cardinality(Whole) \in Nat /\ Cardinality(Whole') \in Nat
    <2>1. /\ Owing \in SUBSET Slots /\ Owing' \in SUBSET Slots
          /\ Whole \in SUBSET Slots /\ Whole' \in SUBSET Slots
      BY DEF Owing, Whole
    <2>2. QED
      BY <2>1, CountFacts
  <1>2. /\ InHand \in {0, 1} /\ Dropped \in {0, 1}
        /\ killCount \in Nat /\ kills \in Nat /\ cutReads \in Nat
    BY HandFacts DEF Ranges, Counts
  <1>3. AtLeast'
    BY <1>1, <1>2 DEF Tally, AtLeast
  <1>4. AtMost'
    BY <1>1, <1>2 DEF Tally, AtMost
  <1>5. QED
    BY <1>3, <1>4

\* Children that do not talk of their work.
Mute == ChildPcs \ {"availableHeader", "availableBody", "exitBody", "gone"}

LEMMA OweKept ==
    ASSUME Inv, UNCHANGED <<c2p, msgVal>>,
           \A i \in Slots : cpc'[i] = cpc[i] \/ (cpc[i] \in Mute /\ cpc'[i] \in Mute)
    PROVE  /\ Owing' = Owing
           /\ \A i \in Slots : Behind(c2p[i], cpc[i])' <=> Behind(c2p[i], cpc[i])
           /\ \A i \in Slots : (Midway(i) => Midway(i)') => (i \in Whole => i \in Whole')
  <1>1. ASSUME NEW i \in Slots
        PROVE  /\ Owes(i)' <=> Owes(i)
               /\ Behind(c2p[i], cpc[i])' <=> Behind(c2p[i], cpc[i])
    <2>1. CASE cpc'[i] = cpc[i]
      BY <2>1 DEF Owes, Behind
    <2>2. CASE cpc[i] \in Mute /\ cpc'[i] \in Mute
      BY <2>2 DEF Owes, Behind, Mute, Telling, ChildPcs
    <2>3. QED
      BY <2>1, <2>2
  <1>2. QED
    BY <1>1 DEF Owing, Whole

\* Steps that read nothing from a child and in which no child speaks.
LEMMA QuietTally ==
    ASSUME Inv, Tally, Ranges, UNCHANGED <<c2p, msgVal, killCount, kills, cutReads, from, InHand>>,
           \A i \in Slots : cpc'[i] = cpc[i] \/ (cpc[i] \in Mute /\ cpc'[i] \in Mute),
           Caught => Caught', pc = "dead" => pc' = "dead",
           pc' \in ParentPcs => pc \in ParentPcs,
           pc' = "dead" \/ UNCHANGED <<pc, idx>> \/ pc \notin {"body", "hBody"}
    PROVE  Tally'
  <1>1. /\ Owing' = Owing
        /\ \A i \in Slots : (Midway(i) => Midway(i)') => (i \in Whole => i \in Whole')
    BY OweKept
  <1>2. pc' = "dead" \/ Whole \subseteq Whole'
    <2>1. UNCHANGED <<pc, idx>> \/ pc \notin {"body", "hBody"}
             => \A i \in Slots : Midway(i) => Midway(i)'
      BY DEF Midway
    <2>2. Whole \subseteq Slots
      BY CountFacts
    <2>3. QED
      BY <1>1, <2>1, <2>2
  <1>3. UNCHANGED Dropped
    BY DEF Dropped
  <1>4. AtLeast' /\ AtMost'
    BY <1>1, <1>2, <1>3, TallySame
  <1>5. Told'
    BY DEF Tally, Told, Mute, Telling
  <1>6. FromNone'
    BY DEF Tally, FromNone
  <1>7. QED
    BY <1>4, <1>5, <1>6 DEF Tally

LEMMA ParentQuiet ==
    ASSUME Inv, Jobs, Ranges, Tally,
           Scan \/ PickProcess \/ Fork \/ WriteHeader \/ WriteBody \/ SendExit
             \/ WaitOnJunk \/ Finish
    PROVE  Tally'
  <1>1. /\ UNCHANGED <<c2p, msgVal, killCount, kills, cutReads, from, hand>>
        /\ pc \notin {"body", "hBody", "handle", "dead"} /\ pc' # "handle"
        /\ pc' \in ParentPcs => pc \in ParentPcs
    <2>1. CASE Scan
      BY <2>1 DEF Scan, Continue, childVars, sigVars, ParentPcs
    <2>2. CASE PickProcess
      BY <2>2 DEF PickProcess, Continue, NewChild, IdleChild, childVars, sigVars, ParentPcs
    <2>3. CASE Fork
      BY <2>3 DEF Fork, Continue, childVars, sigVars, ParentPcs
    <2>4. CASE WriteHeader \/ WriteBody
      BY <2>4 DEF WriteHeader, WriteBody, Continue, childVars, sigVars, posVars, countVars, ParentPcs
    <2>5. CASE SendExit \/ WaitOnJunk \/ Finish
      BY <2>5 DEF SendExit, WaitOnJunk, Finish, childVars, sigVars, posVars, countVars, ParentPcs
    <2>6. QED
      BY <2>1, <2>2, <2>3, <2>4, <2>5
  <1>2. UNCHANGED InHand
    BY <1>1 DEF InHand
  <1>3. \A i \in Slots : cpc'[i] = cpc[i] \/ (cpc[i] = "none" /\ cpc'[i] = "forked")
    <2>1. CASE Fork
      <3>1. cpc[target] = "none" /\ cpc \in [Slots -> ChildPcs] /\ target \in Slots
        BY <2>1, SlotsFinite DEF Fork, Inv, Places, Slots
      <3>2. cpc' = cpc \/ cpc' = [cpc EXCEPT ![target] = "forked"]
        BY <2>1 DEF Fork
      <3>3. QED
        BY <3>1, <3>2
    <2>2. QED
      BY <2>1 DEF Scan, PickProcess, WriteHeader, WriteBody, SendExit, WaitOnJunk, Finish, childVars
  <1>4. Caught => Caught'
    BY <1>3 DEF Caught
  <1>5. QED
    BY <1>1, <1>2, <1>3, <1>4, QuietTally DEF Mute, ChildPcs

\* The parent takes a header, or all there is in the pipe when it takes a body
\* for one.
LEMMA HeaderTally ==
    ASSUME Inv, Ranges, Tally, NEW j \in Slots, c2p[j] # <<>>,
           pc \notin {"body", "hBody", "handle", "dead"}, pc' # "handle",
           pc' \in ParentPcs => pc \in ParentPcs,
           UNCHANGED <<msgVal, killCount, kills, cutReads, from, cpc>>,
           \/ pc' = "dead" /\ UNCHANGED c2p
           \/ /\ IsHeader(Head(c2p[j])) /\ pc' \in {"body", "hBody"} /\ idx' = j
              /\ c2p' = [c2p EXCEPT ![j] = Tail(@)]
           \/ ~IsHeader(Head(c2p[j])) /\ c2p' = [c2p EXCEPT ![j] = <<>>]
    PROVE  Tally'
  <1> DEFINE q == c2p[j]
  <1>1. c2p \in [Slots -> Seq(Half)] /\ q \in Seq(Half) /\ Head(q) = q[1]
    <2>1. c2p \in [Slots -> Seq(Half)] /\ q \in Seq(Half)
      BY DEF Inv, Places, Half
    <2>2. QED
      BY <2>1, HeadTailProperties
  <1>2. PICK n \in Nat : n = Len(q) /\ n # 0
    BY <1>1, LenProperties, EmptySeq
  <1>3. UNCHANGED <<InHand, Dropped>> /\ (Caught => Caught')
    BY DEF InHand, Dropped, Caught
  <1>4. Told' /\ FromNone'
    BY DEF Tally, Told, FromNone, Telling
  <1>5. CASE pc' = "dead" /\ UNCHANGED c2p
    <2>1. Owing' = Owing
      BY <1>5 DEF Owing, Owes, Telling
    <2>2. QED
      BY <1>3, <1>4, <1>5, <2>1, TallySame DEF Tally
  <1>6. CASE /\ IsHeader(q[1]) /\ pc' \in {"body", "hBody"} /\ idx' = j
             /\ c2p' = [c2p EXCEPT ![j] = Tail(@)]
    <2>1. /\ c2p'[j] = Tail(q) /\ \A i \in Slots \ {j} : c2p'[i] = c2p[i]
          /\ Len(Tail(q)) = n - 1 /\ \A k \in 1..(n - 1) : Tail(q)[k] = q[k + 1]
      BY <1>1, <1>2, <1>6, HeadTailProperties
    <2>2. Owes(j)' <=> Owes(j)
      <3>1. (\E k \in 1..(n - 1) : q[k + 1] = Sure) <=> \E k \in 1..n : q[k] = Sure
        <4>1. q[1] # Sure
          BY <1>6, HalfFacts DEF Sure
        <4>2. ASSUME NEW k \in 1..n, q[k] = Sure PROVE \E l \in 1..(n - 1) : q[l + 1] = Sure
          <5>1. k - 1 \in 1..(n - 1) /\ q[k - 1 + 1] = Sure
            BY <1>2, <4>1, <4>2
          <5>2. QED
            BY <5>1
        <4>3. \A k \in 1..(n - 1) : k + 1 \in 1..n
          BY <1>2
        <4>4. QED
          BY <4>2, <4>3
      <3>2. QED
        BY <1>2, <2>1, <3>1 DEF Owes, Telling
    <2>3. \A i \in Slots \ {j} : Owes(i)' <=> Owes(i)
      BY <2>1 DEF Owes, Telling
    <2>4. Owing' = Owing
      BY <2>2, <2>3 DEF Owing
    <2>5. Whole \subseteq Whole'
      <3> SUFFICES ASSUME NEW i \in Whole PROVE i \in Whole'
        OBVIOUS
      <3>1. i \in Slots /\ Owes(i)' /\ ~Behind(c2p[i], cpc[i])
        BY <2>2, <2>3 DEF Whole, Midway
      <3>2. CASE i = j
        BY <1>6, <3>1, <3>2 DEF Whole, Midway
      <3>3. CASE i # j
        <4>1. ~Behind(c2p[i], cpc[i])'
          BY <2>1, <3>1, <3>3
        <4>2. QED
          BY <3>1, <4>1 DEF Whole
      <3>4. QED
        BY <3>2, <3>3
    <2>6. QED
      BY <1>3, <1>4, <2>4, <2>5, TallySame DEF Tally
  <1>7. CASE ~IsHeader(q[1]) /\ c2p' = [c2p EXCEPT ![j] = <<>>]
    <2>1. c2p'[j] = <<>> /\ \A i \in Slots \ {j} : c2p'[i] = c2p[i]
      BY <1>1, <1>7
    <2>2. Owes(j)' => Owes(j)
      BY <2>1 DEF Owes, Telling
    <2>3. \A i \in Slots \ {j} : Owes(i)' <=> Owes(i)
      BY <2>1 DEF Owes, Telling
    <2>4. Owing' \subseteq Owing
      BY <2>2, <2>3 DEF Owing
    <2>5. Whole \subseteq Whole'
      <3> SUFFICES ASSUME NEW i \in Whole PROVE i \in Whole'
        OBVIOUS
      <3>1. i \in Slots /\ Owes(i) /\ ~Behind(c2p[i], cpc[i])
        BY DEF Whole, Midway
      <3>2. i # j
        BY <1>7, <3>1 DEF Behind
      <3>3. Owes(i)' /\ ~Behind(c2p[i], cpc[i])'
        BY <2>1, <2>3, <3>1, <3>2
      <3>4. QED
        BY <3>1, <3>3 DEF Whole
    <2>6. QED
      BY <1>3, <1>4, <2>4, <2>5, TallySame DEF Tally
  <1>8. QED
    BY <1>1, <1>5, <1>6, <1>7

\* The parent takes the body behind the header it has read.
LEMMA BodyTaken ==
    ASSUME Inv, Fresh, Midway(idx), idx \in Slots, c2p[idx] # <<>>, ~IsHeader(c2p[idx][1]),
           UNCHANGED <<msgVal, cpc>>, c2p' = [c2p EXCEPT ![idx] = Tail(@)],
           pc' \notin {"body", "hBody"}
    PROVE  LET m == Head(c2p[idx])[2] IN
           /\ m = "available1" => /\ idx \in Owing /\ Owing' \subseteq Owing \ {idx}
                                 /\ Whole \subseteq Whole' \cup {idx}
           /\ m # "available1" => Owing' \subseteq Owing /\ Whole \subseteq Whole'
  <1>1. PICK j \in Slots : j = idx
    OBVIOUS
  <1> DEFINE q == c2p[j]
             r == Tail(q)
             s == cpc[j]
             m == q[1][2]
  <1>2. /\ c2p \in [Slots -> Seq(Half)] /\ q \in Seq(Half) /\ q # <<>>
        /\ Piped(q, s) /\ Answer(q, s)
    BY <1>1 DEF Inv, Places, Half, Pipes, Fresh
  <1>3. PICK n \in Nat : n = Len(q) /\ n # 0
    BY <1>2, LenProperties, EmptySeq
  <1>4. /\ Head(q) = q[1] /\ q[1] \in Half /\ r \in Seq(Half) /\ Len(r) = n - 1
        /\ \A k \in 1..(n - 1) : r[k] = q[k + 1]
    BY <1>2, <1>3, HeadTailProperties
  <1>5. q[1] = Body(m) /\ (m = "available1" <=> q[1] = Sure)
    <2>1. q[1] = Body(m)
      BY <1>1, <1>4, HalfFacts
    <2>2. QED
      BY <2>1 DEF Sure, Body
  <1>6. /\ c2p'[j] = r /\ cpc'[j] = s /\ msgVal'[j] = msgVal[j]
        /\ \A i \in Slots \ {j} : c2p'[i] = c2p[i] /\ cpc'[i] = cpc[i] /\ msgVal'[i] = msgVal[i]
    BY <1>1, <1>2
  <1>7. ~Behind(r, s)
    <2>1. CASE n = 1
      <3>1. Len(r) = 0 /\ q[Len(q)] = q[1]
        BY <1>3, <1>4, <2>1
      <3>2. r = <<>>
        BY <1>4, <3>1, EmptySeq
      <3>3. s \notin {"availableBody", "exitBody"}
        BY <1>1, <1>2, <3>1 DEF Piped
      <3>4. QED
        BY <3>2, <3>3 DEF Behind
    <2>2. CASE n # 1
      <3> HIDE DEF r
      <3>1. n - 1 \in Nat \ {0}
        BY <1>3, <2>2
      <3>2. Len(r) # 0 /\ 1 \in 1..(n - 1)
        BY <1>4, <3>1
      <3>3. r[1] = q[1 + 1]
        BY <1>4, <3>2
      <3>4. r # <<>>
        BY <1>4, <3>2, EmptySeq
      <3>5. IsHeader(r[1])
        BY <1>1, <1>2, <1>3, <3>2, <3>3 DEF Piped
      <3>6. QED
        BY <3>4, <3>5 DEF Behind
    <2>3. QED
      BY <2>1, <2>2
  <1>8. \A i \in Slots \ {j} : /\ Owes(i)' <=> Owes(i)
                               /\ i \in Whole => i \in Whole'
    <2>1. \A i \in Slots \ {j} : /\ Owes(i)' <=> Owes(i)
                                 /\ Behind(c2p[i], cpc[i])' <=> Behind(c2p[i], cpc[i])
                                 /\ ~Midway(i)
      BY <1>1, <1>6 DEF Owes, Midway
    <2>2. QED
      BY <2>1 DEF Whole
  <1>9. Owes(j)' => Owes(j)
    <2>1. \A k \in 1..(n - 1) : k + 1 \in 1..n
      BY <1>3
    <2>2. QED
      BY <1>3, <1>4, <1>6, <2>1 DEF Owes
  <1>10. CASE m = "available1"
    <2>1. q[1] = Sure /\ 1 \in 1..n
      BY <1>3, <1>5, <1>10
    <2>2. ~Owes(j)'
      <3>1. s \notin Telling
        BY <1>1, <1>2, <1>3, <2>1 DEF Answer, Telling
      <3>2. ASSUME NEW k \in 1..(n - 1), r[k] = Sure PROVE FALSE
        <4>1. k + 1 \in 1..n /\ q[k + 1] = Sure /\ k + 1 # 1
          BY <1>3, <1>4, <3>2
        <4>2. QED
          BY <1>2, <1>3, <2>1, <4>1 DEF Answer, Sure
      <3>3. QED
        BY <1>4, <1>6, <3>1, <3>2 DEF Owes
    <2>3. j \in Owing
      BY <1>3, <2>1 DEF Owing, Owes
    <2>4. Owing' \subseteq Owing \ {j} /\ Whole \subseteq Whole' \cup {j}
      BY <1>8, <2>2 DEF Owing, Whole
    <2>5. QED
      BY <1>1, <1>4, <1>10, <2>3, <2>4
  <1>11. CASE m # "available1"
    <2>1. Owes(j) => Owes(j)'
      <3>1. q[1] # Sure
        BY <1>5, <1>11
      <3>2. ASSUME NEW k \in 1..n, q[k] = Sure PROVE \E l \in 1..(n - 1) : r[l] = Sure
        <4>1. k - 1 \in 1..(n - 1) /\ q[k - 1 + 1] = Sure
          BY <1>3, <3>1, <3>2
        <4>2. QED
          BY <1>4, <4>1
      <3>3. QED
        BY <1>3, <1>4, <1>6, <3>2 DEF Owes
    <2>2. j \in Whole => j \in Whole'
      BY <1>6, <1>7, <2>1 DEF Whole
    <2>3. Owing' \subseteq Owing /\ Whole \subseteq Whole'
      <3>1. Whole \subseteq Slots
        BY CountFacts
      <3>2. QED
        BY <1>8, <1>9, <2>2, <3>1 DEF Owing
    <2>4. QED
      BY <1>1, <1>4, <1>11, <2>3
  <1>12. QED
    BY <1>10, <1>11

\* When the body is "available1" a kill goes from Owing to the parent.
LEMMA BodyTally ==
    ASSUME Inv, Ranges, Ranges', Fresh, Tally, Midway(idx), idx \in Slots,
           c2p[idx] # <<>>, ~IsHeader(c2p[idx][1]),
           UNCHANGED <<msgVal, cpc, kills, cutReads, from>>, c2p' = [c2p EXCEPT ![idx] = Tail(@)],
           pc' \in {"handle", "hWait"}, pc' = "handle" => pc = "body",
           killCount' + InHand' = killCount
              + (IF Head(c2p[idx])[2] = "available1" THEN 1 ELSE 0)
    PROVE  Tally'
  <1> DEFINE m == Head(c2p[idx])[2]
  <1>1. /\ m = "available1" => /\ idx \in Owing /\ Owing' \subseteq Owing \ {idx}
                              /\ Whole \subseteq Whole' \cup {idx}
        /\ m # "available1" => Owing' \subseteq Owing /\ Whole \subseteq Whole'
    BY BodyTaken
  <1>2. /\ Owing \in SUBSET Slots /\ Owing' \in SUBSET Slots
        /\ Whole \in SUBSET Slots /\ Whole' \in SUBSET Slots
    BY DEF Owing, Whole
  <1>3. PICK a \in Nat, b \in Nat, c \in Nat, d \in Nat :
           /\ a = Cardinality(Owing) /\ b = Cardinality(Owing')
           /\ c = Cardinality(Whole) /\ d = Cardinality(Whole')
    BY <1>2, CountFacts
  <1>4. /\ m = "available1" => b + 1 <= a /\ c <= d + 1
        /\ m # "available1" => b <= a /\ c <= d
    BY <1>1, <1>2, <1>3, CountFacts
  <1>5. InHand = 0 /\ UNCHANGED Dropped
    BY DEF InHand, Dropped, Midway
  <1>6. PICK x \in Nat, y \in Nat, z \in Nat, k \in Nat, u \in Nat, v \in Nat :
           /\ x = killCount /\ y = killCount' /\ z = InHand' /\ k = kills
           /\ u = cutReads /\ v = Dropped
    <2>1. /\ killCount \in Nat /\ killCount' \in Nat /\ kills \in Nat /\ cutReads \in Nat
      BY DEF Ranges, Counts
    <2>2. InHand' \in Nat /\ Dropped \in Nat
      BY DEF InHand, Dropped
    <2>3. QED
      BY <2>1, <2>2
  <1>7. /\ m = "available1" => b + 1 <= a /\ c <= d + 1 /\ y + z = x + 1
        /\ m # "available1" => b <= a /\ c <= d /\ y + z = x
    <2>1. y + z = x + (IF m = "available1" THEN 1 ELSE 0)
      BY <1>6
    <2> HIDE DEF m
    <2>2. CASE m = "available1"
      BY <1>4, <2>1, <2>2
    <2>3. CASE m # "available1"
      BY <1>4, <2>1, <2>3
    <2>4. QED
      BY <2>2, <2>3
  <1> HIDE DEF m
  <1>8. AtLeast'
    <2>1. x + a + 0 <= k
      BY <1>3, <1>5, <1>6 DEF Tally, AtLeast
    <2>2. y + b + z <= k
      BY <1>7, <2>1
    <2>3. QED
      BY <1>3, <1>6, <2>2 DEF AtLeast
  <1>9. AtMost'
    <2>1. Caught => Caught'
      BY DEF Caught
    <2>2. ASSUME ~Caught PROVE AtMost'
      <3>1. k <= x + c + 0 + u + v
        BY <1>3, <1>5, <1>6, <2>2 DEF Tally, AtMost, Midway
      <3>2. k <= y + d + z + u + v
        BY <1>7, <3>1
      <3>3. cutReads' = u /\ Dropped' = v /\ kills' = k
        BY <1>5, <1>6
      <3>4. QED
        BY <1>3, <1>6, <3>2, <3>3 DEF AtMost
    <2>3. QED
      BY <2>1, <2>2 DEF AtMost
  <1>10. Told' /\ FromNone'
    BY DEF Tally, Told, FromNone, Telling, ParentPcs, Midway
  <1>11. QED
    BY <1>8, <1>9, <1>10 DEF Tally

LEMMA PollTally == ASSUME Inv, Ranges, Tally, ReadHeader PROVE Tally'
  <1>1. /\ pc \in {"poll", "header"} /\ pc' # "handle" /\ idx \in Nat \ {0}
        /\ UNCHANGED <<msgVal, killCount, kills, cutReads, from, cpc, hand>>
    BY DEF ReadHeader, Misread, countVars, childVars, sigVars, Inv, Places
  <1>2. CASE pc' \in {"scan", "poll"} /\ UNCHANGED c2p
    <2>1. UNCHANGED InHand /\ (Caught => Caught')
      BY <1>1, <1>2 DEF InHand, Caught
    <2>2. QED
      BY <1>1, <1>2, <2>1, QuietTally DEF ParentPcs
  <1>3. CASE /\ idx <= childCount /\ c2p[idx] # <<>>
             /\ \/ /\ IsHeader(Head(c2p[idx])) /\ pc' = "body" /\ UNCHANGED idx
                   /\ c2p' = [c2p EXCEPT ![idx] = Tail(@)]
                \/ ~IsHeader(Head(c2p[idx])) /\ Misread(idx, "poll")
    <2>1. idx \in Slots
      BY <1>1, <1>3, SlotsFinite DEF Inv, Places, Slots
    <2>2. QED
      BY <1>1, <1>3, <2>1, HeaderTally DEF Misread, ParentPcs
  <1>4. QED
    BY <1>2, <1>3 DEF ReadHeader

LEMMA WaitTally == ASSUME Inv, Ranges, Tally, WaitHeader PROVE Tally'
  <1>1. /\ pc \in {"hWait", "hHeader"} /\ pc' \notin ParentPcs /\ pc' # "handle"
        /\ UNCHANGED <<msgVal, killCount, kills, cutReads, from, cpc>>
    BY DEF WaitHeader, Misread, ParentPcs, countVars, childVars, sigVars
  <1>2. PICK j \in 1..childCount :
           /\ c2p[j] # <<>> /\ idx' = j
           /\ \/ /\ IsHeader(Head(c2p[j])) /\ pc' = "hBody"
                 /\ c2p' = [c2p EXCEPT ![j] = Tail(@)]
              \/ ~IsHeader(Head(c2p[j])) /\ Misread(j, "hWait")
    BY DEF WaitHeader
  <1>3. j \in Slots
    BY SlotsFinite DEF Inv, Places, Slots
  <1>4. QED
    BY <1>1, <1>2, <1>3, HeaderTally DEF Misread

LEMMA ReadBodyTally ==
    ASSUME Inv, Jobs, Ranges, Ranges', Fresh, Tally, ReadBody PROVE Tally'
  <1>1. /\ pc = "body" /\ pc' = "handle" /\ c2p[idx] # <<>> /\ hand' = Head(c2p[idx])[2]
        /\ UNCHANGED <<msgVal, killCount, kills, cutReads, from, cpc, idx>>
        /\ c2p' = [c2p EXCEPT ![idx] = Tail(@)]
    BY DEF ReadBody, countVars, childVars, sigVars
  <1>2. idx \in Slots /\ Midway(idx)
    BY <1>1, SlotsFinite DEF Inv, Places, Slots, Midway
  <1>3. ~IsHeader(c2p[idx][1])
    <2>1. PICK j \in Slots : j = idx
      BY <1>2
    <2>2. Shape(j) /\ Piped(c2p[j], cpc[j]) /\ c2p[j] \in Seq(Half)
      BY <1>1 DEF Jobs, ParentPcs, Inv, Pipes, Places, Half
    <2>3. Len(c2p[j]) # 0
      BY <1>1, <2>1, <2>2, EmptySeq
    <2>4. cpc[j] = "read" /\ Len(c2p[j]) = 1
      BY <1>1, <2>1, <2>2, <2>3
         DEF Shape, NoChild, IdleSlot, Busy, Asked, Working, Answering, Answered, Reads, Left
    <2>5. QED
      BY <1>1, <2>1, <2>2, <2>4 DEF Piped
  <1>4. killCount' + InHand' = killCount
              + (IF Head(c2p[idx])[2] = "available1" THEN 1 ELSE 0)
    BY <1>1 DEF InHand
  <1>5. QED
    BY <1>1, <1>2, <1>3, <1>4, BodyTally

LEMMA WaitBodyTally ==
    ASSUME Inv, Ranges, Ranges', Fresh, Tally, WaitBody PROVE Tally'
  <1>1. /\ pc = "hBody" /\ pc' = "hWait" /\ c2p[idx] # <<>>
        /\ TakeMessage(idx, Head(c2p[idx])[2])
        /\ UNCHANGED <<msgVal, kills, cutReads, from, cpc>>
        /\ c2p' = [c2p EXCEPT ![idx] = Tail(@)]
    BY DEF WaitBody, childVars
  <1>2. idx \in Slots /\ Midway(idx)
    BY <1>1, SlotsFinite DEF Inv, Places, Slots, Midway
  <1>3. ~IsHeader(c2p[idx][1])
    BY <1>1, <1>2 DEF Inv, Pipes, Behind
  <1>4. killCount' + InHand' = killCount
              + (IF Head(c2p[idx])[2] = "available1" THEN 1 ELSE 0)
    <2>1. InHand' = 0 /\ killCount \in Nat
      BY <1>1 DEF InHand, Ranges, Counts
    <2>2. killCount' = killCount + (IF Head(c2p[idx])[2] = "available1" THEN 1 ELSE 0)
      BY <1>1, <2>1 DEF TakeMessage
    <2>3. QED
      BY <2>1, <2>2
  <1>5. QED
    BY <1>1, <1>2, <1>3, <1>4, BodyTally

LEMMA HandleTally ==
    ASSUME Inv, Ranges, Ranges', Tally, HandleMessage PROVE Tally'
  <1>1. /\ pc = "handle" /\ pc' = "poll" /\ TakeMessage(idx, hand)
        /\ UNCHANGED <<c2p, msgVal, kills, cutReads, from, cpc>>
    BY DEF HandleMessage, childVars, sigVars
  <1>2. /\ Owing' = Owing
        /\ \A i \in Slots : (Midway(i) => Midway(i)') => (i \in Whole => i \in Whole')
    BY <1>1, OweKept
  <1>3. Whole \subseteq Whole'
    <2>1. \A i \in Slots : Midway(i) => Midway(i)'
      BY <1>1 DEF Midway
    <2>2. Whole \subseteq Slots
      BY CountFacts
    <2>3. QED
      BY <1>2, <2>1, <2>2
  <1>4. PICK a \in Nat, c \in Nat, d \in Nat :
           /\ a = Cardinality(Owing) /\ a = Cardinality(Owing')
           /\ c = Cardinality(Whole) /\ d = Cardinality(Whole') /\ c <= d
    <2>1. /\ Owing \in SUBSET Slots /\ Whole \in SUBSET Slots /\ Whole' \in SUBSET Slots
      BY DEF Owing, Whole
    <2>2. /\ Cardinality(Owing) \in Nat /\ Cardinality(Whole) \in Nat
          /\ Cardinality(Whole') \in Nat /\ Cardinality(Whole) <= Cardinality(Whole')
      BY <1>3, <2>1, CountFacts
    <2>3. QED
      BY <1>2, <2>2
  <1>5. PICK x \in Nat, y \in Nat, z \in Nat, k \in Nat, u \in Nat, v \in Nat :
           /\ x = killCount /\ y = killCount' /\ z = InHand /\ k = kills
           /\ u = cutReads /\ v = Dropped
    <2>1. /\ killCount \in Nat /\ killCount' \in Nat /\ kills \in Nat /\ cutReads \in Nat
      BY DEF Ranges, Counts
    <2>2. InHand \in Nat /\ Dropped \in Nat
      BY DEF InHand, Dropped
    <2>3. QED
      BY <2>1, <2>2
  <1>6. y + 0 = x + z /\ InHand' = 0 /\ Dropped' = v
    <2>1. InHand' = 0 /\ z = (IF hand = "available1" THEN 1 ELSE 0) /\ Dropped' = Dropped
      BY <1>1, <1>5 DEF InHand, Dropped
    <2>2. killCount' = killCount + (IF hand = "available1" THEN 1 ELSE 0)
      BY <1>1, <1>5 DEF TakeMessage
    <2>3. QED
      BY <1>5, <2>1, <2>2
  <1>7. AtLeast'
    <2>1. x + a + z <= k
      BY <1>4, <1>5 DEF Tally, AtLeast
    <2>2. y + a + 0 <= k
      BY <1>6, <2>1
    <2>3. QED
      BY <1>1, <1>4, <1>5, <1>6, <2>2 DEF AtLeast
  <1>8. AtMost'
    <2>1. Caught => Caught'
      BY <1>1 DEF Caught
    <2>2. ASSUME ~Caught PROVE AtMost'
      <3>1. k <= x + c + z + u + v
        BY <1>1, <1>4, <1>5, <2>2 DEF Tally, AtMost
      <3>2. k <= y + d + 0 + u + v
        BY <1>4, <1>6, <3>1
      <3>3. cutReads' = u /\ kills' = k
        BY <1>1, <1>5
      <3>4. QED
        BY <1>4, <1>5, <1>6, <3>2, <3>3 DEF AtMost
    <2>3. QED
      BY <2>1, <2>2 DEF AtMost
  <1>9. Told' /\ FromNone'
    BY <1>1 DEF Tally, Told, FromNone, Telling, ParentPcs
  <1>10. QED
    BY <1>7, <1>8, <1>9 DEF Tally

-----------------------------------------------------------------------------
(* The signals and the final message.                                      *)

\* What SIGHUP cuts and what SIGINT takes out of the parent's hands are each
\* allowed for.
LEMMA SighupTally == ASSUME Inv, Ranges, Ranges', Tally, Sighup PROVE Tally'
  <1>1. /\ UNCHANGED <<c2p, msgVal, cpc, killCount, kills, from, hand>>
        /\ pc \in ParentPcs \cup HandlerPcs
    BY DEF Sighup, Running, countVars, childVars
  <1>2. /\ Owing' = Owing
        /\ \A i \in Slots : (Midway(i) => Midway(i)') => (i \in Whole => i \in Whole')
    BY <1>1, OweKept
  <1>3. UNCHANGED Dropped /\ (Caught => Caught')
    BY <1>1 DEF Dropped, Caught
  <1>4. PICK a \in Nat, c \in Nat, d \in Nat :
           a = Cardinality(Owing) /\ c = Cardinality(Whole) /\ d = Cardinality(Whole')
    <2>1. /\ Owing \in SUBSET Slots /\ Whole \in SUBSET Slots /\ Whole' \in SUBSET Slots
      BY DEF Owing, Whole
    <2>2. QED
      BY <2>1, CountFacts
  <1>5. PICK x \in Nat, z \in Nat, k \in Nat, u \in Nat, v \in Nat :
           /\ x = killCount /\ z = InHand /\ k = kills /\ u = cutReads /\ v = Dropped
    BY HandFacts DEF Ranges, Counts
  <1>6. CASE pc' = "dead"
    <2>1. InHand' = 0
      BY <1>6 DEF InHand
    <2>2. x + a + z <= k
      BY <1>4, <1>5 DEF Tally, AtLeast
    <2>3. x + a + 0 <= k
      BY <2>2
    <2>4. AtLeast'
      BY <1>1, <1>2, <1>4, <1>5, <2>1, <2>3 DEF AtLeast
    <2>5. AtMost' /\ Told' /\ FromNone'
      BY <1>1, <1>6 DEF AtMost, Tally, Told, FromNone, ParentPcs, Telling
    <2>6. QED
      BY <2>4, <2>5 DEF Tally
  <1>7. CASE UNCHANGED <<pc, idx, cutReads>>
    <2>1. UNCHANGED InHand
      BY <1>1, <1>7 DEF InHand
    <2>2. QED
      BY <1>1, <1>3, <1>7, <2>1, QuietTally
  <1>10. CASE /\ UNCHANGED cutReads
              /\ (pc = "poll" /\ pc' = "header") \/ (pc = "hWait" /\ pc' = "hHeader")
    <2>1. UNCHANGED InHand
      BY <1>1, <1>10 DEF InHand
    <2>2. QED
      BY <1>1, <1>3, <1>10, <2>1, QuietTally DEF ParentPcs
  <1>8. CASE /\ pc \in {"body", "hBody"} /\ cutReads' = cutReads + 1
             /\ pc' = (IF pc = "body" THEN "poll" ELSE "hWait") /\ idx \in 1..childCount
    <2>1. InHand = 0 /\ InHand' = 0
      BY <1>8 DEF InHand
    <2>2. AtLeast'
      BY <1>1, <1>2, <2>1 DEF Tally, AtLeast
    <2>3. c <= d + 1
      <3>1. \A i \in Slots \ {idx} : ~Midway(i)
        BY DEF Midway
      <3>2. Whole \in SUBSET Slots /\ Whole' \in SUBSET Slots /\ idx \in Slots
        BY <1>8, SlotsFinite DEF Whole, Inv, Places, Slots
      <3>3. Whole \subseteq Whole' \cup {idx}
        BY <1>2, <3>1, <3>2
      <3>4. QED
        BY <1>4, <3>2, <3>3, CountFacts
    <2>4. AtMost'
      <3>1. CASE Caught
        BY <1>3, <3>1 DEF AtMost
      <3>2. CASE ~Caught
        <4>1. k <= x + c + 0 + u + v
          BY <1>4, <1>5, <1>8, <2>1, <3>2 DEF Tally, AtMost
        <4>2. k <= x + d + 0 + (u + 1) + v
          BY <2>3, <4>1
        <4>3. killCount' = x /\ cutReads' = u + 1 /\ kills' = k /\ Dropped' = v
          BY <1>1, <1>3, <1>5, <1>8
        <4>4. QED
          BY <1>4, <2>1, <4>2, <4>3 DEF AtMost
      <3>3. QED
        BY <3>1, <3>2
    <2>5. Told' /\ FromNone'
      BY <1>1, <1>8 DEF Tally, Told, FromNone, Telling, ParentPcs
    <2>6. QED
      BY <2>2, <2>4, <2>5 DEF Tally
  <1>9. QED
    <2>1. \/ pc' = "dead"
          \/ UNCHANGED <<pc, idx, cutReads>>
          \/ Interrupted
      BY Zenon DEF Sighup
    <2>2. QED
      BY <1>6, <1>7, <1>8, <1>10, <2>1, InterruptedMoves DEF Inv

LEMMA SigintTally == ASSUME Inv, Ranges, Ranges', Tally, Sigint PROVE Tally'
  <1>1. /\ UNCHANGED <<c2p, msgVal, killCount, kills, cutReads>>
        /\ pc \in ParentPcs /\ pc' = "hSend"
        /\ from' = (IF pc \in HalfDone \cup {"handle"} THEN pc ELSE "whole")
    BY DEF Sigint, countVars
  <1>2. \A i \in Slots : cpc'[i] = cpc[i] \/ (cpc[i] = "forked" /\ cpc'[i] = "handler")
    BY DEF Sigint
  <1>3. /\ Owing' = Owing
        /\ \A i \in Slots : (Midway(i) => Midway(i)') => (i \in Whole => i \in Whole')
    BY <1>1, <1>2, OweKept DEF Mute, ChildPcs
  <1>4. Caught => Caught'
    BY <1>2 DEF Caught
  <1>5. InHand' = 0 /\ Dropped = 0
    BY <1>1 DEF Tally, FromNone, InHand, Dropped
  <1>6. PICK a \in Nat, c \in Nat, d \in Nat :
           a = Cardinality(Owing) /\ c = Cardinality(Whole) /\ d = Cardinality(Whole')
    <2>1. /\ Owing \in SUBSET Slots /\ Whole \in SUBSET Slots /\ Whole' \in SUBSET Slots
      BY DEF Owing, Whole
    <2>2. QED
      BY <2>1, CountFacts
  <1>7. PICK x \in Nat, z \in {0, 1}, k \in Nat, u \in Nat, v \in {0, 1} :
           /\ x = killCount /\ z = InHand /\ k = kills /\ u = cutReads /\ v = Dropped'
    <2>1. InHand \in {0, 1} /\ Dropped' \in {0, 1}
      BY HandFacts DEF Dropped
    <2>2. QED
      BY <2>1 DEF Ranges, Counts
  <1>8. AtLeast'
    <2>1. x + a + z <= k
      BY <1>6, <1>7 DEF Tally, AtLeast
    <2>2. x + a + 0 <= k
      BY <2>1
    <2>3. QED
      BY <1>1, <1>3, <1>5, <1>6, <1>7, <2>2 DEF AtLeast
  <1>9. c + z <= d + v
    <2>1. Whole \in SUBSET Slots /\ Whole' \in SUBSET Slots
      BY DEF Whole
    <2>2. CASE pc = "body"
      <3>1. z = 0 /\ v = 1
        BY <1>1, <1>7, <2>2 DEF InHand, Dropped, HalfDone
      <3>2. \A i \in Slots \ {idx} : ~Midway(i)
        BY DEF Midway
      <3>3. idx \in Slots
        BY <2>2, SlotsFinite DEF Inv, Places, Slots
      <3>4. Whole \subseteq Whole' \cup {idx}
        BY <1>3, <2>1, <3>2
      <3>5. c <= d + 1
        BY <1>6, <2>1, <3>3, <3>4, CountFacts
      <3>6. QED
        BY <3>1, <3>5
    <2>3. CASE pc # "body"
      <3>1. \A i \in Slots : ~Midway(i)
        BY <1>1, <2>3 DEF Midway, ParentPcs
      <3>2. Whole \subseteq Whole'
        BY <1>3, <2>1, <3>1
      <3>3. c <= d
        BY <1>6, <2>1, <3>2, CountFacts
      <3>4. z = 0 \/ v = 1
        BY <1>1, <1>7 DEF InHand, Dropped, HalfDone
      <3>5. QED
        BY <3>3, <3>4
    <2>4. QED
      BY <2>2, <2>3
  <1>10. AtMost'
    <2>1. CASE Caught
      BY <1>4, <2>1 DEF AtMost
    <2>2. CASE ~Caught
      <3>1. k <= x + c + z + u + 0
        BY <1>1, <1>5, <1>6, <1>7, <2>2 DEF Tally, AtMost, ParentPcs
      <3>2. k <= x + d + 0 + u + v
        BY <1>9, <3>1
      <3>3. killCount' = x /\ cutReads' = u /\ kills' = k
        BY <1>1, <1>7
      <3>4. QED
        BY <1>5, <1>6, <1>7, <3>2, <3>3 DEF AtMost
    <2>3. QED
      BY <2>1, <2>2
  <1>11. Told' /\ FromNone'
    BY <1>1, <1>2 DEF Tally, Told, FromNone, Telling, ParentPcs
  <1>12. QED
    BY <1>8, <1>10, <1>11 DEF Tally

\* A child that has killed owes the kill; one that has not owes nothing.
LEMMA MonitorTally ==
    ASSUME Inv, Ranges, Fresh, Tally, NEW i \in Slots, MonitorProcess(i) PROVE Tally'
  <1>1. /\ cpc[i] = "sleep" /\ cpc'[i] = "availableHeader"
        /\ \A j \in Slots \ {i} : cpc'[j] = cpc[j]
        /\ UNCHANGED <<pc, idx, hand, killCount, cutReads, from, c2p>>
    BY DEF MonitorProcess, parentOnly, posVars, countVars, sigVars, Inv, Places
  <1>2. UNCHANGED <<InHand, Dropped, Caught>> /\ FromNone'
    <2>1. Caught' <=> Caught
      BY <1>1 DEF Caught
    <2>2. UNCHANGED <<InHand, Dropped>> /\ FromNone'
      BY <1>1 DEF InHand, Dropped, Tally, FromNone
    <2>3. Caught \in BOOLEAN
      BY DEF Caught
    <2>4. QED
      BY <2>1, <2>2, <2>3
  <1>3. c2p[i] = <<>> /\ Len(c2p[i]) = 0 /\ ~Owes(i) /\ msgVal[i] # 1
    <2>1. Answer(c2p[i], cpc[i]) /\ c2p[i] \in Seq(Half)
      BY DEF Fresh, Inv, Places, Half
    <2>2. c2p[i] = <<>> /\ Len(c2p[i]) = 0
      BY <1>1, <2>1, EmptySeq DEF Answer
    <2>3. msgVal[i] # 1
      BY <1>1 DEF Tally, Told, Telling
    <2>4. QED
      BY <1>1, <2>2, <2>3 DEF Owes, Telling
  <1>4. ASSUME NEW j \in Slots \ {i}, msgVal'[j] = msgVal[j]
        PROVE  /\ Owes(j)' <=> Owes(j)
               /\ j \in Whole' <=> j \in Whole
    <2>1. Owes(j)' <=> Owes(j)
      BY <1>1, <1>4 DEF Owes
    <2>2. QED
      BY <1>1, <2>1 DEF Whole, Midway, Behind
  <1>5. CASE UNCHANGED <<msgVal, kills>>
    <2>1. ~Owes(i)'
      BY <1>1, <1>3, <1>5 DEF Owes
    <2>2. Owing' \subseteq Owing
      BY <1>4, <1>5, <2>1 DEF Owing
    <2>3. Whole \subseteq Whole'
      <3>1. i \notin Whole /\ Whole \subseteq Slots
        BY <1>3 DEF Whole
      <3>2. QED
        BY <1>4, <1>5, <3>1
    <2>4. AtLeast' /\ AtMost'
      <3>1. pc = "dead" => pc' = "dead"
        BY <1>1
      <3>2. QED
        BY <1>1, <1>2, <1>5, <2>2, <2>3, <3>1, TallySame
    <2>5. Told'
      BY <1>1, <1>3, <1>5 DEF Tally, Told
    <2>6. QED
      BY <1>2, <2>4, <2>5 DEF Tally
  <1>6. CASE msgVal' = [msgVal EXCEPT ![i] = 1] /\ kills' = kills + 1
    <2>1. msgVal'[i] = 1 /\ \A j \in Slots \ {i} : msgVal'[j] = msgVal[j]
      BY <1>6 DEF Ranges, Mail
    <2>2. Owes(i)' /\ i \in Whole'
      <3>1. Owes(i)'
        BY <1>1, <2>1 DEF Owes, Telling
      <3>2. ~Behind(c2p[i], cpc[i])'
        BY <1>1, <1>3 DEF Behind
      <3>3. QED
        BY <3>1, <3>2 DEF Whole
    <2>3. Owing' \subseteq Owing \cup {i} /\ Whole \subseteq Whole' \ {i}
      <3>1. Owing' \subseteq Owing \cup {i}
        BY <1>4, <2>1 DEF Owing
      <3>2. i \notin Whole /\ Whole \subseteq Slots
        BY <1>3 DEF Whole
      <3>3. QED
        BY <1>4, <2>1, <3>1, <3>2
    <2>4. PICK a \in Nat, b \in Nat, c \in Nat, d \in Nat :
             /\ a = Cardinality(Owing) /\ b = Cardinality(Owing') /\ b <= a + 1
             /\ c = Cardinality(Whole) /\ d = Cardinality(Whole') /\ c + 1 <= d
      <3>1. /\ Owing \in SUBSET Slots /\ Owing' \in SUBSET Slots
            /\ Whole \in SUBSET Slots /\ Whole' \in SUBSET Slots
        BY DEF Owing, Whole
      <3>2. /\ Cardinality(Owing') <= Cardinality(Owing) + 1
            /\ Cardinality(Whole) + 1 <= Cardinality(Whole')
        BY <2>2, <2>3, <3>1, CountFacts
      <3>3. QED
        BY <3>1, <3>2, CountFacts
    <2>5. PICK x \in Nat, z \in Nat, k \in Nat, u \in Nat, v \in Nat :
             /\ x = killCount /\ z = InHand /\ k = kills /\ u = cutReads /\ v = Dropped
      BY HandFacts DEF Ranges, Counts
    <2>6. killCount' = x /\ InHand' = z /\ kills' = k + 1 /\ cutReads' = u /\ Dropped' = v
      BY <1>1, <1>2, <1>6, <2>5
    <2>7. AtLeast'
      <3>1. x + a + z <= k
        BY <2>4, <2>5 DEF Tally, AtLeast
      <3>2. x + b + z <= k + 1
        BY <2>4, <3>1
      <3>3. QED
        BY <2>4, <2>6, <3>2 DEF AtLeast
    <2>8. AtMost'
      <3>1. CASE pc = "dead" \/ Caught
        BY <1>1, <1>2, <3>1 DEF AtMost
      <3>2. CASE ~(pc = "dead" \/ Caught)
        <4>1. k <= x + c + z + u + v
          BY <2>4, <2>5, <3>2 DEF Tally, AtMost
        <4>2. k + 1 <= x + d + z + u + v
          BY <2>4, <4>1
        <4>3. QED
          BY <2>4, <2>6, <4>2 DEF AtMost
      <3>3. QED
        BY <3>1, <3>2
    <2>9. Told'
      BY <1>1, <2>1 DEF Tally, Told, Telling
    <2>10. QED
      BY <1>2, <2>7, <2>8, <2>9 DEF Tally
  <1>7. QED
    BY <1>5, <1>6 DEF MonitorProcess

LEMMA WriteTally ==
    ASSUME Inv, Ranges, Tally, NEW i \in Slots, ChildWrite(i) PROVE Tally'
  <1> DEFINE q == c2p[i]
             s == cpc[i]
             h == WrittenHalf(i)
             r == Append(q, h)
             t == AfterWrite[s]
  <1>1. /\ cpc \in [Slots -> ChildPcs] /\ c2p \in [Slots -> Seq(Half)] /\ q \in Seq(Half)
        /\ msgVal \in [Slots -> {0, 1}]
    BY DEF Inv, Places, Half, Ranges, Mail
  <1>2. /\ s \in DOMAIN AfterWrite /\ cpc' = [cpc EXCEPT ![i] = t]
        /\ c2p' = [c2p EXCEPT ![i] = r]
        /\ UNCHANGED <<pc, idx, hand, killCount, kills, cutReads, from>>
        /\ IF s = "availableBody" THEN msgVal' = [msgVal EXCEPT ![i] = 0] ELSE UNCHANGED msgVal
    BY DEF ChildWrite, parentOnly, posVars, countVars, sigVars
  <1>3. /\ cpc'[i] = t /\ c2p'[i] = r
        /\ msgVal'[i] = (IF s = "availableBody" THEN 0 ELSE msgVal[i])
        /\ \A j \in Slots \ {i} : cpc'[j] = cpc[j] /\ c2p'[j] = c2p[j] /\ msgVal'[j] = msgVal[j]
    BY <1>1, <1>2
  <1>4. h \in Half /\ (IsHeader(h) <=> s \notin {"availableBody", "exitBody"})
    BY <1>1, <1>2, WriteFacts
  <1>5. PICK n \in Nat : n = Len(q)
    BY <1>1, LenProperties
  <1>6. /\ r \in Seq(Half) /\ Len(r) = n + 1 /\ r[n + 1] = h
        /\ \A k \in 1..n : r[k] = q[k]
    BY <1>1, <1>4, <1>5, AppendProperties
  <1>7. s \in {"availableHeader", "availableBody", "exitHeader", "exitBody"}
    BY <1>2 DEF AfterWrite
  <1>8. /\ s = "availableHeader" => t = "availableBody"
        /\ s = "availableBody" => t = "read"
        /\ s = "exitHeader" => t = "exitBody"
        /\ s = "exitBody" => t = "gone"
    BY DEF AfterWrite
  <1>9. h = Sure <=> s = "availableBody" /\ msgVal[i] = 1
    <2>1. CASE s = "availableBody"
      <3>1. h = Body(Available(msgVal[i]))
        BY <2>1 DEF WrittenHalf
      <3>2. QED
        BY <2>1, <3>1 DEF Sure, Body, Available
    <2>2. CASE s = "exitBody"
      <3>1. h = Body("exitComplete")
        BY <2>2 DEF WrittenHalf
      <3>2. QED
        BY <2>2, <3>1 DEF Sure, Body
    <2>3. CASE s \in {"availableHeader", "exitHeader"}
      <3>1. ~IsHeader(Sure)
        BY HalfFacts DEF Sure
      <3>2. QED
        BY <1>4, <2>3, <3>1
    <2>4. QED
      BY <1>7, <2>1, <2>2, <2>3
  <1> HIDE DEF h, r, t
  <1>10. Owes(i)' <=> Owes(i)
    <2>1. (\E k \in 1..(n + 1) : r[k] = Sure) <=> h = Sure \/ \E k \in 1..n : q[k] = Sure
      <3>1. \A k \in 1..(n + 1) : k = n + 1 \/ k \in 1..n
        BY <1>5
      <3>2. n + 1 \in 1..(n + 1) /\ \A k \in 1..n : k \in 1..(n + 1)
        BY <1>5
      <3>3. QED
        BY <1>6, <3>1, <3>2
    <2>2. Owes(i)' <=> \/ t \in Telling /\ msgVal'[i] = 1
                       \/ h = Sure \/ \E k \in 1..n : q[k] = Sure
      BY <1>3, <1>6, <2>1 DEF Owes
    <2>3. Owes(i) <=> (s \in Telling /\ msgVal[i] = 1) \/ \E k \in 1..n : q[k] = Sure
      BY <1>5 DEF Owes
    <2>4. (t \in Telling /\ msgVal'[i] = 1) \/ h = Sure <=> s \in Telling /\ msgVal[i] = 1
      BY <1>3, <1>7, <1>8, <1>9 DEF Telling
    <2>5. QED
      BY <2>2, <2>3, <2>4
  <1>11. Behind(r, t) => Behind(q, s)
    <2>1. r # <<>>
      <3>1. Len(r) # 0
        BY <1>6, <1>5
      <3>2. QED
        BY <1>6, <3>1, EmptySeq
    <2>2. CASE q = <<>>
      <3>1. r[1] = h
        <4>1. n = 0
          BY <1>5, <2>2
        <4>2. QED
          BY <1>6, <4>1
      <3>2. QED
        BY <1>4, <2>1, <2>2, <3>1 DEF Behind
    <2>3. CASE q # <<>>
      <3>1. n # 0
        BY <1>1, <1>5, <2>3, EmptySeq
      <3>2. r[1] = q[1]
        BY <1>5, <1>6, <3>1
      <3>3. QED
        BY <2>1, <2>3, <3>2 DEF Behind
    <2>4. QED
      BY <2>2, <2>3
  <1>12. Owing' \subseteq Owing /\ Whole \subseteq Whole'
    <2>1. \A j \in Slots \ {i} : Owes(j)' <=> Owes(j)
      BY <1>3 DEF Owes
    <2>2. \A j \in Slots : Midway(j)' <=> Midway(j)
      BY <1>2 DEF Midway
    <2>3. \A j \in Slots : Behind(c2p[j], cpc[j])' => Behind(c2p[j], cpc[j])
      BY <1>3, <1>11
    <2>4. QED
      BY <1>10, <2>1, <2>2, <2>3 DEF Owing, Whole
  <1>13. UNCHANGED <<InHand, Dropped>>
    BY <1>2 DEF InHand, Dropped
  <1>14. Caught' <=> Caught
    BY <1>3, <1>7, <1>8 DEF Caught
  <1>15. AtLeast' /\ AtMost'
    BY <1>2, <1>12, <1>13, <1>14, TallySame
  <1>16. Told'
    BY <1>3, <1>7, <1>8 DEF Tally, Told, Telling
  <1>17. FromNone'
    BY <1>2 DEF Tally, FromNone
  <1>18. QED
    BY <1>15, <1>16, <1>17 DEF Tally

LEMMA ChildTally ==
    ASSUME Inv, Ranges, Fresh, Tally, NEW i \in Slots, Child(i) PROVE Tally'
  <1>1. CASE IgnoreSignals(i) \/ ChildRead(i)
    <2>1. /\ UNCHANGED <<pc, idx, hand, c2p, msgVal, killCount, kills, cutReads, from>>
          /\ \A j \in Slots : cpc'[j] = cpc[j] \/ (cpc[j] \in {"forked", "read"} /\
                 cpc'[j] \in {"read", "exitHeader", "sleep", "lost"})
      BY <1>1 DEF IgnoreSignals, ChildRead, parentOnly, posVars, countVars, sigVars, Inv, Places
    <2>2. UNCHANGED InHand /\ (Caught => Caught')
      BY <2>1 DEF InHand, Caught
    <2>3. \A j \in Slots : cpc'[j] = cpc[j] \/ (cpc[j] \in Mute /\ cpc'[j] \in Mute)
      BY <2>1 DEF Mute, ChildPcs
    <2>4. QED
      BY <2>1, <2>2, <2>3, QuietTally
  <1>2. CASE MonitorProcess(i)
    BY <1>2, MonitorTally
  <1>3. CASE ChildWrite(i)
    BY <1>3, WriteTally
  <1>4. CASE ChildHandler(i)
    <2>1. UNCHANGED <<pc, idx, hand, msgVal, killCount, kills, cutReads, from>>
      BY <1>4 DEF ChildHandler, parentOnly, posVars, countVars, sigVars
    <2>2. CASE /\ cpc[i] = "handler" /\ cpc' = [cpc EXCEPT ![i] = "taking"] /\ UNCHANGED c2p
      <3>1. \A j \in Slots : cpc'[j] = cpc[j] \/ (cpc[j] = "handler" /\ cpc'[j] = "taking")
        BY <2>2 DEF Inv, Places
      <3>2. UNCHANGED InHand /\ (Caught => Caught')
        BY <2>1, <3>1 DEF InHand, Caught
      <3>3. \A j \in Slots : cpc'[j] = cpc[j] \/ (cpc[j] \in Mute /\ cpc'[j] \in Mute)
        BY <3>1 DEF Mute, ChildPcs
      <3>4. QED
        BY <2>1, <2>2, <3>2, <3>3, QuietTally
    <2>3. ASSUME cpc[i] = "taking", UNCHANGED cpc, NEW j \in 1..i, Len(c2p[j]) >= 2,
                 c2p' = [c2p EXCEPT ![j] = Tail(Tail(@))]
          PROVE  Tally'
      <3>1. j \in Slots /\ c2p \in [Slots -> Seq(Half)] /\ c2p[j] \in Seq(Half)
        <4>1. j \in Slots
          BY SlotsFinite DEF Slots
        <4>2. QED
          BY <4>1 DEF Inv, Places, Half
      <3>2. /\ c2p'[j] = Tail(Tail(c2p[j])) /\ \A l \in Slots \ {j} : c2p'[l] = c2p[l]
            /\ Len(c2p'[j]) = Len(c2p[j]) - 2 /\ Len(c2p[j]) \in Nat
            /\ \A k \in 1..(Len(c2p[j]) - 2) : c2p'[j][k] = c2p[j][k + 2]
        BY <2>3, <3>1, TailTail, LenProperties
      <3>3. Owes(j)' => Owes(j)
        <4>1. \A k \in 1..(Len(c2p[j]) - 2) : k + 2 \in 1..Len(c2p[j])
          BY <3>2
        <4>2. QED
          BY <2>1, <2>3, <3>2, <4>1 DEF Owes
      <3>4. \A l \in Slots \ {j} : Owes(l)' <=> Owes(l)
        BY <2>1, <2>3, <3>2 DEF Owes
      <3>5. Owing' \subseteq Owing
        BY <3>3, <3>4 DEF Owing
      <3>6. UNCHANGED <<InHand, Dropped>> /\ Caught'
        BY <2>1, <2>3 DEF InHand, Dropped, Caught
      <3>7. AtLeast' /\ AtMost'
        BY <2>1, <3>5, <3>6, TallySame
      <3>8. Told' /\ FromNone'
        BY <2>1, <2>3 DEF Tally, Told, FromNone
      <3>9. QED
        BY <3>7, <3>8 DEF Tally
    <2>4. QED
      BY <1>4, <2>2, <2>3 DEF ChildHandler
  <1>5. QED
    BY <1>1, <1>2, <1>3, <1>4 DEF Child

LEMMA InitTally == Init => Tally
  <1> SUFFICES ASSUME Init PROVE Tally
    OBVIOUS
  <1>1. \A i \in Slots : cpc[i] = "none" /\ Len(c2p[i]) = 0 /\ msgVal[i] = 0
    BY DEF Init
  <1>2. Owing = {} /\ Whole = {}
    BY <1>1 DEF Owing, Whole, Owes, Telling
  <1>3. Cardinality(Owing) = 0 /\ Cardinality(Whole) = 0
    BY <1>2, FS_EmptySet
  <1>4. /\ killCount = 0 /\ kills = 0 /\ cutReads = 0 /\ InHand = 0 /\ Dropped = 0
        /\ FromNone
    BY DEF Init, InHand, Dropped, FromNone
  <1>5. AtLeast /\ AtMost
    BY <1>3, <1>4 DEF AtLeast, AtMost
  <1>6. Told
    BY <1>1 DEF Told
  <1>7. QED
    BY <1>4, <1>5, <1>6 DEF Tally

LEMMA NextTally ==
    ASSUME Inv, Jobs, Ranges, Ranges', Fresh, Tally, [Next]_vars PROVE Tally'
  <1>1. CASE Parent
    <2>1. CASE Scan \/ PickProcess \/ Fork \/ WriteHeader \/ WriteBody \/ SendExit
                 \/ WaitOnJunk \/ Finish
      BY <2>1, ParentQuiet
    <2>2. CASE ReadHeader
      BY <2>2, PollTally
    <2>3. CASE ReadBody
      BY <2>3, ReadBodyTally
    <2>4. CASE HandleMessage
      BY <2>4, HandleTally
    <2>5. CASE WaitHeader
      BY <2>5, WaitTally
    <2>6. CASE WaitBody
      BY <2>6, WaitBodyTally
    <2>7. QED
      BY <1>1, <2>1, <2>2, <2>3, <2>4, <2>5, <2>6 DEF Parent
  <1>2. ASSUME NEW i \in Slots, Child(i) PROVE Tally'
    BY <1>2, ChildTally
  <1>3. CASE Sighup
    BY <1>3, SighupTally
  <1>4. CASE Sigint
    BY <1>4, SigintTally
  <1>5. CASE Spawn \/ ProcessExit \/ UNCHANGED vars
    <2>1. UNCHANGED <<pc, idx, hand, c2p, cpc, msgVal, killCount, kills, cutReads, from>>
      BY <1>5 DEF Spawn, ProcessExit, vars, posVars, countVars, childVars, sigVars
    <2>2. UNCHANGED InHand /\ (Caught => Caught')
      BY <2>1 DEF InHand, Caught
    <2>3. QED
      BY <2>1, <2>2, QuietTally
  <1>6. QED
    BY <1>1, <1>2, <1>3, <1>4, <1>5 DEF Next

\* The number in the final message: never above the kills made, and below them
\* by no more than the bodies SIGHUP cut and the one answer SIGINT took out of
\* the parent's hands.
THEOREM TallyCorrect == Spec => []TallyClose
  <1>1. Inv /\ Ranges /\ Fresh /\ Tally => TallyClose
    <2> SUFFICES ASSUME Inv, Ranges, Fresh, Tally, pc = "done"
                 PROVE  /\ killCount <= kills
                        /\ kills - killCount <= cutReads + Dropped
      BY DEF TallyClose, Dropped
    <2>1. childCount \in Nat /\ childCount <= exited /\ exited <= Cardinality(Heard)
          /\ childCount \in 0..MaxChildren
      BY DEF Inv, Places, Ends
    <2>2. Heard = 1..childCount
      <3>1. Cardinality(Heard) \in 0..childCount /\ exited \in 0..childCount
        BY HeardCounted
      <3>2. Cardinality(Heard) = childCount
        BY <2>1, <3>1
      <3>3. QED
        BY <3>2, HeardCounted
    <2>3. ASSUME NEW i \in Slots
          PROVE  cpc[i] \in {"gone", "none"} /\ Len(c2p[i]) = 0
      <3>1. Answer(c2p[i], cpc[i]) /\ c2p[i] \in Seq(Half) /\ Len(c2p[i]) \in Nat
        BY LenProperties DEF Fresh, Inv, Places, Half
      <3>2. CASE i > childCount
        BY <3>1, <3>2 DEF Inv, Places, Answer
      <3>3. CASE i <= childCount
        <4>1. Quiet(c2p[i], cpc[i])
          BY <2>1, <2>2, <3>3, SlotsFinite DEF Heard, Slots
        <4>2. Len(c2p[i]) # 0 => Len(c2p[i]) \in 1..Len(c2p[i])
          BY <3>1
        <4>3. QED
          BY <3>1, <4>1, <4>2 DEF Quiet, Answer
      <3>4. QED
        BY <2>1, <3>2, <3>3, SlotsFinite DEF Slots
    <2>4. Owing = {} /\ Whole = {} /\ ~Caught
      BY <2>3 DEF Owing, Whole, Owes, Telling, Caught
    <2>5. Cardinality(Owing) = 0 /\ Cardinality(Whole) = 0
      BY <2>4, FS_EmptySet
    <2>6. PICK x \in Nat, k \in Nat, u \in Nat, v \in Nat :
             x = killCount /\ k = kills /\ u = cutReads /\ v = Dropped
      BY HandFacts DEF Ranges, Counts
    <2>7. x + 0 + 0 <= k /\ k <= x + 0 + 0 + u + v
      BY <2>4, <2>5, <2>6 DEF Tally, AtLeast, AtMost, InHand
    <2>8. x <= k /\ k - x <= u + v
      BY <2>7
    <2>9. QED
      BY <2>6, <2>8
  <1>2. Init => Inv /\ Jobs /\ Ranges /\ Fresh /\ Tally
    <2>1. Init => pc \in ParentPcs
      BY DEF Init, ParentPcs
    <2>2. QED
      BY <2>1, InitInv, InitJobs, InitRanges, InitTally, JobsFresh
  <1>3. Inv /\ Jobs /\ Ranges /\ Fresh /\ Tally /\ [Next]_vars
            => (Inv /\ Jobs /\ Ranges /\ Fresh /\ Tally)'
    <2>1. Inv /\ Jobs /\ Ranges /\ [Next]_vars => Inv' /\ Jobs' /\ Ranges'
      BY NextInv, NextJobs, NextRanges
    <2>2. QED
      BY <2>1, NextFresh, NextTally
  <1>4. QED
    BY <1>1, <1>2, <1>3, PTL DEF Spec

===============================================================================
