-------------------------- MODULE ServerTallyProofs --------------------------
(***************************************************************************)
(* What the server prints at its end, for any number of clients, lines and *)
(* kills: the total and the nodes of its final message (TallyExact), and   *)
(* the lines of its log (LogLosesOne).  Both rest on the framing of the    *)
(* connections in the direction of the server (Stream): what is on its way *)
(* from a client follows on what the server has read and ends where the    *)
(* client has got to.                                                      *)
(***************************************************************************)
EXTENDS ServerProofs

-----------------------------------------------------------------------------
(* The framing of what a client writes.                                    *)

\* What follows a message: the other half of it, a header, or nothing.
Behind(m) == CASE m.type = "output" -> "text"
               [] m.type = "text"   -> "header"
               [] m.type = "exit"   -> "kills"
               [] m.type = "kills" /\ m.v > 0 -> "name"
               [] OTHER -> "end"
Fits(m, w) == IF w = "header" THEN m.type \in {"output", "exit"} ELSE m.type = w

\* The messages q begin with w, follow on one another, and e comes behind them.
Line(q, w, e) ==
    /\ IF q = <<>> THEN w = e ELSE Fits(q[1], w) /\ Behind(q[Len(q)]) = e
    /\ \A i \in 1..(Len(q) - 1) : Fits(q[i + 1], Behind(q[i]))

Texts(q) == Cardinality({i \in DOMAIN q : q[i].type = "text"})

\* What the client writes next.
Writes(c) == CASE half[c] -> "text"
               [] cl[c] = "sendKills" -> "kills"
               [] cl[c] = "sendName"  -> "name"
               [] cl[c] = "gone"      -> "end"
               [] OTHER -> "header"

\* What the server reads next.  pend: SIGINT came after "main" had read the header
\* of a line of this client, whose text is still to come.
Serves(c) == pc["int"] \in {"text", "kills", "name"} /\ at["int"] = c
AtText(c) == pc["main"] = "text" /\ at["main"] = c
Reads(c, pend) == CASE Serves(c)    -> pc["int"]
                    [] c \in Marked -> "end"
                    [] pend         -> "text"
                    [] OTHER        -> "header"

\* The line whose header SIGINT found read and whose text was then skipped.
Lost(c, pend) == IF AtText(c) /\ ~pend THEN 1 ELSE 0

Stream(c, pend) ==
    /\ pend => AtText(c) /\ ~Serves(c) /\ c \notin Marked
    /\ pc["int"] = "off" /\ AtText(c) => pend
    /\ Line(c2s[c], Reads(c, pend), Writes(c))
    /\ outs[c] <= logged[c] + Texts(c2s[c]) + Lost(c, pend)

\* No read failed and no client was killed.
Calm == failedReads = {} /\ crashes = 0

\* Before SIGINT no client is asked to exit.
Unasked ==
    pc["int"] = "off" =>
        /\ exited = 0
        /\ \A c \in Clients :
              /\ cl[c] \notin {"exiting", "sendKills", "sendName", "gone"}
              /\ \A i \in DOMAIN s2c[c] : s2c[c][i].type # "exit"

HalfTold == \A c \in Clients : half[c] => cl[c] \in {"waitConfig", "run", "exiting", "killed"}

TrueCounts ==
    \A c \in Clients : \A i \in DOMAIN c2s[c] :
        c2s[c][i].type = "kills" => c2s[c][i].v = report[c]

Streams == Calm => \A c \in Clients : \E pend \in BOOLEAN : Stream(c, pend)

Heard == HalfTold /\ TrueCounts /\ Unasked /\ Streams

\* The clients whose count is in the total.
InTotal == Marked \cup {c \in {at["int"]} : pc["int"] = "name"}

Added ==
    Calm => /\ pc["int"] = "name" => report[at["int"]] > 0
            /\ killCount = Total(report, InTotal)
            /\ nodenames = {c \in Marked : report[c] > 0}

Exact == Tally /\ Heard /\ Added

-----------------------------------------------------------------------------
(* Facts about messages in a row.                                          *)

LEMMA LineSaid ==
    ASSUME NEW q \in Seq(Messages), NEW m \in Messages, NEW w, NEW e, Line(q, w, e), Fits(m, e)
    PROVE  Line(Append(q, m), w, Behind(m))
  <1> DEFINE r == Append(q, m)
  <1>1. /\ Len(q) \in Nat /\ r \in Seq(Messages) /\ Len(r) = Len(q) + 1
        /\ \A j \in 1..Len(q) : r[j] = q[j]
        /\ r[Len(q) + 1] = m
    BY AppendProperties, LenProperties
  <1>2. (q = <<>> <=> Len(q) = 0) /\ r # <<>>
    BY <1>1, EmptySeq
  <1>3. Fits(r[1], w)
    <2>1. CASE q = <<>>
      BY <1>1, <1>2, <2>1 DEF Line
    <2>2. CASE q # <<>>
      BY <1>1, <1>2, <2>2 DEF Line
    <2>3. QED
      BY <2>1, <2>2
  <1>4. ASSUME NEW i \in 1..(Len(r) - 1) PROVE Fits(r[i + 1], Behind(r[i]))
    <2>1. CASE i = Len(q)
      <3>1. q # <<>> /\ r[i] = q[Len(q)] /\ r[i + 1] = m
        BY <1>1, <1>2, <2>1
      <3>2. QED
        BY <3>1 DEF Line
    <2>2. CASE i # Len(q)
      <3>1. i \in 1..(Len(q) - 1) /\ r[i] = q[i] /\ r[i + 1] = q[i + 1]
        BY <1>1, <2>2
      <3>2. QED
        BY <3>1 DEF Line
    <2>3. QED
      BY <2>1, <2>2
  <1>5. Behind(r[Len(r)]) = Behind(m)
    BY <1>1
  <1>6. QED
    BY <1>2, <1>3, <1>4, <1>5 DEF Line

LEMMA LineTaken ==
    ASSUME NEW q \in Seq(Messages), q # <<>>, NEW w, NEW e, Line(q, w, e)
    PROVE  Fits(Head(q), w) /\ Line(Tail(q), Behind(Head(q)), e)
  <1> DEFINE r == Tail(q)
  <1>1. /\ Len(q) \in Nat /\ Len(q) # 0 /\ Head(q) = q[1]
        /\ r \in Seq(Messages) /\ Len(r) = Len(q) - 1
        /\ \A j \in 1..Len(r) : r[j] = q[j + 1]
    BY EmptySeq, LenProperties, HeadTailProperties
  <1>2. r = <<>> <=> Len(q) = 1
    <2>1. r = <<>> <=> Len(r) = 0
      BY <1>1, EmptySeq
    <2>2. QED
      BY <1>1, <2>1
  <1>3. Fits(Head(q), w)
    BY <1>1 DEF Line
  <1>4. IF r = <<>> THEN Behind(q[1]) = e ELSE Fits(r[1], Behind(q[1])) /\ Behind(r[Len(r)]) = e
    <2>1. CASE r = <<>>
      BY <1>1, <1>2, <2>1 DEF Line
    <2>2. CASE r # <<>>
      <3>1. 1 \in 1..(Len(q) - 1) /\ r[1] = q[1 + 1] /\ r[Len(r)] = q[Len(q)]
        BY <1>1, <1>2, <2>2
      <3>2. QED
        BY <2>2, <3>1 DEF Line
    <2>3. QED
      BY <2>1, <2>2
  <1>5. ASSUME NEW i \in 1..(Len(r) - 1) PROVE Fits(r[i + 1], Behind(r[i]))
    <2>1. i + 1 \in 1..(Len(q) - 1) /\ r[i] = q[i + 1] /\ r[i + 1] = q[i + 1 + 1]
      BY <1>1
    <2>2. QED
      BY <2>1 DEF Line
  <1>6. QED
    BY <1>1, <1>3, <1>4, <1>5 DEF Line

LEMMA TextsFinite ==
    ASSUME NEW q \in Seq(Messages)
    PROVE  /\ IsFiniteSet({i \in DOMAIN q : q[i].type = "text"})
           /\ Texts(q) \in Nat
  <1>1. DOMAIN q = 1..Len(q) /\ Len(q) \in Nat
    BY LenProperties
  <1>2. IsFiniteSet(DOMAIN q)
    BY <1>1, FS_Interval
  <1>3. IsFiniteSet({i \in DOMAIN q : q[i].type = "text"})
    BY <1>2, FS_Subset
  <1>4. QED
    BY <1>3, FS_CardinalityType DEF Texts

LEMMA TextsSaid ==
    ASSUME NEW q \in Seq(Messages), NEW m \in Messages
    PROVE  /\ Texts(Append(q, m)) = Texts(q) + (IF m.type = "text" THEN 1 ELSE 0)
           /\ Texts(q) \in Nat
  <1> DEFINE r == Append(q, m)
             S == {i \in DOMAIN q : q[i].type = "text"}
  <1>1. /\ Len(q) \in Nat /\ DOMAIN q = 1..Len(q)
        /\ DOMAIN r = 1..(Len(q) + 1)
        /\ \A j \in 1..Len(q) : r[j] = q[j]
        /\ r[Len(q) + 1] = m
    BY AppendProperties, LenProperties
  <1>2. IsFiniteSet(S) /\ Texts(q) \in Nat
    BY TextsFinite
  <1>3. CASE m.type = "text"
    <2>1. {i \in DOMAIN r : r[i].type = "text"} = S \cup {Len(q) + 1}
      BY <1>1, <1>3
    <2>2. Len(q) + 1 \notin S
      BY <1>1
    <2>3. Cardinality(S \cup {Len(q) + 1}) = Cardinality(S) + 1
      BY <1>2, <2>2, FS_AddElement
    <2>4. QED
      BY <1>2, <1>3, <2>1, <2>3 DEF Texts
  <1>4. CASE m.type # "text"
    <2>1. {i \in DOMAIN r : r[i].type = "text"} = S
      BY <1>1, <1>4
    <2>2. Texts(r) = Cardinality(S) /\ Texts(q) = Cardinality(S)
      BY <2>1 DEF Texts
    <2>3. QED
      BY <1>2, <1>4, <2>2
  <1>5. QED
    BY <1>3, <1>4

LEMMA TextsTaken ==
    ASSUME NEW q \in Seq(Messages), q # <<>>
    PROVE  /\ Texts(q) = Texts(Tail(q)) + (IF Head(q).type = "text" THEN 1 ELSE 0)
           /\ Texts(Tail(q)) \in Nat /\ Tail(q) \in Seq(Messages)
  <1> DEFINE r == Tail(q)
             S == {i \in DOMAIN q : q[i].type = "text"} \ {1}
             R == {i \in DOMAIN r : r[i].type = "text"}
  <1>1. /\ Len(q) \in Nat /\ Len(q) # 0 /\ Head(q) = q[1] /\ DOMAIN q = 1..Len(q)
        /\ r \in Seq(Messages) /\ DOMAIN r = 1..(Len(q) - 1)
        /\ \A j \in 1..(Len(q) - 1) : r[j] = q[j + 1]
    BY EmptySeq, LenProperties, HeadTailProperties
  <1>2. IsFiniteSet(R) /\ Texts(r) \in Nat /\ IsFiniteSet({i \in DOMAIN q : q[i].type = "text"})
    BY <1>1, TextsFinite
  <1>3. Cardinality(S) = Cardinality(R)
    <2> DEFINE F == [i \in R |-> i + 1]
    <2>1. F \in [R -> S]
      BY <1>1
    <2>2. \A a, b \in R : F[a] = F[b] => a = b
      BY <1>1
    <2>3. ASSUME NEW k \in S PROVE \E i \in R : F[i] = k
      <3>1. k - 1 \in 1..(Len(q) - 1) /\ k = (k - 1) + 1
        BY <1>1
      <3>2. k - 1 \in R
        BY <1>1, <3>1
      <3>3. QED
        BY <3>1, <3>2
    <2>4. F \in Bijection(R, S)
      BY <2>1, <2>2, <2>3 DEF Bijection, Injection, Surjection, IsInjective
    <2>5. QED
      BY <1>2, <2>4, FS_Bijection DEF ExistsBijection
  <1>4. Cardinality(S) = IF Head(q).type = "text" THEN Texts(q) - 1 ELSE Texts(q)
    <2>1. 1 \in {i \in DOMAIN q : q[i].type = "text"} <=> Head(q).type = "text"
      BY <1>1
    <2>2. QED
      BY <1>2, <2>1, FS_RemoveElement DEF Texts
  <1>5. Texts(q) \in Nat /\ Cardinality(R) = Texts(r)
    BY TextsFinite DEF Texts
  <1>6. Texts(q) = Texts(r) + (IF Head(q).type = "text" THEN 1 ELSE 0)
    <2> HIDE DEF r, R, S
    <2>1. CASE Head(q).type = "text"
      <3>1. Texts(q) - 1 = Texts(r)
        BY <1>3, <1>4, <1>5, <2>1
      <3>2. QED
        BY <1>2, <1>5, <2>1, <3>1
    <2>2. CASE Head(q).type # "text"
      <3>1. Texts(q) = Texts(r)
        BY <1>3, <1>4, <1>5, <2>2
      <3>2. QED
        BY <1>2, <1>5, <2>2, <3>1
    <2>3. QED
      BY <2>1, <2>2
  <1>7. QED
    BY <1>1, <1>2, <1>6

-----------------------------------------------------------------------------
(* Facts about totals.                                                     *)

LEMMA UnitsFinite ==
    ASSUME NEW S, IsFiniteSet(S), NEW f, \A c \in S : f[c] \in Int
    PROVE  IsFiniteSet(Units(f, S)) /\ Total(f, S) \in Nat
  <1> DEFINE T == {{c} \X (1..f[c]) : c \in S}
             F == [c \in S |-> {c} \X (1..f[c])]
  <1>1. F \in Surjection(S, T)
    BY DEF Surjection
  <1>2. IsFiniteSet(T)
    BY <1>1, FS_Surjection
  <1>3. ASSUME NEW t \in T PROVE IsFiniteSet(t)
    <2>1. PICK c \in S : t = {c} \X (1..f[c])
      OBVIOUS
    <2>2. IsFiniteSet({c})
      BY FS_Singleton
    <2>3. PICK n \in Int : n = f[c]
      OBVIOUS
    <2>4. IsFiniteSet(1..n)
      BY FS_Interval
    <2>5. QED
      BY <2>1, <2>2, <2>3, <2>4, FS_Product
  <1>4. IsFiniteSet(UNION T)
    BY <1>2, <1>3, FS_UNION
  <1>5. QED
    BY <1>4, FS_CardinalityType DEF Units, Total

LEMMA TotalAdds ==
    ASSUME NEW S, IsFiniteSet(S), NEW f, \A c \in S : f[c] \in Int,
           NEW d, d \notin S, f[d] \in Nat
    PROVE  Total(f, S \cup {d}) = Total(f, S) + f[d]
  <1> DEFINE U == Units(f, S)
             V == {d} \X (1..f[d])
  <1>1. Units(f, S \cup {d}) = U \cup V
    BY DEF Units
  <1>2. U \cap V = {}
    BY DEF Units
  <1>3. IsFiniteSet(U) /\ Cardinality(U) \in Nat
    BY UnitsFinite DEF Total
  <1>4. IsFiniteSet({d}) /\ Cardinality({d}) = 1
    BY FS_Singleton
  <1>5. IsFiniteSet(1..f[d]) /\ Cardinality(1..f[d]) = f[d]
    BY FS_Interval
  <1>6. IsFiniteSet(V) /\ Cardinality(V) = f[d]
    <2>1. PICK n \in Nat : n = f[d]
      OBVIOUS
    <2>2. IsFiniteSet(V) /\ Cardinality(V) = Cardinality({d}) * Cardinality(1..f[d])
      BY <1>4, <1>5, FS_Product
    <2>3. Cardinality(V) = 1 * n
      BY <1>4, <1>5, <2>1, <2>2
    <2>4. QED
      BY <2>1, <2>2, <2>3
  <1>7. Cardinality(U \cup V) = Cardinality(U) + Cardinality(V) - Cardinality({})
    <2> HIDE DEF U, V
    <2>1. Cardinality(U \cup V) = Cardinality(U) + Cardinality(V) - Cardinality(U \cap V)
      BY <1>3, <1>6, FS_Union
    <2>2. QED
      BY <1>2, <2>1
  <1>8. Cardinality(U \cup V) = Cardinality(U) + f[d]
    <2> HIDE DEF U, V
    <2>1. Cardinality({}) = 0
      BY FS_EmptySet
    <2>2. QED
      BY <1>3, <1>6, <1>7, <2>1
  <1>9. QED
    BY <1>1, <1>8 DEF Total

\* What is the same for every client but for one unit of one of them.
LEMMA TotalsClose ==
    ASSUME NEW S, IsFiniteSet(S), NEW f, NEW g, NEW d,
           \A c \in S : f[c] \in Nat /\ g[c] \in Nat /\ f[c] <= g[c] + (IF c = d THEN 1 ELSE 0)
    PROVE  Total(f, S) - Total(g, S) <= 1
  <1> DEFINE U == Units(f, S)
             V == Units(g, S)
             u == <<d, f[d]>>
  <1>1. IsFiniteSet(U) /\ Cardinality(U) \in Nat
    BY UnitsFinite DEF Total
  <1>2. IsFiniteSet(V) /\ Cardinality(V) \in Nat
    BY UnitsFinite DEF Total
  <1>3. ASSUME NEW x \in U PROVE x \in V \cup {u}
    <2>1. PICK c \in S : x \in {c} \X (1..f[c])
      BY DEF Units
    <2>2. PICK k \in 1..f[c] : x = <<c, k>>
      BY <2>1
    <2>3. CASE k <= g[c]
      <3>1. x \in {c} \X (1..g[c])
        BY <2>2, <2>3
      <3>2. QED
        BY <3>1 DEF Units
    <2>4. CASE ~(k <= g[c])
      <3>1. c = d /\ k = f[c]
        BY <2>4
      <3>2. QED
        BY <2>2, <3>1
    <2>5. QED
      BY <2>3, <2>4
  <1>4. IsFiniteSet(V \cup {u}) /\ Cardinality(V \cup {u}) \in {Cardinality(V), Cardinality(V) + 1}
    BY <1>2, FS_AddElement
  <1>5. Cardinality(U) <= Cardinality(V \cup {u})
    BY <1>3, <1>4, FS_Subset
  <1>6. QED
    BY <1>1, <1>2, <1>4, <1>5 DEF Total

-----------------------------------------------------------------------------
(* The steps of a stream.                                                  *)

\* What a step leaves alone of a client.
Same(d) ==
    /\ c2s'[d] = c2s[d] /\ outs'[d] = outs[d] /\ logged'[d] = logged[d]
    /\ Writes(d)' = Writes(d)
    /\ AtText(d)' <=> AtText(d)
    /\ Serves(d)' <=> Serves(d)
    /\ Serves(d) => pc'["int"] = pc["int"]
    /\ d \in Marked' <=> d \in Marked
    /\ pc'["int"] = "off" => pc["int"] = "off"

LEMMA StreamSame ==
    ASSUME NEW d \in Clients, NEW pend \in BOOLEAN, Stream(d, pend), Same(d)
    PROVE  Stream(d, pend)'
  <1>1. Reads(d, pend)' = Reads(d, pend)
    BY DEF Reads, Same
  <1>2. Lost(d, pend)' = Lost(d, pend)
    BY DEF Lost, Same
  <1>3. Line(c2s[d], Reads(d, pend), Writes(d))' /\ Texts(c2s[d])' = Texts(c2s[d])
    BY <1>1 DEF Stream, Same, Line, Texts, Fits, Behind
  <1>4. /\ pend => AtText(d)' /\ ~Serves(d)' /\ d \notin Marked'
        /\ pc'["int"] = "off" /\ AtText(d)' => pend
    BY DEF Stream, Same
  <1>5. QED
    BY <1>2, <1>3, <1>4 DEF Stream, Same

LEMMA StreamsStep ==
    ASSUME Streams, Calm' => Calm, NEW c \in Clients, \A d \in Clients \ {c} : Same(d),
           Calm' => \E pend \in BOOLEAN : Stream(c, pend)'
    PROVE  Streams'
  <1> SUFFICES ASSUME Calm', NEW d \in Clients PROVE \E pend \in BOOLEAN : Stream(d, pend)'
    BY DEF Streams
  <1>1. CASE d = c
    BY <1>1
  <1>2. CASE d # c
    <2>1. PICK pend \in BOOLEAN : Stream(d, pend)
      BY DEF Streams
    <2>2. Stream(d, pend)'
      BY <1>2, <2>1, StreamSame
    <2>3. QED
      BY <2>2
  <1>3. QED
    BY <1>1, <1>2

\* A client that has not finished can still be waited for.
LEMMA Comes ==
    ASSUME Tally, HalfTold, Calm, NEW c \in Clients, NEW pend \in BOOLEAN,
           Stream(c, pend), Readable(c), Reads(c, pend) # "end"
    PROVE  c2s[c] # <<>> /\ Fits(Head(c2s[c]), Reads(c, pend))
  <1>1. c2s[c] # <<>>
    <2> SUFFICES ASSUME c2s[c] = <<>> PROVE FALSE
      OBVIOUS
    <2>1. Writes(c) = Reads(c, pend)
      BY DEF Stream, Line
    <2>2. cl[c] = "gone"
      BY DEF Readable, Closed, Tally, Honest, Calm, HeadersRead
    <2>3. ~half[c]
      BY <2>2 DEF HalfTold
    <2>4. Writes(c) = "end"
      BY <2>2, <2>3 DEF Writes
    <2>5. QED
      BY <2>1, <2>4
  <1>2. c2s[c] \in Seq(Messages)
    BY DEF Tally, Base, StreamTypes
  <1>3. QED
    BY <1>1, <1>2, LineTaken DEF Stream

\* The server reads a part of a message.
LEMMA StreamTaken ==
    ASSUME Base, NEW c \in Clients, NEW pend \in BOOLEAN, Stream(c, pend),
           c2s[c] # <<>>, Take(c), UNCHANGED clientVars,
           NEW next \in BOOLEAN, Reads(c, next)' = Behind(Head(c2s[c])),
           next => AtText(c)' /\ ~Serves(c)' /\ c \notin Marked',
           pc'["int"] = "off" /\ AtText(c)' => next,
           logged'[c] \in Nat,
           logged[c] + Lost(c, pend) + (IF Head(c2s[c]).type = "text" THEN 1 ELSE 0)
              <= logged'[c] + Lost(c, next)'
    PROVE  Stream(c, next)'
  <1>1. c2s[c] \in Seq(Messages) /\ c2s'[c] = Tail(c2s[c])
    BY Taken DEF Base, StreamTypes
  <1>2. Writes(c)' = Writes(c) /\ outs'[c] = outs[c]
    BY DEF Writes, clientVars
  <1>3. Line(c2s'[c], Reads(c, next)', Writes(c))
    BY <1>1, LineTaken DEF Stream
  <1>4. /\ Texts(c2s[c]) = Texts(c2s'[c]) + (IF Head(c2s[c]).type = "text" THEN 1 ELSE 0)
        /\ Texts(c2s'[c]) \in Nat
    BY <1>1, TextsTaken
  <1>5. outs[c] <= logged[c] + Texts(c2s[c]) + Lost(c, pend) /\ outs[c] \in Nat /\ logged[c] \in Nat
    BY DEF Stream, Base, ClientTypes, StreamTypes
  <1>6. PICK t \in {0, 1} : t = IF Head(c2s[c]).type = "text" THEN 1 ELSE 0
    OBVIOUS
  <1>7. PICK k \in {0, 1} : k = Lost(c, pend)
    BY DEF Lost
  <1>8. PICK n \in {0, 1} : n = Lost(c, next)'
    BY DEF Lost
  <1>9. outs[c] <= logged'[c] + Texts(c2s'[c]) + n
    <2>1. /\ outs[c] <= logged[c] + Texts(c2s'[c]) + t + k
          /\ logged[c] + k + t <= logged'[c] + n
      BY <1>4, <1>5, <1>6, <1>7, <1>8
    <2>2. PICK x \in Nat, y \in Nat, z \in Nat, u \in Nat :
             x = outs[c] /\ y = logged[c] /\ z = logged'[c] /\ u = Texts(c2s'[c])
      BY <1>4, <1>5
    <2>3. x <= y + u + t + k /\ y + k + t <= z + n
      BY <2>1, <2>2
    <2>4. x <= z + u + n
      BY <2>3
    <2>5. QED
      BY <2>2, <2>4
  <1>10. Line(c2s[c], Reads(c, next), Writes(c))' /\ Texts(c2s[c])' = Texts(c2s'[c])
    BY <1>2, <1>3 DEF Line, Texts, Fits, Behind
  <1>11. QED
    BY <1>2, <1>8, <1>9, <1>10 DEF Stream

\* The client writes a part of a message.
LEMMA StreamSaid ==
    ASSUME Base, NEW c \in Clients, NEW pend \in BOOLEAN, Stream(c, pend),
           NEW m \in Messages, Say(c, m), Fits(m, Writes(c)), Writes(c)' = Behind(m),
           UNCHANGED <<frameVars, tallyVars, logged>>, outs'[c] \in Nat,
           outs'[c] = outs[c] + (IF m.type = "text" THEN 1 ELSE 0)
    PROVE  Stream(c, pend)'
  <1>1. c2s[c] \in Seq(Messages) /\ c2s'[c] = Append(c2s[c], m)
    BY Said DEF Base, StreamTypes
  <1>2. /\ Reads(c, pend)' = Reads(c, pend) /\ Lost(c, pend)' = Lost(c, pend)
        /\ (AtText(c)' <=> AtText(c)) /\ (Serves(c)' <=> Serves(c)) /\ Marked' = Marked
        /\ pc'["int"] = pc["int"] /\ logged'[c] = logged[c]
    BY DEF Reads, Lost, AtText, Serves, Marked, frameVars, tallyVars
  <1>3. Line(c2s'[c], Reads(c, pend), Writes(c)')
    BY <1>1, LineSaid DEF Stream
  <1>4. /\ Texts(c2s'[c]) = Texts(c2s[c]) + (IF m.type = "text" THEN 1 ELSE 0)
        /\ Texts(c2s[c]) \in Nat
    BY <1>1, TextsSaid
  <1>5. outs[c] <= logged[c] + Texts(c2s[c]) + Lost(c, pend) /\ outs[c] \in Nat /\ logged[c] \in Nat
    BY DEF Stream, Base, ClientTypes, StreamTypes
  <1>6. PICK t \in {0, 1} : t = IF m.type = "text" THEN 1 ELSE 0
    OBVIOUS
  <1>7. PICK k \in {0, 1} : k = Lost(c, pend)
    BY DEF Lost
  <1>8. outs'[c] <= logged[c] + Texts(c2s'[c]) + k
    <2>1. /\ outs'[c] = outs[c] + t /\ Texts(c2s'[c]) = Texts(c2s[c]) + t
          /\ outs[c] <= logged[c] + Texts(c2s[c]) + k
      BY <1>4, <1>5, <1>6, <1>7
    <2>2. QED
      BY <1>4, <1>5, <2>1
  <1>9. Line(c2s[c], Reads(c, pend), Writes(c))' /\ Texts(c2s[c])' = Texts(c2s'[c])
    BY <1>2, <1>3 DEF Line, Texts, Fits, Behind
  <1>10. QED
    BY <1>2, <1>7, <1>8, <1>9 DEF Stream

-----------------------------------------------------------------------------
(* Before SIGINT.                                                          *)

\* Whom a frame sends to.
LEMMA SendsTo ==
    ASSUME Base, NEW f \in {"main", "hup"}, SendHeader(f) \/ SendProcs(f) \/ SendCount(f)
    PROVE  /\ f \in Frames /\ Top = f /\ server = "up" /\ at[f] \in Clients
           /\ pc[f] \in {"send", "sendProcs", "sendCount"}
           /\ \E m \in Messages : m.type # "exit" /\ Write(at[f], m)
  <1>1. /\ f \in Frames /\ Top = f /\ server = "up" /\ at[f] \in Nat
        /\ pc[f] \in {"send", "sendProcs", "sendCount"} /\ Deals(f, pc[f], at[f])
    BY DEF SendHeader, SendProcs, SendCount, Running, Frames, Base, FrameTypes, Dealing
  <1>2. clientCount \in 0..NClients /\ procsVer \in Nat /\ countVer \in Nat
    BY DEF Base, FrameTypes, TallyTypes
  <1>3. at[f] \in Clients
    <2>1. CASE f = "main"
      BY <1>1, <1>2, <2>1, SizesAssumption DEF Deals, Clients
    <2>2. CASE f = "hup" /\ pc["hup"] = "send"
      <3>1. at["hup"] <= clientCount
        BY <2>2 DEF SendHeader, SendProcs, SendCount, Running
      <3>2. QED
        BY <1>1, <1>2, <2>2, <3>1, SizesAssumption DEF Deals, Clients
    <2>3. CASE f = "hup" /\ pc["hup"] \in {"sendProcs", "sendCount"}
      BY <1>1, <1>2, <2>3, SizesAssumption DEF Deals, Clients, Counted
    <2>4. QED
      BY <1>1, <2>1, <2>2, <2>3
  <1>4. \A t \in {"config", "procs", "count"}, v \in Nat :
           Msg(t, v) \in Messages /\ Msg(t, v).type # "exit"
    BY MsgType DEF MsgTypes, Msg
  <1>5. \E m \in Messages : m.type # "exit" /\ Write(at[f], m)
    <2>1. CASE SendHeader(f)
      <3>1. Write(at[f], Msg("config", 0))
        BY <2>1 DEF SendHeader, Header
      <3>2. QED
        BY <1>4, <3>1
    <2>2. CASE SendProcs(f)
      <3>1. Write(at[f], Msg("procs", procsVer))
        BY <2>2 DEF SendProcs
      <3>2. QED
        BY <1>2, <1>4, <3>1
    <2>3. CASE SendCount(f)
      <3>1. Write(at[f], Msg("count", countVer))
        BY <2>3 DEF SendCount
      <3>2. QED
        BY <1>2, <1>4, <3>1
    <2>4. QED
      BY <2>1, <2>2, <2>3
  <1>6. QED
    BY <1>1, <1>3, <1>5

\* Nothing that a frame below "int" does asks a client to exit.
LEMMA UnaskedKept ==
    ASSUME Unasked, UNCHANGED <<s2c, cl, exited>>, pc'["int"] = "off" => pc["int"] = "off"
    PROVE  Unasked'
  BY DEF Unasked

LEMMA UnaskedSends ==
    ASSUME Base, Unasked, NEW f \in {"main", "hup"}, SendHeader(f) \/ SendProcs(f) \/ SendCount(f)
    PROVE  Unasked'
  <1>1. UNCHANGED <<cl, exited>> /\ pc'["int"] = pc["int"]
    BY QuietSends DEF Quiet
  <1>2. PICK m \in Messages : m.type # "exit" /\ Write(at[f], m)
    BY SendsTo
  <1>3. at[f] \in Clients /\ server = "up"
    BY SendsTo
  <1>4. ASSUME pc["int"] = "off", NEW c \in Clients, NEW i \in DOMAIN s2c'[c]
        PROVE  s2c'[c][i].type # "exit"
    <2>1. s2c'[c] = s2c[c] \/ (c = at[f] /\ s2c'[c] = Append(s2c[c], m))
      BY <1>2, <1>3, Written DEF Base
    <2>2. CASE s2c'[c] = s2c[c]
      BY <1>4, <2>2 DEF Unasked
    <2>3. CASE s2c'[c] = Append(s2c[c], m)
      <3>1. s2c[c] \in Seq(Messages)
        BY DEF Base, StreamTypes
      <3>2. Append(s2c[c], m)[i] = m \/ (i \in DOMAIN s2c[c] /\ Append(s2c[c], m)[i] = s2c[c][i])
        BY <1>4, <2>3, <3>1, Appended
      <3>3. QED
        BY <1>2, <1>4, <2>3, <3>2 DEF Unasked
    <2>4. QED
      BY <2>1, <2>2, <2>3
  <1>5. QED
    BY <1>1, <1>4 DEF Unasked

LEMMA UnaskedClient ==
    ASSUME Base, Unasked, NEW c \in Clients, ClientStep(c) \/ ClientChoice(c)
    PROVE  Unasked'
  <1>1. UNCHANGED <<exited, pc>>
    BY DEF ClientStep, ClientChoice, ClientHeader, ClientConfig, ClientText, ClientExit,
           Connect, ClientOutput, ClientKill, ClientDies, frameVars, tallyVars
  <1> SUFFICES ASSUME pc["int"] = "off", NEW d \in Clients
               PROVE  /\ cl'[d] \notin {"exiting", "sendKills", "sendName", "gone"}
                      /\ \A i \in DOMAIN s2c'[d] : s2c'[d][i].type # "exit"
    BY <1>1 DEF Unasked
  <1>2. /\ cl[c] \notin {"exiting", "sendKills", "sendName", "gone"}
        /\ cl[d] \notin {"exiting", "sendKills", "sendName", "gone"}
        /\ \A i \in DOMAIN s2c[c] : s2c[c][i].type # "exit"
        /\ \A i \in DOMAIN s2c[d] : s2c[d][i].type # "exit"
    BY DEF Unasked
  <1>3. CASE ClientText(c) \/ ClientOutput(c) \/ ClientKill(c) \/ ClientExit(c)
    <2>1. UNCHANGED <<s2c, cl>>
      BY <1>2, <1>3 DEF ClientText, ClientOutput, ClientKill, ClientExit
    <2>2. QED
      BY <1>2, <2>1
  <1>4. CASE Connect(c) \/ ClientDies(c)
    <2>1. /\ UNCHANGED s2c
          /\ \E p \in {"waitConfig", "killed"} : cl' = [cl EXCEPT ![c] = p]
      BY <1>4 DEF Connect, ClientDies
    <2>2. cl'[d] \in {cl[d], "waitConfig", "killed"}
      BY <2>1 DEF Base, ClientTypes
    <2>3. QED
      BY <1>2, <2>1, <2>2
  <1>5. CASE ClientHeader(c) \/ ClientConfig(c)
    <2>1. s2c[c] # <<>> /\ Swallow(c)
      BY <1>5 DEF ClientHeader, ClientConfig
    <2>2. s2c[c] \in Seq(Messages) /\ s2c[d] \in Seq(Messages)
      BY DEF Base, StreamTypes
    <2>3. /\ Len(Tail(s2c[c])) = Len(s2c[c]) - 1 /\ Tail(s2c[c]) \in Seq(Messages)
          /\ \A j \in 1..Len(Tail(s2c[c])) : Tail(s2c[c])[j] = s2c[c][j + 1]
          /\ Head(s2c[c]) = s2c[c][1] /\ Len(s2c[c]) \in Nat /\ Len(s2c[c]) # 0
          /\ DOMAIN s2c[c] = 1..Len(s2c[c]) /\ DOMAIN Tail(s2c[c]) = 1..Len(Tail(s2c[c]))
      BY <2>1, <2>2, HeadTailProperties, LenProperties, EmptySeq
    <2>4. Head(s2c[c]).type # "exit"
      BY <1>2, <2>3
    <2>5. \A i \in DOMAIN s2c'[d] : s2c'[d][i].type # "exit"
      <3>1. CASE d # c
        <4>1. s2c'[d] = s2c[d]
          BY <2>1, <3>1, Swallowed DEF Base
        <4>2. QED
          BY <1>2, <4>1
      <3>2. CASE d = c
        <4>1. s2c'[d] = Tail(s2c[c])
          BY <2>1, <3>2, Swallowed DEF Base
        <4>2. QED
          BY <1>2, <2>3, <4>1
      <3>3. QED
        BY <3>1, <3>2
    <2>6. cl'[d] \in {cl[d], "procs", "count", "run"}
      BY <1>5, <2>4 DEF ClientHeader, ClientConfig, Base, ClientTypes
    <2>7. QED
      BY <1>2, <2>5, <2>6
  <1>6. QED
    BY <1>3, <1>4, <1>5 DEF ClientStep, ClientChoice

LEMMA MainAlone ==
    ASSUME Base, Top = "main"
    PROVE  pc["int"] = "off"
  <1>1. stack = <<"main">>
    BY TopFacts DEF Base, FrameTypes, Stacks
  <1>2. stack # <<"main", "int">> /\ stack # <<"main", "hup", "int">>
        /\ stack # <<"main", "int", "hup">>
    BY <1>1
  <1>3. QED
    BY <1>2 DEF Base, Handlers

-----------------------------------------------------------------------------
(* Counts on their way, and clients in the middle of a line.               *)

LEMMA TrueReads ==
    ASSUME StreamTypes, TrueCounts, UNCHANGED report, UNCHANGED c2s \/ \E c \in Clients : Take(c)
    PROVE  TrueCounts'
  <1> SUFFICES ASSUME NEW c \in Clients, NEW i \in DOMAIN c2s'[c], c2s'[c][i].type = "kills"
               PROVE  c2s'[c][i].v = report[c]
    BY DEF TrueCounts
  <1>1. CASE c2s'[c] = c2s[c]
    BY <1>1 DEF TrueCounts
  <1>2. CASE c2s'[c] # c2s[c]
    <2>1. PICK d \in Clients : Take(d)
      BY <1>2
    <2>2. c = d /\ c2s[c] # <<>> /\ c2s'[c] = Tail(c2s[c])
      BY <1>2, <2>1, Taken
    <2>3. c2s[c] \in Seq(Messages)
      BY DEF StreamTypes
    <2>4. /\ Len(Tail(c2s[c])) = Len(c2s[c]) - 1 /\ Tail(c2s[c]) \in Seq(Messages)
          /\ \A j \in 1..Len(Tail(c2s[c])) : Tail(c2s[c])[j] = c2s[c][j + 1]
      BY <2>2, <2>3, HeadTailProperties
    <2>5. i \in 1..Len(Tail(c2s[c]))
      BY <2>2, <2>4
    <2>6. i + 1 \in DOMAIN c2s[c] /\ c2s[c][i + 1] = c2s'[c][i]
      BY <2>2, <2>3, <2>4, <2>5, LenProperties
    <2>7. QED
      BY <2>6 DEF TrueCounts
  <1>3. QED
    BY <1>1, <1>2

LEMMA TrueSays ==
    ASSUME StreamTypes, TrueCounts, NEW c \in Clients, NEW m \in Messages, Say(c, m),
           m.type = "kills" => m.v = report[c], UNCHANGED report
    PROVE  TrueCounts'
  <1> SUFFICES ASSUME NEW d \in Clients, NEW i \in DOMAIN c2s'[d], c2s'[d][i].type = "kills"
               PROVE  c2s'[d][i].v = report[d]
    BY DEF TrueCounts
  <1>1. CASE d = c
    <2>1. c2s'[c] = Append(c2s[c], m) /\ c2s[c] \in Seq(Messages)
      BY Said DEF StreamTypes
    <2>2. c2s'[c][i] = m \/ (i \in DOMAIN c2s[c] /\ c2s'[c][i] = c2s[c][i])
      BY <1>1, <2>1, Appended
    <2>3. QED
      BY <1>1, <2>2 DEF TrueCounts
  <1>2. CASE d # c
    <2>1. c2s'[d] = c2s[d]
      BY <1>2, Said
    <2>2. QED
      BY <2>1 DEF TrueCounts
  <1>3. QED
    BY <1>1, <1>2

-----------------------------------------------------------------------------
(* Steps that read nothing from a client.                                  *)

\* Neither "main" nor "int" comes to a client's message, or leaves one.
Aside ==
    /\ \/ pc'["main"] = pc["main"] /\ at'["main"] = at["main"]
       \/ "text" \notin {pc["main"], pc'["main"]}
    /\ \/ pc'["int"] = pc["int"] /\ at'["int"] = at["int"]
       \/ /\ {pc["int"], pc'["int"]} \cap {"text", "kills", "name"} = {}
          /\ pc'["int"] # "off"

Idle == Aside /\ UNCHANGED <<c2s, logged, tallyVars, clientVars, failedReads>>

LEMMA AsideGoto ==
    ASSUME FrameTypes, NEW f \in Frames, NEW p, NEW k, Goto(f, p, k),
           f = "main" => "text" \notin {pc["main"], p},
           f = "int" => p # "off" /\ {pc["int"], p} \cap {"text", "kills", "name"} = {}
    PROVE  Aside
  BY DEF Aside, FrameTypes, Goto, Frames

LEMMA IdleBelow ==
    ASSUME Base, NEW f \in {"main", "hup"},
           ReadFile(f) \/ SetCount(f) \/ SendHeader(f) \/ SendProcs(f) \/ SendCount(f)
    PROVE  Idle
  <1>1. UNCHANGED <<c2s, logged, tallyVars, clientVars, failedReads>>
    BY DEF ReadFile, SetCount, SendHeader, SendProcs, SendCount, Goto, frameVars
  <1>2. CASE ReadFile(f) /\ UNCHANGED frameVars
    BY <1>1, <1>2 DEF Idle, Aside, frameVars
  <1>3. CASE ~(ReadFile(f) /\ UNCHANGED frameVars)
    <2>1. pc[f] \in {"readFile", "setCount", "send", "sendProcs", "sendCount"}
      BY DEF ReadFile, SetCount, SendHeader, SendProcs, SendCount, Running
    <2>2. PICK q \in {"setCount", "select", "send", "sendProcs", "sendCount", "accepted"} :
             \E k : Goto(f, q, k)
      BY <1>3 DEF ReadFile, SetCount, SendHeader, SendProcs, SendCount
    <2>3. PICK k : Goto(f, q, k)
      BY <2>2
    <2>4. QED
      BY <1>1, <2>1, <2>2, <2>3, AsideGoto DEF Idle, Base, Frames
  <1>4. QED
    BY <1>2, <1>3

LEMMA IdleMain ==
    ASSUME Base, Sighup \/ Return \/ Select \/ Accept \/ CountClient
    PROVE  Idle
  <1>1. CASE Sighup
    <2>1. /\ UNCHANGED <<c2s, logged, tallyVars, clientVars, failedReads>>
          /\ pc' = [pc EXCEPT !["hup"] = "readFile"] /\ at' = [at EXCEPT !["hup"] = 0]
      BY <1>1 DEF Sighup, Deliver
    <2>2. QED
      BY <2>1 DEF Idle, Aside, Base, FrameTypes, Frames
  <1>2. CASE Return
    <2>1. /\ UNCHANGED <<c2s, logged, tallyVars, clientVars, failedReads>>
          /\ pc' = [pc EXCEPT !["hup"] = "off"] /\ at' = [at EXCEPT !["hup"] = 0]
      BY <1>2 DEF Return
    <2>2. QED
      BY <2>1 DEF Idle, Aside, Base, FrameTypes, Frames
  <1>3. CASE Select \/ Accept \/ CountClient
    <2>1. /\ UNCHANGED <<c2s, logged, tallyVars, clientVars, failedReads>>
          /\ pc["main"] \in {"select", "accept", "accepted"}
      BY <1>3 DEF Select, Accept, CountClient, Running
    <2>2. CASE UNCHANGED frameVars
      BY <2>1, <2>2 DEF Idle, Aside, frameVars
    <2>3. CASE ~UNCHANGED frameVars
      <3>1. PICK q, k : q \in {"accept", "send", "client"} /\ Goto("main", q, k)
        BY <1>3, <2>3 DEF Select, Accept, CountClient
      <3>2. QED
        BY <2>1, <3>1, AsideGoto DEF Idle, Base, Frames
    <2>4. QED
      BY <2>2, <2>3
  <1>4. QED
    BY <1>1, <1>2, <1>3

LEMMA IdleInt ==
    ASSUME Base, Sigint \/ SendExit \/ Final
    PROVE  Idle
  <1>1. CASE Sigint
    <2>1. /\ UNCHANGED <<c2s, logged, tallyVars, clientVars, failedReads>> /\ "int" \notin Active
          /\ pc' = [pc EXCEPT !["int"] = "exit"] /\ at' = [at EXCEPT !["int"] = 1]
      BY <1>1 DEF Sigint, Deliver
    <2>2. pc["int"] = "off"
      <3>1. stack \in {<<"main">>, <<"main", "hup">>}
        BY <2>1, TopFacts DEF Base, FrameTypes, Stacks, Frames
      <3>2. stack # <<"main", "int">> /\ stack # <<"main", "hup", "int">>
            /\ stack # <<"main", "int", "hup">>
        BY <3>1
      <3>3. QED
        BY <3>2 DEF Base, Handlers
    <2>3. pc'["int"] = "exit" /\ pc'["main"] = pc["main"] /\ at'["main"] = at["main"]
      BY <2>1 DEF Base, FrameTypes, Frames
    <2>4. QED
      BY <2>1, <2>2, <2>3 DEF Idle, Aside
  <1>2. CASE SendExit
    <2>1. /\ UNCHANGED <<c2s, logged, tallyVars, clientVars, failedReads>> /\ pc["int"] = "exit"
      BY <1>2 DEF SendExit, Running
    <2>2. PICK q, k : q \in {"exit", "wait"} /\ Goto("int", q, k)
      BY <1>2 DEF SendExit
    <2>3. QED
      BY <2>1, <2>2, AsideGoto DEF Idle, Base, Frames
  <1>3. CASE Final
    BY <1>3 DEF Final, Idle, Aside, frameVars
  <1>4. QED
    BY <1>1, <1>2, <1>3

LEMMA AddedSame ==
    ASSUME Added, UNCHANGED <<killCount, nodenames, exited, exitedClients, report>>, Calm' => Calm,
           pc'["int"] = "name" <=> pc["int"] = "name",
           pc["int"] = "name" => at'["int"] = at["int"]
    PROVE  Added'
  <1>1. Marked' = Marked
    BY DEF Marked
  <1>2. InTotal' = InTotal
    BY <1>1 DEF InTotal
  <1>3. Total(report, InTotal)' = Total(report, InTotal)
    BY <1>2 DEF Total, Units
  <1>4. QED
    BY <1>1, <1>3 DEF Added

LEMMA IdleKeeps ==
    ASSUME Base, HalfTold, TrueCounts, Streams, Added, Idle
    PROVE  HalfTold' /\ TrueCounts' /\ Streams' /\ Added'
  <1>1. UNCHANGED <<c2s, logged, killCount, nodenames, exited, exitedClients,
                    cl, half, report, outs, crashes, failedReads>>
    BY DEF Idle, tallyVars, clientVars
  <1>2. HalfTold' /\ TrueCounts' /\ (Calm' <=> Calm)
    BY <1>1 DEF HalfTold, TrueCounts, Calm
  <1>3. Marked' = Marked
    BY <1>1 DEF Marked
  <1>4. ASSUME NEW d \in Clients PROVE Same(d)
    <2>1. Writes(d)' = Writes(d)
      BY <1>1 DEF Writes
    <2>2. AtText(d)' <=> AtText(d)
      BY DEF Idle, Aside, AtText
    <2>3. /\ Serves(d)' <=> Serves(d)
          /\ Serves(d) => pc'["int"] = pc["int"]
          /\ pc'["int"] = "off" => pc["int"] = "off"
      BY DEF Idle, Aside, Serves
    <2>4. QED
      BY <1>1, <1>3, <2>1, <2>2, <2>3 DEF Same
  <1>5. Streams'
    BY <1>2, <1>4, StreamSame DEF Streams
  <1>6. Added'
    <2>1. /\ pc'["int"] = "name" <=> pc["int"] = "name"
          /\ pc["int"] = "name" => at'["int"] = at["int"]
      BY DEF Idle, Aside
    <2>2. QED
      BY <1>1, <1>2, <2>1, AddedSame
  <1>7. QED
    BY <1>2, <1>5, <1>6

-----------------------------------------------------------------------------
(* Steps that read from a client.                                          *)

LEMMA SameMain ==
    ASSUME Base, NEW c \in Clients, c = at["main"], Take(c), UNCHANGED <<clientVars, tallyVars>>,
           NEW p, NEW k, Goto("main", p, k), p = "text" => k = c,
           NEW d \in Clients \ {c}, logged'[d] = logged[d]
    PROVE  Same(d)
  <1>1. /\ pc'["int"] = pc["int"] /\ at'["int"] = at["int"]
        /\ pc'["main"] = p /\ at'["main"] = k
    BY DEF Goto, Base, FrameTypes, Frames
  <1>2. c2s'[d] = c2s[d] /\ outs'[d] = outs[d] /\ Writes(d)' = Writes(d)
    BY Taken DEF Base, clientVars, Writes
  <1>3. (AtText(d)' <=> AtText(d)) /\ (Serves(d)' <=> Serves(d)) /\ Marked' = Marked
    BY <1>1 DEF AtText, Serves, Marked, tallyVars
  <1>4. QED
    BY <1>1, <1>2, <1>3 DEF Same

LEMMA SameInt ==
    ASSUME Base, NEW c \in Clients, c = at["int"], Take(c), UNCHANGED clientVars,
           NEW p, NEW k, Goto("int", p, k), p # "off", p \in {"text", "kills", "name"} => k = c,
           NEW d \in Clients \ {c}, logged'[d] = logged[d], d \in Marked' <=> d \in Marked
    PROVE  Same(d)
  <1>1. /\ pc'["main"] = pc["main"] /\ at'["main"] = at["main"]
        /\ pc'["int"] = p /\ at'["int"] = k
    BY DEF Goto, Base, FrameTypes, Frames
  <1>2. c2s'[d] = c2s[d] /\ outs'[d] = outs[d] /\ Writes(d)' = Writes(d)
    BY Taken DEF Base, clientVars, Writes
  <1>3. (AtText(d)' <=> AtText(d)) /\ ~Serves(d)' /\ ~Serves(d)
    BY <1>1 DEF AtText, Serves
  <1>4. QED
    BY <1>1, <1>2, <1>3 DEF Same

\* Nothing is read, or a header that is there or may be there.
LEMMA PollParts ==
    ASSUME NEW f, NEW c, Poll(f, c)
    PROVE  \/ UNCHANGED c2s /\ \E q \in {"header", Loop(f)} : \E k : Goto(f, q, k)
           \/ Readable(c) /\ Take(c) /\ \E h \in HeaderRead(c) : Handle(f, c, h)
  BY DEF Poll

\* The header behind an interrupted select, if its read did not fail.
LEMMA HeaderComes ==
    ASSUME NEW f, ReadHeader(f), Calm'
    PROVE  /\ Top = f /\ pc[f] = "header"
           /\ Readable(at[f]) /\ Take(at[f])
           /\ UNCHANGED <<clientVars, tallyVars, logged, failedReads>>
           /\ \E h \in HeaderRead(at[f]) : Handle(f, at[f], h)
  <1>1. PICK got \in BOOLEAN :
           /\ ReadRest(f, "header", got)
           /\ \E h \in IF got THEN HeaderRead(at[f]) ELSE AnyHeader : Handle(f, at[f], h)
    BY DEF ReadHeader
  <1>2. ~eintr
    <2> SUFFICES ASSUME eintr PROVE FALSE
      OBVIOUS
    <2>1. "header" \in failedReads'
      BY <1>1 DEF ReadRest
    <2>2. QED
      BY <2>1 DEF Calm
  <1>3. /\ Running(f, "header") /\ Readable(at[f]) /\ got = (c2s[at[f]] # <<>>)
        /\ Take(at[f]) /\ UNCHANGED failedReads
    BY <1>1, <1>2 DEF ReadRest
  <1>4. \E h \in HeaderRead(at[f]) : Handle(f, at[f], h)
    BY <1>1, <1>3 DEF HeaderRead
  <1>5. UNCHANGED <<clientVars, tallyVars, logged>>
    BY DEF ReadHeader
  <1>6. QED
    BY <1>3, <1>4, <1>5 DEF Running

\* The header of a message, read by "main".
LEMMA MainHeader ==
    ASSUME Tally, Heard, NEW c \in Clients, c = at["main"], Top = "main",
           pc["main"] \in {"client", "header"},
           Readable(c), Take(c), UNCHANGED <<clientVars, tallyVars, logged, failedReads>>,
           NEW h \in HeaderRead(c), Handle("main", c, h)
    PROVE  Streams'
  <1> USE DEF Tally
  <1>0. PICK p, k : /\ p \in {"text", "client"} /\ Goto("main", p, k)
                    /\ (p = "text" => k = c) /\ (h = "output" => p = "text")
    BY DEF Handle, Loop
  <1>1. /\ pc["int"] = "off" /\ pc'["int"] = "off"
        /\ pc'["main"] = p /\ at'["main"] = k /\ Marked' = Marked
    BY <1>0, MainAlone DEF Goto, Base, FrameTypes, Frames, Marked, tallyVars
  <1>2. ASSUME NEW d \in Clients \ {c} PROVE Same(d)
    BY <1>0, SameMain DEF tallyVars
  <1> SUFFICES ASSUME Calm PROVE \E pend \in BOOLEAN : Stream(c, pend)'
    BY <1>2, StreamsStep DEF Heard, Calm, clientVars
  <1>3. PICK pend \in BOOLEAN : Stream(c, pend)
    BY DEF Heard, Streams
  <1>4. ~pend /\ ~Serves(c) /\ ~AtText(c) /\ ~Serves(c)'
    BY <1>1, <1>3 DEF Stream, Serves, AtText
  <1>5. c \notin Marked
    <2>1. exited = 0
      BY <1>1 DEF Heard, Unasked
    <2>2. QED
      BY <2>1 DEF Marked
  <1>6. Reads(c, pend) = "header"
    BY <1>4, <1>5 DEF Reads
  <1>7. c2s[c] # <<>> /\ Head(c2s[c]).type \in {"output", "exit"}
    BY <1>3, <1>6, Comes DEF Calm, Heard, Fits
  <1>8. Head(c2s[c]).type = "output"
    <2> SUFFICES ASSUME Head(c2s[c]).type = "exit" PROVE FALSE
      BY <1>7
    <2>1. c2s[c] \in Seq(Messages)
      BY DEF Base, StreamTypes
    <2>2. 1 \in DOMAIN c2s[c] /\ c2s[c][1] = Head(c2s[c])
      BY <1>7, <2>1, EmptySeq, LenProperties
    <2>3. report[c] # -1 /\ cl[c] # "killed"
      BY <2>2 DEF Honest, Calm, HeadersRead
    <2>4. cl[c] \in {"sendKills", "sendName", "gone"}
      BY <2>3 DEF Base, Confirmed
    <2>5. QED
      BY <1>1, <2>4 DEF Heard, Unasked
  <1>9. p = "text" /\ k = c
    BY <1>0, <1>7, <1>8 DEF HeaderRead
  <1>10. AtText(c)' /\ Reads(c, TRUE)' = "text"
    BY <1>1, <1>4, <1>5, <1>9 DEF AtText, Reads
  <1>11. Behind(Head(c2s[c])) = "text"
    BY <1>8 DEF Behind
  <1>12. Lost(c, pend) = 0 /\ Lost(c, TRUE)' = 0
    BY <1>4 DEF Lost
  <1>13. logged'[c] \in Nat /\ logged'[c] = logged[c]
    BY DEF Base, StreamTypes
  <1>14. logged[c] + Lost(c, pend) + (IF Head(c2s[c]).type = "text" THEN 1 ELSE 0)
           <= logged'[c] + Lost(c, TRUE)'
    <2>1. PICK n \in Nat : n = logged[c] /\ n = logged'[c]
      BY <1>13
    <2>2. n + 0 + 0 <= n + 0
      OBVIOUS
    <2>3. QED
      BY <1>8, <1>12, <2>1, <2>2
  <1>15. Stream(c, TRUE)'
    BY <1>1, <1>3, <1>4, <1>5, <1>7, <1>10, <1>11, <1>13, <1>14, StreamTaken
  <1>16. QED
    BY <1>15

LEMMA HeardReadClient == ASSUME Tally, Heard, ReadClient PROVE Streams'
  <1> USE DEF Tally
  <1>1. /\ Top = "main" /\ pc["main"] = "client" /\ at["main"] \in Nat /\ at["main"] > 0
        /\ clientCount \in 0..NClients
        /\ UNCHANGED <<clientVars, tallyVars, logged, failedReads>>
    BY DEF ReadClient, Running, Base, FrameTypes, TallyTypes, Dealing, Deals, Frames
  <1>2. CASE UNCHANGED c2s /\ \E q \in {"select", "client", "header"} : \E k : Goto("main", q, k)
    <2>1. Aside
      BY <1>1, <1>2, AsideGoto DEF Base, Frames
    <2>2. ASSUME NEW d \in Clients PROVE Same(d)
      <3>1. Marked' = Marked /\ Writes(d)' = Writes(d)
        BY <1>1 DEF Marked, Writes, tallyVars, clientVars
      <3>2. (AtText(d)' <=> AtText(d)) /\ (Serves(d)' <=> Serves(d)) /\ pc'["int"] = pc["int"]
        BY <1>1, <1>2 DEF AtText, Serves, Goto, Base, FrameTypes, Frames
      <3>3. QED
        BY <1>1, <1>2, <3>1, <3>2 DEF Same, clientVars
    <2>3. QED
      BY <1>1, <2>2, StreamSame DEF Heard, Streams, Calm, clientVars
  <1>3. ASSUME at["main"] <= clientCount, Readable(at["main"]), Take(at["main"]),
               NEW h \in HeaderRead(at["main"]), Handle("main", at["main"], h)
        PROVE  Streams'
    <2>1. at["main"] \in Clients
      BY <1>1, <1>3, SizesAssumption DEF Clients
    <2>2. QED
      BY <1>1, <1>3, <2>1, MainHeader
  <1>4. CASE at["main"] > clientCount
    <2>1. UNCHANGED c2s /\ Goto("main", "select", 0)
      BY <1>1, <1>4 DEF ReadClient
    <2>2. QED
      BY <1>2, <2>1
  <1>5. CASE at["main"] <= clientCount
    <2>1. Poll("main", at["main"])
      BY <1>5 DEF ReadClient
    <2>2. QED
      BY <1>2, <1>3, <1>5, <2>1, PollParts DEF Loop
  <1>6. QED
    BY <1>1, <1>4, <1>5

LEMMA HeardHeaderMain == ASSUME Tally, Heard, ReadHeader("main") PROVE Streams'
  <1> SUFFICES ASSUME Calm' PROVE Streams'
    BY DEF Streams
  <1>1. at["main"] \in Clients
    BY Rest DEF ReadHeader, Tally, Frames, ReadPlaces
  <1>2. QED
    BY <1>1, HeaderComes, MainHeader

\* A read of the rest of a message that does not fail gets what was announced.
LEMMA RestComes ==
    ASSUME Tally, HalfTold, NEW f \in Frames, NEW p \in {"text", "kills", "name"},
           NEW got \in BOOLEAN, ReadRest(f, p, got), Calm', UNCHANGED crashes,
           NEW pend \in BOOLEAN, Stream(at[f], pend), Reads(at[f], pend) = p
    PROVE  /\ c2s[at[f]] # <<>> /\ Head(c2s[at[f]]).type = p /\ Take(at[f]) /\ got
           /\ at[f] \in Clients /\ Calm
  <1>1. at[f] \in Clients
    BY Rest DEF Tally, ReadPlaces
  <1>2. ~eintr
    <2> SUFFICES ASSUME eintr PROVE FALSE
      OBVIOUS
    <2>1. p \in failedReads'
      BY DEF ReadRest
    <2>2. QED
      BY <2>1 DEF Calm
  <1>3. /\ Readable(at[f]) /\ got = (c2s[at[f]] # <<>>) /\ Take(at[f])
        /\ UNCHANGED <<eintr, failedReads>>
    BY <1>2 DEF ReadRest
  <1>4. Calm
    BY <1>3 DEF Calm
  <1>5. c2s[at[f]] # <<>> /\ Fits(Head(c2s[at[f]]), p)
    BY <1>1, <1>3, <1>4, Comes DEF Calm
  <1>6. QED
    BY <1>1, <1>3, <1>4, <1>5 DEF Fits

LEMMA Quieter ==
    ASSUME failedReads \subseteq failedReads', UNCHANGED crashes, Calm'
    PROVE  Calm
  BY DEF Calm

LEMMA RestFails ==
    ASSUME NEW f, NEW p, NEW got, ReadRest(f, p, got)
    PROVE  failedReads \subseteq failedReads'
  BY DEF ReadRest

\* The text of a line, read by either frame.
LEMMA HeardText == ASSUME Tally, Heard, NEW f \in {"main", "int"}, ReadText(f) PROVE Streams'
  <1> USE DEF Tally
  <1>0. PICK c \in Clients : c = at[f]
    BY Rest DEF ReadText, Frames, ReadPlaces
  <1>1. PICK got \in BOOLEAN :
           /\ ReadRest(f, "text", got)
           /\ logged' = IF got THEN [logged EXCEPT ![c] = @ + 1] ELSE logged
    BY <1>0 DEF ReadText
  <1>2. /\ Top = f /\ pc[f] = "text" /\ f \in Frames
        /\ UNCHANGED <<clientVars, tallyVars, crashes>>
        /\ Goto(f, IF f = "main" THEN "client" ELSE "wait", c + 1)
    BY <1>0, <1>1, Rest DEF ReadText, Frames, clientVars, Loop, ReadPlaces
  <1> SUFFICES ASSUME Calm' PROVE Streams'
    BY DEF Streams
  <1>3. Calm
    BY <1>1, <1>2, RestFails, Quieter
  <1>4. PICK pend \in BOOLEAN : Stream(c, pend)
    BY <1>3 DEF Heard, Streams
  <1>5. f = "main" => pc["int"] = "off" /\ AtText(c) /\ pend
    <2> SUFFICES ASSUME f = "main" PROVE pc["int"] = "off" /\ AtText(c) /\ pend
      OBVIOUS
    <2>1. pc["int"] = "off"
      BY <1>2, MainAlone
    <2>2. AtText(c)
      BY <1>0, <1>2 DEF AtText
    <2>3. QED
      BY <1>4, <2>1, <2>2 DEF Stream
  <1>6. f = "int" => Serves(c) /\ ~pend
    BY <1>0, <1>2, <1>4 DEF Serves, Stream
  <1>7. c \notin Marked
    BY <1>0, <1>2, <1>4, <1>5, <1>6 DEF Array, Stream
  <1>8. Reads(c, pend) = "text"
    <2>1. CASE f = "main"
      BY <1>4, <1>5, <1>7, <2>1 DEF Reads, Stream
    <2>2. CASE f = "int"
      BY <1>0, <1>2, <1>6, <1>7, <2>2 DEF Reads, Serves
    <2>3. QED
      BY <2>1, <2>2
  <1>9. c2s[c] # <<>> /\ Head(c2s[c]).type = "text" /\ Take(c) /\ got
    BY <1>0, <1>1, <1>2, <1>4, <1>8, RestComes DEF Heard
  <1>10. Marked' = Marked
    BY <1>2 DEF Marked, tallyVars
  <1>11. ASSUME NEW d \in Clients \ {c} PROVE Same(d)
    <2>1. logged'[d] = logged[d]
      BY <1>1, <1>2 DEF Base, StreamTypes
    <2>2. CASE f = "main"
      BY <1>0, <1>2, <1>9, <2>1, <2>2, SameMain
    <2>3. CASE f = "int"
      BY <1>0, <1>2, <1>9, <1>10, <2>1, <2>3, SameInt
    <2>4. QED
      BY <2>2, <2>3
  <1>12. ~Serves(c)' /\ (f = "main" => ~AtText(c)') /\ (f = "int" => (AtText(c)' <=> AtText(c)))
         /\ (pc'["int"] = "off" => f = "main")
    <2>1. CASE f = "main"
      BY <1>0, <1>2, <1>5, <2>1 DEF Goto, Base, FrameTypes, Frames, Serves, AtText
    <2>2. CASE f = "int"
      BY <1>0, <1>2, <2>2 DEF Goto, Base, FrameTypes, Frames, Serves, AtText
    <2>3. QED
      BY <2>1, <2>2
  <1>13. Reads(c, FALSE)' = "header" /\ Behind(Head(c2s[c])) = "header"
    BY <1>7, <1>9, <1>10, <1>12 DEF Reads, Behind
  <1>14. Lost(c, pend) = Lost(c, FALSE)'
    BY <1>5, <1>6, <1>12 DEF Lost
  <1>15. logged[c] \in Nat /\ logged'[c] = logged[c] + 1
    BY <1>1, <1>2, <1>9 DEF Base, StreamTypes
  <1>16. logged[c] + Lost(c, pend) + (IF Head(c2s[c]).type = "text" THEN 1 ELSE 0)
           <= logged'[c] + Lost(c, FALSE)'
    <2>1. PICK n \in Nat, k \in {0, 1} :
             n = logged[c] /\ n + 1 = logged'[c] /\ k = Lost(c, pend) /\ k = Lost(c, FALSE)'
      BY <1>14, <1>15 DEF Lost
    <2>2. n + k + 1 <= (n + 1) + k
      OBVIOUS
    <2>3. QED
      BY <1>9, <2>1, <2>2
  <1>17. Stream(c, FALSE)'
    <2>1. pc'["int"] = "off" /\ AtText(c)' => FALSE
      BY <1>12
    <2>2. logged'[c] \in Nat
      BY <1>15
    <2>3. QED
      BY <1>2, <1>4, <1>9, <1>13, <1>16, <2>1, <2>2, StreamTaken
  <1>18. QED
    BY <1>2, <1>3, <1>11, <1>17, StreamsStep DEF Heard

\* The header of a message, read by "int", or the text that "main" was about to
\* read.
LEMMA IntHeader ==
    ASSUME Tally, Heard, NEW c \in Clients, c = at["int"], pc["int"] \in {"wait", "header"},
           c \notin Marked,
           Readable(c), Take(c), UNCHANGED <<clientVars, tallyVars, logged, failedReads>>,
           NEW h \in HeaderRead(c), Handle("int", c, h)
    PROVE  Streams'
  <1> USE DEF Tally
  <1>0. PICK p, k :
           /\ p \in {"text", "kills", "wait"} /\ Goto("int", p, k)
           /\ (p \in {"text", "kills"} => k = c)
           /\ (h = "output" => p = "text") /\ (h = "exit" => p = "kills")
           /\ (h \notin {"output", "exit"} => p = "wait")
    BY DEF Handle, Loop
  <1>1. /\ pc'["int"] = p /\ at'["int"] = k /\ Marked' = Marked
        /\ pc'["main"] = pc["main"] /\ at'["main"] = at["main"]
    BY <1>0 DEF Goto, Base, FrameTypes, Frames, Marked, tallyVars
  <1>2. ASSUME NEW d \in Clients \ {c} PROVE Same(d)
    BY <1>0, <1>1, SameInt
  <1> SUFFICES ASSUME Calm PROVE \E pend \in BOOLEAN : Stream(c, pend)'
    BY <1>2, StreamsStep DEF Heard, Calm, clientVars
  <1>3. PICK pend \in BOOLEAN : Stream(c, pend)
    BY DEF Heard, Streams
  <1>4. ~Serves(c) /\ (AtText(c)' <=> AtText(c)) /\ pc'["int"] # "off"
    BY <1>0, <1>1 DEF Serves, AtText
  <1>5. Reads(c, pend) = IF pend THEN "text" ELSE "header"
    BY <1>4 DEF Reads
  <1>6. c2s[c] # <<>> /\ h = Head(c2s[c]).type
        /\ IF pend THEN h = "text" ELSE h \in {"output", "exit"}
    <2>1. c2s[c] # <<>> /\ Fits(Head(c2s[c]), Reads(c, pend))
      BY <1>3, <1>5, Comes DEF Calm, Heard
    <2>2. QED
      BY <1>5, <2>1 DEF HeaderRead, Fits
  <1>7. PICK n \in Nat : n = logged[c] /\ n = logged'[c]
    BY DEF Base, StreamTypes
  <1>8. Reads(c, FALSE)' = Behind(Head(c2s[c]))
    <2>1. CASE h = "text"
      <3>1. p = "wait"
        BY <1>0, <2>1
      <3>2. Reads(c, FALSE)' = "header"
        BY <1>1, <3>1 DEF Reads, Serves
      <3>3. QED
        BY <1>6, <2>1, <3>2 DEF Behind
    <2>2. CASE h = "output"
      <3>1. p = "text" /\ k = c
        BY <1>0, <2>2
      <3>2. Reads(c, FALSE)' = "text"
        BY <1>1, <3>1 DEF Reads, Serves
      <3>3. QED
        BY <1>6, <2>2, <3>2 DEF Behind
    <2>3. CASE h = "exit"
      <3>1. p = "kills" /\ k = c
        BY <1>0, <2>3
      <3>2. Reads(c, FALSE)' = "kills"
        BY <1>1, <3>1 DEF Reads, Serves
      <3>3. QED
        BY <1>6, <2>3, <3>2 DEF Behind
    <2>4. QED
      BY <1>6, <2>1, <2>2, <2>3
  <1>9. logged[c] + Lost(c, pend) + (IF Head(c2s[c]).type = "text" THEN 1 ELSE 0)
           <= logged'[c] + Lost(c, FALSE)'
    <2>1. CASE pend
      <3>1. Lost(c, pend) = 0 /\ Lost(c, FALSE)' = 1
        BY <1>3, <1>4, <2>1 DEF Lost, Stream
      <3>2. n + 0 + 1 <= n + 1
        OBVIOUS
      <3>3. QED
        BY <1>6, <1>7, <2>1, <3>1, <3>2
    <2>2. CASE ~pend
      <3>1. PICK l \in {0, 1} : l = Lost(c, pend) /\ l = Lost(c, FALSE)'
        BY <1>4, <2>2 DEF Lost
      <3>2. n + l + 0 <= n + l
        OBVIOUS
      <3>3. QED
        BY <1>6, <1>7, <2>2, <3>1, <3>2
    <2>3. QED
      BY <2>1, <2>2
  <1>10. Stream(c, FALSE)'
    BY <1>3, <1>4, <1>6, <1>7, <1>8, <1>9, StreamTaken
  <1>11. QED
    BY <1>10

\* A header adds nothing to the total.
LEMMA HeaderAsks ==
    ASSUME Base, Added, pc["int"] \in {"wait", "header"}, NEW c, NEW h, Handle("int", c, h),
           UNCHANGED <<killCount, nodenames, exited, exitedClients, report>>, Calm' => Calm
    PROVE  Unasked' /\ Added'
  <1>1. PICK q, k : q \in {"text", "kills", "wait"} /\ Goto("int", q, k)
    BY DEF Handle, Loop
  <1>2. pc'["int"] \in {"text", "kills", "wait"}
    BY <1>1, IntGoto DEF Base
  <1>3. QED
    BY <1>2, AddedSame DEF Unasked

LEMMA HeardWait == ASSUME Tally, Heard, Added, WaitForClients PROVE Streams' /\ Unasked' /\ Added'
  <1> USE DEF Tally
  <1>1. /\ Top = "int" /\ pc["int"] = "wait" /\ at["int"] \in Nat /\ at["int"] > 0
        /\ clientCount \in 0..NClients
        /\ UNCHANGED <<clientVars, tallyVars, logged, failedReads>>
    BY DEF WaitForClients, Running, Base, FrameTypes, TallyTypes, Dealing, Deals, Frames
  <1>2. CASE UNCHANGED c2s /\ \E q \in {"wait", "final", "header"} : \E k : Goto("int", q, k)
    <2>1. Aside
      BY <1>1, <1>2, AsideGoto DEF Base, Frames
    <2>2. Idle
      BY <1>1, <1>2, <2>1 DEF Idle
    <2>3. pc'["int"] # "off"
      BY <1>1, <2>1 DEF Aside
    <2>4. QED
      BY <2>2, <2>3, IdleKeeps DEF Heard, Unasked
  <1>3. ASSUME at["int"] <= clientCount, ~ClientExited(at["int"]), Readable(at["int"]),
               Take(at["int"]), NEW h \in HeaderRead(at["int"]), Handle("int", at["int"], h)
        PROVE  Streams' /\ Unasked' /\ Added'
    <2>1. at["int"] \in Clients
      BY <1>1, <1>3, SizesAssumption DEF Clients
    <2>2. at["int"] \notin Marked
      BY <1>3, <2>1, FoundExited
    <2>3. Streams'
      BY <1>1, <1>3, <2>1, <2>2, IntHeader
    <2>4. Unasked' /\ Added'
      BY <1>1, <1>3, HeaderAsks DEF tallyVars, clientVars, Calm
    <2>5. QED
      BY <2>3, <2>4
  <1>4. CASE at["int"] > clientCount \/ ClientExited(at["int"])
    <2>1. UNCHANGED c2s /\ \E q \in {"wait", "final"} : \E k : Goto("int", q, k)
      BY <1>1, <1>4 DEF WaitForClients
    <2>2. QED
      BY <1>2, <2>1
  <1>5. CASE at["int"] <= clientCount /\ ~ClientExited(at["int"])
    <2>1. Poll("int", at["int"])
      BY <1>1, <1>5 DEF WaitForClients
    <2>2. QED
      BY <1>2, <1>3, <1>5, <2>1, PollParts DEF Loop
  <1>6. QED
    BY <1>1, <1>4, <1>5

LEMMA HeardHeaderInt ==
    ASSUME Tally, Heard, Added, ReadHeader("int") PROVE Streams' /\ Unasked' /\ Added'
  <1> USE DEF Tally
  <1>1. PICK got, h :
           got \in BOOLEAN /\ ReadRest("int", "header", got) /\ Handle("int", at["int"], h)
    BY DEF ReadHeader
  <1>2. /\ at["int"] \in Clients /\ pc["int"] = "header"
        /\ UNCHANGED <<killCount, nodenames, exited, exitedClients, report, crashes>>
    BY <1>1, Rest DEF ReadHeader, Frames, ReadPlaces, tallyVars, clientVars
  <1>3. Unasked' /\ Added'
    <2>1. Calm' => Calm
      BY <1>1, <1>2, RestFails, Quieter
    <2>2. QED
      BY <1>1, <1>2, <2>1, HeaderAsks
  <1>4. Streams'
    <2> SUFFICES ASSUME Calm' PROVE Streams'
      BY DEF Streams
    <2>1. at["int"] \notin Marked
      BY <1>2 DEF Array
    <2>2. QED
      BY <1>2, <2>1, HeaderComes, IntHeader
  <1>5. QED
    BY <1>3, <1>4

\* A part of the confirmation, read by "int": the client is taken into the total or
\* marked, or both.
LEMMA StreamConfirms ==
    ASSUME Tally, Heard, NEW c \in Clients, c = at["int"],
           NEW p \in {"kills", "name"}, pc["int"] = p, NEW got \in BOOLEAN, ReadRest("int", p, got),
           UNCHANGED <<clientVars, logged>>,
           NEW q \in {"name", "wait"}, NEW k, Goto("int", q, k), q = "name" => k = c,
           Marked' = IF q = "wait" THEN Marked \cup {c} ELSE Marked,
           Calm' => Behind(Head(c2s[c])) = IF q = "wait" THEN "end" ELSE "name"
    PROVE  Streams'
  <1> USE DEF Tally
  <1> SUFFICES ASSUME Calm' PROVE Streams'
    BY DEF Streams
  <1>1. UNCHANGED crashes /\ "int" \in Frames /\ c \notin Marked
    BY DEF clientVars, Array, Frames
  <1>2. Calm
    BY <1>1, RestFails, Quieter
  <1>3. PICK pend \in BOOLEAN : Stream(c, pend)
    BY <1>2 DEF Heard, Streams
  <1>4. Serves(c) /\ ~pend
    BY <1>3 DEF Serves, Stream
  <1>5. Reads(c, pend) = p
    BY <1>1, <1>4 DEF Reads
  <1>6. c2s[c] # <<>> /\ Head(c2s[c]).type = p /\ Take(c) /\ got
    BY <1>1, <1>3, <1>5, RestComes DEF Heard
  <1>7. /\ pc'["int"] = q /\ at'["int"] = k
        /\ pc'["main"] = pc["main"] /\ at'["main"] = at["main"]
    BY DEF Goto, Base, FrameTypes, Frames
  <1>8. ASSUME NEW d \in Clients \ {c} PROVE Same(d)
    <2>1. (d \in Marked' <=> d \in Marked) /\ logged'[d] = logged[d]
      OBVIOUS
    <2>2. QED
      BY <1>6, <2>1, SameInt
  <1>9. Reads(c, FALSE)' = Behind(Head(c2s[c]))
    <2>1. CASE q = "wait"
      <3>1. ~Serves(c)' /\ c \in Marked'
        BY <1>7, <2>1 DEF Serves
      <3>2. Reads(c, FALSE)' = "end"
        BY <3>1 DEF Reads
      <3>3. QED
        BY <2>1, <3>2
    <2>2. CASE q = "name"
      <3>1. Serves(c)' /\ c \notin Marked'
        BY <1>1, <1>7, <2>2 DEF Serves
      <3>2. Reads(c, FALSE)' = "name"
        BY <1>7, <2>2, <3>1 DEF Reads
      <3>3. QED
        BY <2>2, <3>2
    <2>3. QED
      BY <2>1, <2>2
  <1>10. PICK n \in Nat : n = logged[c] /\ n = logged'[c]
    BY DEF Base, StreamTypes
  <1>11. logged[c] + Lost(c, pend) + (IF Head(c2s[c]).type = "text" THEN 1 ELSE 0)
           <= logged'[c] + Lost(c, FALSE)'
    <2>1. PICK l \in {0, 1} : l = Lost(c, pend) /\ l = Lost(c, FALSE)'
      BY <1>4, <1>7 DEF Lost, AtText
    <2>2. n + l + 0 <= n + l
      OBVIOUS
    <2>3. QED
      BY <1>6, <1>10, <2>1, <2>2
  <1>12. pc'["int"] = "off" /\ AtText(c)' => FALSE
    BY <1>7
  <1>13. Stream(c, FALSE)'
    BY <1>3, <1>6, <1>9, <1>10, <1>11, <1>12, StreamTaken
  <1>14. QED
    BY <1>2, <1>8, <1>13, StreamsStep DEF Heard

LEMMA ReportsFinite ==
    ASSUME Tally
    PROVE  IsFiniteSet(Marked) /\ \A c \in Clients : report[c] \in Int
  BY DEF Tally, Array, Base, ClientTypes

\* What the two reads of a confirmation find, if they do not fail.
LEMMA KillsRead ==
    ASSUME Tally, Heard, NEW got \in BOOLEAN, NEW n \in Nat, ReadRest("int", "kills", got),
           got => n = Head(c2s[at["int"]]).v, UNCHANGED clientVars, Calm'
    PROVE  /\ Calm /\ n = report[at["int"]]
           /\ Behind(Head(c2s[at["int"]])) = IF n > 0 THEN "name" ELSE "end"
  <1> USE DEF Tally
  <1>1. PICK c \in Clients : c = at["int"]
    BY Rest DEF Frames, ReadPlaces
  <1>2. pc["int"] = "kills" /\ c \notin Marked /\ UNCHANGED crashes /\ "int" \in Frames
    BY <1>1, Rest DEF Frames, ReadPlaces, Array, clientVars
  <1>3. Calm
    BY <1>2, RestFails, Quieter
  <1>4. PICK pend \in BOOLEAN : Stream(c, pend)
    BY <1>3 DEF Heard, Streams
  <1>5. Reads(c, pend) = "kills"
    <2>1. Serves(c)
      BY <1>1, <1>2 DEF Serves
    <2>2. QED
      BY <1>2, <1>4, <2>1 DEF Reads, Stream
  <1>6. got /\ c2s[c] # <<>> /\ Head(c2s[c]).type = "kills"
    BY <1>1, <1>2, <1>4, <1>5, RestComes DEF Heard
  <1>7. c2s[c] \in Seq(Messages)
    BY DEF Base, StreamTypes
  <1>8. 1 \in DOMAIN c2s[c] /\ c2s[c][1] = Head(c2s[c])
    BY <1>6, <1>7, EmptySeq, LenProperties
  <1>9. n = Head(c2s[c]).v /\ Head(c2s[c]).v = report[c]
    BY <1>1, <1>6, <1>8 DEF Heard, TrueCounts
  <1>10. QED
    BY <1>1, <1>3, <1>6, <1>9 DEF Behind

LEMMA NameRead ==
    ASSUME Tally, Heard, NEW got \in BOOLEAN, ReadRest("int", "name", got),
           UNCHANGED clientVars, Calm'
    PROVE  Calm /\ Behind(Head(c2s[at["int"]])) = "end"
  <1> USE DEF Tally
  <1>1. PICK c \in Clients : c = at["int"]
    BY Rest DEF Frames, ReadPlaces
  <1>2. pc["int"] = "name" /\ c \notin Marked /\ UNCHANGED crashes /\ "int" \in Frames
    BY <1>1, Rest DEF Frames, ReadPlaces, Array, clientVars
  <1>3. Calm
    BY <1>2, RestFails, Quieter
  <1>4. PICK pend \in BOOLEAN : Stream(c, pend)
    BY <1>3 DEF Heard, Streams
  <1>5. Reads(c, pend) = "name"
    <2>1. Serves(c)
      BY <1>1, <1>2 DEF Serves
    <2>2. QED
      BY <1>2, <1>4, <2>1 DEF Reads, Stream
  <1>6. Head(c2s[c]).type = "name"
    BY <1>1, <1>2, <1>4, <1>5, RestComes DEF Heard
  <1>7. QED
    BY <1>1, <1>3, <1>6 DEF Behind

LEMMA RoomMarks ==
    ASSUME Base, Array, Array', NEW c \in Counted \ Marked, MarkExited(c),
           UNCHANGED clientCount, pc'["int"] = "wait"
    PROVE  Marked' = Marked \cup {c}
  <1>1. exited + 1 < MaxClients /\ server' # "done"
    BY DEF MarkExited, Array
  <1>2. QED
    BY <1>1, ArrayMarks

LEMMA HeardKills ==
    ASSUME Tally, Tally', Heard, Added, ReadKills
    PROVE  Streams' /\ Unasked' /\ Added'
  <1> USE DEF Tally
  <1>1. PICK got \in BOOLEAN, n \in 0..MaxKills :
           /\ ReadRest("int", "kills", got)
           /\ got => n = Head(c2s[at["int"]]).v
           /\ killCount' = killCount + n
           /\ IF n > 0
                THEN Goto("int", "name", at["int"]) /\ UNCHANGED <<exited, exitedClients>>
                ELSE Goto("int", "wait", at["int"] + 1) /\ MarkExited(at["int"])
    BY DEF ReadKills
  <1>2. UNCHANGED <<clientCount, clientVars, logged, nodenames>>
    BY DEF ReadKills
  <1>3. PICK c \in Clients : c = at["int"]
    BY <1>1, Rest DEF Frames, ReadPlaces
  <1>4. /\ pc["int"] = "kills" /\ server = "up" /\ c \in Counted \ Marked /\ n \in Nat
        /\ Marked \subseteq Clients
    <2>1. pc["int"] = "kills" /\ server = "up" /\ MaxKills \in Nat
      BY <1>1, Rest, SizesAssumption DEF Frames, ReadPlaces
    <2>2. Counted \subseteq Clients
      BY SizesAssumption DEF Base, TallyTypes, Counted, Clients
    <2>3. c \in Counted
      BY <1>3, <2>1 DEF Base, Dealing, Deals, Frames
    <2>4. QED
      BY <1>3, <2>1, <2>2, <2>3 DEF Array
  <1>5. PICK q, k :
           /\ q \in {"name", "wait"}
           /\ Goto("int", q, k) /\ (q = "name" <=> n > 0) /\ (q = "name" => k = c)
           /\ IF n > 0 THEN UNCHANGED <<exited, exitedClients>> ELSE MarkExited(c)
    BY <1>1, <1>3, <1>4
  <1>6. pc'["int"] = q /\ at'["int"] = k
    BY <1>5, IntGoto DEF Base
  <1>7. Marked' = IF q = "wait" THEN Marked \cup {c} ELSE Marked
    <2>1. CASE n > 0
      BY <1>5, <2>1 DEF Marked
    <2>2. CASE ~(n > 0)
      <3>1. MarkExited(c) /\ pc'["int"] = "wait" /\ UNCHANGED clientCount
        BY <1>2, <1>4, <1>5, <1>6, <2>2
      <3>2. QED
        BY <1>4, <1>5, <2>2, <3>1, RoomMarks
    <2>3. QED
      BY <2>1, <2>2
  <1>8. Unasked'
    BY <1>5, <1>6 DEF Unasked
  <1>9. Calm' => /\ Calm /\ n = report[c]
                 /\ Behind(Head(c2s[c])) = IF q = "wait" THEN "end" ELSE "name"
    BY <1>1, <1>2, <1>3, <1>4, <1>5, KillsRead
  <1>10. Streams'
    BY <1>1, <1>2, <1>3, <1>4, <1>5, <1>7, <1>9, StreamConfirms
  <1>11. Added'
    <2> SUFFICES ASSUME Calm'
                 PROVE  /\ pc'["int"] = "name" => report'[at'["int"]] > 0
                        /\ killCount' = Total(report, InTotal)'
                        /\ nodenames' = {d \in Marked' : report'[d] > 0}
      BY DEF Added
    <2>1. Calm /\ n = report[c] /\ report' = report
      BY <1>2, <1>9 DEF clientVars
    <2>2. /\ killCount = Total(report, InTotal) /\ nodenames = {d \in Marked : report[d] > 0}
      BY <2>1 DEF Added
    <2>3. InTotal = Marked
      BY <1>4 DEF InTotal
    <2>4. InTotal' = Marked \cup {c}
      BY <1>5, <1>6, <1>7 DEF InTotal
    <2>5. Total(report, Marked \cup {c}) = Total(report, Marked) + report[c]
      BY <1>4, <2>1, ReportsFinite, TotalAdds
    <2>6. Total(report, InTotal)' = Total(report, Marked \cup {c})
      BY <2>1, <2>4 DEF Total, Units
    <2>7. killCount' = Total(report, InTotal)'
      BY <1>1, <2>1, <2>2, <2>3, <2>5, <2>6
    <2>8. q = "wait" => ~(report[c] > 0)
      BY <1>5, <2>1
    <2>9. nodenames' = {d \in Marked' : report'[d] > 0}
      BY <1>2, <1>7, <2>1, <2>2, <2>8
    <2>10. pc'["int"] = "name" => report'[at'["int"]] > 0
      BY <1>5, <1>6, <2>1
    <2>11. QED
      BY <2>7, <2>9, <2>10
  <1>12. QED
    BY <1>8, <1>10, <1>11

LEMMA HeardName ==
    ASSUME Tally, Tally', Heard, Added, ReadName
    PROVE  Streams' /\ Unasked' /\ Added'
  <1> USE DEF Tally
  <1>1. PICK got \in BOOLEAN : ReadRest("int", "name", got)
    BY DEF ReadName
  <1>2. /\ UNCHANGED <<clientCount, clientVars, logged, killCount>>
        /\ nodenames' = nodenames \cup {at["int"]}
        /\ MarkExited(at["int"]) /\ Goto("int", "wait", at["int"] + 1)
    BY DEF ReadName
  <1>3. PICK c \in Clients : c = at["int"]
    BY <1>1, Rest DEF Frames, ReadPlaces
  <1>4. pc["int"] = "name" /\ server = "up" /\ c \in Counted \ Marked
    <2>1. pc["int"] = "name" /\ server = "up"
      BY <1>1, Rest DEF Frames, ReadPlaces
    <2>2. c \in Counted
      BY <1>3, <2>1 DEF Base, Dealing, Deals, Frames
    <2>3. QED
      BY <1>3, <2>1, <2>2 DEF Array
  <1>5. pc'["int"] = "wait"
    BY <1>2, IntGoto DEF Base
  <1>6. Marked' = Marked \cup {c}
    BY <1>2, <1>3, <1>4, <1>5, RoomMarks
  <1>7. Unasked'
    BY <1>5 DEF Unasked
  <1>8. Calm' => Calm /\ Behind(Head(c2s[c])) = "end"
    BY <1>1, <1>2, <1>3, NameRead
  <1>10. Streams'
    BY <1>1, <1>2, <1>3, <1>4, <1>6, <1>8, StreamConfirms
  <1>11. Added'
    <2> SUFFICES ASSUME Calm'
                 PROVE  /\ killCount' = Total(report, InTotal)'
                        /\ nodenames' = {d \in Marked' : report'[d] > 0}
      BY <1>5 DEF Added
    <2>1. Calm /\ report' = report
      BY <1>2, <1>8 DEF clientVars
    <2>2. /\ killCount = Total(report, InTotal) /\ nodenames = {d \in Marked : report[d] > 0}
          /\ report[c] > 0
      BY <1>3, <1>4, <2>1 DEF Added
    <2>3. InTotal = Marked \cup {c} /\ InTotal' = Marked \cup {c}
      BY <1>3, <1>4, <1>5, <1>6 DEF InTotal
    <2>4. Total(report, InTotal)' = Total(report, InTotal)
      BY <2>1, <2>3 DEF Total, Units
    <2>5. QED
      BY <1>2, <1>3, <1>6, <2>1, <2>2, <2>4
  <1>12. QED
    BY <1>7, <1>10, <1>11

-----------------------------------------------------------------------------
(* The steps of a client.                                                  *)

LEMMA ClientAside ==
    ASSUME NEW c \in Clients, ClientStep(c) \/ ClientChoice(c)
    PROVE  UNCHANGED <<server, frameVars, failedReads, clientCount, tallyVars, logged>>
  BY DEF ClientStep, ClientChoice, ClientHeader, ClientConfig, ClientText, ClientExit,
         Connect, ClientOutput, ClientKill, ClientDies

\* What a client does is nothing to the others.
LEMMA SameOther ==
    ASSUME UNCHANGED <<frameVars, tallyVars, logged>>, NEW d, c2s'[d] = c2s[d], outs'[d] = outs[d],
           Writes(d)' = Writes(d)
    PROVE  Same(d)
  <1>1. (AtText(d)' <=> AtText(d)) /\ (Serves(d)' <=> Serves(d)) /\ Marked' = Marked
        /\ pc' = pc /\ logged'[d] = logged[d]
    BY DEF AtText, Serves, Marked, frameVars, tallyVars
  <1>2. QED
    BY <1>1 DEF Same

\* The client writes m.
LEMMA ClientSays ==
    ASSUME Base, Streams, NEW c \in Clients, NEW m \in Messages, Say(c, m),
           Fits(m, Writes(c)), Writes(c)' = Behind(m),
           UNCHANGED <<frameVars, failedReads, tallyVars, logged, crashes>>,
           \A d \in Clients \ {c} : Writes(d)' = Writes(d) /\ outs'[d] = outs[d],
           outs'[c] = outs[c] + (IF m.type = "text" THEN 1 ELSE 0)
    PROVE  Streams'
  <1>1. ASSUME NEW d \in Clients \ {c} PROVE Same(d)
    <2>1. c2s'[d] = c2s[d]
      BY Said DEF Base
    <2>2. QED
      BY <2>1, SameOther
  <1>2. Calm' <=> Calm
    BY DEF Calm
  <1>3. outs'[c] \in Nat
    BY DEF Base, ClientTypes
  <1>4. ASSUME Calm PROVE \E pend \in BOOLEAN : Stream(c, pend)'
    <2>1. PICK pend \in BOOLEAN : Stream(c, pend)
      BY <1>4 DEF Streams
    <2>2. Stream(c, pend)'
      BY <1>3, <2>1, StreamSaid
    <2>3. QED
      BY <2>2
  <1>5. QED
    BY <1>1, <1>2, <1>4, StreamsStep

\* A client that writes nothing.
LEMMA ClientSilent ==
    ASSUME Streams, UNCHANGED <<frameVars, failedReads, tallyVars, logged, crashes, c2s, outs>>,
           \A d \in Clients : Writes(d)' = Writes(d)
    PROVE  Streams'
  <1>1. \A d \in Clients : Same(d)
    BY SameOther
  <1>2. QED
    BY <1>1, StreamSame DEF Streams, Calm

\* The reports that are in the total do not change any more.
LEMMA ClientAdded ==
    ASSUME Tally, Added, NEW c \in Clients, ClientStep(c) \/ ClientChoice(c)
    PROVE  Added'
  <1> USE DEF Tally
  <1>1. UNCHANGED <<pc, at, killCount, nodenames, exited, exitedClients, failedReads>>
    BY ClientAside DEF frameVars, tallyVars
  <1>2. ASSUME Calm' PROVE Calm
    <2>1. crashes' = crashes \/ crashes' = crashes + 1
      BY DEF ClientStep, ClientChoice, ClientHeader, ClientConfig, ClientText, ClientExit,
             Connect, ClientOutput, ClientKill, ClientDies
    <2>2. QED
      BY <1>1, <1>2, <2>1 DEF Calm, Base, ClientTypes
  <1>3. CASE UNCHANGED report
    BY <1>1, <1>2, <1>3, AddedSame
  <1>4. CASE ~UNCHANGED report
    <2>1. Confirms(c)
      BY <1>4, ExitSteps DEF ClientStep, ClientChoice, ClientHeader, ClientConfig, ClientText,
         Connect, ClientOutput, ClientKill, ClientDies, Counts, Names
    <2>2. /\ cl[c] = "exiting" /\ report' = [report EXCEPT ![c] = kills[c]]
      BY <2>1 DEF Confirms
    <2>3. report[c] = -1 /\ \A d \in Clients \ {c} : report'[d] = report[d]
      BY <2>2 DEF Base, Confirmed, ClientTypes
    <2> SUFFICES ASSUME Calm'
                 PROVE  /\ pc'["int"] = "name" => report'[at'["int"]] > 0
                        /\ killCount' = Total(report, InTotal)'
                        /\ nodenames' = {d \in Marked' : report'[d] > 0}
      BY DEF Added
    <2>4. /\ pc["int"] = "name" => report[at["int"]] > 0 /\ at["int"] \in Clients /\ at["int"] # c
      <3>1. Counted \subseteq Clients
        BY SizesAssumption DEF Base, TallyTypes, Counted, Clients
      <3>2. pc["int"] = "name" => at["int"] \in Counted /\ report[at["int"]] # -1
        BY <1>2 DEF Base, Dealing, Deals, Frames, Honest, Calm, HeadersRead
      <3>3. QED
        BY <1>2, <2>3, <3>1, <3>2 DEF Added
    <2>5. Marked \subseteq Clients \ {c}
      <3>1. Marked \subseteq Clients
        BY SizesAssumption DEF Array, Base, TallyTypes, Counted, Clients
      <3>2. QED
        BY <1>2, <2>3, <3>1 DEF Honest, Calm, HeadersRead
    <2>6. Marked' = Marked /\ InTotal' = InTotal /\ InTotal \subseteq Clients \ {c}
      BY <1>1, <2>4, <2>5 DEF Marked, InTotal
    <2>7. Units(report', InTotal) = Units(report, InTotal)
      <3>1. {{d} \X (1..report'[d]) : d \in InTotal} = {{d} \X (1..report[d]) : d \in InTotal}
        BY <2>3, <2>6
      <3>2. QED
        BY <3>1 DEF Units
    <2>8. Total(report, InTotal)' = Total(report, InTotal)
      <3>1. Units(report, InTotal)' = Units(report', InTotal)
        BY <2>6 DEF Units
      <3>2. QED
        BY <2>7, <3>1 DEF Total
    <2>9. nodenames' = {d \in Marked' : report'[d] > 0}
      BY <1>1, <1>2, <2>3, <2>5, <2>6 DEF Added
    <2>10. QED
      BY <1>1, <1>2, <2>3, <2>4, <2>8, <2>9 DEF Added
  <1>5. QED
    BY <1>3, <1>4

LEMMA ClientSpeaks ==
    ASSUME Base, HalfTold, TrueCounts, Streams, NEW c \in Clients, ClientOutput(c) \/ ClientText(c)
    PROVE  HalfTold' /\ TrueCounts' /\ Streams'
  <1>1. UNCHANGED <<frameVars, failedReads, tallyVars, logged, cl, report, crashes>>
    BY DEF ClientOutput, ClientText
  <1>2. StreamTypes /\ cl \in [Clients -> {"new", "waitConfig", "procs", "count", "run", "exiting",
                                          "sendKills", "sendName", "gone", "killed"}]
        /\ half \in [Clients -> BOOLEAN] /\ outs \in [Clients -> Nat]
    BY DEF Base, ClientTypes
  <1>3. CASE ClientOutput(c)
    <2> DEFINE m == Header("output")
    <2>1. /\ cl[c] \in {"waitConfig", "run", "exiting"} /\ ~half[c] /\ Say(c, m)
          /\ half' = [half EXCEPT ![c] = TRUE] /\ outs' = outs
      BY <1>3 DEF ClientOutput
    <2>2. m \in Messages /\ m.type = "output"
      BY DEF Header, Msg, Messages, MsgTypes
    <2>3. HalfTold'
      BY <1>1, <1>2, <2>1 DEF HalfTold
    <2>4. TrueCounts'
      BY <1>1, <1>2, <2>1, <2>2, TrueSays
    <2>5. Writes(c) = "header" /\ Writes(c)' = "text"
      BY <1>1, <1>2, <2>1 DEF Writes
    <2>6. Fits(m, Writes(c)) /\ Behind(m) = "text"
      BY <2>2, <2>5 DEF Fits, Behind
    <2>7. \A d \in Clients \ {c} : Writes(d)' = Writes(d) /\ outs'[d] = outs[d]
      BY <1>1, <1>2, <2>1 DEF Writes
    <2>8. outs'[c] = outs[c] + (IF m.type = "text" THEN 1 ELSE 0)
      BY <1>2, <2>1, <2>2
    <2>9. Streams'
      BY <1>1, <2>1, <2>2, <2>5, <2>6, <2>7, <2>8, ClientSays
    <2>10. QED
      BY <2>3, <2>4, <2>9
  <1>4. CASE ClientText(c)
    <2> DEFINE m == Header("text")
    <2>1. /\ half[c] /\ cl[c] \notin {"gone", "killed"} /\ Say(c, m)
          /\ half' = [half EXCEPT ![c] = FALSE] /\ outs' = [outs EXCEPT ![c] = outs[c] + 1]
      BY <1>4 DEF ClientText, Closed
    <2>2. m \in Messages /\ m.type = "text"
      BY DEF Header, Msg, Messages, MsgTypes
    <2>3. HalfTold' /\ cl[c] \in {"waitConfig", "run", "exiting"}
      BY <1>1, <1>2, <2>1 DEF HalfTold
    <2>4. TrueCounts'
      BY <1>1, <1>2, <2>1, <2>2, TrueSays
    <2>5. Writes(c) = "text" /\ Writes(c)' = "header"
      BY <1>1, <1>2, <2>1, <2>3 DEF Writes
    <2>6. Fits(m, Writes(c)) /\ Behind(m) = "header"
      BY <2>2, <2>5 DEF Fits, Behind
    <2>7. \A d \in Clients \ {c} : Writes(d)' = Writes(d) /\ outs'[d] = outs[d]
      BY <1>1, <1>2, <2>1 DEF Writes
    <2>8. outs'[c] = outs[c] + (IF m.type = "text" THEN 1 ELSE 0)
      BY <1>2, <2>1, <2>2
    <2>9. Streams'
      BY <1>1, <2>1, <2>2, <2>5, <2>6, <2>7, <2>8, ClientSays
    <2>10. QED
      BY <2>3, <2>4, <2>9
  <1>5. QED
    BY <1>3, <1>4

LEMMA ClientReports ==
    ASSUME Tally, HalfTold, TrueCounts, Streams, NEW c \in Clients, ClientExit(c)
    PROVE  HalfTold' /\ TrueCounts' /\ Streams'
  <1> USE DEF Tally
  <1>1. UNCHANGED <<frameVars, failedReads, tallyVars, logged, half, outs, crashes>>
    BY ExitSteps
  <1>2. StreamTypes /\ cl \in [Clients -> {"new", "waitConfig", "procs", "count", "run", "exiting",
                                          "sendKills", "sendName", "gone", "killed"}]
        /\ half \in [Clients -> BOOLEAN] /\ outs \in [Clients -> Nat]
        /\ report \in [Clients -> Nat \cup {-1}] /\ kills \in [Clients -> Nat]
    BY DEF Base, ClientTypes
  <1>3. ~half[c] /\ \A d \in Clients \ {c} : cl'[d] = cl[d]
    BY <1>2 DEF ClientExit, HalfTold
  <1>4. HalfTold'
    BY <1>1, <1>2, <1>3 DEF HalfTold
  <1>5. \A d \in Clients \ {c} : Writes(d)' = Writes(d) /\ outs'[d] = outs[d]
    BY <1>1, <1>3 DEF Writes
  <1>6. ASSUME NEW m \in Messages, m.type # "text", Say(c, m),
               Fits(m, Writes(c)), Writes(c)' = Behind(m)
        PROVE  Streams'
    <2>1. outs'[c] = outs[c] + (IF m.type = "text" THEN 1 ELSE 0)
      BY <1>1, <1>2, <1>6
    <2>2. QED
      BY <1>1, <1>5, <1>6, <2>1, ClientSays
  <1>7. CASE Confirms(c)
    <2> DEFINE m == Header("exit")
    <2>1. /\ cl[c] = "exiting" /\ Say(c, m) /\ cl'[c] = "sendKills"
          /\ report' = [report EXCEPT ![c] = kills[c]]
      BY <1>2, <1>7 DEF Confirms
    <2>2. m \in Messages /\ m.type = "exit"
      BY DEF Header, Msg, Messages, MsgTypes
    <2>3. Writes(c) = "header" /\ Writes(c)' = "kills"
      BY <1>1, <1>3, <2>1 DEF Writes
    <2>4. Fits(m, Writes(c)) /\ Behind(m) = "kills"
      BY <2>2, <2>3 DEF Fits, Behind
    <2>5. Streams'
      BY <1>6, <2>1, <2>2, <2>3, <2>4
    <2>6. ASSUME NEW d \in Clients, NEW i \in DOMAIN c2s'[d], c2s'[d][i].type = "kills"
          PROVE  c2s'[d][i].v = report'[d]
      <3>1. CASE d # c
        <4>1. c2s'[d] = c2s[d] /\ report'[d] = report[d]
          BY <1>2, <2>1, <2>2, <3>1, Said
        <4>2. QED
          BY <2>6, <4>1 DEF TrueCounts
      <3>2. CASE d = c
        <4>1. c2s'[c] = Append(c2s[c], m) /\ c2s[c] \in Seq(Messages)
          BY <1>2, <2>1, <2>2, Said DEF StreamTypes
        <4>2. i \in DOMAIN c2s[c] /\ c2s'[c][i] = c2s[c][i]
          BY <2>2, <2>6, <3>2, <4>1, Appended
        <4>3. c2s[c][i] \in Messages /\ c2s[c][i].v = report[c]
          BY <2>6, <3>2, <4>1, <4>2 DEF TrueCounts
        <4>4. report[c] = -1
          BY <2>1 DEF Base, Confirmed
        <4>5. QED
          BY <4>3, <4>4 DEF Messages
      <3>3. QED
        BY <3>1, <3>2
    <2>7. TrueCounts'
      BY <2>6 DEF TrueCounts
    <2>8. QED
      BY <1>4, <2>5, <2>7
  <1>8. CASE Counts(c)
    <2> DEFINE m == Msg("kills", report[c])
    <2>1. /\ cl[c] = "sendKills" /\ Say(c, m) /\ report' = report
          /\ cl'[c] = IF report[c] > 0 THEN "sendName" ELSE "gone"
      BY <1>2, <1>8 DEF Counts
    <2>2. report[c] \in Nat
      BY <2>1 DEF Base, Confirmed
    <2>3. m \in Messages /\ m.type = "kills" /\ m.v = report[c]
      BY <2>2 DEF Msg, Messages, MsgTypes
    <2>4. Writes(c) = "kills" /\ Writes(c)' = IF report[c] > 0 THEN "name" ELSE "end"
      BY <1>1, <1>3, <2>1 DEF Writes
    <2>5. Fits(m, Writes(c)) /\ Behind(m) = IF report[c] > 0 THEN "name" ELSE "end"
      BY <2>3, <2>4 DEF Fits, Behind
    <2>6. Streams'
      BY <1>6, <2>1, <2>3, <2>4, <2>5
    <2>7. TrueCounts'
      BY <1>2, <2>1, <2>3, TrueSays
    <2>8. QED
      BY <1>4, <2>6, <2>7
  <1>9. CASE Names(c)
    <2> DEFINE m == Header("name")
    <2>1. cl[c] = "sendName" /\ Say(c, m) /\ report' = report /\ cl'[c] = "gone"
      BY <1>2, <1>9 DEF Names
    <2>2. m \in Messages /\ m.type = "name"
      BY DEF Header, Msg, Messages, MsgTypes
    <2>3. Writes(c) = "name" /\ Writes(c)' = "end"
      BY <1>1, <1>3, <2>1 DEF Writes
    <2>4. Fits(m, Writes(c)) /\ Behind(m) = "end"
      BY <2>2, <2>3 DEF Fits, Behind
    <2>5. Streams'
      BY <1>6, <2>1, <2>2, <2>3, <2>4
    <2>6. TrueCounts'
      BY <1>2, <2>1, <2>2, TrueSays
    <2>7. QED
      BY <1>4, <2>5, <2>6
  <1>10. QED
    BY <1>7, <1>8, <1>9, ExitSteps

LEMMA ClientHeard ==
    ASSUME Tally, Heard, NEW c \in Clients, ClientStep(c) \/ ClientChoice(c)
    PROVE  Heard'
  <1> USE DEF Tally
  <1>1. Unasked'
    BY UnaskedClient DEF Heard
  <1>2. StreamTypes /\ cl \in [Clients -> {"new", "waitConfig", "procs", "count", "run", "exiting",
                                          "sendKills", "sendName", "gone", "killed"}]
        /\ half \in [Clients -> BOOLEAN]
    BY DEF Base, ClientTypes
  <1>3. CASE Connect(c) \/ ClientHeader(c) \/ ClientConfig(c) \/ ClientKill(c)
    <2>1. UNCHANGED <<frameVars, failedReads, tallyVars, logged, crashes, c2s, outs, half, report>>
      BY <1>3 DEF Connect, ClientHeader, ClientConfig, ClientKill
    <2>2. /\ \A d \in Clients \ {c} : cl'[d] = cl[d]
          /\ \/ cl'[c] = cl[c]
             \/ ~half[c] /\ {cl[c], cl'[c]} \cap {"sendKills", "sendName", "gone"} = {}
      <3>1. CASE Connect(c)
        BY <1>2, <3>1 DEF Connect, Heard, HalfTold
      <3>2. CASE ClientHeader(c)
        BY <1>2, <3>2 DEF ClientHeader
      <3>3. CASE ClientConfig(c)
        BY <1>2, <3>3 DEF ClientConfig, Heard, HalfTold
      <3>4. CASE ClientKill(c)
        BY <3>4 DEF ClientKill
      <3>5. QED
        BY <1>3, <3>1, <3>2, <3>3, <3>4
    <2>3. HalfTold' /\ TrueCounts'
      BY <2>1, <2>2 DEF Heard, HalfTold, TrueCounts
    <2>4. \A d \in Clients : Writes(d)' = Writes(d)
      BY <2>1, <2>2 DEF Writes
    <2>5. Streams'
      BY <2>1, <2>4, ClientSilent DEF Heard
    <2>6. QED
      BY <1>1, <2>3, <2>5 DEF Heard
  <1>4. CASE ClientDies(c)
    <2>1. /\ UNCHANGED <<c2s, half, report>> /\ cl' = [cl EXCEPT ![c] = "killed"]
          /\ crashes' = crashes + 1 /\ crashes \in Nat
      BY <1>4 DEF ClientDies, Base, ClientTypes
    <2>2. HalfTold' /\ TrueCounts'
      BY <1>2, <2>1 DEF Heard, HalfTold, TrueCounts
    <2>3. Streams'
      BY <2>1 DEF Streams, Calm
    <2>4. QED
      BY <1>1, <2>2, <2>3 DEF Heard
  <1>5. CASE ClientOutput(c) \/ ClientText(c) \/ ClientExit(c)
    BY <1>1, <1>5, ClientSpeaks, ClientReports DEF Heard
  <1>6. QED
    BY <1>3, <1>4, <1>5 DEF ClientStep, ClientChoice

-----------------------------------------------------------------------------
(* The invariant.                                                          *)

\* A step that reads leaves what the clients know alone.
LEMMA ReadsTold ==
    ASSUME Base, Heard, UNCHANGED clientVars, UNCHANGED c2s \/ \E c \in Clients : Take(c)
    PROVE  HalfTold' /\ TrueCounts'
  <1>1. UNCHANGED <<cl, half, report>>
    BY DEF clientVars
  <1>2. QED
    BY <1>1, TrueReads DEF Heard, HalfTold, Base

LEMMA ReadMainExact ==
    ASSUME Tally, Heard, Added, ReadClient \/ ReadHeader("main") \/ ReadText("main")
    PROVE  Heard' /\ Added'
  <1> USE DEF Tally
  <1>1. /\ UNCHANGED <<exited, exitedClients, cl, report, crashes>>
        /\ pc'["int"] = pc["int"] /\ at'["int"] = at["int"]
        /\ UNCHANGED c2s \/ \E c \in Clients : Take(c)
    BY QuietMain DEF Quiet
  <1>2. UNCHANGED <<clientVars, s2c, killCount, nodenames>>
    BY DEF ReadClient, ReadHeader, ReadText, tallyVars
  <1>3. HalfTold' /\ TrueCounts'
    BY <1>1, <1>2, ReadsTold
  <1>4. Unasked'
    BY <1>1, <1>2, UnaskedKept DEF Heard
  <1>5. Streams'
    BY HeardReadClient, HeardHeaderMain, HeardText
  <1>6. Calm' => Calm
    BY <1>1, QuietMain, Quieter DEF Quiet
  <1>7. Added'
    BY <1>1, <1>2, <1>6, AddedSame
  <1>8. QED
    BY <1>3, <1>4, <1>5, <1>7 DEF Heard

LEMMA ReadIntExact ==
    ASSUME Tally, Tally', Heard, Added,
           WaitForClients \/ ReadHeader("int") \/ ReadText("int") \/ ReadKills \/ ReadName
    PROVE  Heard' /\ Added'
  <1> USE DEF Tally
  <1>1. UNCHANGED clientVars
    BY DEF WaitForClients, ReadHeader, ReadText, ReadKills, ReadName
  <1>2. UNCHANGED c2s \/ \E c \in Clients : Take(c)
    <2>1. CASE WaitForClients
      <3>1. at["int"] \in Nat /\ at["int"] > 0 /\ clientCount \in 0..NClients
        BY <2>1 DEF WaitForClients, Running, Base, FrameTypes, TallyTypes, Dealing, Deals, Frames
      <3>2. at["int"] <= clientCount => at["int"] \in Clients
        BY <3>1, SizesAssumption DEF Clients
      <3>3. UNCHANGED c2s \/ (at["int"] <= clientCount /\ Take(at["int"]))
        BY <2>1, <3>1, PollParts DEF WaitForClients
      <3>4. QED
        BY <3>2, <3>3
    <2>2. CASE ReadHeader("int") \/ ReadText("int") \/ ReadKills \/ ReadName
      <3>1. PICK p \in ReadPlaces, got \in BOOLEAN : ReadRest("int", p, got)
        BY <2>2 DEF ReadHeader, ReadText, ReadKills, ReadName, ReadPlaces
      <3>2. QED
        BY <3>1, Rest DEF Frames
    <2>3. QED
      BY <2>1, <2>2
  <1>3. HalfTold' /\ TrueCounts'
    BY <1>1, <1>2, ReadsTold
  <1>4. CASE WaitForClients \/ ReadHeader("int") \/ ReadKills \/ ReadName
    BY <1>3, <1>4, HeardWait, HeardHeaderInt, HeardKills, HeardName DEF Heard
  <1>5. CASE ReadText("int")
    <2>1. PICK got \in BOOLEAN : ReadRest("int", "text", got)
      BY <1>5 DEF ReadText
    <2>2. /\ UNCHANGED <<tallyVars, crashes, report>> /\ pc["int"] = "text"
          /\ pc'["int"] = "wait"
      <3>1. Goto("int", "wait", at["int"] + 1)
        BY <1>5 DEF ReadText, Loop
      <3>2. QED
        BY <1>1, <1>5, <2>1, <3>1, Rest, IntGoto DEF ReadText, Frames, Base, clientVars, ReadPlaces
    <2>3. Unasked'
      BY <2>2 DEF Unasked
    <2>4. Calm' => Calm
      BY <2>1, <2>2, RestFails, Quieter
    <2>5. Added'
      BY <2>2, <2>4, AddedSame DEF tallyVars
    <2>6. QED
      BY <1>3, <1>5, <2>3, <2>5, HeardText DEF Heard
  <1>6. QED
    BY <1>4, <1>5

LEMMA IdleUnasked ==
    ASSUME Base, Unasked,
           \/ \E f \in {"main", "hup"} :
                 ReadFile(f) \/ SetCount(f) \/ SendHeader(f) \/ SendProcs(f) \/ SendCount(f)
           \/ Sighup \/ Return \/ Select \/ Accept \/ CountClient
           \/ Sigint \/ SendExit \/ Final
    PROVE  Unasked'
  <1>1. ASSUME NEW f \in {"main", "hup"}, SendHeader(f) \/ SendProcs(f) \/ SendCount(f)
        PROVE  Unasked'
    BY <1>1, UnaskedSends
  <1>2. ASSUME NEW f \in {"main", "hup"}, ReadFile(f) \/ SetCount(f) PROVE Unasked'
    <2>1. UNCHANGED <<s2c, cl, exited>>
      BY <1>2 DEF ReadFile, SetCount, clientVars, tallyVars
    <2>2. pc'["int"] = pc["int"]
      BY <1>2, QuietReads DEF Quiet
    <2>3. QED
      BY <2>1, <2>2, UnaskedKept
  <1>3. CASE Sighup \/ Return \/ Select \/ Accept
    <2>1. UNCHANGED <<s2c, cl, exited>>
      BY <1>3 DEF Sighup, Deliver, Return, Select, Accept, clientVars, tallyVars
    <2>2. pc'["int"] = pc["int"]
      BY <1>3, QuietHandler, QuietMain DEF Quiet
    <2>3. QED
      BY <2>1, <2>2, UnaskedKept
  <1>4. CASE CountClient
    <2>1. UNCHANGED <<s2c, cl, exited>> /\ Goto("main", "client", 1)
      BY <1>4 DEF CountClient, clientVars, tallyVars
    <2>2. pc'["int"] = pc["int"]
      BY <2>1, QuietGoto DEF Base
    <2>3. QED
      BY <2>1, <2>2, UnaskedKept
  <1>5. CASE Sigint
    <2>1. pc' = [pc EXCEPT !["int"] = "exit"]
      BY <1>5 DEF Sigint, Deliver
    <2>2. QED
      BY <2>1 DEF Base, FrameTypes, Frames, Unasked
  <1>6. CASE SendExit
    <2>1. PICK q, k : q \in {"exit", "wait"} /\ Goto("int", q, k)
      BY <1>6 DEF SendExit
    <2>2. QED
      BY <2>1, IntGoto DEF Base, Unasked
  <1>7. CASE Final
    <2>1. UNCHANGED pc /\ pc["int"] = "final"
      BY <1>7 DEF Final, Running, frameVars
    <2>2. QED
      BY <2>1 DEF Unasked
  <1>8. QED
    BY <1>1, <1>2, <1>3, <1>4, <1>5, <1>6, <1>7

LEMMA NextExact == ASSUME Exact, Tally', [Next]_vars PROVE Exact'
  <1> USE DEF Tally
  <1> SUFFICES Heard' /\ Added'
    BY DEF Exact, Tally
  <1>2. CASE \/ \E f \in {"main", "hup"} :
                   ReadFile(f) \/ SetCount(f) \/ SendHeader(f) \/ SendProcs(f) \/ SendCount(f)
             \/ Sighup \/ Return \/ Select \/ Accept \/ CountClient
             \/ Sigint \/ SendExit \/ Final
    <2>1. Idle
      BY <1>2, IdleBelow, IdleMain, IdleInt DEF Exact
    <2>2. Unasked'
      BY <1>2, IdleUnasked DEF Exact, Heard
    <2>3. QED
      BY <2>1, <2>2, IdleKeeps DEF Exact, Heard
  <1>3. CASE ReadClient \/ ReadHeader("main") \/ ReadText("main")
    BY <1>3, ReadMainExact DEF Exact
  <1>4. CASE WaitForClients \/ ReadHeader("int") \/ ReadText("int") \/ ReadKills \/ ReadName
    BY <1>4, ReadIntExact DEF Exact
  <1>5. CASE ServerStep
    BY <1>2, <1>3, <1>4, <1>5 DEF ServerStep
  <1>6. ASSUME NEW c \in Clients, ClientStep(c) \/ ClientChoice(c) PROVE Heard' /\ Added'
    BY <1>6, ClientHeard, ClientAdded DEF Exact
  <1>7. CASE UNCHANGED vars
    <2>1. UNCHANGED <<frameVars, c2s, s2c, logged, tallyVars, clientVars, failedReads>>
      BY <1>7 DEF vars
    <2>2. Idle
      BY <2>1 DEF Idle, Aside, frameVars
    <2>3. Unasked'
      BY <2>1, UnaskedKept DEF Exact, Heard, frameVars, clientVars, tallyVars
    <2>4. QED
      BY <2>2, <2>3, IdleKeeps DEF Exact, Heard
  <1>8. QED
    BY <1>2, <1>5, <1>6, <1>7 DEF Next, Finished

LEMMA InitExact == Init => Exact
  <1> SUFFICES ASSUME Init PROVE Exact
    OBVIOUS
  <1>1. Tally
    BY InitBase, TallyInit DEF Tally
  <1>2. /\ exited = 0 /\ killCount = 0 /\ nodenames = {}
        /\ pc["int"] = "off" /\ pc["main"] = "readFile"
        /\ \A c \in Clients : /\ c2s[c] = <<>> /\ s2c[c] = <<>> /\ cl[c] = "new" /\ ~half[c]
                              /\ logged[c] = 0 /\ outs[c] = 0
    BY DEF Init, Frames
  <1>3. Marked = {} /\ InTotal = {}
    BY <1>2 DEF Marked, InTotal
  <1>4. HalfTold /\ TrueCounts /\ Unasked
    BY <1>2 DEF HalfTold, TrueCounts, Unasked
  <1>5. ASSUME NEW c \in Clients PROVE Stream(c, FALSE)
    <2>1. ~Serves(c) /\ ~AtText(c)
      BY <1>2 DEF Serves, AtText
    <2>2. Reads(c, FALSE) = "header" /\ Writes(c) = "header"
      BY <1>2, <1>3, <2>1 DEF Reads, Writes
    <2>3. Line(c2s[c], "header", "header")
      BY <1>2 DEF Line
    <2>4. Texts(c2s[c]) = 0
      <3>1. {i \in DOMAIN <<>> : (<<>>)[i].type = "text"} = {}
        OBVIOUS
      <3>2. QED
        BY <1>2, <3>1, FS_EmptySet DEF Texts
    <2>5. Lost(c, FALSE) = 0
      BY <2>1 DEF Lost
    <2>6. outs[c] <= logged[c] + Texts(c2s[c]) + Lost(c, FALSE)
      <3>1. 0 <= 0 + 0 + 0
        OBVIOUS
      <3>2. QED
        BY <1>2, <2>4, <2>5, <3>1
    <2>7. QED
      BY <2>1, <2>2, <2>3, <2>6 DEF Stream
  <1>6. Streams
    BY <1>5 DEF Streams
  <1>7. Total(report, InTotal) = 0
    <2>1. Units(report, InTotal) = {}
      BY <1>3 DEF Units
    <2>2. QED
      BY <2>1, FS_EmptySet DEF Total
  <1>8. Added
    BY <1>2, <1>3, <1>7 DEF Added
  <1>9. QED
    BY <1>1, <1>4, <1>6, <1>8 DEF Exact, Heard

-----------------------------------------------------------------------------
(* Behind a full array.                                                    *)

\* What the server has of a client that has confirmed.
Settled(c) ==
    /\ cl[c] = "gone" /\ ~half[c]
    /\ outs[c] <= logged[c] + (IF c = at["main"] THEN 1 ELSE 0)

\* The result, once and for all.
Result ==
    Calm => /\ killCount = Total(report, Counted)
            /\ nodenames = {c \in Counted : report[c] > 0}
            /\ \A c \in Counted : Settled(c)

\* A row that ends with the client's confirmation is read to its end.
LEMMA Ended ==
    ASSUME HalfTold, NEW c \in Clients, NEW q \in Seq(Messages), Line(q, "end", Writes(c))
    PROVE  q = <<>> /\ Texts(q) = 0 /\ ~half[c] /\ cl[c] = "gone"
  <1>1. q = <<>>
    <2>1. q # <<>> => q[1] \in Messages
      BY HeadTailProperties
    <2>2. q # <<>> => q[1].type = "end" /\ q[1].type \in MsgTypes
      BY <2>1 DEF Line, Fits, Messages
    <2>3. QED
      BY <2>2 DEF MsgTypes
  <1>2. Texts(q) = 0
    <2>1. {i \in DOMAIN <<>> : (<<>>)[i].type = "text"} = {}
      OBVIOUS
    <2>2. QED
      BY <1>1, <2>1, FS_EmptySet DEF Texts
  <1>3. Writes(c) = "end"
    BY <1>1 DEF Line
  <1>4. QED
    BY <1>1, <1>2, <1>3 DEF Writes, HalfTold

LEMMA SettledMarked ==
    ASSUME Exact, Calm, NEW c \in Marked
    PROVE  Settled(c)
  <1> USE DEF Exact, Tally
  <1>1. c \in Clients
    BY SizesAssumption DEF Array, Base, TallyTypes, Counted, Clients
  <1>2. outs[c] \in Nat /\ logged[c] \in Nat /\ c2s[c] \in Seq(Messages)
    BY <1>1 DEF Base, ClientTypes, StreamTypes
  <1>3. PICK pend \in BOOLEAN : Stream(c, pend)
    BY <1>1 DEF Heard, Streams
  <1>4. ~pend /\ ~Serves(c)
    BY <1>3 DEF Stream, Serves, Array
  <1>5. Reads(c, pend) = "end"
    BY <1>4 DEF Reads
  <1>6. Texts(c2s[c]) = 0 /\ ~half[c] /\ cl[c] = "gone"
    BY <1>1, <1>2, <1>3, <1>5, Ended DEF Stream, Heard
  <1>7. Lost(c, pend) = 0 \/ (Lost(c, pend) = 1 /\ c = at["main"])
    BY DEF Lost, AtText
  <1>8. outs[c] <= logged[c] + Texts(c2s[c]) + Lost(c, pend)
    BY <1>3 DEF Stream
  <1>9. QED
    BY <1>2, <1>6, <1>7, <1>8 DEF Settled

\* The last part of a confirmation settles its client.
LEMMA SettledLast ==
    ASSUME Exact, NEW c \in Clients, c = at["int"],
           NEW p \in {"kills", "name"}, NEW got \in BOOLEAN, ReadRest("int", p, got),
           NEW k, Goto("int", "wait", k), UNCHANGED <<clientVars, logged>>, Calm',
           Behind(Head(c2s[c])) = "end"
    PROVE  Settled(c)'
  <1> USE DEF Exact, Tally
  <1>1. pc["int"] = p /\ c \notin Marked /\ Serves(c) /\ UNCHANGED crashes
    BY Rest DEF Frames, ReadPlaces, Array, Serves, clientVars
  <1>2. Calm
    BY <1>1, RestFails, Quieter
  <1>3. PICK pend \in BOOLEAN : Stream(c, pend)
    BY <1>2 DEF Heard, Streams
  <1>4. Reads(c, pend) = p /\ ~pend
    BY <1>1, <1>3 DEF Reads, Stream
  <1>5. c2s[c] # <<>> /\ Head(c2s[c]).type = p
    BY <1>1, <1>3, <1>4, RestComes DEF Heard, Frames
  <1>6. c2s[c] \in Seq(Messages) /\ outs[c] \in Nat /\ logged[c] \in Nat
    BY DEF Base, StreamTypes, ClientTypes
  <1>7. Line(Tail(c2s[c]), "end", Writes(c))
    BY <1>3, <1>5, <1>6, LineTaken DEF Stream
  <1>8. Texts(c2s[c]) = Texts(Tail(c2s[c])) + 0 /\ Tail(c2s[c]) \in Seq(Messages)
    BY <1>5, <1>6, TextsTaken
  <1>9. Texts(c2s[c]) = 0 /\ ~half[c] /\ cl[c] = "gone"
    <2> DEFINE q == Tail(c2s[c])
    <2>1. q \in Seq(Messages) /\ Line(q, "end", Writes(c)) /\ Texts(c2s[c]) = Texts(q) + 0
      BY <1>7, <1>8
    <2> HIDE DEF q
    <2>2. Texts(q) = 0 /\ ~half[c] /\ cl[c] = "gone"
      BY <2>1, Ended DEF Heard
    <2>3. QED
      BY <2>1, <2>2
  <1>10. Lost(c, pend) = 0 \/ (Lost(c, pend) = 1 /\ c = at["main"])
    BY DEF Lost, AtText
  <1>11. outs[c] <= logged[c] + Texts(c2s[c]) + Lost(c, pend)
    BY <1>3 DEF Stream
  <1>12. Settled(c)
    BY <1>6, <1>9, <1>10, <1>11 DEF Settled
  <1>13. at'["main"] = at["main"]
    BY DEF Goto, Base, FrameTypes, Frames
  <1>14. QED
    BY <1>12, <1>13 DEF Settled, clientVars

\* A step from Exact that fills the array.
LEMMA ResultComes ==
    ASSUME Exact, Full', [Next]_vars
    PROVE  Result'
  <1> USE DEF Exact, Tally
  <1>1. exited \in Nat /\ MaxClients \in Nat /\ exited < MaxClients /\ exited' = MaxClients
    BY SizesAssumption DEF Array, Base, TallyTypes, Full
  <1>2. ~UNCHANGED exited /\ ~(exited + 1 < MaxClients /\ exited' = exited + 1)
    BY <1>1
  <1>3. ReadKills \/ ReadName
    BY <1>2 DEF Next, Finished, ServerStep, ReadFile, SetCount, SendHeader, SendProcs, SendCount,
       Return, Select, Accept, CountClient, ReadClient, ReadHeader, ReadText, SendExit,
       WaitForClients, Final, Sighup, Sigint, Deliver, ClientStep, ClientChoice, ClientHeader,
       ClientConfig, ClientText, ClientExit, Connect, ClientOutput, ClientKill, ClientDies,
       vars, tallyVars
  <1>4. PICK p \in {"kills", "name"}, got \in BOOLEAN, n \in 0..MaxKills :
           /\ ReadRest("int", p, got) /\ killCount' = killCount + n
           /\ p = "kills" => n = 0 /\ (got => n = Head(c2s[at["int"]]).v)
           /\ p = "name" => n = 0
           /\ nodenames' = IF p = "name" THEN nodenames \cup {at["int"]} ELSE nodenames
           /\ MarkExited(at["int"]) /\ Goto("int", "wait", at["int"] + 1)
    <2>1. CASE ReadKills
      <3>1. PICK got \in BOOLEAN, n \in 0..MaxKills :
               /\ ReadRest("int", "kills", got)
               /\ got => n = Head(c2s[at["int"]]).v
               /\ killCount' = killCount + n
               /\ IF n > 0
                    THEN UNCHANGED exited
                    ELSE Goto("int", "wait", at["int"] + 1) /\ MarkExited(at["int"])
        BY <2>1 DEF ReadKills
      <3>2. n = 0 /\ Goto("int", "wait", at["int"] + 1) /\ MarkExited(at["int"])
        BY <1>2, <3>1, SizesAssumption
      <3>3. nodenames' = nodenames
        BY <2>1 DEF ReadKills
      <3>4. QED
        BY <3>1, <3>2, <3>3
    <2>2. CASE ReadName
      <3>1. killCount \in Nat /\ killCount' = killCount /\ 0 \in 0..MaxKills
        BY <2>2, SizesAssumption DEF ReadName, Base, TallyTypes
      <3>2. killCount' = killCount + 0
        BY <3>1
      <3>3. PICK got \in BOOLEAN : ReadRest("int", "name", got)
        BY <2>2 DEF ReadName
      <3>4. /\ MarkExited(at["int"]) /\ Goto("int", "wait", at["int"] + 1)
            /\ nodenames' = nodenames \cup {at["int"]}
        BY <2>2 DEF ReadName
      <3>5. QED
        BY <3>1, <3>2, <3>3, <3>4
    <2>3. QED
      BY <1>3, <2>1, <2>2
  <1>5. UNCHANGED <<clientCount, clientVars, logged>>
    BY <1>3 DEF ReadKills, ReadName
  <1>6. PICK c \in Clients : c = at["int"]
    BY <1>4, Rest DEF Frames, ReadPlaces
  <1>7. c \in Counted \ Marked /\ pc["int"] = p
    BY <1>4, <1>6, Rest DEF Frames, ReadPlaces, Array
  <1>8. Counted' = Marked \cup {c} /\ Marked \subseteq Clients
    <2>1. Marked \subseteq Clients
      BY SizesAssumption DEF Array, Base, TallyTypes, Counted, Clients
    <2>2. exited' = exited + 1
      BY <1>4 DEF MarkExited
    <2>3. QED
      BY <1>2, <1>4, <1>5, <1>6, <1>7, <2>1, <2>2, FullMarks
  <1> SUFFICES ASSUME Calm'
               PROVE  /\ killCount' = Total(report, Counted)'
                      /\ nodenames' = {d \in Counted' : report'[d] > 0}
                      /\ \A d \in Counted' : Settled(d)'
    BY DEF Result
  <1>9. /\ Calm /\ Behind(Head(c2s[at["int"]])) = "end"
        /\ p = "kills" => report[c] = 0
        /\ p = "name" => report[c] > 0
    <2>1. CASE p = "kills"
      <3>1. n \in Nat /\ n = 0
        BY <1>4, <2>1
      <3>2. QED
        BY <1>4, <1>5, <1>6, <2>1, <3>1, KillsRead
    <2>2. CASE p = "name"
      <3>1. Calm /\ Behind(Head(c2s[at["int"]])) = "end"
        BY <1>4, <1>5, <2>2, NameRead
      <3>2. QED
        BY <1>6, <1>7, <2>2, <3>1 DEF Added
    <2>3. QED
      BY <2>1, <2>2
  <1>10. report' = report /\ \A d \in Clients : report[d] \in Int
    BY <1>5 DEF clientVars, Base, ClientTypes
  <1>11. killCount = Total(report, InTotal) /\ nodenames = {d \in Marked : report[d] > 0}
    BY <1>9 DEF Added
  <1>12. Total(report, Counted)' = Total(report, Marked \cup {c})
    BY <1>8, <1>10 DEF Total, Units
  <1>13. Total(report, InTotal) = Total(report, Marked \cup {c})
    <2>1. CASE p = "name"
      <3>1. InTotal = Marked \cup {c}
        BY <1>6, <1>7, <2>1 DEF InTotal
      <3>2. QED
        BY <3>1
    <2>2. CASE p = "kills"
      <3>1. InTotal = Marked
        BY <1>7, <2>2 DEF InTotal
      <3>2. IsFiniteSet(Marked) /\ report[c] = 0 /\ report[c] \in Nat
        BY <1>9, <2>2 DEF Array
      <3>3. Total(report, Marked \cup {c}) = Total(report, Marked) + report[c]
        BY <1>7, <1>8, <1>10, <3>2, TotalAdds
      <3>4. Total(report, Marked) \in Nat
        BY <1>8, <1>10, <3>2, UnitsFinite
      <3>5. QED
        BY <3>1, <3>2, <3>3, <3>4
    <2>3. QED
      BY <2>1, <2>2
  <1>14. killCount' = killCount
    BY <1>4 DEF Base, TallyTypes
  <1>15. nodenames' = {d \in Counted' : report'[d] > 0}
    <2>1. CASE p = "name"
      BY <1>4, <1>6, <1>8, <1>9, <1>10, <1>11, <2>1
    <2>2. CASE p = "kills"
      <3>1. ~(report[c] > 0)
        BY <1>9, <2>2
      <3>2. QED
        BY <1>4, <1>8, <1>10, <1>11, <2>2, <3>1
    <2>3. QED
      BY <2>1, <2>2
  <1>16. ASSUME NEW d \in Counted' PROVE Settled(d)'
    <2>1. CASE d = c
      BY <1>4, <1>5, <1>6, <1>9, <2>1, SettledLast
    <2>2. CASE d # c
      <3>1. Settled(d)
        BY <1>8, <1>9, <2>2, SettledMarked
      <3>2. at'["main"] = at["main"]
        BY <1>4 DEF Goto, Base, FrameTypes, Frames
      <3>3. QED
        BY <1>5, <3>1, <3>2 DEF Settled, clientVars
    <2>3. QED
      BY <2>1, <2>2
  <1>17. QED
    BY <1>11, <1>12, <1>13, <1>14, <1>15, <1>16

LEMMA ResultSame ==
    ASSUME Result, at'["main"] = at["main"],
           UNCHANGED <<killCount, nodenames, clientCount, clientVars, logged, failedReads>>
    PROVE  Result'
  <1>1. UNCHANGED <<cl, half, outs, report, crashes>> /\ Counted' = Counted
    BY DEF clientVars, Counted
  <1>2. Total(report, Counted)' = Total(report, Counted)
    BY <1>1 DEF Total, Units
  <1>3. \A c : Settled(c)' <=> Settled(c)
    BY <1>1 DEF Settled
  <1>4. QED
    BY <1>1, <1>2, <1>3 DEF Result, Calm

\* The result stays: its clients have gone, and "main" never runs again.
LEMMA ResultStays ==
    ASSUME Full, Result, [Next]_vars
    PROVE  Result'
  <1>1. /\ pc["int"] \in {"wait", "final"} /\ Base /\ FrameTypes
        /\ Counted = Clients
    BY SizesAssumption DEF Full, Base, TallyTypes, Counted, Clients
  <1>2. Top # "main"
    BY <1>1, MainAlone
  <1>3. ASSUME NEW f \in {"main", "hup"},
               ReadFile(f) \/ SetCount(f) \/ SendHeader(f) \/ SendProcs(f) \/ SendCount(f)
        PROVE  Result'
    <2>1. UNCHANGED <<killCount, nodenames, clientCount, clientVars, logged, failedReads>>
      BY <1>3 DEF ReadFile, SetCount, SendHeader, SendProcs, SendCount, tallyVars
    <2>2. at'["main"] = at["main"]
      <3>1. f = "hup"
        BY <1>2, <1>3 DEF ReadFile, SetCount, SendHeader, SendProcs, SendCount, Running
      <3>2. UNCHANGED frameVars \/ \E q, k : Goto("hup", q, k)
        BY <1>3, <3>1 DEF ReadFile, SetCount, SendHeader, SendProcs, SendCount
      <3>3. QED
        BY <1>1, <3>2 DEF Goto, frameVars, FrameTypes, Frames
    <2>3. QED
      BY <2>1, <2>2, ResultSame
  <1>4. CASE Return \/ Sighup \/ Sigint
    <2>1. UNCHANGED <<killCount, nodenames, clientCount, clientVars, logged, failedReads>>
      BY <1>4 DEF Return, Sighup, Sigint, Deliver, tallyVars
    <2>2. at'["main"] = at["main"]
      BY <1>1, <1>4 DEF Return, Sighup, Sigint, Deliver, FrameTypes, Frames
    <2>3. QED
      BY <2>1, <2>2, ResultSame
  <1>5. CASE \/ Select \/ Accept \/ CountClient \/ ReadClient \/ ReadHeader("main")
             \/ ReadText("main")
    BY <1>2, <1>5 DEF Select, Accept, CountClient, ReadClient, ReadHeader, ReadText, ReadRest,
       Running
  <1>6. CASE SendExit \/ ReadHeader("int") \/ ReadText("int") \/ ReadKills \/ ReadName
    BY <1>1, <1>6 DEF SendExit, ReadHeader, ReadText, ReadKills, ReadName, ReadRest, Running
  <1>7. CASE WaitForClients
    <2>1. UNCHANGED <<killCount, nodenames, clientCount, clientVars, logged, failedReads>>
      BY <1>7 DEF WaitForClients, tallyVars
    <2>2. \E q, k : Goto("int", q, k)
      BY <1>7 DEF WaitForClients, Poll, Handle
    <2>3. at'["main"] = at["main"]
      BY <1>1, <2>2 DEF Goto, FrameTypes, Frames
    <2>4. QED
      BY <2>1, <2>3, ResultSame
  <1>8. CASE Final \/ UNCHANGED vars
    <2>1. /\ UNCHANGED <<killCount, nodenames, clientCount, clientVars, logged, failedReads>>
          /\ at'["main"] = at["main"]
      BY <1>8 DEF Final, vars, tallyVars, frameVars
    <2>2. QED
      BY <2>1, ResultSame
  <1>9. ASSUME NEW c \in Clients, ClientStep(c) \/ ClientChoice(c) PROVE Result'
    <2> SUFFICES ASSUME Calm' PROVE FALSE
      BY DEF Result
    <2>1. Calm
      <3>1. failedReads' = failedReads
        BY <1>9, ClientAside
      <3>2. crashes' = crashes \/ crashes' = crashes + 1
        BY <1>9 DEF ClientStep, ClientChoice, ClientHeader, ClientConfig, ClientText, ClientExit,
           Connect, ClientOutput, ClientKill, ClientDies
      <3>3. QED
        BY <1>1, <3>1, <3>2 DEF Calm, Base, ClientTypes
    <2>2. cl[c] = "gone"
      BY <1>1, <2>1 DEF Result, Settled
    <2>3. QED
      BY <1>9, <2>2 DEF ClientStep, ClientChoice, ClientHeader, ClientConfig, ClientText,
         ClientExit, Connect, ClientOutput, ClientKill, ClientDies, Closed
  <1>10. CASE ServerStep
    BY <1>3, <1>4, <1>5, <1>6, <1>7, <1>8, <1>10 DEF ServerStep
  <1>11. QED
    BY <1>4, <1>8, <1>9, <1>10 DEF Next, Finished

LEMMA ExactOrFull == Spec => [](Exact \/ (Full /\ Result))
  <1>1. Init => Exact
    BY InitExact
  <1>2. (Exact \/ (Full /\ Result)) /\ [Next]_vars => (Exact \/ (Full /\ Result))'
    <2>1. ASSUME Exact, [Next]_vars PROVE (Exact \/ (Full /\ Result))'
      BY <2>1, NextTally, NextExact, ResultComes DEF Exact
    <2>2. ASSUME Full, Result, [Next]_vars PROVE Full' /\ Result'
      BY <2>2, NextFull, ResultStays
    <2>3. QED
      BY <2>1, <2>2
  <1>3. QED
    BY <1>1, <1>2, PTL DEF Spec

\* When the server ends every counted client is settled.
LEMMA Ends ==
    ASSUME Exact \/ (Full /\ Result), server = "done", failedReads = {}, crashes = 0
    PROVE  /\ killCount = Total(report, Counted)
           /\ nodenames = {c \in Counted : report[c] > 0}
           /\ \A c \in Counted : Settled(c)
  <1>1. Calm
    BY DEF Calm
  <1>2. CASE Exact
    <2>1. pc["int"] = "final" /\ Marked = Counted
      BY <1>2, ArrayBound DEF Exact, Tally, Array
    <2>2. InTotal = Counted
      BY <2>1 DEF InTotal
    <2>3. QED
      BY <1>1, <1>2, <2>1, <2>2, SettledMarked DEF Exact, Added
  <1>3. CASE Full /\ Result
    BY <1>1, <1>3 DEF Result
  <1>4. QED
    BY <1>2, <1>3

-----------------------------------------------------------------------------
(* The theorems.                                                           *)

\* The total and the nodes of the final message are those of the confirmations,
\* in whatever order they came and whatever lines were still on their way: each
\* client is added when its count is read, once, and named when it has a kill, also
\* when the last of them no longer fits into exitedClients and that goes unnoticed.
THEOREM TallyCorrect == Spec => []TallyExact
  <1>1. Exact \/ (Full /\ Result) => TallyExact
    BY Ends DEF TallyExact
  <1>2. QED
    BY <1>1, ExactOrFull, PTL

\* Every line a counted client wrote is in the log when the server ends, but for
\* the one whose header had been read when SIGINT came: what a client writes before
\* its confirmation is read before it.
THEOREM LogCorrect == Spec => []LogLosesOne
  <1>1. Exact \/ (Full /\ Result) => LogLosesOne
    <2> SUFFICES ASSUME Exact \/ (Full /\ Result), server = "done", failedReads = {}, crashes = 0
                 PROVE  Total(outs, Counted) - Total(logged, Counted) <= 1
      BY DEF LogLosesOne
    <2>1. Base
      BY DEF Exact, Tally, Full
    <2>2. Counted \subseteq Clients /\ IsFiniteSet(Counted)
      BY <2>1, CountedFinite, SizesAssumption DEF Base, TallyTypes, Counted, Clients
    <2>3. ASSUME NEW c \in Counted
          PROVE  /\ outs[c] \in Nat /\ logged[c] \in Nat
                 /\ outs[c] <= logged[c] + (IF c = at["main"] THEN 1 ELSE 0)
      BY <2>1, <2>2, Ends DEF Base, ClientTypes, StreamTypes, Settled
    <2>4. QED
      BY <2>2, <2>3, TotalsClose
  <1>2. QED
    BY <1>1, ExactOrFull, PTL
=============================================================================
