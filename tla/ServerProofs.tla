----------------------------- MODULE ServerProofs -----------------------------
(***************************************************************************)
(* Theorems about the server, for any number of clients, signals, lines    *)
(* and kills.  Base says where every frame of the server is and which      *)
(* client it deals with; on it rest two invariants, one about the clients  *)
(* that have confirmed (Tally) and one about the framing of the            *)
(* connections (Synced).                                                   *)
(***************************************************************************)
EXTENDS Server, FiniteSetTheorems, SequenceTheorems, TLAPS

-----------------------------------------------------------------------------
(* Types, and the client every frame deals with.                           *)

\* A handler is blocked while it runs, and "int" never returns.
Stacks == {<<"main">>, <<"main", "hup">>, <<"main", "int">>,
           <<"main", "hup", "int">>, <<"main", "int", "hup">>}

Places == {"off", "readFile", "setCount", "send", "sendProcs", "sendCount", "select",
           "accept", "accepted", "client", "header", "text", "exit", "wait", "kills",
           "name", "final"}
ReadPlaces == {"header", "text", "kills", "name"}
Fates == {"up", "done", "quit", "killed", "overrun"}

FrameTypes ==
    /\ server \in {"up", "done", "quit", "killed", "overrun"} /\ stack \in Stacks
    /\ pc \in [Frames -> Places] /\ at \in [Frames -> Nat] /\ eintr \in BOOLEAN
    /\ hups \in Nat /\ failedReads \subseteq ReadPlaces
    /\ file \in Nat /\ procsVer \in Nat /\ countVer \in Nat

TallyTypes ==
    /\ clientCount \in 0..NClients /\ killCount \in Nat /\ exited \in Nat
    /\ nodenames \subseteq Clients
    /\ exitedClients \in [0..(MaxClients - 1) -> {0} \cup Clients]

StreamTypes ==
    /\ logged \in [Clients -> Nat]
    /\ s2c \in [Clients -> Seq(Messages)] /\ c2s \in [Clients -> Seq(Messages)]

ClientTypes ==
    /\ cl \in [Clients -> {"new", "waitConfig", "procs", "count", "run", "exiting",
                           "sendKills", "sendName", "gone", "killed"}]
    /\ half \in [Clients -> BOOLEAN]
    /\ cfg \in [Clients -> [procs : Nat, count : Nat]]
    /\ kills \in [Clients -> Nat] /\ report \in [Clients -> Nat \cup {-1}]
    /\ outs \in [Clients -> Nat] /\ crashes \in Nat

\* A client has confirmed from the moment on at which it starts to say so.
Confirmed ==
    \A c \in Clients :
        /\ cl[c] \in {"sendKills", "sendName", "gone"} => report[c] \in Nat
        /\ cl[c] \notin {"sendKills", "sendName", "gone", "killed"} => report[c] = -1

\* The client at place p of a frame f that deals with client k: the accept window
\* is about the client behind the counted ones, everything else about a counted
\* one.
Deals(f, p, k) ==
    /\ f = "main" /\ p \in {"send", "sendProcs", "sendCount", "accepted"} =>
          k = clientCount + 1 /\ k <= NClients
    /\ f = "hup" /\ p = "send" => k > 0
    /\ f = "hup" /\ p \in {"sendProcs", "sendCount"} => k \in Counted
    /\ p \in {"client", "exit", "wait"} => k > 0
    /\ p \in {"header", "text", "kills", "name"} => k \in Counted

Dealing == \A f \in Frames : Deals(f, pc[f], at[f])

Handlers ==
    /\ pc["hup"] = "off" <=> stack \notin {<<"main", "hup">>, <<"main", "hup", "int">>,
                                           <<"main", "int", "hup">>}
    /\ pc["int"] = "off" <=> stack \notin {<<"main", "int">>, <<"main", "hup", "int">>,
                                           <<"main", "int", "hup">>}

Base == /\ FrameTypes /\ TallyTypes /\ StreamTypes /\ ClientTypes
        /\ Confirmed /\ Dealing /\ Handlers

\* Short sequences.
LEMMA Push1 ==
    ASSUME NEW S, NEW a \in S, NEW b \in S
    PROVE  /\ Append(<<a>>, b) = <<a, b>>
           /\ SubSeq(<<a, b>>, 1, 1) = <<a>>
  <1>1. <<a>> \in Seq(S) /\ Len(<<a>>) = 1 /\ <<a>>[1] = a
    OBVIOUS
  <1>2. /\ <<a, b>> \in Seq(S) /\ Len(<<a, b>>) = 2
        /\ <<a, b>>[1] = a /\ <<a, b>>[2] = b
    OBVIOUS
  <1>3. /\ Append(<<a>>, b) \in Seq(S) /\ Len(Append(<<a>>, b)) = 2
        /\ Append(<<a>>, b)[1] = a /\ Append(<<a>>, b)[2] = b
    BY <1>1, AppendProperties
  <1>4. /\ SubSeq(<<a, b>>, 1, 1) \in Seq(S) /\ Len(SubSeq(<<a, b>>, 1, 1)) = 1
        /\ SubSeq(<<a, b>>, 1, 1)[1] = a
    BY <1>2, SubSeqProperties
  <1>5. Append(<<a>>, b) = <<a, b>>
    <2>1. \A i \in 1..2 : Append(<<a>>, b)[i] = <<a, b>>[i]
      BY <1>2, <1>3
    <2>2. QED
      BY <1>2, <1>3, <2>1, SeqEqual
  <1>6. SubSeq(<<a, b>>, 1, 1) = <<a>>
    <2>1. \A i \in 1..1 : SubSeq(<<a, b>>, 1, 1)[i] = <<a>>[i]
      BY <1>1, <1>4
    <2>2. QED
      BY <1>1, <1>4, <2>1, SeqEqual
  <1>7. QED
    BY <1>5, <1>6

LEMMA Push2 ==
    ASSUME NEW S, NEW a \in S, NEW b \in S, NEW c \in S
    PROVE  /\ Append(<<a, b>>, c) = <<a, b, c>>
           /\ SubSeq(<<a, b, c>>, 1, 2) = <<a, b>>
  <1>1. /\ <<a, b>> \in Seq(S) /\ Len(<<a, b>>) = 2
        /\ <<a, b>>[1] = a /\ <<a, b>>[2] = b
    OBVIOUS
  <1>2. /\ <<a, b, c>> \in Seq(S) /\ Len(<<a, b, c>>) = 3
        /\ <<a, b, c>>[1] = a /\ <<a, b, c>>[2] = b /\ <<a, b, c>>[3] = c
    OBVIOUS
  <1>3. /\ Append(<<a, b>>, c) \in Seq(S) /\ Len(Append(<<a, b>>, c)) = 3
        /\ Append(<<a, b>>, c)[1] = a /\ Append(<<a, b>>, c)[2] = b
        /\ Append(<<a, b>>, c)[3] = c
    BY <1>1, AppendProperties
  <1>4. /\ SubSeq(<<a, b, c>>, 1, 2) \in Seq(S) /\ Len(SubSeq(<<a, b, c>>, 1, 2)) = 2
        /\ SubSeq(<<a, b, c>>, 1, 2)[1] = a /\ SubSeq(<<a, b, c>>, 1, 2)[2] = b
    <2>1. \A i \in 1..2 : <<a, b, c>>[i] \in S
      BY <1>2
    <2>2. QED
      BY <1>2, <2>1, SubSeqProperties
  <1>5. Append(<<a, b>>, c) = <<a, b, c>>
    <2>1. \A i \in 1..3 : Append(<<a, b>>, c)[i] = <<a, b, c>>[i]
      BY <1>2, <1>3
    <2>2. QED
      BY <1>2, <1>3, <2>1, SeqEqual
  <1>6. SubSeq(<<a, b, c>>, 1, 2) = <<a, b>>
    <2>1. \A i \in 1..2 : SubSeq(<<a, b, c>>, 1, 2)[i] = <<a, b>>[i]
      BY <1>1, <1>4
    <2>2. QED
      BY <1>1, <1>4, <2>1, SeqEqual
  <1>7. QED
    BY <1>5, <1>6

LEMMA TopFacts ==
    ASSUME stack \in Stacks
    PROVE  /\ stack = <<"main">> => Top = "main" /\ Active = {"main"}
           /\ stack = <<"main", "hup">> => Top = "hup" /\ Active = {"main", "hup"}
           /\ stack = <<"main", "int">> => Top = "int" /\ Active = {"main", "int"}
           /\ stack = <<"main", "hup", "int">> => Top = "int" /\ Active = Frames
           /\ stack = <<"main", "int", "hup">> => Top = "hup" /\ Active = Frames
  <1>1. /\ stack = <<"main">> => Len(stack) = 1 /\ stack[1] = "main"
        /\ stack = <<"main", "hup">> => Len(stack) = 2 /\ stack[1] = "main" /\ stack[2] = "hup"
        /\ stack = <<"main", "int">> => Len(stack) = 2 /\ stack[1] = "main" /\ stack[2] = "int"
        /\ stack = <<"main", "hup", "int">> =>
              Len(stack) = 3 /\ stack[1] = "main" /\ stack[2] = "hup" /\ stack[3] = "int"
        /\ stack = <<"main", "int", "hup">> =>
              Len(stack) = 3 /\ stack[1] = "main" /\ stack[2] = "int" /\ stack[3] = "hup"
    OBVIOUS
  <1>2. /\ Len(stack) = 1 => 1..Len(stack) = {1}
        /\ Len(stack) = 2 => 1..Len(stack) = {1, 2}
        /\ Len(stack) = 3 => 1..Len(stack) = {1, 2, 3}
    <2>1. 1..1 = {1} /\ 1..2 = {1, 2} /\ 1..3 = {1, 2, 3}
      OBVIOUS
    <2>2. QED
      BY <2>1
  <1>3. CASE stack = <<"main">>
    BY <1>1, <1>2, <1>3 DEF Top, Active
  <1>4. CASE stack = <<"main", "hup">>
    BY <1>1, <1>2, <1>4 DEF Top, Active
  <1>5. CASE stack = <<"main", "int">>
    BY <1>1, <1>2, <1>5 DEF Top, Active
  <1>6. CASE stack = <<"main", "hup", "int">>
    BY <1>1, <1>2, <1>6 DEF Top, Active, Frames
  <1>7. CASE stack = <<"main", "int", "hup">>
    BY <1>1, <1>2, <1>7 DEF Top, Active, Frames
  <1>8. QED
    BY <1>3, <1>4, <1>5, <1>6, <1>7 DEF Stacks

\* What Deliver does to the stack.
LEMMA Pushed ==
    ASSUME stack \in Stacks, NEW s \in {"hup", "int"}, s \notin Active,
           stack' = Append(stack, s)
    PROVE  /\ s = "hup" /\ stack = <<"main">> => stack' = <<"main", "hup">>
           /\ s = "hup" /\ stack = <<"main", "int">> => stack' = <<"main", "int", "hup">>
           /\ s = "int" /\ stack = <<"main">> => stack' = <<"main", "int">>
           /\ s = "int" /\ stack = <<"main", "hup">> => stack' = <<"main", "hup", "int">>
           /\ s = "hup" => stack \in {<<"main">>, <<"main", "int">>}
           /\ s = "int" => stack \in {<<"main">>, <<"main", "hup">>}
  <1>1. /\ Append(<<"main">>, "hup") = <<"main", "hup">>
        /\ Append(<<"main">>, "int") = <<"main", "int">>
        /\ Append(<<"main", "hup">>, "int") = <<"main", "hup", "int">>
        /\ Append(<<"main", "int">>, "hup") = <<"main", "int", "hup">>
    <2>1. "main" \in Frames /\ "hup" \in Frames /\ "int" \in Frames
      BY DEF Frames
    <2>2. /\ Append(<<"main">>, "hup") = <<"main", "hup">>
          /\ Append(<<"main">>, "int") = <<"main", "int">>
      BY <2>1, Push1
    <2>3. Append(<<"main", "hup">>, "int") = <<"main", "hup", "int">>
      BY <2>1, Push2
    <2>4. Append(<<"main", "int">>, "hup") = <<"main", "int", "hup">>
      BY <2>1, Push2
    <2>5. QED
      BY <2>2, <2>3, <2>4
  <1>2. /\ s = "hup" => stack \in {<<"main">>, <<"main", "int">>}
        /\ s = "int" => stack \in {<<"main">>, <<"main", "hup">>}
    BY TopFacts DEF Stacks, Frames
  <1>3. QED
    BY <1>1, <1>2

\* And Return.
LEMMA Popped ==
    ASSUME stack \in Stacks, Top = "hup", stack' = SubSeq(stack, 1, Len(stack) - 1)
    PROVE  \/ stack = <<"main", "hup">> /\ stack' = <<"main">>
           \/ stack = <<"main", "int", "hup">> /\ stack' = <<"main", "int">>
  <1>1. stack \in {<<"main", "hup">>, <<"main", "int", "hup">>}
    BY TopFacts DEF Stacks
  <1>2. CASE stack = <<"main", "hup">>
    <2>1. Len(stack) - 1 = 1 /\ "main" \in Frames /\ "hup" \in Frames
      BY <1>2 DEF Frames
    <2>2. SubSeq(<<"main", "hup">>, 1, 1) = <<"main">>
      BY <2>1, Push1
    <2>3. QED
      BY <1>2, <2>1, <2>2
  <1>3. CASE stack = <<"main", "int", "hup">>
    <2>1. /\ Len(stack) - 1 = 2
          /\ "main" \in Frames /\ "hup" \in Frames /\ "int" \in Frames
      BY <1>3 DEF Frames
    <2>2. SubSeq(<<"main", "int", "hup">>, 1, 2) = <<"main", "int">>
      BY <2>1, Push2
    <2>3. QED
      BY <1>3, <2>1, <2>2
  <1>4. QED
    BY <1>1, <1>2, <1>3

-----------------------------------------------------------------------------
(* Base is kept by every action.                                           *)

LEMMA InitBase == Init => Base
  <1> SUFFICES ASSUME Init PROVE Base
    OBVIOUS
  <1>1. FrameTypes
    BY DEF Init, FrameTypes, Stacks, Places, Frames
  <1>2. TallyTypes /\ StreamTypes
    BY SizesAssumption DEF Init, TallyTypes, StreamTypes
  <1>3. ClientTypes /\ Confirmed
    BY DEF Init, ClientTypes, Confirmed
  <1>4. Dealing /\ Handlers
    BY TopFacts DEF Init, Dealing, Deals, Handlers, Frames
  <1>5. QED
    BY <1>1, <1>2, <1>3, <1>4 DEF Base

\* A running frame is the last one of the stack.
LEMMA RunningActive ==
    ASSUME FrameTypes, Handlers, NEW f \in Frames, Top = f
    PROVE  f \in Active /\ (f # "main" => pc[f] # "off")
  <1>1. stack \in Stacks
    BY DEF FrameTypes
  <1>2. f = "hup" => stack \in {<<"main", "hup">>, <<"main", "int", "hup">>}
    BY <1>1, TopFacts DEF Stacks
  <1>3. f = "int" => stack \in {<<"main", "int">>, <<"main", "hup", "int">>}
    BY <1>1, TopFacts DEF Stacks
  <1>4. f \in Active
    BY <1>1, TopFacts DEF Stacks, Frames
  <1>5. f = "hup" => pc["hup"] # "off"
    BY <1>2, Zenon DEF Handlers
  <1>6. f = "int" => pc["int"] # "off"
    BY <1>3, Zenon DEF Handlers
  <1>7. QED
    BY <1>4, <1>5, <1>6 DEF Frames

\* The frame that runs goes to another of its places.
LEMMA GotoBase ==
    ASSUME FrameTypes, Dealing, Handlers, NEW f \in Frames, Top = f,
           NEW p \in Places \ {"off"}, NEW k \in Nat, Goto(f, p, k), Deals(f, p, k),
           clientCount' = clientCount,
           server' \in Fates, eintr' \in BOOLEAN,
           failedReads' \subseteq ReadPlaces, file' \in Nat, procsVer' \in Nat, countVer' \in Nat
    PROVE  FrameTypes' /\ Dealing' /\ Handlers'
  <1>1. /\ pc' \in [Frames -> Places] /\ at' \in [Frames -> Nat] /\ stack' = stack
        /\ hups' = hups /\ pc'[f] = p /\ at'[f] = k
        /\ \A g \in Frames \ {f} : pc'[g] = pc[g] /\ at'[g] = at[g]
    BY DEF FrameTypes, Goto
  <1>2. FrameTypes'
    BY <1>1 DEF FrameTypes, Fates
  <1>3. Dealing'
    <2> SUFFICES ASSUME NEW g \in Frames PROVE Deals(g, pc[g], at[g])'
      BY DEF Dealing
    <2>1. CASE g = f
      BY <1>1, <2>1 DEF Deals, Counted
    <2>2. CASE g # f
      BY <1>1, <2>2 DEF Dealing, Deals, Counted
    <2>3. QED
      BY <2>1, <2>2
  <1>4. Handlers'
    <2>1. f # "main" => pc[f] # "off"
      BY RunningActive
    <2>2. QED
      BY <1>1, <2>1 DEF Handlers, Frames
  <1>5. QED
    BY <1>2, <1>3, <1>4

\* Two of the streams.
LEMMA Written ==
    ASSUME StreamTypes, server = "up", NEW c \in Clients, NEW m \in Messages, Write(c, m)
    PROVE  /\ server' \in {"up", "killed"} /\ s2c' \in [Clients -> Seq(Messages)]
           /\ \A d \in Clients \ {c} : s2c'[d] = s2c[d]
           /\ s2c'[c] \in {s2c[c], Append(s2c[c], m)}
  <1>1. CASE Closed(c)
    BY <1>1 DEF Write, StreamTypes
  <1>2. CASE ~Closed(c)
    <2>1. s2c' = [s2c EXCEPT ![c] = Append(s2c[c], m)] /\ server' = server
      BY <1>2 DEF Write
    <2>2. Append(s2c[c], m) \in Seq(Messages)
      BY AppendProperties DEF StreamTypes
    <2>3. QED
      BY <2>1, <2>2 DEF StreamTypes
  <1>3. QED
    BY <1>1, <1>2

LEMMA Taken ==
    ASSUME StreamTypes, NEW c \in Clients, Take(c)
    PROVE  /\ c2s' \in [Clients -> Seq(Messages)]
           /\ \A d \in Clients \ {c} : c2s'[d] = c2s[d]
           /\ c2s[c] = <<>> => c2s'[c] = <<>>
           /\ c2s[c] # <<>> => c2s'[c] = Tail(c2s[c]) /\ Head(c2s[c]) \in Messages
  <1>1. c2s' = [c2s EXCEPT ![c] = IF c2s[c] = <<>> THEN c2s[c] ELSE Tail(c2s[c])]
    BY DEF Take
  <1>2. c2s[c] \in Seq(Messages)
    BY DEF StreamTypes
  <1>3. c2s[c] # <<>> => Tail(c2s[c]) \in Seq(Messages) /\ Head(c2s[c]) \in Messages
    BY <1>2, HeadTailProperties
  <1>4. QED
    BY <1>1, <1>2, <1>3 DEF StreamTypes

LEMMA Swallowed ==
    ASSUME StreamTypes, NEW c \in Clients, s2c[c] # <<>>, Swallow(c)
    PROVE  /\ s2c' \in [Clients -> Seq(Messages)]
           /\ \A d \in Clients \ {c} : s2c'[d] = s2c[d]
           /\ s2c'[c] = Tail(s2c[c]) /\ Head(s2c[c]) \in Messages
  <1>1. s2c' = [s2c EXCEPT ![c] = Tail(s2c[c])]
    BY DEF Swallow
  <1>2. s2c[c] \in Seq(Messages)
    BY DEF StreamTypes
  <1>3. Tail(s2c[c]) \in Seq(Messages) /\ Head(s2c[c]) \in Messages
    BY <1>2, HeadTailProperties
  <1>4. QED
    BY <1>1, <1>2, <1>3 DEF StreamTypes

LEMMA Said ==
    ASSUME StreamTypes, NEW c \in Clients, NEW m \in Messages, Say(c, m)
    PROVE  /\ c2s' \in [Clients -> Seq(Messages)]
           /\ \A d \in Clients \ {c} : c2s'[d] = c2s[d]
           /\ c2s'[c] = Append(c2s[c], m)
  <1>1. c2s' = [c2s EXCEPT ![c] = Append(c2s[c], m)]
    BY DEF Say
  <1>2. Append(c2s[c], m) \in Seq(Messages)
    BY AppendProperties DEF StreamTypes
  <1>3. QED
    BY <1>1, <1>2 DEF StreamTypes

LEMMA SighupBase == ASSUME Base, Sighup PROVE Base'
  <1> USE DEF Base
  <1>1. /\ stack' = Append(stack, "hup") /\ "hup" \notin Active
        /\ pc' = [pc EXCEPT !["hup"] = "readFile"] /\ at' = [at EXCEPT !["hup"] = 0]
        /\ UNCHANGED <<server, failedReads, procsVer, countVer, clientCount, killCount,
                       nodenames, exited, exitedClients, logged, s2c, c2s, clientVars>>
    BY DEF Sighup, Deliver, tallyVars
  <1>2. \/ stack = <<"main">> /\ stack' = <<"main", "hup">>
        \/ stack = <<"main", "int">> /\ stack' = <<"main", "int", "hup">>
    BY <1>1, Pushed DEF FrameTypes
  <1>3. hups' \in Nat /\ file' \in Nat /\ eintr' \in BOOLEAN
    <2>1. Waiting(Top) \in BOOLEAN
      BY DEF Waiting
    <2>2. eintr' \in {FALSE, Waiting(Top)}
      BY DEF Sighup
    <2>3. hups' \in Nat /\ file' \in Nat
      BY DEF Sighup, FrameTypes
    <2>4. eintr' \in BOOLEAN
      BY <2>1, <2>2
    <2>5. QED
      BY <2>3, <2>4
  <1>4. FrameTypes'
    BY <1>1, <1>2, <1>3 DEF FrameTypes, Stacks, Frames, Places
  <1>5. TallyTypes' /\ StreamTypes'
    BY <1>1 DEF TallyTypes, StreamTypes
  <1>6. ClientTypes' /\ Confirmed'
    BY <1>1 DEF ClientTypes, Confirmed, clientVars
  <1>7. /\ pc'["hup"] = "readFile"
        /\ \A g \in {"main", "int"} : pc'[g] = pc[g] /\ at'[g] = at[g]
    BY <1>1 DEF FrameTypes, Frames
  <1>8. Dealing'
    BY <1>1, <1>7 DEF Dealing, Deals, Counted, Frames
  <1>9. Handlers'
    BY <1>2, <1>7, TopFacts DEF Handlers, Stacks
  <1>10. QED
    BY <1>4, <1>5, <1>6, <1>8, <1>9

LEMMA SigintBase == ASSUME Base, Sigint PROVE Base'
  <1> USE DEF Base
  <1>1. /\ stack' = Append(stack, "int") /\ "int" \notin Active
        /\ pc' = [pc EXCEPT !["int"] = "exit"] /\ at' = [at EXCEPT !["int"] = 1]
        /\ eintr' = FALSE /\ UNCHANGED <<hups, file>>
        /\ UNCHANGED <<server, failedReads, procsVer, countVer, clientCount, killCount,
                       nodenames, exited, exitedClients, logged, s2c, c2s, clientVars>>
    BY DEF Sigint, Deliver, tallyVars
  <1>2. \/ stack = <<"main">> /\ stack' = <<"main", "int">>
        \/ stack = <<"main", "hup">> /\ stack' = <<"main", "hup", "int">>
    BY <1>1, Pushed DEF FrameTypes
  <1>4. FrameTypes'
    BY <1>1, <1>2 DEF FrameTypes, Stacks, Frames, Places
  <1>5. TallyTypes' /\ StreamTypes'
    BY <1>1 DEF TallyTypes, StreamTypes
  <1>6. ClientTypes' /\ Confirmed'
    BY <1>1 DEF ClientTypes, Confirmed, clientVars
  <1>7. /\ pc'["int"] = "exit" /\ at'["int"] = 1
        /\ \A g \in {"main", "hup"} : pc'[g] = pc[g] /\ at'[g] = at[g]
    BY <1>1 DEF FrameTypes, Frames
  <1>8. Dealing'
    BY <1>1, <1>7 DEF Dealing, Deals, Counted, Frames
  <1>9. Handlers'
    BY <1>2, <1>7, TopFacts DEF Handlers, Stacks
  <1>10. QED
    BY <1>4, <1>5, <1>6, <1>8, <1>9

LEMMA ReturnBase == ASSUME Base, Return PROVE Base'
  <1> USE DEF Base
  <1>1. /\ stack' = SubSeq(stack, 1, Len(stack) - 1) /\ Top = "hup"
        /\ pc' = [pc EXCEPT !["hup"] = "off"] /\ at' = [at EXCEPT !["hup"] = 0]
        /\ UNCHANGED <<server, hups, eintr, failedReads, file, procsVer, countVer, clientCount,
                       killCount, nodenames, exited, exitedClients, logged, s2c, c2s,
                       clientVars>>
    BY DEF Return, Running, tallyVars, fileVars
  <1>2. \/ stack = <<"main", "hup">> /\ stack' = <<"main">>
        \/ stack = <<"main", "int", "hup">> /\ stack' = <<"main", "int">>
    BY <1>1, Popped DEF FrameTypes
  <1>4. FrameTypes'
    BY <1>1, <1>2 DEF FrameTypes, Stacks, Frames, Places
  <1>5. TallyTypes' /\ StreamTypes'
    BY <1>1 DEF TallyTypes, StreamTypes
  <1>6. ClientTypes' /\ Confirmed'
    BY <1>1 DEF ClientTypes, Confirmed, clientVars
  <1>7. /\ pc'["hup"] = "off"
        /\ \A g \in {"main", "int"} : pc'[g] = pc[g] /\ at'[g] = at[g]
    BY <1>1 DEF FrameTypes, Frames
  <1>8. Dealing'
    BY <1>1, <1>7 DEF Dealing, Deals, Counted, Frames
  <1>9. Handlers'
    BY <1>2, <1>7, TopFacts DEF Handlers, Stacks
  <1>10. QED
    BY <1>4, <1>5, <1>6, <1>8, <1>9

\* What most actions leave alone.
LEMMA SameTally ==
    ASSUME TallyTypes, UNCHANGED <<clientCount, tallyVars>> PROVE TallyTypes'
  BY DEF TallyTypes, tallyVars

LEMMA SameClients ==
    ASSUME ClientTypes, Confirmed, UNCHANGED clientVars PROVE ClientTypes' /\ Confirmed'
  BY DEF ClientTypes, Confirmed, clientVars

LEMMA SameFrames ==
    ASSUME FrameTypes, Dealing, Handlers,
           UNCHANGED <<frameVars, failedReads, fileVars, clientCount>>,
           server' \in {"up", "done", "quit", "killed", "overrun"}
    PROVE  FrameTypes' /\ Dealing' /\ Handlers'
  <1>1. UNCHANGED <<stack, pc, at, eintr, hups, failedReads, file, procsVer, countVer, clientCount>>
    BY DEF frameVars, fileVars
  <1>2. FrameTypes'
    BY <1>1 DEF FrameTypes
  <1>3. Dealing'
    BY <1>1 DEF Dealing, Deals, Counted
  <1>4. Handlers'
    BY <1>1 DEF Handlers
  <1>5. QED
    BY <1>2, <1>3, <1>4

LEMMA MsgType ==
    ASSUME NEW t \in MsgTypes, NEW v \in Nat
    PROVE  Msg(t, v) \in Messages /\ Header(t) \in Messages
  BY DEF Msg, Header, Messages

LEMMA ReadFileBase == ASSUME Base, NEW f \in {"main", "hup"}, ReadFile(f) PROVE Base'
  <1> USE DEF Base
  <1>1. /\ f \in Frames /\ Top = f /\ server = "up"
        /\ UNCHANGED <<file, countVer, failedReads, clientCount, tallyVars, logged, s2c, c2s,
                       clientVars>>
    BY DEF ReadFile, Running, Frames
  <1>2. TallyTypes' /\ StreamTypes' /\ ClientTypes' /\ Confirmed'
    BY <1>1, SameTally, SameClients DEF StreamTypes
  <1>3. CASE file = 0
    <2>1. server' = "quit" /\ UNCHANGED <<frameVars, procsVer>>
      BY <1>3 DEF ReadFile
    <2>2. QED
      BY <1>1, <1>2, <2>1, SameFrames DEF fileVars
  <1>4. CASE file # 0
    <2>1. procsVer' = file /\ Goto(f, "setCount", file) /\ UNCHANGED <<server, eintr>>
      BY <1>4 DEF ReadFile
    <2>2. Deals(f, "setCount", file)
      BY DEF Deals
    <2>3. FrameTypes' /\ Dealing' /\ Handlers'
      BY <1>1, <2>1, <2>2, GotoBase DEF FrameTypes, Places, Fates
    <2>4. QED
      BY <1>2, <2>3
  <1>5. QED
    BY <1>3, <1>4

LEMMA SetCountBase == ASSUME Base, NEW f \in {"main", "hup"}, SetCount(f) PROVE Base'
  <1> USE DEF Base
  <1>1. /\ f \in Frames /\ Top = f /\ countVer' = at[f]
        /\ UNCHANGED <<server, eintr, file, procsVer, failedReads, clientCount, tallyVars,
                       logged, s2c, c2s, clientVars>>
    BY DEF SetCount, Running, Frames
  <1>2. TallyTypes' /\ StreamTypes' /\ ClientTypes' /\ Confirmed'
    BY <1>1, SameTally, SameClients DEF StreamTypes
  <1>3. PICK p \in {"select", "send"}, k \in {0, 1} : Goto(f, p, k) /\ Deals(f, p, k)
    <2>1. CASE f = "main"
      BY <2>1 DEF SetCount, Deals
    <2>2. CASE f = "hup"
      BY <2>2 DEF SetCount, Deals
    <2>3. QED
      BY <2>1, <2>2
  <1>4. FrameTypes' /\ Dealing' /\ Handlers'
    <2>1. p \in Places \ {"off"} /\ k \in Nat /\ at[f] \in Nat
      BY <1>1 DEF Places, FrameTypes
    <2>2. QED
      BY <1>1, <1>3, <2>1, GotoBase DEF FrameTypes, Fates
  <1>5. QED
    BY <1>2, <1>4

\* A frame that sends: the client it sends to, and where it goes from there.
LEMMA SendBase ==
    ASSUME Base, server = "up", NEW f \in Frames, Top = f, NEW c \in Clients, NEW m \in Messages,
           Write(c, m), NEW p \in Places \ {"off"}, NEW k \in Nat, Goto(f, p, k), Deals(f, p, k),
           UNCHANGED <<eintr, failedReads, fileVars, clientCount, tallyVars, logged, c2s,
                       clientVars>>
    PROVE  Base'
  <1> USE DEF Base
  <1>1. server' \in {"up", "killed"} /\ s2c' \in [Clients -> Seq(Messages)]
    BY Written
  <1>2. TallyTypes' /\ ClientTypes' /\ Confirmed'
    BY SameTally, SameClients
  <1>3. StreamTypes'
    BY <1>1 DEF StreamTypes
  <1>4. FrameTypes' /\ Dealing' /\ Handlers'
    <2>1. UNCHANGED <<file, procsVer, countVer>>
      BY DEF fileVars
    <2>2. QED
      BY <1>1, <2>1, GotoBase DEF FrameTypes, Fates
  <1>5. QED
    BY <1>2, <1>3, <1>4

LEMMA SendHeaderBase == ASSUME Base, NEW f \in {"main", "hup"}, SendHeader(f) PROVE Base'
  <1>1. /\ f \in Frames /\ Top = f /\ server = "up" /\ at[f] \in Nat /\ clientCount \in 0..NClients
        /\ Deals(f, "send", at[f]) /\ Deals(f, "sendProcs", at[f])
    BY DEF SendHeader, Running, Frames, Base, FrameTypes, TallyTypes, Dealing, Deals, Counted
  <1>2. at[f] \in Clients
    BY <1>1, SizesAssumption DEF SendHeader, Deals, Clients
  <1>3. Header("config") \in Messages /\ "sendProcs" \in Places \ {"off"}
    BY MsgType DEF MsgTypes, Places
  <1>4. QED
    BY <1>1, <1>2, <1>3, SendBase DEF SendHeader

LEMMA SendProcsBase == ASSUME Base, NEW f \in {"main", "hup"}, SendProcs(f) PROVE Base'
  <1>1. /\ f \in Frames /\ Top = f /\ server = "up" /\ at[f] \in Nat /\ clientCount \in 0..NClients
        /\ Deals(f, "sendProcs", at[f]) /\ Deals(f, "sendCount", at[f]) /\ procsVer \in Nat
    BY DEF SendProcs, Running, Frames, Base, FrameTypes, TallyTypes, Dealing, Deals
  <1>2. at[f] \in Clients
    BY <1>1, SizesAssumption DEF Deals, Clients, Counted
  <1>3. Msg("procs", procsVer) \in Messages /\ "sendCount" \in Places \ {"off"}
    BY <1>1, MsgType DEF MsgTypes, Places
  <1>4. QED
    BY <1>1, <1>2, <1>3, SendBase DEF SendProcs

LEMMA SendCountBase == ASSUME Base, NEW f \in {"main", "hup"}, SendCount(f) PROVE Base'
  <1>1. /\ f \in Frames /\ Top = f /\ server = "up" /\ at[f] \in Nat /\ clientCount \in 0..NClients
        /\ Deals(f, "sendCount", at[f]) /\ countVer \in Nat
    BY DEF SendCount, Running, Frames, Base, FrameTypes, TallyTypes, Dealing
  <1>2. at[f] \in Clients /\ at[f] > 0
    BY <1>1, SizesAssumption DEF Deals, Clients, Counted
  <1>3. Msg("count", countVer) \in Messages /\ {"accepted", "send"} \subseteq Places \ {"off"}
    BY <1>1, MsgType DEF MsgTypes, Places
  <1>4. CASE f = "main"
    <2>1. Deals(f, "accepted", at[f]) /\ Goto(f, "accepted", at[f])
      BY <1>1, <1>4 DEF Deals, SendCount
    <2>2. QED
      BY <1>1, <1>2, <1>3, <2>1, SendBase DEF SendCount
  <1>5. CASE f = "hup"
    <2>1. Deals(f, "send", at[f] + 1) /\ Goto(f, "send", at[f] + 1) /\ at[f] + 1 \in Nat
      BY <1>1, <1>5 DEF Deals, SendCount
    <2>2. QED
      BY <1>1, <1>2, <1>3, <2>1, SendBase DEF SendCount
  <1>6. QED
    BY <1>4, <1>5

LEMMA SendExitBase == ASSUME Base, SendExit PROVE Base'
  <1>1. /\ "int" \in Frames /\ Top = "int" /\ server = "up" /\ at["int"] \in Nat
        /\ clientCount \in 0..NClients /\ Deals("int", "exit", at["int"])
        /\ UNCHANGED <<eintr, failedReads, fileVars, clientCount, tallyVars, logged, c2s,
                       clientVars>>
    BY DEF SendExit, Running, Frames, Base, FrameTypes, TallyTypes, Dealing
  <1>2. {"exit", "wait"} \subseteq Places \ {"off"}
    BY DEF Places
  <1>3. CASE at["int"] <= clientCount
    <2>1. Write(at["int"], Header("exit")) /\ Goto("int", "exit", at["int"] + 1)
      BY <1>3 DEF SendExit
    <2>2. at["int"] \in Clients /\ Header("exit") \in Messages
      BY <1>1, <1>3, MsgType, SizesAssumption DEF Deals, Clients, MsgTypes
    <2>3. Deals("int", "exit", at["int"] + 1) /\ at["int"] + 1 \in Nat
      BY <1>1 DEF Deals
    <2>4. QED
      BY <1>1, <1>2, <2>1, <2>2, <2>3, SendBase
  <1>4. CASE ~(at["int"] <= clientCount)
    <2>1. Goto("int", "wait", 1) /\ UNCHANGED <<server, s2c>>
      BY <1>4 DEF SendExit
    <2>2. Deals("int", "wait", 1)
      BY DEF Deals
    <2>3. FrameTypes' /\ Dealing' /\ Handlers'
      BY <1>1, <1>2, <2>1, <2>2, GotoBase DEF Base, FrameTypes, fileVars, Fates
    <2>4. TallyTypes' /\ StreamTypes' /\ ClientTypes' /\ Confirmed'
      BY <1>1, <2>1, SameTally, SameClients DEF StreamTypes, Base
    <2>5. QED
      BY <2>3, <2>4 DEF Base
  <1>5. QED
    BY <1>3, <1>4

\* A frame that reads, or only goes on.
LEMMA ReadBase ==
    ASSUME Base, NEW f \in Frames, Top = f,
           NEW p \in Places \ {"off"}, NEW k \in Nat, Goto(f, p, k), Deals(f, p, k),
           eintr' \in BOOLEAN, failedReads' \subseteq ReadPlaces, TallyTypes',
           logged' \in [Clients -> Nat], c2s' \in [Clients -> Seq(Messages)], server' \in Fates,
           UNCHANGED <<fileVars, clientCount, s2c, clientVars>>
    PROVE  Base'
  <1> USE DEF Base
  <1>1. ClientTypes' /\ Confirmed' /\ StreamTypes'
    BY SameClients DEF StreamTypes
  <1>2. FrameTypes' /\ Dealing' /\ Handlers'
    <2>1. UNCHANGED <<file, procsVer, countVer>>
      BY DEF fileVars
    <2>2. QED
      BY <2>1, GotoBase DEF FrameTypes
  <1>3. QED
    BY <1>1, <1>2

\* Where a frame may go on to.
LEMMA GoesOn ==
    ASSUME NEW f \in Frames, NEW k \in Nat
    PROVE  /\ k > 0 => Deals(f, "client", k) /\ Deals(f, "wait", k)
           /\ k > 0 /\ k <= clientCount => \A p \in ReadPlaces : Deals(f, p, k)
           /\ Deals(f, "select", k) /\ Deals(f, "final", k) /\ Deals(f, "accept", k)
  BY DEF Deals, Counted, ReadPlaces

\* The client in the accept window is the next one.
LEMMA Accepts ==
    ASSUME TallyTypes, Pending
    PROVE  Deals("main", "send", clientCount + 1) /\ clientCount + 1 \in Nat
  BY SizesAssumption DEF TallyTypes, Deals, Pending, Clients, ReadPlaces

LEMMA SelectBase == ASSUME Base, Select PROVE Base'
  <1>1. /\ "main" \in Frames /\ Top = "main" /\ TallyTypes /\ eintr' = FALSE
        /\ UNCHANGED <<server, failedReads, fileVars, clientCount, tallyVars, logged,
                       s2c, c2s, clientVars>>
    BY DEF Select, Running, Frames, Base
  <1>2. PICK p \in {"accept", "send", "client"}, k \in {0, 1, clientCount + 1} :
           Goto("main", p, k) /\ Deals("main", p, k)
    <2>1. \/ Goto("main", "accept", 0)
          \/ Pending /\ Goto("main", "send", clientCount + 1)
          \/ Goto("main", "client", 1)
      BY DEF Select
    <2>2. QED
      BY <1>1, <2>1, GoesOn, Accepts
  <1>3. p \in Places \ {"off"} /\ k \in Nat
    BY <1>1 DEF Places, TallyTypes
  <1>4. TallyTypes' /\ logged' \in [Clients -> Nat] /\ c2s' \in [Clients -> Seq(Messages)]
        /\ failedReads' \subseteq ReadPlaces /\ server' \in Fates
    BY <1>1, SameTally DEF Base, StreamTypes, FrameTypes, Fates
  <1>5. eintr' \in BOOLEAN
    BY <1>1, Zenon
  <1>6. QED
    BY <1>1, <1>2, <1>3, <1>4, <1>5, ReadBase

LEMMA AcceptBase == ASSUME Base, Accept PROVE Base'
  <1>1. /\ "main" \in Frames /\ Top = "main" /\ TallyTypes
        /\ UNCHANGED <<failedReads, fileVars, clientCount, tallyVars, logged,
                       s2c, c2s, clientVars>>
    BY DEF Accept, Running, Frames, Base
  <1>2. CASE eintr
    <2>1. server' = "quit" /\ UNCHANGED frameVars
      BY <1>2 DEF Accept
    <2>2. QED
      BY <1>1, <2>1, SameFrames, SameTally, SameClients DEF Base, StreamTypes, Fates
  <1>3. CASE ~eintr
    <2>1. Pending /\ Goto("main", "send", clientCount + 1) /\ UNCHANGED <<server, eintr>>
      BY <1>3 DEF Accept
    <2>2. TallyTypes' /\ logged' \in [Clients -> Nat] /\ c2s' \in [Clients -> Seq(Messages)]
          /\ failedReads' \subseteq ReadPlaces /\ server' \in Fates /\ eintr' \in BOOLEAN
      BY <1>1, <2>1, SameTally DEF Base, StreamTypes, FrameTypes, Fates
    <2>3. "send" \in Places \ {"off"}
      BY DEF Places
    <2>4. QED
      BY <1>1, <2>1, <2>2, <2>3, Accepts, ReadBase
  <1>4. QED
    BY <1>2, <1>3

\* Only the accept window counts a client, and then no handler runs.
LEMMA CountClientBase == ASSUME Base, CountClient PROVE Base'
  <1> USE DEF Base
  <1>1. /\ "main" \in Frames /\ Top = "main" /\ pc["main"] = "accepted"
        /\ clientCount' = at["main"] /\ Goto("main", "client", 1)
        /\ UNCHANGED <<server, eintr, failedReads, fileVars, tallyVars, logged, s2c, c2s,
                       clientVars>>
    BY DEF CountClient, Running, Frames
  <1>2. pc["hup"] = "off" /\ pc["int"] = "off"
    <2>1. stack = <<"main">>
      BY <1>1, TopFacts DEF FrameTypes, Stacks
    <2>2. stack # <<"main", "hup">> /\ stack # <<"main", "int">>
          /\ stack # <<"main", "hup", "int">> /\ stack # <<"main", "int", "hup">>
      BY <2>1
    <2>3. QED
      BY <2>2 DEF Handlers
  <1>3. clientCount' = clientCount + 1 /\ clientCount' \in 0..NClients
    BY <1>1, SizesAssumption DEF Dealing, Deals, TallyTypes
  <1>4. /\ pc' \in [Frames -> Places] /\ at' \in [Frames -> Nat] /\ stack' = stack
        /\ hups' = hups /\ pc'["main"] = "client" /\ at'["main"] = 1
        /\ pc'["hup"] = "off" /\ pc'["int"] = "off"
    BY <1>1, <1>2 DEF FrameTypes, Goto, Frames, Places
  <1>5. FrameTypes'
    BY <1>1, <1>4 DEF FrameTypes, fileVars
  <1>6. TallyTypes'
    BY <1>1, <1>3 DEF TallyTypes, tallyVars
  <1>7. StreamTypes' /\ ClientTypes' /\ Confirmed'
    BY <1>1, SameClients DEF StreamTypes
  <1>8. Dealing'
    <2> SUFFICES ASSUME NEW g \in Frames PROVE Deals(g, pc[g], at[g])'
      BY DEF Dealing
    <2>1. CASE g = "main"
      BY <1>4, <2>1 DEF Deals
    <2>2. CASE g # "main"
      BY <1>4, <2>2 DEF Deals, Frames
    <2>3. QED
      BY <2>1, <2>2
  <1>9. Handlers'
    BY <1>2, <1>4 DEF Handlers
  <1>10. QED
    BY <1>5, <1>6, <1>7, <1>8, <1>9

\* What a frame does with a header, and with a client that may have written one.
LEMMA Handled ==
    ASSUME NEW f \in {"main", "int"}, NEW c \in Counted, NEW h, Handle(f, c, h)
    PROVE  \E p \in {"text", "kills", "client", "wait"}, k \in {c, c + 1} :
              /\ Goto(f, p, k) /\ Deals(f, p, k) /\ k \in Nat
              /\ p \in {"text", "kills"} => k = c
              /\ p = "kills" => f = "int" /\ h = "exit"
              /\ p = "text" => h = "output"
              /\ p \in {"client", "wait"} => p = Loop(f) /\ k = c + 1 /\ h # "output"
                                            /\ (f = "int" => h # "exit")
  <1>1. c \in Nat /\ c > 0 /\ c <= clientCount /\ f \in Frames
    BY DEF Counted, Frames
  <1>2. /\ Deals(f, "text", c) /\ Deals(f, "kills", c)
        /\ Deals(f, "client", c + 1) /\ Deals(f, "wait", c + 1)
    BY <1>1, GoesOn DEF ReadPlaces
  <1>3. \/ h = "output" /\ Goto(f, "text", c)
        \/ f = "int" /\ h = "exit" /\ Goto(f, "kills", c)
        \/ h # "output" /\ (f = "int" => h # "exit") /\ Goto(f, Loop(f), c + 1)
    BY DEF Handle
  <1>4. Loop(f) \in {"client", "wait"}
    BY DEF Loop
  <1>5. QED
    BY <1>1, <1>2, <1>3, <1>4

LEMMA Polled ==
    ASSUME StreamTypes, NEW f \in {"main", "int"}, NEW c \in Counted, c \in Clients,
           Poll(f, c)
    PROVE  /\ eintr' \in BOOLEAN /\ c2s' \in [Clients -> Seq(Messages)]
           /\ UNCHANGED c2s \/ Take(c)
           /\ \E p \in {"header", "text", "kills", "client", "wait"}, k \in {c, c + 1} :
                 /\ Goto(f, p, k) /\ Deals(f, p, k) /\ k \in Nat
                 /\ p \in {"header", "text", "kills"} => k = c
                 /\ p = "kills" => f = "int" /\ Readable(c) /\ "exit" \in HeaderRead(c)
  <1>1. c \in Nat /\ c > 0 /\ c <= clientCount /\ f \in Frames
    BY DEF Counted, Frames
  <1>2. Loop(f) \in {"client", "wait"}
    BY DEF Loop
  <1>3. eintr' \in BOOLEAN
    BY Zenon DEF Poll
  <1>4. CASE eintr
    <2>1. Goto(f, "header", c) /\ UNCHANGED c2s
      BY <1>4 DEF Poll
    <2>2. Deals(f, "header", c)
      BY <1>1, GoesOn DEF ReadPlaces
    <2>3. QED
      BY <1>1, <1>3, <2>1, <2>2 DEF StreamTypes
  <1>5. CASE ~eintr /\ ~Readable(c)
    <2>1. Goto(f, Loop(f), c + 1) /\ UNCHANGED c2s
      BY <1>5 DEF Poll
    <2>2. Deals(f, Loop(f), c + 1) /\ c + 1 \in Nat
      BY <1>1, <1>2, GoesOn
    <2>3. QED
      BY <1>2, <1>3, <2>1, <2>2 DEF StreamTypes
  <1>6. CASE ~eintr /\ Readable(c)
    <2>1. Take(c) /\ \E h \in HeaderRead(c) : Handle(f, c, h)
      BY <1>6 DEF Poll
    <2>2. c2s' \in [Clients -> Seq(Messages)]
      BY <2>1, Taken
    <2>3. QED
      BY <1>3, <1>6, <2>1, <2>2, Handled
  <1>7. QED
    BY <1>4, <1>5, <1>6

LEMMA ReadClientBase == ASSUME Base, ReadClient PROVE Base'
  <1>1. /\ "main" \in Frames /\ Top = "main" /\ TallyTypes /\ StreamTypes
        /\ at["main"] \in Nat /\ at["main"] > 0
        /\ UNCHANGED <<server, failedReads, fileVars, clientCount, tallyVars, logged, s2c,
                       clientVars>>
    BY DEF ReadClient, Running, Frames, Base, FrameTypes, Dealing, Deals
  <1>2. /\ eintr' \in BOOLEAN /\ c2s' \in [Clients -> Seq(Messages)]
        /\ \E p \in Places \ {"off"}, k \in Nat : Goto("main", p, k) /\ Deals("main", p, k)
    <2>1. CASE at["main"] <= clientCount
      <3>1. at["main"] \in Counted /\ at["main"] \in Clients
        BY <1>1, <2>1, SizesAssumption DEF Clients, Counted, TallyTypes
      <3>2. Poll("main", at["main"])
        BY <2>1 DEF ReadClient
      <3>3. {"header", "text", "kills", "client", "wait"} \subseteq Places \ {"off"}
        BY DEF Places
      <3>4. QED
        BY <1>1, <3>1, <3>2, <3>3, Polled
    <2>2. CASE ~(at["main"] <= clientCount)
      <3>1. Goto("main", "select", 0) /\ UNCHANGED <<eintr, c2s>>
        BY <2>2 DEF ReadClient
      <3>2. "select" \in Places \ {"off"} /\ Deals("main", "select", 0)
        BY <1>1, GoesOn DEF Places
      <3>3. eintr' \in BOOLEAN /\ c2s' \in [Clients -> Seq(Messages)]
        BY <3>1 DEF Base, FrameTypes, StreamTypes
      <3>4. QED
        BY <3>1, <3>2, <3>3
    <2>3. QED
      BY <2>1, <2>2
  <1>3. TallyTypes' /\ logged' \in [Clients -> Nat] /\ failedReads' \subseteq ReadPlaces
        /\ server' \in Fates
    BY <1>1, SameTally DEF Base, StreamTypes, FrameTypes, Fates
  <1>4. QED
    BY <1>1, <1>2, <1>3, ReadBase

\* A read of a counted client that may wait, and be interrupted.
LEMMA Rest ==
    ASSUME Base, NEW f \in Frames, NEW p \in ReadPlaces, NEW got \in BOOLEAN,
           ReadRest(f, p, got)
    PROVE  /\ Top = f /\ server = "up" /\ pc[f] = p
           /\ at[f] \in Nat /\ at[f] > 0 /\ at[f] <= clientCount
           /\ clientCount \in 0..NClients /\ at[f] \in Clients /\ at[f] \in Counted
           /\ eintr' \in BOOLEAN /\ failedReads' \subseteq ReadPlaces
           /\ failedReads \subseteq failedReads'
           /\ c2s' \in [Clients -> Seq(Messages)]
           /\ got => c2s[at[f]] # <<>>
           /\ p \in failedReads' \/ (Readable(at[f]) /\ (c2s[at[f]] # <<>> => got))
           /\ UNCHANGED c2s \/ Take(at[f])
  <1>1. Running(f, p)
    BY DEF ReadRest
  <1>2. /\ Top = f /\ server = "up" /\ pc[f] = p /\ at[f] \in Nat
        /\ clientCount \in 0..NClients /\ at[f] \in Counted
    BY <1>1 DEF Running, Base, FrameTypes, TallyTypes, Dealing, Deals, ReadPlaces
  <1>3. at[f] > 0 /\ at[f] <= clientCount /\ at[f] \in Clients
    BY <1>2, SizesAssumption DEF Counted, Clients
  <1>4. CASE eintr
    <2>1. ~got /\ eintr' = FALSE /\ failedReads' = failedReads \cup {p} /\ UNCHANGED c2s
      BY <1>4 DEF ReadRest
    <2>2. got => c2s[at[f]] # <<>>
      BY <2>1, Zenon
    <2>3. eintr' \in BOOLEAN
      BY <2>1, Zenon
    <2>4. failedReads' \subseteq ReadPlaces /\ c2s' \in [Clients -> Seq(Messages)]
          /\ failedReads \subseteq failedReads' /\ p \in failedReads'
      BY <2>1 DEF Base, FrameTypes, StreamTypes
    <2>5. QED
      BY <1>2, <1>3, <2>1, <2>2, <2>3, <2>4
  <1>5. CASE ~eintr
    <2>1. /\ got = (c2s[at[f]] # <<>>) /\ Readable(at[f]) /\ Take(at[f])
          /\ UNCHANGED <<eintr, failedReads>>
      BY <1>5 DEF ReadRest
    <2>2. c2s' \in [Clients -> Seq(Messages)]
      BY <1>3, <2>1, Taken DEF Base
    <2>3. eintr' \in BOOLEAN /\ failedReads' \subseteq ReadPlaces
          /\ failedReads \subseteq failedReads'
      BY <2>1 DEF Base, FrameTypes
    <2>4. got => c2s[at[f]] # <<>>
      BY <2>1, Zenon
    <2>5. c2s[at[f]] # <<>> => got
      BY <2>1, Zenon
    <2>6. QED
      BY <1>2, <1>3, <2>1, <2>2, <2>3, <2>4, <2>5
  <1>6. QED
    BY <1>4, <1>5

LEMMA ReadHeaderBase == ASSUME Base, NEW f \in {"main", "int"}, ReadHeader(f) PROVE Base'
  <1>0. f \in Frames /\ "header" \in ReadPlaces
    BY DEF Frames, ReadPlaces
  <1>1. PICK got \in BOOLEAN :
           /\ ReadRest(f, "header", got)
           /\ \E h \in IF got THEN HeaderRead(at[f]) ELSE AnyHeader : Handle(f, at[f], h)
    BY DEF ReadHeader
  <1>2. /\ Top = f /\ at[f] \in Counted /\ eintr' \in BOOLEAN /\ failedReads' \subseteq ReadPlaces
        /\ c2s' \in [Clients -> Seq(Messages)]
    BY <1>0, <1>1, Rest
  <1>3. UNCHANGED <<server, fileVars, clientCount, tallyVars, logged, s2c, clientVars>>
    BY DEF ReadHeader
  <1>4. TallyTypes' /\ logged' \in [Clients -> Nat] /\ server' \in Fates
    BY <1>3, SameTally DEF Base, StreamTypes, FrameTypes, Fates
  <1>5. PICK p \in {"text", "kills", "client", "wait"}, k \in Nat :
           Goto(f, p, k) /\ Deals(f, p, k)
    BY <1>1, <1>2, Handled
  <1>6. p \in Places \ {"off"}
    BY DEF Places
  <1>7. QED
    BY <1>0, <1>2, <1>3, <1>4, <1>5, <1>6, ReadBase

LEMMA ReadTextBase == ASSUME Base, NEW f \in {"main", "int"}, ReadText(f) PROVE Base'
  <1>0. f \in Frames /\ "text" \in ReadPlaces
    BY DEF Frames, ReadPlaces
  <1>1. PICK got \in BOOLEAN :
           /\ ReadRest(f, "text", got)
           /\ logged' = IF got THEN [logged EXCEPT ![at[f]] = @ + 1] ELSE logged
    BY DEF ReadText
  <1>2. /\ Top = f /\ at[f] \in Nat /\ at[f] > 0 /\ eintr' \in BOOLEAN
        /\ failedReads' \subseteq ReadPlaces
        /\ c2s' \in [Clients -> Seq(Messages)] /\ at[f] \in Clients
    BY <1>0, <1>1, Rest
  <1>3. logged' \in [Clients -> Nat]
    <2>1. logged \in [Clients -> Nat]
      BY DEF Base, StreamTypes
    <2>2. [logged EXCEPT ![at[f]] = logged[at[f]] + 1] \in [Clients -> Nat]
      BY <1>2, <2>1
    <2>3. QED
      BY <1>1, <2>1, <2>2
  <1>4. UNCHANGED <<server, fileVars, clientCount, tallyVars, s2c, clientVars>>
    BY DEF ReadText
  <1>5. TallyTypes' /\ server' \in Fates
    BY <1>4, SameTally DEF Base, FrameTypes, Fates
  <1>6. PICK p \in {"client", "wait"} : Goto(f, p, at[f] + 1) /\ Deals(f, p, at[f] + 1)
    <2>1. at[f] + 1 \in Nat /\ at[f] + 1 > 0
      BY <1>2
    <2>2. Goto(f, "client", at[f] + 1) \/ Goto(f, "wait", at[f] + 1)
      BY DEF ReadText, Loop
    <2>3. QED
      BY <1>0, <2>1, <2>2, GoesOn
  <1>7. p \in Places \ {"off"} /\ at[f] + 1 \in Nat
    BY <1>2 DEF Places
  <1>8. QED
    BY <1>0, <1>2, <1>3, <1>4, <1>5, <1>6, <1>7, ReadBase

LEMMA WaitForClientsBase == ASSUME Base, WaitForClients PROVE Base'
  <1>1. /\ "int" \in Frames /\ Top = "int" /\ TallyTypes /\ StreamTypes
        /\ at["int"] \in Nat /\ at["int"] > 0
        /\ UNCHANGED <<server, failedReads, fileVars, clientCount, tallyVars, logged, s2c,
                       clientVars>>
    BY DEF WaitForClients, Running, Frames, Base, FrameTypes, Dealing, Deals
  <1>2. /\ eintr' \in BOOLEAN /\ c2s' \in [Clients -> Seq(Messages)]
        /\ \E p \in Places \ {"off"}, k \in Nat : Goto("int", p, k) /\ Deals("int", p, k)
    <2>1. CASE at["int"] <= clientCount /\ ~ClientExited(at["int"])
      <3>1. at["int"] \in Counted /\ at["int"] \in Clients
        BY <1>1, <2>1, SizesAssumption DEF Clients, Counted, TallyTypes
      <3>2. Poll("int", at["int"])
        BY <1>1, <2>1 DEF WaitForClients, TallyTypes
      <3>3. {"header", "text", "kills", "client", "wait"} \subseteq Places \ {"off"}
        BY DEF Places
      <3>4. QED
        BY <1>1, <3>1, <3>2, <3>3, Polled
    <2>2. CASE ~(at["int"] <= clientCount /\ ~ClientExited(at["int"]))
      <3>1. /\ \/ Goto("int", "final", 0) \/ Goto("int", "wait", 1)
               \/ Goto("int", "wait", at["int"] + 1)
            /\ UNCHANGED <<eintr, c2s>>
        BY <1>1, <2>2 DEF WaitForClients, TallyTypes
      <3>2. /\ {"final", "wait"} \subseteq Places \ {"off"}
            /\ Deals("int", "final", 0) /\ Deals("int", "wait", 1)
            /\ Deals("int", "wait", at["int"] + 1)
        BY <1>1, GoesOn DEF Places
      <3>3. eintr' \in BOOLEAN /\ c2s' \in [Clients -> Seq(Messages)]
        BY <3>1 DEF Base, FrameTypes, StreamTypes
      <3>4. QED
        BY <1>1, <3>1, <3>2, <3>3
    <2>3. QED
      BY <2>1, <2>2
  <1>3. TallyTypes' /\ logged' \in [Clients -> Nat] /\ failedReads' \subseteq ReadPlaces
        /\ server' \in Fates
    BY <1>1, SameTally DEF Base, StreamTypes, FrameTypes, Fates
  <1>4. QED
    BY <1>1, <1>2, <1>3, ReadBase

LEMMA MarkedTypes ==
    ASSUME TallyTypes, NEW c \in Clients, MarkExited(c)
    PROVE  exited' = exited + 1 /\ exited' \in Nat /\ server' \in Fates
           /\ exitedClients' \in [0..(MaxClients - 1) -> {0} \cup Clients]
  BY DEF TallyTypes, MarkExited, Fates

LEMMA ReadKillsBase == ASSUME Base, ReadKills PROVE Base'
  <1>0. "int" \in Frames
    BY DEF Frames
  <1>1. PICK got \in BOOLEAN, n \in 0..MaxKills :
           /\ ReadRest("int", "kills", got)
           /\ killCount' = killCount + n
           /\ IF n > 0
                THEN /\ Goto("int", "name", at["int"])
                     /\ UNCHANGED <<server, exited, exitedClients>>
                ELSE Goto("int", "wait", at["int"] + 1) /\ MarkExited(at["int"])
    BY DEF ReadKills
  <1>2. /\ Top = "int" /\ at["int"] \in Nat /\ at["int"] > 0 /\ at["int"] <= clientCount
        /\ eintr' \in BOOLEAN /\ failedReads' \subseteq ReadPlaces
        /\ c2s' \in [Clients -> Seq(Messages)] /\ at["int"] \in Clients
    BY <1>0, <1>1, Rest DEF ReadPlaces
  <1>3. UNCHANGED <<fileVars, clientCount, nodenames, logged, s2c, clientVars>>
    BY DEF ReadKills
  <1>4. /\ server' \in Fates /\ exited' \in Nat
        /\ exitedClients' \in [0..(MaxClients - 1) -> {0} \cup Clients]
    BY <1>1, <1>2, MarkedTypes DEF Base, TallyTypes, FrameTypes, Fates
  <1>5. TallyTypes'
    <2>1. killCount' \in Nat
      BY <1>1 DEF Base, TallyTypes
    <2>2. QED
      BY <1>3, <1>4, <2>1 DEF Base, TallyTypes
  <1>6. PICK p \in {"name", "wait"}, k \in {at["int"], at["int"] + 1} :
           Goto("int", p, k) /\ Deals("int", p, k)
    <2>1. Goto("int", "name", at["int"]) \/ Goto("int", "wait", at["int"] + 1)
      BY <1>1
    <2>2. at["int"] + 1 \in Nat /\ at["int"] + 1 > 0
      BY <1>2
    <2>3. QED
      BY <1>0, <1>2, <2>1, <2>2, GoesOn DEF ReadPlaces
  <1>7. p \in Places \ {"off"} /\ k \in Nat
    BY <1>2 DEF Places
  <1>8. logged' \in [Clients -> Nat]
    BY <1>3 DEF Base, StreamTypes
  <1>9. QED
    BY <1>0, <1>2, <1>3, <1>4, <1>5, <1>6, <1>7, <1>8, ReadBase

LEMMA ReadNameBase == ASSUME Base, ReadName PROVE Base'
  <1>0. "int" \in Frames
    BY DEF Frames
  <1>1. PICK got \in BOOLEAN : ReadRest("int", "name", got)
    BY DEF ReadName
  <1>2. /\ Top = "int" /\ at["int"] \in Nat /\ at["int"] > 0
        /\ eintr' \in BOOLEAN /\ failedReads' \subseteq ReadPlaces
        /\ c2s' \in [Clients -> Seq(Messages)] /\ at["int"] \in Clients
    BY <1>0, <1>1, Rest DEF ReadPlaces
  <1>3. /\ UNCHANGED <<fileVars, clientCount, killCount, logged, s2c, clientVars>>
        /\ nodenames' = nodenames \cup {at["int"]} /\ MarkExited(at["int"])
        /\ Goto("int", "wait", at["int"] + 1)
    BY DEF ReadName
  <1>4. TallyTypes' /\ server' \in Fates
    BY <1>2, <1>3, MarkedTypes DEF Base, TallyTypes
  <1>5. at["int"] + 1 \in Nat /\ Deals("int", "wait", at["int"] + 1)
    BY <1>2 DEF Deals
  <1>6. "wait" \in Places \ {"off"} /\ logged' \in [Clients -> Nat]
    BY <1>3 DEF Places, Base, StreamTypes
  <1>7. QED
    BY <1>0, <1>2, <1>3, <1>4, <1>5, <1>6, ReadBase

LEMMA FinalBase == ASSUME Base, Final PROVE Base'
  <1> USE DEF Base
  <1>1. /\ server' = "done"
        /\ UNCHANGED <<frameVars, failedReads, fileVars, clientCount, tallyVars, logged, s2c,
                       c2s, clientVars>>
    BY DEF Final
  <1>2. QED
    BY <1>1, SameFrames, SameTally, SameClients DEF StreamTypes

\* Steps of the clients.
LEMMA ClientBase ==
    ASSUME Base, UNCHANGED <<server, frameVars, failedReads, fileVars, clientCount, tallyVars,
                             logged>>,
           s2c' \in [Clients -> Seq(Messages)], c2s' \in [Clients -> Seq(Messages)],
           ClientTypes', Confirmed'
    PROVE  Base'
  <1> USE DEF Base
  <1>1. FrameTypes' /\ Dealing' /\ Handlers'
    BY SameFrames DEF FrameTypes
  <1>2. TallyTypes' /\ StreamTypes'
    BY SameTally DEF StreamTypes
  <1>3. QED
    BY <1>1, <1>2

\* One client goes on and reports nothing.
LEMMA Moved ==
    ASSUME ClientTypes, Confirmed, NEW c \in Clients,
           NEW q \in {"waitConfig", "procs", "count", "run", "exiting", "killed"},
           cl' = [cl EXCEPT ![c] = q], UNCHANGED <<half, cfg, kills, report, outs>>,
           cl[c] \in {"new", "waitConfig", "procs", "count", "run", "exiting"} \/ q = "killed",
           crashes' \in Nat
    PROVE  ClientTypes' /\ Confirmed'
  <1>1. ClientTypes'
    BY DEF ClientTypes
  <1>2. Confirmed'
    BY DEF ClientTypes, Confirmed
  <1>3. QED
    BY <1>1, <1>2

LEMMA ConnectBase == ASSUME Base, NEW c \in Clients, Connect(c) PROVE Base'
  <1>1. cl[c] = "new" /\ cl' = [cl EXCEPT ![c] = "waitConfig"]
        /\ UNCHANGED <<server, frameVars, failedReads, fileVars, clientCount, tallyVars, logged,
                       s2c, c2s, half, cfg, kills, report, outs, crashes>>
    BY DEF Connect
  <1>2. ClientTypes' /\ Confirmed'
    BY <1>1, Moved DEF Base, ClientTypes
  <1>3. QED
    BY <1>1, <1>2, ClientBase DEF Base, StreamTypes

LEMMA ClientHeaderBase == ASSUME Base, NEW c \in Clients, ClientHeader(c) PROVE Base'
  <1>1. /\ cl[c] \in {"waitConfig", "run"} /\ s2c[c] # <<>> /\ Swallow(c)
        /\ UNCHANGED <<server, frameVars, failedReads, fileVars, clientCount, tallyVars, logged,
                       c2s, half, cfg, kills, report, outs, crashes>>
    BY DEF ClientHeader
  <1>2. PICK q \in {"procs", "exiting", "run"} : cl' = [cl EXCEPT ![c] = q]
    BY DEF ClientHeader
  <1>3. s2c' \in [Clients -> Seq(Messages)]
    BY <1>1, Swallowed DEF Base
  <1>4. ClientTypes' /\ Confirmed'
    BY <1>1, <1>2, Moved DEF Base, ClientTypes
  <1>5. QED
    BY <1>1, <1>3, <1>4, ClientBase DEF Base, StreamTypes

LEMMA ClientConfigBase == ASSUME Base, NEW c \in Clients, ClientConfig(c) PROVE Base'
  <1>1. /\ cl[c] \in {"procs", "count"} /\ s2c[c] # <<>> /\ Swallow(c)
        /\ cfg' = [cfg EXCEPT ![c][cl[c]] = Head(s2c[c]).v]
        /\ cl' = [cl EXCEPT ![c] = IF cl[c] = "procs" THEN "count" ELSE "run"]
        /\ UNCHANGED <<server, frameVars, failedReads, fileVars, clientCount, tallyVars, logged,
                       c2s, half, kills, report, outs, crashes>>
    BY DEF ClientConfig
  <1>2. s2c' \in [Clients -> Seq(Messages)] /\ Head(s2c[c]) \in Messages
    BY <1>1, Swallowed DEF Base
  <1>3. cfg' \in [Clients -> [procs : Nat, count : Nat]]
    <2>1. Head(s2c[c]).v \in Nat
      BY <1>2 DEF Messages
    <2>2. [cfg[c] EXCEPT ![cl[c]] = Head(s2c[c]).v] \in [procs : Nat, count : Nat]
      <3>1. cfg[c] \in [procs : Nat, count : Nat]
        BY DEF Base, ClientTypes
      <3>2. CASE cl[c] = "procs"
        BY <2>1, <3>1, <3>2
      <3>3. CASE cl[c] = "count"
        BY <2>1, <3>1, <3>3
      <3>4. QED
        BY <1>1, <3>2, <3>3
    <2>3. cfg' = [cfg EXCEPT ![c] = [cfg[c] EXCEPT ![cl[c]] = Head(s2c[c]).v]]
      BY <1>1
    <2>4. QED
      BY <2>2, <2>3 DEF Base, ClientTypes
  <1>4. ClientTypes' /\ Confirmed'
    BY <1>1, <1>3 DEF Base, ClientTypes, Confirmed
  <1>5. QED
    BY <1>1, <1>2, <1>4, ClientBase DEF Base, StreamTypes

\* One client says something.
LEMMA ClientOutputBase == ASSUME Base, NEW c \in Clients, ClientOutput(c) PROVE Base'
  <1>1. /\ Say(c, Header("output")) /\ half' = [half EXCEPT ![c] = TRUE]
        /\ UNCHANGED <<server, frameVars, failedReads, fileVars, clientCount, tallyVars, logged,
                       s2c, cl, cfg, kills, report, outs, crashes>>
    BY DEF ClientOutput
  <1>2. c2s' \in [Clients -> Seq(Messages)]
    BY <1>1, Said, MsgType DEF Base, MsgTypes
  <1>3. ClientTypes' /\ Confirmed'
    BY <1>1 DEF Base, ClientTypes, Confirmed
  <1>4. QED
    BY <1>1, <1>2, <1>3, ClientBase DEF Base, StreamTypes

LEMMA ClientTextBase == ASSUME Base, NEW c \in Clients, ClientText(c) PROVE Base'
  <1>1. /\ Say(c, Header("text")) /\ half' = [half EXCEPT ![c] = FALSE]
        /\ outs' = [outs EXCEPT ![c] = outs[c] + 1]
        /\ UNCHANGED <<server, frameVars, failedReads, fileVars, clientCount, tallyVars, logged,
                       s2c, cl, cfg, kills, report, crashes>>
    BY DEF ClientText
  <1>2. c2s' \in [Clients -> Seq(Messages)]
    BY <1>1, Said, MsgType DEF Base, MsgTypes
  <1>3. ClientTypes' /\ Confirmed'
    BY <1>1 DEF Base, ClientTypes, Confirmed
  <1>4. QED
    BY <1>1, <1>2, <1>3, ClientBase DEF Base, StreamTypes

LEMMA ClientKillBase == ASSUME Base, NEW c \in Clients, ClientKill(c) PROVE Base'
  <1>1. /\ kills' = [kills EXCEPT ![c] = kills[c] + 1]
        /\ UNCHANGED <<server, frameVars, failedReads, fileVars, clientCount, tallyVars, logged,
                       s2c, c2s, cl, half, cfg, report, outs, crashes>>
    BY DEF ClientKill
  <1>2. ClientTypes' /\ Confirmed'
    BY <1>1 DEF Base, ClientTypes, Confirmed
  <1>3. QED
    BY <1>1, <1>2, ClientBase DEF Base, StreamTypes

\* The three steps of a confirmation.
Confirms(c) ==
    /\ cl[c] = "exiting" /\ Say(c, Header("exit"))
    /\ report' = [report EXCEPT ![c] = kills[c]]
    /\ cl' = [cl EXCEPT ![c] = "sendKills"]
Counts(c) ==
    /\ cl[c] = "sendKills" /\ Say(c, Msg("kills", report[c]))
    /\ cl' = [cl EXCEPT ![c] = IF report[c] > 0 THEN "sendName" ELSE "gone"]
    /\ UNCHANGED report
Names(c) ==
    /\ cl[c] = "sendName" /\ Say(c, Header("name"))
    /\ cl' = [cl EXCEPT ![c] = "gone"]
    /\ UNCHANGED report

LEMMA ExitSteps ==
    ASSUME NEW c \in Clients, ClientExit(c)
    PROVE  /\ Confirms(c) \/ Counts(c) \/ Names(c)
           /\ UNCHANGED <<server, frameVars, failedReads, fileVars, clientCount, tallyVars,
                          logged, s2c, half, cfg, kills, outs, crashes>>
  BY DEF ClientExit, Confirms, Counts, Names

LEMMA ClientExitBase == ASSUME Base, NEW c \in Clients, ClientExit(c) PROVE Base'
  <1>1. UNCHANGED <<server, frameVars, failedReads, fileVars, clientCount, tallyVars, logged,
                    s2c, half, cfg, kills, outs, crashes>>
    BY ExitSteps
  <1>2. CASE Confirms(c)
    <2>1. c2s' \in [Clients -> Seq(Messages)]
      BY <1>2, Said, MsgType DEF Base, MsgTypes, Confirms
    <2>2. ClientTypes'
      BY <1>1, <1>2 DEF Base, ClientTypes, Confirms
    <2>3. Confirmed'
      BY <1>1, <1>2 DEF Base, ClientTypes, Confirmed, Confirms
    <2>4. QED
      BY <1>1, <2>1, <2>2, <2>3, ClientBase DEF Base, StreamTypes
  <1>3. CASE Counts(c)
    <2>1. report[c] \in Nat
      BY <1>3 DEF Base, Confirmed, Counts
    <2>2. c2s' \in [Clients -> Seq(Messages)]
      BY <1>3, <2>1, Said, MsgType DEF Base, MsgTypes, Counts
    <2>3. ClientTypes'
      BY <1>1, <1>3 DEF Base, ClientTypes, Counts
    <2>4. Confirmed'
      BY <1>1, <1>3, <2>1 DEF Base, ClientTypes, Confirmed, Counts
    <2>5. QED
      BY <1>1, <2>2, <2>3, <2>4, ClientBase DEF Base, StreamTypes
  <1>4. CASE Names(c)
    <2>1. c2s' \in [Clients -> Seq(Messages)]
      BY <1>4, Said, MsgType DEF Base, MsgTypes, Names
    <2>2. ClientTypes'
      BY <1>1, <1>4 DEF Base, ClientTypes, Names
    <2>3. Confirmed'
      BY <1>1, <1>4 DEF Base, ClientTypes, Confirmed, Names
    <2>4. QED
      BY <1>1, <2>1, <2>2, <2>3, ClientBase DEF Base, StreamTypes
  <1>5. QED
    BY <1>2, <1>3, <1>4, ExitSteps

LEMMA ClientDiesBase == ASSUME Base, NEW c \in Clients, ClientDies(c) PROVE Base'
  <1>1. crashes' = crashes + 1 /\ cl' = [cl EXCEPT ![c] = "killed"]
        /\ UNCHANGED <<server, frameVars, failedReads, fileVars, clientCount, tallyVars, logged,
                       s2c, c2s, half, cfg, kills, report, outs>>
    BY DEF ClientDies
  <1>2. ClientTypes' /\ Confirmed'
    <2>1. crashes' \in Nat
      BY <1>1 DEF Base, ClientTypes
    <2>2. "killed" \in {"waitConfig", "procs", "count", "run", "exiting", "killed"}
      OBVIOUS
    <2>3. QED
      BY <1>1, <2>1, <2>2, Moved DEF Base
  <1>3. QED
    BY <1>1, <1>2, ClientBase DEF Base, StreamTypes

LEMMA NextBase == ASSUME Base, [Next]_vars PROVE Base'
  <1>1. ASSUME NEW f \in {"main", "hup"},
               ReadFile(f) \/ SetCount(f) \/ SendHeader(f) \/ SendProcs(f) \/ SendCount(f)
        PROVE  Base'
    BY <1>1, ReadFileBase, SetCountBase, SendHeaderBase, SendProcsBase, SendCountBase
  <1>2. ASSUME NEW f \in {"main", "int"}, ReadHeader(f) \/ ReadText(f) PROVE Base'
    BY <1>2, ReadHeaderBase, ReadTextBase
  <1>3. CASE ServerStep
    BY <1>1, <1>2, <1>3, ReturnBase, SelectBase, AcceptBase, CountClientBase, ReadClientBase,
       SendExitBase,
       WaitForClientsBase, ReadKillsBase, ReadNameBase, FinalBase DEF ServerStep
  <1>4. ASSUME NEW c \in Clients, ClientStep(c) \/ ClientChoice(c) PROVE Base'
    BY <1>4, ClientHeaderBase, ClientConfigBase, ClientTextBase, ClientExitBase, ConnectBase,
       ClientOutputBase, ClientKillBase, ClientDiesBase DEF ClientStep, ClientChoice
  <1>5. CASE UNCHANGED vars
    <2>1. UNCHANGED <<server, frameVars, failedReads, fileVars, clientCount, tallyVars,
                      logged, s2c, c2s, clientVars>>
      BY <1>5 DEF vars
    <2>2. ClientTypes' /\ Confirmed'
      BY <2>1, SameClients DEF Base
    <2>3. QED
      BY <2>1, <2>2, ClientBase DEF Base, StreamTypes
  <1>6. QED
    BY <1>3, <1>4, <1>5, SighupBase, SigintBase DEF Next, Finished

LEMMA BaseTypes == Base => TypeOK
  <1> SUFFICES ASSUME Base PROVE TypeOK
    OBVIOUS
  <1>1. /\ stack \in Seq(Frames) /\ Len(stack) \in 1..3 /\ stack[1] = "main"
        /\ \A j, k \in 1..Len(stack) : stack[j] = stack[k] => j = k
    <2> SUFFICES ASSUME stack \in Stacks
                 PROVE  /\ stack \in Seq(Frames) /\ Len(stack) \in 1..3 /\ stack[1] = "main"
                        /\ \A j, k \in 1..Len(stack) : stack[j] = stack[k] => j = k
      BY DEF Base, FrameTypes
    <2>1. CASE stack = <<"main">>
      BY <2>1 DEF Frames
    <2>2. CASE stack = <<"main", "hup">>
      BY <2>2 DEF Frames
    <2>3. CASE stack = <<"main", "int">>
      BY <2>3 DEF Frames
    <2>4. CASE stack = <<"main", "hup", "int">>
      BY <2>4 DEF Frames
    <2>5. CASE stack = <<"main", "int", "hup">>
      BY <2>5 DEF Frames
    <2>6. QED
      BY <2>1, <2>2, <2>3, <2>4, <2>5 DEF Stacks
  <1>2. {hups, crashes, file, procsVer, countVer, clientCount, killCount, exited} \subseteq Nat
    BY DEF Base, FrameTypes, TallyTypes, ClientTypes
  <1>3. Counted \subseteq Clients
    BY SizesAssumption DEF Base, TallyTypes, Counted, Clients
  <1>4. QED
    BY <1>1, <1>2, <1>3
       DEF TypeOK, Base, FrameTypes, TallyTypes, StreamTypes, ClientTypes, Places, ReadPlaces, Fates

-----------------------------------------------------------------------------
(* The clients that have confirmed.                                        *)

Marked == {exitedClients[k] : k \in 1..exited}

\* The array holds exited different counted clients, from entry 1 on; whoever the
\* handler deals with is not one of them.
Array ==
    /\ exited < MaxClients
    /\ \A k \in DOMAIN exitedClients : k = 0 \/ k > exited => exitedClients[k] = 0
    /\ Marked \subseteq Counted
    /\ IsFiniteSet(Marked) /\ Cardinality(Marked) = exited
    /\ pc["int"] \in {"header", "text", "kills", "name"} => at["int"] \notin Marked
    /\ pc["int"] = "final" => clientCount <= exited
    /\ server = "done" => pc["int"] = "final"

\* Unless a header was not read, only those that confirm are in it.
Honest ==
    /\ \A c \in Clients : \A i \in DOMAIN c2s[c] :
          c2s[c][i].type = "exit" => report[c] # -1
    /\ HeadersRead =>
          /\ \A c \in Clients : cl[c] # "killed"
          /\ \A c \in Marked : report[c] # -1
          /\ pc["int"] \in {"kills", "name"} => report[at["int"]] # -1

Tally == Base /\ Array /\ Honest

\* The last of MaxClients confirmations was written behind the array and went
\* unnoticed: the rest of the loop finds nobody who is not in it.
Full ==
    /\ Base /\ exited = MaxClients /\ clientCount = MaxClients
    /\ pc["int"] \in {"wait", "final"}
    /\ pc["int"] = "wait" => \A c \in Counted : c >= at["int"] => ClientExited(c)
    /\ HeadersRead => \A c \in Counted : report[c] # -1

\* The steps of the frames "main" and "hup" that count no client.
Quiet ==
    /\ UNCHANGED <<exited, exitedClients, clientCount, cl, report, crashes>>
    /\ pc'["int"] = pc["int"] /\ at'["int"] = at["int"] /\ server' # "done"
    /\ UNCHANGED c2s \/ \E c \in Clients : Take(c)
    /\ failedReads \subseteq failedReads'

LEMMA QuietGoto ==
    ASSUME FrameTypes, NEW f \in {"main", "hup"}, NEW p, NEW k, Goto(f, p, k)
    PROVE  pc'["int"] = pc["int"] /\ at'["int"] = at["int"]
  BY DEF FrameTypes, Goto, Frames

LEMMA QuietSends ==
    ASSUME Base, NEW f \in {"main", "hup"}, SendHeader(f) \/ SendProcs(f) \/ SendCount(f)
    PROVE  Quiet
  <1>1. UNCHANGED <<clientCount, tallyVars, c2s, clientVars, failedReads>> /\ server = "up"
    BY DEF SendHeader, SendProcs, SendCount, Running
  <1>2. server' \in {"up", "killed"}
    BY <1>1 DEF SendHeader, SendProcs, SendCount, Write
  <1>3. \E p, k : Goto(f, p, k)
    BY DEF SendHeader, SendProcs, SendCount
  <1>4. pc'["int"] = pc["int"] /\ at'["int"] = at["int"]
    BY <1>3, QuietGoto DEF Base
  <1>5. QED
    BY <1>1, <1>2, <1>4 DEF Quiet, tallyVars, clientVars

LEMMA QuietReads ==
    ASSUME Base, NEW f \in {"main", "hup"}, ReadFile(f) \/ SetCount(f)
    PROVE  Quiet
  <1>1. UNCHANGED <<clientCount, tallyVars, c2s, clientVars, failedReads>> /\ server = "up"
    BY DEF ReadFile, SetCount, Running
  <1>2. server' \in {"up", "quit"}
    BY <1>1 DEF ReadFile, SetCount
  <1>3. UNCHANGED frameVars \/ \E p, k : Goto(f, p, k)
    BY DEF ReadFile, SetCount
  <1>4. pc'["int"] = pc["int"] /\ at'["int"] = at["int"]
    BY <1>3, QuietGoto DEF Base, frameVars
  <1>5. QED
    BY <1>1, <1>2, <1>4 DEF Quiet, tallyVars, clientVars

LEMMA QuietMain ==
    ASSUME Base, Select \/ Accept \/ ReadClient \/ ReadHeader("main") \/ ReadText("main")
    PROVE  Quiet
  <1> DEFINE c == at["main"]
  <1>0. "main" \in Frames /\ FrameTypes /\ clientCount \in 0..NClients /\ c \in Nat
    BY DEF Frames, Base, FrameTypes, TallyTypes
  <1>1. CASE Select
    <2>1. UNCHANGED <<clientCount, tallyVars, c2s, clientVars, server, failedReads>>
          /\ server = "up"
      BY <1>1 DEF Select, Running
    <2>2. \E p, k : Goto("main", p, k)
      BY <1>1 DEF Select
    <2>3. QED
      BY <1>0, <2>1, <2>2, QuietGoto DEF Quiet, tallyVars, clientVars
  <1>2. CASE Accept
    <2>1. UNCHANGED <<clientCount, tallyVars, c2s, clientVars, failedReads>>
          /\ server = "up" /\ server' \in {"up", "quit"}
      BY <1>2 DEF Accept, Running
    <2>2. UNCHANGED frameVars \/ \E p, k : Goto("main", p, k)
      BY <1>2 DEF Accept
    <2>3. pc'["int"] = pc["int"] /\ at'["int"] = at["int"]
      BY <1>0, <2>2, QuietGoto DEF frameVars
    <2>4. QED
      BY <2>1, <2>3 DEF Quiet, tallyVars, clientVars
  <1>3. CASE ReadClient
    <2>1. UNCHANGED <<clientCount, tallyVars, clientVars, server, failedReads>>
          /\ server = "up"
      BY <1>3 DEF ReadClient, Running
    <2>2. CASE c <= clientCount
      <3>1. c \in Counted /\ c \in Clients
        BY <1>0, <1>3, <2>2, SizesAssumption
           DEF ReadClient, Running, Base, Dealing, Deals, Clients, Counted
      <3>2. Poll("main", c)
        BY <1>3, <2>2 DEF ReadClient
      <3>3. /\ UNCHANGED c2s \/ Take(c)
            /\ \E p, k : Goto("main", p, k)
        BY <3>1, <3>2, Polled DEF Base
      <3>4. QED
        BY <1>0, <2>1, <3>1, <3>3, QuietGoto DEF Quiet, tallyVars, clientVars
    <2>3. CASE ~(c <= clientCount)
      <3>1. Goto("main", "select", 0) /\ UNCHANGED c2s
        BY <1>3, <2>3 DEF ReadClient
      <3>2. QED
        BY <1>0, <2>1, <3>1, QuietGoto DEF Quiet, tallyVars, clientVars
    <2>4. QED
      BY <2>2, <2>3
  <1>4. CASE ReadHeader("main")
    <2>1. PICK got \in BOOLEAN :
             /\ ReadRest("main", "header", got)
             /\ \E h \in IF got THEN HeaderRead(c) ELSE AnyHeader : Handle("main", c, h)
      BY <1>4 DEF ReadHeader
    <2>2. UNCHANGED <<clientCount, tallyVars, clientVars, server>>
      BY <1>4 DEF ReadHeader
    <2>3. /\ server = "up" /\ c \in Counted /\ c \in Clients /\ failedReads \subseteq failedReads'
          /\ UNCHANGED c2s \/ Take(c)
      BY <1>0, <2>1, Rest DEF ReadPlaces
    <2>4. \E p, k : Goto("main", p, k)
      BY <2>1, <2>3, Handled
    <2>5. QED
      BY <1>0, <2>2, <2>3, <2>4, QuietGoto DEF Quiet, tallyVars, clientVars
  <1>5. CASE ReadText("main")
    <2>1. UNCHANGED <<clientCount, tallyVars, clientVars, server>>
      BY <1>5 DEF ReadText
    <2>2. \E p, k : Goto("main", p, k)
      BY <1>5 DEF ReadText
    <2>3. /\ server = "up" /\ failedReads \subseteq failedReads'
          /\ UNCHANGED c2s \/ \E d \in Clients : Take(d)
      BY <1>0, <1>5, Rest DEF ReadText, ReadPlaces
    <2>4. QED
      BY <1>0, <2>1, <2>2, <2>3, QuietGoto DEF Quiet, tallyVars, clientVars
  <1>6. QED
    BY <1>1, <1>2, <1>3, <1>4, <1>5

LEMMA QuietHandler ==
    ASSUME Base, Sighup \/ Return
    PROVE  Quiet
  <1>1. CASE Sighup
    <2>1. /\ UNCHANGED <<server, clientCount, tallyVars, c2s, clientVars, failedReads>>
          /\ server = "up"
          /\ pc' = [pc EXCEPT !["hup"] = "readFile"] /\ at' = [at EXCEPT !["hup"] = 0]
      BY <1>1 DEF Sighup, Deliver
    <2>2. pc'["int"] = pc["int"] /\ at'["int"] = at["int"]
      BY <2>1 DEF Base, FrameTypes, Frames
    <2>3. QED
      BY <2>1, <2>2 DEF Quiet, tallyVars, clientVars
  <1>2. CASE Return
    <2>1. /\ UNCHANGED <<server, clientCount, tallyVars, c2s, clientVars, failedReads>>
          /\ server = "up"
          /\ pc' = [pc EXCEPT !["hup"] = "off"] /\ at' = [at EXCEPT !["hup"] = 0]
      BY <1>2 DEF Return, Running
    <2>2. pc'["int"] = pc["int"] /\ at'["int"] = at["int"]
      BY <2>1 DEF Base, FrameTypes, Frames
    <2>3. QED
      BY <2>1, <2>2 DEF Quiet, tallyVars, clientVars
  <1>3. QED
    BY <1>1, <1>2

\* The array.
LEMMA ArrayKept ==
    ASSUME Array, UNCHANGED <<exited, exitedClients, clientCount>>,
           pc'["int"] \in ReadPlaces => at'["int"] \notin Marked,
           pc'["int"] = "final" => clientCount <= exited,
           server' = "done" => pc'["int"] = "final"
    PROVE  Array'
  BY DEF Array, Marked, Counted, ReadPlaces

LEMMA CountedFinite ==
    ASSUME clientCount \in Nat
    PROVE  IsFiniteSet(Counted) /\ Cardinality(Counted) = clientCount
  <1>1. IsFiniteSet(1..clientCount)
        /\ Cardinality(1..clientCount) = IF 1 > clientCount THEN 0 ELSE clientCount - 1 + 1
    BY FS_Interval
  <1>2. QED
    BY <1>1 DEF Counted

\* The array has room for another client.
LEMMA ArrayRoom ==
    ASSUME Base, Array, NEW c \in Counted \ Marked
    PROVE  /\ exited \in Nat /\ clientCount \in Nat /\ MaxClients \in Nat
           /\ exited + 1 <= clientCount /\ clientCount <= MaxClients
           /\ DOMAIN exitedClients = 0..(MaxClients - 1)
           /\ IsFiniteSet(Marked \cup {c}) /\ Cardinality(Marked \cup {c}) = exited + 1
           /\ exited + 1 = clientCount => Counted = Marked \cup {c}
  <1>1. /\ exited \in Nat /\ clientCount \in 0..NClients /\ clientCount \in Nat
        /\ NClients \in Nat /\ MaxClients \in Nat /\ clientCount <= MaxClients
        /\ DOMAIN exitedClients = 0..(MaxClients - 1)
    BY SizesAssumption DEF Base, TallyTypes
  <1>2. IsFiniteSet(Marked \cup {c}) /\ Cardinality(Marked \cup {c}) = exited + 1
    BY FS_AddElement DEF Array
  <1>3. Marked \cup {c} \subseteq Counted
    BY DEF Array
  <1>4. /\ Cardinality(Marked \cup {c}) <= Cardinality(Counted)
        /\ Cardinality(Marked \cup {c}) = Cardinality(Counted) => Marked \cup {c} = Counted
    BY <1>1, <1>3, CountedFinite, FS_Subset
  <1>5. Cardinality(Counted) = clientCount
    BY <1>1, CountedFinite
  <1>6. QED
    BY <1>1, <1>2, <1>4, <1>5

LEMMA ArrayMarks ==
    ASSUME Base, Array, NEW c \in Counted \ Marked, MarkExited(c),
           exited + 1 < MaxClients, UNCHANGED clientCount, pc'["int"] = "wait",
           server' # "done"
    PROVE  Array' /\ Marked' = Marked \cup {c}
  <1>1. /\ exited \in Nat /\ MaxClients \in Nat
        /\ DOMAIN exitedClients = 0..(MaxClients - 1)
        /\ IsFiniteSet(Marked \cup {c}) /\ Cardinality(Marked \cup {c}) = exited + 1
    BY ArrayRoom
  <1>2. /\ exited' = exited + 1 /\ DOMAIN exitedClients' = 0..(MaxClients - 1)
        /\ \A k \in 0..(MaxClients - 1) :
              exitedClients'[k] = IF k = exited + 1 THEN c ELSE exitedClients[k]
    BY <1>1 DEF MarkExited
  <1>3. exited + 1 \in 1..(MaxClients - 1)
    BY <1>1
  <1>4. Marked' = Marked \cup {c}
    <2>1. \A k \in 1..exited : k \in 0..(MaxClients - 1) /\ exitedClients'[k] = exitedClients[k]
      BY <1>1, <1>2, <1>3
    <2>2. exitedClients'[exited + 1] = c
      BY <1>2, <1>3
    <2>3. 1..(exited + 1) = 1..exited \cup {exited + 1}
      BY <1>1
    <2>4. Marked' = {exitedClients'[k] : k \in 1..(exited + 1)}
      BY <1>2 DEF Marked
    <2>5. QED
      BY <2>1, <2>2, <2>3, <2>4 DEF Marked
  <1>5. \A k \in DOMAIN exitedClients' : k = 0 \/ k > exited' => exitedClients'[k] = 0
    BY <1>1, <1>2 DEF Array
  <1>6. Marked' \subseteq Counted'
    BY <1>4 DEF Array, Counted
  <1>7. exited' < MaxClients
    BY <1>2
  <1>8. pc'["int"] \notin ReadPlaces /\ pc'["int"] # "final"
    BY DEF ReadPlaces
  <1>9. QED
    BY <1>1, <1>2, <1>4, <1>5, <1>6, <1>7, <1>8 DEF Array

\* The write behind the array comes last.
LEMMA FullMarks ==
    ASSUME Base, Array, NEW c \in Counted \ Marked, MarkExited(c),
           ~(exited + 1 < MaxClients), UNCHANGED clientCount
    PROVE  /\ exited' = MaxClients /\ clientCount' = MaxClients
           /\ Counted' = Marked \cup {c}
           /\ \A d \in Marked : ClientExited(d)'
  <1>1. /\ exited \in Nat /\ clientCount \in Nat /\ MaxClients \in Nat
        /\ exited + 1 <= clientCount /\ clientCount <= MaxClients
        /\ DOMAIN exitedClients = 0..(MaxClients - 1)
        /\ exited + 1 = clientCount => Counted = Marked \cup {c}
    BY ArrayRoom
  <1>2. exited + 1 = MaxClients /\ clientCount = MaxClients
    BY <1>1
  <1>3. /\ exited' = exited + 1 /\ DOMAIN exitedClients' = 0..(MaxClients - 1)
        /\ \A k \in 0..(MaxClients - 1) :
              exitedClients'[k] = IF k = exited + 1 THEN c ELSE exitedClients[k]
    BY <1>1 DEF MarkExited
  <1>4. \A k \in 1..exited : k \in 0..(MaxClients - 1) /\ exitedClients'[k] = exitedClients[k]
    BY <1>1, <1>2, <1>3
  <1>5. \A d \in Marked : ClientExited(d)'
    BY <1>3, <1>4 DEF Marked, ClientExited
  <1>6. Counted' = Marked \cup {c}
    BY <1>1, <1>2 DEF Counted
  <1>7. QED
    BY <1>2, <1>3, <1>5, <1>6

\* A client is in the array exactly when clientExited finds it there.
LEMMA FoundExited ==
    ASSUME Base, Array, NEW c \in Clients, ~ClientExited(c)
    PROVE  c \notin Marked
  <1>1. exited \in Nat /\ MaxClients \in Nat /\ DOMAIN exitedClients = 0..(MaxClients - 1)
    BY SizesAssumption DEF Base, TallyTypes
  <1>2. \A k \in 1..exited : k \in DOMAIN exitedClients
    BY <1>1 DEF Array
  <1>3. QED
    BY <1>2 DEF Marked, ClientExited

LEMMA ArrayBound ==
    ASSUME Base, Array
    PROVE  exited <= clientCount /\ clientCount \in Nat /\ exited \in Nat
           /\ (clientCount <= exited => Marked = Counted)
  <1>1. clientCount \in 0..NClients /\ clientCount \in Nat /\ exited \in Nat /\ NClients \in Nat
        /\ MaxClients \in Nat
    BY SizesAssumption DEF Base, TallyTypes
  <1>2. /\ Cardinality(Marked) <= Cardinality(Counted)
        /\ Cardinality(Marked) = Cardinality(Counted) => Marked = Counted
    BY <1>1, CountedFinite, FS_Subset DEF Array
  <1>3. exited <= clientCount
    BY <1>1, <1>2, CountedFinite DEF Array
  <1>4. clientCount <= exited => Marked = Counted
    <2> SUFFICES ASSUME clientCount <= exited PROVE Marked = Counted
      OBVIOUS
    <2>1. clientCount = exited
      BY <1>1, <1>3
    <2>2. QED
      BY <1>1, <1>2, <2>1, CountedFinite DEF Array
  <1>5. QED
    BY <1>1, <1>3, <1>4

LEMMA TallyInit == Init => Array /\ Honest
  <1> SUFFICES ASSUME Init PROVE Array /\ Honest
    OBVIOUS
  <1>1. Marked = {}
    BY DEF Init, Marked
  <1>2. IsFiniteSet(Marked) /\ Cardinality(Marked) = exited
    BY <1>1, FS_EmptySet DEF Init
  <1>3. Array
    BY <1>1, <1>2, SizesAssumption DEF Init, Array, Frames, ReadPlaces
  <1>4. Honest
    BY <1>1 DEF Init, Honest, Frames
  <1>5. QED
    BY <1>3, <1>4

\* What is read is no news.
LEMMA HonestReads ==
    ASSUME StreamTypes, Honest, UNCHANGED <<cl, report, crashes>>,
           failedReads \subseteq failedReads',
           UNCHANGED c2s \/ \E c \in Clients : Take(c),
           HeadersRead' => \A c \in Marked' : report[c] # -1,
           HeadersRead' /\ pc'["int"] \in {"kills", "name"} => report[at'["int"]] # -1
    PROVE  Honest'
  <1>1. ASSUME NEW c \in Clients, NEW i \in DOMAIN c2s'[c], c2s'[c][i].type = "exit"
        PROVE  report[c] # -1
    <2>1. CASE c2s'[c] = c2s[c]
      BY <1>1, <2>1 DEF Honest
    <2>2. CASE c2s'[c] # c2s[c]
      <3>1. PICK d \in Clients : Take(d)
        BY <2>2
      <3>2. c = d /\ c2s[c] # <<>> /\ c2s'[c] = Tail(c2s[c])
        BY <2>2, <3>1, Taken
      <3>3. c2s[c] \in Seq(Messages)
        BY DEF StreamTypes
      <3>4. /\ Len(Tail(c2s[c])) = Len(c2s[c]) - 1 /\ Tail(c2s[c]) \in Seq(Messages)
            /\ \A j \in 1..Len(Tail(c2s[c])) : Tail(c2s[c])[j] = c2s[c][j + 1]
        BY <3>2, <3>3, HeadTailProperties
      <3>5. i \in 1..Len(Tail(c2s[c]))
        BY <1>1, <3>2, <3>4
      <3>6. i + 1 \in DOMAIN c2s[c] /\ c2s[c][i + 1] = c2s'[c][i]
        BY <3>2, <3>3, <3>4, <3>5, LenProperties
      <3>7. QED
        BY <1>1, <3>6 DEF Honest
    <2>3. QED
      BY <2>1, <2>2
  <1>2. HeadersRead' => HeadersRead
    BY DEF HeadersRead
  <1>3. QED
    BY <1>1, <1>2 DEF Honest

\* And what is said is true.
LEMMA HonestSays ==
    ASSUME Honest, UNCHANGED <<exited, exitedClients, pc, at, crashes, failedReads>>,
           crashes = 0 => \A c \in Clients : cl'[c] = "killed" => cl[c] = "killed",
           \A c \in Clients : report[c] # -1 => report'[c] # -1,
           Marked \subseteq Clients, pc["int"] \in {"kills", "name"} => at["int"] \in Clients,
           \A c \in Clients : \A i \in DOMAIN c2s'[c] :
              c2s'[c][i].type = "exit" => report'[c] # -1
    PROVE  Honest'
  BY DEF Honest, Marked, HeadersRead

LEMMA Appended ==
    ASSUME NEW q \in Seq(Messages), NEW m \in Messages, NEW i \in DOMAIN Append(q, m)
    PROVE  Append(q, m)[i] = m \/ (i \in DOMAIN q /\ Append(q, m)[i] = q[i])
  <1>1. /\ Append(q, m) \in Seq(Messages) /\ Len(Append(q, m)) = Len(q) + 1
        /\ \A j \in 1..Len(q) : Append(q, m)[j] = q[j]
        /\ Append(q, m)[Len(q) + 1] = m
    BY AppendProperties
  <1>2. i \in 1..(Len(q) + 1) /\ DOMAIN q = 1..Len(q) /\ Len(q) \in Nat
    BY <1>1, LenProperties
  <1>3. QED
    BY <1>1, <1>2

LEMMA TallyClient ==
    ASSUME Tally, NEW c \in Clients, ClientStep(c) \/ ClientChoice(c), server = "up"
    PROVE  Array' /\ Honest'
  <1> USE DEF Tally
  <1>1. UNCHANGED <<server, frameVars, failedReads, clientCount, tallyVars>>
    BY DEF ClientStep, ClientChoice, ClientHeader, ClientConfig, ClientText, ClientExit,
           Connect, ClientOutput, ClientKill, ClientDies
  <1>2. Array'
    BY <1>1, ArrayKept DEF Array, frameVars, tallyVars, ReadPlaces
  <1> SUFFICES Honest'
    BY <1>2
  <1>3. Marked \subseteq Clients /\ (pc["int"] \in {"kills", "name"} => at["int"] \in Clients)
    <2>1. Counted \subseteq Clients
      BY SizesAssumption DEF Base, TallyTypes, Counted, Clients
    <2>2. pc["int"] \in {"kills", "name"} => at["int"] \in Counted
      BY DEF Base, Dealing, Deals, Frames
    <2>3. QED
      BY <2>1, <2>2 DEF Array
  <1>4. CASE ClientHeader(c) \/ ClientConfig(c) \/ Connect(c) \/ ClientKill(c)
    <2>1. UNCHANGED <<c2s, report, crashes>>
      BY <1>4 DEF ClientHeader, ClientConfig, Connect, ClientKill
    <2>2. \A d \in Clients : cl'[d] = "killed" => cl[d] = "killed"
      BY <1>4 DEF ClientHeader, ClientConfig, Connect, ClientKill, Base, ClientTypes
    <2>3. QED
      BY <1>1, <1>3, <2>1, <2>2, HonestSays DEF Honest, frameVars, tallyVars
  <1>5. CASE ClientDies(c)
    <2>1. UNCHANGED <<c2s, report>> /\ crashes' = crashes + 1 /\ crashes \in Nat
      BY <1>5 DEF ClientDies, Base, ClientTypes
    <2>2. crashes' # 0
      BY <2>1
    <2>3. QED
      BY <2>1, <2>2 DEF Honest, HeadersRead
  <1>6. ASSUME NEW m \in Messages, Say(c, m), m.type # "exit", UNCHANGED <<report, crashes>>,
               \A d \in Clients : cl'[d] = "killed" => cl[d] = "killed"
        PROVE  Honest'
    <2>1. ASSUME NEW d \in Clients, NEW i \in DOMAIN c2s'[d], c2s'[d][i].type = "exit"
          PROVE  report'[d] # -1
      <3>1. CASE d = c
        <4>1. c2s'[d] = Append(c2s[d], m) /\ c2s[d] \in Seq(Messages)
          BY <1>6, <3>1, Said DEF Base, StreamTypes
        <4>2. i \in DOMAIN c2s[d] /\ c2s'[d][i] = c2s[d][i]
          BY <1>6, <2>1, <4>1, Appended
        <4>3. QED
          BY <1>6, <2>1, <4>2 DEF Honest
      <3>2. CASE d # c
        <4>1. c2s'[d] = c2s[d]
          BY <1>6, <3>2, Said DEF Base
        <4>2. QED
          BY <1>6, <2>1, <4>1 DEF Honest
      <3>3. QED
        BY <3>1, <3>2
    <2>2. QED
      BY <1>1, <1>3, <1>6, <2>1, HonestSays DEF frameVars, tallyVars
  <1>7. CASE ClientOutput(c)
    <2>1. Say(c, Header("output")) /\ UNCHANGED <<cl, report, crashes>>
      BY <1>7 DEF ClientOutput
    <2>2. Header("output") \in Messages /\ Header("output").type # "exit"
      BY MsgType DEF MsgTypes, Header, Msg
    <2>3. QED
      BY <1>6, <2>1, <2>2
  <1>8. CASE ClientText(c)
    <2>1. Say(c, Header("text")) /\ UNCHANGED <<cl, report, crashes>>
      BY <1>8 DEF ClientText
    <2>2. Header("text") \in Messages /\ Header("text").type # "exit"
      BY MsgType DEF MsgTypes, Header, Msg
    <2>3. QED
      BY <1>6, <2>1, <2>2
  <1>9. CASE ClientExit(c)
    <2>1. UNCHANGED crashes
      BY <1>9 DEF ClientExit
    <2>2. CASE Confirms(c)
      <3>1. /\ report' = [report EXCEPT ![c] = kills[c]] /\ cl' = [cl EXCEPT ![c] = "sendKills"]
            /\ Say(c, Header("exit"))
        BY <2>2 DEF Confirms
      <3>2. /\ report'[c] # -1 /\ \A d \in Clients : cl'[d] = "killed" => cl[d] = "killed"
            /\ \A d \in Clients \ {c} : report'[d] = report[d]
        BY <3>1 DEF Base, ClientTypes
      <3>3. ASSUME NEW d \in Clients, NEW i \in DOMAIN c2s'[d], c2s'[d][i].type = "exit"
            PROVE  report'[d] # -1
        <4>1. CASE d = c
          BY <3>2, <4>1
        <4>2. CASE d # c
          <5>1. Header("exit") \in Messages
            BY MsgType DEF MsgTypes
          <5>2. c2s'[d] = c2s[d]
            BY <3>1, <4>2, <5>1, Said DEF Base
          <5>3. QED
            BY <3>2, <3>3, <4>2, <5>2 DEF Honest
        <4>3. QED
          BY <4>1, <4>2
      <3>4. QED
        BY <1>1, <1>3, <2>1, <3>2, <3>3, HonestSays DEF frameVars, tallyVars
    <2>3. CASE Counts(c)
      <3>1. /\ Say(c, Msg("kills", report[c])) /\ UNCHANGED report /\ cl[c] = "sendKills"
            /\ cl' = [cl EXCEPT ![c] = IF report[c] > 0 THEN "sendName" ELSE "gone"]
        BY <2>3 DEF Counts
      <3>2. \A d \in Clients : cl'[d] = "killed" => cl[d] = "killed"
        BY <3>1 DEF Base, ClientTypes
      <3>3. report[c] \in Nat
        BY <3>1 DEF Base, Confirmed
      <3>4. Msg("kills", report[c]) \in Messages /\ Msg("kills", report[c]).type # "exit"
        BY <3>3, MsgType DEF MsgTypes, Msg
      <3>5. QED
        BY <1>6, <2>1, <3>1, <3>2, <3>4
    <2>4. CASE Names(c)
      <3>1. Say(c, Header("name")) /\ UNCHANGED report /\ cl' = [cl EXCEPT ![c] = "gone"]
        BY <2>4 DEF Names
      <3>2. \A d \in Clients : cl'[d] = "killed" => cl[d] = "killed"
        BY <3>1 DEF Base, ClientTypes
      <3>3. Header("name") \in Messages /\ Header("name").type # "exit"
        BY MsgType DEF MsgTypes, Header, Msg
      <3>4. QED
        BY <1>6, <2>1, <3>1, <3>2, <3>3
    <2>5. QED
      BY <1>9, <2>2, <2>3, <2>4, ExitSteps
  <1>10. QED
    BY <1>4, <1>5, <1>7, <1>8, <1>9 DEF ClientStep, ClientChoice

LEMMA TallyQuiet == ASSUME Tally, Quiet PROVE Array' /\ Honest'
  <1> USE DEF Tally, Quiet
  <1>1. Marked' = Marked
    BY DEF Marked
  <1>2. Array'
    BY ArrayKept DEF Array, ReadPlaces
  <1>3. Honest'
    BY <1>1, HonestReads DEF Base, Honest, HeadersRead
  <1>4. QED
    BY <1>2, <1>3

\* A step of the frame "int", or its start, that marks nobody.
LEMMA TallyInt ==
    ASSUME Tally, UNCHANGED <<exited, exitedClients, clientCount, cl, report, crashes>>,
           server' # "done", UNCHANGED c2s \/ \E c \in Clients : Take(c),
           failedReads \subseteq failedReads',
           NEW p \in Places, NEW k \in Nat, pc'["int"] = p, at'["int"] = k,
           p \in ReadPlaces => k \notin Marked,
           p = "final" => clientCount <= exited,
           HeadersRead' /\ p \in {"kills", "name"} => report[k] # -1
    PROVE  Array' /\ Honest'
  <1> USE DEF Tally
  <1>1. Marked' = Marked
    BY DEF Marked
  <1>2. Array'
    BY ArrayKept
  <1>3. Honest'
    BY <1>1, HonestReads DEF Base, Honest, HeadersRead
  <1>4. QED
    BY <1>2, <1>3

LEMMA IntGoto ==
    ASSUME FrameTypes, NEW p, NEW k, Goto("int", p, k)
    PROVE  pc'["int"] = p /\ at'["int"] = k
  BY DEF FrameTypes, Goto, Frames

LEMMA TallySigint == ASSUME Tally, Sigint PROVE Array' /\ Honest'
  <1>1. /\ UNCHANGED <<server, clientCount, tallyVars, c2s, clientVars, failedReads>>
        /\ server = "up"
        /\ pc' = [pc EXCEPT !["int"] = "exit"] /\ at' = [at EXCEPT !["int"] = 1]
    BY DEF Sigint, Deliver
  <1>2. pc'["int"] = "exit" /\ at'["int"] = 1
    BY <1>1 DEF Tally, Base, FrameTypes, Frames
  <1>3. QED
    BY <1>1, <1>2, TallyInt DEF tallyVars, clientVars, Places, ReadPlaces

LEMMA TallySendExit == ASSUME Tally, SendExit PROVE Array' /\ Honest'
  <1>1. UNCHANGED <<clientCount, tallyVars, c2s, clientVars, failedReads>> /\ server = "up"
        /\ at["int"] \in Nat
    BY DEF SendExit, Running, Tally, Base, FrameTypes, Frames
  <1>2. server' # "done"
    BY <1>1 DEF SendExit, Write
  <1>3. PICK p \in {"exit", "wait"}, k \in {1, at["int"] + 1} : Goto("int", p, k)
    BY DEF SendExit
  <1>4. pc'["int"] = p /\ at'["int"] = k /\ k \in Nat
    BY <1>1, <1>3, IntGoto DEF Tally, Base
  <1>5. QED
    BY <1>1, <1>2, <1>4, TallyInt DEF tallyVars, clientVars, Places, ReadPlaces

LEMMA TallyCount == ASSUME Tally, CountClient PROVE Array' /\ Honest'
  <1> USE DEF Tally
  <1>1. /\ Top = "main" /\ pc["main"] = "accepted" /\ server = "up"
        /\ clientCount' = at["main"] /\ Goto("main", "client", 1)
        /\ UNCHANGED <<server, tallyVars, c2s, clientVars, failedReads>>
    BY DEF CountClient, Running
  <1>2. clientCount' = clientCount + 1 /\ clientCount \in Nat
    BY <1>1 DEF Base, Dealing, Deals, TallyTypes, Frames
  <1>3. pc["int"] = "off"
    <2>1. stack = <<"main">>
      BY <1>1, TopFacts DEF Base, FrameTypes, Stacks
    <2>2. stack # <<"main", "int">> /\ stack # <<"main", "hup", "int">>
          /\ stack # <<"main", "int", "hup">>
      BY <2>1
    <2>3. QED
      BY <2>2 DEF Base, Handlers
  <1>4. pc'["int"] = "off"
    BY <1>1, <1>3, QuietGoto DEF Base
  <1>5. Counted \subseteq Counted' /\ Marked' = Marked
    BY <1>1, <1>2 DEF Counted, Marked, tallyVars
  <1>6. Array'
    BY <1>1, <1>4, <1>5 DEF Array, tallyVars, ReadPlaces
  <1>7. HeadersRead' => HeadersRead
    BY <1>1 DEF HeadersRead, clientVars
  <1>8. Honest'
    BY <1>1, <1>4, <1>5, <1>7, HonestReads DEF Base, Honest, clientVars
  <1>9. QED
    BY <1>6, <1>8

LEMMA TallyText == ASSUME Tally, ReadText("int") PROVE Array' /\ Honest'
  <1>1. PICK got \in BOOLEAN : ReadRest("int", "text", got)
    BY DEF ReadText
  <1>2. /\ server = "up" /\ at["int"] \in Nat /\ at["int"] \in Clients
        /\ failedReads \subseteq failedReads'
        /\ UNCHANGED c2s \/ Take(at["int"])
    BY <1>1, Rest DEF Tally, Frames, ReadPlaces
  <1>3. /\ UNCHANGED <<server, clientCount, tallyVars, clientVars>>
        /\ Goto("int", "wait", at["int"] + 1)
    BY DEF ReadText, Loop
  <1>4. pc'["int"] = "wait" /\ at'["int"] = at["int"] + 1 /\ at["int"] + 1 \in Nat
    BY <1>2, <1>3, IntGoto DEF Tally, Base
  <1>5. QED
    BY <1>2, <1>3, <1>4, TallyInt DEF tallyVars, clientVars, Places, ReadPlaces

\* The header "exit" was sent by the client, or left in the buffer while the client
\* had gone.
LEMMA SaidExit ==
    ASSUME Tally, HeadersRead, NEW c \in Clients, Readable(c), "exit" \in HeaderRead(c)
    PROVE  report[c] # -1
  <1>1. CASE c2s[c] # <<>>
    <2>1. Head(c2s[c]).type = "exit"
      BY <1>1 DEF HeaderRead
    <2>2. c2s[c] \in Seq(Messages)
      BY DEF Tally, Base, StreamTypes
    <2>3. 1 \in DOMAIN c2s[c] /\ c2s[c][1] = Head(c2s[c])
      BY <1>1, <2>2, EmptySeq, LenProperties
    <2>4. QED
      BY <2>1, <2>3 DEF Tally, Honest
  <1>2. CASE c2s[c] = <<>>
    <2>1. cl[c] = "gone"
      BY <1>2 DEF Readable, Closed, Tally, Honest
    <2>2. QED
      BY <2>1 DEF Tally, Base, Confirmed
  <1>3. QED
    BY <1>1, <1>2

LEMMA TallyWait == ASSUME Tally, WaitForClients PROVE Array' /\ Honest'
  <1>1. /\ clientCount \in 0..NClients /\ server = "up"
        /\ at["int"] \in Nat /\ at["int"] > 0
        /\ UNCHANGED <<server, clientCount, tallyVars, clientVars, failedReads>>
    BY DEF WaitForClients, Running, Frames, Tally, Base, TallyTypes, FrameTypes, Dealing, Deals
  <1>2. CASE at["int"] > clientCount
    <2>1. UNCHANGED c2s
      BY <1>2 DEF WaitForClients
    <2>2. CASE AllExited
      <3>1. Goto("int", "final", 0)
        BY <1>2, <2>2 DEF WaitForClients
      <3>2. clientCount <= exited
        BY <1>1, <2>2, ArrayBound DEF AllExited, Tally
      <3>3. pc'["int"] = "final" /\ at'["int"] = 0
        BY <3>1, IntGoto DEF Tally, Base
      <3>4. QED
        BY <1>1, <2>1, <3>2, <3>3, TallyInt DEF tallyVars, clientVars, Places, ReadPlaces
    <2>3. CASE ~AllExited
      <3>1. Goto("int", "wait", 1)
        BY <1>2, <2>3 DEF WaitForClients
      <3>2. pc'["int"] = "wait" /\ at'["int"] = 1
        BY <3>1, IntGoto DEF Tally, Base
      <3>3. QED
        BY <1>1, <2>1, <3>2, TallyInt DEF tallyVars, clientVars, Places, ReadPlaces
    <2>4. QED
      BY <2>2, <2>3
  <1>3. CASE at["int"] <= clientCount /\ ClientExited(at["int"])
    <2>1. Goto("int", "wait", at["int"] + 1) /\ UNCHANGED c2s
      BY <1>1, <1>3 DEF WaitForClients
    <2>2. pc'["int"] = "wait" /\ at'["int"] = at["int"] + 1 /\ at["int"] + 1 \in Nat
      BY <1>1, <2>1, IntGoto DEF Tally, Base
    <2>3. QED
      BY <1>1, <2>1, <2>2, TallyInt DEF tallyVars, clientVars, Places, ReadPlaces
  <1>4. CASE at["int"] <= clientCount /\ ~ClientExited(at["int"])
    <2>1. at["int"] \in Clients /\ at["int"] \in Counted
      BY <1>1, <1>4, SizesAssumption DEF Clients, Counted
    <2>2. Poll("int", at["int"])
      BY <1>1, <1>4 DEF WaitForClients
    <2>3. at["int"] \notin Marked
      BY <1>4, <2>1, FoundExited DEF Tally
    <2>4. /\ UNCHANGED c2s \/ Take(at["int"])
          /\ \E p \in {"header", "text", "kills", "client", "wait"}, k \in Nat :
                /\ Goto("int", p, k)
                /\ p \in {"header", "text", "kills"} => k = at["int"]
                /\ p = "kills" => Readable(at["int"]) /\ "exit" \in HeaderRead(at["int"])
      BY <2>1, <2>2, Polled DEF Tally, Base
    <2>5. PICK p \in {"header", "text", "kills", "client", "wait"}, k \in Nat :
                /\ Goto("int", p, k)
                /\ p \in {"header", "text", "kills"} => k = at["int"]
                /\ p = "kills" => Readable(at["int"]) /\ "exit" \in HeaderRead(at["int"])
      BY <2>4
    <2>6. pc'["int"] = p /\ at'["int"] = k /\ p \in Places
      BY <2>5, IntGoto DEF Tally, Base, Places
    <2>7. HeadersRead' => HeadersRead
      BY <1>1 DEF HeadersRead, clientVars
    <2>8. HeadersRead' /\ p \in {"kills", "name"} => report[k] # -1
      BY <2>1, <2>5, <2>7, SaidExit
    <2>9. p \in ReadPlaces => k \notin Marked
      BY <2>3, <2>5 DEF ReadPlaces
    <2>10. p # "final"
      OBVIOUS
    <2>11. QED
      BY <1>1, <2>1, <2>4, <2>6, <2>8, <2>9, <2>10, TallyInt DEF tallyVars, clientVars
  <1>5. QED
    BY <1>1, <1>2, <1>3, <1>4

\* A header read that failed may leave "exit" in the buffer, but then not every
\* header was read.
LEMMA TallyHeader == ASSUME Tally, ReadHeader("int") PROVE Array' /\ Honest'
  <1>1. PICK got \in BOOLEAN :
           /\ ReadRest("int", "header", got)
           /\ \E h \in IF got THEN HeaderRead(at["int"]) ELSE AnyHeader :
                 Handle("int", at["int"], h)
    BY DEF ReadHeader
  <1>2. /\ server = "up" /\ at["int"] \in Counted /\ at["int"] \in Clients
        /\ pc["int"] = "header" /\ at["int"] \in Nat
        /\ failedReads \subseteq failedReads'
        /\ UNCHANGED c2s \/ Take(at["int"])
        /\ "header" \in failedReads' \/ (Readable(at["int"]) /\ (c2s[at["int"]] # <<>> => got))
    BY <1>1, Rest DEF Tally, Frames, ReadPlaces
  <1>3. UNCHANGED <<server, clientCount, tallyVars, clientVars>>
    BY DEF ReadHeader
  <1>4. PICK h \in IF got THEN HeaderRead(at["int"]) ELSE AnyHeader :
                Handle("int", at["int"], h)
    BY <1>1
  <1>5. PICK p \in {"text", "kills", "client", "wait"}, k \in {at["int"], at["int"] + 1} :
           /\ Goto("int", p, k)
           /\ p \in {"text", "kills"} => k = at["int"]
           /\ p = "kills" => h = "exit"
    BY <1>2, <1>4, Handled
  <1>6. pc'["int"] = p /\ at'["int"] = k /\ p \in Places /\ k \in Nat
    BY <1>2, <1>5, IntGoto DEF Tally, Base, Places
  <1>7. at["int"] \notin Marked
    BY <1>2 DEF Tally, Array, ReadPlaces
  <1>8. HeadersRead' /\ p \in {"kills", "name"} => report[k] # -1
    <2> SUFFICES ASSUME HeadersRead', p = "kills" PROVE report[k] # -1
      OBVIOUS
    <2>1. HeadersRead
      BY <1>2, <1>3 DEF HeadersRead, clientVars
    <2>2. Readable(at["int"]) /\ (c2s[at["int"]] # <<>> => got)
      BY <1>2 DEF HeadersRead
    <2>3. h \in HeaderRead(at["int"])
      BY <2>2 DEF HeaderRead
    <2>4. QED
      BY <1>2, <1>5, <2>1, <2>2, <2>3, SaidExit
  <1>9. p \in ReadPlaces => k \notin Marked
    BY <1>5, <1>7 DEF ReadPlaces
  <1>10. p # "final"
    OBVIOUS
  <1>11. QED
    BY <1>2, <1>3, <1>6, <1>8, <1>9, <1>10, TallyInt DEF tallyVars, clientVars

\* The client the handler deals with becomes one of the marked ones, or fills the
\* array.
LEMMA TallyMarks ==
    ASSUME Tally, Base', NEW p \in {"kills", "name"}, NEW got \in BOOLEAN,
           ReadRest("int", p, got), MarkExited(at["int"]), Goto("int", "wait", at["int"] + 1),
           UNCHANGED <<clientCount, clientVars>>
    PROVE  (Array' /\ Honest') \/ Full'
  <1> USE DEF Tally
  <1>1. /\ server = "up" /\ at["int"] \in Nat /\ at["int"] \in Clients /\ pc["int"] = p
        /\ at["int"] \in Counted
        /\ failedReads \subseteq failedReads'
        /\ UNCHANGED c2s \/ Take(at["int"])
    BY Rest DEF Frames, ReadPlaces
  <1>2. at["int"] \in Counted \ Marked
    BY <1>1 DEF Array, ReadPlaces
  <1>3. pc'["int"] = "wait" /\ at'["int"] = at["int"] + 1
    BY IntGoto DEF Base
  <1>4. HeadersRead' => /\ \A c \in Marked \cup {at["int"]} : report[c] # -1
                        /\ report' = report
    <2>1. HeadersRead' => HeadersRead
      BY <1>1 DEF HeadersRead, clientVars
    <2>2. QED
      BY <1>1, <2>1 DEF Honest, clientVars
  <1>5. CASE exited + 1 < MaxClients
    <2>1. server' # "done"
      BY DEF MarkExited
    <2>2. Array' /\ Marked' = Marked \cup {at["int"]}
      BY <1>2, <1>3, <1>5, <2>1, ArrayMarks
    <2>3. Honest'
      BY <1>1, <1>3, <1>4, <2>2, HonestReads DEF Base, clientVars
    <2>4. QED
      BY <2>2, <2>3
  <1>6. CASE ~(exited + 1 < MaxClients)
    <2>1. /\ exited' = MaxClients /\ clientCount' = MaxClients
          /\ Counted' = Marked \cup {at["int"]}
          /\ \A d \in Marked : ClientExited(d)'
      BY <1>2, <1>6, FullMarks
    <2>2. \A c \in Counted' : c >= at'["int"] => ClientExited(c)'
      BY <1>1, <1>3, <2>1
    <2>3. QED
      BY <1>3, <1>4, <2>1, <2>2 DEF Full
  <1>7. QED
    BY <1>5, <1>6

LEMMA TallyKills == ASSUME Tally, Base', ReadKills PROVE (Array' /\ Honest') \/ Full'
  <1>1. PICK got \in BOOLEAN, n \in 0..MaxKills :
           /\ ReadRest("int", "kills", got)
           /\ IF n > 0
                THEN /\ Goto("int", "name", at["int"])
                     /\ UNCHANGED <<server, exited, exitedClients>>
                ELSE Goto("int", "wait", at["int"] + 1) /\ MarkExited(at["int"])
    BY DEF ReadKills
  <1>2. UNCHANGED <<clientCount, clientVars>>
    BY DEF ReadKills
  <1>3. CASE n > 0
    <2>1. /\ server = "up" /\ at["int"] \in Nat /\ at["int"] \in Clients /\ pc["int"] = "kills"
          /\ failedReads \subseteq failedReads'
          /\ UNCHANGED c2s \/ Take(at["int"])
      BY <1>1, Rest DEF Tally, Frames, ReadPlaces
    <2>2. /\ pc'["int"] = "name" /\ at'["int"] = at["int"]
          /\ UNCHANGED <<server, exited, exitedClients>>
      BY <1>1, <1>3, IntGoto DEF Tally, Base
    <2>3. HeadersRead' => HeadersRead
      BY <1>2, <2>1 DEF HeadersRead, clientVars
    <2>4. at["int"] \notin Marked /\ (HeadersRead' => report[at["int"]] # -1)
      BY <2>1, <2>3 DEF Tally, Array, Honest, ReadPlaces
    <2>5. QED
      BY <1>2, <2>1, <2>2, <2>4, TallyInt DEF clientVars, Places
  <1>4. CASE ~(n > 0)
    BY <1>1, <1>2, <1>4, TallyMarks
  <1>5. QED
    BY <1>3, <1>4

LEMMA TallyName == ASSUME Tally, Base', ReadName PROVE (Array' /\ Honest') \/ Full'
  BY TallyMarks DEF ReadName

LEMMA TallyFinal == ASSUME Tally, Final PROVE Array' /\ Honest'
  <1> USE DEF Tally
  <1>1. pc["int"] = "final"
        /\ UNCHANGED <<frameVars, failedReads, clientCount, tallyVars, c2s, clientVars>>
    BY DEF Final, Running
  <1>2. Array'
    BY <1>1, ArrayKept DEF Array, frameVars, tallyVars, ReadPlaces
  <1>3. Marked' = Marked
    BY <1>1 DEF Marked, tallyVars
  <1>4. HeadersRead' => HeadersRead
    BY <1>1 DEF HeadersRead, clientVars
  <1>5. Honest'
    BY <1>1, <1>3, <1>4, HonestReads DEF Base, Honest, frameVars, clientVars
  <1>6. QED
    BY <1>2, <1>5

LEMMA NextTally == ASSUME Tally, [Next]_vars PROVE Tally' \/ Full'
  <1>1. Base'
    BY NextBase DEF Tally
  <1> SUFFICES (Array' /\ Honest') \/ Full'
    BY <1>1 DEF Tally
  <1>2. ASSUME NEW f \in {"main", "hup"},
               ReadFile(f) \/ SetCount(f) \/ SendHeader(f) \/ SendProcs(f) \/ SendCount(f)
        PROVE  Array' /\ Honest'
    BY <1>2, QuietReads, QuietSends, TallyQuiet DEF Tally
  <1>3. CASE Sighup \/ Return \/ Select \/ Accept \/ ReadClient
    BY <1>3, QuietHandler, QuietMain, TallyQuiet DEF Tally
  <1>4. ASSUME NEW f \in {"main", "int"}, ReadHeader(f) \/ ReadText(f) PROVE Array' /\ Honest'
    BY <1>4, QuietMain, TallyQuiet, TallyHeader, TallyText DEF Tally
  <1>5. CASE ServerStep
    BY <1>1, <1>2, <1>3, <1>4, <1>5, TallyCount, TallySendExit, TallyWait, TallyKills,
       TallyName, TallyFinal DEF ServerStep
  <1>6. CASE UNCHANGED vars
    <2>1. UNCHANGED <<frameVars, server, failedReads, clientCount, tallyVars, c2s, clientVars>>
      BY <1>6 DEF vars
    <2>2. Array'
      BY <2>1 DEF Tally, Array, Marked, Counted, frameVars, tallyVars
    <2>3. Honest'
      BY <2>1 DEF Tally, Honest, Marked, HeadersRead, frameVars, tallyVars, clientVars
    <2>4. QED
      BY <2>2, <2>3
  <1>7. QED
    BY <1>3, <1>5, <1>6, TallySigint, TallyClient DEF Next, Finished

-----------------------------------------------------------------------------
(* Behind a full array.                                                    *)

\* Steps that leave the handler where it is, or end it.
LEMMA FullStays ==
    ASSUME Full, Base', UNCHANGED <<exited, exitedClients, clientCount, crashes>>,
           failedReads \subseteq failedReads',
           \A c \in Clients : report[c] # -1 => report'[c] # -1,
           \/ pc'["int"] = pc["int"] /\ at'["int"] = at["int"]
           \/ pc'["int"] = "final"
           \/ pc["int"] = "wait" /\ pc'["int"] = "wait" /\ at'["int"] = at["int"] + 1
    PROVE  Full'
  <1>1. HeadersRead' => HeadersRead
    BY DEF HeadersRead
  <1>2. Counted' = Counted /\ Counted \subseteq Clients
    BY SizesAssumption DEF Counted, Clients, Full, Base, TallyTypes
  <1>3. \A c \in Counted : ClientExited(c)' = ClientExited(c)
    BY DEF ClientExited
  <1>4. \A c \in Counted : c \in Nat
    BY DEF Counted
  <1>5. at["int"] \in Nat
    BY DEF Full, Base, FrameTypes, Frames
  <1>6. pc'["int"] = "wait" => \A c \in Counted : c >= at'["int"] => ClientExited(c)
    BY <1>4, <1>5 DEF Full
  <1>7. QED
    BY <1>1, <1>2, <1>3, <1>6 DEF Full

LEMMA NextFull == ASSUME Full, [Next]_vars PROVE Full'
  <1>0. Base /\ Base' /\ pc["int"] \in {"wait", "final"} /\ FrameTypes
    BY NextBase DEF Full, Base
  <1>1. CASE Quiet
    BY <1>0, <1>1, FullStays DEF Quiet
  <1>2. ASSUME NEW f \in {"main", "hup"},
               ReadFile(f) \/ SetCount(f) \/ SendHeader(f) \/ SendProcs(f) \/ SendCount(f)
        PROVE  Full'
    BY <1>0, <1>1, <1>2, QuietReads, QuietSends
  <1>3. CASE \/ Sighup \/ Return \/ Select \/ Accept \/ ReadClient
             \/ ReadHeader("main") \/ ReadText("main")
    BY <1>0, <1>1, <1>3, QuietHandler, QuietMain
  <1>4. CASE CountClient
    <2>1. pc["main"] = "accepted"
      BY <1>4 DEF CountClient, Running
    <2>2. clientCount + 1 <= NClients
      BY <1>0, <2>1 DEF Base, Dealing, Deals, Frames
    <2>3. QED
      BY <2>2, SizesAssumption DEF Full
  <1>5. CASE Sigint
    <2>1. "int" \notin Active
      BY <1>5 DEF Sigint, Deliver
    <2>2. pc["int"] # "off"
      BY <1>0
    <2>3. stack \in {<<"main", "int">>, <<"main", "hup", "int">>, <<"main", "int", "hup">>}
      BY <1>0, <2>2, Zenon DEF Base, Handlers
    <2>4. "int" \in Active
      BY <1>0, <2>3, TopFacts DEF Stacks, Frames
    <2>5. QED
      BY <2>1, <2>4
  <1>6. CASE WaitForClients
    <2>1. /\ pc["int"] = "wait" /\ at["int"] \in Nat /\ at["int"] > 0
          /\ clientCount \in Nat /\ exited \in Nat
          /\ UNCHANGED <<failedReads, clientCount, tallyVars, clientVars>>
      BY <1>0, <1>6 DEF WaitForClients, Running, Base, FrameTypes, TallyTypes, Frames, Dealing,
         Deals
    <2>2. CASE at["int"] > clientCount
      <3>1. AllExited
        BY SizesAssumption DEF AllExited, Full
      <3>2. Goto("int", "final", 0)
        BY <1>6, <2>2, <3>1 DEF WaitForClients
      <3>3. pc'["int"] = "final"
        BY <1>0, <3>2, IntGoto
      <3>4. QED
        BY <1>0, <2>1, <3>3, FullStays DEF tallyVars, clientVars
    <2>3. CASE ~(at["int"] > clientCount)
      <3>1. ClientExited(at["int"])
        BY <2>1, <2>3 DEF Full, Counted
      <3>2. Goto("int", "wait", at["int"] + 1)
        BY <1>6, <2>3, <3>1 DEF WaitForClients
      <3>3. pc'["int"] = "wait" /\ at'["int"] = at["int"] + 1
        BY <1>0, <3>2, IntGoto
      <3>4. QED
        BY <1>0, <2>1, <3>3, FullStays DEF tallyVars, clientVars
    <2>4. QED
      BY <2>2, <2>3
  <1>7. CASE SendExit \/ ReadHeader("int") \/ ReadText("int") \/ ReadKills \/ ReadName
    BY <1>0, <1>7 DEF SendExit, ReadHeader, ReadText, ReadKills, ReadName, ReadRest, Running
  <1>8. CASE Final
    <2>1. UNCHANGED <<frameVars, failedReads, clientCount, tallyVars, clientVars>>
      BY <1>8 DEF Final
    <2>2. QED
      BY <1>0, <2>1, FullStays DEF frameVars, tallyVars, clientVars
  <1>9. ASSUME NEW f \in {"main", "int"}, ReadHeader(f) \/ ReadText(f) PROVE Full'
    BY <1>3, <1>7, <1>9
  <1>10. CASE ServerStep
    BY <1>2, <1>3, <1>4, <1>6, <1>7, <1>8, <1>9, <1>10 DEF ServerStep
  <1>11. ASSUME NEW c \in Clients, ClientStep(c) \/ ClientChoice(c) PROVE Full'
    <2>1. /\ UNCHANGED <<frameVars, failedReads, clientCount, tallyVars>>
          /\ crashes' = crashes \/ (crashes' = crashes + 1 /\ report' = report)
      BY <1>11 DEF ClientStep, ClientChoice, ClientHeader, ClientConfig, ClientText, ClientExit,
           Connect, ClientOutput, ClientKill, ClientDies
    <2>2. CASE crashes' = crashes
      <3>1. report' = report \/ report' = [report EXCEPT ![c] = kills[c]]
        BY <1>11, <2>2 DEF ClientStep, ClientChoice, ClientHeader, ClientConfig, ClientText,
             ClientExit, Connect, ClientOutput, ClientKill, ClientDies
      <3>2. \A d \in Clients : report[d] # -1 => report'[d] # -1
        BY <1>0, <3>1 DEF Base, ClientTypes
      <3>3. QED
        BY <1>0, <2>1, <2>2, <3>2, FullStays DEF frameVars, tallyVars
    <2>3. CASE crashes' = crashes + 1
      <3>1. crashes' # 0
        BY <1>0, <2>3 DEF Base, ClientTypes
      <3>2. UNCHANGED <<exited, exitedClients, clientCount, pc, at>>
        BY <2>1 DEF frameVars, tallyVars
      <3>3. QED
        BY <1>0, <3>1, <3>2 DEF Full, HeadersRead, Counted, ClientExited
    <2>4. QED
      BY <2>1, <2>2, <2>3
  <1>12. CASE UNCHANGED vars
    <2>1. UNCHANGED <<frameVars, failedReads, clientCount, tallyVars, clientVars>>
      BY <1>12 DEF vars
    <2>2. QED
      BY <1>0, <2>1, FullStays DEF frameVars, tallyVars, clientVars
  <1>13. QED
    BY <1>3, <1>5, <1>10, <1>11, <1>12 DEF Next, Finished

-----------------------------------------------------------------------------
(* The framing of the connections.                                         *)

\* What may follow a message, and what a client reads next.
After(t) == CASE t = "config" -> {"procs"}
              [] t = "procs" -> {"count"}
              [] OTHER -> {"config", "exit"}
Wants(c) == IF cl[c] \in {"procs", "count"} THEN {cl[c]} ELSE {"config", "exit"}

\* What comes behind the messages on their way to a client, by what is on its way
\* and by what the frames are about to send.
Due(c) == IF s2c[c] = <<>> THEN Wants(c) ELSE After(s2c[c][Len(s2c[c])].type)
SendsAt(p, a, c) ==
    CASE \E f \in {"main", "hup"} : a[f] = c /\ p[f] = "sendProcs" -> {"procs"}
      [] \E f \in {"main", "hup"} : a[f] = c /\ p[f] = "sendCount" -> {"count"}
      [] OTHER -> {"config", "exit"}
Sends(c) == SendsAt(pc, at, c)

Chain(c) ==
    /\ s2c[c] # <<>> => s2c[c][1].type \in Wants(c)
    /\ \A i \in 1..(Len(s2c[c]) - 1) : s2c[c][i + 1].type \in After(s2c[c][i].type)
    /\ Due(c) = Sends(c)

Listens(c) == cl[c] \in {"new", "waitConfig", "procs", "count", "run"}

\* Where SIGINT came on top of SIGHUP a configuration may stay unfinished.
Synced == stack = <<"main", "hup", "int">> \/ \A c \in Clients : Listens(c) => Chain(c)

Sending(f, c) == at[f] = c /\ pc[f] \in {"sendProcs", "sendCount"}

\* What changes nothing for a client.
LEMMA SendsSame ==
    ASSUME NEW c, \A f \in {"main", "hup"} :
              \/ ~Sending(f, c) /\ ~Sending(f, c)'
              \/ pc'[f] = pc[f] /\ at'[f] = at[f]
    PROVE  Sends(c)' = Sends(c)
  <1>1. \A f \in {"main", "hup"} :
           /\ at'[f] = c /\ pc'[f] = "sendProcs" <=> at[f] = c /\ pc[f] = "sendProcs"
           /\ at'[f] = c /\ pc'[f] = "sendCount" <=> at[f] = c /\ pc[f] = "sendCount"
    BY DEF Sending
  <1>2. /\ (\E f \in {"main", "hup"} : at'[f] = c /\ pc'[f] = "sendProcs")
              <=> (\E f \in {"main", "hup"} : at[f] = c /\ pc[f] = "sendProcs")
        /\ (\E f \in {"main", "hup"} : at'[f] = c /\ pc'[f] = "sendCount")
              <=> (\E f \in {"main", "hup"} : at[f] = c /\ pc[f] = "sendCount")
    BY <1>1
  <1>3. QED
    BY <1>2 DEF Sends, SendsAt

LEMMA ChainSame ==
    ASSUME NEW c \in Clients, Chain(c), s2c'[c] = s2c[c], Wants(c)' = Wants(c), Sends(c)' = Sends(c)
    PROVE  Chain(c)'
  BY DEF Chain, Due, After

\* A frame that is about to send to a client is alone in it.
LEMMA Alone ==
    ASSUME Base, Synced, stack # <<"main", "hup", "int">>, server = "up", NEW f \in Frames, Top = f,
           f # "main" => at[f] <= clientCount,
           NEW g \in {"main", "hup"} \ {f}
    PROVE  ~Sending(g, at[f])
  <1>1. stack \in Stacks /\ clientCount \in Nat
    BY DEF Base, FrameTypes, TallyTypes
  <1>2. CASE g = "hup"
    <2>1. stack \in {<<"main">>, <<"main", "int">>}
      BY <1>1, <1>2, TopFacts DEF Stacks, Frames
    <2>2. stack # <<"main", "hup">> /\ stack # <<"main", "hup", "int">>
          /\ stack # <<"main", "int", "hup">>
      BY <2>1
    <2>3. pc["hup"] = "off"
      BY <2>2 DEF Base, Handlers
    <2>4. QED
      BY <1>2, <2>3 DEF Sending
  <1>3. CASE g = "main"
    <2>1. pc["main"] \in {"sendProcs", "sendCount"} => at["main"] = clientCount + 1
      BY DEF Base, Dealing, Deals, Frames
    <2>2. at[f] <= clientCount
      BY <1>3
    <2>3. QED
      BY <1>1, <1>3, <2>1, <2>2 DEF Sending, Base, FrameTypes
  <1>4. QED
    BY <1>2, <1>3

LEMMA SendsOne ==
    ASSUME NEW p, NEW a, NEW c, NEW f \in {"main", "hup"},
           \A g \in {"main", "hup"} \ {f} : ~(a[g] = c /\ p[g] \in {"sendProcs", "sendCount"})
    PROVE  /\ a[f] = c /\ p[f] = "sendProcs" => SendsAt(p, a, c) = {"procs"}
           /\ a[f] = c /\ p[f] = "sendCount" => SendsAt(p, a, c) = {"count"}
           /\ ~(a[f] = c /\ p[f] \in {"sendProcs", "sendCount"}) =>
                 SendsAt(p, a, c) = {"config", "exit"}
  <1>1. CASE a[f] = c /\ p[f] = "sendProcs"
    <2>1. /\ \E g \in {"main", "hup"} : a[g] = c /\ p[g] = "sendProcs"
          /\ ~\E g \in {"main", "hup"} : a[g] = c /\ p[g] = "sendCount"
      BY <1>1
    <2>2. QED
      BY <1>1, <2>1 DEF SendsAt
  <1>2. CASE a[f] = c /\ p[f] = "sendCount"
    <2>1. /\ ~\E g \in {"main", "hup"} : a[g] = c /\ p[g] = "sendProcs"
          /\ \E g \in {"main", "hup"} : a[g] = c /\ p[g] = "sendCount"
      BY <1>2
    <2>2. QED
      BY <1>2, <2>1 DEF SendsAt
  <1>3. CASE ~(a[f] = c /\ p[f] \in {"sendProcs", "sendCount"})
    <2>1. /\ ~\E g \in {"main", "hup"} : a[g] = c /\ p[g] = "sendProcs"
          /\ ~\E g \in {"main", "hup"} : a[g] = c /\ p[g] = "sendCount"
      BY <1>3
    <2>2. QED
      BY <1>3, <2>1 DEF SendsAt
  <1>4. QED
    BY <1>1, <1>2, <1>3

\* A message that is due goes behind the others.
LEMMA ChainAppend ==
    ASSUME StreamTypes, NEW c \in Clients, Chain(c), NEW m \in Messages,
           s2c'[c] = Append(s2c[c], m), m.type \in Sends(c), Wants(c)' = Wants(c),
           Sends(c)' = After(m.type)
    PROVE  Chain(c)'
  <1> DEFINE q == s2c[c]
             r == Append(q, m)
  <1>1. /\ q \in Seq(Messages) /\ Len(q) \in Nat
        /\ r \in Seq(Messages) /\ Len(r) = Len(q) + 1
        /\ \A j \in 1..Len(q) : r[j] = q[j]
        /\ r[Len(q) + 1] = m
    BY AppendProperties, LenProperties DEF StreamTypes
  <1>2. q = <<>> <=> Len(q) = 0
    BY <1>1, EmptySeq
  <1>3. r # <<>>
    BY <1>1, EmptySeq
  <1>4. m.type \in Due(c)
    BY DEF Chain
  <1>5. r[1].type \in Wants(c)
    <2>1. CASE q = <<>>
      BY <1>1, <1>2, <1>4, <2>1 DEF Due
    <2>2. CASE q # <<>>
      BY <1>1, <1>2, <2>2 DEF Chain
    <2>3. QED
      BY <2>1, <2>2
  <1>6. ASSUME NEW i \in 1..(Len(r) - 1) PROVE r[i + 1].type \in After(r[i].type)
    <2>1. CASE i = Len(q)
      <3>1. q # <<>> /\ r[i] = q[Len(q)] /\ r[i + 1] = m
        BY <1>1, <1>2, <2>1
      <3>2. QED
        BY <1>4, <2>1, <3>1 DEF Due
    <2>2. CASE i # Len(q)
      <3>1. i \in 1..(Len(q) - 1) /\ r[i] = q[i] /\ r[i + 1] = q[i + 1]
        BY <1>1, <2>2
      <3>2. QED
        BY <3>1 DEF Chain
    <2>3. QED
      BY <2>1, <2>2
  <1>7. Due(c)' = After(m.type)
    BY <1>1, <1>3 DEF Due, After
  <1>8. QED
    BY <1>3, <1>5, <1>6, <1>7 DEF Chain, After

\* A message that is read makes room for the one behind it.
LEMMA ChainTail ==
    ASSUME StreamTypes, NEW c \in Clients, Chain(c), s2c[c] # <<>>,
           s2c'[c] = Tail(s2c[c]), Wants(c)' = After(s2c[c][1].type), Sends(c)' = Sends(c)
    PROVE  Chain(c)'
  <1> DEFINE q == s2c[c]
             r == Tail(q)
  <1>1. q \in Seq(Messages) /\ Len(q) \in Nat /\ Len(q) # 0
    BY EmptySeq, LenProperties DEF StreamTypes
  <1>2. /\ r \in Seq(Messages) /\ Len(r) = Len(q) - 1
        /\ \A j \in 1..Len(r) : r[j] = q[j + 1]
    BY <1>1, HeadTailProperties
  <1>3. r = <<>> <=> Len(q) = 1
    <2>1. r = <<>> <=> Len(r) = 0
      BY <1>2, EmptySeq
    <2>2. QED
      BY <1>1, <1>2, <2>1
  <1>4. r # <<>> => r[1].type \in After(q[1].type)
    BY <1>1, <1>2, <1>3 DEF Chain
  <1>5. ASSUME NEW i \in 1..(Len(r) - 1) PROVE r[i + 1].type \in After(r[i].type)
    <2>1. i + 1 \in 1..(Len(q) - 1) /\ r[i] = q[i + 1] /\ r[i + 1] = q[i + 1 + 1]
      BY <1>1, <1>2
    <2>2. QED
      BY <2>1 DEF Chain
  <1>6. Due(c)' = Due(c)
    <2>1. CASE r = <<>>
      BY <1>3, <2>1 DEF Due
    <2>2. CASE r # <<>>
      <3>1. r[Len(r)] = q[Len(q)]
        BY <1>1, <1>2, <1>3, <2>2
      <3>2. QED
        BY <2>2, <3>1 DEF Due, After
    <2>3. QED
      BY <2>1, <2>2
  <1>7. QED
    BY <1>4, <1>5, <1>6 DEF Chain, After

\* A step of the server that sends nothing, and one of the clients that reads
\* nothing.
LEMMA SyncedQuiet ==
    ASSUME Synced, stack = <<"main", "hup", "int">> => stack' = stack,
           UNCHANGED <<s2c, cl>>,
           \A f \in {"main", "hup"} :
              \/ /\ pc[f] \notin {"sendProcs", "sendCount"}
                 /\ pc'[f] \notin {"sendProcs", "sendCount"}
              \/ pc'[f] = pc[f] /\ at'[f] = at[f]
    PROVE  Synced'
  <1>1. CASE stack = <<"main", "hup", "int">>
    BY <1>1 DEF Synced
  <1>2. CASE stack # <<"main", "hup", "int">>
    <2> SUFFICES ASSUME NEW c \in Clients, Listens(c)' PROVE Chain(c)'
      BY DEF Synced
    <2>1. Listens(c) /\ Wants(c)' = Wants(c)
      BY DEF Listens, Wants
    <2>2. Sends(c)' = Sends(c)
      BY SendsSame DEF Sending
    <2>3. QED
      BY <1>2, <2>1, <2>2, ChainSame DEF Synced
  <1>3. QED
    BY <1>1, <1>2

LEMMA SyncedGoto ==
    ASSUME Base, Synced, NEW f \in Frames, Top = f, NEW p, NEW k, Goto(f, p, k),
           UNCHANGED <<s2c, cl>>,
           f = "int" \/ (/\ pc[f] \notin {"sendProcs", "sendCount"}
                         /\ p \notin {"sendProcs", "sendCount"})
    PROVE  Synced'
  <1>1. /\ stack' = stack /\ pc'[f] = p
        /\ \A g \in Frames \ {f} : pc'[g] = pc[g] /\ at'[g] = at[g]
    BY DEF Goto, Base, FrameTypes
  <1>2. \A g \in {"main", "hup"} :
           \/ /\ pc[g] \notin {"sendProcs", "sendCount"}
              /\ pc'[g] \notin {"sendProcs", "sendCount"}
           \/ pc'[g] = pc[g] /\ at'[g] = at[g]
    BY <1>1 DEF Frames
  <1>3. QED
    BY <1>1, <1>2, SyncedQuiet

\* The three writes of sendConfig and the exit request.
LEMMA SyncedWrite ==
    ASSUME Base, Synced, server = "up", NEW f \in Frames, Top = f,
           f # "main" => at[f] <= clientCount, at[f] \in Clients,
           NEW m \in Messages, Write(at[f], m), UNCHANGED cl,
           NEW p, NEW k, Goto(f, p, k),
           \/ f \in {"main", "hup"} /\ pc[f] = "send" /\ m.type = "config"
                 /\ p = "sendProcs" /\ k = at[f]
           \/ f \in {"main", "hup"} /\ pc[f] = "sendProcs" /\ m.type = "procs"
                 /\ p = "sendCount" /\ k = at[f]
           \/ f \in {"main", "hup"} /\ pc[f] = "sendCount" /\ m.type = "count"
                 /\ p \in {"accepted", "send"}
           \/ f = "int" /\ m.type = "exit"
    PROVE  Synced'
  <1>1. /\ stack' = stack /\ pc'[f] = p /\ at'[f] = k
        /\ \A g \in Frames \ {f} : pc'[g] = pc[g] /\ at'[g] = at[g]
    BY DEF Goto, Base, FrameTypes
  <1>2. CASE stack = <<"main", "hup", "int">>
    BY <1>1, <1>2 DEF Synced
  <1>3. CASE stack # <<"main", "hup", "int">>
    <2> SUFFICES ASSUME NEW c \in Clients, Listens(c)' PROVE Chain(c)'
      BY DEF Synced
    <2>1. Listens(c) /\ Wants(c)' = Wants(c) /\ Chain(c)
      BY <1>3 DEF Listens, Wants, Synced
    <2>2. CASE c # at[f]
      <3>1. s2c'[c] = s2c[c]
        BY <2>2, Written DEF Base
      <3>2. \A g \in {"main", "hup"} :
               \/ ~Sending(g, c) /\ ~Sending(g, c)'
               \/ pc'[g] = pc[g] /\ at'[g] = at[g]
        <4> SUFFICES ASSUME NEW g \in {"main", "hup"}
                     PROVE  \/ ~Sending(g, c) /\ ~Sending(g, c)'
                            \/ pc'[g] = pc[g] /\ at'[g] = at[g]
          OBVIOUS
        <4>1. CASE g = f
          BY <1>1, <2>2, <4>1 DEF Sending
        <4>2. CASE g # f
          BY <1>1, <4>2 DEF Frames
        <4>3. QED
          BY <4>1, <4>2
      <3>3. Sends(c)' = Sends(c)
        BY <3>2, SendsSame
      <3>4. QED
        BY <2>1, <3>1, <3>3, ChainSame
    <2>3. CASE c = at[f]
      <3>1. ~Closed(c)
        BY <2>1 DEF Closed, Listens
      <3>2. s2c'[c] = Append(s2c[c], m)
        BY <2>3, <3>1 DEF Write, Base, StreamTypes
      <3>3. \A g \in {"main", "hup"} \ {f} : ~Sending(g, c)
        BY <1>3, <2>3, Alone
      <3>4. \A g \in {"main", "hup"} \ {f} : ~Sending(g, c)'
        BY <1>1, <3>3 DEF Sending, Frames
      <3>5. m.type \in Sends(c) /\ Sends(c)' = After(m.type)
        <4>1. CASE f = "int"
          <5>1. ~Sending("main", c) /\ ~Sending("hup", c)
                /\ ~Sending("main", c)' /\ ~Sending("hup", c)'
            BY <3>3, <3>4, <4>1
          <5>2. Sends(c) = {"config", "exit"} /\ Sends(c)' = {"config", "exit"}
            BY <5>1 DEF Sending, Sends, SendsAt
          <5>3. QED
            BY <4>1, <5>2 DEF After
        <4>2. CASE f \in {"main", "hup"}
          <5>1. /\ at[f] = c /\ pc[f] = "sendProcs" => Sends(c) = {"procs"}
                /\ at[f] = c /\ pc[f] = "sendCount" => Sends(c) = {"count"}
                /\ ~Sending(f, c) => Sends(c) = {"config", "exit"}
            BY <3>3, <4>2, SendsOne DEF Sending, Sends
          <5>2. /\ at'[f] = c /\ pc'[f] = "sendProcs" => Sends(c)' = {"procs"}
                /\ at'[f] = c /\ pc'[f] = "sendCount" => Sends(c)' = {"count"}
                /\ ~Sending(f, c)' => Sends(c)' = {"config", "exit"}
            BY <3>4, <4>2, SendsOne DEF Sending, Sends
          <5>3. CASE pc[f] = "send" /\ m.type = "config" /\ p = "sendProcs" /\ k = at[f]
            BY <1>1, <2>3, <5>1, <5>2, <5>3 DEF Sending, After
          <5>4. CASE pc[f] = "sendProcs" /\ m.type = "procs" /\ p = "sendCount" /\ k = at[f]
            BY <1>1, <2>3, <5>1, <5>2, <5>4 DEF Sending, After
          <5>5. CASE pc[f] = "sendCount" /\ m.type = "count" /\ p \in {"accepted", "send"}
            BY <1>1, <2>3, <5>1, <5>2, <5>5 DEF Sending, After
          <5>6. QED
            BY <4>2, <5>3, <5>4, <5>5
        <4>3. QED
          BY <4>1, <4>2 DEF Frames
      <3>6. QED
        BY <2>1, <3>2, <3>5, ChainAppend DEF Base
    <2>4. QED
      BY <2>2, <2>3
  <1>4. QED
    BY <1>2, <1>3

\* A client that reads what it waits for.
LEMMA SyncedClient ==
    ASSUME Base, Synced, server = "up", NEW c \in Clients, ClientStep(c) \/ ClientChoice(c)
    PROVE  Synced'
  <1>1. UNCHANGED <<stack, pc, at>>
    BY DEF ClientStep, ClientChoice, ClientHeader, ClientConfig, ClientText, ClientExit,
           Connect, ClientOutput, ClientKill, ClientDies, frameVars
  <1>2. CASE stack = <<"main", "hup", "int">>
    BY <1>1, <1>2 DEF Synced
  <1>3. CASE stack # <<"main", "hup", "int">>
    <2> SUFFICES ASSUME NEW d \in Clients, Listens(d)' PROVE Chain(d)'
      BY DEF Synced
    <2>1. Sends(d)' = Sends(d)
      BY <1>1 DEF Sends
    <2>2. Listens(d) => Chain(d)
      BY <1>3 DEF Synced
    <2>3. CASE ClientText(c) \/ ClientOutput(c) \/ ClientKill(c)
      <3>1. UNCHANGED <<s2c, cl>>
        BY <2>3 DEF ClientText, ClientOutput, ClientKill
      <3>2. QED
        BY <2>1, <2>2, <3>1, ChainSame DEF Listens, Wants
    <2>4. CASE Connect(c) \/ ClientExit(c) \/ ClientDies(c)
      <3>1. UNCHANGED s2c
        BY <2>4 DEF Connect, ClientExit, ClientDies
      <3>2. \/ cl'[d] = cl[d]
            \/ d = c /\ cl[d] = "new" /\ cl'[d] = "waitConfig"
            \/ cl'[d] \in {"sendKills", "sendName", "gone", "killed"}
        BY <2>4 DEF Connect, ClientExit, ClientDies, Base, ClientTypes
      <3>3. Listens(d) /\ Wants(d)' = Wants(d)
        BY <3>2 DEF Listens, Wants
      <3>4. QED
        BY <2>1, <2>2, <3>1, <3>3, ChainSame
    <2>5. CASE ClientHeader(c) \/ ClientConfig(c)
      <3>1. cl[c] \in {"waitConfig", "run", "procs", "count"} /\ s2c[c] # <<>> /\ Swallow(c)
        BY <2>5 DEF ClientHeader, ClientConfig
      <3>2. CASE d # c
        <4>1. s2c'[d] = s2c[d]
          BY <3>1, <3>2, Swallowed DEF Base
        <4>2. cl'[d] = cl[d]
          BY <2>5, <3>2 DEF ClientHeader, ClientConfig, Base, ClientTypes
        <4>3. QED
          BY <2>1, <2>2, <4>1, <4>2, ChainSame DEF Listens, Wants
      <3>3. CASE d = c
        <4>1. Chain(c) /\ s2c'[c] = Tail(s2c[c])
          BY <2>2, <3>1, <3>3, Swallowed DEF Base, Listens
        <4>2. Head(s2c[c]) = s2c[c][1] /\ s2c[c][1].type \in Wants(c)
          BY <3>1, <4>1 DEF Chain
        <4>3. Wants(c)' = After(s2c[c][1].type)
          <5>1. CASE ClientHeader(c)
            <6>1. /\ cl[c] \in {"waitConfig", "run"} /\ s2c[c][1].type \in {"config", "exit"}
                  /\ cl'[c] = CASE Head(s2c[c]).type = "config" -> "procs"
                                [] Head(s2c[c]).type = "exit" /\ cl[c] = "run" -> "exiting"
                                [] OTHER -> "run"
              BY <4>2, <5>1 DEF ClientHeader, Wants, Base, ClientTypes
            <6>2. CASE s2c[c][1].type = "config"
              BY <4>2, <6>1, <6>2 DEF Wants, After
            <6>3. CASE s2c[c][1].type = "exit"
              <7>1. cl'[c] # "exiting"
                BY <3>3 DEF Listens
              <7>2. cl'[c] = "run"
                BY <4>2, <6>1, <6>3, <7>1
              <7>3. QED
                BY <6>3, <7>2 DEF Wants, After
            <6>4. QED
              BY <6>1, <6>2, <6>3
          <5>2. CASE ClientConfig(c)
            <6>1. /\ cl[c] \in {"procs", "count"} /\ s2c[c][1].type = cl[c]
                  /\ cl'[c] = IF cl[c] = "procs" THEN "count" ELSE "run"
              BY <4>2, <5>2 DEF ClientConfig, Wants, Base, ClientTypes
            <6>2. QED
              BY <6>1 DEF Wants, After
          <5>3. QED
            BY <2>5, <5>1, <5>2
        <4>4. QED
          BY <2>1, <3>1, <3>3, <4>1, <4>3, ChainTail DEF Base
      <3>4. QED
        BY <3>2, <3>3
    <2>6. QED
      BY <2>3, <2>4, <2>5 DEF ClientStep, ClientChoice
  <1>4. QED
    BY <1>2, <1>3

LEMMA SyncedSends ==
    ASSUME Base, Synced, NEW f \in {"main", "hup"}, SendHeader(f) \/ SendProcs(f) \/ SendCount(f)
    PROVE  Synced'
  <1>1. /\ f \in Frames /\ Top = f /\ server = "up" /\ at[f] \in Nat /\ UNCHANGED cl
        /\ pc[f] \in {"send", "sendProcs", "sendCount"} /\ Deals(f, pc[f], at[f])
    BY DEF SendHeader, SendProcs, SendCount, Running, Frames, Base, FrameTypes, Dealing, clientVars
  <1>2. clientCount \in 0..NClients /\ procsVer \in Nat /\ countVer \in Nat
    BY DEF Base, FrameTypes, TallyTypes
  <1>3. at[f] \in Clients /\ (f # "main" => at[f] <= clientCount)
    <2>1. CASE f = "main"
      BY <1>1, <1>2, <2>1, SizesAssumption DEF Deals, Clients
    <2>2. CASE f = "hup" /\ pc["hup"] = "send"
      <3>1. at["hup"] <= clientCount
        BY <2>2 DEF SendHeader, SendProcs, SendCount, Running
      <3>2. QED
        BY <1>1, <1>2, <2>2, <3>1, SizesAssumption DEF Deals, Clients
    <2>3. CASE f = "hup" /\ pc["hup"] \in {"sendProcs", "sendCount"}
      BY <1>1, <1>2, <2>3, SizesAssumption DEF Deals, Clients, Counted
    <2>4. QED
      BY <1>1, <2>1, <2>2, <2>3
  <1>4. CASE SendHeader(f)
    <2>1. /\ pc[f] = "send" /\ Write(at[f], Header("config")) /\ Goto(f, "sendProcs", at[f])
          /\ Header("config") \in Messages /\ Header("config").type = "config"
      BY <1>4, MsgType DEF SendHeader, Running, MsgTypes, Header, Msg
    <2>2. QED
      BY <1>1, <1>3, <2>1, SyncedWrite
  <1>5. CASE SendProcs(f)
    <2>1. /\ pc[f] = "sendProcs" /\ Write(at[f], Msg("procs", procsVer))
          /\ Goto(f, "sendCount", at[f])
          /\ Msg("procs", procsVer) \in Messages /\ Msg("procs", procsVer).type = "procs"
      BY <1>2, <1>5, MsgType DEF SendProcs, Running, MsgTypes, Msg
    <2>2. QED
      BY <1>1, <1>3, <2>1, SyncedWrite
  <1>6. CASE SendCount(f)
    <2>1. /\ pc[f] = "sendCount" /\ Write(at[f], Msg("count", countVer))
          /\ Msg("count", countVer) \in Messages /\ Msg("count", countVer).type = "count"
      BY <1>2, <1>6, MsgType DEF SendCount, Running, MsgTypes, Msg
    <2>2. PICK p \in {"accepted", "send"}, k \in {at[f], at[f] + 1} : Goto(f, p, k)
      BY <1>6 DEF SendCount
    <2>3. QED
      BY <1>1, <1>3, <2>1, <2>2, SyncedWrite
  <1>7. QED
    BY <1>4, <1>5, <1>6

LEMMA SyncedExit == ASSUME Base, Synced, SendExit PROVE Synced'
  <1>1. /\ "int" \in Frames /\ Top = "int" /\ server = "up" /\ at["int"] \in Nat /\ at["int"] > 0
        /\ UNCHANGED cl /\ clientCount \in 0..NClients
    BY DEF SendExit, Running, Frames, Base, FrameTypes, TallyTypes, Dealing, Deals, clientVars
  <1>2. CASE at["int"] <= clientCount
    <2>1. Write(at["int"], Header("exit")) /\ Goto("int", "exit", at["int"] + 1)
      BY <1>2 DEF SendExit
    <2>2. /\ at["int"] \in Clients
          /\ Header("exit") \in Messages /\ Header("exit").type = "exit"
      BY <1>1, <1>2, MsgType, SizesAssumption DEF Clients, MsgTypes, Header, Msg
    <2>3. QED
      BY <1>1, <1>2, <2>1, <2>2, SyncedWrite
  <1>3. CASE ~(at["int"] <= clientCount)
    <2>1. Goto("int", "wait", 1) /\ UNCHANGED s2c
      BY <1>3 DEF SendExit
    <2>2. QED
      BY <1>1, <2>1, SyncedGoto
  <1>4. QED
    BY <1>2, <1>3

\* The other steps of the server.
LEMMA SyncedReads ==
    ASSUME Base, Synced, NEW f \in {"main", "hup"}, ReadFile(f) \/ SetCount(f)
    PROVE  Synced'
  <1>1. /\ f \in Frames /\ Top = f /\ UNCHANGED <<s2c, cl>>
        /\ pc[f] \notin {"sendProcs", "sendCount"}
    BY DEF ReadFile, SetCount, Running, Frames, clientVars
  <1>2. UNCHANGED frameVars \/ \E k : \E p \in {"setCount", "select", "send"} : Goto(f, p, k)
    BY DEF ReadFile, SetCount
  <1>3. CASE UNCHANGED frameVars
    BY <1>1, <1>3, SyncedQuiet DEF frameVars
  <1>4. CASE \E k : \E p \in {"setCount", "select", "send"} : Goto(f, p, k)
    <2>1. PICK k : \E p \in {"setCount", "select", "send"} : Goto(f, p, k)
      BY <1>4
    <2>2. PICK p \in {"setCount", "select", "send"} : Goto(f, p, k)
      BY <2>1
    <2>3. QED
      BY <1>1, <2>2, SyncedGoto
  <1>5. QED
    BY <1>2, <1>3, <1>4

LEMMA SyncedMain ==
    ASSUME Base, Synced,
           Select \/ Accept \/ CountClient \/ ReadClient \/ ReadHeader("main") \/ ReadText("main")
    PROVE  Synced'
  <1> DEFINE Steps == {"accept", "send", "client", "wait", "select", "header", "text", "kills"}
  <1>1. /\ "main" \in Frames /\ Top = "main" /\ UNCHANGED <<s2c, cl>>
        /\ pc["main"] \notin {"sendProcs", "sendCount"}
    BY DEF Select, Accept, CountClient, ReadClient, ReadHeader, ReadText, ReadRest, Running,
       Frames, clientVars
  <1>2. UNCHANGED frameVars \/ \E k : \E p \in Steps : Goto("main", p, k)
    <2>1. CASE Select
      BY <2>1 DEF Select
    <2>2. CASE Accept
      BY <2>2 DEF Accept
    <2>3. CASE CountClient
      BY <2>3 DEF CountClient
    <2>4. CASE ReadClient
      BY <2>4 DEF ReadClient, Poll, Handle, Loop
    <2>5. CASE ReadHeader("main")
      BY <2>5 DEF ReadHeader, Handle, Loop
    <2>6. CASE ReadText("main")
      BY <2>6 DEF ReadText, Loop
    <2>7. QED
      BY <2>1, <2>2, <2>3, <2>4, <2>5, <2>6
  <1>3. CASE UNCHANGED frameVars
    BY <1>1, <1>3, SyncedQuiet DEF frameVars
  <1>4. CASE \E k : \E p \in Steps : Goto("main", p, k)
    <2>1. PICK k : \E p \in Steps : Goto("main", p, k)
      BY <1>4
    <2>2. PICK p \in Steps : Goto("main", p, k)
      BY <2>1
    <2>3. QED
      BY <1>1, <2>2, SyncedGoto
  <1>5. QED
    BY <1>2, <1>3, <1>4

LEMMA SyncedInt ==
    ASSUME Base, Synced,
           ReadHeader("int") \/ ReadText("int") \/ WaitForClients \/ ReadKills \/ ReadName
    PROVE  Synced'
  <1>1. "int" \in Frames /\ Top = "int" /\ UNCHANGED <<s2c, cl>>
    BY DEF ReadHeader, ReadText, WaitForClients, ReadKills, ReadName, ReadRest, Running, Frames,
       clientVars
  <1>2. \E p, k : Goto("int", p, k)
    <2>1. CASE ReadText("int")
      BY <2>1 DEF ReadText
    <2>2. CASE WaitForClients
      BY <2>2 DEF WaitForClients, Poll, Handle
    <2>3. CASE ReadKills
      BY <2>3 DEF ReadKills
    <2>4. CASE ReadName
      BY <2>4 DEF ReadName
    <2>5. CASE ReadHeader("int")
      BY <2>5 DEF ReadHeader, Handle
    <2>6. QED
      BY <2>1, <2>2, <2>3, <2>4, <2>5
  <1>3. PICK p, k : Goto("int", p, k)
    BY <1>2
  <1>4. QED
    BY <1>1, <1>3, SyncedGoto

LEMMA SyncedSignals == ASSUME Base, Synced, Sighup \/ Sigint \/ Return PROVE Synced'
  <1>1. UNCHANGED <<s2c, cl>> /\ pc \in [Frames -> Places] /\ stack \in Stacks
    BY DEF Sighup, Sigint, Deliver, Return, clientVars, Base, FrameTypes
  <1>2. CASE Return
    <2>1. /\ Top = "hup" /\ pc["hup"] = "send" /\ pc' = [pc EXCEPT !["hup"] = "off"]
          /\ at' = [at EXCEPT !["hup"] = 0]
      BY <1>2 DEF Return, Running
    <2>2. stack # <<"main", "hup", "int">>
      BY <1>1, <2>1, TopFacts
    <2>3. /\ pc'["hup"] = "off" /\ pc'["main"] = pc["main"] /\ at'["main"] = at["main"]
      BY <1>1, <2>1 DEF Base, FrameTypes, Frames
    <2>4. QED
      BY <1>1, <2>1, <2>2, <2>3, SyncedQuiet
  <1>3. CASE Sighup
    <2>1. /\ stack' = Append(stack, "hup") /\ "hup" \notin Active
          /\ pc' = [pc EXCEPT !["hup"] = "readFile"] /\ at' = [at EXCEPT !["hup"] = 0]
      BY <1>3 DEF Sighup, Deliver
    <2>2. stack \in {<<"main">>, <<"main", "int">>}
      BY <1>1, <2>1, Pushed
    <2>3. pc["hup"] = "off" /\ stack # <<"main", "hup", "int">>
      <3>1. stack # <<"main", "hup">> /\ stack # <<"main", "hup", "int">>
            /\ stack # <<"main", "int", "hup">>
        BY <2>2
      <3>2. QED
        BY <3>1 DEF Base, Handlers
    <2>4. pc'["hup"] = "readFile" /\ pc'["main"] = pc["main"] /\ at'["main"] = at["main"]
      BY <1>1, <2>1 DEF Base, FrameTypes, Frames
    <2>5. QED
      BY <1>1, <2>3, <2>4, SyncedQuiet
  <1>4. CASE Sigint
    <2>1. /\ stack' = Append(stack, "int") /\ "int" \notin Active
          /\ pc' = [pc EXCEPT !["int"] = "exit"] /\ at' = [at EXCEPT !["int"] = 1]
      BY <1>4 DEF Sigint, Deliver
    <2>2. stack \in {<<"main">>, <<"main", "hup">>}
      BY <1>1, <2>1, Pushed
    <2>3. stack # <<"main", "hup", "int">>
      BY <2>2
    <2>4. /\ pc'["hup"] = pc["hup"] /\ at'["hup"] = at["hup"]
          /\ pc'["main"] = pc["main"] /\ at'["main"] = at["main"]
      BY <1>1, <2>1 DEF Base, FrameTypes, Frames
    <2>5. QED
      BY <1>1, <2>3, <2>4, SyncedQuiet
  <1>5. QED
    BY <1>2, <1>3, <1>4

LEMMA SyncedInit == Init => Synced
  <1> SUFFICES ASSUME Init, NEW c \in Clients PROVE Chain(c)
    BY DEF Synced
  <1>1. s2c[c] = <<>> /\ cl[c] = "new"
    BY DEF Init
  <1>2. \A f \in {"main", "hup"} : pc[f] \notin {"sendProcs", "sendCount"}
    BY DEF Init, Frames
  <1>3. Sends(c) = {"config", "exit"}
    BY <1>2 DEF Sends, SendsAt
  <1>4. Due(c) = {"config", "exit"}
    BY <1>1 DEF Due, Wants
  <1>5. 1..(Len(s2c[c]) - 1) = {}
    BY <1>1
  <1>6. QED
    BY <1>1, <1>3, <1>4, <1>5 DEF Chain

LEMMA NextSynced == ASSUME Base, Synced, [Next]_vars PROVE Synced'
  <1>1. ASSUME NEW f \in {"main", "hup"},
               ReadFile(f) \/ SetCount(f) \/ SendHeader(f) \/ SendProcs(f) \/ SendCount(f)
        PROVE  Synced'
    BY <1>1, SyncedReads, SyncedSends
  <1>2. ASSUME NEW f \in {"main", "int"}, ReadHeader(f) \/ ReadText(f) PROVE Synced'
    BY <1>2, SyncedMain, SyncedInt
  <1>3. CASE Final \/ UNCHANGED vars
    <2>1. UNCHANGED <<stack, pc, at, s2c, cl>>
      BY <1>3 DEF Final, vars, frameVars, clientVars
    <2>2. QED
      BY <2>1, SyncedQuiet
  <1>4. CASE ServerStep
    BY <1>1, <1>2, <1>3, <1>4, SyncedMain, SyncedInt, SyncedSignals, SyncedExit DEF ServerStep
  <1>5. QED
    BY <1>3, <1>4, SyncedSignals, SyncedClient DEF Next, Finished

-----------------------------------------------------------------------------
(* The theorems.                                                           *)

LEMMA BaseHolds == Spec => []Base
  BY InitBase, NextBase, PTL DEF Spec

LEMMA TallyOrFull == Spec => [](Tally \/ Full)
  <1>1. Init => Tally
    BY InitBase, TallyInit DEF Tally
  <1>2. (Tally \/ Full) /\ [Next]_vars => (Tally \/ Full)'
    BY NextTally, NextFull
  <1>3. QED
    BY <1>1, <1>2, PTL DEF Spec

\* The activations of the signal handlers nest as the signal masks allow, and every
\* frame deals with a client that exists.
THEOREM Typed == Spec => []TypeOK
  BY BaseHolds, BaseTypes, PTL

\* The server exits cleanly only when everybody it counted has confirmed, however
\* many clients and signals there are: the array holds as many different clients
\* as exited says, each of them counted, so a full count leaves nobody out, and a
\* write behind the array, if it goes unnoticed, is the last.
THEOREM StopsCorrect == Spec => []StopsAfterAll
  <1>1. Tally \/ Full => StopsAfterAll
    <2> SUFFICES ASSUME Tally \/ Full, server = "done", HeadersRead, NEW c \in Counted
                 PROVE  report[c] # -1
      BY DEF StopsAfterAll
    <2>1. CASE Tally
      <3>1. c \in Marked
        BY <2>1, ArrayBound DEF Tally, Array
      <3>2. QED
        BY <2>1, <3>1 DEF Tally, Honest
    <2>2. CASE Full
      BY <2>2 DEF Full
    <2>3. QED
      BY <2>1, <2>2
  <1>2. QED
    BY <1>1, TallyOrFull, PTL

\* For any number of clients up to the size of the array, exited leaves it only with
\* the last of MaxClients confirmations: nobody is entered twice, so one confirmation
\* per client is all that is ever written.
THEOREM ArrayCorrect == Spec => []OverrunOnlyWhenFull
  <1>1. Tally \/ Full => OverrunOnlyWhenFull
    <2> SUFFICES ASSUME Tally \/ Full, exited \notin DOMAIN exitedClients
                 PROVE  /\ exited = MaxClients /\ clientCount = MaxClients
                        /\ HeadersRead => \A c \in Counted : report[c] # -1
      BY DEF OverrunOnlyWhenFull
    <2>1. CASE Tally
      <3>1. /\ DOMAIN exitedClients = 0..(MaxClients - 1) /\ MaxClients \in Nat
            /\ exited \in Nat /\ exited < MaxClients
        BY <2>1, SizesAssumption DEF Tally, Base, TallyTypes, Array
      <3>2. QED
        BY <3>1
    <2>2. CASE Full
      BY <2>2 DEF Full
    <2>3. QED
      BY <2>1, <2>2
  <1>2. QED
    BY <1>1, TallyOrFull, PTL

\* No client takes a part of a configuration for a header, whatever SIGHUP
\* interrupts: the frames never send to the same client at once.
THEOREM FramingCorrect == Spec => []InStep
  <1>1. Init => Base /\ Synced
    BY InitBase, SyncedInit
  <1>2. Base /\ Synced /\ [Next]_vars => (Base /\ Synced)'
    BY NextBase, NextSynced
  <1>3. Base /\ Synced => InStep
    <2> SUFFICES ASSUME Base, Synced, stack # <<"main", "hup", "int">>,
                        NEW c \in Clients, s2c[c] # <<>>
                 PROVE  Head(s2c[c]).type \in Expected(c)
      BY DEF InStep
    <2>1. s2c[c] \in Seq(Messages) /\ Head(s2c[c]) = s2c[c][1]
      BY DEF Base, StreamTypes
    <2>2. Head(s2c[c]).type \in MsgTypes
      <3>1. Head(s2c[c]) \in Messages
        BY <2>1, HeadTailProperties
      <3>2. QED
        BY <3>1 DEF Messages
    <2>3. Listens(c) => Head(s2c[c]).type \in Wants(c)
      BY <2>1 DEF Synced, Chain
    <2>4. QED
      BY <2>2, <2>3 DEF Expected, Listens, Wants
  <1>4. QED
    BY <1>1, <1>2, <1>3, PTL DEF Spec
=============================================================================
