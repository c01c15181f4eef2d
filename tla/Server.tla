------------------------------- MODULE Server --------------------------------
(***************************************************************************)
(* The procnanny server, version 3, with the client processes connected to *)
(* it.  The server is one thread: serverLoop, which accepts clients, sends *)
(* them the configuration and prints what they write, and the handler of   *)
(* SIGHUP and SIGINT, which runs on top of whatever it interrupts.         *)
(*                                                                         *)
(* A frame is one activation: "main", "hup" or "int".  The last one of     *)
(* stack runs; a signal is blocked only while its own frame exists.  Every *)
(* read and write of a socket is a step of its own, so a handler can start *)
(* between any two of them, or while one of them waits.  A client is the   *)
(* order of its reads and writes and the count it reports; clients are     *)
(* numbered in the order in which they connect, which is their index in    *)
(* clients[].  Texts and node names are left out; a configuration is its   *)
(* version number.                                                         *)
(***************************************************************************)
EXTENDS Integers, Sequences, FiniteSets

CONSTANTS
    NClients,    \* clients that may connect
    MaxClients,  \* size of the arrays clients and exitedClients (32)
    MaxHups,     \* bound: SIGHUP signals
    MaxOutputs,  \* bound: log lines a client sends
    MaxKills,    \* bound: kills on a node
    MaxCrashes   \* bound: clients killed from outside

ASSUME SizesAssumption ==
    /\ {NClients, MaxClients, MaxHups, MaxOutputs, MaxKills, MaxCrashes} \subseteq Nat
    /\ 0 < NClients /\ NClients <= MaxClients

VARIABLES
    server,         \* "up", "done" (clean exit), "quit" (unusable file, failed
                    \* accept), "killed", "overrun" (wrote past exitedClients)
    stack,          \* frames, the running one last
    pc,             \* where every frame is
    at,             \* loop counter i of every frame (readFile: version it reads)
    hups, crashes,  \* counters behind the bounds
    eintr,          \* the call below the "hup" frame will return -1
    failedReads,    \* history: the places where a read has returned -1
    file,           \* version of the configuration file, 0 if it is unusable
    procsVer, countVer,   \* versions that monitorProcs and procCount hold
    clientCount, killCount, nodenames, exited, exitedClients,
    logged,         \* lines of every client in the log file
    s2c, c2s,       \* the two directions of every connection
    cl,             \* where every client is
    half,           \* client has written the header of a line, not its text
    cfg,            \* versions of the client's monitorProcs and procCount
    kills, report,  \* kills on the client's node; the count it confirmed
    outs            \* lines every client has written

frameVars  == <<stack, pc, at, eintr, hups>>
fileVars   == <<file, procsVer, countVer>>
tallyVars  == <<killCount, nodenames, exited, exitedClients>>
clientVars == <<cl, half, cfg, kills, report, outs, crashes>>
vars == <<server, frameVars, failedReads, fileVars, clientCount, tallyVars,
          logged, s2c, c2s, clientVars>>

Clients == 1..NClients
Frames  == {"main", "hup", "int"}
Top     == stack[Len(stack)]
Active  == {stack[k] : k \in 1..Len(stack)}

\* What travels: the parts of sendConfig and the exit request; log lines and
\* the parts of a confirmation.  v is a version or a count.
Msg(t, v) == [type |-> t, v |-> v]
Header(t) == Msg(t, 0)

\* What a header buffer may hold when nothing was read into it.
AnyHeader == {"output", "exit", "other"}

Closed(c) == cl[c] \in {"gone", "killed"}

Init ==
    /\ server = "up" /\ stack = <<"main">> /\ eintr = FALSE
    /\ pc = [f \in Frames |-> IF f = "main" THEN "readFile" ELSE "off"]
    /\ at = [f \in Frames |-> 0]
    /\ hups = 0 /\ crashes = 0 /\ failedReads = {}
    /\ file = 1 /\ procsVer = 0 /\ countVer = 0
    /\ clientCount = 0 /\ killCount = 0 /\ nodenames = {} /\ exited = 0
    /\ exitedClients = [k \in 0..(MaxClients - 1) |-> 0]
    /\ logged = [c \in Clients |-> 0]
    /\ s2c = [c \in Clients |-> <<>>] /\ c2s = [c \in Clients |-> <<>>]
    /\ cl = [c \in Clients |-> "new"] /\ half = [c \in Clients |-> FALSE]
    /\ cfg = [c \in Clients |-> [procs |-> 0, count |-> 0]]
    /\ kills = [c \in Clients |-> 0] /\ report = [c \in Clients |-> -1]
    /\ outs = [c \in Clients |-> 0]

-----------------------------------------------------------------------------
(* Slips this code could contain.  No action uses them: put in the place of *)
(* the definition named behind each, they show that a property notices.    *)

AllButOneExited == exited + 1 >= clientCount                 \* AllExited
MoreThanAllExited == exited > clientCount                    \* AllExited

\* MarkExited, without an entry in exitedClients.
ForgetExited(c) ==
    /\ exited' = exited + 1 /\ UNCHANGED exitedClients
    /\ server' \in IF exited' \in DOMAIN exitedClients THEN {"up"} ELSE {"up", "overrun"}

\* HeaderRead, with a waitForClients that knows "exit" only.
ExitOnly(c) ==
    IF c2s[c] = <<>> THEN {"output", "exit", "other"}
    ELSE {IF stack[Len(stack)] = "int" /\ Head(c2s[c]).type = "output"
            THEN "other" ELSE Head(c2s[c]).type}

\* Deliver, with the signal not blocked in its own handler.
Reentrant(s) ==
    /\ server = "up"
    /\ stack' = Append(stack, s)
    /\ pc' = [pc EXCEPT ![s] = IF s = "hup" THEN "readFile" ELSE "exit"]
    /\ at' = [at EXCEPT ![s] = IF s = "hup" THEN 0 ELSE 1]
    /\ UNCHANGED <<server, failedReads, procsVer, countVer, clientCount,
                   tallyVars, logged, s2c, c2s, clientVars>>

\* CountClient moved before sendConfig, into Select.
CountFirst ==
    /\ server = "up" /\ stack = <<"main">> /\ pc["main"] = "select"
    /\ LET pending == clientCount + 1 \in Clients /\ cl[clientCount + 1] # "new" IN
       /\ clientCount' = IF pending THEN clientCount + 1 ELSE clientCount
       /\ pc' = [pc EXCEPT !["main"] = IF pending THEN "send" ELSE "client"]
       /\ at' = [at EXCEPT !["main"] = IF pending THEN clientCount + 1 ELSE 1]
    /\ eintr' = FALSE
    /\ UNCHANGED <<server, stack, hups, failedReads, fileVars, tallyVars,
                   logged, s2c, c2s, clientVars>>

\* SetCount, with a handler that starts at the second client.
SkipsFirst(f) ==
    /\ server = "up" /\ stack[Len(stack)] = f /\ pc[f] = "setCount"
    /\ countVer' = at[f]
    /\ pc' = [pc EXCEPT ![f] = IF f = "main" THEN "select" ELSE "send"]
    /\ at' = [at EXCEPT ![f] = IF f = "main" THEN 0 ELSE 2]
    /\ UNCHANGED <<server, stack, hups, eintr, file, procsVer, failedReads,
                   clientCount, tallyVars, logged, s2c, c2s, clientVars>>

-----------------------------------------------------------------------------
(* Frames.                                                                 *)

Running(f, p) == server = "up" /\ Top = f /\ pc[f] = p

Goto(f, p, k) ==
    /\ pc' = [pc EXCEPT ![f] = p]
    /\ at' = [at EXCEPT ![f] = k]
    /\ UNCHANGED <<stack, hups>>

\* A signal starts its handler on top of the running frame.
Deliver(s) ==
    /\ server = "up" /\ s \notin Active
    /\ stack' = Append(stack, s)
    /\ pc' = [pc EXCEPT ![s] = IF s = "hup" THEN "readFile" ELSE "exit"]
    /\ at' = [at EXCEPT ![s] = IF s = "hup" THEN 0 ELSE 1]
    /\ UNCHANGED <<server, failedReads, procsVer, countVer, clientCount,
                   tallyVars, logged, s2c, c2s, clientVars>>

\* accept stores the new socket at clients[clientCount].
Pending == clientCount + 1 \in Clients /\ cl[clientCount + 1] # "new"

Readable(c) == c2s[c] # <<>> \/ Closed(c)

ClientExited(c) == \E k \in DOMAIN exitedClients : exitedClients[k] = c

\* The call that frame f is in finds nothing.  SA_RESTART is not set: accept, a
\* read and even select, which only polls, then return -1 once SIGHUP is handled.
Waiting(f) ==
    LET c == at[f] IN
    \/ pc[f] \in {"select", "accept"} /\ ~Pending
    \/ pc[f] = "client" /\ c <= clientCount /\ ~Readable(c)
    \/ pc[f] = "wait" /\ c <= clientCount /\ ~ClientExited(c) /\ ~Readable(c)
    \/ pc[f] \in {"header", "text", "kills", "name"} /\ ~Readable(c)

\* The file may have been edited before SIGHUP is sent; version 0 is one that is
\* missing or lists "procnanny".
Sighup == /\ hups < MaxHups /\ hups' = hups + 1
          /\ Deliver("hup")
          /\ eintr' \in {FALSE, Waiting(Top)}
          /\ file' \in {0, file, file + 1}

\* The frames below never run again: the handler ends with exit.
Sigint == Deliver("int") /\ eintr' = FALSE /\ UNCHANGED <<hups, file>>

Return ==
    /\ Running("hup", "send") /\ at["hup"] > clientCount
    /\ stack' = SubSeq(stack, 1, Len(stack) - 1)
    /\ pc' = [pc EXCEPT !["hup"] = "off"]
    /\ at' = [at EXCEPT !["hup"] = 0]
    /\ UNCHANGED <<server, hups, eintr, failedReads, fileVars, clientCount,
                   tallyVars, logged, s2c, c2s, clientVars>>

-----------------------------------------------------------------------------
(* The configuration file.                                                 *)

\* readFile fills monitorProcs first and sets procCount at its end.
ReadFile(f) ==
    /\ Running(f, "readFile")
    /\ IF file = 0
         THEN server' = "quit" /\ UNCHANGED <<frameVars, procsVer>>
         ELSE /\ procsVer' = file
              /\ Goto(f, "setCount", file)
              /\ UNCHANGED <<server, eintr>>
    /\ UNCHANGED <<file, countVer, failedReads, clientCount, tallyVars, logged,
                   s2c, c2s, clientVars>>

SetCount(f) ==
    /\ Running(f, "setCount")
    /\ countVer' = at[f]
    /\ IF f = "main" THEN Goto(f, "select", 0) ELSE Goto(f, "send", 1)
    /\ UNCHANGED <<server, eintr, file, procsVer, failedReads, clientCount,
                   tallyVars, logged, s2c, c2s, clientVars>>

-----------------------------------------------------------------------------
(* Sending.                                                                *)

\* A write to a connection the client has closed may still succeed, or raise
\* SIGPIPE, which nobody handles.
Write(c, m) ==
    IF Closed(c)
      THEN server' \in {"up", "killed"} /\ UNCHANGED s2c
      ELSE s2c' = [s2c EXCEPT ![c] = Append(@, m)] /\ UNCHANGED server

\* sendConfig, for the client at[f]: three writes.
SendHeader(f) ==
    /\ Running(f, "send") /\ (f = "hup" => at[f] <= clientCount)
    /\ Write(at[f], Header("config"))
    /\ Goto(f, "sendProcs", at[f])
    /\ UNCHANGED <<eintr, failedReads, fileVars, clientCount, tallyVars,
                   logged, c2s, clientVars>>

SendProcs(f) ==
    /\ Running(f, "sendProcs")
    /\ Write(at[f], Msg("procs", procsVer))
    /\ Goto(f, "sendCount", at[f])
    /\ UNCHANGED <<eintr, failedReads, fileVars, clientCount, tallyVars,
                   logged, c2s, clientVars>>

SendCount(f) ==
    /\ Running(f, "sendCount")
    /\ Write(at[f], Msg("count", countVer))
    /\ IF f = "main" THEN Goto(f, "accepted", at[f]) ELSE Goto(f, "send", at[f] + 1)
    /\ UNCHANGED <<eintr, failedReads, fileVars, clientCount, tallyVars,
                   logged, c2s, clientVars>>

\* The SIGINT handler's request, for one client after the other.
SendExit ==
    /\ Running("int", "exit")
    /\ IF at["int"] <= clientCount
         THEN /\ Write(at["int"], Header("exit"))
              /\ Goto("int", "exit", at["int"] + 1)
         ELSE Goto("int", "wait", 1) /\ UNCHANGED <<server, s2c>>
    /\ UNCHANGED <<eintr, failedReads, fileVars, clientCount, tallyVars,
                   logged, c2s, clientVars>>

-----------------------------------------------------------------------------
(* serverLoop and readClientMessages.                                      *)

\* A select that returned -1 passes for one that found a client.
Select ==
    /\ Running("main", "select")
    /\ IF eintr        THEN Goto("main", "accept", 0)
       ELSE IF Pending THEN Goto("main", "send", clientCount + 1)
                       ELSE Goto("main", "client", 1)
    /\ eintr' = FALSE
    /\ UNCHANGED <<server, failedReads, fileVars, clientCount, tallyVars,
                   logged, s2c, c2s, clientVars>>

\* An accept that waits; if it fails the server exits.
Accept ==
    /\ Running("main", "accept")
    /\ IF eintr THEN server' = "quit" /\ UNCHANGED frameVars
                ELSE /\ Pending /\ Goto("main", "send", clientCount + 1)
                     /\ UNCHANGED <<server, eintr>>
    /\ UNCHANGED <<failedReads, fileVars, clientCount, tallyVars, logged,
                   s2c, c2s, clientVars>>

CountClient ==
    /\ Running("main", "accepted")
    /\ clientCount' = at["main"]
    /\ Goto("main", "client", 1)
    /\ UNCHANGED <<server, eintr, failedReads, fileVars, tallyVars, logged,
                   s2c, c2s, clientVars>>

Take(c) == c2s' = [c2s EXCEPT ![c] = IF @ = <<>> THEN @ ELSE Tail(@)]

\* What reading a header gives.  A text read as a header is read eight bytes at
\* a time, 32 times, none of which is a header.  At end of file the buffer
\* stays what it was.
HeaderRead(c) == IF c2s[c] # <<>> THEN {Head(c2s[c]).type} ELSE AnyHeader

\* Where a frame goes on when it has done with a client, and with a header.
Loop(f) == IF f = "main" THEN "client" ELSE "wait"
Handle(f, c, h) ==
    IF h = "output"                   THEN Goto(f, "text", c)
    ELSE IF h = "exit" /\ f = "int"   THEN Goto(f, "kills", c)
                                      ELSE Goto(f, Loop(f), c + 1)

\* Whether client c has written, and its header.  After a select that returned
\* -1 the header is read too, in a step of its own: nothing may be there.
Poll(f, c) ==
    /\ eintr' = FALSE
    /\ IF eintr THEN Goto(f, "header", c) /\ UNCHANGED c2s
       ELSE IF ~Readable(c) THEN Goto(f, Loop(f), c + 1) /\ UNCHANGED c2s
       ELSE Take(c) /\ \E h \in HeaderRead(c) : Handle(f, c, h)

\* readClientMessages skips a client whose read returns 0; a connection that
\* was reset makes it return -1 and is not skipped.
ReadClient ==
    LET c == at["main"] IN
    /\ Running("main", "client")
    /\ IF c <= clientCount THEN Poll("main", c)
       ELSE Goto("main", "select", 0) /\ UNCHANGED <<eintr, c2s>>
    /\ UNCHANGED <<server, failedReads, fileVars, clientCount, tallyVars,
                   logged, s2c, clientVars>>

\* A read that waits for the client, unless the frame was interrupted in it; got
\* tells whether the buffer was filled.
ReadRest(f, p, got) ==
    LET c == at[f] IN
    /\ Running(f, p)
    /\ IF eintr
         THEN /\ ~got /\ eintr' = FALSE /\ failedReads' = failedReads \cup {p}
              /\ UNCHANGED c2s
         ELSE /\ Readable(c) /\ got = (c2s[c] # <<>>)
              /\ Take(c)
              /\ UNCHANGED <<eintr, failedReads>>

\* The header behind a select that returned -1.
ReadHeader(f) ==
    LET c == at[f] IN
    /\ \E got \in BOOLEAN :
          /\ ReadRest(f, "header", got)
          /\ \E h \in IF got THEN HeaderRead(c) ELSE AnyHeader : Handle(f, c, h)
    /\ UNCHANGED <<server, fileVars, clientCount, tallyVars, logged, s2c, clientVars>>

\* The text of an "output" goes to the log file, whatever the buffer holds.
ReadText(f) ==
    LET c == at[f] IN
    /\ \E got \in BOOLEAN :
          /\ ReadRest(f, "text", got)
          /\ logged' = IF got THEN [logged EXCEPT ![c] = @ + 1] ELSE logged
    /\ Goto(f, Loop(f), c + 1)
    /\ UNCHANGED <<server, fileVars, clientCount, tallyVars, s2c, clientVars>>

-----------------------------------------------------------------------------
(* waitForClients.                                                         *)

\* exitedClients[++exited]: entry 0 stays unused.  Behind a full array the write
\* goes unnoticed, or it changes another variable and nothing is known any more.
MarkExited(c) ==
    /\ exited' = exited + 1
    /\ exitedClients' = [k \in DOMAIN exitedClients |->
                            IF k = exited + 1 THEN c ELSE exitedClients[k]]
    /\ server' \in IF exited' \in DOMAIN exitedClients THEN {"up"} ELSE {"up", "overrun"}

AllExited == exited >= clientCount

WaitForClients ==
    LET c == at["int"] IN
    /\ Running("int", "wait")
    /\ IF c > clientCount
         THEN /\ IF AllExited THEN Goto("int", "final", 0) ELSE Goto("int", "wait", 1)
              /\ UNCHANGED <<eintr, c2s>>
       ELSE IF ClientExited(c)
         THEN Goto("int", "wait", c + 1) /\ UNCHANGED <<eintr, c2s>>
         ELSE Poll("int", c)
    /\ UNCHANGED <<server, failedReads, fileVars, clientCount, tallyVars,
                   logged, s2c, clientVars>>

\* A count that was not read is whatever the stack held.
ReadKills ==
    LET c == at["int"] IN
    /\ \E got \in BOOLEAN, n \in 0..MaxKills :
          /\ ReadRest("int", "kills", got)
          /\ got => n = Head(c2s[c]).v
          /\ killCount' = killCount + n
          /\ IF n > 0
               THEN Goto("int", "name", c) /\ UNCHANGED <<server, exited, exitedClients>>
               ELSE Goto("int", "wait", c + 1) /\ MarkExited(c)
    /\ UNCHANGED <<fileVars, clientCount, nodenames, logged, s2c, clientVars>>

ReadName ==
    LET c == at["int"] IN
    /\ \E got \in BOOLEAN : ReadRest("int", "name", got)
    /\ nodenames' = nodenames \cup {c}
    /\ MarkExited(c)
    /\ Goto("int", "wait", c + 1)
    /\ UNCHANGED <<fileVars, clientCount, killCount, logged, s2c, clientVars>>

\* The final message is printed and the server exits.
Final ==
    /\ Running("int", "final")
    /\ server' = "done"
    /\ UNCHANGED <<frameVars, failedReads, fileVars, clientCount, tallyVars,
                   logged, s2c, c2s, clientVars>>

ServerStep ==
    \/ \E f \in {"main", "hup"} : \/ ReadFile(f) \/ SetCount(f) \/ SendHeader(f)
                                  \/ SendProcs(f) \/ SendCount(f)
    \/ Return \/ Select \/ Accept \/ CountClient \/ ReadClient
    \/ \E f \in {"main", "int"} : ReadHeader(f) \/ ReadText(f)
    \/ SendExit \/ WaitForClients \/ ReadKills \/ ReadName \/ Final

-----------------------------------------------------------------------------
(* A client process, seen from its socket.                                 *)

\* At most one client at a time is on its way; the socket listens by then.
Connect(c) ==
    /\ cl[c] = "new"
    /\ pc["main"] \notin {"readFile", "setCount"}
    /\ c > 1 => cl[c - 1] # "new"
    /\ cl' = [cl EXCEPT ![c] = "waitConfig"]
    /\ UNCHANGED <<server, frameVars, failedReads, fileVars, clientCount,
                   tallyVars, logged, s2c, c2s, half, cfg, kills, report, outs,
                   crashes>>

Swallow(c) == s2c' = [s2c EXCEPT ![c] = Tail(@)]

\* receiveConfig and readServerMessages: the header.
ClientHeader(c) ==
    /\ cl[c] \in {"waitConfig", "run"} /\ ~half[c]
    /\ s2c[c] # <<>> /\ Swallow(c)
    /\ cl' = [cl EXCEPT ![c] =
                 CASE Head(s2c[c]).type = "config" -> "procs"
                   [] Head(s2c[c]).type = "exit" /\ cl[c] = "run" -> "exiting"
                   [] OTHER -> "run"]
    /\ UNCHANGED <<server, frameVars, failedReads, fileVars, clientCount,
                   tallyVars, logged, c2s, half, cfg, kills, report, outs,
                   crashes>>

\* The two reads behind a config header take whatever comes next.
ClientConfig(c) ==
    /\ cl[c] \in {"procs", "count"}
    /\ s2c[c] # <<>> /\ Swallow(c)
    /\ cfg' = [cfg EXCEPT ![c][cl[c]] = Head(s2c[c]).v]
    /\ cl' = [cl EXCEPT ![c] = IF @ = "procs" THEN "count" ELSE "run"]
    /\ UNCHANGED <<server, frameVars, failedReads, fileVars, clientCount,
                   tallyVars, logged, c2s, half, kills, report, outs, crashes>>

Say(c, m) == c2s' = [c2s EXCEPT ![c] = Append(@, m)]

\* timestampToServer, the first of its two writes.
ClientOutput(c) ==
    /\ cl[c] \in {"waitConfig", "run", "exiting"} /\ ~half[c]
    /\ outs[c] < MaxOutputs
    /\ Say(c, Header("output"))
    /\ half' = [half EXCEPT ![c] = TRUE]
    /\ UNCHANGED <<server, frameVars, failedReads, fileVars, clientCount,
                   tallyVars, logged, s2c, cl, cfg, kills, report, outs, crashes>>

ClientText(c) ==
    /\ half[c] /\ ~Closed(c)
    /\ Say(c, Header("text"))
    /\ half' = [half EXCEPT ![c] = FALSE]
    /\ outs' = [outs EXCEPT ![c] = @ + 1]
    /\ UNCHANGED <<server, frameVars, failedReads, fileVars, clientCount,
                   tallyVars, logged, s2c, cl, cfg, kills, report, crashes>>

\* A child of the client kills a process.  The children start with the first
\* configuration, and all are gone by the time cleanExit answers.
ClientKill(c) ==
    /\ cl[c] \in {"procs", "count", "run", "exiting"} /\ cfg[c].count # 0
    /\ kills[c] < MaxKills
    /\ kills' = [kills EXCEPT ![c] = @ + 1]
    /\ UNCHANGED <<server, frameVars, failedReads, fileVars, clientCount,
                   tallyVars, logged, s2c, c2s, cl, half, cfg, report, outs,
                   crashes>>

\* cleanExit: header, count, node name if the count is positive, shutdown.
ClientExit(c) ==
    /\ \/ /\ cl[c] = "exiting" /\ ~half[c]
          /\ Say(c, Header("exit"))
          /\ report' = [report EXCEPT ![c] = kills[c]]
          /\ cl' = [cl EXCEPT ![c] = "sendKills"]
       \/ /\ cl[c] = "sendKills"
          /\ Say(c, Msg("kills", report[c]))
          /\ cl' = [cl EXCEPT ![c] = IF report[c] > 0 THEN "sendName" ELSE "gone"]
          /\ UNCHANGED report
       \/ /\ cl[c] = "sendName"
          /\ Say(c, Header("name"))
          /\ cl' = [cl EXCEPT ![c] = "gone"]
          /\ UNCHANGED report
    /\ UNCHANGED <<server, frameVars, failedReads, fileVars, clientCount,
                   tallyVars, logged, s2c, half, cfg, kills, outs, crashes>>

ClientDies(c) ==
    /\ cl[c] \notin {"new", "gone", "killed"}
    /\ crashes < MaxCrashes /\ crashes' = crashes + 1
    /\ cl' = [cl EXCEPT ![c] = "killed"]
    /\ UNCHANGED <<server, frameVars, failedReads, fileVars, clientCount,
                   tallyVars, logged, s2c, c2s, half, cfg, kills, report, outs>>

ClientStep(c) == ClientHeader(c) \/ ClientConfig(c) \/ ClientText(c) \/ ClientExit(c)

ClientChoice(c) == Connect(c) \/ ClientOutput(c) \/ ClientKill(c) \/ ClientDies(c)

\* What clients do once the server has gone is not followed here.
Finished == server # "up" /\ UNCHANGED vars

Next ==
    \/ ServerStep \/ Sighup \/ Sigint
    \/ server = "up" /\ \E c \in Clients : ClientStep(c) \/ ClientChoice(c)
    \/ Finished

\* The server and every client run on; signals, kills and lines may not come.
Fairness == WF_vars(ServerStep) /\ \A c \in Clients : WF_vars(server = "up" /\ ClientStep(c))

Spec == Init /\ [][Next]_vars
FairSpec == Spec /\ Fairness

-----------------------------------------------------------------------------
(* Properties.                                                             *)

Counted == 1..clientCount

MsgTypes == {"config", "procs", "count", "exit", "output", "text", "kills", "name"}
Messages == [type : MsgTypes, v : Nat]

\* Every variable stays in its range, and the frames on the stack are distinct,
\* with "main" at the bottom.
TypeOK ==
    /\ server \in {"up", "done", "quit", "killed", "overrun"}
    /\ stack \in Seq(Frames) /\ Len(stack) \in 1..3 /\ stack[1] = "main"
    /\ \A j, k \in 1..Len(stack) : stack[j] = stack[k] => j = k
    /\ pc \in [Frames -> {"off", "readFile", "setCount", "send", "sendProcs",
                          "sendCount", "select", "accept", "accepted", "client",
                          "header", "text", "exit", "wait", "kills", "name",
                          "final"}]
    /\ at \in [Frames -> Nat] /\ eintr \in BOOLEAN
    /\ failedReads \subseteq {"header", "text", "kills", "name"}
    /\ {hups, crashes, file, procsVer, countVer, clientCount,
        killCount, exited} \subseteq Nat
    /\ Counted \subseteq Clients /\ nodenames \subseteq Clients
    /\ exitedClients \in [0..(MaxClients - 1) -> {0} \cup Clients]
    /\ logged \in [Clients -> Nat] /\ outs \in [Clients -> Nat]
    /\ s2c \in [Clients -> Seq(Messages)] /\ c2s \in [Clients -> Seq(Messages)]
    /\ cl \in [Clients -> {"new", "waitConfig", "procs", "count", "run", "exiting",
                           "sendKills", "sendName", "gone", "killed"}]
    /\ half \in [Clients -> BOOLEAN]
    /\ cfg \in [Clients -> [procs : Nat, count : Nat]]
    /\ kills \in [Clients -> Nat] /\ report \in [Clients -> Nat \cup {-1}]

\* No client was killed, and no header was read from a buffer that a second
\* SIGHUP left as it was: both can make the server take a stale "exit" for one.
HeadersRead == crashes = 0 /\ "header" \notin failedReads

\* The server exits cleanly only after every client it counts has confirmed,
\* whatever SIGINT interrupted, and however SIGHUP interrupts the rest.
StopsAfterAll ==
    server = "done" /\ HeadersRead => \A c \in Counted : report[c] # -1

\* The sum of the numbers f[c], as the number of the things they count.
Units(f, S) == UNION {{c} \X (1..f[c]) : c \in S}
Total(f, S) == Cardinality(Units(f, S))

\* The final message adds up exactly the confirmed counts and names exactly the
\* nodes with kills, in whatever order the confirmations came, unless SIGHUP
\* made a read fail.
TallyExact ==
    server = "done" /\ failedReads = {} /\ crashes = 0 =>
        /\ killCount = Total(report, Counted)
        /\ nodenames = {c \in Counted : report[c] > 0}

\* Of all lines its clients wrote the server loses one at most, the one whose
\* header it had read when SIGINT came, unless SIGHUP made a read fail.
LogLosesOne ==
    server = "done" /\ failedReads = {} /\ crashes = 0 =>
        Total(outs, Counted) - Total(logged, Counted) <= 1

\* The two ends of a connection agree where a message starts: no client takes
\* a part of a configuration for a header or a header for a configuration,
\* although SIGHUP may send one while another is being sent.  (SIGINT on top of
\* SIGHUP leaves one unfinished for good.)
Expected(c) == CASE cl[c] \in {"waitConfig", "run"} -> {"config", "exit"}
                 [] cl[c] \in {"procs", "count"} -> {cl[c]}
                 [] OTHER -> MsgTypes
InStep ==
    \/ stack = <<"main", "hup", "int">>
    \/ \A c \in Clients : s2c[c] # <<>> => Head(s2c[c]).type \in Expected(c)

\* waitForClients writes past exitedClients only once, for the last confirmation
\* of as many clients as the array has entries: no client is entered twice,
\* although one that has closed its connection stays readable for ever.
OverrunOnlyWhenFull ==
    exited \notin DOMAIN exitedClients =>
        /\ exited = MaxClients /\ clientCount = MaxClients
        /\ HeadersRead => \A c \in Counted : report[c] # -1

\* After SIGINT the server waits for its clients and ends; behind a full array the
\* last write may end it in another way.  (Not so if a client was killed, or if
\* SIGHUP comes too.)
ServerStops ==
    "int" \in Active ~> server # "up" \/ hups > 0 \/ crashes > 0

\* A configuration re-read after SIGHUP reaches every client counted by then,
\* unless the server stops meanwhile.
ReloadReaches ==
    \A c \in Clients :
        "hup" \in Active /\ c \in Counted
            ~> \/ cfg[c] = [procs |-> procsVer, count |-> countVer]
               \/ "int" \in Active \/ server # "up" \/ crashes > 0

-----------------------------------------------------------------------------
(* What the repository's own words claim and the code does not do.         *)

\* report:12 "Upon a connection, the server accepts it, and sends the client the
\* most recent config file", and on SIGHUP "sends the new version to all
\* clients": a client that has read everything works with what the server has
\* read, whenever the server is back in its loop.
NewestConfig ==
    stack = <<"main">> /\ pc["main"] = "client" =>
        \A c \in Counted : cl[c] = "run" /\ s2c[c] = <<>>
            => cfg[c] = [procs |-> procsVer, count |-> countVer]

\* report:12 "Upon a SIGINT, the server sends all clients an "exit" message, and
\* then waits for a confirmation from each client", serverFunctions.c:300
\* "client may have been killed, continue to next client": SIGINT ends the
\* server although a client was killed.
StopsWithoutDead == "int" \in Active ~> server # "up"
=============================================================================
