-------------------------------- MODULE Nanny --------------------------------
(***************************************************************************)
(* What one monitored node of procnanny promises to its server, without    *)
(* pipes, children or rescans: the node may kill processes for as long as  *)
(* it has not answered an exit request, it answers such a request once,    *)
(* and the answer is the number of kills performed on the node, neither    *)
(* more nor less.  A node whose client process dies is lost: it never      *)
(* answers, although its orphaned children may still kill.                 *)
(***************************************************************************)
EXTENDS Integers

VARIABLES
    phase,      \* "running", "exiting", "done" or "lost"
    kills,      \* kills performed on the node
    report      \* the kill count in the node's exit message, -1 before it

vars == <<phase, kills, report>>

Init ==
    /\ phase = "running"
    /\ kills = 0
    /\ report = -1

\* A child of the node killed a process that outlived its time.
Kill ==
    /\ phase # "done"
    /\ kills' = kills + 1
    /\ UNCHANGED <<phase, report>>

\* The exit request reaches the node.
AskExit ==
    /\ phase = "running"
    /\ phase' = "exiting"
    /\ UNCHANGED <<kills, report>>

\* The node confirms its exit with an exact count.
Report ==
    /\ phase = "exiting"
    /\ phase' = "done"
    /\ report' = kills
    /\ UNCHANGED kills

\* The client process of the node dies without confirming.
Crash ==
    /\ phase \in {"running", "exiting"}
    /\ phase' = "lost"
    /\ UNCHANGED <<kills, report>>

Next == Kill \/ AskExit \/ Report \/ Crash

\* A node that was asked to exit does confirm, unless it is lost.
Spec == Init /\ [][Next]_vars /\ WF_vars(Report)
=============================================================================
