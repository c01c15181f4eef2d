---------------------------- MODULE MCProcnanny1 ----------------------------
(* Values for the constants of version 1 that a .cfg cannot write.          *)
EXTENDS Procnanny1

NamedA == [p \in Pids |-> {"a"}]
\* A configuration that lists a name twice: two children for each process.
TwiceA == {<<"a", "a">>}
=============================================================================
