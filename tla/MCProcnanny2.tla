---------------------------- MODULE MCProcnanny2 ----------------------------
(* An instance of version 2 for model checking: two names, one process of   *)
(* each, configurations that grow, are replaced or become unusable.         *)
EXTENDS Procnanny2

OneEach  == [p \in Pids |-> IF p = 1 THEN {"a"} ELSE {"b"}]
Contents == {<<"a">>, <<"a", "b", "a">>, <<"a", "procnanny">>}

=============================================================================
