---------------------------- MODULE MCClientNode ----------------------------
(* Values for the constants of ClientNode that a .cfg cannot write.         *)
EXTENDS ClientNode

OneName   == {<<"a">>}
NoneOrOne == {<<>>, <<"a">>}
OneOrTwo  == {<<"a">>, <<"b", "a">>}

\* Command lines with at most one configured name.
OnlyA     == {{"a"}}
Disjoint  == {{"a"}, {"b"}}
=============================================================================
