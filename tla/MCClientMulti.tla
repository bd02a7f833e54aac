---------------------------- MODULE MCClientMulti ----------------------------
(***************************************************************************)
(* Small instances of ClientMulti.                                         *)
(***************************************************************************)
EXTENDS ClientMulti, TLC

CONSTANTS c1, c2, c3

SomeConns == {c1, c2, c3}
FewConns  == {c1, c2}

OneHost    == [e \in Entries |-> "h"]
SameBucket == [h \in Hosts |-> 0]

Symmetric == Permutations(SomeConns)
=============================================================================
