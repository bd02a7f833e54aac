---------------------------- MODULE MCHttpClient ----------------------------
(***************************************************************************)
(* Small instances of HttpClient.                                          *)
(***************************************************************************)
EXTENDS HttpClient, TLC

CONSTANTS t1, t2, c1, c2, c3

SomeThreads == {t1, t2}
SomeConns   == {c1, c2, c3}
FewConns    == {c1, c2}

\* two hosts whose hashes collide
SameBucket == [h \in Hosts |-> 0]

Symmetric == Permutations(SomeConns) \cup Permutations(SomeThreads)
=============================================================================
