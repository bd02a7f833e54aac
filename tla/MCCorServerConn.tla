--------------------------- MODULE MCCorServerConn ---------------------------
(***************************************************************************)
(* Small instances of CorServerConn.  Requests are interchangeable, and so *)
(* are connections.                                                        *)
(***************************************************************************)
EXTENDS CorServerConn, TLC

Symmetry == Permutations(Conns) \cup Permutations(Requests)
=============================================================================
