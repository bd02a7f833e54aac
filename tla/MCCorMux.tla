------------------------------ MODULE MCCorMux ------------------------------
(***************************************************************************)
(* Small instances of CorMux.  The coroutines are interchangeable, and so  *)
(* are the peers.                                                          *)
(***************************************************************************)
EXTENDS CorMux, TLC

Symmetry == Permutations(Coroutines) \cup Permutations(Peers)
=============================================================================
