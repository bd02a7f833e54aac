---------------------------- MODULE MCWorkerPool ----------------------------
(***************************************************************************)
(* Small instances of WorkerPool: who reads which request, over what.      *)
(***************************************************************************)
EXTENDS WorkerPool

\* a request of one of two loops of the built-in server, and one of a cor:// loop:
\* both go to the first shard
BuiltinRequests  == 1 .. 2
BuiltinLoopOf    == <<0, 2>>
BuiltinTransport == <<"builtin", "cor">>

\* libmicrohttpd's I/O thread and a cor:// loop: one shard
MhdRequests  == 1 .. 2
MhdLoopOf    == <<0, 1>>
MhdTransport == <<"mhd", "cor">>
=============================================================================
