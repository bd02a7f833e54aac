---------------------------- MODULE MCMhdServer ----------------------------
(***************************************************************************)
(* One request on libmicrohttpd's I/O thread, whose response may be a      *)
(* stream, and a pool of one shard with one worker.                        *)
(***************************************************************************)
EXTENDS MhdServer

MhdRequests  == {1}
MhdLoopOf    == <<0>>
MhdTransport == <<"mhd">>

ASSUME HttpServer == HttpOnly
=============================================================================
