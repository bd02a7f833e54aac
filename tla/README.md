# corRest in TLA+

This directory holds the formal models of corRest, the REST library in this
repository: TLA+ modules translated from its C source, small instances that TLC
checks, and proofs that TLAPS checks for every instance. `PROJECT.json` lists
the components, the runs, the source lines behind every definition, the hazards
and the theorems in machine-readable form; this file explains them.

    tlc -workers 2 -config pool_builtin.cfg MCWorkerPool   # one run
    tlapm MhdServer_proofs.tla                             # the proofs of one module

## 1. The system

corRest serves HTTP over libmicrohttpd or over its own event loop (a build
chooses one), serves and speaks `cor://` - a binary, multiplexed protocol - and
has an HTTP client of its own. corBase (coroutines) and corHttp (the built-in
server's connections) are separate libraries and are modelled only as far as
the code here uses them.

| Component | State it keeps | Operations | How it meets the others |
|---|---|---|---|
| Worker pool (`corRestInit.c`) | the flag `corRestWorkersRun`; per shard a mutex, a condition variable and a linked queue of `CorRestState`; the threads | start, stop, enqueue, the worker's loop, `corRestAsyncDispatch`, `corRestAsyncFinish` | loops enqueue; workers process and call the back-end's resume |
| HTTP back-ends (`corRestBackendBuiltin.c`, `corRestBackendMhd.c`) | the event loops; per loop a count of coroutines; per request the flags `asyncProcessed`, `asyncFinishing` | read a request, run it inline / as a coroutine / on a worker, suspend, resume, answer, finish | call dispatch; are called back by workers |
| `cor://` server (`corRestCor.c`, first half) | `ServerConn`: reference count, pending requests, out queue, one spare request memory | accept, frames in, requests on coroutines, responses out, a connection moved to a thread of its own, release | the loop, its coroutines, workers and dedicated threads share one connection |
| `cor://` client (`corRestCor.c`, second half) | per thread eight `MuxConn`: write turn, read turn, waiters, calls in flight | `muxGet`, start, wait, send with one retry | coroutines of one loop take turns on one connection |
| Streams (`corRestStream.c`, `corRestBackendMhd.c`) | `CorRestStream`: buffer, suspended / ended / cut / gone, two references | open, write, end; the reader and the free callback | the application's thread and libmicrohttpd's |
| HTTP client (`corRestClient*.c`) | the shared pool of idle connections; a batch's entries and `done` counter | get, put, evict; send with one retry and redirects; `corRestClientMultiPerform` | threads and coroutines share the pool |
| Response framing (`corRestClientParse.c`) | what was read so far | is it complete, parse it | decides when a connection may be pooled |
| Name resolution (`corRestResolve.c`) | a `Lookup` with two references | resolve, the lookup thread | a coroutine waits for a thread, and may stop waiting |
| Request pipeline (`corRestInit.c`, `corRestHooks.c`, `corRestWait.c`) | the pointer `corRestP` of the thread; the `CorRestState` of each request, and of those it forwards to itself | process a request, forward in-process, wait in a hook or a routine, finish | run by whoever runs the request: the loop, a coroutine, a worker |
| Service lookup (`corRestServiceLookup.c`, part of `corRestInit.c`) | the tables of the verbs | prepare a pattern, build the tables, search | writes into the path of the request it searches for |
| Request target (`corRestStateInit.c`, `corRestUrlValueEncode.c`, `corRestParamRegistry.c`, part of `corRestInit.c`) | the parameters the application has registered | encode, decode, normalize a path, split a query, look a parameter up | the pipeline; the client encodes what a pipeline decodes |
| Connecting (`corRestClient.c`, `corRestClientProxy.c`, `corRestClientTls.c`) | the proxies and the no-proxy list; the TLS context and its flag; a connection's socket | choose a proxy, resolve, try every address, tunnel, handshake | under the HTTP client; above the name resolution |
| Problem bodies, MIME, version | none | | |

The behaviours that are hard to get right here, and hard to test: a request
crosses threads up to four times without a lock of its own; the pool may be
stopped between any two of its steps; a coroutine yields inside a read, a write
or a connect, and finds the world changed after it; connections are freed by
whoever lets go last; pooled connections die silently and may carry somebody
else's bytes; a caller gives up just when the answer comes; one pointer per thread says
which request all code means; and the search for a route writes into the path it
looks for. PROJECT.json lists 40 such hazards, each at its line.

## 2. The modules

| Module | Models | Instance |
|---|---|---|
| `RequestLifecycle` | what is promised about one request: accepted, processed, answered, finished, each once and in order | abstract; implemented by `WorkerPool` |
| `WorkerPool` | the pool, the loops, the three transports | `MCWorkerPool` |
| `CorMux` | the `cor://` client of one thread | `MCCorMux` |
| `CorServerConn` | the `cor://` server's connections on one loop | `MCCorServerConn` |
| `Stream` | a streamed response | within `MhdServer` |
| `MhdServer` | libmicrohttpd's connections and its stop: composes `WorkerPool` and `Stream` | `MCMhdServer` |
| `ServiceLookup` | patterns, tables, search; what a pattern means | extended by the next |
| `RequestTarget` | decoding, query, parameters | extended by the next |
| `Dispatch` | the pipeline, on a loop with coroutines | `MCDispatch` |
| `ResponseFraming` | where a response ends, over a kept connection | itself |
| `ClientPool` | the pool of idle connections | extended by the next two |
| `HttpClient` | blocking requests of several threads over `ClientPool` | `MCHttpClient` |
| `ClientMulti` | a batch of requests over `ClientPool` | `MCClientMulti` |
| `Resolve` | name resolution beside a coroutine | extended by `Connect` |
| `ProxyRoute` | which proxy a request goes through | extended by the next |
| `Connect` | from a URL to a connection: composes `Resolve` and `ProxyRoute` | `MCConnect` |
| `MhdServer_proofs` | theorems about `WorkerPool`, and about the server and the stream that go with it (section 5) | TLAPS |
| `RequestResponse_proofs` | theorems about `Dispatch`, and about `ResponseFraming`: the two ends of a request, which share no state | TLAPS |
| `CorServerConn_proofs`, `CorMux_proofs`, `ClientPool_proofs`, `HttpClient_proofs`, `ClientMulti_proofs`, `Connect_proofs` | theorems about the module they are named after | TLAPS |

In a component's module, a definition that starts with the comment *mutant* is a
faulty variant of the definition after it (a dropped guard, a missing wake-up):
PROJECT.json pairs each property with one, which TLC refutes. They are part of
no specification.

### WorkerPool

State: `workersRun`, `queue[s]`, `mtx[s]` are the globals of corRestInit.c, a
queue being the list from head to tail; `wpc[w]`, `cur[w]` say where a worker is
in `corRestWorkerMain` and which request it holds; `mainPc`, `ix` are the
program counter of the thread that calls `corRestInit` and `corRestStop`;
`stage[r]` is where request r is, `busy[l]` the request that loop l is executing
code for. `processed`, `responded`, `finished` count what has happened to r.
A critical section of a queue's mutex is one step, except that the worker's test
of its condition and its `pthread_cond_wait` are two, with the mutex held: this
is where a wake-up can be lost. `Suspend` and `EnqueueRequest` are two steps of
the loop, and so are `DispatchHandOff` (which reads the flag) and the enqueue
that relies on it. Spurious wake-ups happen.

The parameters choose transport and loop of every request, so that one module
serves the built-in server ("builtin": shards by loop, coroutines, finish here
or elsewhere), libmicrohttpd ("mhd") and `cor://`.

### CorMux

Everything runs on one thread, so a step is what a coroutine does from one yield
to the next; `running` is the coroutine that has not yielded. The fields of
`conn[s]` are those of `MuxConn`; `co[c]` is a coroutine's call and place in the
code. `corCoLoopWake` only marks a coroutine ready; the loop resumes the ready
ones in any order, as corBase may. The constant `Faults` switches on what may go
wrong: a connect fails, the peer closes, a body never comes, the loop is stopped.
`broken` records that a connection has been failed (`muxFail`).
Callers that are not coroutines are left out, and so is the kernel giving the
number of a closed descriptor to another connection.

### CorServerConn

`conn[k]` is `ServerConn`; `req[r].pc` where a request is and `req[r].by` who
runs it (the loop, a coroutine, a worker, a dedicated thread); `loop.batch` what
`epoll_wait` returned and is not handled yet. `touched` records any use of a
connection after it was freed. `ResumeAtEvent` is a question about corBase:
whether `corCoLoopEvent` resumes a coroutine at once, in the middle of the
batch, or marks it, and the loop resumes it after the batch. The run has it TRUE,
which contains the behaviours of FALSE, and the theorems are about both. With
TRUE a coroutine that finishes may free a connection that a later event of the
same batch points to; `stale` records that such an event has been handled, after
which memory that is free is written to and nothing is certain: `LifetimeInv`
excepts that and nothing else, and with FALSE it excepts nothing.

### Stream and MhdServer

What is done under the stream's mutex is one step. The body is the numbers
1, 2, ... as the application wrote them; `PendingMax` is
`COR_REST_STREAM_PENDING_MAX` in those units. libmicrohttpd is external: it
reads an active connection again and again, leaves a suspended one alone, and
may give one up at any time; `misused` records a call its contract forbids. The
stream of the built-in server is corHttp's and is not modelled.

MhdServer EXTENDS WorkerPool and INSTANCEs Stream for the request `Streamed`.
Around the pool's life of a request it has what only libmicrohttpd has:
`conn[r]`, the connection; `body[r]`, the pieces received and kept, their sizes
and the error found in them; an upgrade; a request given up; and `stopPc`, the
main thread in `corRestBackendStop` and `corRestStop`, with `patience`, the
reason its wait for the streams was over. An I/O thread of libmicrohttpd calls
the handlers of its connections one after the other (`Free`). `late` holds the
requests queued after the last worker had left: divergence 1, which `StopSafe`
and `ConnectionsEnd` except by name.

### ServiceLookup, RequestTarget, Dispatch

A text is a sequence of characters, and the path is a C buffer: `Nul` cuts it,
as the search does. `Try...` are the cases of `corRestServiceLookup`, each with
the buffer it leaves behind. `Matches` and `Fill` say what a pattern means,
without the buffer, the sums or the order of the code's tests; the properties
compare the two, and `Astray` names the searches where the code's way is known to
differ (divergences 13 and 14), `TakesEmpty` those that leave a wildcard empty.

In RequestTarget `Encode` is what the client side does to a value, `Decode`,
`Spaced` and `ParamsOf` what the server does to a query. A request carries what
its client meant (`sent`), so that the properties see whether it survives.

In Dispatch `bound` is `corRestP`; an action reads and writes the request that
`bound` names, whoever runs it. `frame[c]` is the stack of a coroutine:
`corRestProcessInProcess` pushes an inner request and rebinds, and its end pops
and binds the outer one. `Yield` is a wait inside a hook or a routine
(`coWaitBound`): the loop goes on and serves others. Its `corRestP` is NULL then, or
what the coroutine had left, as corBase calls its unbind hook or does not. Every hook, check
and early return of `corRestProcessRequest` is an action, in the code's order;
what a hook answers is a choice where it is called.

### ResponseFraming

A response is a sequence of tokens, a line being its text and its end, so that
an answer can be cut at the places where the code decides. `Complete` and
`Parse` are `corRestClientResponseComplete` and `corRestClientParseResponse`,
including what the second does to its own buffer: a parse that fails leaves a
header without its ':', and the second parse does not see it (`spoilt`). Each
request goes through one of the two read loops (`engine`), and both share one
pooled connection. What the peer sends arrives in any pieces, lines and their ends
apart; `tooSoon` records the requests whose head the code took for whole at the
end of a line (divergence 8).

### ClientPool, HttpClient, ClientMulti

The pool's mutex makes each operation one step, but the clock is read before the
lock (`ReadClock`, then `Get`), and the probe of a pooled connection happens
after it (`PeekAlive`, `PeekDead`). `Age` is the unsigned difference of the code
in `ClockBits` bits. HttpClient has one pc per thread; the peer answers, closes
or stays silent. ClientMulti has the entries' states, what epoll watches for
each, the address list a connection may still be walking, and `done`. It runs
one batch over any pool of at most `MaxIdle` connections, which stands for the
batches before it. An event is handled alone: only its own handling changes what
its socket is ready for. `Secure` are the entries of an https URL: they go through
`Handshake`, in which Perform does nothing else until the peer goes on (`PeerShakes`)
or is gone (`HandshakeCut`), because finishConnect has made the socket blocking.

### Resolve, ProxyRoute, Connect

A `Lookup` with two references, the coroutine's and the thread's; the ten-second
wait may end at any time. `known` is the set of address lists allocated and not
freed.

ProxyRoute is text again: the proxy URLs (`ProxyParse`), the no-proxy list,
the choice. `InDomain` says by labels what it means for a host to be in a domain.
Connect has one pc per caller: the route, the resolution (over the variables of
Resolve), one socket per address, the tunnel, the allocation, the one-time
initialisation of TLS in three steps, because threads may be in it at once, the
handshake, and the end. `opened` is the set of sockets that are open; `raced`
records that two threads have been in the initialisation at the same time.
`configured` are the contexts through `corRestClientTlsInit`, which verify unless
`corRestClientTlsInsecureSet(true)` was called (`Insecure`). `Configs` pairs each
setting with what a person would say it means.

## 3. The runs

| Run | Distinct states | Checks | Shows |
|---|---|---|---|
| `pool_builtin` | 27,469 | `TypeOK` `Placed` `DrainComplete` `CoroutinesCounted` `LifecycleSpec` `EveryRequestFinishes` `StopEnds` | a request of the built-in server and one of `cor://` on one shard, two workers there and on the other shard, whose idle worker must be woken by the stop |
| `mhd_server` | 52,931 | `ResumesSuspended` `StreamInv` `BodyWhole` `StopSafe` `ConnectionsEnd` `EndedStreamIsOver` | one connection: a body of two pieces around a limit, an upgrade, an answer or a stream that fills its buffer, and the stop at any moment |
| `pool_stop_suspended` | violated | `NoneSuspendedAfterStop` | divergence 1 below |
| `mux_calls` | 207,694 | `MuxInv` `LiveUntilBroken` | three coroutines, so that two wait for one turn, and two peers, so that the slot changes hands, under every fault |
| `mux_live` | 402,821 | `SendReturns` | three coroutines on one connection that may fail to connect, be closed by the peer and be opened again |
| `mux_retry_timeout` | violated | `NoRetryAfterTimeout` | divergence 2 |
| `server_conns` | 84,522 | `LifetimeInv` `LoopLetsGo` `RequestAnswered` `ConnFreed` | two connections in one batch, two requests on one connection or on two, coroutines resumed in the batch or after it |
| `framing` | 145,516 | `FramingInv` `CloseDelimited` | two requests, six framings, two engines, any pieces, a peer that closes anywhere |
| `http_client` | 772,090 | `ClientInv` `WrittenTwiceAtMost` `OnlyExpiredEvicted` | two threads, a redirect each, two hosts that share a bucket, one tick of the clock |
| `multi` | 362,111 | `MultiInv` `PerformReturns` | two entries, one of them https, two addresses, a pooled connection or none |
| `pipeline` | 148,113 | `PipelineInv` `RoutedRight` `AllowExact` `ParamsRight` `AnswerHonest` `RequestsEnd` | nine patterns and some forty paths and a dozen queries on the loop itself; two coroutines that wait anywhere and forward to themselves |
| `connect` | 140,042 | `ConnectInv` `RouteRight` `ConnectEnds` | two callers, both of https on two threads, or one of https and one of http on one; two addresses, two sockets, eight settings of proxies and no-proxy lists, one of them with verification off |

The runs above are the ones that are kept green. Beside them stand configurations
of the same modules that each state what a comment of the source promises, and
which TLC refutes in seconds (`tlc -config mux_peer.cfg MCCorMux`); they are the
evidence for the divergences of section 4, and for the exceptions the properties
of the runs make:

| Configuration | Module | Refutes | Divergence |
|---|---|---|---|
| `mux_reader` | `MCCorMux` | `ReadTurnExclusive` | 4 |
| `mux_peer` | `MCCorMux` | `RequestToItsPeer` | 5 |
| `mux_freed` | `MCCorMux` | `NoFreedCall` | 6 |
| `mux_linked` | `MCCorMux` | `CallsWaitedFor` | 7 |
| `framing_early` | `ResponseFraming` | `WholeResponse` | 8 |
| `framing_truncated` | `ResponseFraming` | `TruncatedIsError` | 9 |
| `pipeline_detail` | `MCDispatch` | `PathWhole` | 13 |
| `pipeline_anagram` | `MCDispatch` | `PrefixTaken` | 13 |
| `pipeline_empty` | `MCDispatch` | `NoEmptyWildcard` | 23 |
| `pipeline_upgrade` | `MCDispatch` | `RefusedWithError` | 22 |
| `multi_handshake` | `MCClientMulti` | `HandshakeWaits` | 20 |
| `connect_tls` | `MCConnect` | `OneContext` | 18 |

`mux_faults` is the contrary: `SendReturns` under every fault of `CorMux`, the stop
of the loop and a body that stays out included, for two coroutines and two peers; it
passes, with 7,515 states.

An invariant whose name ends in `Inv` is a conjunction of named parts, the first
of them the module's `TypeOK`:

| Invariant | Parts |
|---|---|
| `MuxInv` | `OnOwn`, `WriteTurnExclusive`, `WriteTurnHeld`, `NoLostWriter`: a coroutine is on a slot or on its own connection, one writes, a taken turn is in use, a waiter is in the queue; `CallsNumbered`, `NumbersKept`, `FrameOfTarget`, `AnswersFollow`, `SendingLinked`, `OwnResponse`: no number is given twice while its answer may come, so that a response goes to its own call |
| `LiveUntilBroken` | until a connection is failed, `CallsLive`: `ReadTurnExclusive`, `CallsWaitedFor`, one reader, and the calls of a connection are waited for; with what they rest on: `ReadTurnHeld`, `NoneClosed`, `CallsUnderWay`, `TargetHere` |
| `LifetimeInv` | `ReferencesCounted`, `NoFreedConn`, `NoMemoryLeft`: the count is the number of holders, nobody touches a freed connection, and nothing of it is left - until `stale`; `RequestsPlaced`, `ConnectionsPlaced`: where a request and a connection are, and who may be there |
| `StreamInv` | `SuspendedIdle`, `PendingBounded`, `FreedLast`, `ReferencesHeld`: a suspended connection has nothing to send, the buffer keeps its bound, the last of the two frees; `BufferFollows`, `EndIsLast`: the buffer goes on where the client is, and its end is behind everything |
| `FramingInv` | `NothingOwedInPool`, `OwnBytes`, `RightAnswer`: responses do not run into each other, and the answer is the whole one; the first and the last except `tooSoon` |
| `ClientInv` | `PoolCounted`, `OneUser`, `RightPeer`, `NothingOwed`, `OwnAnswer`, `WritesFollow`, `ClockRead` |
| `MultiInv` | `PoolCounted`, `OneUser`, `InOrder`, `AddressesReleased`, `DoneCounted`, `AlwaysWatched`, `OwnAnswer`, `NothingOwedInPool` |
| `ConnectInv` | `HeldWhileUsed`, `AddressesOwned`, `AnswerIsWhole`, `LookupsInOrder` (of Resolve), `SocketsOwned`, `EveryAddressTried`, `CallersInOrder`, `TlsInOrder` |
| `PipelineInv` | what runs is bound to its own innermost request; what waits has it saved; a key hook is there for one body only |

Those that section 5 proves are strong enough to be kept by every step, or need
only what section 5 adds to them; the runs check them as they stand.
`EachPhaseOnce`, `OneHolder` and, for the built-in server, `ResumesSuspended`
follow from `Placed`, which `pool_builtin` checks; section 5 has the proofs.
Two requests of one loop that compete for its last coroutine are not in an
instance (`pool_builtin` has a request of either kind instead).
`HttpClient!SendReturns` (every call returns) holds for the constants of
`http_client` with one host, `MaxIdle = 1` and no symmetry, but takes longer
than the runs kept here.

`mux_calls` and `http_client` use symmetry over coroutines, peers, threads and
connections; they check no liveness, for which symmetry is not sound.

**Bounds.** All counters that only grow are bounded by a constant in a guard:
`MaxCalls`, `MaxBatches`, `MaxTime`, `MaxWritten`, `MaxPieces`, `NRequests`,
`MaxForwards`, and one wait per phase of a request (`Yield`); the sets of
requests, connections and callers are finite. The instances are the smallest in
which two parties compete for each resource the code guards: two workers for one
queue, two requests for one shard, two waiters behind one writer, two connections
in one batch, two users of one bucket, an address that fails and one that does
not, two threads in one initialisation. In `pipeline` the coroutines `b` and `d`
interleave with one path each; the requests of `a`, which differ in paths and
queries, run alone (`Alone`), since what a search or a split gives does not depend
on anybody else. The patterns there are every kind the code tells apart: none,
one, two and three wildcards, with and without a suffix, greedy. What grows with
the bounds only repeats those encounters. The proofs of section 5 remove the
bounds altogether, for what they prove.

**Deadlock.** `CHECK_DEADLOCK FALSE` in every run: all of these systems end. The
pool is stopped, the calls are made, the connections closed. That nothing stops
before its end is what the liveness properties say.

**Fairness.** Every thread keeps running, every wait ends: a hook or service
routine returns, and each wait of the code has a timeout.
 - `WorkerPool`: strong fairness of the main thread, of each worker and of each
   request's loop. Strong, because a thread gets a mutex in the end although
   spurious wake-ups of others take it for a moment again and again. `Stop` and
   the arrival of requests are not fair: they may never happen.
 - `CorMux`, `HttpClient`, `ClientMulti`: weak fairness of each
   coroutine, thread or of Perform; the peers and the network owe nothing. In
   ClientMulti, the deadline passes - but a TLS handshake of a batch has none
   (divergence 20): `PerformReturns` excepts a Perform whose peer accepts the
   connection and then stays silent, for ever in `handshake`.
 - `CorServerConn`: weak fairness of the loop's code and of what runs off the
   loop. A coroutine may yield any number of times, but not for ever: strong
   fairness of its resumption and of its next real step.
 - `MhdServer`: that of `WorkerPool`; libmicrohttpd serves an active connection
   and gives up one whose request does not come; the main thread's wait for
   streams is over after 2 s; a stream that has been ended is resumed and read.
   No application has to end its stream or close a socket it was given.
 - `Dispatch`: the loop gets its thread back again and again, since a request is
   a bounded number of steps without a loop; strong fairness of what a coroutine
   waits for and of a response's way out, since the loop looks at every
   descriptor that is ready before it looks again.
 - `Connect`: strong fairness of a caller, whose thread others may take for a
   moment; weak fairness of the lookups. `getaddrinfo` answers some time.

## 4. Divergences

Places where the source contradicts what it says of itself. Those that name a
run (1, 2) or a configuration in parentheses are checked by it: TLC refutes the
property, which states what the comment promises. 3, 11 and 12 are refuted with the
constants of `pool_stop_suspended`, `http_client` and `server_conns`, in seconds,
by that property (11, 12: without its exception) alone. The rest were met while the
code was translated; where a property touches one, it excepts it by name.

1. `NoneSuspendedAfterStop` (`pool_stop_suspended`). corRestInit.c:1203, of
   `corRestWorkerPoolStop`: "After this returns there are no suspended
   connections, so stopping the backend is safe". The handler asks
   `corRestAsyncDispatch`, then suspends and enqueues (corRestBackendMhd.c:584);
   the flag may be cleared and every worker joined in between.
2. `NoRetryAfterTimeout` (`mux_retry_timeout`). corRestCor.c:2364: "Never after a
   timeout: the peer may be executing it, and a second POST would create twice."
   `readFrame` calls every failure of `connRead` "connection closed", a timeout
   in the middle of a frame included, and that string is what the retry tests.
3. `WorkerPool!PostResponseRuns` (the constants of `pool_stop_suspended`).
   corRestCor.c:881 says the post-response phase of a `cor://` request runs here, as
   a coroutine or on a worker; line 951 enqueues it without asking whether the pool
   is up, which the HTTP back-ends ask (`corRestAsyncFinish`).
4. `ReadTurnExclusive` (`mux_reader`). "one coroutine reads the connection"
   (line 1497): a reader whose connection was closed and connected again by
   another clears the read turn of the new one (line 2297).
5. `RequestToItsPeer` (`mux_peer`). "the thread's connection to host:port" (line
   1843): after waiting for the write turn, line 1901 tests only that the slot is
   connected; it may be to another peer by then.
6. `NoFreedCall` (`mux_freed`, without any fault). Line 1502 says the response of a
   call nobody waits for is dropped; if the call times out while its body is
   being read, it is freed by its own coroutine and then written to (line 2175).
7. `CallsWaitedFor` (`mux_linked`). The list holds calls "sent, response not yet
   in" (line 1517); a retry (line 2060) does not clear `done`, so that a call
   another failure has marked is linked again, and freed while it is linked.
   4 and 7 need a connection that has failed: `LiveUntilBroken` says what holds
   until then.
8. `WholeResponse` (`framing_early`). "is the full response in the buffer?"
   (corRestClientParse.c:164): a head that ends with the buffer at a line's end is
   taken for complete (line 184). SendOnce then succeeds with an empty body and
   pools a connection that still owes; `FramingInv` excepts those requests
   (`tooSoon`). So is a chunked body without its last line (line 137), whose rest
   then begins the next response; no body is wrong for that.
9. `TruncatedIsError` (`framing_truncated`). corRestClientMulti.c:940: "genuinely
   truncated/malformed; fall through to error". A first parse fails (line 885), a
   second one (line 933) over the buffer it has written into does not see the
   headers any more and succeeds, with what is there.
10. corRestStream.h:54: a `cor://` request cannot be a stream. corRestStream.c:27
   recognises one by `finishF`, which corRestCor.c:949 sets only after the
   response: the stream is accepted and never opened. Nor is one that a worker
   has accepted, if libmicrohttpd gives the resumed connection up before it calls
   the handler again.
11. `HttpClient!OnlyExpiredEvicted` excepts a connection put into the pool
    between the reading of the clock and the lock (corRestClientPool.c:173): its
    age wraps around and it is evicted. Without the exception TLC refutes it.
12. `CorServerConn!ConnFreed` excepts a connection whose dedicated thread could
    not be created (corRestCor.c:1085): nobody drops the loop's reference.
13. A pattern of two wildcards with a suffix trims the path
    (corRestServiceLookup.c:193) before it looks whether the first wildcard fits, and
    goes on with the next pattern if not: the routes after it, and the detail of a
    404, see the path cut short, although corRestInit.c:557 wants "the resource the
    client actually requested, not a truncation" (`PathWhole`, `pipeline_detail`).
    And patterns of two or three wildcards compare their prefix by the sum of its
    characters only, so that an anagram matches (`PrefixTaken`,
    `pipeline_anagram`); CorRestService.h:118 means the sum "for fast reject".
    `RoutedRight` and `AllowExact` except the searches that go astray so (`Astray`).
14. Of patterns no instance has: one whose second or third wildcard is `**` never
    matches, nor does a literal of 16 characters or more; the last of two
    wildcards may hold a '/'; with three, what follows the last is ignored.
15. `RoutedRight` and `AllowExact` also except a path that lost two slashes (`lost`
    of its request): "Strip a single trailing '/'" (corRestStateInit.c:118). The
    built-in server normalizes twice, before and after decoding
    (corRestBackendBuiltin.c:428): `/e/x//` is served as `/e/x`, where
    libmicrohttpd's path gets the 400 for an empty segment.
16. A forward inside the process neither decodes its path nor takes a '+' in its
    query for a space (corRestInit.c:894), unlike the same request over a socket;
    what `corRestUrlValueEncode` has written comes out the same (`ParamsRight`).
17. corRestInit.c:397: "The whole final call runs without yielding to the pool".
    On the loop's coroutines it does yield, wherever a hook waits; the reset it
    relies on is the application state of the request's own.
18. `OneContext` (`connect_tls`). "Global SSL context (one per process)"
    (corRestClientTls.c:29): two threads in the first https connect both initialise,
    since corRestClient.c:776 tests the flag without a lock, and the second context
    replaces the first. `TlsInOrder` relates handshakes to the context until that
    happens (`raced`).
19. corRestClient.c:340: "every wait on it is corRestWaitFd - a poll() on a thread, a
    yield inside a coroutine". `corRestClientProxyTunnel` calls poll() in both.
20. `HandshakeWaits` (`multi_handshake`). corRestClientTls.c:102: "The socket is
    non-blocking: the handshake waits for it through corRestWaitFd". In a batch,
    corRestClientMulti.c:569 has made it blocking: a peer that accepts and stays
    silent holds Perform, and every other entry with it, without a deadline;
    `PerformReturns` excepts that. And an entry whose first `connect` completes at
    once, and one on its retry, goes straight to writing, without the tunnel or the
    handshake an https URL needs.
21. `StopSafe` and `ConnectionsEnd` except a request queued too late (1) and a stream
    its application has not ended after 2 s. A request that comes between the wait
    and the stop of the daemon (corRestBackendMhd.c:969) may still open a stream.
    The loops of `cor://` are never stopped: `corRestStop` frees the service tables
    under their requests (corRestStop.c:40); `StopSafe` speaks of HTTP's.
22. `RefusedWithError` (`pipeline_upgrade`). "CorRestUpgradeHook refused an upgrade
    and set the error" (CorRestState.h:84): corRestBackendBuiltin.c:512 refuses also
    where memory runs out, or where the hook gave nothing and set no error, and the
    answer is an empty 200. `AnswerHonest` excepts it (`early = "silent"`). Where
    libmicrohttpd cannot queue the 101 (corRestBackendMhd.c:451), the upgrade's
    memory is never freed and the application is never told.
23. `NoEmptyWildcard` (`pipeline_empty`). corRestInit.c:536 gives a path with an empty
    segment a 400, since "there's no route the path could have matched"; but only
    where the search has failed, and a wildcard that another follows may be empty in
    it (corRestServiceLookup.c:177): GET /e//a/y is served by `/e/*/a/*`.
    `RoutedRight` and `AllowExact` except such a search (`TakesEmpty`).

`corRestClientSendOnce` has a limit of its own: a response that only the end of
the connection delimits is always an error there (`EofOnce`).

## 5. The proofs

A theorem here holds for every value of the constants that its module's named
assumptions allow: any number of requests, workers, loops, coroutines, peers,
connections, entries, addresses, and any limits. The assumptions are the types of
the constants and that `None` and its like are nobody; `ClientPoolAssumption` adds
that there is a host, that each has a bucket, and that a clock of `ClockBits` bits
does not turn while the model runs (`MaxTime`; the code's 64 bits of milliseconds
do not either). No theorem has a hypothesis of its own. What the code does not keep
is excepted in the property instead, by a history variable or by what the state
shows, and the configuration of the divergence shows the exception taken: `late` in
`DrainComplete` (1), `broken` in `LiveUntilBroken` (4, 7), `tooSoon` in `FramingInv`
(8), `raced` in `TlsInOrder` (18), `early = "silent"` in `AnswerHonest` (22), and
`stale` in `LifetimeInv`, whose event depends on a library (section 2).

| Module | Theorem | States |
|---|---|---|
| `MhdServer_proofs` | `TypeCorrect` | `Spec => []TypeOK` |
| | `RequestPlaced` | `Spec => []Placed` |
| | `PhasesHappenOnce` | `Spec => []EachPhaseOnce` |
| | `HeldByOne` | `Spec => []OneHolder` |
| | `ResumedWereSuspended` | `Spec => []ResumesSuspended` |
| | `LifecycleKept` | `Spec => LifecycleSpec`, the refinement of `RequestLifecycle` |
| | `StopDrains` | `Spec => []DrainComplete`: a shard's queue is drained when its last worker leaves, but for what is queued after (`late`) |
| | `NobodyLost` | `Spec => []Kept`: what is said to be in a queue or with a worker is there |
| | `OnlyLateRemain` | what is in a stopped pool was queued after its last worker had left |
| | `CoroutinesExact` | `Spec => []CoroutinesCounted` |
| | `ServerPool` | `ServerSpec => []PoolInv`: what the pool promises, the server keeps |
| | `ServerImplementsPool` | `ServerSpec => Init /\ [][Next]_vars`, the safety part of `WorkerPool`'s `Spec` |
| | `ServerLifecycle` | `ServerSpec => LifecycleSpec` |
| | `ServerResumesSuspended` | `ServerSpec => []ResumesSuspended` |
| | `StreamSound` | `ServerSpec => []StreamInv` |
| | `BodiesWhole` | `ServerSpec => []BodyWhole` |
| | `StopIsSafe` | `ServerSpec => []StopSafe` |
| `CorServerConn_proofs` | `LifetimeSafe` | `Spec => []LifetimeInv`, whichever way corBase resumes |
| | `DedicatedAlone` | `Spec => []LoopLetsGo` |
| `CorMux_proofs` | `MuxSound` | `Spec => []MuxInv`, under every fault |
| | `ReadTurnSound` | `Spec => []LiveUntilBroken`, under every fault |
| `ClientPool_proofs` | `GetKeeps` | `corRestClientPoolGet` keeps the pool right, and takes out what it evicts and returns |
| `HttpClient_proofs` | `ClientSound` | `Spec => []ClientInv` |
| | `NeverThreeTimes` | `Spec => []WrittenTwiceAtMost` |
| | `OnlyOldEvicted` | `Spec => OnlyExpiredEvicted` |
| `ClientMulti_proofs` | `MultiSound` | `Spec => []MultiInv` |
| `Connect_proofs` | `ConnectSafe` | `ConnectSpec => []ConnectInv` |
| `RequestResponse_proofs` | `DispatchCorrect` | `PipelineSpec => []DispatchInv`, the inductive invariant of `Dispatch` |
| | `PipelineCorrect` | `PipelineSpec => []PipelineInv` |
| | `AnswersHonest` | `PipelineSpec => []AnswerHonest` |
| | `FramingCorrect` | `Spec => []FramingInv`, in whatever pieces a response comes |
| | `CloseDelimits` | `Spec => CloseDelimited`: what is whole in the buffer at the end is delivered |

**WorkerPool.** None of `EachPhaseOnce`, `OneHolder`, `ResumesSuspended` is
inductive: that a worker resumes only what was suspended depends on where the
request was before the worker had it. The inductive invariant is
`TypeOK /\ Placed`, where `Placed` says that `stage[r]` tells the whole truth
about r:
 - `LoopHolds`: a loop executes code for exactly the requests in a stage of the
   loop;
 - `QueueHolds`: what stands in a queue has a stage of the queues, and stands in
   one place of one queue only;
 - `WorkerHolds`: a worker that serves or resumes holds a request in the stage
   for it, and no two hold the same;
 - `Progress`: the counters and flags of r are a function of its stage.

The proof has a step per action of `Next`. What appending to and taking from a
queue do to places is in lemmas of their own; actions that touch only one of the
four parts are passed over by lemmas that say which variables the part reads. For
the refinement, every step either leaves all counters (and hence all phases) alone
or advances the phase of one request by one. `DrainComplete` needs that the
back-end listens only while the pool is whole (`Drained`); the converse of
`QueueHolds` and `WorkerHolds`, that nobody is lost, is `Kept`; and
`CoroutinesCounted` needs that the coroutines of a loop are finitely many
(`Counted`).

**MhdServer.** Every step of the server is, to the pool's variables, a step of
`WorkerPool` or none (`PoolStep`), so that its invariants are inherited without a
second proof (`PoolInv`), its steps being the pool's (`ServerImplementsPool`) and with
them those of `RequestLifecycle`; and to the stream's variables a step of `Stream` or none
(`StreamStep`). `StreamInv` is inductive: a stream's flags are related to its two
references (`ReferencesHeld`), and its buffer to what was written and read
(`BufferFollows`). `BodyWhole` needs the pool, since a final call is made once;
`StopSafe` needs both, and `StopOrder`: libmicrohttpd is stopped after the pool,
when no request is between the handler's suspension and the queue.

**CorServerConn.** A connection's references and its memory are counts of
requests, so that an induction has to count: `Counted` states, of each connection,
the count its record has and that the holders are finitely many, and every action
takes one request or the loop in or out (`CountOne`). Only an event of a batch is
delivered to a connection without a reference of its own: with a coroutine resumed in
the middle of the batch (`ResumeAtEvent`) it may come to one that is freed. Those steps
are `StaleEvent`s; the induction holds up to them, and `DedicatedAlone` across them.

**CorMux.** An action changes one coroutine, one connection, and the `done` and
`ready` of others. `Moves(c, s)` says this once for all of them: the write turn is
taken, kept or let go (with the head of the waiters woken), a call is linked with a
fresh number, the connection is named anew, opened or dropped, a request is written
or an answer looked up. There is one lemma for each action, that it is such a move, and one for
each part of `MuxInv`, that such moves keep it. `OwnResponse` alone is not
inductive: it needs `FrameOfTarget` when the body is in, which needs `NumbersKept`
when the header is, which needs `CallsNumbered` when a call is linked; and a late
answer meets no newer call because of `AnswersFollow`. `ReadTurnSound` does the
same with `Calm(c, s)`, the moves that are left while no connection has been failed;
a step that fails one sets `broken`, which stays. Connects may fail and calls may time
out before that.

**HTTP client.** `ClientPool_proofs` states what get, put and evict do to the pool,
for any hash: which connections leave, which counters change, and that nothing is
in it twice. `HttpClient` and `ClientMulti`, whose steps these are, cite it. Their
inductive invariants are their `Inv`, with the pool finite (`Sound`), seen caller by
caller and entry by entry (`Parts`): a step of one leaves what is said of the
others alone, because a connection has one user. `OnlyExpiredEvicted` is a
property of steps: an eviction is a step of the caller that read the clock, so that
the exception's caller is the evictor (divergence 11).

**Connect.** `ConnectInv` is inductive. A Lookup's references are counted without
cardinalities (`RefsExact`: one for its caller, one for its thread); a socket is
told from another's by `SocketsApart`; `TlsInOrder` says how far the one who
initialises is, until two do (`raced`); with verification off (`Insecure`) too.

**Dispatch.** `PipelineInv` is not inductive: that the outer request is bound again
when an inner one ends depends on what every call on the stack has kept. The
inductive invariant is `DispatchInv`:
 - `Stacked`: the calls of a coroutine and its states are stacks of one height. A
   call on level l keeps the binding of level l - 1 (`CallRight`), and all calls but
   the innermost are in their routine; a state is as the phase of its call has it
   (`StateRight`): nothing has answered before the routine, nothing is wrong where a
   phase is entered that an early return guards, a problem in what is answered has
   the status of an error, and only an admitted request has come past the admit hook;
 - `Bound`: what runs does not wait and is bound to the top of its stack, and a
   binding left over is to a state that is allocated;
 - `Waiting`: what waits has saved the top of its stack, and nobody else anything.

There is a lemma for each action. What a search, a query or a table gives is no part
of the argument, so that it holds whatever the routes are and however the code
errs about them (divergences 13, 14 and 23).

**ResponseFraming.** `FramingInv` says nothing of what a caller reads next, so it is
not inductive. `Reading` adds that: what is in the buffer, on its way and to come is
the response to the request under way, cut at two places where a piece may end
(`InOrder`); or it begins with the line end that a chunked response has left behind
(`LineFirst`, divergence 8), and then neither read loop takes it for a response. The
rest of the proof says what `Complete` and `Parse` make of each part of each of the six
framings; with these finitely many forms `Chunks` and `Bytes`, which are recursive
functions, are unfolded step by step. A head that is cut at a line's end is one more
form, which `Complete` takes for a whole response: there `tooSoon` records the request,
and what is read behind it begins in the middle of a response and is none.

What the proofs asked of the models: the parts of the invariants above that are
not promises but places (`RequestsPlaced`, `CallersInOrder`, `InOrder`,
`SendingLinked` and the like), and assumptions on constants that had gone without
saying, such as `Hosts # {}` and numbers that are natural. TLC checks both in the
runs.

The proofs needed `CASE`s whose conditions exclude each other where those of
`Dispatch` and `ResponseFraming` overlapped: they are chains of IF now, in the order of
the code's tests.

Only model-checked:
 - `RoutedRight` and `AllowExact` of `Dispatch`: for arbitrary routes they are false, as
   divergences 13, 14 and 23 tell; the run's routes meet them only where `Astray` and
   `TakesEmpty` say so. `ParamsRight` of `Dispatch` and `RouteRight` of `ProxyRoute` say what
   recursive functions over texts compute (`RequestTarget!ParamsOf`, the parsing of a
   no-proxy list), for which one would need an induction theorem with an operator
   parameter; the installed provers cannot instantiate one. `Configs` of `RouteRight` is
   besides a list of examples, each with what it means;
 - liveness (`EveryRequestFinishes`, `StopEnds`, `ConnectionsEnd`, `EndedStreamIsOver`,
   `SendReturns`, `RequestAnswered`, `ConnFreed`, `PerformReturns`, `RequestsEnd`,
   `ConnectEnds`): no reasoning about fairness and ENABLED in the installed version.

## 6. Not modelled, and the plan

To be proved: that what is encoded decodes to itself (`Decode` after `Encode` in
`RequestTarget`), and with it `ParamsRight`, once induction over data is within reach.

To be modelled: an abstract multiplexer that `CorMux` implements where no
connection breaks; callers of it that are not coroutines; the reuse of a
descriptor's number by the kernel.

Partly modelled, by choice: a frame's encoding and the HELLO tables of
`cor://`, the reading of single headers, the rendering of answers and problems.
They are conversions without state, and no property here depends on them. The
`strtol`s of ports and lengths likewise.

Left out: OpenSSL's state, the connections and streams of the built-in server
(corHttp), the coroutine loop (corBase): they are not in this repository, and
appear as what the code here relies on. The signals of `corRestRun.c`, trace
levels, MIME types, versions and the test programs.
