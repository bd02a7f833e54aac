----------------------------- MODULE HttpClient -----------------------------
(***************************************************************************)
(* The blocking HTTP client of corRest (corRestClientSend, corRestClient.c)*)
(* called by several threads, or coroutines, that share the pool of idle   *)
(* connections: get or make a connection, send, read the answer, once more *)
(* on a new connection if a pooled one was found dead, follow redirects,   *)
(* pool or close.  The framing of an answer is in ResponseFraming.         *)
(***************************************************************************)
EXTENDS ClientPool

CONSTANTS
  Threads,       \* the callers
  MaxCalls,      \* bound: the calls one of them makes
  MaxRedirects   \* req->maxRedirects

ASSUME HttpClientAssumption == MaxCalls \in Nat /\ MaxRedirects \in Nat

VARIABLES
  pc, calls,
  host,       \* host[t]: where the request goes
  redirects,  \* how many were followed
  now,        \* what nowMs() said
  conn,       \* conn[t]: the connection in use
  fromPool,
  after,      \* where the caller goes on when its connection is put away
  writes,     \* fromPool of every time the request was written to its host
  serial,     \* how many requests were written, over all
  got,        \* the request whose answer was read last
  peerOpen,   \* the connections the peer has not closed
  asked, came \* per connection: requests the peer has to answer, and
              \* answers that have arrived and are not read

callVars == <<pc, calls, host, redirects, now, conn, fromPool, after, writes, serial, got>>
peerVars == <<peerOpen, asked, came>>
vars     == <<poolVars, callVars, peerVars>>

\* a written request: who wrote it, and its number
Ids == Threads \X Nat

TypeOK ==
  /\ PoolTypeOK
  /\ pc \in [Threads -> {"idle", "get", "pool", "peek", "create", "send", "answer", "put"}]
  /\ calls \in [Threads -> 0 .. MaxCalls]
  /\ host \in [Threads -> Hosts]
  /\ redirects \in [Threads -> 0 .. MaxRedirects]
  /\ now \in [Threads -> 0 .. MaxTime]
  /\ conn \in [Threads -> Conns \cup {None}]
  /\ fromPool \in [Threads -> BOOLEAN]
  /\ after \in [Threads -> {"idle", "get"}]
  /\ writes \in [Threads -> Seq(BOOLEAN)]
  /\ serial \in [Threads -> Nat]
  /\ got \in [Threads -> Ids \cup {None}]
  /\ peerOpen \subseteq Conns
  /\ asked \in [Conns -> Seq(Ids)] /\ came \in [Conns -> Seq(Ids)]

Init ==
  /\ PoolInit
  /\ pc = [t \in Threads |-> "idle"]
  /\ calls = [t \in Threads |-> 0]
  /\ host \in [Threads -> {CHOOSE h \in Hosts : TRUE}]
  /\ redirects = [t \in Threads |-> 0]
  /\ now = [t \in Threads |-> 0]
  /\ conn = [t \in Threads |-> None]
  /\ fromPool = [t \in Threads |-> FALSE]
  /\ after = [t \in Threads |-> "idle"]
  /\ writes = [t \in Threads |-> <<>>]
  /\ serial = [t \in Threads |-> 0]
  /\ got = [t \in Threads |-> None]
  /\ peerOpen = {}
  /\ asked = [c \in Conns |-> <<>>] /\ came = [c \in Conns |-> <<>>]

To(t, from, to) ==
  /\ pc[t] = from
  /\ pc' = [pc EXCEPT ![t] = to]

-----------------------------------------------------------------------------
(* The peers and the network (external)                                    *)

TimePasses == Tick /\ UNCHANGED <<callVars, peerVars>>

PeerAnswers(c) ==
  /\ c \in open /\ c \in peerOpen /\ asked[c] # <<>>
  /\ came' = [came EXCEPT ![c] = Append(@, Head(asked[c]))]
  /\ asked' = [asked EXCEPT ![c] = Tail(@)]
  /\ UNCHANGED <<poolVars, callVars, peerOpen>>

PeerCloses(c) ==
  /\ c \in peerOpen /\ c \in open
  /\ peerOpen' = peerOpen \ {c}
  /\ UNCHANGED <<poolVars, callVars, asked, came>>

-----------------------------------------------------------------------------
(* corRestClientSend and sendFollow                                        *)

Send(t, h) ==
  /\ calls[t] < MaxCalls
  /\ To(t, "idle", "get")
  /\ calls' = [calls EXCEPT ![t] = @ + 1]
  /\ host' = [host EXCEPT ![t] = h]
  /\ redirects' = [redirects EXCEPT ![t] = 0]
  /\ writes' = [writes EXCEPT ![t] = <<>>]
  /\ got' = [got EXCEPT ![t] = None]
  /\ UNCHANGED <<poolVars, peerVars, now, conn, fromPool, after, serial>>

\* corRestClientPoolGet reads the time, and only then takes the mutex
ReadClock(t) ==
  /\ To(t, "get", "pool")
  /\ now' = [now EXCEPT ![t] = clock]
  /\ UNCHANGED <<poolVars, peerVars, calls, host, redirects, conn, fromPool, after, writes, serial, got>>

Get(t) ==
  /\ \E c \in Conns \cup {None} :
       /\ PoolGet(host[t], now[t], c)
       /\ To(t, "pool", IF c = None THEN "create" ELSE "peek")
       /\ conn' = [conn EXCEPT ![t] = c]
       /\ fromPool' = [fromPool EXCEPT ![t] = c # None]
  /\ now' = [now EXCEPT ![t] = 0]
  /\ UNCHANGED <<peerVars, calls, host, redirects, after, writes, serial, got>>

\* connIsAlive: no end of file, and nothing to be read
Alive(c) == c \in peerOpen /\ came[c] = <<>>

PeekAlive(t) ==
  /\ To(t, "peek", "send")
  /\ Alive(conn[t])
  /\ UNCHANGED <<poolVars, peerVars, calls, host, redirects, now, conn, fromPool, after, writes, serial, got>>

PeekDead(t) ==
  /\ To(t, "peek", "create")
  /\ ~Alive(conn[t])
  /\ Close(conn[t])
  /\ conn' = [conn EXCEPT ![t] = None]
  /\ fromPool' = [fromPool EXCEPT ![t] = FALSE]
  /\ UNCHANGED <<peerVars, calls, host, redirects, now, after, writes, serial, got>>

\* connCreate, of a connection or of the retry's
Create(t) ==
  /\ To(t, "create", "send")
  /\ \E c \in Conns :
       /\ Make(c, host[t])
       /\ conn' = [conn EXCEPT ![t] = c]
       /\ peerOpen' = peerOpen \cup {c}
       /\ asked' = [asked EXCEPT ![c] = <<>>]
       /\ came' = [came EXCEPT ![c] = <<>>]
  /\ UNCHANGED <<calls, host, redirects, now, fromPool, after, writes, serial, got>>

CreateFails(t) ==
  /\ To(t, "create", "idle")
  /\ UNCHANGED <<poolVars, peerVars, calls, host, redirects, now, conn, fromPool, after, writes, serial, got>>

\* connWriteAll: it may succeed on a connection whose peer is gone
Write(t) ==
  /\ To(t, "send", "answer")
  /\ serial' = [serial EXCEPT ![t] = @ + 1]
  /\ writes' = [writes EXCEPT ![t] = Append(@, fromPool[t])]
  /\ asked' = [asked EXCEPT ![conn[t]] = Append(@, <<t, serial[t] + 1>>)]
  /\ got' = [got EXCEPT ![t] = None]
  /\ UNCHANGED <<poolVars, calls, host, redirects, now, conn, fromPool, after, peerOpen, came>>

\* mutant: the retry is taken for a pooled connection again
BrokenAgain(t) ==
  /\ pc[t] \in {"send", "answer"}
  /\ conn[t] \notin peerOpen /\ (pc[t] = "answer" => came[conn[t]] = <<>>)
  /\ Close(conn[t])
  /\ conn' = [conn EXCEPT ![t] = None]
  /\ \/ fromPool[t] /\ pc' = [pc EXCEPT ![t] = "create"]
     \/ ~fromPool[t] /\ pc' = [pc EXCEPT ![t] = "idle"]
  /\ UNCHANGED <<peerVars, calls, host, redirects, now, fromPool, after, writes, serial, got>>

\* CORR_ERR_SEND, CORR_ERR_RECV or CORR_ERR_CLOSED: the connection goes; once
\* more on a new one if this was the pool's
Broken(t) ==
  /\ pc[t] \in {"send", "answer"}
  /\ conn[t] \notin peerOpen /\ (pc[t] = "answer" => came[conn[t]] = <<>>)
  /\ Close(conn[t])
  /\ conn' = [conn EXCEPT ![t] = None]
  /\ \/ fromPool[t] /\ pc' = [pc EXCEPT ![t] = "create"]
     \/ ~fromPool[t] /\ pc' = [pc EXCEPT ![t] = "idle"]
  /\ fromPool' = [fromPool EXCEPT ![t] = FALSE]
  /\ UNCHANGED <<peerVars, calls, host, redirects, now, after, writes, serial, got>>

\* mutant: after a timeout too, the connection is pooled
FailsPools(t) ==
  /\ To(t, "answer", "idle")
  /\ PoolPut(conn[t])
  /\ conn' = [conn EXCEPT ![t] = None]
  /\ UNCHANGED <<peerVars, calls, host, redirects, now, fromPool, after, writes, serial, got>>

\* CORR_ERR_TIMEOUT, CORR_ERR_PARSE, CORR_ERR_ALLOC: no second attempt
Fails(t) ==
  /\ To(t, "answer", "idle")
  /\ Close(conn[t])
  /\ conn' = [conn EXCEPT ![t] = None]
  /\ UNCHANGED <<peerVars, calls, host, redirects, now, fromPool, after, writes, serial, got>>

ReadAnswer(t) ==
  /\ came[conn[t]] # <<>>
  /\ got' = [got EXCEPT ![t] = Head(came[conn[t]])]
  /\ came' = [came EXCEPT ![conn[t]] = Tail(@)]

\* an answer that ends the call
Answer(t) ==
  /\ To(t, "answer", "put")
  /\ ReadAnswer(t)
  /\ after' = [after EXCEPT ![t] = "idle"]
  /\ UNCHANGED <<poolVars, calls, host, redirects, now, conn, fromPool, writes, serial, peerOpen, asked>>

\* 301, 302, 307, 308: to the same or another host
Redirect(t, h) ==
  /\ redirects[t] < MaxRedirects
  /\ To(t, "answer", "put")
  /\ ReadAnswer(t)
  /\ redirects' = [redirects EXCEPT ![t] = @ + 1]
  /\ after' = [after EXCEPT ![t] = "get"]
  /\ host' = [host EXCEPT ![t] = h]
  /\ UNCHANGED <<poolVars, calls, now, conn, fromPool, writes, serial, peerOpen, asked>>

\* one redirect too many, or one without a Location
RedirectFails(t) ==
  /\ To(t, "answer", "idle")
  /\ ReadAnswer(t)
  /\ Close(conn[t])
  /\ conn' = [conn EXCEPT ![t] = None]
  /\ UNCHANGED <<calls, host, redirects, now, fromPool, after, writes, serial, peerOpen, asked>>

\* the connection is put away: pooled if the answer's keepAlive says so
PutAway(t) ==
  /\ To(t, "put", after[t])
  /\ PoolPut(conn[t]) \/ Close(conn[t])
  /\ conn' = [conn EXCEPT ![t] = None]
  /\ writes' = [writes EXCEPT ![t] = <<>>]
  /\ UNCHANGED <<peerVars, calls, host, redirects, now, fromPool, after, serial, got>>

Step(t) ==
  \/ ReadClock(t) \/ Get(t) \/ PeekAlive(t) \/ PeekDead(t) \/ Create(t) \/ CreateFails(t) \/ Write(t)
  \/ Broken(t) \/ Fails(t) \/ Answer(t) \/ RedirectFails(t) \/ PutAway(t)
  \/ \E h \in Hosts : Redirect(t, h)

Next ==
  \/ TimePasses
  \/ \E c \in Conns : PeerAnswers(c) \/ PeerCloses(c)
  \/ \E t \in Threads : Step(t) \/ \E h \in Hosts : Send(t, h)

\* the threads keep running; a request that is not answered times out
Fairness == \A t \in Threads : WF_vars(Step(t))

Spec == Init /\ [][Next]_vars /\ Fairness

-----------------------------------------------------------------------------
(* Properties                                                              *)

\* A connection that exists is in the pool or in one caller's hands, and only
\* one's: none leaks, none is closed under its user, none is used by two.
OneUser ==
  /\ PoolSound
  /\ \A t \in Threads : conn[t] # None <=> pc[t] \in {"peek", "send", "answer", "put"}
  /\ \A t \in Threads : conn[t] # None =>
       /\ conn[t] \in open \ Pooled
       /\ \A u \in Threads : conn[u] = conn[t] => u = t
  /\ open \subseteq Pooled \cup {conn[t] : t \in Threads}

\* A request goes over a connection to its own host, pooled, new or retried,
\* and after a redirect too - although hosts share buckets.
RightPeer == \A t \in Threads : pc[t] \in {"peek", "send", "answer"} => hostOf[conn[t]] = host[t]

\* The answer a caller reads is the answer to the request it wrote last: no
\* answer of a request that failed or timed out comes back through the pool.
OwnAnswer == \A t \in Threads : got[t] # None => got[t] = <<t, serial[t]>>

\* Nobody is owed an answer but the one who waits for it: what is pooled, or is
\* about to be written to, is silent.
NothingOwed ==
  /\ \A c \in Pooled : asked[c] = <<>> /\ came[c] = <<>>
  /\ \A t \in Threads : conn[t] # None =>
       \/ pc[t] # "answer" /\ asked[conn[t]] = <<>> /\ came[conn[t]] = <<>>
       \/ pc[t] = "answer" /\ asked[conn[t]] = <<<<t, serial[t]>>>> /\ came[conn[t]] = <<>>
       \/ pc[t] = "answer" /\ asked[conn[t]] = <<>> /\ came[conn[t]] = <<<<t, serial[t]>>>>

\* A request is written to its host at most twice, and the second time only
\* because the pool's connection failed, on a connection made for it.
WrittenTwiceAtMost ==
  \A t \in Threads : writes[t] \in {<<>>, <<TRUE>>, <<FALSE>>, <<TRUE, FALSE>>}

\* ... since a caller whose connection is not the pool's has written once before at
\* most, and on the pool's.
WritesFollow ==
  \A t \in Threads :
    /\ pc[t] = "create" => ~fromPool[t]
    /\ pc[t] \in {"get", "pool", "peek"} => writes[t] = <<>>
    /\ pc[t] = "create" => writes[t] \in {<<>>, <<TRUE>>}
    /\ pc[t] = "send" => writes[t] = <<>> \/ (~fromPool[t] /\ writes[t] = <<TRUE>>)
    /\ pc[t] = "answer" => \/ fromPool[t] /\ writes[t] = <<TRUE>>
                           \/ ~fromPool[t] /\ writes[t] \in {<<FALSE>>, <<TRUE, FALSE>>}

\* "Evict one expired connection from a bucket" (corRestClientPool.c), and no
\* other.  The exception: the clock is read before the mutex is taken, so a
\* connection put in the pool in between is newer than that time, its age wraps
\* around, and it goes too - although it was used a moment ago.
OnlyExpiredEvicted ==
  [][\A b \in Buckets : \A c \in Idle(b) : c \notin open' =>
       \/ clock - lastUsed[c] > IdleTimeout
       \/ \E t \in Threads : pc[t] = "pool" /\ pc'[t] # "pool" /\ lastUsed[c] > now[t]]_vars

\* Every call returns, however many redirects and dead connections it meets.
\* For instances without symmetry (README, The runs).
SendReturns == \A t \in Threads : pc[t] = "get" ~> pc[t] = "idle"

\* The time a caller has read is not ahead of the clock.
ClockRead == \A t \in Threads : pc[t] = "pool" => now[t] <= clock

\* The pool and its users, over a well-typed state: the counters say what is in
\* it, a connection has one holder, it leads to the host its user asked for, and
\* what comes over it answers that user's request, which is not written too often.
ClientInv ==
  /\ TypeOK /\ PoolCounted /\ OneUser /\ RightPeer /\ NothingOwed /\ OwnAnswer
  /\ WritesFollow /\ ClockRead
=============================================================================
