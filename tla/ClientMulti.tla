----------------------------- MODULE ClientMulti -----------------------------
(***************************************************************************)
(* The multi engine of the HTTP client (corRestClientMulti.c): a batch of  *)
(* requests over non-blocking connections, new ones or the pool's, one     *)
(* epoll loop, one deadline for all of them; then the connections are      *)
(* pooled or closed.  Batch after batch, so that the pool is used.         *)
(*                                                                         *)
(* An event is handled alone: nothing but its own handling changes what an *)
(* entry's socket is ready for, so the order inside epoll_wait's array     *)
(* does not matter.                                                        *)
(***************************************************************************)
EXTENDS ClientPool

CONSTANTS
  NEntries,    \* multi->count
  HostOfEntry, \* HostOfEntry[e]: where request e goes
  Secure,      \* the requests that are https
  NAddresses,  \* how many addresses a name resolves to, at most
  MaxBatches   \* bound: the batches performed

Entries == 1 .. NEntries

ASSUME ClientMultiAssumption ==
  /\ NEntries \in Nat \ {0} /\ {NAddresses, MaxBatches} \subseteq Nat
  /\ HostOfEntry \in [Entries -> Hosts] /\ Secure \subseteq Entries

VARIABLES
  pc, ix, cur,  \* Perform: where it is, the entry of its for loops, the one being started
  batches,
  expired,      \* the deadline is past
  state, conn, fromPool, retried, result, keepAlive,   \* per entry
  partly,       \* per entry: some of the response was read, conn->bufLen > 0
  armed,        \* per entry: what epoll watches its socket for
  done,         \* multi->done
  aiLeft,       \* per connection: how many addresses are left to try
  aiList,       \* the connections that own an address list
  socket,       \* per connection: "pending", "refused", "up" or "closed"
  asked, came,  \* per connection: requests to answer; answers not read yet
  serial,       \* requests written so far
  wrote, got    \* per entry: its number on the wire, and the one answered

entryVars == <<state, conn, fromPool, retried, result, keepAlive, partly, armed, done, wrote, got>>
netVars   == <<aiLeft, aiList, socket, asked, came>>
callVars  == <<pc, ix, cur, batches, expired>>
vars      == <<poolVars, entryVars, netVars, callVars, serial>>

TypeOK ==
  /\ PoolTypeOK
  /\ pc \in {"idle", "begin", "get", "peek", "create", "loop", "handshake", "cleanup"}
  /\ ix \in 1 .. NEntries + 1 /\ cur \in Entries
  /\ batches \in 0 .. MaxBatches
  /\ expired \in BOOLEAN
  /\ state \in [Entries -> {"init", "connecting", "writing", "reading", "done"}]
  /\ conn \in [Entries -> Conns \cup {None}]
  /\ fromPool \in [Entries -> BOOLEAN] /\ retried \in [Entries -> BOOLEAN]
  /\ keepAlive \in [Entries -> BOOLEAN] /\ partly \in [Entries -> BOOLEAN]
  /\ result \in [Entries -> {"ok", "url", "connect", "send", "recv", "parse", "timeout"}]
  /\ armed \in [Entries -> {"none", "out", "in"}]
  /\ done \in 0 .. NEntries
  /\ aiLeft \in [Conns -> 0 .. NAddresses]
  /\ aiList \subseteq Conns
  /\ socket \in [Conns -> {"pending", "refused", "up", "closed"}]
  /\ asked \in [Conns -> Seq(Nat)]
  /\ came \in [Conns -> Seq([id : Nat, whole : BOOLEAN])]
  /\ serial \in Nat
  /\ wrote \in [Entries -> Nat] /\ got \in [Entries -> Nat]

\* what earlier calls may have left in the pool: idle connections to one host
InitialPool(h) ==
  /\ bucket \in {[b \in Buckets |-> IF b = BucketOf[h] THEN s ELSE <<>>] :
                 s \in {s \in UNION {[1 .. n -> Conns] : n \in 0 .. MaxIdle} : IsInjective(s)}}
  /\ count = [b \in Buckets |-> Len(bucket[b])]
  /\ totalIdle = count[BucketOf[h]]
  /\ open = ToSet(bucket[BucketOf[h]])
  /\ hostOf = [c \in Conns |-> IF c \in open THEN h ELSE None]
  /\ clock = 0 /\ lastUsed = [c \in Conns |-> 0]

Init ==
  /\ \E h \in Hosts : InitialPool(h)
  /\ pc = "idle" /\ ix = 1 /\ cur = 1 /\ batches = 0 /\ expired = FALSE
  /\ state = [e \in Entries |-> "init"]
  /\ conn = [e \in Entries |-> None]
  /\ fromPool = [e \in Entries |-> FALSE] /\ retried = [e \in Entries |-> FALSE]
  /\ result = [e \in Entries |-> "ok"]
  /\ keepAlive = [e \in Entries |-> TRUE] /\ partly = [e \in Entries |-> FALSE]
  /\ armed = [e \in Entries |-> "none"]
  /\ done = 0
  /\ aiLeft = [c \in Conns |-> 0] /\ aiList = {}
  /\ socket = [c \in Conns |-> IF c \in open THEN "up" ELSE "closed"]
  /\ asked = [c \in Conns |-> <<>>] /\ came = [c \in Conns |-> <<>>]
  /\ serial = 0
  /\ wrote = [e \in Entries |-> 0] /\ got = [e \in Entries |-> 0]

\* state = CorrStateDone, with a result, and one more is done
Done(e, r) ==
  /\ state' = [state EXCEPT ![e] = "done"]
  /\ result' = [result EXCEPT ![e] = r]
  /\ done' = done + 1

-----------------------------------------------------------------------------
(* The network and the peers (external)                                    *)

netOnly == <<poolVars, entryVars, callVars, serial>>

ConnectEnds(c) ==
  /\ socket[c] = "pending" /\ c \in open
  /\ \E s \in {"up", "refused"} : socket' = [socket EXCEPT ![c] = s]
  /\ UNCHANGED <<netOnly, aiLeft, aiList, asked, came>>

PeerAnswers(c) ==
  /\ c \in open /\ socket[c] = "up" /\ asked[c] # <<>>
  /\ came' = [came EXCEPT ![c] = Append(@, [id |-> Head(asked[c]), whole |-> TRUE])]
  /\ asked' = [asked EXCEPT ![c] = Tail(@)]
  /\ UNCHANGED <<netOnly, aiLeft, aiList, socket>>

\* part of an answer, and the connection closed
PeerCutsShort(c) ==
  /\ c \in open /\ socket[c] = "up" /\ asked[c] # <<>>
  /\ came' = [came EXCEPT ![c] = Append(@, [id |-> Head(asked[c]), whole |-> FALSE])]
  /\ asked' = [asked EXCEPT ![c] = <<>>]
  /\ socket' = [socket EXCEPT ![c] = "closed"]
  /\ UNCHANGED <<netOnly, aiLeft, aiList>>

PeerCloses(c) ==
  /\ c \in open /\ socket[c] = "up"
  /\ socket' = [socket EXCEPT ![c] = "closed"]
  /\ asked' = [asked EXCEPT ![c] = <<>>]
  /\ UNCHANGED <<netOnly, aiLeft, aiList, came>>

DeadlinePasses ==
  /\ pc # "idle" /\ ~expired
  /\ expired' = TRUE
  /\ UNCHANGED <<poolVars, entryVars, netVars, pc, ix, cur, batches, serial>>

Net == \E c \in Conns : ConnectEnds(c) \/ PeerAnswers(c) \/ PeerCutsShort(c) \/ PeerCloses(c)

-----------------------------------------------------------------------------
(* startConnect, in the steps at which something else may happen           *)

\* what follows startConnect: the next entry of the first loop, or the events
AfterStart == IF ix <= NEntries THEN "begin" ELSE "loop"

Get ==
  /\ pc = "get"
  /\ \E c \in Conns \cup {None} :
       /\ PoolGet(HostOfEntry[cur], clock, c)
       /\ conn' = [conn EXCEPT ![cur] = c]
       /\ pc' = IF c = None THEN "create" ELSE "peek"
  /\ UNCHANGED <<netVars, state, fromPool, retried, result, keepAlive, partly, armed, done, wrote, got,
                 ix, cur, batches, expired, serial>>

\* connIsAlive, and the peek of startConnect
PeekAlive ==
  /\ pc = "peek" /\ socket[conn[cur]] = "up" /\ came[conn[cur]] = <<>>
  /\ state' = [state EXCEPT ![cur] = "writing"]
  /\ fromPool' = [fromPool EXCEPT ![cur] = TRUE]
  /\ armed' = [armed EXCEPT ![cur] = "out"]
  /\ pc' = AfterStart
  /\ UNCHANGED <<poolVars, netVars, conn, retried, result, keepAlive, partly, done, wrote, got,
                 ix, cur, batches, expired, serial>>

PeekDead ==
  /\ pc = "peek" /\ ~(socket[conn[cur]] = "up" /\ came[conn[cur]] = <<>>)
  /\ Close(conn[cur])
  /\ aiList' = aiList \ {conn[cur]}
  /\ conn' = [conn EXCEPT ![cur] = None]
  /\ pc' = "create"
  /\ UNCHANGED <<aiLeft, socket, asked, came, state, fromPool, retried, result, keepAlive, partly, armed,
                 done, wrote, got, ix, cur, batches, expired, serial>>

\* an address connects at once, or is being connected to: left are unused.
\* The list is released at once in the first case (and no handshake follows, https
\* or not), the connection's in the other
Create ==
  /\ pc = "create"
  /\ \E c \in Conns, left \in 0 .. NAddresses - 1, s \in {"up", "pending"} :
       /\ Make(c, HostOfEntry[cur])
       /\ conn' = [conn EXCEPT ![cur] = c]
       /\ socket' = [socket EXCEPT ![c] = s]
       /\ aiLeft' = [aiLeft EXCEPT ![c] = IF s = "up" THEN 0 ELSE left]
       /\ aiList' = IF s = "up" THEN aiList ELSE aiList \cup {c}
       /\ asked' = [asked EXCEPT ![c] = <<>>] /\ came' = [came EXCEPT ![c] = <<>>]
       /\ state' = [state EXCEPT ![cur] = IF s = "up" THEN "writing" ELSE "connecting"]
       /\ keepAlive' = [keepAlive EXCEPT ![cur] = TRUE]
  /\ armed' = [armed EXCEPT ![cur] = "out"]
  /\ pc' = AfterStart
  /\ UNCHANGED <<fromPool, retried, result, partly, done, wrote, got, ix, cur, batches, expired, serial>>

\* the name does not resolve, or no address is left
CreateFails ==
  /\ pc = "create"
  /\ Done(cur, "connect")
  /\ pc' = AfterStart
  /\ UNCHANGED <<poolVars, netVars, conn, fromPool, retried, keepAlive, partly, armed, wrote, got,
                 ix, cur, batches, expired, serial>>

-----------------------------------------------------------------------------
(* corRestClientMultiPerform                                               *)

\* a new engine, and its requests added
Perform ==
  /\ pc = "idle" /\ batches < MaxBatches
  /\ pc' = "begin" /\ ix' = 1 /\ batches' = batches + 1 /\ expired' = FALSE
  /\ state' = [e \in Entries |-> "init"]
  /\ fromPool' = [e \in Entries |-> FALSE] /\ retried' = [e \in Entries |-> FALSE]
  /\ result' = [e \in Entries |-> "ok"] /\ partly' = [e \in Entries |-> FALSE]
  /\ done' = 0
  /\ wrote' = [e \in Entries |-> 0] /\ got' = [e \in Entries |-> 0]
  /\ UNCHANGED <<poolVars, netVars, conn, keepAlive, armed, cur, serial>>

\* one round of the first loop: the URL and the send buffer
Begin ==
  /\ pc = "begin" /\ ix <= NEntries
  /\ ix' = ix + 1 /\ cur' = ix
  /\ \/ /\ pc' = "get"
        /\ UNCHANGED <<state, result, done>>
     \/ /\ Done(ix, "url")
        /\ UNCHANGED pc
  /\ UNCHANGED <<poolVars, netVars, conn, fromPool, retried, keepAlive, partly, armed, wrote, got,
                 batches, expired, serial>>

BeginEnds ==
  /\ pc = "begin" /\ ix > NEntries
  /\ pc' = "loop"
  /\ UNCHANGED <<poolVars, entryVars, netVars, ix, cur, batches, expired, serial>>

\* mutant: the wait has no timeout, the deadline is seen only after an event
EndAllAwake ==
  /\ pc = "loop" /\ done < NEntries /\ expired
  /\ \E e \in Entries :
       \/ armed[e] = "out" /\ socket[conn[e]] # "pending"
       \/ armed[e] = "in" /\ (came[conn[e]] # <<>> \/ socket[conn[e]] = "closed")
  /\ result' = [e \in Entries |-> IF state[e] = "done" THEN result[e] ELSE "timeout"]
  /\ state' = [e \in Entries |-> "done"]
  /\ done' = NEntries
  /\ pc' = "cleanup" /\ ix' = 1
  /\ UNCHANGED <<poolVars, netVars, conn, fromPool, retried, keepAlive, partly, armed, wrote, got,
                 cur, batches, expired, serial>>

\* the deadline, looked at before every wait - or no wait is to be had
EndAll ==
  /\ pc = "loop" /\ done < NEntries
  /\ \E r \in {"timeout", "recv"} :
       /\ r = "timeout" => expired
       /\ result' = [e \in Entries |-> IF state[e] = "done" THEN result[e] ELSE r]
  /\ state' = [e \in Entries |-> "done"]
  /\ done' = done + Cardinality({e \in Entries : state[e] # "done"})
  /\ pc' = "cleanup" /\ ix' = 1
  /\ UNCHANGED <<poolVars, netVars, conn, fromPool, retried, keepAlive, partly, armed, wrote, got,
                 cur, batches, expired, serial>>

AllDone ==
  /\ pc = "loop" /\ done >= NEntries
  /\ pc' = "cleanup" /\ ix' = 1
  /\ UNCHANGED <<poolVars, entryVars, netVars, cur, batches, expired, serial>>

\* mutant: the address list of a connect that was cut off is forgotten
CleanupKeepsList ==
  LET c == conn[ix]
  IN /\ pc = "cleanup" /\ ix <= NEntries
     /\ ix' = ix + 1
     /\ armed' = [armed EXCEPT ![ix] = "none"]
     /\ conn' = [conn EXCEPT ![ix] = None]
     /\ IF c = None THEN UNCHANGED poolVars
        ELSE IF result[ix] = "ok" /\ keepAlive[ix] THEN PoolPut(c) ELSE Close(c)
     /\ UNCHANGED <<aiList, state, fromPool, retried, result, keepAlive, partly, done, wrote, got,
                    aiLeft, socket, asked, came, pc, cur, batches, expired, serial>>

\* an entry's connection is put into the pool, after a response that allows
\* it, or closed; its address list goes in either case
Cleanup ==
  LET c == conn[ix]
  IN /\ pc = "cleanup" /\ ix <= NEntries
     /\ ix' = ix + 1
     /\ armed' = [armed EXCEPT ![ix] = "none"]
     /\ conn' = [conn EXCEPT ![ix] = None]
     /\ \/ /\ c = None
           /\ UNCHANGED <<poolVars, aiList>>
        \/ /\ c # None /\ aiList' = aiList \ {c}
           /\ IF result[ix] = "ok" /\ keepAlive[ix] THEN PoolPut(c) ELSE Close(c)
     /\ UNCHANGED <<state, fromPool, retried, result, keepAlive, partly, done, wrote, got,
                    aiLeft, socket, asked, came, pc, cur, batches, expired, serial>>

Returns ==
  /\ pc = "cleanup" /\ ix > NEntries
  /\ pc' = "idle"
  /\ UNCHANGED <<poolVars, entryVars, netVars, ix, cur, batches, expired, serial>>

-----------------------------------------------------------------------------
(* An event of epoll                                                       *)

Ready(e) ==
  \/ armed[e] = "out" /\ socket[conn[e]] # "pending"
  \/ armed[e] = "in" /\ (came[conn[e]] # <<>> \/ socket[conn[e]] = "closed")

Event(e, s) == pc = "loop" /\ done < NEntries /\ ~expired /\ state[e] = s /\ Ready(e)

\* finishConnect: connected, and the address list released
Connected(e) ==
  /\ state' = [state EXCEPT ![e] = "writing"]
  /\ aiList' = aiList \ {conn[e]}
  /\ UNCHANGED <<poolVars, conn, fromPool, retried, result, keepAlive, partly, armed, done, wrote, got,
                 aiLeft, socket, asked, came, serial>>

\* it failed: the next address that can be connected to (connectNextAddress), a new
\* socket of the same connection; or none is left
NextAddress(e) ==
  /\ \E left \in 0 .. aiLeft[conn[e]] - 1, s \in {"up", "pending"} :
       /\ aiLeft' = [aiLeft EXCEPT ![conn[e]] = left]
       /\ socket' = [socket EXCEPT ![conn[e]] = s]
  /\ UNCHANGED <<poolVars, entryVars, aiList, asked, came, serial>>

NoAddressLeft(e) ==
  /\ Done(e, "connect")
  /\ aiLeft' = [aiLeft EXCEPT ![conn[e]] = 0]
  /\ aiList' = aiList \ {conn[e]}
  /\ UNCHANGED <<poolVars, conn, fromPool, retried, keepAlive, partly, armed, wrote, got,
                 socket, asked, came, serial>>

ConnectFailed(e) == NextAddress(e) \/ NoAddressLeft(e)

\* the connect is over, one way or the other
FinishConnect(e) ==
  /\ Event(e, "connecting")
  /\ \/ e \notin Secure /\ socket[conn[e]] # "refused" /\ Connected(e)
     \/ ConnectFailed(e)
  /\ UNCHANGED callVars

\* https: the tunnel through a proxy, and SSL_connect on the socket made blocking. The
\* whole batch waits, and the deadline is not looked at
Handshake(e) ==
  /\ Event(e, "connecting") /\ e \in Secure /\ socket[conn[e]] # "refused"
  /\ pc' = "handshake" /\ cur' = e
  /\ UNCHANGED <<poolVars, entryVars, netVars, ix, batches, expired, serial>>

\* what the peer sends ends it; if it sends nothing, nothing does
PeerShakes ==
  /\ pc = "handshake" /\ socket[conn[cur]] = "up"
  /\ Connected(cur) \/ ConnectFailed(cur)
  /\ pc' = "loop"
  /\ UNCHANGED <<ix, cur, batches, expired>>

\* nor is there more to wait for when it has closed
HandshakeCut ==
  /\ pc = "handshake" /\ socket[conn[cur]] = "closed"
  /\ ConnectFailed(cur)
  /\ pc' = "loop"
  /\ UNCHANGED <<ix, cur, batches, expired>>

\* the last byte of the request is written - even if the peer is gone
Write(e) ==
  /\ Event(e, "writing")
  /\ serial' = serial + 1
  /\ wrote' = [wrote EXCEPT ![e] = serial + 1]
  /\ asked' = IF socket[conn[e]] = "up" THEN [asked EXCEPT ![conn[e]] = Append(@, serial + 1)] ELSE asked
  /\ state' = [state EXCEPT ![e] = "reading"]
  /\ armed' = [armed EXCEPT ![e] = "in"]
  /\ partly' = [partly EXCEPT ![e] = FALSE]
  /\ UNCHANGED <<poolVars, conn, fromPool, retried, result, keepAlive, done, got,
                 aiLeft, aiList, socket, came, callVars>>

\* once more, if the connection was the pool's and nothing was read: closed,
\* and startConnect again - which may find another in the pool
Restart(e) ==
  /\ fromPool[e] /\ ~retried[e]
  /\ Close(conn[e])
  /\ conn' = [conn EXCEPT ![e] = None]
  /\ aiList' = aiList \ {conn[e]}
  /\ armed' = [armed EXCEPT ![e] = "none"]
  /\ fromPool' = [fromPool EXCEPT ![e] = FALSE] /\ retried' = [retried EXCEPT ![e] = TRUE]
  /\ pc' = "get" /\ cur' = e
  /\ UNCHANGED <<state, result, keepAlive, partly, done, wrote, got, aiLeft, socket, asked, came,
                 ix, batches, expired, serial>>

WriteFails(e) ==
  /\ Event(e, "writing") /\ socket[conn[e]] = "closed"
  /\ \/ Restart(e)
     \/ /\ ~(fromPool[e] /\ ~retried[e])
        /\ Done(e, "send")
        /\ UNCHANGED <<poolVars, netVars, conn, fromPool, retried, keepAlive, partly, armed, wrote, got,
                       callVars, serial>>

\* a whole response: parsed, or malformed, or too large
Read(e) ==
  LET c == conn[e]
  IN /\ Event(e, "reading") /\ came[c] # <<>> /\ Head(came[c]).whole
     /\ came' = [came EXCEPT ![c] = Tail(@)]
     /\ got' = [got EXCEPT ![e] = Head(came[c]).id]
     /\ \E r \in {"ok", "parse"}, k \in BOOLEAN :
          Done(e, r) /\ keepAlive' = [keepAlive EXCEPT ![e] = k]
     /\ UNCHANGED <<poolVars, conn, fromPool, retried, partly, armed, wrote, aiLeft, aiList, socket, asked,
                    callVars, serial>>

ReadPart(e) ==
  LET c == conn[e]
  IN /\ Event(e, "reading") /\ came[c] # <<>> /\ ~Head(came[c]).whole
     /\ came' = [came EXCEPT ![c] = Tail(@)]
     /\ got' = [got EXCEPT ![e] = Head(came[c]).id]
     /\ partly' = [partly EXCEPT ![e] = TRUE]
     /\ UNCHANGED <<poolVars, state, conn, fromPool, retried, result, keepAlive, armed, done, wrote,
                    aiLeft, aiList, socket, asked, callVars, serial>>

\* the peer closed: what was read may pass for a response (ResponseFraming)
Eof(e) ==
  /\ Event(e, "reading") /\ came[conn[e]] = <<>>
  /\ \/ ~partly[e] /\ Restart(e)
     \/ /\ partly[e] \/ ~(fromPool[e] /\ ~retried[e])
        /\ \E r \in {"ok", "recv"} : (r = "ok" => partly[e]) /\ Done(e, r)
        /\ UNCHANGED <<poolVars, netVars, conn, fromPool, retried, keepAlive, partly, armed, wrote, got,
                       callVars, serial>>

Handle(e) ==
  \/ FinishConnect(e) \/ Handshake(e) \/ Write(e) \/ WriteFails(e)
  \/ Read(e) \/ ReadPart(e) \/ Eof(e)

Run ==
  \/ Get \/ PeekAlive \/ PeekDead \/ Create \/ CreateFails
  \/ Begin \/ BeginEnds \/ EndAll \/ AllDone \/ HandshakeCut \/ Cleanup \/ Returns
  \/ \E e \in Entries : Handle(e)

Next == Run \/ Perform \/ Net \/ PeerShakes \/ DeadlinePasses

\* the thread runs, and time passes; what the peers do is up to them
Fairness == WF_vars(Run) /\ WF_vars(DeadlinePasses)

Spec == Init /\ [][Next]_vars /\ Fairness

-----------------------------------------------------------------------------
(* Properties                                                              *)

\* multi->done, which ends the loop and is what Perform returns, counts every
\* entry once, whichever of its twelve ways to be done it took.
DoneCounted == pc # "idle" => done = Cardinality({e \in Entries : state[e] = "done"})

\* A connection that exists is in the pool or an entry's, and only one's - and
\* between two batches all of them are the pool's.
OneUser ==
  /\ PoolSound
  /\ \A e \in Entries : conn[e] # None =>
       /\ conn[e] \in open \ Pooled
       /\ \A f \in Entries : conn[f] = conn[e] => e = f
  /\ open \subseteq Pooled \cup {conn[e] : e \in Entries}
  /\ pc = "idle" => \A e \in Entries : conn[e] = None

\* The entry startConnect is at.
Starting(e) == pc \in {"get", "peek", "create"} /\ e = cur

\* Perform goes through its entries in order: none is started before its turn, the
\* events begin when all are, one that is done is not started, and the connections go
\* when all are done, one after the other.
InOrder ==
  /\ pc \in {"begin", "get", "peek", "create"} =>
       \A e \in Entries : e >= ix => state[e] = "init" /\ conn[e] = None
  /\ pc \in {"loop", "handshake"} => ix > NEntries
  /\ pc = "handshake" => state[cur] = "connecting"
  /\ \A e \in Entries : Starting(e) =>
       e < ix /\ state[e] # "done" /\ (conn[e] # None <=> pc = "peek")
  /\ pc = "cleanup" => \A e \in Entries : state[e] = "done" /\ (e < ix => conn[e] = None)

\* An address list is released once: it belongs to a connection that exists,
\* and never to one in the pool, where it would stay until the process ends.
AddressesReleased == aiList \subseteq open \ Pooled

\* What epoll watches the socket of an entry for.
Watched(e) ==
  /\ state[e] \in {"connecting", "writing"} => armed[e] = "out" /\ conn[e] # None
  /\ state[e] = "reading" => armed[e] = "in" /\ conn[e] # None

\* epoll watches the socket of every entry that is not being started, for what it
\* waits for: after a change of address or a second start too.
AlwaysWatched == \A e \in Entries : ~Starting(e) => Watched(e)

\* What an entry is told came in answer to what it wrote last, although the
\* connection may have served other requests, and some that failed; and one that was
\* told something does not start again.
OwnAnswer ==
  \A e \in Entries : got[e] # 0 =>
    /\ got[e] = wrote[e] /\ ~Starting(e)
    /\ state[e] = "done" \/ (state[e] = "reading" /\ partly[e])

Silent(c) == asked[c] = <<>> /\ came[c] = <<>>

\* A connection in the pool has nothing more to come, nor has one that may go there;
\* on one that is read there is what its entry wrote last, or the answer to it.
NothingOwedInPool ==
  /\ \A c \in Pooled : Silent(c)
  /\ \A e \in Entries : conn[e] # None =>
       /\ \/ Starting(e) \/ state[e] \in {"connecting", "writing"} \/ (state[e] = "reading" /\ partly[e])
          \/ state[e] = "done" /\ result[e] = "ok"
          => Silent(conn[e])
       /\ state[e] = "reading" /\ ~Starting(e) =>
            \/ Silent(conn[e])
            \/ asked[conn[e]] = <<wrote[e]>> /\ came[conn[e]] = <<>>
            \/ \E w \in BOOLEAN : asked[conn[e]] = <<>> /\ came[conn[e]] = <<[id |-> wrote[e], whole |-> w]>>

\* Perform returns: by the responses, or by its deadline (corRestClientMulti.c:669) -
\* unless a peer accepts, and is silent in a handshake for ever.
PerformReturns == (pc = "begin" ~> pc = "idle") \/ <>[](pc = "handshake")

\* corRestClientTls.c:102: "The socket is non-blocking: the handshake waits for it
\* through corRestWaitFd", for ten seconds at most each time: so Perform always returns.
HandshakeWaits == pc = "begin" ~> pc = "idle"

\* The pool and the batch, over a well-typed state: the counters say what is in
\* it, a connection has one holder, an address list is released with the connect
\* it was for, the counter says how many entries are done, what an entry is told
\* answers its request, and what goes back to the pool owes nothing.
MultiInv ==
  /\ TypeOK /\ PoolCounted /\ OneUser /\ InOrder
  /\ AddressesReleased /\ DoneCounted
  /\ AlwaysWatched /\ OwnAnswer /\ NothingOwedInPool
=============================================================================
