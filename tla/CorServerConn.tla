---------------------------- MODULE CorServerConn ----------------------------
(***************************************************************************)
(* The cor:// server (corRestCor.c, SERVER): one event loop, its           *)
(* multiplexed connections and the requests in flight on them.             *)
(*                                                                         *)
(* A connection is shared by the loop, the coroutines of the loop, the     *)
(* workers that finish requests, and - once it is moved there - a thread   *)
(* of its own.  It is counted: one reference for the loop until the        *)
(* connection dies, one while the loop handles an event of it, one per     *)
(* request in flight; who lets go last frees it, and the one spare piece   *)
(* of request memory that hangs on it.                                     *)
(*                                                                         *)
(* The loop's code between two touches of shared state is one step.  What  *)
(* is decoded and encoded is left out; bytes are whole frames.             *)
(***************************************************************************)
EXTENDS Integers, FiniteSets

CONSTANTS
  Conns,          \* the connections the listener accepted for this loop
  Requests,       \* the requests that may come in on them
  ThreadFails,    \* pthread_create may fail (connDedicate)
  ResumeAtEvent,  \* corCoLoopEvent, of corBase, may resume the coroutine at once, in the
                  \* batch; else it only marks it, and corCoLoopExpire resumes it
  None

ASSUME ServerAssumption ==
  /\ ThreadFails \in BOOLEAN /\ ResumeAtEvent \in BOOLEAN
  /\ None \notin Conns \cup Requests

VARIABLES
  conn,     \* conn[k]: the ServerConn, and the thread of a dedicated one
  req,      \* req[r]: the ServerReq - where request r is, and whose it is
  loop,     \* the event loop: the batch of epoll_wait, what it is at
  touched,  \* ghost: a connection was touched after it was freed
  stale     \* ghost: by the loop, for an event that epoll had reported before

vars == <<conn, req, loop, touched, stale>>

\* refs, dead, dedicated, pending, outWatch, spare as in ServerConn; out: the
\* responses in outQ; mems: ServerReqs allocated; freed: the ServerConn is;
\* thread: dedicatedThread
NewConn == [refs |-> 1, dead |-> FALSE, hello |-> FALSE, dedicated |-> FALSE, pending |-> 0,
            out |-> 0, watch |-> FALSE, spare |-> FALSE, mems |-> 0, freed |-> FALSE,
            thread |-> "none"]

\* by: who runs it - the loop's own code, a coroutine, a worker, the
\* connection's thread
NewReq == [pc |-> "new", conn |-> None, by |-> "loop", answered |-> FALSE]

\* batch: events not looked at yet; cur: the connection whose event is handled;
\* at: what is left of that; run: the request the loop's thread runs code for
IdleLoop == [batch |-> {}, cur |-> None, at |-> "out", run |-> None, die |-> FALSE]

Init ==
  /\ conn = [k \in Conns |-> NewConn]
  /\ req = [r \in Requests |-> NewReq]
  /\ loop = IdleLoop
  /\ touched = FALSE
  /\ stale = FALSE

-----------------------------------------------------------------------------
(* What a connection looks like after                                      *)

\* connUnref: the last one frees the connection, and the spare
Unref(m) ==
  IF m.refs = 1
    THEN [m EXCEPT !.refs = 0, !.freed = TRUE, !.spare = FALSE, !.mems = IF m.spare THEN @ - 1 ELSE @]
    ELSE [m EXCEPT !.refs = @ - 1]

\* connDie
Die(m) == IF m.dead THEN m ELSE Unref([m EXCEPT !.dead = TRUE])

\* outFlush: all of it goes out, or as far as the socket takes it, or it fails
Flushed(m) ==
  {[m EXCEPT !.out = 0, !.watch = FALSE]}
    \cup {[m EXCEPT !.out = n, !.watch = TRUE] : n \in 1 .. m.out}
    \cup (IF m.out > 0 THEN {Die(m)} ELSE {})

\* frameQueue: nothing on a dead connection, or when it cannot be encoded; a
\* flush that waits for EPOLLOUT sends this one too
Queued(m) ==
  {m} \cup (IF m.dead THEN {}
            ELSE IF m.watch THEN {[m EXCEPT !.out = @ + 1]}
            ELSE Flushed([m EXCEPT !.out = @ + 1]))

\* reqGet: the spare, or a new ServerReq
Got(m) == [m EXCEPT !.refs = @ + 1, !.spare = FALSE, !.mems = IF m.spare THEN @ ELSE @ + 1]

\* reqRelease, its first half: kept as the spare, unless there is one
Spared(m) == IF m.spare THEN [m EXCEPT !.mems = @ - 1] ELSE [m EXCEPT !.spare = TRUE]

Touch(k) == touched' = (touched \/ conn[k].freed) /\ UNCHANGED stale

-----------------------------------------------------------------------------
(* The loop: events, and the connection's input                            *)

LoopFree == loop.run = None /\ loop.cur = None

\* the connections epoll may report: armed until they die or are dedicated
Armed == {k \in Conns : ~conn[k].dead /\ ~conn[k].dedicated}

EpollWait ==
  /\ LoopFree /\ loop.batch = {}
  /\ \E B \in (SUBSET Armed) \ {{}} : loop' = [loop EXCEPT !.batch = B]
  /\ UNCHANGED <<conn, req, touched, stale>>

\* mutant: the connection is not held across the handling of its event
NextEventUnheld(k) ==
  /\ LoopFree /\ k \in loop.batch /\ ~conn[k].freed
  /\ loop' = [loop EXCEPT !.batch = @ \ {k}, !.cur = k, !.at = "out"]
  /\ UNCHANGED <<conn, req, touched, stale>>

\* the next event: the connection is held across its handling
NextEvent(k) ==
  /\ LoopFree /\ k \in loop.batch /\ ~conn[k].freed
  /\ loop' = [loop EXCEPT !.batch = @ \ {k}, !.cur = k, !.at = "out"]
  /\ conn' = [conn EXCEPT ![k].refs = @ + 1]
  /\ UNCHANGED <<req, touched, stale>>

\* an event for a connection that was freed since epoll_wait: its memory is read and
\* written; what comes of it is not followed, the properties except it
StaleEvent(k) ==
  /\ LoopFree /\ k \in loop.batch /\ conn[k].freed
  /\ loop' = [loop EXCEPT !.batch = @ \ {k}]
  /\ stale' = TRUE
  /\ UNCHANGED <<conn, req, touched>>

At(k, at) == loop.run = None /\ loop.cur = k /\ loop.at = at

\* EPOLLOUT, if that was reported
HandleOutput(k) ==
  /\ At(k, "out")
  /\ loop' = [loop EXCEPT !.at = "in"]
  /\ \/ UNCHANGED conn
     \/ /\ conn[k].watch /\ ~conn[k].dead
        /\ \E m \in Flushed(conn[k]) : conn' = [conn EXCEPT ![k] = m]
  /\ UNCHANGED <<req, touched, stale>>

Reads(k) == At(k, "in") /\ ~loop.die /\ ~conn[k].dead /\ ~conn[k].dedicated

\* the first frame: HELLO, answered - or refused
Hello(k) ==
  /\ Reads(k) /\ ~conn[k].hello
  /\ \/ conn' = [conn EXCEPT ![k].hello = TRUE]
     \/ conn' = [conn EXCEPT ![k] = Die([@ EXCEPT !.hello = TRUE])]
  /\ UNCHANGED <<req, loop, touched, stale>>

\* the peer closed, or the bytes are no frame
PeerGone(k) ==
  /\ Reads(k)
  /\ conn' = [conn EXCEPT ![k] = Die(@)]
  /\ UNCHANGED <<req, loop, touched, stale>>

\* requestStart returned false
StartFailed(k) ==
  /\ At(k, "in") /\ loop.die
  /\ conn' = [conn EXCEPT ![k] = Die(@)]
  /\ loop' = [loop EXCEPT !.die = FALSE]
  /\ UNCHANGED <<req, touched, stale>>

\* nothing buffered any more, or no longer the loop's to read
HandleEnd(k) ==
  /\ At(k, "in") /\ ~loop.die
  /\ conn' = [conn EXCEPT ![k] = Unref(@)]
  /\ loop' = [loop EXCEPT !.cur = None]
  /\ UNCHANGED <<req, touched, stale>>

-----------------------------------------------------------------------------
(* requestStart                                                            *)

\* a request comes in, and is decoded: its memory and its reference taken
Request(k, r) ==
  /\ Reads(k) /\ conn[k].hello /\ req[r].pc = "new"
  /\ conn' = [conn EXCEPT ![k] = [Got(conn[k]) EXCEPT !.pending = @ + 1]]
  /\ req' = [req EXCEPT ![r].pc = "start", ![r].conn = k]
  /\ loop' = [loop EXCEPT !.run = r]
  /\ UNCHANGED <<touched, stale>>

\* not a request after all: released, and the connection is closed
BadRequest(k, r) ==
  /\ Reads(k) /\ conn[k].hello /\ req[r].pc = "new"
  /\ conn' = [conn EXCEPT ![k] = Got(@)]
  /\ req' = [req EXCEPT ![r].pc = "release", ![r].conn = k]
  /\ loop' = [loop EXCEPT !.run = r, !.die = TRUE]
  /\ UNCHANGED <<touched, stale>>

\* it cannot block, or there is nowhere else: here, on the loop
StartInline(r) ==
  /\ loop.run = r /\ req[r].pc = "start"
  /\ req' = [req EXCEPT ![r].pc = "run"]
  /\ UNCHANGED <<conn, loop, touched, stale>>

\* mutant: requestStart takes a coroutine for started that could not be made
StartCoroutineLost(r) ==
  /\ loop.run = r /\ req[r].pc = "start"
  /\ req' = [req EXCEPT ![r].pc = "lost"]
  /\ loop' = [loop EXCEPT !.run = None]
  /\ UNCHANGED <<conn, touched, stale>>

StartCoroutine(r) ==
  /\ loop.run = r /\ req[r].pc = "start"
  /\ req' = [req EXCEPT ![r].pc = "run", ![r].by = "co"]
  /\ UNCHANGED <<conn, loop, touched, stale>>

\* mutant: moved to a thread whatever else is in flight on it
DedicateAnyway(r) ==
  LET k == req[r].conn
  IN /\ loop.run = r /\ req[r].pc = "start"
     /\ conn' = [conn EXCEPT ![k].pending = 0, ![k].dedicated = TRUE, ![k].thread = "serves"]
     /\ req' = [req EXCEPT ![r].pc = "thread", ![r].by = "thread"]
     /\ loop' = [loop EXCEPT !.run = None]
     /\ UNCHANGED <<touched, stale>>

\* connDedicate: no coroutine to be had, and nothing else in flight
Dedicate(r) ==
  LET k == req[r].conn
  IN /\ loop.run = r /\ req[r].pc = "start"
     /\ conn[k].pending = 1 /\ conn[k].out = 0
     /\ \/ /\ conn' = [conn EXCEPT ![k].pending = 0, ![k].dedicated = TRUE, ![k].thread = "serves"]
           /\ req' = [req EXCEPT ![r].pc = "thread", ![r].by = "thread"]
           /\ loop' = [loop EXCEPT !.run = None]
        \/ /\ ThreadFails
           /\ conn' = [conn EXCEPT ![k].pending = 0, ![k].dedicated = TRUE]
           /\ req' = [req EXCEPT ![r].pc = "lost"]
           /\ loop' = [loop EXCEPT !.run = None, !.die = TRUE]
     /\ UNCHANGED <<touched, stale>>

-----------------------------------------------------------------------------
(* A request on the loop                                                   *)

\* a coroutine waits - in corRestProcessRequest, or in its post-response phase
Yield(r) ==
  /\ loop.run = r /\ req[r].by = "co"
  /\ \/ req[r].pc = "run"    /\ req' = [req EXCEPT ![r].pc = "waits"]
     \/ req[r].pc = "finish" /\ req' = [req EXCEPT ![r].pc = "waitsFinish"]
  /\ loop' = [loop EXCEPT !.run = None]
  /\ UNCHANGED <<conn, touched, stale>>

\* what it waits for is there, or the time is up
Resume(r) ==
  /\ LoopFree /\ (loop.batch = {} \/ ResumeAtEvent)
  /\ \/ req[r].pc = "waits"       /\ req' = [req EXCEPT ![r].pc = "run"]
     \/ req[r].pc = "waitsFinish" /\ req' = [req EXCEPT ![r].pc = "finish"]
  /\ loop' = [loop EXCEPT !.run = r]
  /\ UNCHANGED <<conn, touched, stale>>

\* requestRespond, its first half: the response queued
Respond(r) ==
  LET k == req[r].conn
  IN /\ loop.run = r /\ req[r].pc = "run"
     /\ \E m \in Queued(conn[k]) : conn' = [conn EXCEPT ![k] = [m EXCEPT !.pending = m.pending - 1]]
     /\ req' = [req EXCEPT ![r].pc = "choose", ![r].answered = TRUE]
     /\ Touch(k)
     /\ UNCHANGED loop

\* the post-response phase here - the hook allows it, or this is a coroutine -
\* or in a coroutine made for it
FinishOnLoop(r) ==
  /\ loop.run = r /\ req[r].pc = "choose"
  /\ \/ req' = [req EXCEPT ![r].pc = "finish"]
     \/ req' = [req EXCEPT ![r].pc = "finish", ![r].by = "co"]
  /\ UNCHANGED <<conn, loop, touched, stale>>

\* or on a worker; the request's coroutine ends, if it was one
FinishOnWorker(r) ==
  /\ loop.run = r /\ req[r].pc = "choose"
  /\ req' = [req EXCEPT ![r].pc = "finish", ![r].by = "worker"]
  /\ loop' = [loop EXCEPT !.run = None]
  /\ UNCHANGED <<conn, touched, stale>>

\* requestFinish: the hooks done, the state freed, the memory the spare - if
\* there is none
Finish(r) ==
  LET k == req[r].conn
  IN /\ req[r].pc \in {"finish", "release"}
     /\ conn' = [conn EXCEPT ![k] = Spared(@)]
     /\ req' = [req EXCEPT ![r].pc = "unref"]
     /\ Touch(k)
     /\ UNCHANGED loop

\* mutant: finished, but the reference is not dropped
ReleaseHolding(r) ==
  LET k == req[r].conn
  IN /\ req[r].pc = "unref"
     /\ conn' = [conn EXCEPT ![k].thread = IF req[r].by = "thread" THEN "reads" ELSE @]
     /\ req' = [req EXCEPT ![r].pc = "gone"]
     /\ loop' = IF loop.run = r THEN [loop EXCEPT !.run = None] ELSE loop
     /\ Touch(k)

\* and the request's reference
Release(r) ==
  LET k == req[r].conn
  IN /\ req[r].pc = "unref"
     /\ conn' = [conn EXCEPT ![k] = IF req[r].by = "thread"
                                      THEN [Unref(@) EXCEPT !.thread = "reads"]
                                      ELSE Unref(@)]
     /\ req' = [req EXCEPT ![r].pc = "gone"]
     /\ loop' = IF loop.run = r THEN [loop EXCEPT !.run = None] ELSE loop
     /\ Touch(k)

-----------------------------------------------------------------------------
(* dedicatedThread                                                         *)

\* the request it is at: run, answered and finished right there
ThreadServe(r) ==
  /\ req[r].pc = "thread"
  /\ req' = [req EXCEPT ![r].pc = "finish", ![r].answered = TRUE]
  /\ Touch(req[r].conn)
  /\ UNCHANGED <<conn, loop>>

\* the next one: blocking
ThreadRequest(k, r) ==
  /\ conn[k].thread = "reads" /\ req[r].pc = "new"
  /\ conn' = [conn EXCEPT ![k] = [Got(@) EXCEPT !.thread = "serves"]]
  /\ req' = [req EXCEPT ![r].pc = "thread", ![r].conn = k, ![r].by = "thread"]
  /\ Touch(k)
  /\ UNCHANGED loop

\* the peer closed, or sent no request (its memory is gone again): the socket closed, the loop's reference -
\* the thread's now - dropped
ThreadEnd(k) ==
  /\ conn[k].thread = "reads"
  /\ conn' = [conn EXCEPT ![k] = [Unref(@) EXCEPT !.thread = "ended"]]
  /\ Touch(k)
  /\ UNCHANGED <<req, loop>>

-----------------------------------------------------------------------------

\* everything the loop's thread does when it has something to do
LoopStep ==
  \/ \E k \in Conns : NextEvent(k) \/ StaleEvent(k) \/ HandleOutput(k) \/ Hello(k) \/ StartFailed(k) \/ HandleEnd(k)
  \/ \E r \in Requests :
       \/ StartInline(r) \/ StartCoroutine(r) \/ Dedicate(r) \/ Yield(r) \/ Resume(r) \/ Respond(r)
       \/ FinishOnLoop(r) \/ FinishOnWorker(r)
       \/ loop.run = r /\ (Finish(r) \/ Release(r))

\* what a worker, or the thread of r's connection, does for it
OffLoop(r) == loop.run # r /\ (ThreadServe(r) \/ Finish(r) \/ Release(r))

\* what depends on the peer
Peer ==
  \E k \in Conns :
    \/ PeerGone(k) \/ ThreadEnd(k)
    \/ \E r \in Requests : Request(k, r) \/ BadRequest(k, r) \/ ThreadRequest(k, r)

Next ==
  \/ EpollWait \/ LoopStep \/ Peer
  \/ \E r \in Requests : OffLoop(r)

(***************************************************************************)
(* The loop's thread runs, and comes to each coroutine whose wait is over  *)
(* (strong: it can only between two events); the waits, the hooks and the  *)
(* workers end.  Nothing is asked of the peer, nor of epoll_wait.          *)
(***************************************************************************)
Fairness ==
  /\ WF_vars(LoopStep)
  /\ \A r \in Requests : SF_vars(Resume(r)) /\ SF_vars(Respond(r) \/ Finish(r)) /\ WF_vars(OffLoop(r))

Spec == Init /\ [][Next]_vars /\ Fairness

-----------------------------------------------------------------------------
(* Properties                                                              *)

ConnTypes == [refs : Nat, dead : BOOLEAN, hello : BOOLEAN, dedicated : BOOLEAN, pending : Nat,
              out : Nat, watch : BOOLEAN, spare : BOOLEAN, mems : Nat, freed : BOOLEAN,
              thread : {"none", "serves", "reads", "ended"}]

ReqTypes == [pc : {"new", "start", "run", "waits", "thread", "choose", "finish", "waitsFinish",
                   "release", "unref", "gone", "lost"},
             conn : Conns \cup {None}, by : {"loop", "co", "worker", "thread"}, answered : BOOLEAN]

LoopTypes == [batch : SUBSET Conns, cur : Conns \cup {None}, at : {"out", "in"},
              run : Requests \cup {None}, die : BOOLEAN]

TypeOK ==
  /\ conn \in [Conns -> ConnTypes]
  /\ req \in [Requests -> ReqTypes]
  /\ loop \in LoopTypes
  /\ touched \in BOOLEAN

\* the requests that hold a reference on k
Holders(k) == {r \in Requests : req[r].conn = k /\ req[r].pc # "gone"}

\* ServerConn, Lifetime: the count is exact - the loop's reference (or the
\* thread's, which takes it over), one while the loop handles an event of it,
\* one per request in flight - and the connection is freed with the last.
ReferencesCounted ==
  \A k \in Conns :
    LET own == IF conn[k].dead \/ conn[k].thread = "ended" THEN 0 ELSE 1
        held == IF loop.cur = k THEN 1 ELSE 0
    IN /\ conn[k].refs = own + held + Cardinality(Holders(k))
       /\ conn[k].freed = (conn[k].refs = 0)

\* No party - loop, coroutine, worker or thread - touches a connection that
\* another one has freed meanwhile.
NoFreedConn == ~touched

\* their memory, until it is released, and those whose response is not queued yet
Memories(k)   == {r \in Holders(k) : req[r].pc # "unref"}
Unanswered(k) == {r \in Holders(k) : ~req[r].answered /\ req[r].pc \notin {"release", "unref"}}

\* reqRelease, "after the spare: the last reference frees it too": however the
\* releases of several requests interleave, a freed connection leaves no request
\* memory behind, and an idle one at most the spare.
NoMemoryLeft ==
  \A k \in Conns :
    /\ conn[k].freed => conn[k].mems = 0
    /\ conn[k].mems = Cardinality(Memories(k)) + (IF conn[k].spare THEN 1 ELSE 0)

\* pending counts the requests whose response is not queued yet, and once the
\* connection is dedicated the loop has nothing more to write to it: the thread
\* is then the only writer.
HandedOver ==
  \A k \in Conns :
    IF conn[k].dedicated
      THEN conn[k].out = 0 /\ \A r \in Unanswered(k) : req[r].pc \in {"thread", "lost"}
      ELSE conn[k].pending = Cardinality(Unanswered(k))

\* ... but for a stale event.
LoopLetsGo == stale \/ HandedOver

\* Who runs a request, and what that party may rely on: the loop's thread has at
\* most one in its hands, of the connection whose event it handles, if it handles
\* one; a dedicated connection's thread is at one request of it at a time.
RequestsPlaced ==
  /\ \A r \in Requests :
       /\ req[r].pc = "new" <=> req[r].conn = None
       /\ req[r].pc \in {"start", "run", "choose", "release"} => loop.run = r
       /\ req[r].pc = "start" => /\ loop.cur = req[r].conn /\ ~loop.die
                                 /\ ~conn[req[r].conn].dead /\ ~conn[req[r].conn].dedicated
       /\ req[r].pc \in {"new", "start", "run", "waits", "thread", "release", "lost"} => ~req[r].answered
       /\ req[r].pc \in {"choose", "finish", "waitsFinish"} => req[r].answered
       /\ req[r].pc = "thread" => req[r].by = "thread"
       /\ req[r].by = "thread" /\ req[r].pc # "gone" =>
            req[r].pc \in {"thread", "finish", "unref"} /\ conn[req[r].conn].thread = "serves"
  /\ \A q, r \in Requests :
       req[q].by = "thread" /\ req[r].by = "thread" /\ req[q].pc # "gone" /\ req[r].pc # "gone"
         /\ req[q].conn = req[r].conn => q = r

\* A connection in the batch is still the loop's when its turn comes, and is not the one
\* that is being handled; it is dead only if a coroutine may run in between.  The loop
\* waits for EPOLLOUT exactly while a response is queued.
ConnectionsPlaced ==
  /\ loop.run # None => /\ loop.cur # None => req[loop.run].conn = loop.cur
                        /\ loop.cur = None => loop.batch = {} \/ ResumeAtEvent
  /\ loop.die => loop.cur # None /\ conn[loop.cur].thread = "none"
  /\ \A k \in loop.batch : ~conn[k].dedicated /\ k # loop.cur /\ (conn[k].dead => ResumeAtEvent)
  /\ \A k \in Conns :
       /\ conn[k].thread # "none" => conn[k].dedicated /\ ~conn[k].dead
       /\ ~conn[k].dead => (conn[k].watch <=> conn[k].out > 0)

\* A request that was started is answered, or its connection is closed - but for a stale event.
RequestAnswered ==
  \A r \in Requests :
    (req[r].pc \in {"start", "thread"}) ~>
      (stale \/ req[r].answered \/ \E k \in Conns : req[r].conn = k /\ conn[k].dead)

\* "whoever lets go last frees it": a connection that died, or whose thread
\* ended, is freed in the end.  One whose thread could not be created is the
\* exception (connDedicate): nobody drops the loop's reference on it; a stale event another.
ConnFreed ==
  \A k \in Conns : (conn[k].dead \/ conn[k].thread = "ended") ~>
    (stale \/ conn[k].freed \/ \E r \in Holders(k) : req[r].pc = "lost")

\* ServerConn, Lifetime, as a whole, over a well-typed state: the count is the
\* number of holders, freed means none is left, nobody touches what is freed, and
\* the memory of its requests goes with it; for each party keeps to its own requests.
\* The one exception is the loop at a stale event, which needs a corBase that resumes
\* coroutines inside a batch of events.
LifetimeInv ==
  /\ TypeOK
  /\ stale \in {FALSE, ResumeAtEvent}
  /\ stale \/ (ReferencesCounted /\ NoFreedConn /\ NoMemoryLeft /\ RequestsPlaced /\ ConnectionsPlaced)
=============================================================================
