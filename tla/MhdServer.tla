----------------------------- MODULE MhdServer -----------------------------
(***************************************************************************)
(* The HTTP server on libmicrohttpd (corRestBackendMhd.c): its connection  *)
(* handler, called for the head of a request, for each piece of its body   *)
(* and for the answer; the worker pool it hands requests to; a response    *)
(* that is a stream; and the stop of it all (corRestStop.c).               *)
(*                                                                         *)
(* The pool is WorkerPool, here with requests over HTTP only; its Read is  *)
(* the handler's final call.  The stream is Stream.  Their actions are     *)
(* taken here together with what else the handler does in them.            *)
(* libmicrohttpd is external: it calls the handler on the thread of the    *)
(* connection, unless that is suspended, and may give the connection up    *)
(* between two calls; it panics when a daemon that has a suspended         *)
(* connection is stopped.                                                  *)
(***************************************************************************)
EXTENDS WorkerPool

CONSTANTS
  Streamed,    \* the request whose service routine may ask for a stream
  BodyMax,     \* corRestMaxRequestSize, in units; 0: none
  MaxPieces,   \* bound: pieces of a request's body, of one or two units
  MaxWritten, MaxLen, PendingMax   \* of Stream

ASSUME ServerAssumption ==
  /\ Streamed \in Requests
  /\ BodyMax \in Nat /\ MaxPieces \in Nat
  /\ MaxWritten \in Nat /\ MaxLen \in Nat \ {0} /\ PendingMax \in Nat

\* what makes a pool libmicrohttpd's: its requests are
HttpOnly == \A r \in Requests : Transport[r] = "mhd"

VARIABLES
  conn,     \* conn[r]: "none", "reading" (it has its state), "handled" (WorkerPool has it),
            \* "upgraded", "closed" without a response of ours
  body,     \* the body as it was sent, and as it is in in.payload
  asked,    \* out.streamOpenF is set
  stopPc,   \* corRestStop: "up", "waited" (corRestBackendStop's wait is over), "closing"
            \* (MHD_stop_daemon), "down"
  patience, \* that wait: "none" (not over), "unopened" (there was no stream), "through", "over" (2 s)
  \* the stream's
  opened, buf, off, asleep, ended, cut, gone, refs, freed, streams, mhd, app, written,
  sent, complete, misused

S == INSTANCE Stream WITH suspended <- asleep

handlerVars == <<conn, body, asked, stopPc, patience>>

streamVars == <<opened, buf, off, asleep, ended, cut, gone, refs, freed, streams, mhd, app,
                written, sent, complete, misused>>

serverVars == <<handlerVars, streamVars>>

allVars == <<vars, serverVars>>

\* kept: the pieces in in.payload, by their numbers; size: payloadSize
\* bad: answered by 411 or 413.  sent: how many there were while it was good
NewBody == [sent |-> 0, kept |-> <<>>, size |-> 0, bad |-> FALSE]

ServerInit ==
  /\ Init
  /\ S!Init
  /\ conn = [r \in Requests |-> "none"]
  /\ body = [r \in Requests |-> NewBody]
  /\ asked = FALSE
  /\ stopPc = "up" /\ patience = "none"

\* the connection's thread is between two calls
Free(r) == busy[LoopOf[r]] = NoReq

Open == listening /\ stopPc \in {"up", "waited"}

-----------------------------------------------------------------------------
(* mhdConnectionHandler, until the body is there                           *)

\* the first call: no memory for a state; or one, with what the headers say
\* against the body (corRestBodyPolicyCheck)
FirstCall(r) ==
  /\ Open /\ conn[r] = "none" /\ Free(r)
  /\ \/ conn' = [conn EXCEPT ![r] = "closed"] /\ UNCHANGED body
     \/ /\ conn' = [conn EXCEPT ![r] = "reading"]
        /\ \E bad \in BOOLEAN : body' = [body EXCEPT ![r].bad = bad]
  /\ UNCHANGED <<vars, asked, stopPc, patience, streamVars>>

\* mutant: what follows a piece that was too long is taken again
TakenAgain(b, n) ==
  IF BodyMax > 0 /\ b.size + n > BodyMax THEN [b EXCEPT !.sent = @ + 1, !.bad = TRUE]
  ELSE [b EXCEPT !.sent = @ + 1, !.kept = Append(@, b.sent + 1), !.size = @ + n]

\* a body with n units more: dropped, too long, or appended
Taken(b, n) ==
  IF b.bad THEN b
  ELSE IF BodyMax > 0 /\ b.size + n > BodyMax THEN [b EXCEPT !.sent = @ + 1, !.bad = TRUE]
  ELSE [b EXCEPT !.sent = @ + 1, !.kept = Append(@, b.sent + 1), !.size = @ + n]

BodyPiece(r) ==
  /\ Open /\ conn[r] = "reading" /\ Free(r)
  /\ body[r].sent < MaxPieces
  /\ \E n \in 1 .. 2 : body' = [body EXCEPT ![r] = Taken(body[r], n)]
  /\ UNCHANGED <<vars, conn, asked, stopPc, patience, streamVars>>

\* mhdRequestCompleted for a request that was not answered: the post-response hook
\* runs and the state goes, as for any request
Closes(r, from) ==
  /\ conn[r] = from /\ Free(r)
  /\ conn' = [conn EXCEPT ![r] = "closed"]
  /\ body' = [body EXCEPT ![r] = NewBody]
  /\ UNCHANGED <<vars, asked, stopPc, patience, streamVars>>

\* the client left, took too long, realloc failed (MHD_NO), or the daemon is stopped
Abort(r) == Closes(r, "reading")

\* the application is done with the socket
UpgradeEnds(r) == Closes(r, "upgraded")

\* the final call, an upgrade: the socket is the application's once the 101 is out
Upgrade(r) ==
  /\ Open /\ conn[r] = "reading" /\ Free(r)
  /\ conn' = [conn EXCEPT ![r] = "upgraded"]
  /\ UNCHANGED <<vars, body, asked, stopPc, patience, streamVars>>

\* the final call of any other: the pool is asked (WorkerPool)
FinalCall(r) ==
  /\ Open /\ conn[r] = "reading"
  /\ Read(r)
  /\ conn' = [conn EXCEPT ![r] = "handled"]
  /\ UNCHANGED <<body, asked, stopPc, patience, streamVars>>

-----------------------------------------------------------------------------
(* The service routine, and the answer                                     *)

\* corRestStreamResponse: the routine runs unless the request is answered before
StreamResponse(r) ==
  IF r = Streamed /\ ~body[r].bad THEN asked' \in BOOLEAN ELSE UNCHANGED asked

\* the response queued: a stream, or a copy of the body
Respond(r) == IF r = Streamed /\ asked' THEN S!Queue ELSE UNCHANGED streamVars

\* the routine on a worker
Serve(w) ==
  /\ ServeProcess(w)
  /\ StreamResponse(cur[w])
  /\ UNCHANGED <<conn, body, stopPc, patience, streamVars>>

\* ... in the handler itself, which goes on to answer
ServeInline(r) ==
  /\ ProcessInline(r)
  /\ StreamResponse(r)
  /\ Respond(r)
  /\ UNCHANGED <<conn, body, stopPc, patience>>

\* a resumed connection: the handler answers, unless the connection is given up first
Answer(r) ==
  /\ Resumed(r)
  /\ UNCHANGED handlerVars
  /\ (Open /\ Respond(r)) \/ UNCHANGED streamVars

\* mhdRequestCompleted, after the response or for a connection given up; a stream's
\* response may be destroyed before it or after
Completed(r) ==
  /\ ResponseDone(r)
  /\ r = Streamed => mhd # "suspended"
  /\ UNCHANGED serverVars

\* what the handler leaves to the pool
Elsewhere(r) ==
  /\ DispatchInline(r) \/ DispatchHandOff(r) \/ Suspend(r) \/ EnqueueRequest(r) \/ FinishHere(r)
  /\ UNCHANGED serverVars

PoolWorker(w) ==
  \/ Serve(w)
  \/ /\ Lock(w) \/ TestWait(w) \/ TestExit(w) \/ TestPop(w) \/ CondWait(w) \/ Resume(w)
     /\ UNCHANGED serverVars

\* libmicrohttpd's thread and the stream, which is read until it is completed or stopped
Reads ==
  /\ Free(Streamed)
  /\ (Open /\ stage[Streamed] = "sending" /\ S!Reader) \/ S!DestroyRelease \/ S!GiveUp
  /\ UNCHANGED <<vars, handlerVars>>

Writes == (S!Writer \/ S!EndRelease) /\ UNCHANGED <<vars, handlerVars>>

-----------------------------------------------------------------------------
(* corRestStop, after corRestWorkerPoolStop                                *)

\* mutant: the daemon is stopped at once
WaitEndsAtOnce ==
  /\ mainPc = "stopped" /\ stopPc = "up" /\ listening
  /\ stopPc' = "waited"
  /\ patience' = IF opened = "no" THEN "unopened" ELSE "through"
  /\ UNCHANGED <<vars, conn, body, asked, streamVars>>

\* every stream response destroyed, or 2 s over
WaitEnds ==
  /\ mainPc = "stopped" /\ stopPc = "up" /\ listening
  /\ stopPc' = "waited"
  /\ patience' = IF streams > 0 THEN "over" ELSE IF opened = "no" THEN "unopened" ELSE "through"
  /\ UNCHANGED <<vars, conn, body, asked, streamVars>>

\* MHD_stop_daemon: the threads are through with their handlers, and take no more
StopDaemon ==
  /\ stopPc = "waited"
  /\ \A r \in Requests : Free(r)
  /\ stopPc' = "closing"
  /\ UNCHANGED <<vars, conn, body, asked, patience, streamVars>>

Over(r) == conn[r] \in {"none", "closed"} \/ stage[r] = "freed"

\* every connection closed - there is none suspended; the service tables are freed
Stopped ==
  /\ stopPc = "closing"
  /\ \A r \in Requests : Over(r)
  /\ mhd \in {"none", "closed"}
  /\ stopPc' = "down"
  /\ UNCHANGED <<vars, conn, body, asked, patience, streamVars>>

MainThread == (Main /\ UNCHANGED serverVars) \/ WaitEnds \/ StopDaemon \/ Stopped

-----------------------------------------------------------------------------

IoThread(r) ==
  \/ Abort(r) \/ ServeInline(r) \/ Answer(r) \/ Completed(r) \/ Elsewhere(r)
  \/ r = Streamed /\ Reads

ServerNext ==
  \/ MainThread
  \/ Stop /\ UNCHANGED serverVars
  \/ \E w \in Workers : PoolWorker(w) \/ (SpuriousWakeup(w) /\ UNCHANGED serverVars)
  \/ \E r \in Requests : FirstCall(r) \/ BodyPiece(r) \/ FinalCall(r) \/ Upgrade(r) \/ UpgradeEnds(r)
  \/ \E r \in Requests : IoThread(r)
  \/ Writes

\* As in WorkerPool; and libmicrohttpd serves what is active and gives up, after 30 s,
\* what does not go on.  A thread inside corRestStreamEnd gets through; whether the
\* application ever ends its stream, and a socket it took over, is its own affair
ServerFairness ==
  /\ SF_allVars(MainThread)
  /\ \A w \in Workers : SF_allVars(PoolWorker(w))
  /\ \A r \in Requests : SF_allVars(IoThread(r))
  /\ WF_allVars(S!EndRelease /\ UNCHANGED <<vars, handlerVars>>)

ServerSpec == ServerInit /\ [][ServerNext]_allVars /\ ServerFairness

-----------------------------------------------------------------------------
(* Properties                                                              *)

ServerTypeOK ==
  /\ conn \in [Requests -> {"none", "reading", "handled", "upgraded", "closed"}]
  /\ body \in [Requests -> [sent : 0 .. MaxPieces, kept : Seq(1 .. MaxPieces), size : Nat, bad : BOOLEAN]]
  /\ asked \in BOOLEAN
  /\ stopPc \in {"up", "waited", "closing", "down"}
  /\ patience \in {"none", "unopened", "through", "over"}

\* The stream's own invariants, with the connections and the stop around it: no
\* wake-up lost between the reader and the writers, a bounded buffer, the client gets
\* what was written in order and without a gap, and the last of two holders frees.
StreamInv == S!StreamInv

\* The body a routine is given is the one that was sent, whole and within the limit;
\* of any other, nothing but a beginning was kept, and it is answered by its error.
\* A connection is in WorkerPool's hands exactly when its final call was made, and
\* there is nothing of a body before its first.
BodyWhole ==
  /\ ServerTypeOK
  /\ \A r \in Requests :
       LET b == body[r]
       IN /\ b.kept = [i \in DOMAIN b.kept |-> i]
          /\ BodyMax > 0 => b.size <= BodyMax
          /\ ~b.bad => Len(b.kept) = b.sent
          /\ stage[r] # "new" <=> conn[r] = "handled"
          /\ conn[r] = "none" => b = NewBody

\* corRestStop stops libmicrohttpd when no connection is suspended - neither by the
\* handler, but for a request queued too late, nor by a stream that the application
\* has ended.  A stream that was open when it came to wait is through then, or the
\* 2 s are over; and it frees the service tables when no HTTP request uses them.
StopSafe ==
  /\ stopPc \in {"closing", "down"} =>
       /\ \A r \in Requests : suspended[r] => r \in late
       /\ mhd = "suspended" => app = "writes"
  /\ patience = "through" => streams = 0
  /\ stopPc = "down" => \A r \in Requests : stage[r] \in {"new", "freed"}

\* A connection with a request is answered, closed or upgraded - unless its request
\* was queued too late; and the daemon stops, unless a connection is kept from it.
ConnectionsEnd ==
  /\ \A r \in Requests : conn[r] = "reading" ~>
       conn[r] \in {"closed", "upgraded"} \/ responded[r] > 0 \/ mhd # "none" \/ r \in late
  /\ stopPc = "closing" ~>
       stopPc = "down" \/ mhd = "suspended" \/ late # {} \/ \E r \in Requests : conn[r] = "upgraded"

\* A stream the application has ended comes to its end: the response is destroyed,
\* the stream freed, and its request finished.
EndedStreamIsOver == ended ~> streams = 0 /\ freed /\ stage[Streamed] = "freed"
=============================================================================
