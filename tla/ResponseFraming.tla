--------------------------- MODULE ResponseFraming ---------------------------
(***************************************************************************)
(* How the HTTP client of corRest finds the end of a response              *)
(* (corRestClientParse.c), with the connection it comes over, the read     *)
(* loops of corRestClient.c and corRestClientMulti.c around it, and the    *)
(* pool between two requests: one caller, one peer, requests in turn.      *)
(*                                                                         *)
(* A line is two tokens, its text and its end; a body is BodyLen bytes.    *)
(***************************************************************************)
EXTENDS Naturals, Sequences, FiniteSets, SequencesExt, FiniteSetsExt

CONSTANTS
  NRequests,   \* how many requests the caller makes, one after the other
  Shapes,      \* the framings the peer may choose, of AllShapes
  Engines,     \* whose read loops the caller uses, of AllEngines
  Crashes,     \* the peer may close the connection at any time
  NoConn       \* a connection that does not exist: conn == NULL

BodyLen == 2

AllShapes == {"length", "lengthClose", "chunked", "nobody", "untilClose", "malformed"}

\* SendOnce's (corRestClient.c), and corRestClientMultiPerform's: both take
\* connections from one pool, and put them there
AllEngines == {"once", "multi"}

ASSUME FramingAssumption ==
  /\ NRequests \in Nat \ {0}
  /\ Shapes \subseteq AllShapes /\ Engines \subseteq AllEngines
  /\ Crashes \in BOOLEAN
  /\ NoConn \notin {"used", "pooled"}

Requests == 1 .. NRequests

\* what the peer sends: the external side of the protocol, RFC 9112
Texts(form) ==
  CASE form = "length"     -> <<"200", "nl", "other", "nl", "length", "nl", "nl", "b", "b">>
    [] form = "lengthClose" -> <<"200", "nl", "length", "nl", "close", "nl", "nl", "b", "b">>
    [] form = "chunked"     -> <<"200", "nl", "chunked", "nl", "nl", "size", "nl", "b", "b", "nl", "zero", "nl", "nl">>
    [] form = "nobody"      -> <<"204", "nl", "nl">>
    [] form = "untilClose"  -> <<"200", "nl", "close", "nl", "nl", "b", "b">>
    [] form = "malformed"   -> <<"200", "nl", "chunked", "nl", "nl", "b", "b", "nl">>

\* the tokens of the response to request r, numbered
Response(r, form) == [k \in DOMAIN Texts(form) |-> [of |-> r, at |-> k, t |-> Texts(form)[k]]]

\* where the empty line is
HeadLen(form) == Min({j \in 2 .. Len(Texts(form)) : Texts(form)[j] = "nl" /\ Texts(form)[j - 1] = "nl"})

\* what there is of a body, without what frames it
Bytes(s) ==
  LET f[i \in 0 .. Len(s)] ==
        IF i = 0              THEN <<>>
        ELSE IF s[i].t = "b"  THEN Append(f[i - 1], s[i])
        ELSE f[i - 1]
  IN f[Len(s)]

BodyOf(r, form) == Bytes(Response(r, form))

-----------------------------------------------------------------------------
(* corRestClientParse.c                                                    *)

\* the ends of the empty lines after the first line
BlankLines(s) == {j \in 2 .. Len(s) : s[j].t = "nl" /\ s[j - 1].t = "nl"}

\* both header loops run WHILE (p < end) and return 1 inside a line: they stop
\* at the empty line - or at the end of what was read, at the end of any line
HeadEnd(s) ==
  CASE BlankLines(s) # {}                             -> Min(BlankLines(s))
    [] BlankLines(s) = {} /\ s # <<>> /\ Last(s).t = "nl" -> Len(s)
    [] OTHER                                          -> 0

HasHeader(s, name) == \E j \in 1 .. HeadEnd(s) : s[j].t = name

\* chunkedComplete and dechunk, from each position of what was read.  A line is
\* looked at once its end is there; one with no digits is a size of 0
Chunks(s) ==
  LET f[i \in Nat] ==
        IF \A j \in i .. Len(s) : s[j].t # "nl" THEN "more"
        ELSE IF s[i].t \in {"nl", "zero"}       THEN "complete"
        ELSE IF s[i].t # "size"                 THEN "bad"
        ELSE IF Len(s) < i + 2 + BodyLen        THEN "more" ELSE f[i + 3 + BodyLen]
  IN f[HeadEnd(s) + 1]

\* corRestClientResponseComplete: 0, 1 or -1
Complete(s) ==
  IF HeadEnd(s) = 0               THEN "more"
  ELSE IF HasHeader(s, "chunked") THEN Chunks(s)
  ELSE IF HasHeader(s, "length")
  THEN IF Len(s) - HeadEnd(s) >= BodyLen THEN "complete" ELSE "more"
  ELSE IF s[1].t = "204" \/ ~HasHeader(s, "close") THEN "complete" ELSE "more"

\* corRestClientParseResponse.  It writes into what was read: a ':' is '\0'
\* afterwards, so that a second parse (spoilt) sees no header
Sees(s, name, spoilt) == ~spoilt /\ HasHeader(s, name)

Rest(s) == SubSeq(s, HeadEnd(s) + 1, Len(s))

Parse(s, spoilt) ==
  IF \A j \in DOMAIN s : s[j].t # "nl"   THEN "more"
  ELSE IF s[1].t \notin {"200", "204"}   THEN "bad"
  ELSE IF HeadEnd(s) = 0                 THEN "more"
  ELSE IF Sees(s, "chunked", spoilt)
  THEN IF Chunks(s) = "complete" THEN "ok" ELSE Chunks(s)
  ELSE IF Sees(s, "length", spoilt) /\ Len(Rest(s)) < BodyLen THEN "more"
  ELSE "ok"

ParsedBody(s, spoilt) ==
  IF Sees(s, "chunked", spoilt)     THEN Bytes(Rest(s))
  ELSE IF Sees(s, "length", spoilt) THEN SubSeq(Rest(s), 1, BodyLen)
  ELSE IF s[1].t = "200" /\ Sees(s, "close", spoilt) THEN Rest(s) ELSE <<>>

-----------------------------------------------------------------------------
VARIABLES
  pc,        \* the caller: "idle", "reading" or "done"
  req,       \* the request it is on, or was last
  shape,     \* shape[r]: how the peer frames its answer to r
  engine,    \* engine[r]: the engine that request r goes through
  outcome,   \* outcome[r]: "none", "ok" or "error", as the caller is told
  body,      \* body[r]: the body it is given
  conn,      \* the connection: "used", "pooled", or NoConn
  fromPool, retried,
  buf,       \* conn->buf
  spoilt,    \* a parse has been over buf
  out, wire, \* what the peer has still to send, and what is on its way
  closed     \* the peer closed the connection

\* history: the requests that were answered before the empty line that ends the
\* head of their response had been read.  No action looks at it
VARIABLE tooSoon

callVars == <<pc, req, shape, engine, outcome, body, tooSoon>>
connVars == <<conn, fromPool, retried, buf, spoilt, out, wire, closed>>
vars     == <<pc, req, shape, engine, outcome, body, tooSoon, conn, fromPool, retried, buf, spoilt, out, wire, closed>>

Tokens == UNION {ToSet(Response(r, form)) : r \in Requests, form \in Shapes}

TypeOK ==
  /\ pc \in {"idle", "reading"}
  /\ req \in 0 .. NRequests
  /\ shape \in [Requests -> Shapes] /\ engine \in [Requests -> Engines]
  /\ outcome \in [Requests -> {"none", "ok", "error"}]
  /\ body \in [Requests -> Seq(Tokens)]
  /\ conn \in {"used", "pooled", NoConn}
  /\ {fromPool, retried, spoilt, closed} \subseteq BOOLEAN
  /\ {buf, out, wire} \subseteq Seq(Tokens)
  /\ tooSoon \subseteq Requests
  /\ pc = "reading" => conn = "used"

Init ==
  /\ pc = "idle" /\ req = 0
  /\ shape \in [Requests -> Shapes] /\ engine \in [Requests -> Engines]
  /\ outcome = [r \in Requests |-> "none"]
  /\ body = [r \in Requests |-> <<>>]
  /\ tooSoon = {}
  /\ conn = NoConn /\ fromPool = FALSE /\ retried = FALSE
  /\ buf = <<>> /\ spoilt = FALSE
  /\ out = <<>> /\ wire = <<>> /\ closed = FALSE

-----------------------------------------------------------------------------
(* The peer (external)                                                     *)

\* in pieces of any size, one that ends within the head included
PeerSends ==
  /\ ~closed /\ conn # NoConn
  /\ \E n \in 1 .. Len(out) :
       /\ wire' = wire \o SubSeq(out, 1, n)
       /\ out' = SubSeq(out, n + 1, Len(out))
  /\ UNCHANGED <<callVars, conn, fromPool, retried, buf, spoilt, closed>>

\* at the end of a response with "Connection: close" - or any time
PeerCloses ==
  /\ ~closed /\ conn # NoConn
  /\ Crashes \/ (out = <<>> /\ req > 0 /\ shape[req] \in {"lengthClose", "untilClose"})
  /\ closed' = TRUE /\ out' = <<>>
  /\ UNCHANGED <<callVars, conn, fromPool, retried, buf, spoilt, wire>>

-----------------------------------------------------------------------------
(* The caller                                                              *)

\* a new connection, and request r over it
Fresh(r) ==
  /\ conn' = "used"
  /\ out' = Response(r, shape[r]) /\ wire' = <<>> /\ closed' = FALSE
  /\ buf' = <<>> /\ spoilt' = FALSE

\* connIsAlive: the pooled connection is used if nothing came over it and it
\* was not closed; else a new one is made
Request ==
  /\ pc = "idle" /\ req < NRequests
  /\ pc' = "reading" /\ req' = req + 1 /\ retried' = FALSE
  /\ \/ /\ conn = "pooled" /\ wire = <<>> /\ ~closed
        /\ fromPool' = TRUE /\ conn' = "used"
        /\ out' = out \o Response(req + 1, shape[req + 1])
        /\ buf' = <<>> /\ spoilt' = FALSE
        /\ UNCHANGED <<wire, closed>>
     \/ /\ ~(conn = "pooled" /\ wire = <<>> /\ ~closed)
        /\ fromPool' = FALSE /\ Fresh(req + 1)
  /\ UNCHANGED <<shape, engine, outcome, body, tooSoon>>

\* the caller is told, and the connection goes: pooled after a response that
\* allows it, closed in any other case
Answered(s, wasSpoilt) ==
  /\ pc' = "idle"
  /\ outcome' = [outcome EXCEPT ![req] = "ok"]
  /\ body' = [body EXCEPT ![req] = ParsedBody(s, wasSpoilt)]
  /\ conn' = IF Sees(s, "close", wasSpoilt) THEN NoConn ELSE "pooled"
  /\ tooSoon' = IF BlankLines(s) = {} THEN tooSoon \cup {req} ELSE tooSoon
  /\ UNCHANGED <<req, shape, engine, fromPool, retried>>

Fails ==
  /\ pc' = "idle" /\ conn' = NoConn
  /\ outcome' = [outcome EXCEPT ![req] = "error"]
  /\ UNCHANGED <<req, shape, engine, body, tooSoon, fromPool, retried>>

\* everything that has arrived is read, and looked at
Read ==
  LET s == buf \o wire
  IN /\ pc = "reading" /\ wire # <<>>
     /\ buf' = s /\ wire' = <<>>
     /\ \/ /\ Complete(s) = "more"
           /\ UNCHANGED <<callVars, conn, fromPool, retried, spoilt>>
        \/ /\ Complete(s) = "complete"
           /\ spoilt' = TRUE
           /\ \/ Parse(s, spoilt) = "ok" /\ Answered(s, spoilt)
              \/ Parse(s, spoilt) # "ok" /\ Fails
        \/ /\ Complete(s) = "bad"
           /\ Fails /\ UNCHANGED spoilt
     /\ UNCHANGED <<out, closed>>

AtEof == pc = "reading" /\ wire = <<>> /\ closed

\* once more, on a new connection, if the one that failed was the pool's:
\* SendOnce's caller whatever was read, the multi engine if nothing was
Retry ==
  /\ AtEof /\ fromPool /\ ~retried
  /\ engine[req] = "multi" => buf = <<>>
  /\ retried' = TRUE /\ fromPool' = FALSE
  /\ Fresh(req)
  /\ UNCHANGED callVars

\* SendOnce takes the end of the connection for an error, always
EofOnce ==
  /\ AtEof /\ engine[req] = "once" /\ ~fromPool
  /\ Fails
  /\ UNCHANGED <<buf, spoilt, out, wire, closed>>

\* mutant: the end of the connection is an error, always
EofMultiFails ==
  /\ AtEof /\ engine[req] = "multi"
  /\ ~(fromPool /\ ~retried /\ buf = <<>>)
  /\ Fails
  /\ spoilt' = TRUE
  /\ UNCHANGED <<buf, out, wire, closed>>

\* the multi engine parses what it has - and, if that fails, parses it again
EofMulti ==
  /\ AtEof /\ engine[req] = "multi"
  /\ ~(fromPool /\ ~retried /\ buf = <<>>)
  /\ \/ /\ buf # <<>> /\ Parse(buf, FALSE) = "ok"
        /\ Answered(buf, FALSE)
     \/ /\ buf # <<>> /\ Parse(buf, FALSE) # "ok" /\ Parse(buf, TRUE) = "ok"
        /\ Answered(buf, TRUE)
     \/ /\ buf = <<>> \/ (Parse(buf, FALSE) # "ok" /\ Parse(buf, TRUE) # "ok")
        /\ Fails
  /\ spoilt' = TRUE
  /\ UNCHANGED <<buf, out, wire, closed>>

\* mutant: a connection with an answer outstanding goes back to the pool
TimeoutPools ==
  /\ pc = "reading" /\ wire = <<>>
  /\ pc' = "idle" /\ conn' = "pooled"
  /\ outcome' = [outcome EXCEPT ![req] = "error"]
  /\ UNCHANGED <<req, shape, engine, body, tooSoon, fromPool, retried, buf, spoilt, out, wire, closed>>

Timeout ==
  /\ pc = "reading" /\ wire = <<>>
  /\ Fails
  /\ UNCHANGED <<buf, spoilt, out, wire, closed>>

Next == PeerSends \/ PeerCloses \/ Request \/ Read \/ Retry \/ EofOnce \/ EofMulti \/ Timeout

Spec == Init /\ [][Next]_vars

-----------------------------------------------------------------------------
(* Properties                                                              *)

\* Whatever the peer cut short, closed or sent late, a caller of SendOnce who is
\* told that its request succeeded is given the body of the answer to that
\* request: bytes of an earlier response never survive the pool (sendFollow,
\* PoolGet), whichever engine left the connection there.  Excepts the answer
\* whose head was taken for whole at the end of a line (README, Divergences).
RightAnswer ==
  \A r \in Requests \ tooSoon : outcome[r] = "ok" /\ engine[r] = "once" => body[r] = BodyOf(r, shape[r])

\* A pooled connection is good for another request: the answer to the last one
\* does not go on coming over it, but for the line that ends a chunked body.
\* Excepts the connection of an answer whose head was taken for whole too soon.
NothingOwedInPool ==
  conn = "pooled" /\ req \notin tooSoon => \A tok \in ToSet(out \o wire) : tok.t = "nl"

\* Not even a body that is wrong for being cut short holds a byte of another
\* request's response - nor one read behind the rest of a response that was
\* answered too soon: what begins in the middle of a response is none.
OwnBytes == \A r \in Requests : \A tok \in ToSet(body[r]) : tok.of = r

\* A response that only the end of the connection delimits, and that is in the
\* buffer when the end comes, is delivered with its whole body
\* (corRestClientMultiPerform: "EOF is the legitimate body terminator - what's
\* in the buffer IS the complete response").
CloseDelimited ==
  [][(EofMulti /\ buf = Response(req, "untilClose"))
       => outcome'[req] = "ok" /\ body'[req] = BodyOf(req, "untilClose")]_vars

\* corRestClientParse.c, corRestClientResponseComplete: "is the full response
\* in the buffer?" - it says so of no less than the whole head.
\* Not kept by the code (README, Divergences).
WholeResponse == tooSoon = {}

\* corRestClientMulti.c, at the second parse at EOF: "pr != 0 -> genuinely
\* truncated/malformed; fall through to error": what the end cut short is one.
\* Not kept by the code (README, Divergences).
TruncatedIsError ==
  [][(EofMulti /\ buf # Response(req, shape[req])) => outcome'[req] = "error"]_vars

\* Responses do not run into each other, over a well-typed state: neither in the
\* pool, where one would be left behind, nor in a body, where one would begin;
\* and the body that a caller of SendOnce gets is the whole of its own.
FramingInv == TypeOK /\ NothingOwedInPool /\ OwnBytes /\ RightAnswer
=============================================================================
