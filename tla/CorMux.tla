------------------------------- MODULE CorMux -------------------------------
(***************************************************************************)
(* The cor:// client of one thread (corRestCor.c, CLIENT): the coroutines  *)
(* of a loop share one multiplexed connection per peer, taking in turn its *)
(* WRITE turn (a frame encoded and written whole) and its READ turn (one   *)
(* coroutine reads every frame and hands it to the call it belongs to).    *)
(*                                                                         *)
(* Everything runs on one thread: a step is what a coroutine does from one *)
(* yield to the next.  running is the coroutine that has not yielded yet;  *)
(* while there is one, nobody else takes a step.  corCoLoopWake marks a    *)
(* parked coroutine ready; the loop resumes the ready ones in any order.   *)
(*                                                                         *)
(* A connection is left out of the model where the thread's code cannot    *)
(* see it: the bytes on the wire are whole frames, except that a body may  *)
(* come later than its header.                                             *)
(***************************************************************************)
EXTENDS Naturals, Sequences, FiniteSets, SequencesExt, FiniteSetsExt

CONSTANTS
  Coroutines,   \* the coroutines of the loop
  Peers,        \* the cor:// endpoints
  NSlots,       \* CLIENT_CONNS_MAX
  MaxCalls,     \* bound: corRestCorSend calls per coroutine
  Faults,       \* what may go wrong: a subset of AllFaults
  None

\* a connect fails; the peer closes a connection; a body never comes; the loop
\* is stopped while a coroutine waits
AllFaults == {"connect", "close", "silence", "stop"}

Slots == 1 .. NSlots

\* clientConnV, and the temporary connection of a coroutine that finds no slot
Conns == Slots \cup Coroutines

ASSUME MuxAssumption ==
  /\ NSlots \in Nat \ {0} /\ MaxCalls \in Nat
  /\ Faults \subseteq AllFaults
  /\ Slots \cap Coroutines = {}
  /\ None \notin Conns \cup Peers

VARIABLES
  conn,      \* conn[s]: the MuxConn
  co,        \* co[c]: the coroutine - its call, and where it is in the code
  running,   \* the coroutine executing now, None when the loop may choose
  flight,    \* requests written whole: the peer runs them, and answers
  freedUse,  \* ghost: a call was written to after it was freed
  broken     \* ghost: muxFail has failed a connection

vars == <<conn, co, running, flight, freedUse, broken>>

\* conn.fd >= 0 is open; epoch tells one TCP connection of the slot from the next
NewConn == [open |-> FALSE, epoch |-> 0, peer |-> None, calls |-> <<>>, writing |-> FALSE,
            reading |-> FALSE, writers |-> <<>>, correlation |-> 0]

NoCall == [co |-> None, id |-> 0]

NewCo == [pc |-> "idle", want |-> None, on |-> None, epoch |-> 0, id |-> 0, left |-> MaxCalls,
          try |-> 0, attempt |-> 0, reused |-> FALSE, done |-> FALSE,
          error |-> "none", expired |-> FALSE, ready |-> FALSE, target |-> NoCall,
          frame |-> NoCall, timedOut |-> FALSE, live |-> FALSE, answer |-> NoCall]

Init ==
  /\ conn = [s \in Conns |-> NewConn]
  /\ co = [c \in Coroutines |-> NewCo]
  /\ running = None
  /\ flight = {}
  /\ freedUse = FALSE
  /\ broken = FALSE

-----------------------------------------------------------------------------
(* Helpers: what a connection and a set of coroutines look like after      *)

Members(q) == {q[i] : i \in DOMAIN q}

\* a CorRestCorCall, as a connection's list holds it: the coroutine's id-th
Call(c) == [co |-> c, id |-> co[c].id]

\* callUnlink: the call taken out of the list, if it is there
Without(q, call) ==
  LET at == {i \in DOMAIN q : q[i].call = call}
  IN IF at = {} THEN q ELSE RemoveAt(q, Min(at))

\* the call is still allocated
Live(call) == co[call.co].live /\ co[call.co].id = call.id

\* the coroutines whose calls a connection has, and: one of them was freed
Callers(m)  == {e.call.co : e \in {f \in Members(m.calls) : Live(f.call)}}
Dangling(m) == \E e \in Members(m.calls) : ~Live(e.call)

\* writeTurnRelease: the head of the waiters woken
Released(m) ==
  [m EXCEPT !.writing = FALSE, !.writers = IF m.writers = <<>> THEN <<>> ELSE Tail(m.writers)]

Woken(m)    == IF m.writers = <<>> THEN {} ELSE {Head(m.writers)}

\* connClose, and every call done: muxFail
Failed(m) == [m EXCEPT !.open = FALSE, !.calls = <<>>]

\* a call done with an error: its coroutine, woken if it is parked in corRestCorWait
CallDone(k, error) ==
  [k EXCEPT !.done = TRUE, !.error = error, !.ready = @ \/ k.pc = "parked"]

\* the coroutines after c became k, those of failed had their call done with
\* error, and those of woken were woken
Others(c, k, failed, error, woken) ==
  [d \in Coroutines |->
     LET base == IF d = c THEN k ELSE co[d]
         fell == IF d \in failed THEN CallDone(base, error) ELSE base
     IN IF d \in woken THEN [fell EXCEPT !.ready = TRUE] ELSE fell]

\* readTurnHandOff: the first waiting call of the connection, in list order
HandedTo(m) ==
  LET waiting == {i \in DOMAIN m.calls : Live(m.calls[i].call) /\ co[m.calls[i].call.co].pc = "parked"}
  IN IF waiting = {} THEN {} ELSE {m.calls[Min(waiting)].call.co}

Runs(c, pc) == running \in {None, c} /\ co[c].pc = pc

-----------------------------------------------------------------------------
(* corRestCorSend, corRestCorStart                                         *)

\* a fresh call is allocated: nothing of it is done yet
FreshCall(k) ==
  [k EXCEPT !.pc = "get", !.attempt = 1, !.id = @ + 1, !.done = FALSE, !.error = "none",
            !.expired = FALSE, !.reused = FALSE, !.live = TRUE, !.ready = FALSE,
            !.answer = NoCall]

Send(c, p) ==
  LET k == FreshCall(co[c])
  IN /\ Runs(c, "idle") /\ k.left > 0
     /\ co' = [co EXCEPT ![c] = [k EXCEPT !.want = p, !.try = 1, !.left = k.left - 1,
                                          !.timedOut = FALSE]]
     /\ running' = c
     /\ UNCHANGED <<conn, flight, freedUse, broken>>

\* corRestCorStart returns NULL: so does corRestCorSend
StartFails(k) == [k EXCEPT !.pc = "idle", !.live = FALSE, !.on = None, !.ready = FALSE]

\* mutant: the connection's sequence number stays
LinkedUnnumbered(c, m) ==
  [m EXCEPT !.calls = <<[call |-> Call(c), correlation |-> m.correlation + 1]>> \o @]

\* the request is linked and encoded; writing it may yield
Linked(c, m) ==
  [m EXCEPT !.correlation = @ + 1,
            !.calls = <<[call |-> Call(c), correlation |-> m.correlation + 1]>> \o @]
Sending(k, s, m, reused) ==
  [k EXCEPT !.pc = "sending", !.on = s, !.epoch = m.epoch, !.reused = reused, !.ready = FALSE]

\* muxGet: a connection to the peer, open or being opened
Match(c) == {s \in Slots : (conn[s].open \/ conn[s].writing) /\ conn[s].peer = co[c].want}

\* muxGet: a slot never used, or whose connection failed; else an idle one
Free == {s \in Slots : ~conn[s].open /\ ~conn[s].writing /\ conn[s].calls = <<>>}
Idle == {s \in Slots : conn[s].calls = <<>> /\ ~conn[s].writing /\ ~conn[s].reading}

\* writeTurn: in the hands of somebody, so behind the others that wait
GetWait(c) ==
  LET s == Min(Match(c))
  IN /\ Runs(c, "get") /\ Match(c) # {}
     /\ conn[s].writing
     /\ conn' = [conn EXCEPT ![s].writers = Append(@, c)]
     /\ co' = [co EXCEPT ![c].pc = "turn", ![c].on = s]
     /\ running' = None
     /\ UNCHANGED <<flight, freedUse, broken>>

\* the write turn is free, and the connection is open - Match says so
GetTurn(c) ==
  LET s == Min(Match(c))
  IN /\ Runs(c, "get") /\ Match(c) # {}
     /\ ~conn[s].writing
     /\ conn' = [conn EXCEPT ![s] = [Linked(c, @) EXCEPT !.writing = TRUE]]
     /\ co' = [co EXCEPT ![c] = Sending(@, s, conn[s], TRUE)]
     /\ running' = None
     /\ UNCHANGED <<flight, freedUse, broken>>

\* no connection to the peer: one is named, both turns taken, then connected.  A
\* temporary one is allocated for the call, whatever the last one was left with
GetConnect(c) ==
  LET s == IF Free # {} THEN Min(Free) ELSE IF Idle # {} THEN Min(Idle) ELSE c
  IN /\ Runs(c, "get") /\ Match(c) = {}
     /\ conn' = [conn EXCEPT ![s].open = FALSE, ![s].peer = co[c].want,
                             ![s].calls = <<>>, ![s].writing = TRUE, ![s].reading = TRUE]
     /\ co' = [co EXCEPT ![c].pc = "connect", ![c].on = s]
     /\ running' = None
     /\ UNCHANGED <<flight, freedUse, broken>>

\* woken with the write turn free, or taken again by somebody quicker
TurnAgain(c) ==
  LET s == co[c].on
  IN /\ Runs(c, "turn") /\ co[c].ready /\ conn[s].writing
     /\ conn' = [conn EXCEPT ![s].writers = Append(@, c)]
     /\ co' = [co EXCEPT ![c].ready = FALSE]
     /\ UNCHANGED <<running, flight, freedUse, broken>>

TurnTaken(c) ==
  LET s == co[c].on
  IN /\ Runs(c, "turn") /\ co[c].ready /\ ~conn[s].writing /\ conn[s].open
     /\ conn' = [conn EXCEPT ![s] = [Linked(c, @) EXCEPT !.writing = TRUE]]
     /\ co' = [co EXCEPT ![c] = Sending(@, s, conn[s], TRUE)]
     /\ UNCHANGED <<running, flight, freedUse, broken>>

\* the connect of the coroutine whose turn it was failed: this call fails too
TurnClosed(c) ==
  LET s == co[c].on
  IN /\ Runs(c, "turn") /\ co[c].ready /\ ~conn[s].writing /\ ~conn[s].open
     /\ conn' = [conn EXCEPT ![s] = Released(@)]
     /\ co' = Others(c, StartFails(co[c]), {}, "none", Woken(conn[s]))
     /\ UNCHANGED <<running, flight, freedUse, broken>>

Connected(c) ==
  LET s == co[c].on
      m == [conn[s] EXCEPT !.open = TRUE, !.epoch = @ + 1, !.reading = FALSE, !.correlation = 0]
  IN /\ Runs(c, "connect")
     /\ conn' = [conn EXCEPT ![s] = Linked(c, m)]
     /\ co' = [co EXCEPT ![c] = Sending(@, s, m, FALSE)]
     /\ UNCHANGED <<running, flight, freedUse, broken>>

ConnectFails(c) ==
  LET s == co[c].on
  IN /\ Runs(c, "connect") /\ "connect" \in Faults
     /\ conn' = [conn EXCEPT ![s] = Released([@ EXCEPT !.reading = FALSE])]
     /\ co' = Others(c, StartFails(co[c]), {}, "none", Woken(conn[s]))
     /\ UNCHANGED <<running, flight, freedUse, broken>>

\* callP->correlation
Sequence(c) == (CHOOSE e \in Members(conn[co[c].on].calls) : e.call = Call(c)).correlation

\* written whole: the peer has it.  On to corRestCorWait, without a yield
Sent(c) ==
  LET s == co[c].on
  IN /\ Runs(c, "sending") /\ conn[s].open /\ conn[s].epoch = co[c].epoch
     /\ conn' = [conn EXCEPT ![s] = Released(@)]
     /\ co' = Others(c, [co[c] EXCEPT !.pc = "wait"], {}, "none", Woken(conn[s]))
     /\ flight' = flight \cup {[call |-> Call(c), peer |-> conn[s].peer, on |-> s, epoch |-> co[c].epoch,
                                correlation |-> Sequence(c)]}
     /\ running' = c
     /\ UNCHANGED <<freedUse, broken>>

\* mutant: a write that fails keeps the write turn
SendFailsHolding(c) ==
  LET s == co[c].on
      k == co[c]
      again == k.reused /\ k.attempt = 1
  IN /\ Runs(c, "sending")
     /\ "close" \in Faults \/ ~conn[s].open
     /\ conn' = [conn EXCEPT ![s] = Failed(@)]
     /\ co' = Others(c, IF again THEN [k EXCEPT !.pc = "get", !.attempt = 2] ELSE StartFails(k),
                     Callers(conn[s]) \ {c}, "connection closed", {})
     /\ running' = IF again THEN c ELSE None
     /\ freedUse' = (freedUse \/ Dangling(conn[s]))
     /\ broken' = TRUE
     /\ UNCHANGED flight

\* the write failed - the peer closed, or somebody failed the connection
\* meanwhile: every call on it fails, and on a reused connection the write is
\* tried once more, on another
SendFails(c) ==
  LET s == co[c].on
      failed == Callers(conn[s]) \ {c}
      k == co[c]
      again == k.reused /\ k.attempt = 1
  IN /\ Runs(c, "sending")
     /\ "close" \in Faults \/ ~conn[s].open
     /\ conn' = [conn EXCEPT ![s] = Failed(Released(@))]
     /\ co' = Others(c, IF again THEN [k EXCEPT !.pc = "get", !.attempt = 2] ELSE StartFails(k),
                     failed, "connection closed", Woken(conn[s]))
     /\ running' = IF again THEN c ELSE None
     /\ freedUse' = (freedUse \/ Dangling(conn[s]))
     /\ broken' = TRUE
     /\ UNCHANGED flight

-----------------------------------------------------------------------------
(* corRestCorWait                                                          *)

\* somebody reads: parked, until woken with the response, the turn, or by the
\* deadline
Park(c) ==
  /\ Runs(c, "wait") /\ ~co[c].done /\ ~co[c].expired
  /\ conn[co[c].on].reading
  /\ co' = [co EXCEPT ![c].pc = "parked", ![c].ready = FALSE]
  /\ running' = None
  /\ UNCHANGED <<conn, flight, freedUse, broken>>

Unpark(c) ==
  /\ Runs(c, "parked")
  /\ \/ co[c].ready /\ co' = [co EXCEPT ![c].pc = "wait", ![c].ready = FALSE]
     \/ co' = [co EXCEPT ![c].pc = "wait", ![c].ready = FALSE, ![c].expired = TRUE]
  /\ running' = c
  /\ UNCHANGED <<conn, flight, freedUse, broken>>

\* mutant: the read turn is taken, whoever has it
ReadTurnAnyway(c) ==
  LET s == co[c].on
  IN /\ Runs(c, "wait") /\ ~co[c].done /\ ~co[c].expired
     /\ conn' = [conn EXCEPT ![s].reading = TRUE]
     /\ co' = [co EXCEPT ![c].pc = "reading", ![c].epoch = conn[s].epoch]
     /\ running' = None
     /\ UNCHANGED <<flight, freedUse, broken>>

\* the read turn taken: corRestWaitFd on the fd the connection has now
ReadTurn(c) ==
  LET s == co[c].on
  IN /\ Runs(c, "wait") /\ ~co[c].done /\ ~co[c].expired
     /\ ~conn[s].reading
     /\ conn' = [conn EXCEPT ![s].reading = TRUE]
     /\ co' = [co EXCEPT ![c].pc = "reading", ![c].epoch = conn[s].epoch]
     /\ running' = None
     /\ UNCHANGED <<flight, freedUse, broken>>

\* the fd the reader waits for is still the connection's
SameConn(c) == conn[co[c].on].open /\ conn[co[c].on].epoch = co[c].epoch

\* nothing came before the deadline - or the fd was closed under the reader
ReadExpires(c) ==
  /\ Runs(c, "reading")
  /\ conn' = [conn EXCEPT ![co[c].on].reading = FALSE]
  /\ co' = [co EXCEPT ![c].pc = "wait", ![c].expired = TRUE]
  /\ running' = c
  /\ UNCHANGED <<flight, freedUse, broken>>

\* readFrame: a response's header is in, and its call looked up by its
\* correlation; reading the body may yield
ReadHeader(c) ==
  LET s == co[c].on
  IN /\ Runs(c, "reading") /\ SameConn(c)
     /\ \E f \in flight :
          /\ f.on = s /\ f.epoch = conn[s].epoch
          /\ LET mine == {i \in DOMAIN conn[s].calls : conn[s].calls[i].correlation = f.correlation}
                 target == IF mine = {} THEN NoCall ELSE conn[s].calls[Min(mine)].call
             IN co' = [co EXCEPT ![c].pc = "body", ![c].frame = f.call, ![c].target = target]
          /\ flight' = flight \ {f}
     /\ freedUse' = (freedUse \/ Dangling(conn[s]))
     /\ running' = None
     /\ UNCHANGED <<conn, broken>>

\* the connection failed by the reader: back to the top of the wait
ReaderFails(c, error, timedOut) ==
  LET s == co[c].on
      failed == Callers(conn[s])
  IN /\ conn' = [conn EXCEPT ![s] = [Failed(@) EXCEPT !.reading = FALSE]]
     /\ co' = [Others(c, [co[c] EXCEPT !.pc = "wait", !.target = NoCall, !.frame = NoCall],
                      failed, error, {})
                 EXCEPT ![c].timedOut = @ \/ (timedOut /\ c \in failed)]
     /\ running' = c
     /\ freedUse' = (freedUse \/ Dangling(conn[s]))
     /\ broken' = TRUE
     /\ UNCHANGED flight

\* readFrame: the peer closed, or the header is not a response's (or stays
\* incomplete: not retried either)
ReadHeaderFails(c) ==
  /\ Runs(c, "reading") /\ SameConn(c) /\ "close" \in Faults
  /\ \E error \in {"connection closed", "unexpected frame in answer"} : ReaderFails(c, error, FALSE)

\* corRestWaitFd fails, the loop is stopping: the wait ends here
WaitFails(c) ==
  LET s == co[c].on
  IN /\ Runs(c, "reading") /\ "stop" \in Faults
     /\ conn' = [conn EXCEPT ![s] = [Failed(@) EXCEPT !.reading = FALSE]]
     /\ co' = Others(c, [co[c] EXCEPT !.pc = "wait", !.expired = TRUE],
                     Callers(conn[s]), "no wait for the response", {})
     /\ running' = c
     /\ freedUse' = (freedUse \/ Dangling(conn[s]))
     /\ broken' = TRUE
     /\ UNCHANGED flight

\* readFrame: the body is in and decoded, into the memory of the call that was
\* looked up when the header came
ReadBody(c) ==
  LET s == co[c].on
      t == co[c].target
      d == t.co
      back == [co[c] EXCEPT !.pc = "wait", !.target = NoCall, !.frame = NoCall]
      gone == t # NoCall /\ ~Live(t)
  IN /\ Runs(c, "body") /\ SameConn(c)
     /\ conn' = [conn EXCEPT ![s].reading = FALSE,
                             ![s].calls = IF t = NoCall THEN @ ELSE Without(@, t)]
     /\ co' = IF t = NoCall \/ gone THEN [co EXCEPT ![c] = back]
              ELSE [Others(c, back, {d}, "none", {}) EXCEPT ![d].answer = co[c].frame]
     /\ freedUse' = (freedUse \/ gone)
     /\ running' = c
     /\ UNCHANGED <<flight, broken>>

\* readFrame: the body does not come - the peer closed, or 30 s passed with
\* nothing: "connection closed" either way.  A reader whose connection was
\* closed meanwhile fails whatever the slot holds by now
ReadBodyFails(c) ==
  /\ Runs(c, "body")
  /\ \/ "close" \in Faults /\ SameConn(c) /\ ReaderFails(c, "connection closed", FALSE)
     \/ ("silence" \in Faults \/ ~SameConn(c)) /\ ReaderFails(c, "connection closed", TRUE)

\* the end of corRestCorWait - done, or past the deadline, which may be any
\* time - and what corRestCorSend makes of it: retried only on a reused
\* connection that was closed
WaitEnd(c) ==
  LET k == co[c]
      s == k.on
      error == IF k.done THEN k.error ELSE "timed out"
      m == [conn[s] EXCEPT !.calls = IF k.done THEN @ ELSE Without(@, Call(c))]
      retried == error = "connection closed" /\ k.reused /\ k.try = 1
      after == [k EXCEPT !.live = FALSE, !.on = None, !.ready = FALSE, !.done = TRUE,
                         !.error = error, !.pc = "idle"]
  IN /\ Runs(c, "wait")
     /\ conn' = [conn EXCEPT ![s] = IF s = c /\ m.calls = <<>> THEN [m EXCEPT !.open = FALSE] ELSE m]
     /\ co' = Others(c, IF retried THEN [FreshCall(after) EXCEPT !.try = 2] ELSE after, {}, "none", HandedTo(m))
     /\ running' = IF retried THEN c ELSE None
     /\ UNCHANGED <<flight, freedUse, broken>>

\* everything but a new corRestCorSend
Step(c) ==
  \/ GetWait(c) \/ GetTurn(c) \/ GetConnect(c) \/ TurnAgain(c) \/ TurnTaken(c) \/ TurnClosed(c)
  \/ Connected(c) \/ ConnectFails(c) \/ Sent(c) \/ SendFails(c)
  \/ Park(c) \/ Unpark(c) \/ ReadTurn(c) \/ ReadExpires(c) \/ ReadHeader(c) \/ ReadHeaderFails(c)
  \/ WaitFails(c) \/ ReadBody(c) \/ ReadBodyFails(c) \/ WaitEnd(c)

Next == \E c \in Coroutines : Step(c) \/ \E p \in Peers : Send(c, p)

Fairness == \A c \in Coroutines : WF_vars(Step(c))

Spec == Init /\ [][Next]_vars /\ Fairness

-----------------------------------------------------------------------------
(* Properties                                                              *)

Pcs == {"idle", "get", "turn", "connect", "sending", "wait", "parked", "reading", "body"}

Errors == {"none", "connection closed", "unexpected frame in answer", "no wait for the response", "timed out"}

AllCalls == [co : Coroutines, id : Nat]

MuxConns ==
  [open : BOOLEAN, epoch : Nat, peer : Peers \cup {None},
   calls : Seq([call : AllCalls, correlation : Nat]), writing : BOOLEAN, reading : BOOLEAN,
   writers : Seq(Coroutines), correlation : Nat]

CoStates ==
  [pc : Pcs, want : Peers \cup {None}, on : Conns \cup {None}, epoch : Nat, id : Nat,
   left : 0 .. MaxCalls, try : {0, 1, 2}, attempt : {0, 1, 2}, reused : BOOLEAN, done : BOOLEAN,
   error : Errors, expired : BOOLEAN, ready : BOOLEAN, target : AllCalls \cup {NoCall},
   frame : AllCalls \cup {NoCall}, timedOut : BOOLEAN, live : BOOLEAN, answer : AllCalls \cup {NoCall}]

Requests == [call : AllCalls, peer : Peers \cup {None}, on : Conns, epoch : Nat, correlation : Nat]

TypeOK ==
  /\ conn \in [Conns -> MuxConns] /\ co \in [Coroutines -> CoStates]
  /\ running \in Coroutines \cup {None}
  /\ flight \subseteq Requests
  /\ freedUse \in BOOLEAN /\ broken \in BOOLEAN

\* A coroutine is on a slot of the thread's or on a temporary connection of its
\* own - never on another's, which would be freed under it.
OnOwn ==
  \A c \in Coroutines :
    /\ co[c].on \in Slots \cup {c, None}
    /\ co[c].pc \notin {"idle", "get"} => co[c].on # None

\* "a frame is encoded and written whole by one coroutine at a time: encoding
\* order must be wire order" - nobody else writes, or connects, where one does.
WriteTurnExclusive ==
  \A c, d \in Coroutines :
    (c # d /\ co[c].pc \in {"sending", "connect"} /\ co[d].pc \in {"sending", "connect"}) =>
      co[c].on # co[d].on

\* The turn is taken exactly while somebody uses it: it is never left behind by
\* a coroutine that went away, which would block the peer for every later call.
WriteTurnHeld ==
  \A s \in Conns :
    conn[s].writing <=> \E c \in Coroutines : co[c].pc \in {"sending", "connect"} /\ co[c].on = s

\* Who waits for the write turn is in the queue of its connection, or woken -
\* so that no release can miss it.
NoLostWriter ==
  \A c \in Coroutines : co[c].pc = "turn" =>
    co[c].ready \/ \E i \in DOMAIN conn[co[c].on].writers : conn[co[c].on].writers[i] = c

\* A connection's calls have numbers of their own, none above the last that was
\* given out; and there are none yet on a connection that is being made.
CallsNumbered ==
  /\ \A s \in Conns : \A e \in Members(conn[s].calls) :
       /\ e.correlation <= conn[s].correlation
       /\ \A f \in Members(conn[s].calls) : e.correlation = f.correlation => e = f
  /\ \A c \in Coroutines : co[c].pc = "connect" => conn[co[c].on].calls = <<>>

\* A number that a request went out with is not given to another call as long as
\* the answer may come: the reader finds the call it belongs to, or none.
NumbersKept ==
  \A f \in flight :
    /\ f.epoch <= conn[f.on].epoch
    /\ f.epoch = conn[f.on].epoch =>
         /\ f.correlation <= conn[f.on].correlation
         /\ \A e \in Members(conn[f.on].calls) : e.correlation = f.correlation => e.call = f.call

\* The frame that a reader has in hand is the one for the call it has looked up.
FrameOfTarget ==
  \A c \in Coroutines :
    (co[c].pc = "body" /\ co[c].target # NoCall) => co[c].frame = co[c].target

Unsent   == {"get", "turn", "connect", "sending"}
UnderWay == {"sending", "wait", "parked", "reading", "body"}

\* No answer to a call comes before its request is written - not even on a second
\* attempt -, nor to a call that is still to be made.
AnswersFollow ==
  \A c \in Coroutines :
    /\ \A f \in flight : f.call.co = c =>
         f.call.id <= co[c].id /\ (co[c].pc \in Unsent => f.call.id < co[c].id)
    /\ \A d \in Coroutines : (co[d].pc = "body" /\ co[d].frame.co = c) =>
         co[d].frame.id <= co[c].id /\ (co[c].pc \in Unsent => co[d].frame.id < co[c].id)

\* A call being written is linked, as long as its connection is the one it began on.
SendingLinked ==
  \A c \in Coroutines : co[c].pc = "sending" =>
    /\ co[c].epoch <= conn[co[c].on].epoch
    /\ (conn[co[c].on].open /\ conn[co[c].on].epoch = co[c].epoch) =>
         \E e \in Members(conn[co[c].on].calls) : e.call = Call(c)

\* A call that succeeds has the response to itself - to this call, not to an
\* earlier one of the coroutine that timed out - however late or out of order
\* the peer answers.
OwnResponse ==
  \A c \in Coroutines : co[c].answer # NoCall => co[c].answer = Call(c)

\* Every corRestCorSend returns, whatever the peer does.
SendReturns == \A c \in Coroutines : co[c].pc # "idle" ~> co[c].pc = "idle"

\* MuxConn: "one coroutine reads the connection".
\* Not kept by the code: a reader sleeps on, while its connection is closed and
\* opened again for another (README, Divergences).
ReadTurnExclusive ==
  \A c, d \in Coroutines :
    (c # d /\ co[c].pc \in {"reading", "body"} /\ co[d].pc \in {"reading", "body"}
       /\ SameConn(c) /\ SameConn(d)) => co[c].on # co[d].on

\* muxGet: "the thread's connection to host:port, connected if it is not" -
\* every request goes to the peer it is for.
\* Not kept by the code: a slot may change hands while a coroutine waits for its
\* write turn (README, Divergences).
RequestToItsPeer == \A c \in Coroutines : co[c].pc = "sending" => conn[co[c].on].peer = co[c].want

\* readFrame decodes "into the memory of the call it belongs to" - never into
\* that of a call that is over.
\* Not kept by the code: a call may end while its response is being read (README,
\* Divergences).
NoFreedCall == ~freedUse

\* The list of a connection's calls holds calls that are waited for: "sent,
\* response not yet in".
\* Not kept by the code: a call that was failed while it was being written is linked
\* a second time with its response marked as in (README, Divergences).
CallsWaitedFor == \A s \in Conns : ~Dangling(conn[s])

\* Until a connection is failed, the read turn is taken exactly while somebody uses
\* it, the connecter included.
ReadTurnHeld ==
  \A s \in Conns : conn[s].reading <=>
    \E c \in Coroutines : co[c].pc \in {"connect", "reading", "body"} /\ co[c].on = s

\* Until a connection is failed, nobody's connection is closed under him: not that of
\* a writer, not that of a reader, and none on which a call is waited for.  One that
\* is being made is not open yet.
NoneClosed ==
  /\ \A c \in Coroutines : co[c].pc \in {"sending", "reading", "body"} => SameConn(c)
  /\ \A s \in Conns : conn[s].calls # <<>> => conn[s].open
  /\ \A c \in Coroutines : co[c].pc = "connect" => ~conn[co[c].on].open

\* Until a connection is failed, the calls of a connection are those that are under
\* way on it and not done, each of them once.
CallsUnderWay ==
  /\ \A s \in Conns : \A e \in Members(conn[s].calls) :
       /\ Live(e.call) /\ co[e.call.co].on = s
       /\ co[e.call.co].pc \in UnderWay /\ ~co[e.call.co].done
  /\ \A s \in Conns : \A i, j \in DOMAIN conn[s].calls :
       conn[s].calls[i].call = conn[s].calls[j].call => i = j
  /\ \A c \in Coroutines : (co[c].pc \in UnderWay /\ ~co[c].done) =>
       \E e \in Members(conn[co[c].on].calls) : e.call = Call(c)
  /\ \A c \in Coroutines : /\ co[c].live <=> co[c].pc # "idle"
                           /\ co[c].pc \in Unsent => ~co[c].done

\* A response is for a call of the connection that it was read from, or for one
\* that is over.
TargetHere ==
  \A c \in Coroutines : (co[c].pc = "body" /\ co[c].target # NoCall) =>
    (Live(co[c].target) => co[co[c].target.co].on = co[c].on)

\* One coroutine at a time reads the frames of a connection, from one that is open,
\* and looks them up among calls that are waited for: those under way on it, each in
\* its list until it is done.
CallsLive ==
  /\ ReadTurnExclusive /\ CallsWaitedFor
  /\ ReadTurnHeld /\ NoneClosed /\ CallsUnderWay /\ TargetHere

\* Whatever may go wrong, a loop's connections are in order until the first of them
\* is failed: connects that are refused, deadlines that pass and slots that change
\* hands disturb neither the read turn nor the lists of calls.
LiveUntilBroken == broken \/ CallsLive

\* corRestCorSend: "Never after a timeout: the peer may be executing it, and a
\* second POST would create twice."
\* Not kept by the code (README, Divergences).
NoRetryAfterTimeout == \A c \in Coroutines : co[c].try = 2 => ~co[c].timedOut

\* The turns as MuxConn describes them, together, over a well-typed state: one
\* writer, or connecter, of a connection; a turn that is taken is in use; who
\* waits for it is in the queue that its release looks into; and a response,
\* however late, is given to the call it answers.
MuxInv ==
  /\ TypeOK /\ OnOwn
  /\ WriteTurnExclusive /\ WriteTurnHeld /\ NoLostWriter
  /\ CallsNumbered /\ NumbersKept /\ FrameOfTarget /\ AnswersFollow /\ SendingLinked
  /\ OwnResponse
=============================================================================
