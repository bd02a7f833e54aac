------------------------ MODULE RequestResponse_proofs ------------------------
(***************************************************************************)
(* What is proved of the two ends of a request: of Dispatch, the pipeline  *)
(* that serves it, and of ResponseFraming, the client that reads the       *)
(* response.  The two share no state.                                      *)
(*                                                                         *)
(* Dispatch: DispatchInv, which is inductive, and with it PipelineInv and  *)
(* AnswerHonest, for any number of coroutines and any depth of routines    *)
(* that forward to themselves.                                             *)
(*                                                                         *)
(* ResponseFraming: where the head of a response arrives in one piece,     *)
(* FramingInv, for any number of requests, any framings and engines, and a *)
(* peer that may close at any time; and with no such hypothesis that a     *)
(* response its connection's end delimits is delivered.  FramingInv says   *)
(* nothing of what a caller reads next.  Reading adds that: what is        *)
(* buffered, on its way and to come is the response asked for, cut at two  *)
(* places where a piece may end; or it begins with the line end a chunked  *)
(* response left behind, and then no reader takes it for a response.  The  *)
(* rest is what the parsers make of each part of each framing, which they  *)
(* can be asked one by one.                                                *)
(***************************************************************************)
EXTENDS Dispatch, ResponseFraming, FiniteSetTheorems, SequenceTheorems, WellFoundedInduction, TLAPS

-----------------------------------------------------------------------------
(* The request pipeline: every coroutine's calls and states are a stack,   *)
(* what runs is bound to the top of its own, and each phase finds its      *)
(* request as the one before it leaves it.                                 *)

\* The phases.
Pcs == Waits \cup {"media", "respond", "answered", "sent"}

\* A call: where it is, the binding it found, and whether it has waited.
Calls == [pc : Pcs, outer : {<<>>} \cup (Coroutines \X Nat), waited : BOOLEAN]

\* A sequence, whatever it holds
IsSeq(s) == s \in Seq({s[i] : i \in DOMAIN s})

\* What every state has.  What its texts hold is no part of the argument.
Fields ==
  {"verb", "buf", "ix", "wildcard", "params", "unknown", "early", "depth", "forwards", "admitted",
   "tree", "keyF", "status", "problem", "late", "ran", "answer", "allow", "body"}

\* A state of level l, by its type.
StateType(q, l) ==
  /\ Fields \subseteq DOMAIN q
  /\ q.depth = l - 1
  /\ q.status \in Statuses
  /\ q.allow \subseteq DOMAIN Routes
  /\ q.admitted \in BOOLEAN /\ q.keyF \in BOOLEAN /\ q.problem \in BOOLEAN
  /\ q.late \in BOOLEAN /\ q.ran \in BOOLEAN
  /\ q.early \in {"no", "411", "413", "refused", "silent"}

\* The phases up to the routine.
BeforeRoutine == {"dispatch", "admit", "media", "parse", "find", "check", "routine"}

\* Nothing has answered yet.
Untouched(q) == ~q.ran /\ ~q.late /\ q.answer = {} /\ q.body = "none"

\* Nothing is wrong yet.
Clean(q) == q.status = 200 /\ ~q.problem

\* The answer is an error.
Refused(q) == q.status >= 400

\* What a request is when it is about to go through a phase.
Phase(q, ph) ==
  /\ ph \in BeforeRoutine => Untouched(q)
  /\ ph = "dispatch" => IF q.early \in {"no", "silent"} THEN Clean(q) ELSE Refused(q)
  /\ ph \in {"admit", "media", "parse", "routine"} => Clean(q)
  /\ ph \in {"find", "check"} => Clean(q) \/ (q.problem /\ Refused(q))
  /\ ph = "render" => q.ran /\ (q.problem => q.status = 200 \/ Refused(q))
  /\ ph \in {"respond", "answered"} => (q.problem => Refused(q)) /\ (Refused(q) \/ q.ran \/ q.early = "silent")
  /\ ph \in {"render", "respond"} => q.body = "none" /\ (q.answer # {} => q.ran)
  /\ q.late => q.problem /\ q.answer = {}
  /\ ph = "answered" => /\ q.body = "answer" => q.ran /\ ~q.late
                        /\ q.problem /\ "tree" \notin q.answer => q.body # "answer"
  /\ q.keyF => ph = "parse"

\* A request that came in goes past the admit hook admitted only.
Admission(q, ph, l) ==
  l = 1 /\ (q.ran \/ ph \in {"media", "parse", "find", "check", "routine", "render"}) => q.admitted

\* A call is made from the routine of the one below it, and finds that bound; only the
\* outermost is of a request that came in.
CallRight(c, l) ==
  /\ frame[c][l].outer = IF l = 1 THEN <<>> ELSE <<c, l - 1>>
  /\ l < Level(c) => frame[c][l].pc = "routine"
  /\ frame[c][l].pc \in {"sent", "postResponse"} => l = 1

\* A state is as the phase of its call has it.
StateRight(c, l) ==
  /\ StateType(request[c][l], l)
  /\ Phase(request[c][l], frame[c][l].pc)
  /\ Admission(request[c][l], frame[c][l].pc, l)

\* The calls and the states of a coroutine are stacks of one height.
Stacked ==
  /\ frame \in [Coroutines -> Seq(Calls)]
  /\ DOMAIN request = Coroutines
  /\ \A c \in Coroutines :
       /\ IsSeq(request[c])
       /\ Len(request[c]) = Level(c)
       /\ Level(c) <= MaxDepth + 1
       /\ \A l \in 1 .. Level(c) : CallRight(c, l) /\ StateRight(c, l)

\* What runs does not wait, and is bound to the top of its stack; a binding that is left
\* over is to a state that is allocated.
Bound ==
  /\ running \in Coroutines \cup {None}
  /\ running # None => /\ running \notin waiting
                       /\ Level(running) > 0
                       /\ bound = <<running, Level(running)>>
  /\ bound # <<>> => \E c \in Coroutines : \E l \in 1 .. Level(c) : bound = <<c, l>>

\* What waits keeps the binding to the top of its stack, and is not at its end.
Waiting ==
  /\ waiting \subseteq Coroutines \ Inline
  /\ DOMAIN saved = Coroutines
  /\ \A c \in Coroutines :
       IF c \in waiting
         THEN /\ saved[c] = <<c, Level(c)>>
              /\ Level(c) > 0
              /\ frame[c][Level(c)].pc # "sent"
         ELSE saved[c] = <<>>

\* The inductive invariant.
DispatchInv == Stacked /\ Bound /\ Waiting

\* A sequence has a length, and its entries are at 1 to that.
LEMMA SeqParts ==
  ASSUME NEW s, IsSeq(s)
  PROVE  Len(s) \in Nat /\ DOMAIN s = 1 .. Len(s) /\ (s = <<>> <=> Len(s) = 0)
BY EmptySeq, LenProperties DEF IsSeq

\* What has an entry at 1 to n, and nowhere else, is a sequence of n.
LEMMA SeqMade ==
  ASSUME NEW n \in Nat, NEW s, s = [i \in 1 .. n |-> s[i]]
  PROVE  IsSeq(s) /\ Len(s) = n /\ DOMAIN s = 1 .. n
<1> DEFINE S == {s[i] : i \in DOMAIN s}
<1>1. s \in [1 .. n -> S]
  OBVIOUS
<1>2. s \in Seq(S)
  <2> HIDE DEF S
  <2> QED
    BY <1>1
<1> QED
  BY <1>2, LenProperties DEF IsSeq

\* A sequence of whatever set is one.
LEMMA SeqIs ==
  ASSUME NEW S, NEW s \in Seq(S)
  PROVE  IsSeq(s)
<1>1. s = [i \in 1 .. Len(s) |-> s[i]] /\ Len(s) \in Nat
  BY LenProperties
<1> QED
  BY <1>1, SeqMade

\* One more entry at the end leaves the others where they are.
LEMMA SeqAppend ==
  ASSUME NEW s, IsSeq(s), NEW x
  PROVE  LET t == Append(s, x)
         IN  /\ IsSeq(t) /\ Len(t) = Len(s) + 1
             /\ \A i \in 1 .. Len(s) : t[i] = s[i]
             /\ t[Len(s) + 1] = x
<1> DEFINE t == Append(s, x)
           S == {s[i] : i \in DOMAIN s} \cup {x}
<1>1. s \in Seq(S)
  <2>1. {s[i] : i \in DOMAIN s} \subseteq S
    OBVIOUS
  <2> HIDE DEF S
  <2> QED
    BY <2>1, SeqParts, ElementOfSeq DEF IsSeq
<1>2. x \in S
  OBVIOUS
<1> HIDE DEF S
<1>3. /\ t \in Seq(S) /\ Len(t) = Len(s) + 1
      /\ \A i \in 1 .. Len(s) : t[i] = s[i]
      /\ t[Len(s) + 1] = x
  BY <1>1, <1>2, AppendProperties
<1> QED
  BY <1>3, SeqIs

\* Another entry in the place of one.
LEMMA SeqPut ==
  ASSUME NEW s, IsSeq(s), NEW i \in 1 .. Len(s), NEW x
  PROVE  LET t == [s EXCEPT ![i] = x]
         IN  /\ IsSeq(t) /\ Len(t) = Len(s)
             /\ \A j \in 1 .. Len(s) : t[j] = IF j = i THEN x ELSE s[j]
<1> DEFINE t == [s EXCEPT ![i] = x]
<1>1. DOMAIN s = 1 .. Len(s) /\ Len(s) \in Nat
  BY SeqParts
<1>2. t = [j \in 1 .. Len(s) |-> t[j]]
  BY <1>1
<1>3. IsSeq(t) /\ Len(t) = Len(s)
  <2> HIDE DEF t
  <2> QED
    BY <1>1, <1>2, SeqMade
<1> QED
  BY <1>1, <1>3

\* The first n entries.
LEMMA SeqCut ==
  ASSUME NEW s, IsSeq(s), NEW n \in 0 .. Len(s)
  PROVE  LET t == SubSeq(s, 1, n)
         IN  /\ IsSeq(t) /\ Len(t) = n
             /\ \A j \in 1 .. n : t[j] = s[j]
<1> DEFINE t == SubSeq(s, 1, n)
           S == {s[i] : i \in DOMAIN s}
<1>1. Len(s) \in Nat
  BY SeqParts
<1>2. s \in Seq(S)
  BY DEF IsSeq
<1> HIDE DEF S
<1>3. Len(t) = n /\ t \in Seq(S) /\ \A j \in 1 .. n : t[j] = s[j]
  BY <1>1, <1>2, SubSeqProperties
<1>4. IsSeq(t)
  BY <1>3, SeqIs
<1> QED
  BY <1>3, <1>4

\* A sequence of one.
LEMMA SeqOne ==
  ASSUME NEW x
  PROVE  IsSeq(<<x>>) /\ Len(<<x>>) = 1 /\ <<x>>[1] = x
<1>1. <<x>> \in Seq({x})
  OBVIOUS
<1> QED
  BY <1>1, SeqIs

\* The empty sequence.
LEMMA SeqNone == IsSeq(<<>>) /\ Len(<<>>) = 0
<1>1. <<>> \in Seq({0})
  OBVIOUS
<1> QED
  BY <1>1, SeqIs

\* Before the first request nothing runs and nothing is allocated.
LEMMA InitRight == PipelineInit => DispatchInv
<1> SUFFICES ASSUME PipelineInit PROVE DispatchInv
  OBVIOUS
<1>1. \A c \in Coroutines : Level(c) = 0 /\ Len(request[c]) = 0 /\ IsSeq(request[c])
  BY SeqNone DEF PipelineInit, Level
<1>2. Stacked
  BY <1>1, EmptySeq, DispatchAssumption DEF PipelineInit, Stacked
<1>3. Bound
  BY DEF PipelineInit, Bound
<1>4. Waiting
  BY DEF PipelineInit, Waiting
<1> QED
  BY <1>2, <1>3, <1>4 DEF DispatchInv

\* A coroutine has as many states as calls.
LEMMA Levels ==
  ASSUME DispatchInv, NEW c \in Coroutines
  PROVE  /\ Level(c) \in Nat /\ Len(request[c]) = Level(c)
         /\ DOMAIN frame[c] = 1 .. Level(c) /\ DOMAIN request[c] = 1 .. Level(c)
         /\ (frame[c] = <<>> <=> Level(c) = 0)
         /\ \A l \in 1 .. Level(c) : frame[c][l] \in Calls
BY SeqParts, LenProperties, EmptySeq, ElementOfSeq DEF DispatchInv, Stacked, Level

\* What runs, and the state it is bound to.
LEMMA Running ==
  ASSUME DispatchInv, NEW c \in Coroutines, running = c
  PROVE  /\ bound = <<c, Level(c)>> /\ bound[1] = c /\ bound[2] = Level(c)
         /\ Level(c) \in Nat \ {0} /\ Level(c) \in 1 .. Level(c)
         /\ Me = request[c][Level(c)]
         /\ Last(frame[c]) = frame[c][Level(c)]
         /\ StateRight(c, Level(c)) /\ CallRight(c, Level(c))
         /\ Level(c) \in DOMAIN frame[c]
         /\ c \notin waiting
<1>1. c # None
  BY DispatchAssumption
<1>2. bound = <<c, Level(c)>> /\ Level(c) > 0 /\ c \notin waiting
  BY <1>1 DEF DispatchInv, Bound
<1>3. Level(c) \in Nat \ {0} /\ Level(c) \in 1 .. Level(c)
  BY <1>2, Levels
<1>4. bound[1] = c /\ bound[2] = Level(c)
  BY <1>2
<1>5. StateRight(c, Level(c)) /\ CallRight(c, Level(c))
  BY <1>3 DEF DispatchInv, Stacked
<1> QED
  BY <1>2, <1>3, <1>4, <1>5, Levels DEF Me, Last, Level

\* The next states of the innermost request of c, and of no other.
Put(c, q) ==
  /\ DOMAIN request' = Coroutines
  /\ \A d \in Coroutines :
       /\ IsSeq(request'[d])
       /\ Len(request'[d]) = Level(d)
       /\ \A l \in 1 .. Level(d) :
            request'[d][l] = IF d = c /\ l = Level(c) THEN q ELSE request[d][l]

\* An assignment to the request that is bound changes the innermost of what runs.
LEMMA PutBecomes ==
  ASSUME DispatchInv, NEW c \in Coroutines, running = c, NEW q, Becomes(q)
  PROVE  Put(c, q)
<1> DEFINE t == [request[c] EXCEPT ![Level(c)] = q]
<1>1. request' = [request EXCEPT ![c] = t]
  BY Running DEF Becomes
<1>2. IsSeq(request[c]) /\ Level(c) \in 1 .. Len(request[c])
  BY Running, Levels DEF DispatchInv, Stacked
<1>3. /\ IsSeq(t) /\ Len(t) = Level(c)
      /\ \A l \in 1 .. Level(c) : t[l] = IF l = Level(c) THEN q ELSE request[c][l]
  BY <1>2, SeqPut, Levels
<1> HIDE DEF t
<1>4. DOMAIN request' = Coroutines
  BY <1>1 DEF DispatchInv, Stacked
<1>5. \A d \in Coroutines : request'[d] = IF d = c THEN t ELSE request[d]
  BY <1>1 DEF DispatchInv, Stacked
<1> QED
  BY <1>3, <1>4, <1>5, Levels DEF Put, DispatchInv, Stacked

\* A step that assigns nothing leaves it as it is.
LEMMA PutSame ==
  ASSUME DispatchInv, NEW c \in Coroutines, running = c, UNCHANGED request
  PROVE  Put(c, Me)
BY Running, Levels DEF Put, DispatchInv, Stacked

\* The call a coroutine is in goes on to another phase, and no other call does.
LEMMA GotoCall ==
  ASSUME DispatchInv, NEW c \in Coroutines, Level(c) > 0, NEW ph \in Pcs, Goto(c, ph)
  PROVE  /\ frame' \in [Coroutines -> Seq(Calls)]
         /\ \A d \in Coroutines : /\ Level(d)' = Level(d)
                                  /\ \A l \in 1 .. Level(d) : 
                                       /\ frame'[d][l].pc = (IF d = c /\ l = Level(c) THEN ph ELSE frame[d][l].pc)
                                       /\ frame'[d][l].outer = frame[d][l].outer
<1> DEFINE call == [frame[c][Level(c)] EXCEPT !.pc = ph, !.waited = FALSE]
           t == [frame[c] EXCEPT ![Level(c)] = call]
<1>1. frame' = [frame EXCEPT ![c] = t]
  BY DEF Goto
<1>2. frame[c] \in Seq(Calls) /\ Level(c) \in 1 .. Len(frame[c]) /\ frame[c][Level(c)] \in Calls
  BY Levels DEF DispatchInv, Stacked, Level
<1>3. call \in Calls /\ call.pc = ph /\ call.outer = frame[c][Level(c)].outer
  BY <1>2 DEF Calls
<1> HIDE DEF call
<1>4. t \in Seq(Calls) /\ Len(t) = Level(c)
      /\ \A l \in 1 .. Level(c) : t[l] = IF l = Level(c) THEN call ELSE frame[c][l]
  BY <1>2, <1>3, ExceptSeq DEF Level
<1> HIDE DEF t
<1>5. \A d \in Coroutines : frame'[d] = IF d = c THEN t ELSE frame[d]
  BY <1>1 DEF DispatchInv, Stacked
<1>6. frame' \in [Coroutines -> Seq(Calls)]
  BY <1>1, <1>4 DEF DispatchInv, Stacked
<1> QED
  BY <1>3, <1>4, <1>5, <1>6 DEF Level

\* A phase of the innermost request of c is over.
LEMMA AdvanceStack ==
  ASSUME DispatchInv, NEW c \in Coroutines, Level(c) > 0, NEW ph \in Pcs, NEW q,
         ph = "sent" \/ ph = "postResponse" => Level(c) = 1,
         Goto(c, ph), Put(c, q),
         StateType(q, Level(c)), Phase(q, ph), Admission(q, ph, Level(c))
  PROVE  /\ Stacked'
         /\ \A d \in Coroutines : /\ Level(d)' = Level(d)
                                  /\ \A l \in 1 .. Level(d) :
                                       frame'[d][l].pc = (IF d = c /\ l = Level(c) THEN ph ELSE frame[d][l].pc)
<1>1. /\ frame' \in [Coroutines -> Seq(Calls)]
      /\ \A d \in Coroutines : /\ Level(d)' = Level(d)
                               /\ \A l \in 1 .. Level(d) :
                                    /\ frame'[d][l].pc = (IF d = c /\ l = Level(c) THEN ph ELSE frame[d][l].pc)
                                    /\ frame'[d][l].outer = frame[d][l].outer
  BY GotoCall
<1>2. ASSUME NEW d \in Coroutines, NEW l \in 1 .. Level(d) PROVE CallRight(d, l)' /\ StateRight(d, l)'
  <2>1. CallRight(d, l) /\ StateRight(d, l) /\ Level(d) \in Nat
    BY Levels DEF DispatchInv, Stacked
  <2>2. CallRight(d, l)'
    BY <1>1, <2>1 DEF CallRight
  <2>3. StateRight(d, l)'
    BY <1>1, <2>1 DEF StateRight, Put
  <2> QED
    BY <2>2, <2>3
<1> QED
  BY <1>1, <1>2 DEF Stacked, DispatchInv, Put

\* ... and nothing yields or is bound anew.
LEMMA Advance ==
  ASSUME DispatchInv, NEW c \in Coroutines, running = c, NEW ph \in Pcs \ {"sent", "postResponse"}, NEW q,
         Goto(c, ph), Put(c, q),
         StateType(q, Level(c)), Phase(q, ph), Admission(q, ph, Level(c)),
         UNCHANGED <<running, bound, waiting, saved>>
  PROVE  DispatchInv'
<1>1. /\ Stacked'
      /\ \A d \in Coroutines : /\ Level(d)' = Level(d)
                               /\ \A l \in 1 .. Level(d) :
                                    frame'[d][l].pc = (IF d = c /\ l = Level(c) THEN ph ELSE frame[d][l].pc)
  BY Running, AdvanceStack
<1>2. Bound'
  BY <1>1 DEF DispatchInv, Bound
<1>3. Waiting'
  BY <1>1, Levels, Running DEF DispatchInv, Waiting
<1> QED
  BY <1>1, <1>2, <1>3 DEF DispatchInv

\* The request a coroutine is at, as the phase it is in leaves it.
Right(c, q, ph) == StateType(q, Level(c)) /\ Phase(q, ph) /\ Admission(q, ph, Level(c))

\* A phase finds the request that is bound as its predecessor has left it.
LEMMA Here ==
  ASSUME DispatchInv, NEW c \in Coroutines, NEW ph, At(c, ph)
  PROVE  /\ running = c /\ Right(c, Me, ph)
         /\ Level(c) \in Nat \ {0} /\ Me.depth = Level(c) - 1
BY Running DEF At, StateRight, StateType, Right

\* A phase that leaves the request right for the next one keeps the invariant.
LEMMA Moves ==
  ASSUME DispatchInv, NEW c \in Coroutines, running = c, NEW ph \in Pcs \ {"sent", "postResponse"},
         Goto(c, ph), UNCHANGED <<running, bound, waiting, saved>>,
         NEW q, Becomes(q) \/ (q = Me /\ UNCHANGED request), Right(c, q, ph)
  PROVE  DispatchInv'
<1>1. Put(c, q)
  BY PutBecomes, PutSame
<1> QED
  BY <1>1, Advance DEF Right

\* The route: what is wrong already goes past it, to the response.
LEMMA FindRouteStep ==
  ASSUME DispatchInv, NEW c \in Coroutines, FindRoute(c)
  PROVE  DispatchInv'
<1>1. /\ running = c /\ Right(c, Me, "dispatch")
      /\ Level(c) \in Nat \ {0} /\ Me.depth = Level(c) - 1
  BY Here DEF FindRoute
<1>2. CASE Me.early # "no"
  <2>1. Right(c, Me, "respond")
    BY <1>1, <1>2 DEF Right, StateType, Fields, Phase, Untouched, Clean, Refused, BeforeRoutine, Admission, Statuses
  <2> QED
    BY <1>1, <1>2, <2>1, Moves DEF FindRoute, Pcs
<1>3. CASE Me.early = "no" /\ UNCHANGED request /\ Goto(c, "admit")
  <2>1. Right(c, Me, "admit")
    BY <1>1, <1>3 DEF Right, StateType, Fields, Phase, Untouched, Clean, Refused, BeforeRoutine, Admission, Statuses
  <2> QED
    BY <1>1, <1>3, <2>1, Moves DEF FindRoute, Pcs, Waits
<1>4. ASSUME Me.early = "no", NEW ix, NEW left, NEW wildcard, Goto(c, "admit"),
             Becomes([Me EXCEPT !.ix = ix, !.buf = left, !.wildcard = wildcard])
      PROVE  DispatchInv'
  <2> DEFINE q == [Me EXCEPT !.ix = ix, !.buf = left, !.wildcard = wildcard]
  <2>1. Right(c, q, "admit")
    BY <1>1, <1>4 DEF Right, StateType, Fields, Phase, Untouched, Clean, Refused, BeforeRoutine, Admission, Statuses
  <2> HIDE DEF q
  <2> QED
    BY <1>1, <1>4, <2>1, Moves DEF FindRoute, Pcs, Waits, q
<1>5. CASE Me.early = "no" /\ Becomes(Problem(Me, 400)) /\ Goto(c, "respond")
  <2>1. Right(c, Problem(Me, 400), "respond")
    BY <1>1, <1>5 DEF Right, StateType, Fields, Phase, Untouched, Clean, Refused, BeforeRoutine, Admission, Statuses, Problem
  <2> QED
    BY <1>1, <1>5, <2>1, Moves DEF FindRoute, Pcs
<1> QED
  BY <1>2, <1>3, <1>4, <1>5 DEF FindRoute

\* Admission: only a request that came in is asked about.
LEMMA AdmitStep ==
  ASSUME DispatchInv, NEW c \in Coroutines, Admit(c)
  PROVE  DispatchInv'
<1>1. /\ running = c /\ Right(c, Me, "admit")
      /\ Level(c) \in Nat \ {0} /\ Me.depth = Level(c) - 1
  BY Here DEF Admit
<1>2. ASSUME Becomes([Me EXCEPT !.admitted = (Me.depth = 0)]), Goto(c, "media")
      PROVE  DispatchInv'
  <2> DEFINE q == [Me EXCEPT !.admitted = (Me.depth = 0)]
  <2>1. Right(c, q, "media")
    <3>1. CASE Me.depth = 0
      <4>1. q = [Me EXCEPT !.admitted = TRUE]
        BY <3>1
      <4> HIDE DEF q
      <4> QED
        BY <1>1, <4>1 DEF Right, StateType, Fields, Phase, Untouched, Clean, Refused, BeforeRoutine, Admission, Statuses
    <3>2. CASE Me.depth # 0
      <4>1. q = [Me EXCEPT !.admitted = FALSE]
        BY <3>2
      <4> HIDE DEF q
      <4> QED
        BY <1>1, <3>2, <4>1 DEF Right, StateType, Fields, Phase, Untouched, Clean, Refused, BeforeRoutine, Admission, Statuses
    <3> QED
      BY <3>1, <3>2
  <2> HIDE DEF q
  <2> QED
    BY <1>1, <1>2, <2>1, Moves DEF Admit, Pcs, Waits, q
<1>3. ASSUME Becomes(Problem(Me, 401)), Goto(c, "respond")
      PROVE  DispatchInv'
  <2> DEFINE q == Problem(Me, 401)
  <2>1. Right(c, q, "respond")
    BY <1>1, <1>3 DEF Right, StateType, Fields, Phase, Untouched, Clean, Refused, BeforeRoutine, Admission, Statuses, Problem
  <2> HIDE DEF q
  <2> QED
    BY <1>1, <1>3, <2>1, Moves DEF Admit, Pcs, Waits, q
<1> QED
  BY <1>1, <1>2, <1>3 DEF Admit

\* The type of the body.
LEMMA CheckMediaStep ==
  ASSUME DispatchInv, NEW c \in Coroutines, CheckMedia(c)
  PROVE  DispatchInv'
<1>1. /\ running = c /\ Right(c, Me, "media")
      /\ Level(c) \in Nat \ {0} /\ Me.depth = Level(c) - 1
  BY Here DEF CheckMedia
<1>2. ASSUME UNCHANGED request, Goto(c, "find")
      PROVE  DispatchInv'
  <2>1. Right(c, Me, "find")
    BY <1>1, <1>2 DEF Right, StateType, Fields, Phase, Untouched, Clean, Refused, BeforeRoutine, Admission, Statuses
  <2> QED
    BY <1>1, <1>2, <2>1, Moves DEF CheckMedia, Pcs, Waits
<1>3. ASSUME Becomes([Me EXCEPT !.status = 415]), Goto(c, "respond")
      PROVE  DispatchInv'
  <2> DEFINE q == [Me EXCEPT !.status = 415]
  <2>1. Right(c, q, "respond")
    BY <1>1, <1>3 DEF Right, StateType, Fields, Phase, Untouched, Clean, Refused, BeforeRoutine, Admission, Statuses
  <2> HIDE DEF q
  <2> QED
    BY <1>1, <1>3, <2>1, Moves DEF CheckMedia, Pcs, Waits, q
<1>4. ASSUME NEW keyF \in BOOLEAN, Becomes([Me EXCEPT !.keyF = keyF]), Goto(c, "parse")
      PROVE  DispatchInv'
  <2> DEFINE q == [Me EXCEPT !.keyF = keyF]
  <2>1. Right(c, q, "parse")
    BY <1>1, <1>4 DEF Right, StateType, Fields, Phase, Untouched, Clean, Refused, BeforeRoutine, Admission, Statuses
  <2> HIDE DEF q
  <2> QED
    BY <1>1, <1>4, <2>1, Moves DEF CheckMedia, Pcs, Waits, q
<1> QED
  BY <1>1, <1>2, <1>3, <1>4 DEF CheckMedia

\* The body: the key hook goes with it.
LEMMA ParseBodyStep ==
  ASSUME DispatchInv, NEW c \in Coroutines, ParseBody(c)
  PROVE  DispatchInv'
<1>1. /\ running = c /\ Right(c, Me, "parse")
      /\ Level(c) \in Nat \ {0} /\ Me.depth = Level(c) - 1
  BY Here DEF ParseBody
<1>2. ASSUME Becomes([Me EXCEPT !.keyF = FALSE]), Goto(c, "find")
      PROVE  DispatchInv'
  <2> DEFINE q == [Me EXCEPT !.keyF = FALSE]
  <2>1. Right(c, q, "find")
    BY <1>1, <1>2 DEF Right, StateType, Fields, Phase, Untouched, Clean, Refused, BeforeRoutine, Admission, Statuses
  <2> HIDE DEF q
  <2> QED
    BY <1>1, <1>2, <2>1, Moves DEF ParseBody, Pcs, Waits, q
<1>3. ASSUME Becomes([[Me EXCEPT !.keyF = FALSE] EXCEPT !.tree = TRUE]), Goto(c, "find")
      PROVE  DispatchInv'
  <2> DEFINE q == [[Me EXCEPT !.keyF = FALSE] EXCEPT !.tree = TRUE]
  <2>1. Right(c, q, "find")
    BY <1>1, <1>3 DEF Right, StateType, Fields, Phase, Untouched, Clean, Refused, BeforeRoutine, Admission, Statuses
  <2> HIDE DEF q
  <2> QED
    BY <1>1, <1>3, <2>1, Moves DEF ParseBody, Pcs, Waits, q
<1>4. ASSUME Becomes(Problem([[Me EXCEPT !.keyF = FALSE] EXCEPT !.tree = TRUE], 400)), Goto(c, "find")
      PROVE  DispatchInv'
  <2> DEFINE q == Problem([[Me EXCEPT !.keyF = FALSE] EXCEPT !.tree = TRUE], 400)
  <2>1. Right(c, q, "find")
    BY <1>1, <1>4 DEF Right, StateType, Fields, Phase, Untouched, Clean, Refused, BeforeRoutine, Admission, Statuses, Problem
  <2> HIDE DEF q
  <2> QED
    BY <1>1, <1>4, <2>1, Moves DEF ParseBody, Pcs, Waits, q
<1> QED
  BY <1>1, <1>2, <1>3, <1>4 DEF ParseBody

\* No service: the problem says which of 400, 404 and 405.
LEMMA NoServiceStep ==
  ASSUME DispatchInv, NEW c \in Coroutines, NoService(c)
  PROVE  DispatchInv'
<1>1. /\ running = c /\ Right(c, Me, "find")
      /\ Level(c) \in Nat \ {0} /\ Me.depth = Level(c) - 1
  BY Here DEF NoService
<1>2. ASSUME Becomes(Problem(Me, 400)), Goto(c, "respond")
      PROVE  DispatchInv'
  <2> DEFINE q == Problem(Me, 400)
  <2>1. Right(c, q, "respond")
    BY <1>1, <1>2 DEF Right, StateType, Fields, Phase, Untouched, Clean, Refused, BeforeRoutine, Admission, Statuses, Problem
  <2> HIDE DEF q
  <2> QED
    BY <1>1, <1>2, <2>1, Moves DEF NoService, Pcs, Waits, q
<1>3. ASSUME NEW path, Becomes([Problem(Me, 405) EXCEPT !.allow = Allowed(Me.verb, path)]), Goto(c, "respond")
      PROVE  DispatchInv'
  <2> DEFINE q == [Problem(Me, 405) EXCEPT !.allow = Allowed(Me.verb, path)]
  <2>1. Right(c, q, "respond")
    BY <1>1, <1>3 DEF Right, StateType, Fields, Phase, Untouched, Clean, Refused, BeforeRoutine, Admission, Statuses, Problem, Allowed
  <2> HIDE DEF q
  <2> QED
    BY <1>1, <1>3, <2>1, Moves DEF NoService, Pcs, Waits, q
<1>4. ASSUME Becomes(Problem(Me, 404)), Goto(c, "respond")
      PROVE  DispatchInv'
  <2> DEFINE q == Problem(Me, 404)
  <2>1. Right(c, q, "respond")
    BY <1>1, <1>4 DEF Right, StateType, Fields, Phase, Untouched, Clean, Refused, BeforeRoutine, Admission, Statuses, Problem
  <2> HIDE DEF q
  <2> QED
    BY <1>1, <1>4, <2>1, Moves DEF NoService, Pcs, Waits, q
<1> QED
  BY <1>1, <1>2, <1>3, <1>4 DEF NoService

\* The parameters: one that is not taken is a problem, as is one the hook does not like.
LEMMA CheckParamsStep ==
  ASSUME DispatchInv, NEW c \in Coroutines, CheckParams(c)
  PROVE  DispatchInv'
<1>1. /\ running = c /\ Right(c, Me, "find")
      /\ Level(c) \in Nat \ {0} /\ Me.depth = Level(c) - 1
  BY Here DEF CheckParams
<1>2. ASSUME Becomes([Me EXCEPT !.params = WithoutPretty(@)]), Goto(c, "check")
      PROVE  DispatchInv'
  <2> DEFINE q == [Me EXCEPT !.params = WithoutPretty(@)]
  <2>1. Right(c, q, "check")
    BY <1>1, <1>2 DEF Right, StateType, Fields, Phase, Untouched, Clean, Refused, BeforeRoutine, Admission, Statuses
  <2> HIDE DEF q
  <2> QED
    BY <1>1, <1>2, <2>1, Moves DEF CheckParams, Pcs, Waits, q
<1>3. ASSUME Becomes([Problem([Me EXCEPT !.params = WithoutPretty(@)], 400) EXCEPT !.unknown = TRUE]), Goto(c, "respond")
      PROVE  DispatchInv'
  <2> DEFINE q == [Problem([Me EXCEPT !.params = WithoutPretty(@)], 400) EXCEPT !.unknown = TRUE]
  <2>1. Right(c, q, "respond")
    BY <1>1, <1>3 DEF Right, StateType, Fields, Phase, Untouched, Clean, Refused, BeforeRoutine, Admission, Statuses, Problem
  <2> HIDE DEF q
  <2> QED
    BY <1>1, <1>3, <2>1, Moves DEF CheckParams, Pcs, Waits, q
<1>4. ASSUME Becomes(Problem([Me EXCEPT !.params = WithoutPretty(@)], 400)), Goto(c, "check")
      PROVE  DispatchInv'
  <2> DEFINE q == Problem([Me EXCEPT !.params = WithoutPretty(@)], 400)
  <2>1. Right(c, q, "check")
    BY <1>1, <1>4 DEF Right, StateType, Fields, Phase, Untouched, Clean, Refused, BeforeRoutine, Admission, Statuses, Problem
  <2> HIDE DEF q
  <2> QED
    BY <1>1, <1>4, <2>1, Moves DEF CheckParams, Pcs, Waits, q
<1> QED
  BY <1>1, <1>2, <1>3, <1>4 DEF CheckParams

\* The last checks: a routine is reached without a problem only.
LEMMA CheckServiceStep ==
  ASSUME DispatchInv, NEW c \in Coroutines, CheckService(c)
  PROVE  DispatchInv'
<1>1. /\ running = c /\ Right(c, Me, "check")
      /\ Level(c) \in Nat \ {0} /\ Me.depth = Level(c) - 1
  BY Here DEF CheckService
<1>2. ASSUME NEW status \in {400, 403}, Becomes(Problem(Me, status)), Goto(c, "respond")
      PROVE  DispatchInv'
  <2> DEFINE q == Problem(Me, status)
  <2>1. Right(c, q, "respond")
    BY <1>1, <1>2 DEF Right, StateType, Fields, Phase, Untouched, Clean, Refused, BeforeRoutine, Admission, Statuses, Problem
  <2> HIDE DEF q
  <2> QED
    BY <1>1, <1>2, <2>1, Moves DEF CheckService, Pcs, Waits, q
<1>3. ASSUME Me.problem, UNCHANGED request, Goto(c, "respond")
      PROVE  DispatchInv'
  <2>1. Right(c, Me, "respond")
    BY <1>1, <1>3 DEF Right, StateType, Fields, Phase, Untouched, Clean, Refused, BeforeRoutine, Admission, Statuses
  <2> QED
    BY <1>1, <1>3, <2>1, Moves DEF CheckService, Pcs, Waits
<1>4. ASSUME ~Me.problem, UNCHANGED request, Goto(c, "routine")
      PROVE  DispatchInv'
  <2>1. Right(c, Me, "routine")
    BY <1>1, <1>4 DEF Right, StateType, Fields, Phase, Untouched, Clean, Refused, BeforeRoutine, Admission, Statuses
  <2> QED
    BY <1>1, <1>4, <2>1, Moves DEF CheckService, Pcs, Waits
<1> QED
  BY <1>1, <1>2, <1>3, <1>4 DEF CheckService

\* The rendering: a problem has a status of its own, or 500.
LEMMA RenderStep ==
  ASSUME DispatchInv, NEW c \in Coroutines, Render(c)
  PROVE  DispatchInv'
<1>1. /\ running = c /\ Right(c, Me, "render")
      /\ Level(c) \in Nat \ {0} /\ Me.depth = Level(c) - 1
  BY Here DEF Render
<1>2. PICK r : /\ r \in {Me, [Problem(Me, 406) EXCEPT !.answer = @ \ {"tree"}]}
               /\ Becomes(IF r.problem /\ r.status = 200 THEN [r EXCEPT !.status = 500] ELSE r)
  BY DEF Render
<1>3. Right(c, r, "render")
  <2>1. CASE r = [Problem(Me, 406) EXCEPT !.answer = @ \ {"tree"}]
    <3>0. {"status", "problem", "answer"} \subseteq DOMAIN Me
      BY <1>1 DEF Right, StateType, Fields
    <3>1. /\ r.status = 406 /\ r.problem = TRUE /\ r.answer = Me.answer \ {"tree"}
          /\ DOMAIN r = DOMAIN Me
          /\ \A x \in DOMAIN Me \ {"status", "problem", "answer"} : r[x] = Me[x]
      <4> DEFINE p == Problem(Me, 406)
      <4>1. /\ p.status = 406 /\ p.problem = TRUE /\ DOMAIN p = DOMAIN Me
            /\ \A x \in DOMAIN Me \ {"status", "problem"} : p[x] = Me[x]
        BY <3>0 DEF Problem
      <4>2. r = [p EXCEPT !.answer = @ \ {"tree"}]
        BY <2>1
      <4> HIDE DEF p
      <4>3. p.answer = Me.answer
        BY <3>0, <4>1
      <4> QED
        BY <3>0, <4>1, <4>2, <4>3
    <3>2. /\ r.depth = Me.depth /\ r.allow = Me.allow /\ r.admitted = Me.admitted /\ r.keyF = Me.keyF
          /\ r.late = Me.late /\ r.ran = Me.ran /\ r.early = Me.early /\ r.body = Me.body
      BY <1>1, <3>1 DEF Right, StateType, Fields
    <3>3. StateType(r, Level(c))
      <4>1. r.status \in Statuses /\ Fields \subseteq DOMAIN r
        BY <1>1, <3>1 DEF Right, StateType, Statuses
      <4>2. r.problem \in BOOLEAN
        BY <3>1
      <4> QED
        BY <1>1, <3>2, <4>1, <4>2 DEF Right, StateType
    <3>4. Admission(r, "render", Level(c))
      BY <1>1, <3>2 DEF Right, Admission
    <3>5. Phase(r, "render")
      BY <1>1, <3>1, <3>2 DEF Right, Phase, Refused, BeforeRoutine
    <3> QED
      BY <3>3, <3>4, <3>5 DEF Right
  <2> QED
    BY <1>1, <1>2, <2>1
<1>4. CASE r.problem /\ r.status = 200
  <2> DEFINE q == [r EXCEPT !.status = 500]
  <2>1. Right(c, q, "respond")
    <3>1. StateType(q, Level(c))
      BY <1>1, <1>3 DEF Right, StateType, Fields, Statuses
    <3>2. Admission(q, "respond", Level(c))
      BY <1>1, <1>3 DEF Right, StateType, Fields, Admission
    <3>3. Phase(q, "respond")
      BY <1>1, <1>3, <1>4 DEF Right, StateType, Fields, Phase, Refused, BeforeRoutine
    <3> QED
      BY <3>1, <3>2, <3>3 DEF Right
  <2>2. Becomes(q)
    BY <1>2, <1>4
  <2> HIDE DEF q
  <2> QED
    BY <1>1, <2>1, <2>2, Moves DEF Render, Pcs
<1>5. CASE ~(r.problem /\ r.status = 200)
  <2>1. Right(c, r, "respond")
    BY <1>1, <1>3, <1>5 DEF Right, StateType, Fields, Phase, Untouched, Clean, Refused, BeforeRoutine, Admission, Statuses
  <2>2. Becomes(r)
    BY <1>2, <1>5
  <2> QED
    BY <1>1, <2>1, <2>2, Moves DEF Render, Pcs
<1> QED
  BY <1>4, <1>5

\* The body of the answer.
LEMMA RespondStep ==
  ASSUME DispatchInv, NEW c \in Coroutines, Respond(c)
  PROVE  DispatchInv'
<1>1. /\ running = c /\ Right(c, Me, "respond")
      /\ Level(c) \in Nat \ {0} /\ Me.depth = Level(c) - 1
  BY Here DEF Respond
<1> DEFINE given == IF Me.problem /\ "tree" \notin Me.answer THEN "problem"
                    ELSE IF Me.answer \cap {"tree", "payload"} # {} THEN "answer"
                    ELSE "none"
<1>2. /\ given = "answer" => Me.answer # {} /\ ~(Me.problem /\ "tree" \notin Me.answer)
  OBVIOUS
<1>3. Becomes([Me EXCEPT !.body = given]) \/ Becomes([Me EXCEPT !.status = 500])
  BY DEF Respond
<1>4. Goto(c, "answered") /\ UNCHANGED <<running, bound, waiting, saved>>
  BY DEF Respond
<1> HIDE DEF given
<1>5. CASE Becomes([Me EXCEPT !.body = given])
  <2> DEFINE q == [Me EXCEPT !.body = given]
  <2>1. Right(c, q, "answered")
    BY <1>1, <1>2 DEF Right, StateType, Fields, Phase, Untouched, Clean, Refused, BeforeRoutine, Admission, Statuses
  <2> HIDE DEF q
  <2> QED
    BY <1>1, <1>4, <1>5, <2>1, Moves DEF Pcs, q
<1>6. CASE Becomes([Me EXCEPT !.status = 500])
  <2> DEFINE q == [Me EXCEPT !.status = 500]
  <2>1. Right(c, q, "answered")
    BY <1>1 DEF Right, StateType, Fields, Phase, Untouched, Clean, Refused, BeforeRoutine, Admission, Statuses
  <2> HIDE DEF q
  <2> QED
    BY <1>1, <1>4, <1>6, <2>1, Moves DEF Pcs, q
<1> QED
  BY <1>3, <1>5, <1>6

\* What a routine may leave behind, before the pipeline looks at it.
Left(c, q) ==
  /\ StateType(q, Level(c))
  /\ ~q.late /\ ~q.keyF /\ q.body = "none"
  /\ q.problem => q.status = 200 \/ Refused(q)
  /\ Level(c) = 1 => q.admitted

\* An answer, a problem, or a problem without a status.
LEMMA RoutineLeaves ==
  ASSUME DispatchInv, NEW c \in Coroutines, At(c, "routine"),
         NEW q, q \in IF Service(Me).routine = "optionsHandler" THEN {OptionsAnswer(Me)} ELSE Outcomes(Me)
  PROVE  Left(c, q)
<1>1. Right(c, Me, "routine")
  BY Here
<1>2. Left(c, Me)
  BY <1>1 DEF Right, Left, Phase, Admission, Clean, Untouched, BeforeRoutine, StateType
<1>3. CASE q = OptionsAnswer(Me)
  <2> DEFINE verbs == {v \in DOMAIN Routes : \E i \in DOMAIN Routes[v] : Routes[v][i].url = Service(Me).url}
  <2>1. q = [Me EXCEPT !.status = 204, !.allow = verbs, !.answer = {"header"}]
    BY <1>3 DEF OptionsAnswer
  <2>2. verbs \subseteq DOMAIN Routes
    OBVIOUS
  <2> HIDE DEF verbs
  <2>3. StateType(q, Level(c))
    BY <1>2, <2>1, <2>2 DEF Left, StateType, Fields, Statuses
  <2> QED
    BY <1>1, <1>2, <2>1, <2>3 DEF Left, StateType, Fields, Right, Phase, Clean
<1>4. ASSUME NEW left, q = [Me EXCEPT !.answer = left]
      PROVE  Left(c, q)
  <2>1. StateType(q, Level(c))
    BY <1>2, <1>4 DEF Left, StateType, Fields
  <2> QED
    BY <1>2, <1>4, <2>1 DEF Left, StateType, Fields, Refused
<1>5. CASE q = Problem(Me, 404)
  <2>1. StateType(q, Level(c))
    BY <1>2, <1>5 DEF Left, StateType, Fields, Statuses, Problem
  <2> QED
    BY <1>2, <1>5, <2>1 DEF Left, StateType, Fields, Refused, Problem
<1>6. CASE q = [Me EXCEPT !.problem = TRUE]
  <2>1. StateType(q, Level(c))
    BY <1>2, <1>6 DEF Left, StateType, Fields
  <2>2. q.status = 200
    BY <1>1, <1>6 DEF Right, StateType, Fields, Phase, Clean
  <2> QED
    BY <1>2, <1>6, <2>1, <2>2 DEF Left, StateType, Fields
<1> QED
  BY <1>3, <1>4, <1>5, <1>6 DEF Outcomes

\* The routine has run: what it answered, or the late problem in its place.
LEMMA RunRoutineStep ==
  ASSUME DispatchInv, NEW c \in Coroutines, RunRoutine(c)
  PROVE  DispatchInv'
<1>1. /\ At(c, "routine") /\ running = c
      /\ Goto(c, "render") /\ UNCHANGED <<running, bound, waiting, saved>>
  BY DEF RunRoutine, At
<1>late. PICK late \in BOOLEAN :
        \E q \in IF Service(Me).routine = "optionsHandler" THEN {OptionsAnswer(Me)} ELSE Outcomes(Me) :
          Becomes(LateApplied([q EXCEPT !.ran = TRUE, !.late = late]))
  BY DEF RunRoutine
<1>2. PICK q :
        /\ q \in IF Service(Me).routine = "optionsHandler" THEN {OptionsAnswer(Me)} ELSE Outcomes(Me)
        /\ Becomes(LateApplied([q EXCEPT !.ran = TRUE, !.late = late]))
  BY <1>late
<1>3. Left(c, q)
  BY <1>1, <1>2, RoutineLeaves
<1> DEFINE r == [q EXCEPT !.ran = TRUE, !.late = late]
<1>4. /\ DOMAIN r = DOMAIN q /\ r.ran = TRUE /\ r.late = late
      /\ r.depth = q.depth /\ r.allow = q.allow /\ r.admitted = q.admitted /\ r.keyF = q.keyF
      /\ r.status = q.status /\ r.problem = q.problem /\ r.early = q.early /\ r.body = q.body
  BY <1>3 DEF Left, StateType, Fields
<1>5. r.ran \in BOOLEAN
  BY <1>4
<1>6. StateType(r, Level(c))
  BY <1>3, <1>4, <1>5 DEF Left, StateType
<1>7. CASE ~late
  <2>1. LateApplied(r) = r
    BY <1>4, <1>7 DEF LateApplied
  <2>2. Phase(r, "render")
    BY <1>3, <1>4, <1>7 DEF Left, Phase, BeforeRoutine, Refused
  <2>3. Admission(r, "render", Level(c))
    BY <1>3, <1>4 DEF Left, Admission
  <2>4. Becomes(r)
    BY <1>2, <2>1
  <2> HIDE DEF r
  <2> QED
    BY <1>1, <1>6, <2>2, <2>3, <2>4, Moves DEF Pcs, Waits, Right
<1>8. CASE late
  <2> DEFINE p == [Problem(r, 503) EXCEPT !.answer = {}, !.allow = {}]
  <2>1. LateApplied(r) = p
    BY <1>4, <1>8 DEF LateApplied
  <2> HIDE DEF r
  <2>2. /\ DOMAIN p = DOMAIN r /\ p.status = 503 /\ p.problem = TRUE /\ p.answer = {} /\ p.allow = {}
        /\ p.depth = r.depth /\ p.admitted = r.admitted /\ p.keyF = r.keyF
        /\ p.late = r.late /\ p.ran = r.ran /\ p.early = r.early /\ p.body = r.body
    BY <1>6 DEF Problem, StateType, Fields
  <2>3. p.problem \in BOOLEAN
    BY <2>2
  <2>4. StateType(p, Level(c))
    BY <1>6, <2>2, <2>3 DEF StateType, Statuses
  <2>5. Phase(p, "render")
    BY <1>3, <1>4, <2>2 DEF Left, Phase, BeforeRoutine, Refused
  <2>6. Admission(p, "render", Level(c))
    BY <1>3, <1>4, <2>2 DEF Left, Admission
  <2>7. Becomes(p)
    BY <1>2, <2>1 DEF r
  <2> HIDE DEF p
  <2> QED
    BY <1>1, <2>4, <2>5, <2>6, <2>7, Moves DEF Pcs, Waits, Right
<1> QED
  BY <1>7, <1>8

\* The calls and the states of no coroutine but c change.
LEMMA OneStack ==
  ASSUME DispatchInv, NEW c \in Coroutines,
         frame' \in [Coroutines -> Seq(Calls)], DOMAIN request' = Coroutines,
         \A d \in Coroutines \ {c} : frame'[d] = frame[d] /\ request'[d] = request[d],
         IsSeq(request'[c]), Len(request'[c]) = Level(c)', Level(c)' <= MaxDepth + 1,
         \A l \in 1 .. Level(c)' : CallRight(c, l)' /\ StateRight(c, l)'
  PROVE  Stacked' /\ \A d \in Coroutines \ {c} : Level(d)' = Level(d)
<1>1. \A d \in Coroutines \ {c} : Level(d)' = Level(d)
  BY DEF Level
<1>2. ASSUME NEW d \in Coroutines \ {c}, NEW l \in 1 .. Level(d)' PROVE CallRight(d, l)' /\ StateRight(d, l)'
  <2>1. CallRight(d, l) /\ StateRight(d, l)
    BY <1>1 DEF DispatchInv, Stacked
  <2> QED
    BY <1>1, <2>1 DEF CallRight, StateRight
<1> QED
  BY <1>1, <1>2 DEF DispatchInv, Stacked

\* The response is on its way, the loop free.
LEMMA HandOverStep ==
  ASSUME DispatchInv, NEW c \in Coroutines, HandOver(c)
  PROVE  DispatchInv'
<1>1. /\ running = c /\ Right(c, Me, "answered")
      /\ Level(c) = 1
  BY Here DEF HandOver
<1>2. Right(c, Me, "sent")
  BY <1>1 DEF Right, Phase, Admission, BeforeRoutine
<1>3. /\ Stacked'
      /\ \A d \in Coroutines : /\ Level(d)' = Level(d)
                               /\ \A l \in 1 .. Level(d) :
                                    frame'[d][l].pc = (IF d = c /\ l = Level(c) THEN "sent" ELSE frame[d][l].pc)
  BY <1>1, <1>2, PutSame, AdvanceStack DEF HandOver, Right, Pcs
<1>4. Bound'
  BY <1>1, <1>3 DEF HandOver, DispatchInv, Bound
<1>5. Waiting'
  BY <1>1, <1>3, Running, Levels DEF HandOver, DispatchInv, Waiting
<1> QED
  BY <1>3, <1>4, <1>5 DEF DispatchInv

\* The response is written: the coroutine is bound to its request again.
LEMMA DoneStep ==
  ASSUME DispatchInv, NEW c \in Coroutines, Done(c)
  PROVE  DispatchInv'
<1>1. Level(c) \in Nat \ {0} /\ frame[c][1].pc = "sent"
  BY Levels DEF Done
<1>2. Level(c) = 1
  <2>1. CallRight(c, 1)
    BY <1>1 DEF DispatchInv, Stacked
  <2> QED
    BY <1>1, <2>1 DEF CallRight
<1> DEFINE q == request[c][1]
<1>3. StateType(q, 1) /\ Phase(q, "postResponse") /\ Admission(q, "postResponse", 1)
  <2>1. StateRight(c, 1)
    BY <1>2 DEF DispatchInv, Stacked
  <2> QED
    BY <1>1, <2>1 DEF StateRight, Phase, Admission, BeforeRoutine
<1>4. Put(c, q)
  BY <1>2, Levels DEF Put, DispatchInv, Stacked, Done
<1> HIDE DEF q
<1>5. /\ Stacked'
      /\ \A d \in Coroutines : /\ Level(d)' = Level(d)
                               /\ \A l \in 1 .. Level(d) :
                                    frame'[d][l].pc = (IF d = c /\ l = Level(c) THEN "postResponse" ELSE frame[d][l].pc)
  BY <1>2, <1>3, <1>4, AdvanceStack DEF Done, Pcs, Waits
<1>6. c \notin waiting
  BY <1>1, <1>2 DEF DispatchInv, Waiting
<1>7. Bound'
  BY <1>2, <1>5, <1>6 DEF Done, Bound
<1>8. Waiting'
  BY <1>5, <1>6, Levels DEF Done, DispatchInv, Waiting
<1> QED
  BY <1>5, <1>7, <1>8 DEF DispatchInv

\* The state goes, and the binding with it.
LEMMA FinishStep ==
  ASSUME DispatchInv, NEW c \in Coroutines, Finish(c)
  PROVE  DispatchInv'
<1>1. running = c /\ bound[1] = c /\ bound[2] = Level(c) /\ c \notin waiting
  BY Running DEF Finish, At
<1>2. Level(c) = 1
  BY Running DEF Finish, At, CallRight
<1> DEFINE t == SubSeq(request[c], 1, 0)
<1>3. IsSeq(t) /\ Len(t) = 0
  BY <1>2, Levels, SeqCut DEF DispatchInv, Stacked
<1>4. /\ frame' = [frame EXCEPT ![c] = <<>>]
      /\ request' = [request EXCEPT ![c] = t]
  BY <1>1, <1>2 DEF Finish
<1> HIDE DEF t
<1>5. frame' \in [Coroutines -> Seq(Calls)] /\ Level(c)' = 0
  BY <1>4, EmptySeq DEF DispatchInv, Stacked, Level
<1>6. Stacked' /\ \A d \in Coroutines \ {c} : Level(d)' = Level(d)
  <2>1. DOMAIN request' = Coroutines /\ request'[c] = t
    BY <1>4 DEF DispatchInv, Stacked
  <2>2. \A d \in Coroutines \ {c} : frame'[d] = frame[d] /\ request'[d] = request[d]
    BY <1>4 DEF DispatchInv, Stacked
  <2>3. 0 <= MaxDepth + 1 /\ 1 .. 0 = {}
    BY DispatchAssumption
  <2> QED
    BY <1>3, <1>5, <2>1, <2>2, <2>3, OneStack
<1>7. Bound'
  BY DEF Finish, Bound
<1>8. Waiting'
  <2>1. \A d \in waiting : d \in Coroutines \ {c} /\ frame'[d] = frame[d]
    BY <1>1, <1>4 DEF DispatchInv, Waiting, Stacked
  <2> QED
    BY <1>6, <2>1 DEF Finish, DispatchInv, Waiting
<1> QED
  BY <1>6, <1>7, <1>8 DEF DispatchInv

\* The innermost request is over: the state and the call below it are bound again.
LEMMA ReturnStep ==
  ASSUME DispatchInv, NEW c \in Coroutines, Return(c)
  PROVE  DispatchInv'
<1>1. running = c /\ bound[1] = c /\ bound[2] = Level(c) /\ c \notin waiting
      /\ Last(frame[c]) = frame[c][Level(c)]
  BY Running DEF Return, At
<1> DEFINE n == Level(c) - 1
<1>2. n \in Nat \ {0} /\ Level(c) \in Nat /\ Level(c) = Len(frame[c])
  BY <1>1, Running DEF Return, Level
<1> DEFINE t == SubSeq(request[c], 1, n)
           f == SubSeq(frame[c], 1, n)
<1>3. IsSeq(t) /\ Len(t) = n /\ \A l \in 1 .. n : t[l] = request[c][l]
  BY <1>2, Levels, SeqCut DEF DispatchInv, Stacked
<1>4. f \in Seq(Calls) /\ Len(f) = n /\ \A l \in 1 .. n : f[l] = frame[c][l]
  <2>1. \A l \in 1 .. n : frame[c][l] \in Calls
    BY <1>2, Levels
  <2> QED
    BY <1>2, <2>1, SubSeqProperties
<1>5. /\ frame' = [frame EXCEPT ![c] = f]
      /\ request' = [request EXCEPT ![c] = t]
  BY <1>1, <1>2 DEF Return, Front
<1> HIDE DEF t, f
<1>6. frame' \in [Coroutines -> Seq(Calls)] /\ Level(c)' = n
  BY <1>4, <1>5 DEF DispatchInv, Stacked, Level
<1>7. ASSUME NEW l \in 1 .. n PROVE CallRight(c, l)' /\ StateRight(c, l)'
  <2>1. CallRight(c, l) /\ StateRight(c, l) /\ l < Level(c)
    BY <1>2 DEF DispatchInv, Stacked
  <2>2. frame'[c][l] = frame[c][l] /\ request'[c][l] = request[c][l]
    BY <1>3, <1>4, <1>5 DEF DispatchInv, Stacked
  <2> QED
    BY <1>2, <1>6, <2>1, <2>2 DEF CallRight, StateRight
<1>8. Stacked' /\ \A d \in Coroutines \ {c} : Level(d)' = Level(d)
  <2>1. DOMAIN request' = Coroutines /\ request'[c] = t
    BY <1>5 DEF DispatchInv, Stacked
  <2>2. \A d \in Coroutines \ {c} : frame'[d] = frame[d] /\ request'[d] = request[d]
    BY <1>5 DEF DispatchInv, Stacked
  <2>3. n <= MaxDepth + 1
    BY <1>2, DispatchAssumption DEF DispatchInv, Stacked
  <2> QED
    BY <1>3, <1>6, <1>7, <2>1, <2>2, <2>3, OneStack
<1>9. bound' = <<c, n>>
  <2>1. CallRight(c, Level(c)) /\ Level(c) # 1
    BY <1>1, <1>2, Running
  <2>2. frame[c][Level(c)].outer = <<c, n>>
    BY <2>1 DEF CallRight
  <2> QED
    BY <1>1, <2>2 DEF Return
<1>10. Bound'
  <2>1. running' = c /\ waiting' = waiting /\ c \notin waiting /\ Level(c)' = n
    BY <1>1, <1>6 DEF Return
  <2>2. n \in Nat \ {0}
    BY <1>2
  <2> HIDE DEF n
  <2>3. n \in 1 .. n /\ n > 0
    BY <2>2
  <2>4. \E d \in Coroutines : \E l \in 1 .. Level(d)' : bound' = <<d, l>>
    BY <1>9, <2>1, <2>3
  <2> QED
    BY <1>9, <2>1, <2>3, <2>4 DEF Bound
<1>11. Waiting'
  <2>1. \A d \in waiting : d \in Coroutines \ {c} /\ frame'[d] = frame[d]
    BY <1>1, <1>5 DEF DispatchInv, Waiting, Stacked
  <2> QED
    BY <1>8, <2>1 DEF Return, DispatchInv, Waiting
<1> QED
  BY <1>8, <1>10, <1>11 DEF DispatchInv

\* A wait: what is bound is kept for the end of it.
LEMMA YieldStep ==
  ASSUME DispatchInv, NEW c \in Coroutines, Yield(c)
  PROVE  DispatchInv'
<1>1. /\ running = c /\ bound = <<c, Level(c)>> /\ c \notin waiting
      /\ Last(frame[c]) = frame[c][Level(c)] /\ Level(c) \in Nat \ {0}
      /\ frame[c][Level(c)].pc # "sent"
  BY Running DEF Yield, At, Waits
<1> DEFINE call == [frame[c][Level(c)] EXCEPT !.waited = TRUE]
           t == [frame[c] EXCEPT ![Level(c)] = call]
<1>2. frame' = [frame EXCEPT ![c] = t]
  BY DEF Yield
<1>3. frame[c] \in Seq(Calls) /\ Level(c) \in 1 .. Len(frame[c]) /\ frame[c][Level(c)] \in Calls
  BY <1>1, Levels DEF DispatchInv, Stacked, Level
<1>4. call \in Calls /\ call.pc = frame[c][Level(c)].pc /\ call.outer = frame[c][Level(c)].outer
  BY <1>3 DEF Calls
<1> HIDE DEF call
<1>5. t \in Seq(Calls) /\ Len(t) = Level(c)
      /\ \A l \in 1 .. Level(c) : t[l] = IF l = Level(c) THEN call ELSE frame[c][l]
  BY <1>3, <1>4, ExceptSeq DEF Level
<1> HIDE DEF t
<1>6. \A d \in Coroutines : frame'[d] = IF d = c THEN t ELSE frame[d]
  BY <1>2 DEF DispatchInv, Stacked
<1>7. frame' \in [Coroutines -> Seq(Calls)] /\ Level(c)' = Level(c)
      /\ \A l \in 1 .. Level(c) : frame'[c][l].pc = frame[c][l].pc /\ frame'[c][l].outer = frame[c][l].outer
  BY <1>2, <1>4, <1>5, <1>6 DEF DispatchInv, Stacked, Level
<1>8. Stacked' /\ \A d \in Coroutines \ {c} : Level(d)' = Level(d)
  <2>1. ASSUME NEW l \in 1 .. Level(c)' PROVE CallRight(c, l)' /\ StateRight(c, l)'
    <3>1. CallRight(c, l) /\ StateRight(c, l)
      BY <1>7 DEF DispatchInv, Stacked
    <3> QED
      BY <1>7, <3>1 DEF CallRight, StateRight, Yield
  <2>2. DOMAIN request' = Coroutines /\ IsSeq(request'[c]) /\ Len(request'[c]) = Level(c)' /\ Level(c)' <= MaxDepth + 1
    BY <1>7 DEF DispatchInv, Stacked, Yield
  <2>3. \A d \in Coroutines \ {c} : frame'[d] = frame[d] /\ request'[d] = request[d]
    BY <1>6 DEF Yield
  <2> QED
    BY <1>7, <2>1, <2>2, <2>3, OneStack
<1>9. Bound'
  BY <1>1, <1>7, <1>8 DEF DispatchInv, Bound, Yield
<1>10. Waiting'
  <2>1. waiting' \subseteq Coroutines \ Inline /\ DOMAIN saved' = Coroutines
    BY DEF Yield, DispatchInv, Waiting
  <2>2. saved'[c] = <<c, Level(c)'>> /\ Level(c)' > 0 /\ frame'[c][Level(c)'].pc # "sent"
    BY <1>1, <1>7 DEF Yield, DispatchInv, Waiting
  <2>3. ASSUME NEW d \in Coroutines \ {c}
        PROVE  saved'[d] = saved[d] /\ frame'[d] = frame[d] /\ Level(d)' = Level(d) /\ (d \in waiting' <=> d \in waiting)
    BY <1>6, <1>8 DEF Yield, DispatchInv, Waiting
  <2> QED
    BY <2>1, <2>2, <2>3 DEF Yield, DispatchInv, Waiting
<1> QED
  BY <1>8, <1>9, <1>10 DEF DispatchInv

\* The end of a wait: bound to what the coroutine was bound to.
LEMMA ResumeStep ==
  ASSUME DispatchInv, NEW c \in Coroutines, Resume(c)
  PROVE  DispatchInv'
<1>1. c \in waiting /\ saved[c] = <<c, Level(c)>> /\ Level(c) > 0 /\ Level(c) \in Nat
  BY Levels DEF Resume, DispatchInv, Waiting
<1>2. \A d \in Coroutines : Level(d)' = Level(d)
  BY DEF Resume, Level
<1>3. Stacked'
  BY <1>2 DEF Resume, DispatchInv, Stacked, CallRight, StateRight
<1>4. Bound'
  BY <1>1, <1>2 DEF Resume, Bound
<1>5. Waiting'
  BY <1>1, <1>2 DEF Resume, DispatchInv, Waiting
<1> QED
  BY <1>3, <1>4, <1>5 DEF DispatchInv

\* A new state is that of a request nothing has looked at.
LEMMA NewRequestRight ==
  ASSUME NEW wish, NEW path, NEW resource, NEW query, NEW depth \in Nat
  PROVE  LET q == NewRequest(wish, path, resource, query, depth)
         IN  StateType(q, depth + 1) /\ Phase(q, "dispatch") /\ Admission(q, "dispatch", depth + 1)
<1> DEFINE q == NewRequest(wish, path, resource, query, depth)
<1>1. /\ Fields \subseteq DOMAIN q
      /\ q.early = "no" /\ q.depth = depth /\ q.status = 200 /\ q.body = "none"
      /\ q.answer = {} /\ q.allow = {}
  BY DEF NewRequest, Fields
<1>2. /\ q.admitted = FALSE /\ q.keyF = FALSE /\ q.problem = FALSE
      /\ q.late = FALSE /\ q.ran = FALSE
  BY DEF NewRequest
<1> HIDE DEF q
<1>3. /\ q.admitted \in BOOLEAN /\ q.keyF \in BOOLEAN /\ q.problem \in BOOLEAN
      /\ q.late \in BOOLEAN /\ q.ran \in BOOLEAN
  BY <1>2
<1>4. StateType(q, depth + 1)
  BY <1>1, <1>3 DEF StateType, Statuses
<1>5. Phase(q, "dispatch") /\ Admission(q, "dispatch", depth + 1)
  BY <1>1, <1>2 DEF Phase, Admission, Untouched, Clean, BeforeRoutine
<1> QED
  BY <1>4, <1>5 DEF q

\* So is that of one that came in, but for what is wrong with it already.
LEMMA NewArrivalRight ==
  ASSUME NEW c \in Coroutines, NEW wish, NEW early, early \in {"no"} \cup Early[c]
  PROVE  LET q == NewArrival(wish, early)
         IN  StateType(q, 1) /\ Phase(q, "dispatch") /\ Admission(q, "dispatch", 1)
<1> DEFINE new == NewRequest(wish, PathOf(wish.path), Resource(wish.path), Spaced(wish.query), 0)
           r == [new EXCEPT !.early = early]
           q == NewArrival(wish, early)
<1>1. StateType(new, 1) /\ Phase(new, "dispatch") /\ Admission(new, "dispatch", 1) /\ new.early = "no"
  BY NewRequestRight DEF NewRequest
<1> HIDE DEF new
<1>2. early \in {"no", "411", "413", "refused", "silent"}
  BY DispatchAssumption
<1>3. /\ StateType(r, 1) /\ Untouched(r) /\ Clean(r) /\ ~r.keyF /\ r.early = early
  BY <1>1, <1>2 DEF StateType, Fields, Phase, Untouched, Clean, BeforeRoutine
<1>4. q = CASE early = "411" -> [r EXCEPT !.status = 411]
            [] early = "413" -> Problem(r, 413)
            [] early = "refused" -> Problem(r, 403)
            [] OTHER -> r
  BY DEF NewArrival, new
<1> HIDE DEF r, q
<1>5. StateType(q, 1) /\ Untouched(q) /\ ~q.keyF /\ q.early = early /\ (IF early \in {"no", "silent"} THEN Clean(q) ELSE Refused(q))
  <2>1. CASE early \in {"no", "silent"}
    BY <1>3, <1>4, <2>1
  <2>2. CASE early = "411"
    <3>1. q = [r EXCEPT !.status = 411]
      BY <1>4, <2>2
    <3> QED
      BY <1>3, <2>2, <3>1 DEF StateType, Fields, Statuses, Untouched, Refused
  <2>3. ASSUME NEW status \in {403, 413}, q = Problem(r, status), early # "no"
        PROVE  StateType(q, 1) /\ Untouched(q) /\ ~q.keyF /\ q.early = early /\ Refused(q)
    BY <1>3, <2>3 DEF StateType, Fields, Statuses, Untouched, Refused, Problem
  <2>4. CASE early = "413"
    BY <1>4, <2>3, <2>4
  <2>5. CASE early = "refused"
    BY <1>4, <2>3, <2>5
  <2> QED
    BY <1>2, <2>1, <2>2, <2>4, <2>5
<1>6. Phase(q, "dispatch") /\ Admission(q, "dispatch", 1)
  BY <1>5 DEF Phase, Admission, Untouched, BeforeRoutine
<1> QED
  BY <1>5, <1>6 DEF q

\* A request comes in: a stack of one call and one state.
LEMMA ArriveStep ==
  ASSUME DispatchInv, NEW c \in Coroutines, Arrive(c)
  PROVE  DispatchInv'
<1>1. PICK wish \in Asks[c], early \in {"no"} \cup Early[c] :
        request' = [request EXCEPT ![c] = <<NewArrival(wish, early)>>]
  BY DEF Arrive
<1> DEFINE q == NewArrival(wish, early)
<1>2. StateType(q, 1) /\ Phase(q, "dispatch") /\ Admission(q, "dispatch", 1)
  BY NewArrivalRight
<1>3. request' = [request EXCEPT ![c] = <<q>>] /\ frame' = [frame EXCEPT ![c] = <<Call(<<>>)>>]
  BY <1>1 DEF Arrive
<1> HIDE DEF q
<1>4. Call(<<>>) \in Calls /\ Call(<<>>).pc = "dispatch" /\ Call(<<>>).outer = <<>>
  BY DEF Call, Calls, Pcs, Waits
<1>5. /\ DOMAIN request' = Coroutines /\ request'[c] = <<q>>
      /\ IsSeq(<<q>>) /\ Len(<<q>>) = 1 /\ <<q>>[1] = q
  BY <1>3, SeqOne DEF DispatchInv, Stacked
<1>6. frame' \in [Coroutines -> Seq(Calls)] /\ Level(c)' = 1 /\ frame'[c][1] = Call(<<>>)
  BY <1>3, <1>4 DEF DispatchInv, Stacked, Level
<1>7. CallRight(c, 1)' /\ StateRight(c, 1)'
  BY <1>2, <1>4, <1>5, <1>6 DEF CallRight, StateRight
<1>8. \A d \in Coroutines \ {c} : frame'[d] = frame[d] /\ request'[d] = request[d]
  BY <1>3 DEF DispatchInv, Stacked
<1>9. Stacked' /\ \A d \in Coroutines \ {c} : Level(d)' = Level(d)
  <2>1. \A l \in 1 .. Level(c)' : CallRight(c, l)' /\ StateRight(c, l)'
    <3> SUFFICES ASSUME NEW l \in 1 .. Level(c)' PROVE CallRight(c, l)' /\ StateRight(c, l)'
      OBVIOUS
    <3>1. l = 1
      BY <1>6
    <3> QED
      BY <1>7, <3>1
  <2>2. Level(c)' <= MaxDepth + 1 /\ IsSeq(request'[c]) /\ Len(request'[c]) = Level(c)'
    BY <1>5, <1>6, DispatchAssumption
  <2> QED
    BY <1>5, <1>6, <1>8, <2>1, <2>2, OneStack
<1>10. c \notin waiting
  BY Levels DEF Arrive, DispatchInv, Waiting
<1>11. Bound'
  BY <1>6, <1>10 DEF Arrive, Bound
<1>12. Waiting'
  <2>1. \A d \in waiting : d \in Coroutines \ {c}
    BY <1>10 DEF DispatchInv, Waiting
  <2> QED
    BY <1>8, <1>9, <2>1 DEF Arrive, DispatchInv, Waiting
<1> QED
  BY <1>9, <1>11, <1>12 DEF DispatchInv

\* A forward: a call and a state on top, the outer ones untouched but for the count.
LEMMA ForwardStep ==
  ASSUME DispatchInv, NEW c \in Coroutines, Forward(c)
  PROVE  DispatchInv'
<1>1. /\ running = c /\ Right(c, Me, "routine") /\ At(c, "routine") /\ c \notin waiting
      /\ Level(c) \in Nat \ {0} /\ Me.depth = Level(c) - 1
      /\ bound = <<c, Level(c)>> /\ bound[1] = c /\ bound[2] = Level(c)
      /\ Last(frame[c]) = frame[c][Level(c)]
      /\ Me = request[c][Level(c)]
  BY Here, Running DEF Forward
<1>2. PICK wish \in Forwards[c] :
        request' = [request EXCEPT ![bound[1]][bound[2]].forwards = @ + 1,
                                   ![c] = Append(@, NewRequest(wish, Normalized(wish.path), Normalized(wish.path), wish.query, Me.depth + 1))]
  BY DEF Forward
<1> DEFINE n == Level(c)
           new == NewRequest(wish, Normalized(wish.path), Normalized(wish.path), wish.query, Me.depth + 1)
           q == [Me EXCEPT !.forwards = @ + 1]
           s == [request[c] EXCEPT ![n] = q]
           t == Append(s, new)
           f == Append(frame[c], Call(bound))
<1>3. StateType(new, n + 1) /\ Phase(new, "dispatch") /\ Admission(new, "dispatch", n + 1)
  BY <1>1, NewRequestRight
<1>4. request' = [request EXCEPT ![c] = t] /\ frame' = [frame EXCEPT ![c] = f]
  BY <1>1, <1>2 DEF Forward, DispatchInv, Stacked
<1>5. StateType(q, n) /\ Phase(q, "routine") /\ Admission(q, "routine", n)
  BY <1>1 DEF Right, StateType, Fields, Phase, Untouched, Clean, Refused, BeforeRoutine, Admission, Statuses
<1> HIDE DEF q, new
<1>6. /\ IsSeq(s) /\ Len(s) = n
      /\ \A l \in 1 .. n : s[l] = IF l = n THEN q ELSE request[c][l]
  <2>1. IsSeq(request[c]) /\ n \in 1 .. Len(request[c]) /\ Len(request[c]) = n
    BY <1>1, Levels DEF DispatchInv, Stacked
  <2> QED
    BY <2>1, SeqPut
<1> HIDE DEF s
<1>7. /\ IsSeq(t) /\ Len(t) = n + 1 /\ t[n + 1] = new
      /\ \A l \in 1 .. n : t[l] = s[l]
  BY <1>6, SeqAppend
<1>8. Call(bound) \in Calls /\ Call(bound).pc = "dispatch" /\ Call(bound).outer = <<c, n>>
  BY <1>1 DEF Call, Calls, Pcs, Waits
<1>9. /\ f \in Seq(Calls) /\ Len(f) = n + 1 /\ f[n + 1] = Call(bound)
      /\ \A l \in 1 .. n : f[l] = frame[c][l]
  <2>1. frame[c] \in Seq(Calls) /\ Len(frame[c]) = n
    BY DEF DispatchInv, Stacked, Level
  <2> QED
    BY <1>8, <2>1, AppendProperties
<1> HIDE DEF t, f
<1>10. /\ frame' \in [Coroutines -> Seq(Calls)] /\ Level(c)' = n + 1 /\ frame'[c] = f
       /\ DOMAIN request' = Coroutines /\ request'[c] = t
       /\ \A d \in Coroutines \ {c} : frame'[d] = frame[d] /\ request'[d] = request[d]
  BY <1>4, <1>9 DEF DispatchInv, Stacked, Level
<1>11. ASSUME NEW l \in 1 .. n + 1 PROVE CallRight(c, l)' /\ StateRight(c, l)'
  <2>1. CASE l = n + 1
    <3>1. CallRight(c, l)'
      <4>1. l # 1 /\ l - 1 = n
        BY <1>1, <2>1
      <4>2. frame'[c][l] = Call(bound) /\ Level(c)' = l
        BY <1>9, <1>10, <2>1
      <4> QED
        BY <1>8, <4>1, <4>2 DEF CallRight
    <3>2. StateRight(c, l)'
      BY <1>3, <1>7, <1>8, <1>9, <1>10, <2>1 DEF StateRight
    <3> QED
      BY <3>1, <3>2
  <2>2. CASE l = n
    <3>1. CallRight(c, l) /\ frame'[c][l] = frame[c][l] /\ frame[c][l].pc = "routine"
      BY <1>1, <1>9, <1>10, <2>2 DEF DispatchInv, Stacked, At
    <3>2. CallRight(c, l)'
      BY <1>1, <1>10, <3>1 DEF CallRight
    <3>3. StateRight(c, l)'
      BY <1>1, <1>5, <1>6, <1>7, <1>10, <2>2, <3>1 DEF StateRight
    <3> QED
      BY <3>2, <3>3
  <2>3. CASE l < n
    <3>1. CallRight(c, l) /\ StateRight(c, l) /\ frame'[c][l] = frame[c][l] /\ request'[c][l] = request[c][l]
      BY <1>1, <1>6, <1>7, <1>9, <1>10, <2>3 DEF DispatchInv, Stacked
    <3> QED
      BY <1>1, <1>10, <2>3, <3>1 DEF CallRight, StateRight
  <2> QED
    BY <1>1, <2>1, <2>2, <2>3
<1>12. n + 1 <= MaxDepth + 1
  BY <1>1, DispatchAssumption DEF Forward
<1>13. Stacked' /\ \A d \in Coroutines \ {c} : Level(d)' = Level(d)
  BY <1>7, <1>10, <1>11, <1>12, OneStack
<1>14. Bound'
  <2>1. bound' = <<c, n + 1>>
    BY <1>7, <1>10 DEF Forward
  <2> QED
    BY <1>1, <1>10, <2>1 DEF Forward, Bound
<1>15. Waiting'
  <2>1. \A d \in waiting : d \in Coroutines \ {c}
    BY <1>1 DEF DispatchInv, Waiting
  <2> QED
    BY <1>10, <1>13, <2>1 DEF Forward, DispatchInv, Waiting
<1> QED
  BY <1>13, <1>14, <1>15 DEF DispatchInv

\* Each action keeps the invariant.
LEMMA DispatchStep == DispatchInv /\ [PipelineNext]_pipelineVars => DispatchInv'
<1> SUFFICES ASSUME DispatchInv, [PipelineNext]_pipelineVars PROVE DispatchInv'
  OBVIOUS
<1>1. ASSUME NEW c \in Coroutines, Arrive(c) \/ Step(c) \/ Done(c) \/ Yield(c) \/ Resume(c)
      PROVE  DispatchInv'
  BY <1>1, FindRouteStep, AdmitStep, CheckMediaStep, ParseBodyStep, NoServiceStep, CheckParamsStep,
     CheckServiceStep, ForwardStep, RunRoutineStep, RenderStep, RespondStep, HandOverStep, FinishStep,
     ReturnStep, ArriveStep, DoneStep, YieldStep, ResumeStep DEF Step
<1>2. CASE UNCHANGED pipelineVars
  BY <1>2 DEF pipelineVars, DispatchInv, Stacked, Bound, Waiting, CallRight, StateRight, Level
<1> QED
  BY <1>1, <1>2 DEF PipelineNext

\* The inductive invariant of the pipeline, for any coroutines, services and requests,
\* any depth of forwards and any interleaving of the waits.
THEOREM DispatchCorrect == PipelineSpec => []DispatchInv
BY InitRight, DispatchStep, PTL DEF PipelineSpec

\* What runs is bound to its own innermost request, one that is still allocated,
\* though every wait lets others bind theirs (coWaitBound of corRestWait.c,
\* corRestProcessInProcess of corRestInit.c).
THEOREM PipelineCorrect == PipelineSpec => []PipelineInv
<1>1. DispatchInv => PipelineInv
  <2> SUFFICES ASSUME DispatchInv PROVE PipelineInv
    OBVIOUS
  <2>1. PipelineTypeOK
    BY Levels DEF DispatchInv, Stacked, StateRight, StateType, Bound, Waiting, PipelineTypeOK
  <2>2. running # None => bound = <<running, Level(running)>>
    BY DEF DispatchInv, Bound
  <2>3. bound # <<>> => bound[2] \in DOMAIN request[bound[1]]
    BY Levels DEF DispatchInv, Bound
  <2>4. ASSUME NEW c \in Coroutines
        PROVE  /\ (c \in waiting) = (saved[c] # <<>>)
               /\ c \in waiting => saved[c] = <<c, Level(c)>>
    BY DEF DispatchInv, Waiting
  <2>5. ASSUME NEW c \in Coroutines, NEW l \in DOMAIN frame[c], request[c][l].keyF
        PROVE  frame[c][l].pc = "parse"
    BY <2>5, Levels DEF DispatchInv, Stacked, StateRight, Phase
  <2> QED
    BY <2>1, <2>2, <2>3, <2>4, <2>5 DEF PipelineInv
<1> QED
  BY <1>1, DispatchCorrect, PTL

\* A request answered as served was admitted, its routine ran and nothing found a problem -
\* but for an upgrade refused without an error, which no routine serves;
\* a late problem leaves nothing of the answer it replaced (corRestProcessRequest).
THEOREM AnswersHonest == PipelineSpec => []AnswerHonest
<1>1. DispatchInv => AnswerHonest
  <2> SUFFICES ASSUME DispatchInv, NEW c \in Coroutines, NEW l \in DOMAIN frame[c], frame[c][l].pc = "answered"
               PROVE  LET q == request[c][l]
                      IN  /\ q.status < 400 => q.early = "silent" \/ (q.ran /\ ~q.problem /\ ~q.late)
                          /\ q.late => q.answer = {} /\ q.body # "answer"
                          /\ q.ran => request[c][1].admitted
                          /\ q.body = "answer" => q.ran
                          /\ q.problem /\ "tree" \notin q.answer => q.body # "answer"
    BY DEF AnswerHonest
  <2> DEFINE q == request[c][l]
  <2>1. l \in 1 .. Level(c) /\ Level(c) \in Nat /\ StateRight(c, l) /\ CallRight(c, l) /\ StateRight(c, 1) /\ CallRight(c, 1)
    BY Levels DEF DispatchInv, Stacked
  <2>2. StateType(q, l) /\ Phase(q, "answered") /\ Admission(q, "answered", l)
    BY <2>1 DEF StateRight
  <2>3. q.ran => request[c][1].admitted
    <3>1. CASE l = 1
      BY <2>2, <3>1 DEF Admission
    <3>2. CASE l # 1
      <4>1. frame[c][1].pc = "routine"
        BY <2>1, <3>2 DEF CallRight
      <4> QED
        BY <2>1, <4>1 DEF StateRight, Admission
    <3> QED
      BY <3>1, <3>2
  <2>4. q.status \in Int
    BY <2>2 DEF StateType, Statuses
  <2> HIDE DEF q
  <2>5. /\ q.status < 400 => q.early = "silent" \/ (q.ran /\ ~q.problem /\ ~q.late)
        /\ q.late => q.answer = {} /\ q.body # "answer"
        /\ q.body = "answer" => q.ran
        /\ q.problem /\ "tree" \notin q.answer => q.body # "answer"
    BY <2>2, <2>4 DEF Phase, Refused
  <2> QED
    BY <2>3, <2>5 DEF q
<1> QED
  BY <1>1, DispatchCorrect, PTL

-----------------------------------------------------------------------------
(* ResponseFraming: what its operators return *)

\* The least member of a set is its minimum.
LEMMA MinIs ==
  ASSUME NEW S, S \subseteq Nat, NEW x \in S, \A y \in S : x <= y
  PROVE  Min(S) = x
<1>1. \A y \in S : (\A z \in S : y <= z) => y = x
  OBVIOUS
<1> QED
  BY <1>1 DEF Min

\* A set of numbers that has a member has a least one.
LEMMA LeastIn ==
  ASSUME NEW S, S \subseteq Nat, S # {}
  PROVE  \E x \in S : \A y \in S : x <= y
<1>1. PICK m \in S : \A y \in S : <<y, m>> \notin OpToRel(<, Nat)
  BY NatLessThanWellFounded, WFMin
<1>2. \A y \in S : ~(y < m)
  BY <1>1 DEF OpToRel
<1> QED
  BY <1>2

\* Bytes is the last value of the function its definition recurs by.
LEMMA BytesIs ==
  ASSUME NEW s, Len(s) \in Nat,
         NEW G, G = [i \in 0 .. Len(s) |-> IF i = 0 THEN <<>>
                                           ELSE IF s[i].t = "b" THEN Append(G[i - 1], s[i]) ELSE G[i - 1]]
  PROVE  Bytes(s) = G[Len(s)]
<1> DEFINE F == CHOOSE F : F = [i \in 0 .. Len(s) |-> IF i = 0 THEN <<>>
                                           ELSE IF s[i].t = "b" THEN Append(F[i - 1], s[i]) ELSE F[i - 1]]
<1>1. Bytes(s) = F[Len(s)]
  BY DEF Bytes
<1>2. F = [i \in 0 .. Len(s) |-> IF i = 0 THEN <<>>
                                 ELSE IF s[i].t = "b" THEN Append(F[i - 1], s[i]) ELSE F[i - 1]]
  OBVIOUS
<1> HIDE DEF F
<1> DEFINE Bad == {i \in 0 .. Len(s) : F[i] # G[i]}
<1>3. ASSUME Bad # {} PROVE FALSE
  <2>1. PICK m \in Bad : \A j \in Bad : m <= j
    <3>1. Bad \subseteq Nat
      OBVIOUS
    <3> HIDE DEF Bad
    <3> QED
      BY <1>3, <3>1, LeastIn
  <2>2. m \in 0 .. Len(s) /\ F[m] # G[m]
    BY <2>1
  <2>3. m # 0
    BY <1>2, <2>2
  <2>4. m - 1 \in 0 .. Len(s) /\ m - 1 \notin Bad
    <3>1. m - 1 \in 0 .. Len(s) /\ ~(m <= m - 1)
      BY <2>2, <2>3
    <3> HIDE DEF Bad
    <3> QED
      BY <2>1, <3>1
  <2>5. F[m - 1] = G[m - 1]
    BY <2>4
  <2>6. F[m] = IF s[m].t = "b" THEN Append(F[m - 1], s[m]) ELSE F[m - 1]
    BY <1>2, <2>2, <2>3
  <2>7. G[m] = IF s[m].t = "b" THEN Append(G[m - 1], s[m]) ELSE G[m - 1]
    BY <2>2, <2>3
  <2> QED
    BY <2>2, <2>5, <2>6, <2>7
<1>4. F[Len(s)] = G[Len(s)]
  BY <1>3
<1> QED
  BY <1>1, <1>4

\* Two elements, one appended to the other.
LEMMA AppendTwo ==
  ASSUME NEW x, NEW y PROVE Append(<<x>>, y) = <<x, y>>
<1>1. <<x>> \in Seq({x, y}) /\ y \in {x, y} /\ Len(<<x>>) = 1 /\ <<x>>[1] = x
  OBVIOUS
<1>2. <<x, y>> \in Seq({x, y}) /\ Len(<<x, y>>) = 2 /\ <<x, y>>[1] = x /\ <<x, y>>[2] = y
  OBVIOUS
<1> DEFINE u == <<x>>
           v == <<x, y>>
<1>3. u \in Seq({x, y}) /\ Len(u) = 1 /\ u[1] = x
  BY <1>1
<1>4. v \in Seq({x, y}) /\ Len(v) = 2 /\ v[1] = x /\ v[2] = y
  BY <1>2
<1> HIDE DEF u, v
<1> DEFINE S == {x, y}
<1>5. u \in Seq(S) /\ v \in Seq(S) /\ y \in S
  BY <1>3, <1>4
<1> HIDE DEF S
<1>6. Append(u, y) \in Seq(S) /\ Len(Append(u, y)) = 2 /\ Append(u, y)[1] = x /\ Append(u, y)[2] = y
  <2>1. /\ Append(u, y) \in Seq(S) /\ Len(Append(u, y)) = Len(u) + 1
        /\ \A i \in 1 .. Len(u) : Append(u, y)[i] = u[i]
        /\ Append(u, y)[Len(u) + 1] = y
    BY ONLY <1>5, AppendProperties
  <2> QED
    BY <1>3, <2>1
<1>7. Append(u, y) = v
  BY <1>4, <1>5, <1>6, SeqEqual
<1> QED
  BY <1>7 DEF u, v

\* The first two of a sequence of two are the two.
LEMMA BothOf ==
  ASSUME NEW S, NEW u \in Seq(S), Len(u) = 2
  PROVE  SubSeq(u, 1, 2) = <<u[1], u[2]>>
<1>1. u[1] \in S /\ u[2] \in S
  OBVIOUS
<1>2. SubSeq(u, 1, 2) \in Seq(S) /\ Len(SubSeq(u, 1, 2)) = 2
      /\ SubSeq(u, 1, 2)[1] = u[1] /\ SubSeq(u, 1, 2)[2] = u[2]
  BY <1>1
<1> DEFINE v == <<u[1], u[2]>>
<1>3. v \in Seq(S) /\ Len(v) = 2 /\ v[1] = u[1] /\ v[2] = u[2]
  BY <1>1
<1> HIDE DEF v
<1>4. SubSeq(u, 1, 2) = v
  BY <1>2, <1>3, SeqEqual
<1> QED
  BY <1>4 DEF v

\* Of two bytes in a row, all there are, a body is made.
LEMMA TwoBytes ==
  ASSUME NEW s, Len(s) \in Nat, NEW k \in 1 .. Len(s), k + 1 <= Len(s),
         \A i \in 1 .. Len(s) : s[i].t = "b" <=> i \in {k, k + 1}
  PROVE  Bytes(s) = <<s[k], s[k + 1]>>
<1> DEFINE G == [i \in 0 .. Len(s) |-> IF i < k THEN <<>>
                                       ELSE IF i = k THEN <<s[k]>> ELSE <<s[k], s[k + 1]>>]
<1>1. ASSUME NEW i \in 0 .. Len(s)
      PROVE  G[i] = IF i = 0 THEN <<>>
                    ELSE IF s[i].t = "b" THEN Append(G[i - 1], s[i]) ELSE G[i - 1]
  <2>1. CASE i < k
    BY <2>1
  <2>2. CASE i = k
    <3>1. G[i] = <<s[k]>> /\ G[i - 1] = <<>> /\ s[i].t = "b" /\ i # 0
      BY <2>2
    <3>2. Append(<<>>, s[k]) = <<s[k]>>
      OBVIOUS
    <3> QED
      BY <2>2, <3>1, <3>2
  <2>3. CASE i = k + 1
    <3>1. G[i] = <<s[k], s[k + 1]>> /\ G[i - 1] = <<s[k]>> /\ s[i].t = "b" /\ i # 0
      BY <2>3
    <3>2. Append(<<s[k]>>, s[k + 1]) = <<s[k], s[k + 1]>>
      BY AppendTwo
    <3> QED
      BY <2>3, <3>1, <3>2
  <2>4. CASE i > k + 1
    BY <2>4
  <2> QED
    BY <2>1, <2>2, <2>3, <2>4
<1>2. G = [i \in 0 .. Len(s) |-> IF i = 0 THEN <<>>
                                 ELSE IF s[i].t = "b" THEN Append(G[i - 1], s[i]) ELSE G[i - 1]]
  BY <1>1
<1>3. G[Len(s)] = <<s[k], s[k + 1]>>
  OBVIOUS
<1> HIDE DEF G
<1> QED
  BY <1>2, <1>3, BytesIs

\* Where there are no bytes there is no body.
LEMMA NoBytes ==
  ASSUME NEW s, Len(s) \in Nat, \A i \in 1 .. Len(s) : s[i].t # "b"
  PROVE  Bytes(s) = <<>>
<1> DEFINE G == [i \in 0 .. Len(s) |-> <<>>]
<1>1. G = [i \in 0 .. Len(s) |-> IF i = 0 THEN <<>>
                                 ELSE IF s[i].t = "b" THEN Append(G[i - 1], s[i]) ELSE G[i - 1]]
  <2>1. \A i \in 0 .. Len(s) : i # 0 => s[i].t # "b" /\ G[i - 1] = <<>>
    OBVIOUS
  <2> QED
    BY <2>1
<1>2. G[Len(s)] = <<>>
  OBVIOUS
<1> HIDE DEF G
<1> QED
  BY <1>1, <1>2, BytesIs


-----------------------------------------------------------------------------
(* Lemmas: what a client that has read the head of a response sees in it *)

\* What was read is a response to request r, its head and as much of the rest as came.
PartOf(s, r, form) ==
  /\ s \in Seq(ToSet(Response(r, form)))
  /\ Len(s) \in HeadLen(form) .. Len(Texts(form))
  /\ \A k \in 1 .. Len(s) : s[k] = Response(r, form)[k]

\* The end of the first empty line is where a head ends.
LEMMA HeadIs ==
  ASSUME NEW form, Len(Texts(form)) \in Nat, NEW h \in 2 .. Len(Texts(form)),
         Texts(form)[h] = "nl", Texts(form)[h - 1] = "nl",
         \A j \in 2 .. (h - 1) : Texts(form)[j] # "nl" \/ Texts(form)[j - 1] # "nl"
  PROVE  HeadLen(form) = h
<1> DEFINE S == {j \in 2 .. Len(Texts(form)) : Texts(form)[j] = "nl" /\ Texts(form)[j - 1] = "nl"}
<1>1. S \subseteq Nat /\ h \in S /\ \A y \in S : h <= y
  OBVIOUS
<1>2. HeadLen(form) = Min(S)
  BY DEF HeadLen
<1> HIDE DEF S
<1> QED
  BY <1>1, <1>2, MinIs

\* The texts of a response, one by one.
LEMMA Spelt ==
  /\ Texts("length") = <<"200", "nl", "other", "nl", "length", "nl", "nl", "b", "b">>
  /\ Texts("lengthClose") = <<"200", "nl", "length", "nl", "close", "nl", "nl", "b", "b">>
  /\ Texts("chunked") = <<"200", "nl", "chunked", "nl", "nl", "size", "nl", "b", "b", "nl", "zero", "nl", "nl">>
  /\ Texts("nobody") = <<"204", "nl", "nl">>
  /\ Texts("untilClose") = <<"200", "nl", "close", "nl", "nl", "b", "b">>
  /\ Texts("malformed") = <<"200", "nl", "chunked", "nl", "nl", "b", "b", "nl">>
BY DEF Texts

\* The lengths of the responses and of their heads.
LEMMA Lengths ==
  /\ Len(Texts("length")) = 9 /\ HeadLen("length") = 7
  /\ Len(Texts("lengthClose")) = 9 /\ HeadLen("lengthClose") = 7
  /\ Len(Texts("chunked")) = 13 /\ HeadLen("chunked") = 5
  /\ Len(Texts("nobody")) = 3 /\ HeadLen("nobody") = 3
  /\ Len(Texts("untilClose")) = 7 /\ HeadLen("untilClose") = 5
  /\ Len(Texts("malformed")) = 8 /\ HeadLen("malformed") = 5
<1>1. Len(Texts("length")) = 9 /\ HeadLen("length") = 7
  <2>1. Len(Texts("length")) = 9 /\ \A j \in 2 .. 7 : (Texts("length")[j] = "nl" /\ Texts("length")[j - 1] = "nl") <=> j = 7
    BY Spelt
  <2> QED
    BY <2>1, HeadIs
<1>2. Len(Texts("lengthClose")) = 9 /\ HeadLen("lengthClose") = 7
  <2>1. Len(Texts("lengthClose")) = 9 /\ \A j \in 2 .. 7 : (Texts("lengthClose")[j] = "nl" /\ Texts("lengthClose")[j - 1] = "nl") <=> j = 7
    BY Spelt
  <2> QED
    BY <2>1, HeadIs
<1>3. Len(Texts("chunked")) = 13 /\ HeadLen("chunked") = 5
  <2> DEFINE T == Texts("chunked")
  <2>1. T = <<"200", "nl", "chunked", "nl", "nl", "size", "nl", "b", "b", "nl", "zero", "nl", "nl">>
    BY Spelt
  <2> HIDE DEF T
  <2>2. Len(T) = 13 /\ T[1] # "nl" /\ T[3] # "nl" /\ T[4] = "nl" /\ T[5] = "nl"
    BY <2>1
  <2>3. \A j \in 2 .. 4 : T[j] # "nl" \/ T[j - 1] # "nl"
    <3>1. \A j \in 2 .. 4 : j - 1 = 1 \/ j = 3 \/ j - 1 = 3
      OBVIOUS
    <3> QED
      BY <2>2, <3>1
  <2>4. /\ Len(T) \in Nat /\ 5 \in 2 .. Len(T) /\ T[5] = "nl" /\ T[5 - 1] = "nl"
        /\ \A j \in 2 .. (5 - 1) : T[j] # "nl" \/ T[j - 1] # "nl"
    BY <2>2, <2>3
  <2>5. HeadLen("chunked") = 5
    BY <2>4, HeadIs DEF T
  <2> QED
    BY <2>2, <2>5 DEF T
<1>4. Len(Texts("nobody")) = 3 /\ HeadLen("nobody") = 3
  <2>1. Len(Texts("nobody")) = 3 /\ \A j \in 2 .. 3 : (Texts("nobody")[j] = "nl" /\ Texts("nobody")[j - 1] = "nl") <=> j = 3
    BY Spelt
  <2> QED
    BY <2>1, HeadIs
<1>5. Len(Texts("untilClose")) = 7 /\ HeadLen("untilClose") = 5
  <2>1. Len(Texts("untilClose")) = 7 /\ \A j \in 2 .. 5 : (Texts("untilClose")[j] = "nl" /\ Texts("untilClose")[j - 1] = "nl") <=> j = 5
    BY Spelt
  <2> QED
    BY <2>1, HeadIs
<1>6. Len(Texts("malformed")) = 8 /\ HeadLen("malformed") = 5
  <2>1. Len(Texts("malformed")) = 8 /\ \A j \in 2 .. 5 : (Texts("malformed")[j] = "nl" /\ Texts("malformed")[j - 1] = "nl") <=> j = 5
    BY Spelt
  <2> QED
    BY <2>1, HeadIs
<1> QED
  BY <1>1, <1>2, <1>3, <1>4, <1>5, <1>6

\* As many texts as the length says.
LEMMA Domains ==
  /\ DOMAIN Texts("length") = 1 .. Len(Texts("length"))
  /\ DOMAIN Texts("lengthClose") = 1 .. Len(Texts("lengthClose"))
  /\ DOMAIN Texts("chunked") = 1 .. Len(Texts("chunked"))
  /\ DOMAIN Texts("nobody") = 1 .. Len(Texts("nobody"))
  /\ DOMAIN Texts("untilClose") = 1 .. Len(Texts("untilClose"))
  /\ DOMAIN Texts("malformed") = 1 .. Len(Texts("malformed"))
BY Spelt

\* A response is a sequence of its own tokens, one for each text.
LEMMA ResponseIs ==
  ASSUME NEW r, NEW form \in AllShapes
  PROVE  /\ Response(r, form) \in Seq(ToSet(Response(r, form)))
         /\ Len(Response(r, form)) = Len(Texts(form)) /\ Len(Texts(form)) \in Nat
         /\ HeadLen(form) \in 2 .. Len(Texts(form))
         /\ \A k \in 1 .. Len(Texts(form)) : Response(r, form)[k] = [of |-> r, at |-> k, t |-> Texts(form)[k]]
         /\ ToSet(Response(r, form)) = {[of |-> r, at |-> k, t |-> Texts(form)[k]] : k \in 1 .. Len(Texts(form))}
<1>1. form = "length" \/ form = "lengthClose" \/ form = "chunked" \/ form = "nobody"
        \/ form = "untilClose" \/ form = "malformed"
  BY DEF AllShapes
<1>2. Len(Texts(form)) \in Nat /\ HeadLen(form) \in 2 .. Len(Texts(form))
  <2>1. CASE form = "length"
    <3>1. Len(Texts(form)) = 9 /\ HeadLen(form) = 7
      BY <2>1, Lengths
    <3> QED
      BY <3>1
  <2>2. CASE form = "lengthClose"
    <3>1. Len(Texts(form)) = 9 /\ HeadLen(form) = 7
      BY <2>2, Lengths
    <3> QED
      BY <3>1
  <2>3. CASE form = "chunked"
    <3>1. Len(Texts(form)) = 13 /\ HeadLen(form) = 5
      BY <2>3, Lengths
    <3> QED
      BY <3>1
  <2>4. CASE form = "nobody"
    <3>1. Len(Texts(form)) = 3 /\ HeadLen(form) = 3
      BY <2>4, Lengths
    <3> QED
      BY <3>1
  <2>5. CASE form = "untilClose"
    <3>1. Len(Texts(form)) = 7 /\ HeadLen(form) = 5
      BY <2>5, Lengths
    <3> QED
      BY <3>1
  <2>6. CASE form = "malformed"
    <3>1. Len(Texts(form)) = 8 /\ HeadLen(form) = 5
      BY <2>6, Lengths
    <3> QED
      BY <3>1
  <2> QED
    BY <1>1, <2>1, <2>2, <2>3, <2>4, <2>5, <2>6
<1>3. DOMAIN Texts(form) = 1 .. Len(Texts(form))
  BY <1>1, Domains
<1> DEFINE n == Len(Texts(form))
           R == [k \in 1 .. n |-> [of |-> r, at |-> k, t |-> Texts(form)[k]]]
<1>4. Response(r, form) = R
  BY <1>3 DEF Response
<1>5. ToSet(R) = {[of |-> r, at |-> k, t |-> Texts(form)[k]] : k \in 1 .. n}
  BY DEF ToSet
<1>6. R \in Seq(ToSet(R)) /\ Len(R) = n
  <2>1. \A k \in 1 .. n : R[k] \in ToSet(R)
    BY <1>5
  <2> HIDE DEF n
  <2>2. n \in Nat
    BY <1>2 DEF n
  <2> QED
    BY <2>1, <2>2
<1> QED
  BY <1>2, <1>4, <1>5, <1>6


\* The token at a place has its text, its number and its place.
LEMMA TokenIs ==
  ASSUME NEW r, NEW form \in AllShapes, NEW m, m = Len(Response(r, form))
  PROVE  /\ m = Len(Texts(form)) /\ m \in Nat
         /\ \A k \in 1 .. m : /\ Response(r, form)[k].t = Texts(form)[k]
                              /\ Response(r, form)[k].of = r
                              /\ Response(r, form)[k].at = k
<1>1. m = Len(Texts(form)) /\ m \in Nat
  BY ResponseIs
<1>2. ASSUME NEW k \in 1 .. m
      PROVE  Response(r, form)[k] = [of |-> r, at |-> k, t |-> Texts(form)[k]]
  BY <1>1, ResponseIs
<1>3. ASSUME NEW k \in 1 .. m
      PROVE  /\ Response(r, form)[k].t = Texts(form)[k]
             /\ Response(r, form)[k].of = r /\ Response(r, form)[k].at = k
  <2> DEFINE tok == Response(r, form)[k]
  <2>1. tok = [of |-> r, at |-> k, t |-> Texts(form)[k]]
    BY <1>2
  <2> HIDE DEF tok
  <2>2. tok.t = Texts(form)[k] /\ tok.of = r /\ tok.at = k
    BY ONLY <2>1
  <2> QED
    BY ONLY <2>2 DEF tok
<1> QED
  BY ONLY <1>1, <1>3

\* The head of a response ends at its first empty line.
LEMMA HeadFirst ==
  ASSUME NEW form \in AllShapes
  PROVE  \A j \in 2 .. HeadLen(form) :
           (Texts(form)[j] = "nl" /\ Texts(form)[j - 1] = "nl") <=> j = HeadLen(form)
<1>1. CASE form = "length"
  <2>1. /\ Texts(form) = <<"200", "nl", "other", "nl", "length", "nl", "nl", "b", "b">>
        /\ HeadLen(form) = 7
    BY <1>1, Spelt, Lengths
  <2> QED
    BY <2>1
<1>2. CASE form = "lengthClose"
  <2>1. /\ Texts(form) = <<"200", "nl", "length", "nl", "close", "nl", "nl", "b", "b">>
        /\ HeadLen(form) = 7
    BY <1>2, Spelt, Lengths
  <2> QED
    BY <2>1
<1>3. CASE form = "chunked"
  <2>1. /\ Texts(form) = <<"200", "nl", "chunked", "nl", "nl", "size", "nl", "b", "b", "nl", "zero", "nl", "nl">>
        /\ HeadLen(form) = 5
    BY <1>3, Spelt, Lengths
  <2> QED
    BY <2>1
<1>4. CASE form = "nobody"
  <2>1. /\ Texts(form) = <<"204", "nl", "nl">>
        /\ HeadLen(form) = 3
    BY <1>4, Spelt, Lengths
  <2> QED
    BY <2>1
<1>5. CASE form = "untilClose"
  <2>1. /\ Texts(form) = <<"200", "nl", "close", "nl", "nl", "b", "b">>
        /\ HeadLen(form) = 5
    BY <1>5, Spelt, Lengths
  <2> QED
    BY <2>1
<1>6. CASE form = "malformed"
  <2>1. /\ Texts(form) = <<"200", "nl", "chunked", "nl", "nl", "b", "b", "nl">>
        /\ HeadLen(form) = 5
    BY <1>6, Spelt, Lengths
  <2> QED
    BY <2>1
<1> QED
  BY <1>1, <1>2, <1>3, <1>4, <1>5, <1>6 DEF AllShapes

\* What the headers of a response say of it.
LEMMA HeadTexts ==
  ASSUME NEW form \in AllShapes
  PROVE  /\ Texts(form)[1] = IF form = "nobody" THEN "204" ELSE "200"
         /\ (\E j \in 1 .. HeadLen(form) : Texts(form)[j] = "chunked") <=> form \in {"chunked", "malformed"}
         /\ (\E j \in 1 .. HeadLen(form) : Texts(form)[j] = "length") <=> form \in {"length", "lengthClose"}
         /\ (\E j \in 1 .. HeadLen(form) : Texts(form)[j] = "close") <=> form \in {"lengthClose", "untilClose"}
<1>1. CASE form = "length"
  <2>1. /\ Texts(form) = <<"200", "nl", "other", "nl", "length", "nl", "nl", "b", "b">>
        /\ HeadLen(form) = 7
    BY <1>1, Spelt, Lengths
  <2> QED
    BY <1>1, <2>1
<1>2. CASE form = "lengthClose"
  <2>1. /\ Texts(form) = <<"200", "nl", "length", "nl", "close", "nl", "nl", "b", "b">>
        /\ HeadLen(form) = 7
    BY <1>2, Spelt, Lengths
  <2> QED
    BY <1>2, <2>1
<1>3. CASE form = "chunked"
  <2>1. /\ Texts(form) = <<"200", "nl", "chunked", "nl", "nl", "size", "nl", "b", "b", "nl", "zero", "nl", "nl">>
        /\ HeadLen(form) = 5
    BY <1>3, Spelt, Lengths
  <2> QED
    BY <1>3, <2>1
<1>4. CASE form = "nobody"
  <2>1. /\ Texts(form) = <<"204", "nl", "nl">>
        /\ HeadLen(form) = 3
    BY <1>4, Spelt, Lengths
  <2> QED
    BY <1>4, <2>1
<1>5. CASE form = "untilClose"
  <2>1. /\ Texts(form) = <<"200", "nl", "close", "nl", "nl", "b", "b">>
        /\ HeadLen(form) = 5
    BY <1>5, Spelt, Lengths
  <2> QED
    BY <1>5, <2>1
<1>6. CASE form = "malformed"
  <2>1. /\ Texts(form) = <<"200", "nl", "chunked", "nl", "nl", "b", "b", "nl">>
        /\ HeadLen(form) = 5
    BY <1>6, Spelt, Lengths
  <2> QED
    BY <1>6, <2>1
<1> QED
  BY <1>1, <1>2, <1>3, <1>4, <1>5, <1>6 DEF AllShapes

\* A part of a response has its texts, and its number.
LEMMA PartIs ==
  ASSUME NEW r, NEW form \in AllShapes, NEW s, PartOf(s, r, form)
  PROVE  /\ s # <<>> /\ Len(s) \in Nat /\ HeadLen(form) \in 2 .. Len(s) /\ Len(s) <= Len(Texts(form))
         /\ \A k \in 1 .. Len(s) : s[k].t = Texts(form)[k] /\ s[k].of = r
<1>1. /\ Len(Texts(form)) \in Nat /\ HeadLen(form) \in 2 .. Len(Texts(form))
      /\ \A k \in 1 .. Len(Texts(form)) : Response(r, form)[k] = [of |-> r, at |-> k, t |-> Texts(form)[k]]
  BY ResponseIs
<1>2. Len(s) \in Nat /\ HeadLen(form) \in 2 .. Len(s) /\ Len(s) <= Len(Texts(form))
  BY <1>1 DEF PartOf
<1>3. ASSUME NEW k \in 1 .. Len(s) PROVE s[k].t = Texts(form)[k] /\ s[k].of = r
  <2>1. k \in 1 .. Len(Texts(form))
    BY <1>1, <1>2
  <2>2. s[k] = Response(r, form)[k]
    BY DEF PartOf
  <2>3. s[k] = [of |-> r, at |-> k, t |-> Texts(form)[k]]
    BY <1>1, <2>1, <2>2
  <2> QED
    BY <2>3
<1>4. s # <<>>
  BY <1>2
<1> QED
  BY <1>2, <1>3, <1>4

\* A status is where a response begins, and nowhere else in it.
LEMMA StatusFirst ==
  ASSUME NEW form \in AllShapes
  PROVE  \A k \in 2 .. Len(Texts(form)) : Texts(form)[k] \notin {"200", "204"}
<1>1. CASE form = "length"
  <2>1. Texts(form) = <<"200", "nl", "other", "nl", "length", "nl", "nl", "b", "b">>
    BY <1>1, Spelt
  <2> QED
    BY <2>1
<1>2. CASE form = "lengthClose"
  <2>1. Texts(form) = <<"200", "nl", "length", "nl", "close", "nl", "nl", "b", "b">>
    BY <1>2, Spelt
  <2> QED
    BY <2>1
<1>3. CASE form = "chunked"
  <2>1. Texts(form) = <<"200", "nl", "chunked", "nl", "nl", "size", "nl", "b", "b", "nl", "zero", "nl", "nl">>
    BY <1>3, Spelt
  <2> QED
    BY <2>1
<1>4. CASE form = "nobody"
  <2>1. Texts(form) = <<"204", "nl", "nl">>
    BY <1>4, Spelt
  <2> QED
    BY <2>1
<1>5. CASE form = "untilClose"
  <2>1. Texts(form) = <<"200", "nl", "close", "nl", "nl", "b", "b">>
    BY <1>5, Spelt
  <2> QED
    BY <2>1
<1>6. CASE form = "malformed"
  <2>1. Texts(form) = <<"200", "nl", "chunked", "nl", "nl", "b", "b", "nl">>
    BY <1>6, Spelt
  <2> QED
    BY <2>1
<1> QED
  BY <1>1, <1>2, <1>3, <1>4, <1>5, <1>6 DEF AllShapes

\* The client finds the end of the head, and the headers in it.
LEMMA HeadRead ==
  ASSUME NEW r, NEW form \in AllShapes, NEW s, PartOf(s, r, form)
  PROVE  /\ HeadEnd(s) = HeadLen(form)
         /\ s[1].t = IF form = "nobody" THEN "204" ELSE "200"
         /\ HasHeader(s, "chunked") <=> form \in {"chunked", "malformed"}
         /\ HasHeader(s, "length") <=> form \in {"length", "lengthClose"}
         /\ HasHeader(s, "close") <=> form \in {"lengthClose", "untilClose"}
<1> DEFINE h == HeadLen(form)
           T == Texts(form)
<1>1. /\ Len(s) \in Nat /\ h \in 2 .. Len(s)
      /\ \A k \in 1 .. Len(s) : s[k].t = T[k]
  BY PartIs
<1>2. \A j \in 2 .. h : (T[j] = "nl" /\ T[j - 1] = "nl") <=> j = h
  BY HeadFirst
<1>3. /\ T[1] = IF form = "nobody" THEN "204" ELSE "200"
      /\ (\E j \in 1 .. h : T[j] = "chunked") <=> form \in {"chunked", "malformed"}
      /\ (\E j \in 1 .. h : T[j] = "length") <=> form \in {"length", "lengthClose"}
      /\ (\E j \in 1 .. h : T[j] = "close") <=> form \in {"lengthClose", "untilClose"}
  BY HeadTexts
<1> HIDE DEF h, T
<1>4. BlankLines(s) \subseteq Nat /\ h \in BlankLines(s) /\ \A y \in BlankLines(s) : h <= y
  BY <1>1, <1>2 DEF BlankLines
<1>5. HeadEnd(s) = h
  BY <1>4, MinIs DEF HeadEnd
<1>6. \A name : HasHeader(s, name) <=> \E j \in 1 .. h : T[j] = name
  BY <1>1, <1>5 DEF HasHeader
<1>7. HasHeader(s, "chunked") <=> form \in {"chunked", "malformed"}
  BY <1>3, <1>6
<1>8. HasHeader(s, "length") <=> form \in {"length", "lengthClose"}
  BY <1>3, <1>6
<1>9. HasHeader(s, "close") <=> form \in {"lengthClose", "untilClose"}
  BY <1>3, <1>6
<1>10. s[1].t = IF form = "nobody" THEN "204" ELSE "200"
  BY <1>1, <1>3
<1> QED
  BY <1>5, <1>7, <1>8, <1>9, <1>10 DEF h


-----------------------------------------------------------------------------
(* Lemmas: chunks *)

\* One step of the walk over the chunks of s, from position i; f goes on.
ChunkAt(f, s, i) ==
  IF \A j \in i .. Len(s) : s[j].t # "nl" THEN "more"
  ELSE IF s[i].t \in {"nl", "zero"}       THEN "complete"
  ELSE IF s[i].t # "size"                 THEN "bad"
  ELSE IF Len(s) < i + 2 + BodyLen        THEN "more" ELSE f[i + 3 + BodyLen]

\* A walk over at most one chunk is what the recursion says.
LEMMA ChunksWalk ==
  ASSUME NEW s, Len(s) \in Nat, NEW n \in Nat,
         \A i \in 1 .. Len(s) : s[i].t = "size" => i = n
  PROVE  \E f : (\A i \in Nat : f[i] = ChunkAt(f, s, i)) /\ Chunks(s) = f[HeadEnd(s) + 1]
<1> DEFINE stop == [i \in Nat |-> "more"]
           first == [i \in Nat |-> ChunkAt(stop, s, i)]
           g == [i \in Nat |-> ChunkAt(first, s, i)]
           G == [i \in Nat |-> ChunkAt(g, s, i)]
           F == CHOOSE F : F = [i \in Nat |->
                  IF \A j \in i .. Len(s) : s[j].t # "nl" THEN "more"
                  ELSE IF s[i].t \in {"nl", "zero"}       THEN "complete"
                  ELSE IF s[i].t # "size"                 THEN "bad"
                  ELSE IF Len(s) < i + 2 + BodyLen        THEN "more" ELSE F[i + 3 + BodyLen]]
<1>1. Chunks(s) = F[HeadEnd(s) + 1]
  BY DEF Chunks
<1>2. ASSUME NEW u, NEW v, NEW i \in Nat, u[i + 3 + BodyLen] = v[i + 3 + BodyLen]
      PROVE  ChunkAt(u, s, i) = ChunkAt(v, s, i)
  BY <1>2 DEF ChunkAt
<1>3. ASSUME NEW i \in Nat \ {0} PROVE g[i] = G[i]
  <2> DEFINE j == i + 3 + BodyLen
  <2>1. CASE s[i].t = "size" /\ i <= Len(s) /\ j <= Len(s)
    <3>1. j \in 1 .. Len(s) /\ i \in 1 .. Len(s) /\ j # i
      BY <2>1 DEF BodyLen
    <3>2. s[j].t # "size"
      BY <2>1, <3>1
    <3>3. ChunkAt(stop, s, j) = ChunkAt(first, s, j)
      BY <3>2 DEF ChunkAt
    <3>4. first[j] = g[j]
      BY <3>1, <3>3
    <3> HIDE DEF first, g
    <3>5. ChunkAt(first, s, i) = ChunkAt(g, s, i)
      BY <1>2, <3>4
    <3> QED
      BY <3>5 DEF g
  <2>2. CASE s[i].t = "size" /\ i <= Len(s) /\ j > Len(s)
    <3>1. j \in Nat /\ j .. Len(s) = {}
      BY <2>2 DEF BodyLen
    <3>2. ChunkAt(stop, s, j) = "more" /\ ChunkAt(first, s, j) = "more"
      BY <3>1 DEF ChunkAt
    <3>3. first[j] = g[j]
      BY <3>1, <3>2
    <3> HIDE DEF first, g
    <3>4. ChunkAt(first, s, i) = ChunkAt(g, s, i)
      BY <1>2, <3>3
    <3> QED
      BY <3>4 DEF g
  <2>3. CASE ~(s[i].t = "size" /\ i <= Len(s))
    <3> HIDE DEF first, stop
    <3>1. CASE i > Len(s)
      <4>1. i .. Len(s) = {}
        BY <3>1
      <4>2. ChunkAt(first, s, i) = "more" /\ ChunkAt(g, s, i) = "more"
        BY <4>1 DEF ChunkAt
      <4> QED
        BY <4>2
    <3>2. CASE s[i].t # "size"
      <4>1. ChunkAt(first, s, i) = ChunkAt(g, s, i)
        BY <3>2 DEF ChunkAt
      <4> QED
        BY <4>1
    <3> QED
      BY <2>3, <3>1, <3>2
  <2> QED
    BY <2>1, <2>2, <2>3 DEF BodyLen
<1>4. ASSUME NEW i \in Nat PROVE ChunkAt(g, s, i) = ChunkAt(G, s, i)
  <2>1. i + 3 + BodyLen \in Nat \ {0}
    BY DEF BodyLen
  <2>2. g[i + 3 + BodyLen] = G[i + 3 + BodyLen]
    BY <1>3, <2>1
  <2> HIDE DEF g, G
  <2> QED
    BY <1>2, <2>2
<1> HIDE DEF g
<1>5. G = [i \in Nat |-> ChunkAt(G, s, i)]
  BY <1>4
<1> HIDE DEF G
<1>6. F = [i \in Nat |-> ChunkAt(F, s, i)]
  <2> DEFINE Walk(H) == [i \in Nat |-> ChunkAt(H, s, i)]
  <2>1. F = CHOOSE H : H = Walk(H)
    BY DEF ChunkAt
  <2>2. G = Walk(G)
    BY <1>5
  <2> HIDE DEF F, Walk
  <2>3. F = Walk(F)
    BY <2>1, <2>2
  <2> QED
    BY <2>3 DEF Walk
<1> HIDE DEF F
<1>7. \A i \in Nat : F[i] = ChunkAt(F, s, i)
  BY <1>6
<1> QED
  BY <1>1, <1>7

\* A chunked body is whole when its last chunk is read, and the line after its name.
LEMMA ChunkedRead ==
  ASSUME NEW r, NEW s, PartOf(s, r, "chunked")
  PROVE  Chunks(s) = IF Len(s) >= 12 THEN "complete" ELSE "more"
<1> DEFINE T == Texts("chunked")
           h == HeadLen("chunked")
           n == Len(T)
<1>1. /\ Len(s) \in 5 .. 13 /\ HeadEnd(s) = 5
      /\ \A k \in 1 .. Len(s) : s[k].t = T[k]
  <2>1. "chunked" \in AllShapes
    BY DEF AllShapes
  <2>2. n = 13 /\ h = 5
    BY Lengths
  <2>3. /\ Len(s) \in Nat /\ h \in 2 .. Len(s) /\ Len(s) <= n
        /\ \A k \in 1 .. Len(s) : s[k].t = T[k]
    BY <2>1, PartIs
  <2>4. HeadEnd(s) = h
    BY <2>1, HeadRead
  <2> HIDE DEF T, h, n
  <2>5. h <= Len(s)
    BY <2>3
  <2>6. Len(s) \in Nat /\ Len(s) <= n
    BY <2>3
  <2>7. Len(s) >= h /\ Len(s) \in Nat /\ Len(s) <= n /\ n \in Nat /\ h \in Nat
    BY ONLY <2>2, <2>5, <2>6
  <2>8. Len(s) \in h .. n
    BY ONLY <2>7
  <2> QED
    BY ONLY <2>2, <2>3, <2>4, <2>8
<1>2. T = <<"200", "nl", "chunked", "nl", "nl", "size", "nl", "b", "b", "nl", "zero", "nl", "nl">>
  BY Spelt
<1> HIDE DEF T, h, n
<1>3. \A k \in 1 .. Len(s) : s[k].t = "size" <=> k = 6
  <2>1. \A k \in 1 .. 13 : T[k] = "size" <=> k = 6
    BY <1>2
  <2>2. ASSUME NEW k \in 1 .. Len(s) PROVE k \in 1 .. 13 /\ s[k].t = T[k]
    BY <1>1
  <2> QED
    BY <2>1, <2>2
<1>4. PICK f : (\A i \in Nat : f[i] = ChunkAt(f, s, i)) /\ Chunks(s) = f[6]
  <2>1. Len(s) \in Nat /\ HeadEnd(s) + 1 = 6
    BY <1>1
  <2>2. \E f : (\A i \in Nat : f[i] = ChunkAt(f, s, i)) /\ Chunks(s) = f[HeadEnd(s) + 1]
    <3>1. \A k \in 1 .. Len(s) : s[k].t = "size" => k = 6
      BY <1>3
    <3> QED
      BY ONLY <2>1, <3>1, 6 \in Nat, ChunksWalk
  <2> QED
    BY <2>1, <2>2
<1>5. f[6] = ChunkAt(f, s, 6) /\ f[11] = ChunkAt(f, s, 11)
  BY <1>4
<1>6. /\ Len(s) >= 6 => s[6].t = "size"
      /\ Len(s) >= 7 => s[7].t = "nl"
      /\ Len(s) >= 11 => s[11].t = "zero"
      /\ Len(s) >= 12 => s[12].t = "nl"
  <2>1. T[6] = "size" /\ T[7] = "nl" /\ T[11] = "zero" /\ T[12] = "nl"
    BY <1>2
  <2> QED
    BY <1>1, <2>1
<1>7. f[11] = IF Len(s) >= 12 THEN "complete" ELSE "more"
  <2>1. CASE Len(s) >= 12
    <3>1. 12 \in 11 .. Len(s) /\ s[12].t = "nl" /\ s[11].t = "zero"
      BY <1>1, <1>6, <2>1
    <3> QED
      BY <1>5, <2>1, <3>1 DEF ChunkAt
  <2>2. CASE ~(Len(s) >= 12)
    <3>1. \A j \in 11 .. Len(s) : j = 11 /\ Len(s) >= 11
      BY <1>1, <2>2
    <3>2. \A j \in 11 .. Len(s) : s[j].t # "nl"
      BY <1>6, <3>1
    <3> QED
      BY <1>5, <2>2, <3>2 DEF ChunkAt
  <2> QED
    BY <2>1, <2>2
<1>8. f[6] = IF Len(s) >= 10 THEN f[11] ELSE "more"
  <2>1. CASE Len(s) >= 7
    <3>1. 7 \in 6 .. Len(s) /\ s[7].t = "nl" /\ s[6].t = "size"
      BY <1>1, <1>6, <2>1
    <3>2. f[6] = IF Len(s) < 6 + 2 + BodyLen THEN "more" ELSE f[6 + 3 + BodyLen]
      BY <1>5, <3>1 DEF ChunkAt
    <3> QED
      BY <1>1, <3>2 DEF BodyLen
  <2>2. CASE ~(Len(s) >= 7)
    <3>1. \A j \in 6 .. Len(s) : j = 6 /\ Len(s) >= 6
      BY <1>1, <2>2
    <3>2. \A j \in 6 .. Len(s) : s[j].t # "nl"
      BY <1>6, <3>1
    <3>3. f[6] = "more"
      BY <1>5, <3>2 DEF ChunkAt
    <3> QED
      BY <1>1, <2>2, <3>3
  <2> QED
    BY <2>1, <2>2
<1> QED
  BY <1>1, <1>4, <1>7, <1>8

\* A malformed one is found out, and is never whole.
LEMMA MalformedRead ==
  ASSUME NEW r, NEW s, PartOf(s, r, "malformed")
  PROVE  Chunks(s) \in {"more", "bad"}
<1> DEFINE T == Texts("malformed")
           h == HeadLen("malformed")
           n == Len(T)
<1>1. /\ Len(s) \in 5 .. 8 /\ HeadEnd(s) = 5
      /\ \A k \in 1 .. Len(s) : s[k].t = T[k]
  <2>1. "malformed" \in AllShapes
    BY DEF AllShapes
  <2>2. n = 8 /\ h = 5
    BY Lengths
  <2>3. /\ Len(s) \in Nat /\ h \in 2 .. Len(s) /\ Len(s) <= n
        /\ \A k \in 1 .. Len(s) : s[k].t = T[k]
    <3> DEFINE form == "malformed"
    <3>1. form \in AllShapes /\ PartOf(s, r, form)
      BY <2>1
    <3> HIDE DEF T, h, n, form
    <3>2. /\ Len(s) \in Nat /\ HeadLen(form) \in 2 .. Len(s) /\ Len(s) <= Len(Texts(form))
          /\ \A k \in 1 .. Len(s) : s[k].t = Texts(form)[k] /\ s[k].of = r
      BY ONLY <3>1, PartIs
    <3> QED
      BY <3>2 DEF T, h, n, form
  <2>4. HeadEnd(s) = h
    BY <2>1, HeadRead
  <2> HIDE DEF T, h, n
  <2>5. h <= Len(s)
    BY <2>3
  <2>6. Len(s) \in Nat /\ Len(s) <= n
    BY <2>3
  <2>7. Len(s) >= h /\ Len(s) \in Nat /\ Len(s) <= n /\ n \in Nat /\ h \in Nat
    BY ONLY <2>2, <2>5, <2>6
  <2>8. Len(s) \in h .. n
    BY ONLY <2>7
  <2> QED
    BY ONLY <2>2, <2>3, <2>4, <2>8
<1>2. T = <<"200", "nl", "chunked", "nl", "nl", "b", "b", "nl">>
  BY Spelt
<1> HIDE DEF T, h, n
<1>3. \A k \in 1 .. Len(s) : s[k].t # "size"
  <2>1. \A k \in 1 .. 8 : T[k] # "size"
    BY <1>2
  <2>2. ASSUME NEW k \in 1 .. Len(s) PROVE k \in 1 .. 8 /\ s[k].t = T[k]
    BY <1>1
  <2> QED
    BY <2>1, <2>2
<1>4. PICK f : (\A i \in Nat : f[i] = ChunkAt(f, s, i)) /\ Chunks(s) = f[6]
  <2>1. Len(s) \in Nat /\ HeadEnd(s) + 1 = 6
    BY <1>1
  <2>2. \E f : (\A i \in Nat : f[i] = ChunkAt(f, s, i)) /\ Chunks(s) = f[HeadEnd(s) + 1]
    BY <1>3, <2>1, ChunksWalk
  <2> QED
    BY <2>1, <2>2
<1>5. f[6] = ChunkAt(f, s, 6) /\ (Len(s) >= 6 => s[6].t = "b")
  BY <1>1, <1>2, <1>4
<1>6. (\A j \in 6 .. Len(s) : s[j].t # "nl") \/ Len(s) >= 6
  BY <1>1
<1> QED
  BY <1>1, <1>4, <1>5, <1>6 DEF ChunkAt


-----------------------------------------------------------------------------
(* Lemmas: the verdicts of corRestClientParse.c *)

\* What is found whole is a response that says where it ends, all of it but for the
\* line end after the last chunk.
LEMMA WholeRead ==
  ASSUME NEW r, NEW form \in AllShapes, NEW s, PartOf(s, r, form), Complete(s) = "complete"
  PROVE  \/ form = "chunked" /\ Len(s) \in {12, 13} /\ Chunks(s) = "complete"
         \/ form \in {"length", "lengthClose"} /\ Len(s) = 9
         \/ form = "nobody" /\ Len(s) = 3
<1> DEFINE h == HeadLen(form)
           n == Len(Texts(form))
           m == Len(s)
<1>1. m \in Nat /\ h \in 2 .. m /\ m <= n
  BY PartIs
<1>2. /\ HeadEnd(s) = h
      /\ s[1].t = IF form = "nobody" THEN "204" ELSE "200"
      /\ HasHeader(s, "chunked") <=> form \in {"chunked", "malformed"}
      /\ HasHeader(s, "length") <=> form \in {"length", "lengthClose"}
      /\ HasHeader(s, "close") <=> form \in {"lengthClose", "untilClose"}
  BY HeadRead
<1>3. CASE form = "chunked"
  <2>1. Chunks(s) = "complete"
    BY <1>1, <1>2, <1>3 DEF Complete
  <2>2. m >= 12
    BY <1>3, <2>1, ChunkedRead
  <2>3. n = 13
    BY <1>3, Lengths
  <2> HIDE DEF n, h, m
  <2>4. m \in {12, 13}
    BY ONLY <1>1, <2>2, <2>3
  <2> QED
    BY <1>3, <2>1, <2>4 DEF m
<1>4. CASE form = "malformed"
  <2>1. Chunks(s) = "complete"
    BY <1>1, <1>2, <1>4 DEF Complete
  <2> QED
    BY <1>4, <2>1, MalformedRead
<1>5. CASE form \in {"length", "lengthClose"}
  <2>1. m - h >= BodyLen
    BY <1>1, <1>2, <1>5 DEF Complete
  <2>2. n = 9 /\ h = 7
    <3>1. form = "length" \/ form = "lengthClose"
      BY <1>5
    <3> QED
      BY <3>1, Lengths
  <2> HIDE DEF n, h, m
  <2>3. m = 9
    BY ONLY <1>1, <2>1, <2>2 DEF BodyLen
  <2> QED
    BY <1>5, <2>3 DEF m
<1>6. CASE form = "nobody"
  <2>1. n = 3 /\ h = 3
    BY <1>6, Lengths
  <2> HIDE DEF n, h, m
  <2>2. m = 3
    BY ONLY <1>1, <2>1
  <2> QED
    BY <1>6, <2>2 DEF m
<1>7. CASE form = "untilClose"
  <2>1. /\ HeadEnd(s) # 0 /\ ~HasHeader(s, "chunked") /\ ~HasHeader(s, "length")
        /\ s[1].t # "204" /\ HasHeader(s, "close")
    BY <1>1, <1>2, <1>7
  <2> QED
    BY <2>1 DEF Complete
<1> QED
  BY <1>3, <1>4, <1>5, <1>6, <1>7 DEF AllShapes

\* What comes after it is line ends.
LEMMA AfterWhole ==
  ASSUME NEW form \in AllShapes, NEW n,
         \/ form = "chunked" /\ n \in {12, 13}
         \/ form \in {"length", "lengthClose"} /\ n = 9
         \/ form = "nobody" /\ n = 3
  PROVE  n \in Nat /\ \A k \in (n + 1) .. Len(Texts(form)) : Texts(form)[k] = "nl"
<1>1. CASE form = "chunked" /\ n \in {12, 13}
  <2>1. Len(Texts(form)) = 13
    BY <1>1, Lengths, Zenon
  <2>2. Texts(form) = <<"200", "nl", "chunked", "nl", "nl", "size", "nl", "b", "b", "nl", "zero", "nl", "nl">>
    BY <1>1, Spelt
  <2>3. Texts(form)[13] = "nl"
    BY <2>2
  <2> QED
    BY <1>1, <2>1, <2>3
<1>2. CASE form \in {"length", "lengthClose"} /\ n = 9
  <2>1. Len(Texts(form)) = 9
    BY <1>2, Lengths
  <2> QED
    BY <1>2, <2>1
<1>3. CASE form = "nobody" /\ n = 3
  <2>1. Len(Texts(form)) = 3
    BY <1>3, Lengths
  <2> QED
    BY <1>3, <2>1
<1> QED
  BY <1>1, <1>2, <1>3

\* What follows the head.
LEMMA RestIs ==
  ASSUME NEW r, NEW form \in AllShapes, NEW s, PartOf(s, r, form)
  PROVE  /\ Rest(s) \in Seq(ToSet(Response(r, form)))
         /\ Len(Rest(s)) = Len(s) - HeadLen(form)
         /\ \A k \in 1 .. Len(Rest(s)) : Rest(s)[k] = s[HeadLen(form) + k]
<1> DEFINE h == HeadLen(form)
           S == ToSet(Response(r, form))
<1>1. s \in Seq(S) /\ Len(s) \in Nat /\ h \in 2 .. Len(s) /\ HeadEnd(s) = h
  BY PartIs, HeadRead DEF PartOf
<1>2. Rest(s) = SubSeq(s, h + 1, Len(s))
  BY <1>1 DEF Rest
<1> HIDE DEF h, S
<1>3. \A k \in 1 .. Len(s) : s[k] \in S
  BY <1>1
<1>4. SubSeq(s, h + 1, Len(s)) \in Seq(S)
  BY <1>1, <1>3
<1>5. Len(SubSeq(s, h + 1, Len(s))) = Len(s) - h
  BY <1>1
<1>6. \A k \in 1 .. (Len(s) - h) : SubSeq(s, h + 1, Len(s))[k] = s[h + k]
  BY <1>1
<1> QED
  BY <1>2, <1>4, <1>5, <1>6 DEF h, S


\* The body of a response with a length, or in chunks, is its two bytes.
LEMMA BodyIs ==
  ASSUME NEW r, NEW form \in {"length", "lengthClose", "chunked"}
  PROVE  BodyOf(r, form) = <<Response(r, form)[8], Response(r, form)[9]>>
<1> DEFINE R == Response(r, form)
           m == Len(R)
           T == Texts(form)
<1>1. form \in AllShapes
  BY DEF AllShapes
<1>2. m \in Nat /\ m = Len(T) /\ \A k \in 1 .. m : R[k].t = T[k]
  BY <1>1, TokenIs
<1>3. m >= 9 /\ \A k \in 1 .. m : T[k] = "b" <=> k \in {8, 9}
  <2>1. CASE form = "length"
    <3>1. T = <<"200", "nl", "other", "nl", "length", "nl", "nl", "b", "b">> /\ Len(T) = 9
      BY <2>1, Spelt, Lengths
    <3> HIDE DEF T, m
    <3> QED
      BY <1>2, <3>1
  <2>2. CASE form = "lengthClose"
    <3>1. T = <<"200", "nl", "length", "nl", "close", "nl", "nl", "b", "b">> /\ Len(T) = 9
      BY <2>2, Spelt, Lengths
    <3> HIDE DEF T, m
    <3> QED
      BY <1>2, <3>1
  <2>3. CASE form = "chunked"
    <3>1. T = <<"200", "nl", "chunked", "nl", "nl", "size", "nl", "b", "b", "nl", "zero", "nl", "nl">>
          /\ Len(T) = 13
      BY <2>3, Spelt, Lengths
    <3> HIDE DEF T, m
    <3> QED
      BY <1>2, <3>1
  <2> QED
    BY <2>1, <2>2, <2>3
<1> HIDE DEF R, T
<1>4. \A k \in 1 .. m : R[k].t = "b" <=> k \in {8, 9}
  BY <1>2, <1>3
<1>5. 8 \in 1 .. m /\ 8 + 1 <= m /\ 8 + 1 = 9
  <2> HIDE DEF m
  <2> QED
    BY <1>2, <1>3
<1>6. Bytes(R) = <<R[8], R[8 + 1]>>
  <2>1. \A k \in 1 .. m : R[k].t = "b" <=> k \in {8, 8 + 1}
    BY <1>4, <1>5
  <2> QED
    BY <1>2, <1>5, <2>1, TwoBytes
<1> QED
  BY <1>5, <1>6 DEF BodyOf, R

\* A response without one has none.
LEMMA NoBody ==
  ASSUME NEW r
  PROVE  BodyOf(r, "nobody") = <<>>
<1> DEFINE R == Response(r, "nobody")
           m == Len(R)
           T == Texts("nobody")
<1>1. m = Len(T) /\ \A k \in 1 .. m : R[k].t = T[k]
  <2>1. "nobody" \in AllShapes
    BY DEF AllShapes
  <2> QED
    BY <2>1, TokenIs
<1>2. T = <<"204", "nl", "nl">> /\ Len(T) = 3
  BY Spelt, Lengths
<1>3. m = 3
  BY <1>1, <1>2
<1> HIDE DEF R, T, m
<1>4. m \in Nat /\ \A k \in 1 .. m : R[k].t # "b"
  BY <1>1, <1>2, <1>3
<1> QED
  BY <1>4, NoBytes DEF BodyOf, R, m

\* A part of a response without its body yet has line ends, and starts with a status.
LEMMA PartBegins ==
  ASSUME NEW r, NEW form \in AllShapes, NEW s, PartOf(s, r, form)
  PROVE  ~(\A j \in DOMAIN s : s[j].t # "nl") /\ s[1].t \in {"200", "204"} /\ HeadEnd(s) # 0
<1> DEFINE h == HeadLen(form)
           m == Len(s)
<1>1. /\ m \in Nat /\ h \in 2 .. m /\ h \in 2 .. h
      /\ \A k \in 1 .. m : s[k].t = Texts(form)[k]
  <2>1. m \in Nat /\ h \in 2 .. m /\ \A k \in 1 .. m : s[k].t = Texts(form)[k]
    BY PartIs
  <2> HIDE DEF h, m
  <2> QED
    BY <2>1
<1>2. Texts(form)[h] = "nl"
  BY <1>1, HeadFirst
<1>3. DOMAIN s = 1 .. m
  BY DEF PartOf
<1>4. s[1].t \in {"200", "204"} /\ HeadEnd(s) # 0
  <2>1. HeadEnd(s) = h /\ s[1].t = IF form = "nobody" THEN "204" ELSE "200"
    BY HeadRead
  <2> HIDE DEF h, m
  <2> QED
    BY <1>1, <2>1
<1> HIDE DEF h, m
<1> QED
  BY <1>1, <1>2, <1>3, <1>4

\* What is found whole parses, and its body is the response's.
LEMMA WholeParses ==
  ASSUME NEW r, NEW form \in AllShapes, NEW s, PartOf(s, r, form), Complete(s) = "complete"
  PROVE  Parse(s, FALSE) = "ok" /\ ParsedBody(s, FALSE) = BodyOf(r, form)
<1> DEFINE R == Response(r, form)
           h == HeadLen(form)
           m == Len(s)
           u == Rest(s)
           n == Len(u)
<1>1. /\ u \in Seq(ToSet(R)) /\ n = m - h
      /\ \A k \in 1 .. n : u[k] = s[h + k]
      /\ \A k \in 1 .. m : s[k] = R[k] /\ s[k].t = Texts(form)[k]
  BY RestIs, PartIs DEF PartOf
<1>2. /\ Sees(s, "chunked", FALSE) <=> form \in {"chunked", "malformed"}
      /\ Sees(s, "length", FALSE) <=> form \in {"length", "lengthClose"}
      /\ Sees(s, "close", FALSE) <=> form \in {"lengthClose", "untilClose"}
      /\ s[1].t = IF form = "nobody" THEN "204" ELSE "200"
  BY HeadRead DEF Sees
<1>3. ~(\A j \in DOMAIN s : s[j].t # "nl") /\ s[1].t \in {"200", "204"} /\ HeadEnd(s) # 0
  BY PartBegins
<1>4. CASE form = "chunked" /\ m \in {12, 13} /\ Chunks(s) = "complete"
  <2>1. Parse(s, FALSE) = "ok"
    BY <1>2, <1>3, <1>4 DEF Parse
  <2>2. h = 5 /\ Texts(form) = <<"200", "nl", "chunked", "nl", "nl", "size", "nl", "b", "b", "nl", "zero", "nl", "nl">>
    BY <1>4, Lengths, Spelt
  <2>3. ParsedBody(s, FALSE) = Bytes(u) /\ BodyOf(r, form) = <<R[8], R[9]>>
    BY <1>2, <1>4, BodyIs DEF ParsedBody
  <2> HIDE DEF R, h, u, m, n
  <2>4. n \in {7, 8} /\ \A k \in 1 .. n : 5 + k \in 1 .. m /\ u[k] = R[5 + k] /\ u[k].t = Texts(form)[5 + k]
    <3>1. n = m - 5 /\ m \in {12, 13} /\ h = 5
      BY <1>1, <1>4, <2>2
    <3>2. n \in {7, 8} /\ \A k \in 1 .. n : 5 + k \in 1 .. m
      BY <3>1
    <3>3. \A k \in 1 .. n : u[k] = s[5 + k]
      BY <1>1, <3>1
    <3> QED
      BY <1>1, <3>2, <3>3
  <2>5. \A k \in 1 .. 8 : Texts(form)[5 + k] = "b" <=> k \in {3, 4}
    BY <2>2
  <2>6. n \in Nat /\ 3 \in 1 .. n /\ 3 + 1 <= n /\ \A k \in 1 .. n : u[k].t = "b" <=> k \in {3, 3 + 1}
    BY <2>4, <2>5
  <2>7. u[3] = R[8] /\ u[4] = R[9]
    BY <2>4
  <2>8. Bytes(u) = <<u[3], u[4]>>
    <3>1. Bytes(u) = <<u[3], u[3 + 1]>>
      BY <2>6, TwoBytes DEF n
    <3> QED
      BY <3>1
  <2>9. ParsedBody(s, FALSE) = BodyOf(r, form)
    BY <2>3, <2>7, <2>8
  <2> QED
    BY <2>1, <2>9
<1>5. CASE form \in {"length", "lengthClose"} /\ m = 9
  <2>1. h = 7
    <3>1. form = "length" \/ form = "lengthClose"
      BY <1>5
    <3> QED
      BY <3>1, Lengths
  <2>2. ParsedBody(s, FALSE) = SubSeq(u, 1, 2) /\ BodyOf(r, form) = <<R[8], R[9]>>
    BY <1>2, <1>5, BodyIs DEF ParsedBody, BodyLen
  <2>3. ~Sees(s, "chunked", FALSE) /\ Sees(s, "length", FALSE)
    BY <1>2, <1>5
  <2> HIDE DEF R, h, m
  <2>4. n = 2 /\ u[1] = R[8] /\ u[2] = R[9]
    <3> HIDE DEF n, u
    <3> QED
      BY <1>1, <1>5, <2>1
  <2>5. Parse(s, FALSE) = "ok"
    BY <1>3, <2>3, <2>4 DEF Parse, BodyLen
  <2> HIDE DEF u
  <2>6. SubSeq(u, 1, 2) = <<R[8], R[9]>>
    <3>1. u \in Seq(ToSet(R)) /\ Len(u) = 2
      BY <1>1, <2>4
    <3>2. SubSeq(u, 1, 2) = <<u[1], u[2]>>
      BY <3>1, BothOf
    <3> QED
      BY <2>4, <3>2
  <2> QED
    BY <2>2, <2>5, <2>6
<1>6. CASE form = "nobody" /\ m = 3
  <2>1. ~Sees(s, "chunked", FALSE) /\ ~Sees(s, "length", FALSE) /\ s[1].t # "200"
    BY <1>2, <1>6
  <2>2. Parse(s, FALSE) = "ok" /\ ParsedBody(s, FALSE) = <<>>
    BY <1>3, <2>1 DEF Parse, ParsedBody
  <2> QED
    BY <1>6, <2>2, NoBody
<1> QED
  BY <1>4, <1>5, <1>6, WholeRead


\* Its tokens are the response's.
LEMMA BodyTokens ==
  ASSUME NEW r, NEW form \in {"length", "lengthClose", "chunked", "nobody"}
  PROVE  BodyOf(r, form) \in Seq(ToSet(Response(r, form)))
<1> DEFINE R == Response(r, form)
           S == ToSet(R)
           n == Len(R)
<1>1. CASE form = "nobody"
  <2> HIDE DEF S
  <2>1. BodyOf(r, form) = <<>>
    BY <1>1, NoBody
  <2> QED
    BY <2>1 DEF S
<1>2. CASE form \in {"length", "lengthClose", "chunked"}
  <2>1. BodyOf(r, form) = <<R[8], R[9]>>
    BY <1>2, BodyIs
  <2>2. n \in {9, 13} /\ R \in Seq(S)
    <3>1. form \in AllShapes
      BY DEF AllShapes
    <3>2. n = Len(Texts(form)) /\ R \in Seq(S)
      BY <3>1, ResponseIs
    <3>3. CASE form = "length"
      BY <3>2, <3>3, Lengths
    <3>4. CASE form = "lengthClose"
      BY <3>2, <3>4, Lengths
    <3>5. CASE form = "chunked"
      BY <3>2, <3>5, Lengths
    <3> QED
      BY <1>2, <3>3, <3>4, <3>5
  <2>3. R[8] \in S /\ R[9] \in S
    <3> HIDE DEF R, S
    <3>1. \A k \in 1 .. n : R[k] \in S
      BY <2>2
    <3> HIDE DEF n
    <3> QED
      BY <2>2, <3>1
  <2> HIDE DEF R, S
  <2>4. <<R[8], R[9]>> \in Seq(S)
    BY <2>3
  <2>5. BodyOf(r, form) \in Seq(S)
    BY <2>1, <2>4
  <2> QED
    BY <2>5 DEF S, R
<1> QED
  BY <1>1, <1>2

\* What parses as a response gives a body of its tokens, if need be of none.
LEMMA ParsedTokens ==
  ASSUME NEW r, NEW form \in AllShapes, NEW s, PartOf(s, r, form),
         NEW x \in BOOLEAN, Parse(s, x) = "ok"
  PROVE  ParsedBody(s, x) \in Seq(ToSet(Response(r, form)))
<1> DEFINE S == ToSet(Response(r, form))
           u == Rest(s)
<1>1. /\ HasHeader(s, "chunked") <=> form \in {"chunked", "malformed"}
      /\ HasHeader(s, "length") <=> form \in {"length", "lengthClose"}
      /\ HeadEnd(s) # 0
  BY HeadRead, PartBegins
<1>2. u \in Seq(S)
  BY RestIs
<1>3. CASE x = TRUE
  <2>1. \A name : ~Sees(s, name, x)
    BY <1>3 DEF Sees
  <2>2. ParsedBody(s, x) = <<>>
    BY <2>1 DEF ParsedBody
  <2> QED
    BY <2>2
<1>4. CASE x = FALSE /\ HasHeader(s, "chunked")
  <2>1. Sees(s, "chunked", x)
    BY <1>4 DEF Sees
  <2>2. Chunks(s) \in {"complete", "ok"}
    BY <1>1, <2>1, PartBegins DEF Parse
  <2>3. form = "chunked" /\ Chunks(s) = "complete"
    <3>1. CASE form = "malformed"
      BY <2>2, <3>1, MalformedRead
    <3>2. CASE form = "chunked"
      BY <2>2, <3>2, ChunkedRead
    <3> QED
      BY <1>1, <1>4, <3>1, <3>2
  <2>4. Complete(s) = "complete"
    BY <1>1, <1>4, <2>3 DEF Complete
  <2>5. ParsedBody(s, x) = BodyOf(r, form)
    BY <1>4, <2>4, WholeParses
  <2> QED
    BY <2>3, <2>5, BodyTokens
<1>5. CASE x = FALSE /\ ~HasHeader(s, "chunked") /\ HasHeader(s, "length")
  <2>1. ~Sees(s, "chunked", x) /\ Sees(s, "length", x)
    BY <1>5 DEF Sees
  <2>2. ParsedBody(s, x) = SubSeq(u, 1, BodyLen)
    BY <2>1 DEF ParsedBody
  <2>3. ~(Len(u) < BodyLen)
    BY <1>1, <2>1, PartBegins DEF Parse
  <2> HIDE DEF u, S
  <2>4. SubSeq(u, 1, 2) \in Seq(S)
    BY <1>2, <2>3 DEF BodyLen
  <2> QED
    BY <2>2, <2>4 DEF BodyLen, S
<1>6. CASE x = FALSE /\ ~HasHeader(s, "chunked") /\ ~HasHeader(s, "length")
  <2>1. ~Sees(s, "chunked", x) /\ ~Sees(s, "length", x)
    BY <1>6 DEF Sees
  <2>2. ParsedBody(s, x) = u \/ ParsedBody(s, x) = <<>>
    BY <2>1 DEF ParsedBody
  <2> HIDE DEF u, S
  <2>3. <<>> \in Seq(S)
    OBVIOUS
  <2> QED
    BY <1>2, <2>2, <2>3 DEF S
<1> QED
  BY <1>3, <1>4, <1>5, <1>6

\* What begins with no status is never taken for a response.
LEMMA NoStatus ==
  ASSUME NEW s, s[1].t \notin {"200", "204"}, NEW x \in BOOLEAN
  PROVE  Parse(s, x) # "ok"
BY DEF Parse

\* A response whose empty line has not been read parses, if it does, without a body.
LEMMA NoBodyYet ==
  ASSUME NEW S, NEW s \in Seq(S), BlankLines(s) = {}, NEW x \in BOOLEAN, Parse(s, x) = "ok"
  PROVE  ParsedBody(s, x) = <<>>
<1>1. HeadEnd(s) # 0
  BY DEF Parse
<1>2. HeadEnd(s) = Len(s)
  BY <1>1 DEF HeadEnd
<1>3. Rest(s) = <<>> /\ Len(Rest(s)) = 0
  BY <1>2 DEF Rest
<1>4. Bytes(<<>>) = <<>>
  BY NoBytes
<1>5. CASE Sees(s, "chunked", x)
  BY <1>3, <1>4, <1>5 DEF ParsedBody
<1>6. CASE ~Sees(s, "chunked", x) /\ Sees(s, "length", x)
  <2>1. Len(Rest(s)) < BodyLen
    BY <1>3 DEF BodyLen
  <2> QED
    BY <1>6, <2>1 DEF Parse
<1>7. CASE ~Sees(s, "chunked", x) /\ ~Sees(s, "length", x)
  BY <1>3, <1>7 DEF ParsedBody
<1> QED
  BY <1>5, <1>6, <1>7

\* What only the end of the connection delimits, read to its end, parses, and its body
\* is what follows the head.
LEMMA UntilClose ==
  ASSUME NEW r
  PROVE  /\ Response(r, "untilClose") # <<>> /\ Parse(Response(r, "untilClose"), FALSE) = "ok"
         /\ ParsedBody(Response(r, "untilClose"), FALSE) = BodyOf(r, "untilClose")
<1> DEFINE form == "untilClose"
           s == Response(r, form)
<1>1. form \in AllShapes
  BY DEF AllShapes
<1>2. PartOf(s, r, form)
  <2>1. s \in Seq(ToSet(s)) /\ Len(s) = Len(Texts(form)) /\ Len(Texts(form)) \in Nat
        /\ HeadLen(form) \in 2 .. Len(Texts(form))
    BY <1>1, ResponseIs
  <2> QED
    BY <2>1 DEF PartOf
<1>3. s # <<>>
  BY <1>1, <1>2, PartIs
<1>4. ~Sees(s, "chunked", FALSE) /\ ~Sees(s, "length", FALSE)
  BY <1>1, <1>2, HeadRead DEF Sees
<1>5. ~(\A j \in DOMAIN s : s[j].t # "nl") /\ s[1].t \in {"200", "204"} /\ HeadEnd(s) # 0
  BY <1>1, <1>2, PartBegins
<1>6. Parse(s, FALSE) = "ok"
  BY <1>4, <1>5 DEF Parse
<1>7. s[1].t = "200" /\ Sees(s, "close", FALSE)
  BY <1>1, <1>2, HeadRead DEF Sees
<1>8. ParsedBody(s, FALSE) = Rest(s)
  BY <1>4, <1>7 DEF ParsedBody
<1> DEFINE T == Texts(form)
           m == Len(s)
           u == Rest(s)
<1>9. m = 7 /\ HeadLen(form) = 5 /\ \A k \in 1 .. m : s[k].t = T[k]
  <2>1. m = Len(T) /\ \A k \in 1 .. m : s[k].t = T[k]
    BY <1>1, TokenIs
  <2>2. Len(T) = 7 /\ HeadLen(form) = 5
    BY Lengths
  <2> QED
    BY <2>1, <2>2
<1>10. T = <<"200", "nl", "close", "nl", "nl", "b", "b">>
  BY Spelt
<1>11. u \in Seq(ToSet(s)) /\ Len(u) = m - HeadLen(form) /\ \A k \in 1 .. Len(u) : u[k] = s[HeadLen(form) + k]
  BY <1>1, <1>2, RestIs
<1>12. /\ u \in Seq(ToSet(s)) /\ Len(u) = 2 /\ u[1] = s[6] /\ u[2] = s[7]
  <2> HIDE DEF u, m, s
  <2> QED
    BY <1>9, <1>11
<1> HIDE DEF u
<1>13. u = <<s[6], s[7]>>
  <2> DEFINE v == <<u[1], u[2]>>
  <2>1. SubSeq(u, 1, 2) = v
    BY <1>12, BothOf
  <2>2. SubSeq(u, 1, 2) = u
    BY <1>12, SubSeqFull
  <2> QED
    BY <1>12, <2>1, <2>2
<1> HIDE DEF T
<1>14. Bytes(s) = <<s[6], s[6 + 1]>>
  <2>1. \A k \in 1 .. 7 : T[k] = "b" <=> k \in {6, 6 + 1}
    BY <1>10
  <2> HIDE DEF s, m
  <2>2. \A k \in 1 .. m : s[k].t = "b" <=> k \in {6, 6 + 1}
    BY <1>9, <2>1
  <2>3. m \in Nat /\ 6 \in 1 .. m /\ 6 + 1 <= m
    BY <1>9
  <2> QED
    BY <2>2, <2>3, TwoBytes DEF m
<1>15. BodyOf(r, form) = u
  <2>1. BodyOf(r, form) = Bytes(s)
    BY DEF BodyOf
  <2> HIDE DEF s
  <2> QED
    BY <1>13, <1>14, <2>1
<1> QED
  BY <1>3, <1>6, <1>8, <1>15 DEF u


-----------------------------------------------------------------------------
(* The inductive invariant                                                 *)

\* The lengths a response can have been cut to on its way.
Cuts(form) == 0 .. Len(Texts(form))

\* What is read, what is on its way and what is to come are the response to the request
\* that is under way, but for an end that a peer which closed leaves out.
InOrder ==
  LET R == Response(req, shape[req])
  IN  \E p, q \in Cuts(shape[req]) :
        /\ p <= q
        /\ buf = SubSeq(R, 1, p)
        /\ wire = SubSeq(R, p + 1, q)
        /\ out = IF closed THEN <<>> ELSE SubSeq(R, q + 1, Len(R))

\* The rest of an earlier response comes before it, which has no status.
LeftFirst ==
  /\ buf # <<>> => buf[1].t \notin {"200", "204"}
  /\ buf = <<>> /\ wire # <<>> => wire[1].t \notin {"200", "204"}
  /\ buf = <<>> /\ wire = <<>> /\ out # <<>> => out[1].t \notin {"200", "204"}

\* The tokens that no response begins with.
Leftovers == {tok \in Tokens : tok.t \notin {"200", "204"}}

\* No pooled connection has the beginning of a response still to bring, not even one
\* whose last response was answered too soon.
LeftInPool == conn = "pooled" => out \in Seq(Leftovers) /\ wire \in Seq(Leftovers)

\* What a caller that waits has before it.
Reading ==
  pc = "reading" => /\ req \in Requests /\ ~spoilt
                    /\ closed => out = <<>>
                    /\ InOrder \/ LeftFirst

FramingIInv == FramingInv /\ LeftInPool /\ Reading

\* The response to a request, as it is chosen.
LEMMA ItsResponse ==
  ASSUME shape \in [Requests -> Shapes], NEW r \in Requests
  PROVE  /\ shape[r] \in Shapes /\ shape[r] \in AllShapes
         /\ Response(r, shape[r]) \in Seq(Tokens)
         /\ ToSet(Response(r, shape[r])) \subseteq Tokens
         /\ \A tok \in ToSet(Response(r, shape[r])) : tok.of = r
<1>1. shape[r] \in Shapes /\ shape[r] \in AllShapes
  BY FramingAssumption
<1> DEFINE R == Response(r, shape[r])
<1>2. ToSet(R) \subseteq Tokens
  BY <1>1 DEF Tokens
<1>3. R \in Seq(ToSet(R)) /\ ToSet(R) = {[of |-> r, at |-> k, t |-> Texts(shape[r])[k]] : k \in 1 .. Len(Texts(shape[r]))}
  BY <1>1, ResponseIs
<1> HIDE DEF R
<1>4. R \in Seq(Tokens)
  <2> DEFINE S == ToSet(R)
  <2>1. R \in Seq(S) /\ S \subseteq Tokens
    BY <1>2, <1>3
  <2> HIDE DEF S
  <2> QED
    BY <2>1
<1>5. \A tok \in ToSet(R) : tok.of = r
  BY <1>3
<1> QED
  BY <1>1, <1>2, <1>4, <1>5 DEF R

\* A sequence of a smaller set is one of a larger.
LEMMA SeqIn ==
  ASSUME NEW S, NEW T, S \subseteq T, NEW s \in Seq(S)
  PROVE  s \in Seq(T) /\ ToSet(s) \subseteq S
<1>1. \A k \in 1 .. Len(s) : s[k] \in S /\ s[k] \in T
  OBVIOUS
<1>2. s \in Seq(T)
  BY <1>1
<1>3. ToSet(s) \subseteq S
  BY <1>1 DEF ToSet
<1> QED
  BY <1>2, <1>3

\* What is left of a sequence behind a place.
LEMMA Tails ==
  ASSUME NEW S, NEW R \in Seq(S), NEW q \in 0 .. Len(R)
  PROVE  /\ SubSeq(R, q + 1, Len(R)) \in Seq(S)
         /\ Len(SubSeq(R, q + 1, Len(R))) = Len(R) - q
         /\ \A k \in 1 .. (Len(R) - q) : SubSeq(R, q + 1, Len(R))[k] = R[q + k]
OBVIOUS

\* What a sequence has up to a place.
LEMMA Heads ==
  ASSUME NEW S, NEW R \in Seq(S), NEW n \in 0 .. Len(R)
  PROVE  /\ SubSeq(R, 1, n) \in Seq(S) /\ Len(SubSeq(R, 1, n)) = n
         /\ \A k \in 1 .. n : SubSeq(R, 1, n)[k] = R[k]
OBVIOUS

\* Parts of a sequence, one after the other.
LEMMA Pieces ==
  ASSUME NEW S, NEW R \in Seq(S), NEW p \in 0 .. Len(R), NEW q \in p .. Len(R)
  PROVE  /\ SubSeq(R, 1, p) \o SubSeq(R, p + 1, q) = SubSeq(R, 1, q)
         /\ SubSeq(R, q + 1, q) = <<>>
         /\ SubSeq(R, q + 1, Len(R)) \in Seq(S)
         /\ Len(SubSeq(R, q + 1, Len(R))) = Len(R) - q
         /\ \A k \in 1 .. (Len(R) - q) : SubSeq(R, q + 1, Len(R))[k] = R[q + k]
<1>1. SubSeq(R, 1, p) \o SubSeq(R, p + 1, q) = SubSeq(R, 1, q)
  <2>1. 1 \in 1 .. Len(R) + 1 /\ p \in 1 - 1 .. Len(R) /\ q \in p .. Len(R)
    OBVIOUS
  <2> QED
    BY <2>1, ConcatAdjacentSubSeq
<1>2. SubSeq(R, q + 1, q) = <<>>
  OBVIOUS
<1>3. /\ SubSeq(R, q + 1, Len(R)) \in Seq(S)
      /\ Len(SubSeq(R, q + 1, Len(R))) = Len(R) - q
      /\ \A k \in 1 .. (Len(R) - q) : SubSeq(R, q + 1, Len(R))[k] = R[q + k]
  BY Tails
<1> QED
  BY <1>1, <1>2, <1>3

\* What is sent of the rest goes on where the last piece ended.
LEMMA Sent ==
  ASSUME NEW S, NEW R \in Seq(S), NEW p \in 0 .. Len(R), NEW q \in p .. Len(R),
         NEW n \in 1 .. (Len(R) - q),
         NEW rest, rest = SubSeq(R, q + 1, Len(R))
  PROVE  /\ SubSeq(R, p + 1, q) \o SubSeq(rest, 1, n) = SubSeq(R, p + 1, q + n)
         /\ SubSeq(rest, n + 1, Len(rest)) = SubSeq(R, q + n + 1, Len(R))
<1> DEFINE m == Len(R)
<1>1. /\ rest \in Seq(S) /\ Len(rest) = m - q
      /\ \A k \in 1 .. (m - q) : rest[k] = R[q + k]
  BY Pieces
<1>2. m \in Nat /\ p \in 0 .. m /\ q \in p .. m /\ n \in 1 .. (m - q) /\ \A k \in 1 .. m : R[k] \in S
  OBVIOUS
<1>3. SubSeq(rest, 1, n) = SubSeq(R, q + 1, q + n)
  <2> HIDE DEF m
  <2>1. /\ SubSeq(rest, 1, n) \in Seq(S) /\ Len(SubSeq(rest, 1, n)) = n
        /\ \A k \in 1 .. n : SubSeq(rest, 1, n)[k] = rest[k]
    <3>1. n \in 0 .. Len(rest)
      BY <1>1, <1>2
    <3> QED
      BY <1>1, <3>1, Heads
  <2>2. /\ SubSeq(R, q + 1, q + n) \in Seq(S) /\ Len(SubSeq(R, q + 1, q + n)) = n
        /\ \A k \in 1 .. n : SubSeq(R, q + 1, q + n)[k] = R[q + k]
    <3> DEFINE piece == SubSeq(R, q + 1, q + n)
    <3>1. /\ q + 1 \in Int /\ q + n \in Int /\ q + 1 <= q + n
          /\ \A k \in (q + 1) .. (q + n) : R[k] \in S
      BY <1>2
    <3>2. /\ piece \in Seq(S) /\ Len(piece) = (q + n) - (q + 1) + 1
          /\ \A k \in 1 .. ((q + n) - (q + 1) + 1) : piece[k] = R[(q + 1) + k - 1]
      BY <3>1, SubSeqProperties
    <3> HIDE DEF piece
    <3>3. n = (q + n) - (q + 1) + 1 /\ \A k \in 1 .. n : (q + 1) + k - 1 = q + k
      BY <1>2
    <3>4. piece \in Seq(S) /\ Len(piece) = n /\ \A k \in 1 .. n : piece[k] = R[q + k]
      BY <3>2, <3>3
    <3> QED
      BY <3>4 DEF piece
  <2>3. \A k \in 1 .. n : rest[k] = R[q + k]
    <3>1. m \in Nat /\ q \in Nat /\ n \in 1 .. (m - q)
      BY <1>2
    <3>2. \A k \in 1 .. n : k \in 1 .. (m - q)
      BY <3>1
    <3> QED
      BY <1>1, <3>2
  <2> QED
    BY <2>1, <2>2, <2>3, SeqEqual
<1>4. SubSeq(R, p + 1, q) \o SubSeq(R, q + 1, q + n) = SubSeq(R, p + 1, q + n)
  <2>1. p + 1 \in 1 .. Len(R) + 1 /\ q \in (p + 1) - 1 .. Len(R) /\ q + n \in q .. Len(R)
    OBVIOUS
  <2> QED
    BY <2>1, ConcatAdjacentSubSeq
<1>5. SubSeq(rest, n + 1, Len(rest)) = SubSeq(R, q + n + 1, m)
  <2> HIDE DEF m
  <2> DEFINE l == m - q - n
  <2>1. /\ SubSeq(rest, n + 1, Len(rest)) \in Seq(S) /\ Len(SubSeq(rest, n + 1, Len(rest))) = l
        /\ \A k \in 1 .. l : SubSeq(rest, n + 1, Len(rest))[k] = rest[n + k]
    <3>1. n \in 0 .. Len(rest) /\ Len(rest) - n = l
      BY <1>1, <1>2
    <3> HIDE DEF l
    <3> QED
      BY <1>1, <3>1, Tails
  <2>2. /\ SubSeq(R, q + n + 1, m) \in Seq(S) /\ Len(SubSeq(R, q + n + 1, m)) = l
        /\ \A k \in 1 .. l : SubSeq(R, q + n + 1, m)[k] = R[q + n + k]
    <3>1. q + n \in 0 .. m /\ m - (q + n) = l
      BY <1>2
    <3> HIDE DEF l
    <3>2. /\ SubSeq(R, (q + n) + 1, Len(R)) \in Seq(S)
          /\ Len(SubSeq(R, (q + n) + 1, Len(R))) = Len(R) - (q + n)
          /\ \A k \in 1 .. (Len(R) - (q + n)) : SubSeq(R, (q + n) + 1, Len(R))[k] = R[(q + n) + k]
      BY <3>1, Tails DEF m
    <3> QED
      BY <3>1, <3>2 DEF m
  <2>3. \A k \in 1 .. l : rest[n + k] = R[q + n + k]
    BY <1>1, <1>2
  <2> DEFINE u == SubSeq(rest, n + 1, Len(rest))
             v == SubSeq(R, q + n + 1, m)
  <2>4. /\ u \in Seq(S) /\ v \in Seq(S) /\ Len(u) = l /\ Len(v) = l
        /\ \A k \in 1 .. l : u[k] = v[k]
    <3> HIDE DEF l, m
    <3> QED
      BY <2>1, <2>2, <2>3
  <2> HIDE DEF u, v, l
  <2>5. u = v
    BY <2>4, SeqEqual
  <2> QED
    BY <2>5 DEF u, v
<1> QED
  BY <1>3, <1>4, <1>5

\* A cut is a length of what there is; what is cut to it has its head, or no empty line.
LEMMA CutIs ==
  ASSUME NEW r, NEW form \in AllShapes, NEW q \in Cuts(form)
  PROVE  /\ q \in 0 .. Len(Response(r, form)) /\ Len(Response(r, form)) \in Nat
         /\ SubSeq(Response(r, form), 1, 0) = <<>>
         /\ SubSeq(Response(r, form), 1, q) \in Seq(ToSet(Response(r, form)))
         /\ Len(SubSeq(Response(r, form), 1, q)) = q
         /\ \/ PartOf(SubSeq(Response(r, form), 1, q), r, form)
            \/ BlankLines(SubSeq(Response(r, form), 1, q)) = {}
<1> DEFINE R == Response(r, form)
           S == ToSet(R)
           h == HeadLen(form)
           T == Texts(form)
           l == Len(T)
           s == SubSeq(R, 1, q)
<1>1. R \in Seq(S) /\ Len(R) = l /\ l \in Nat /\ h \in 2 .. l
  BY ResponseIs
<1>2. \A k \in 1 .. l : R[k].t = T[k]
  <2> DEFINE m == Len(R)
  <2>1. m = l /\ \A k \in 1 .. m : R[k].t = T[k]
    BY TokenIs
  <2> HIDE DEF m, l, R, T
  <2> QED
    BY <2>1
<1>3. \A j \in 2 .. h : (T[j] = "nl" /\ T[j - 1] = "nl") <=> j = h
  BY HeadFirst
<1>4. q \in 0 .. l
  BY DEF Cuts
<1> HIDE DEF R, S, h, T, l
<1>5. s \in Seq(S) /\ Len(s) = q /\ \A k \in 1 .. q : s[k] = R[k]
  <2> DEFINE m == Len(R)
  <2>1. m = l /\ \A k \in 1 .. m : R[k] \in S
    BY <1>1
  <2> HIDE DEF m
  <2>2. \A k \in 1 .. q : R[k] \in S
    BY <1>1, <1>4, <2>1
  <2> QED
    BY <1>4, <2>2
<1>6. ASSUME q >= h PROVE PartOf(s, r, form)
  <2>1. q \in h .. l
    BY <1>1, <1>4, <1>6
  <2>2. PartOf(s, r, form)
    BY <1>5, <2>1 DEF PartOf, R, S, h, l, T
  <2> QED
    BY <2>2
<1>7. ASSUME q < h PROVE BlankLines(s) = {}
  <2>1. ASSUME NEW j \in 2 .. q PROVE ~(s[j].t = "nl" /\ s[j - 1].t = "nl")
    <3>1. j \in 2 .. h /\ j # h /\ j \in 1 .. l /\ j - 1 \in 1 .. l /\ j \in 1 .. q /\ j - 1 \in 1 .. q
      BY <1>1, <1>4, <1>7
    <3>2. s[j].t = T[j] /\ s[j - 1].t = T[j - 1]
      BY <1>2, <1>5, <3>1
    <3> QED
      BY <1>3, <3>1, <3>2
  <2>2. BlankLines(s) = {}
    BY <1>5, <2>1 DEF BlankLines
  <2> QED
    BY <2>2
<1>8. PartOf(s, r, form) \/ BlankLines(s) = {}
  BY <1>1, <1>4, <1>6, <1>7
<1>9. SubSeq(R, 1, 0) = <<>>
  OBVIOUS
<1> QED
  BY <1>1, <1>4, <1>5, <1>8, <1>9 DEF R, S, s

\* The tokens a pooled connection may still bring.
LineEnds == {tok \in Tokens : tok.t = "nl"}

\* What is owed, one sequence at a time.
LEMMA OwedIs ==
  ASSUME NEW u \in Seq(Tokens), NEW v \in Seq(Tokens)
  PROVE  (\A tok \in ToSet(u \o v) : tok.t = "nl") <=> u \in Seq(LineEnds) /\ v \in Seq(LineEnds)
<1>1. ASSUME \A tok \in ToSet(u \o v) : tok.t = "nl"
      PROVE  u \in Seq(LineEnds) /\ v \in Seq(LineEnds)
  <2>1. ASSUME NEW k \in 1 .. Len(u) PROVE u[k] \in LineEnds
    <3>1. k \in DOMAIN (u \o v) /\ (u \o v)[k] = u[k] /\ u[k] \in Tokens
      OBVIOUS
    <3>2. u[k] \in ToSet(u \o v)
      BY <3>1 DEF ToSet
    <3> QED
      BY <1>1, <3>1, <3>2 DEF LineEnds
  <2>2. ASSUME NEW k \in 1 .. Len(v) PROVE v[k] \in LineEnds
    <3>1. /\ Len(u) + k \in DOMAIN (u \o v)
          /\ (u \o v)[Len(u) + k] = v[k] /\ v[k] \in Tokens
      OBVIOUS
    <3>2. v[k] \in ToSet(u \o v)
      BY <3>1 DEF ToSet
    <3> QED
      BY <1>1, <3>1, <3>2 DEF LineEnds
  <2> QED
    BY <2>1, <2>2
<1>2. ASSUME u \in Seq(LineEnds), v \in Seq(LineEnds)
      PROVE  \A tok \in ToSet(u \o v) : tok.t = "nl"
  <2>1. u \o v \in Seq(LineEnds)
    BY <1>2
  <2>2. ToSet(u \o v) \subseteq LineEnds
    BY <2>1, SeqIn
  <2> QED
    BY <2>2 DEF LineEnds
<1> QED
  BY <1>1, <1>2

\* A line end is no status.
LEMMA EndsLeft ==
  ASSUME NEW u \in Seq(LineEnds) PROVE u \in Seq(Leftovers)
<1>1. LineEnds \subseteq Leftovers
  BY DEF LineEnds, Leftovers
<1> QED
  BY <1>1, SeqIn

\* In the beginning nothing is under way.
LEMMA InitFraming ==
  ASSUME Init PROVE FramingIInv
<1>1. TypeOK
  <2>1. <<>> \in Seq(Tokens)
    OBVIOUS
  <2>2. NRequests \in Nat \ {0}
    BY FramingAssumption
  <2>3. body \in [Requests -> Seq(Tokens)]
    BY <2>1 DEF Init
  <2>4. outcome \in [Requests -> {"none", "ok", "error"}]
    BY DEF Init
  <2>5. {fromPool, retried, spoilt, closed} \subseteq BOOLEAN
    BY DEF Init
  <2>6. {buf, out, wire} \subseteq Seq(Tokens)
    BY <2>1 DEF Init
  <2>7. /\ pc = "idle" /\ req \in 0 .. NRequests /\ conn = NoConn
        /\ shape \in [Requests -> Shapes] /\ engine \in [Requests -> Engines] /\ tooSoon \subseteq Requests
    BY <2>2 DEF Init
  <2> QED
    BY <2>3, <2>4, <2>5, <2>6, <2>7 DEF TypeOK
<1>2. NothingOwedInPool
  BY FramingAssumption DEF Init, NothingOwedInPool
<1>3. OwnBytes
  <2>1. ToSet(<<>>) = {}
    BY DEF ToSet
  <2> QED
    BY <2>1 DEF Init, OwnBytes
<1>4. RightAnswer
  BY DEF Init, RightAnswer
<1>5. Reading /\ LeftInPool
  BY FramingAssumption DEF Init, Reading, LeftInPool
<1> QED
  BY <1>1, <1>2, <1>3, <1>4, <1>5 DEF FramingIInv, FramingInv

\* A request that is sent over a connection with nothing on it begins in order.
LEMMA Begins ==
  ASSUME shape \in [Requests -> Shapes], shape' = shape, req' \in Requests,
         buf' = <<>>, wire' = <<>>, closed' = FALSE, out' = Response(req', shape[req'])
  PROVE  InOrder'
<1> DEFINE form == shape[req']
           R == Response(req', form)
<1>1. form \in AllShapes /\ R \in Seq(Tokens)
  BY ItsResponse
<1>2. 0 \in Cuts(form)
  BY DEF Cuts
<1> HIDE DEF R
<1>3. SubSeq(R, 1, 0) = <<>> /\ SubSeq(R, 0 + 1, 0) = <<>> /\ SubSeq(R, 0 + 1, Len(R)) = R
  BY <1>1, SubSeqFull
<1> QED
  BY <1>2, <1>3 DEF InOrder, R

\* The caller that is told of a failure has no connection left.
LEMMA FailsKeeps ==
  ASSUME FramingIInv, Fails
  PROVE  /\ NothingOwedInPool' /\ OwnBytes' /\ RightAnswer' /\ LeftInPool' /\ Reading'
         /\ outcome' \in [Requests -> {"none", "ok", "error"}]
<1>1. outcome' \in [Requests -> {"none", "ok", "error"}]
  BY DEF FramingIInv, FramingInv, TypeOK, Fails
<1>2. NothingOwedInPool' /\ LeftInPool'
  BY FramingAssumption DEF Fails, NothingOwedInPool, LeftInPool
<1>3. OwnBytes'
  BY DEF FramingIInv, FramingInv, OwnBytes, Fails
<1>4. RightAnswer'
  <2>1. ASSUME NEW r \in Requests, outcome'[r] = "ok" PROVE outcome[r] = "ok"
    BY <2>1 DEF FramingIInv, FramingInv, TypeOK, Fails
  <2>2. body' = body /\ shape' = shape /\ engine' = engine /\ tooSoon' = tooSoon
    BY DEF Fails
  <2> QED
    BY <2>1, <2>2 DEF FramingIInv, FramingInv, RightAnswer
<1>5. Reading'
  BY DEF Fails, Reading
<1> QED
  BY <1>1, <1>2, <1>3, <1>4, <1>5

\* The caller that is answered is given bytes of its own response: all of them, if they
\* are asked for and the head had come.
LEMMA AnsweredKeeps ==
  ASSUME FramingIInv, req \in Requests, NEW s, NEW x \in BOOLEAN, Answered(s, x),
         ParsedBody(s, x) \in Seq(ToSet(Response(req, shape[req]))),
         BlankLines(s) # {} /\ engine[req] = "once" => ParsedBody(s, x) = BodyOf(req, shape[req])
  PROVE  /\ OwnBytes' /\ RightAnswer' /\ Reading'
         /\ outcome' \in [Requests -> {"none", "ok", "error"}]
         /\ body' \in [Requests -> Seq(Tokens)] /\ tooSoon' \subseteq Requests
         /\ BlankLines(s) = {} => req \in tooSoon'
<1> DEFINE given == ParsedBody(s, x)
           S == ToSet(Response(req, shape[req]))
<1>1. /\ body' = [body EXCEPT ![req] = given] /\ outcome' = [outcome EXCEPT ![req] = "ok"]
      /\ shape' = shape /\ engine' = engine /\ pc' = "idle"
      /\ tooSoon' = IF BlankLines(s) = {} THEN tooSoon \cup {req} ELSE tooSoon
  BY DEF Answered
<1>2. S \subseteq Tokens /\ \A tok \in S : tok.of = req
  BY ItsResponse DEF FramingIInv, FramingInv, TypeOK
<1>3. given \in Seq(S)
  OBVIOUS
<1> HIDE DEF given, S
<1>4. given \in Seq(Tokens) /\ ToSet(given) \subseteq S
  BY <1>2, <1>3, SeqIn
<1>5. \A r \in Requests : /\ body'[r] = IF r = req THEN given ELSE body[r]
                          /\ outcome'[r] = IF r = req THEN "ok" ELSE outcome[r]
  BY <1>1 DEF FramingIInv, FramingInv, TypeOK
<1>6. outcome' \in [Requests -> {"none", "ok", "error"}] /\ body' \in [Requests -> Seq(Tokens)]
  BY <1>1, <1>4 DEF FramingIInv, FramingInv, TypeOK
<1>7. OwnBytes'
  BY <1>2, <1>4, <1>5 DEF FramingIInv, FramingInv, OwnBytes
<1>8. RightAnswer'
  BY <1>1, <1>5 DEF FramingIInv, FramingInv, RightAnswer, given
<1>9. Reading'
  BY <1>1 DEF Reading
<1>10. tooSoon' \subseteq Requests /\ (BlankLines(s) = {} => req \in tooSoon')
  BY <1>1 DEF FramingIInv, FramingInv, TypeOK
<1> QED
  BY <1>6, <1>7, <1>8, <1>9, <1>10


-----------------------------------------------------------------------------
(* The steps of the peer *)

\* A piece that is sent goes on where the last one ended.
LEMMA SendOn ==
  ASSUME FramingIInv, PeerSends, pc = "reading", InOrder
  PROVE  InOrder'
<1> DEFINE form == shape[req]
           R == Response(req, form)
           l == Len(R)
<1>1. req \in Requests /\ ~closed
  BY DEF FramingIInv, Reading, PeerSends
<1>2. form \in AllShapes /\ R \in Seq(Tokens)
  BY <1>1, ItsResponse DEF FramingIInv, FramingInv, TypeOK
<1>3. PICK p, q \in Cuts(form) :
        p <= q /\ buf = SubSeq(R, 1, p) /\ wire = SubSeq(R, p + 1, q) /\ out = SubSeq(R, q + 1, l)
  BY <1>1 DEF InOrder
<1>4. p \in 0 .. l /\ q \in p .. l /\ l \in Nat
  <2>1. p \in 0 .. l /\ q \in 0 .. l /\ l \in Nat
    BY <1>2, CutIs
  <2> HIDE DEF l
  <2> QED
    BY <1>3, <2>1
<1>5. Len(out) = l - q /\ \A k \in 1 .. (l - q) : out[k] = R[q + k]
  <2> HIDE DEF R
  <2> QED
    BY <1>2, <1>3, <1>4, Pieces
<1>6. PICK n \in 1 .. Len(out) : /\ wire' = wire \o SubSeq(out, 1, n)
                                 /\ out' = SubSeq(out, n + 1, Len(out))
  BY DEF PeerSends
<1>7. n \in 1 .. (l - q)
  BY <1>5, <1>6
<1>8. wire' = SubSeq(R, p + 1, q + n) /\ out' = SubSeq(R, q + n + 1, l)
  <2> HIDE DEF R
  <2>1. /\ R \in Seq(Tokens) /\ p \in 0 .. Len(R) /\ q \in p .. Len(R) /\ n \in 1 .. (Len(R) - q)
        /\ out = SubSeq(R, q + 1, Len(R))
    BY <1>2, <1>3, <1>4, <1>7
  <2>2. /\ SubSeq(R, p + 1, q) \o SubSeq(out, 1, n) = SubSeq(R, p + 1, q + n)
        /\ SubSeq(out, n + 1, Len(out)) = SubSeq(R, q + n + 1, Len(R))
    BY ONLY <2>1, Sent
  <2> QED
    BY <1>3, <1>6, <2>2
<1>9. q + n \in Cuts(form)
  <2>1. l = Len(Texts(form))
    BY <1>2, ResponseIs
  <2> HIDE DEF l
  <2> QED
    BY <1>4, <1>7, <2>1 DEF Cuts
<1>10. p \in Cuts(form) /\ p <= q + n
  BY <1>4, <1>7
<1>11. /\ buf' = SubSeq(R, 1, p) /\ req' = req /\ shape' = shape /\ closed' = FALSE
  BY <1>1, <1>3 DEF PeerSends, callVars, FramingIInv, FramingInv, TypeOK
<1> HIDE DEF R
<1> QED
  BY <1>8, <1>9, <1>10, <1>11 DEF InOrder, R

\* The first of two sequences begins both; of one that is cut, its first part.
LEMMA FirstOf ==
  ASSUME NEW S, NEW u \in Seq(S), NEW v \in Seq(S), NEW n \in 1 .. Len(v)
  PROVE  /\ u # <<>> => (u \o SubSeq(v, 1, n))[1] = u[1]
         /\ u = <<>> => (u \o SubSeq(v, 1, n))[1] = v[1]
         /\ u \o SubSeq(v, 1, n) # <<>>
<1>1. SubSeq(v, 1, n) \in Seq(S) /\ Len(SubSeq(v, 1, n)) = n /\ SubSeq(v, 1, n)[1] = v[1]
  OBVIOUS
<1> DEFINE w == SubSeq(v, 1, n)
<1> HIDE DEF w
<1>2. w \in Seq(S) /\ Len(w) \in Nat \ {0} /\ w[1] = v[1]
  BY <1>1 DEF w
<1>3. u # <<>> => (u \o w)[1] = u[1]
  BY <1>2
<1>4. u = <<>> => (u \o w)[1] = v[1]
  BY <1>2
<1>5. u \o w # <<>>
  BY <1>2
<1> QED
  BY <1>3, <1>4, <1>5 DEF w

\* The peer sends: the sequences keep their order, and their kind.
LEMMA PeerSendsKeeps ==
  ASSUME FramingIInv, PeerSends
  PROVE  FramingIInv'
<1>1. PICK n \in 1 .. Len(out) : /\ wire' = wire \o SubSeq(out, 1, n)
                                 /\ out' = SubSeq(out, n + 1, Len(out))
  BY DEF PeerSends
<1>2. UNCHANGED <<pc, req, shape, engine, outcome, body, tooSoon, conn, fromPool, retried, buf, spoilt, closed>> /\ ~closed
  BY DEF PeerSends, callVars
<1>3. ASSUME NEW S, out \in Seq(S), wire \in Seq(S) PROVE out' \in Seq(S) /\ wire' \in Seq(S)
  <2>1. SubSeq(out, 1, n) \in Seq(S) /\ SubSeq(out, n + 1, Len(out)) \in Seq(S)
    BY <1>3
  <2> QED
    BY <1>1, <1>3, <2>1
<1>4. TypeOK'
  <2>1. out' \in Seq(Tokens) /\ wire' \in Seq(Tokens)
    BY <1>3 DEF FramingIInv, FramingInv, TypeOK
  <2> QED
    BY <1>2, <2>1 DEF FramingIInv, FramingInv, TypeOK
<1>5. NothingOwedInPool'
  <2>1. conn = "pooled" /\ req \notin tooSoon => out \in Seq(LineEnds) /\ wire \in Seq(LineEnds)
    BY OwedIs DEF FramingIInv, FramingInv, TypeOK, NothingOwedInPool
  <2>2. conn' = "pooled" /\ req' \notin tooSoon' => out' \in Seq(LineEnds) /\ wire' \in Seq(LineEnds)
    BY <1>2, <1>3, <2>1
  <2>3. out' \in Seq(Tokens) /\ wire' \in Seq(Tokens)
    BY <1>4 DEF TypeOK
  <2>4. conn' = "pooled" /\ req' \notin tooSoon' => \A tok \in ToSet(out' \o wire') : tok.t = "nl"
    BY <2>2, <2>3, OwedIs
  <2> QED
    BY <2>4 DEF NothingOwedInPool
<1>6. OwnBytes' /\ RightAnswer'
  BY <1>2 DEF FramingIInv, FramingInv, OwnBytes, RightAnswer
<1>7. ASSUME pc = "reading", LeftFirst PROVE LeftFirst'
  <2>1. out \in Seq(Tokens) /\ wire \in Seq(Tokens)
    BY DEF FramingIInv, FramingInv, TypeOK
  <2>2. /\ wire # <<>> => wire'[1] = wire[1]
        /\ wire = <<>> => wire'[1] = out[1]
        /\ wire' # <<>> /\ out # <<>>
    <3>1. out # <<>>
      BY <1>1, <2>1
    <3> QED
      BY <1>1, <2>1, <3>1, FirstOf
  <2> QED
    BY <1>2, <1>7, <2>2 DEF LeftFirst
<1>8. Reading'
  BY <1>2, <1>7, SendOn DEF FramingIInv, Reading
<1>9. LeftInPool'
  BY <1>2, <1>3 DEF FramingIInv, LeftInPool
<1> QED
  BY <1>4, <1>5, <1>6, <1>8, <1>9 DEF FramingIInv, FramingInv

\* The peer closes: nothing is to come.
LEMMA PeerClosesKeeps ==
  ASSUME FramingIInv, PeerCloses
  PROVE  FramingIInv'
<1>1. /\ UNCHANGED <<pc, req, shape, engine, outcome, body, tooSoon, conn, fromPool, retried, buf, spoilt, wire>>
      /\ closed' = TRUE /\ out' = <<>> /\ ~closed
  BY DEF PeerCloses, callVars
<1>2. TypeOK'
  BY <1>1 DEF FramingIInv, FramingInv, TypeOK
<1>3. NothingOwedInPool'
  <2>1. conn = "pooled" /\ req \notin tooSoon => out \in Seq(LineEnds) /\ wire \in Seq(LineEnds)
    BY OwedIs DEF FramingIInv, FramingInv, TypeOK, NothingOwedInPool
  <2>2. conn' = "pooled" /\ req' \notin tooSoon' => out' \in Seq(LineEnds) /\ wire' \in Seq(LineEnds)
    BY <1>1, <2>1
  <2>3. out' \in Seq(Tokens) /\ wire' \in Seq(Tokens)
    BY <1>2 DEF TypeOK
  <2>4. conn' = "pooled" /\ req' \notin tooSoon' => \A tok \in ToSet(out' \o wire') : tok.t = "nl"
    BY <2>2, <2>3, OwedIs
  <2> QED
    BY <2>4 DEF NothingOwedInPool
<1>4. OwnBytes' /\ RightAnswer'
  BY <1>1 DEF FramingIInv, FramingInv, OwnBytes, RightAnswer
<1>5. InOrder => InOrder'
  BY <1>1 DEF InOrder
<1>6. LeftFirst => LeftFirst'
  BY <1>1 DEF LeftFirst
<1>7. Reading'
  BY <1>1, <1>5, <1>6 DEF FramingIInv, Reading
<1>8. LeftInPool'
  <2>1. <<>> \in Seq(Leftovers)
    OBVIOUS
  <2> QED
    BY <1>1, <2>1 DEF FramingIInv, LeftInPool
<1> QED
  BY <1>2, <1>3, <1>4, <1>7, <1>8 DEF FramingIInv, FramingInv


-----------------------------------------------------------------------------
(* The steps of the caller *)

\* A request that goes over a connection of the pool, or a new one.
LEMMA RequestKeeps ==
  ASSUME FramingIInv, Request
  PROVE  FramingIInv'
<1> DEFINE r == req + 1
           R == Response(r, shape[r])
<1>1. /\ UNCHANGED <<shape, engine, outcome, body, tooSoon>> /\ pc' = "reading" /\ req' = r /\ retried' = FALSE
      /\ buf' = <<>> /\ spoilt' = FALSE /\ conn' = "used" /\ fromPool' \in BOOLEAN
  BY DEF Request, Fresh
<1>2. r \in Requests /\ req' \in 0 .. NRequests
  BY <1>1, FramingAssumption DEF Request, Requests, FramingIInv, FramingInv, TypeOK
<1>3. R \in Seq(Tokens) /\ out \in Seq(Tokens) /\ wire \in Seq(Tokens) /\ shape \in [Requests -> Shapes]
  BY <1>2, ItsResponse DEF FramingIInv, FramingInv, TypeOK
<1>4. ASSUME conn = "pooled", wire = <<>>, ~closed, wire' = wire, closed' = closed, out' = out \o R
      PROVE  InOrder' \/ LeftFirst'
  <2>1. out \in Seq(Leftovers)
    BY <1>4 DEF FramingIInv, LeftInPool
  <2>2. out' \in Seq(Tokens) /\ wire' = <<>> /\ closed' = FALSE
    <3> HIDE DEF R
    <3>1. out \o R \in Seq(Tokens)
      BY <1>3
    <3> QED
      BY <1>4, <3>1 DEF FramingIInv, FramingInv, TypeOK
  <2>3. CASE out = <<>>
    <3>1. out' = R
      <4> HIDE DEF R
      <4> QED
        BY <1>3, <1>4, <2>3
    <3> QED
      BY <1>1, <1>2, <1>3, <2>2, <3>1, Begins
  <2>4. CASE out # <<>>
    <3>1. out[1] \in Leftovers
      BY <2>1, <2>4
    <3>2. out'[1] = out[1]
      <4> HIDE DEF R
      <4> QED
        BY <1>3, <1>4, <2>4
    <3>3. LeftFirst'
      BY <1>1, <2>2, <3>1, <3>2 DEF LeftFirst, Leftovers
    <3> QED
      BY <2>2, <3>3
  <2> QED
    BY <2>2, <2>3, <2>4
<1>5. ASSUME Fresh(r) PROVE InOrder'
  <2>1. out' = R /\ wire' = <<>> /\ closed' = FALSE
    BY <1>5 DEF Fresh
  <2> QED
    BY <1>1, <1>2, <1>3, <2>1, Begins
<1>6. out' \in Seq(Tokens) /\ wire' \in Seq(Tokens) /\ closed' = FALSE /\ (InOrder' \/ LeftFirst')
  <2>1. \/ conn = "pooled" /\ wire = <<>> /\ ~closed /\ wire' = wire /\ closed' = closed /\ out' = out \o R
        \/ Fresh(r)
    BY DEF Request
  <2>2. <<>> \in Seq(Tokens)
    OBVIOUS
  <2>3. closed \in BOOLEAN
    BY DEF FramingIInv, FramingInv, TypeOK
  <2>4. CASE conn = "pooled" /\ wire = <<>> /\ ~closed /\ wire' = wire /\ closed' = closed /\ out' = out \o R
    <3>1. InOrder' \/ LeftFirst'
      BY <1>4, <2>4
    <3>2. out' \in Seq(Tokens)
      <4> HIDE DEF R
      <4> QED
        BY <1>3, <2>4
    <3> QED
      BY <2>2, <2>3, <2>4, <3>1, <3>2
  <2>5. CASE Fresh(r)
    <3>1. InOrder'
      BY <1>5, <2>5
    <3> QED
      BY <1>3, <2>2, <2>5, <3>1 DEF Fresh
  <2> QED
    BY <2>1, <2>4, <2>5
<1>7. TypeOK'
  <2>1. {fromPool', retried', spoilt', closed'} \subseteq BOOLEAN
    BY <1>1, <1>6
  <2>2. {buf', out', wire'} \subseteq Seq(Tokens)
    BY <1>1, <1>6
  <2> QED
    BY <1>1, <1>2, <2>1, <2>2 DEF FramingIInv, FramingInv, TypeOK
<1>8. NothingOwedInPool' /\ OwnBytes' /\ RightAnswer' /\ LeftInPool'
  BY <1>1 DEF FramingIInv, FramingInv, NothingOwedInPool, OwnBytes, RightAnswer, LeftInPool
<1>9. Reading'
  BY <1>1, <1>2, <1>6 DEF Reading
<1> QED
  BY <1>7, <1>8, <1>9 DEF FramingIInv, FramingInv

\* Once more, over a new connection.
LEMMA RetryKeeps ==
  ASSUME FramingIInv, Retry
  PROVE  FramingIInv'
<1> DEFINE R == Response(req, shape[req])
<1>1. /\ UNCHANGED <<pc, req, shape, engine, outcome, body, tooSoon>> /\ retried' = TRUE /\ fromPool' = FALSE
      /\ conn' = "used" /\ out' = R /\ wire' = <<>> /\ closed' = FALSE /\ buf' = <<>> /\ spoilt' = FALSE
      /\ pc = "reading"
  BY DEF Retry, Fresh, AtEof, callVars
<1>2. req \in Requests
  BY <1>1 DEF FramingIInv, Reading
<1>3. R \in Seq(Tokens) /\ shape \in [Requests -> Shapes]
  BY <1>2, ItsResponse DEF FramingIInv, FramingInv, TypeOK
<1>4. InOrder'
  BY <1>1, <1>2, <1>3, Begins
<1>5. TypeOK'
  <2>1. {fromPool', retried', spoilt', closed'} \subseteq BOOLEAN
    BY <1>1
  <2>2. {buf', out', wire'} \subseteq Seq(Tokens)
    BY <1>1, <1>3
  <2> QED
    BY <1>1, <2>1, <2>2 DEF FramingIInv, FramingInv, TypeOK
<1>6. NothingOwedInPool' /\ OwnBytes' /\ RightAnswer' /\ LeftInPool'
  BY <1>1 DEF FramingIInv, FramingInv, NothingOwedInPool, OwnBytes, RightAnswer, LeftInPool
<1>7. Reading'
  BY <1>1, <1>2, <1>4 DEF Reading
<1> QED
  BY <1>5, <1>6, <1>7 DEF FramingIInv, FramingInv

\* A request that fails, whatever is left on the connection.
LEMMA FailKeeps ==
  ASSUME FramingIInv, Fails, spoilt' \in BOOLEAN, closed' \in BOOLEAN,
         buf' \in Seq(Tokens), out' \in Seq(Tokens), wire' \in Seq(Tokens)
  PROVE  FramingIInv'
<1>1. TypeOK'
  <2>1. UNCHANGED <<req, shape, engine, body, tooSoon, fromPool, retried>> /\ pc' = "idle" /\ conn' = NoConn
    BY DEF Fails
  <2>2. {fromPool', retried', spoilt', closed'} \subseteq BOOLEAN
    BY <2>1 DEF FramingIInv, FramingInv, TypeOK
  <2>3. outcome' \in [Requests -> {"none", "ok", "error"}]
    BY FailsKeeps
  <2> QED
    BY <2>1, <2>2, <2>3 DEF FramingIInv, FramingInv, TypeOK
<1> QED
  BY <1>1, FailsKeeps DEF FramingIInv, FramingInv

\* The end of the connection, and a time limit, that are taken for errors.
LEMMA LostKeeps ==
  ASSUME FramingIInv, EofOnce \/ Timeout
  PROVE  FramingIInv'
<1>1. Fails /\ UNCHANGED <<buf, spoilt, out, wire, closed>>
  BY DEF EofOnce, Timeout
<1> QED
  BY <1>1, FailKeeps DEF FramingIInv, FramingInv, TypeOK


\* What a read leaves: in order, or with the rest of an earlier response first.
LEMMA ReadOn ==
  ASSUME FramingIInv, pc = "reading", wire # <<>>, NEW s, s = buf \o wire
  PROVE  \/ \E q \in Cuts(shape[req]) :
              /\ s = SubSeq(Response(req, shape[req]), 1, q)
              /\ PartOf(s, req, shape[req]) \/ BlankLines(s) = {}
              /\ s \in Seq(ToSet(Response(req, shape[req]))) /\ Len(s) = q /\ q # 0
              /\ out = IF closed THEN <<>>
                       ELSE SubSeq(Response(req, shape[req]), q + 1, Len(Response(req, shape[req])))
         \/ s # <<>> /\ s[1].t \notin {"200", "204"} /\ s \in Seq(Tokens)
<1> DEFINE form == shape[req]
           R == Response(req, form)
<1>1. req \in Requests /\ buf \in Seq(Tokens) /\ wire \in Seq(Tokens)
  BY DEF FramingIInv, FramingInv, TypeOK, Reading
<1>2. form \in AllShapes /\ R \in Seq(Tokens)
  BY <1>1, ItsResponse DEF FramingIInv, FramingInv, TypeOK
<1>3. CASE InOrder
  <2>1. PICK p, q \in Cuts(form) :
          /\ p <= q /\ buf = SubSeq(R, 1, p) /\ wire = SubSeq(R, p + 1, q)
          /\ out = IF closed THEN <<>> ELSE SubSeq(R, q + 1, Len(R))
    BY <1>3 DEF InOrder
  <2>2. /\ p \in 0 .. Len(R) /\ q \in 0 .. Len(R) /\ Len(R) \in Nat
        /\ PartOf(SubSeq(R, 1, q), req, form) \/ BlankLines(SubSeq(R, 1, q)) = {}
        /\ SubSeq(R, 1, q) \in Seq(ToSet(R))
    BY <1>2, CutIs
  <2> DEFINE l == Len(R)
  <2>3. l \in Nat /\ p \in 0 .. l /\ q \in 0 .. l
    BY <2>2
  <2> HIDE DEF R, l, form
  <2>4. q \in p .. l
    BY <2>1, <2>3
  <2>5. s = SubSeq(R, 1, q)
    BY <1>2, <2>1, <2>3, <2>4, Pieces DEF l
  <2>6. q # 0
    <3>1. ASSUME q = 0 PROVE wire = <<>>
      <4>1. p = 0
        BY <2>3, <2>4, <3>1
      <4>2. SubSeq(R, 0 + 1, 0) = <<>>
        OBVIOUS
      <4> QED
        BY <2>1, <3>1, <4>1, <4>2
    <3> QED
      BY <3>1
  <2>7. Len(s) = q
    BY <1>2, <2>3, <2>5 DEF l
  <2> QED
    BY <2>1, <2>2, <2>5, <2>6, <2>7 DEF R, form
<1>4. CASE LeftFirst
  <2>1. s \in Seq(Tokens) /\ s # <<>>
    BY <1>1
  <2>2. CASE buf = <<>>
    <3>1. s = wire
      BY <1>1, <2>2
    <3> QED
      BY <1>4, <2>1, <2>2, <3>1 DEF LeftFirst
  <2>3. CASE buf # <<>>
    <3>1. s[1] = buf[1]
      BY <1>1, <2>3
    <3> QED
      BY <1>4, <2>1, <2>3, <3>1 DEF LeftFirst
  <2> QED
    BY <2>2, <2>3
<1> QED
  BY <1>3, <1>4 DEF FramingIInv, Reading

\* What has arrived is read: more is to come, or the request is over.
LEMMA ReadKeeps ==
  ASSUME FramingIInv, Read
  PROVE  FramingIInv'
<1> DEFINE s == buf \o wire
           form == shape[req]
           R == Response(req, form)
<1>1. /\ pc = "reading" /\ wire # <<>> /\ buf' = s /\ wire' = <<>> /\ UNCHANGED <<out, closed>>
      /\ req \in Requests /\ spoilt = FALSE
  BY DEF Read, FramingIInv, FramingInv, Reading, TypeOK
<1>2. buf \in Seq(Tokens) /\ wire \in Seq(Tokens) /\ out \in Seq(Tokens) /\ closed \in BOOLEAN
  BY DEF FramingIInv, FramingInv, TypeOK
<1>3. buf' \in Seq(Tokens) /\ wire' \in Seq(Tokens) /\ out' \in Seq(Tokens) /\ closed' \in BOOLEAN
  BY <1>1, <1>2
<1>4. form \in AllShapes /\ R \in Seq(Tokens)
  BY <1>1, ItsResponse DEF FramingIInv, FramingInv, TypeOK
<1>5. \/ \E q \in Cuts(form) : /\ s = SubSeq(R, 1, q) /\ (PartOf(s, req, form) \/ BlankLines(s) = {})
                               /\ s \in Seq(ToSet(R)) /\ Len(s) = q /\ q # 0
                               /\ out = IF closed THEN <<>> ELSE SubSeq(R, q + 1, Len(R))
      \/ s # <<>> /\ s[1].t \notin {"200", "204"} /\ s \in Seq(Tokens)
  BY <1>1, ReadOn
<1>6. CASE Complete(s) = "more" /\ UNCHANGED <<callVars, conn, fromPool, retried, spoilt>>
  <2>1. TypeOK' /\ NothingOwedInPool' /\ OwnBytes' /\ RightAnswer' /\ LeftInPool'
    <3>1. UNCHANGED <<pc, req, shape, engine, outcome, body, tooSoon, conn, fromPool, retried, spoilt>>
      BY <1>6 DEF callVars
    <3>2. conn = "used"
      BY <1>1 DEF FramingIInv, FramingInv, TypeOK
    <3>3. TypeOK'
      BY <1>1, <1>3, <3>1 DEF FramingIInv, FramingInv, TypeOK
    <3> QED
      BY <3>1, <3>2, <3>3 DEF FramingIInv, FramingInv, NothingOwedInPool, OwnBytes, RightAnswer, LeftInPool
  <2>2. InOrder' \/ LeftFirst'
    <3>1. ASSUME NEW q \in Cuts(form), s = SubSeq(R, 1, q), Len(s) = q,
                 out = IF closed THEN <<>> ELSE SubSeq(R, q + 1, Len(R))
          PROVE  InOrder'
      <4>1. SubSeq(R, q + 1, q) = <<>> /\ q <= q
        <5> HIDE DEF R
        <5>1. q \in 0 .. Len(R)
          BY <1>4, CutIs DEF R
        <5> QED
          BY <1>4, <5>1
      <4>2. req' = req /\ shape' = shape
        BY <1>6 DEF callVars
      <4> HIDE DEF R, s
      <4> QED
        BY <1>1, <3>1, <4>1, <4>2 DEF InOrder, R
    <3>2. ASSUME s # <<>>, s[1].t \notin {"200", "204"} PROVE LeftFirst'
      BY <1>1, <3>2 DEF LeftFirst
    <3> QED
      BY <1>5, <3>1, <3>2
  <2>3. Reading'
    BY <1>1, <1>6, <2>2 DEF FramingIInv, Reading, callVars
  <2> QED
    BY <2>1, <2>3 DEF FramingIInv, FramingInv
<1>7. CASE Fails /\ spoilt' \in BOOLEAN
  BY <1>3, <1>7, FailKeeps
<1>8. CASE Complete(s) = "complete" /\ spoilt' = TRUE /\ Parse(s, spoilt) = "ok" /\ Answered(s, spoilt)
  <2>1. s[1].t \in {"200", "204"}
    BY <1>1, <1>8, NoStatus
  <2>2. PICK q \in Cuts(form) : /\ s = SubSeq(R, 1, q) /\ (PartOf(s, req, form) \/ BlankLines(s) = {})
                                /\ s \in Seq(ToSet(R)) /\ Len(s) = q /\ q # 0
                                /\ out = IF closed THEN <<>> ELSE SubSeq(R, q + 1, Len(R))
    BY <1>5, <2>1
  <2> HIDE DEF s
  <2>3. ASSUME BlankLines(s) # {}
        PROVE  /\ ParsedBody(s, spoilt) = BodyOf(req, form)
               /\ \/ form = "chunked" /\ q \in {12, 13}
                  \/ form \in {"length", "lengthClose"} /\ q = 9
                  \/ form = "nobody" /\ q = 3
    BY <1>1, <1>4, <1>8, <2>2, <2>3, WholeParses, WholeRead
  <2>4. ParsedBody(s, spoilt) \in Seq(ToSet(R))
    <3>1. CASE BlankLines(s) # {}
      BY <2>3, <3>1, BodyTokens
    <3>2. CASE BlankLines(s) = {}
      <4>1. ParsedBody(s, spoilt) = <<>>
        BY <1>1, <1>8, <2>2, <3>2, NoBodyYet
      <4> QED
        BY <4>1
    <3> QED
      BY <3>1, <3>2
  <2>5. /\ OwnBytes' /\ RightAnswer' /\ Reading'
        /\ outcome' \in [Requests -> {"none", "ok", "error"}]
        /\ body' \in [Requests -> Seq(Tokens)] /\ tooSoon' \subseteq Requests
        /\ BlankLines(s) = {} => req \in tooSoon'
    BY <1>1, <1>8, <2>3, <2>4, AnsweredKeeps
  <2>6. /\ UNCHANGED <<req, shape, engine, fromPool, retried>> /\ pc' = "idle" /\ conn' \in {NoConn, "pooled"}
    BY <1>8 DEF Answered
  <2>7. TypeOK'
    <3>1. {fromPool', retried', spoilt', closed'} \subseteq BOOLEAN
      BY <1>3, <1>8, <2>6 DEF FramingIInv, FramingInv, TypeOK
    <3> QED
      BY <1>3, <2>5, <2>6, <3>1 DEF FramingIInv, FramingInv, TypeOK
  <2>8. ASSUME NEW S, \A k \in (q + 1) .. Len(R) : R[k] \in S PROVE out \in Seq(S)
    <3>1. CASE closed
      BY <2>2, <3>1
    <3>2. CASE ~closed
      <4> DEFINE l == Len(R)
      <4>1. l \in Nat /\ q \in 0 .. l
        BY <1>4, CutIs
      <4>2. out = SubSeq(R, q + 1, l)
        BY <2>2, <3>2
      <4>3. \A k \in (q + 1) .. l : R[k] \in S
        BY <2>8
      <4> HIDE DEF R, l
      <4>4. SubSeq(R, q + 1, l) \in Seq(S)
        <5>1. q + 1 \in Int /\ l \in Int
          BY <4>1
        <5> QED
          BY <4>3, <5>1, SubSeqProperties
      <4> QED
        BY <4>2, <4>4
    <3> QED
      BY <3>1, <3>2
  <2>9. ASSUME NEW k \in (q + 1) .. Len(R)
        PROVE  R[k] \in Leftovers /\ (BlankLines(s) # {} => R[k] \in LineEnds)
    <3> DEFINE l == Len(R)
    <3>1. l \in Nat /\ q \in 0 .. l /\ q # 0
      BY <1>4, <2>2, CutIs
    <3>2. k \in 1 .. l /\ k \in 2 .. l
      <4>1. k \in (q + 1) .. l
        BY <2>9
      <4> HIDE DEF l
      <4> QED
        BY <3>1, <4>1
    <3>3. R[k].t = Texts(form)[k] /\ l = Len(Texts(form))
      BY <1>4, <3>2, TokenIs
    <3>4. R[k] \in Tokens
      <4> HIDE DEF R
      <4> QED
        BY <1>4, <3>2
    <3>5. R[k].t \notin {"200", "204"}
      BY <1>4, <3>2, <3>3, StatusFirst
    <3>6. BlankLines(s) # {} => R[k].t = "nl"
      BY <1>4, <2>3, <2>9, <3>3, AfterWhole
    <3> QED
      BY <3>4, <3>5, <3>6 DEF Leftovers, LineEnds
  <2>10. LeftInPool'
    <3>1. out \in Seq(Leftovers)
      BY <2>8, <2>9
    <3> QED
      BY <1>1, <3>1 DEF LeftInPool
  <2>11. NothingOwedInPool'
    <3>1. CASE BlankLines(s) = {}
      BY <2>5, <2>6, <3>1 DEF NothingOwedInPool
    <3>2. CASE BlankLines(s) # {}
      <4>1. out \in Seq(LineEnds)
        BY <2>8, <2>9, <3>2
      <4>2. wire' \in Seq(LineEnds) /\ out' \in Seq(LineEnds)
        BY <1>1, <4>1
      <4> QED
        BY <1>3, <4>2, OwedIs DEF NothingOwedInPool
    <3> QED
      BY <3>1, <3>2
  <2> QED
    BY <2>5, <2>7, <2>10, <2>11 DEF FramingIInv, FramingInv
<1>9. \/ Complete(s) = "more" /\ UNCHANGED <<callVars, conn, fromPool, retried, spoilt>>
      \/ Complete(s) = "complete" /\ spoilt' = TRUE /\ Parse(s, spoilt) = "ok" /\ Answered(s, spoilt)
      \/ Fails /\ spoilt' \in BOOLEAN
  BY <1>1 DEF Read
<1> QED
  BY <1>6, <1>7, <1>8, <1>9

\* The end of the connection ends a request of the multi engine.
LEMMA EofMultiKeeps ==
  ASSUME FramingIInv, EofMulti
  PROVE  FramingIInv'
<1> DEFINE form == shape[req]
           R == Response(req, form)
<1>1. /\ pc = "reading" /\ wire = <<>> /\ closed /\ engine[req] = "multi" /\ spoilt' = TRUE
      /\ UNCHANGED <<buf, out, wire, closed>> /\ req \in Requests /\ out = <<>>
  BY DEF EofMulti, AtEof, FramingIInv, Reading
<1>2. /\ buf' \in Seq(Tokens) /\ wire' \in Seq(Tokens) /\ out' \in Seq(Tokens) /\ closed' \in BOOLEAN
      /\ buf \in Seq(Tokens)
  BY <1>1 DEF FramingIInv, FramingInv, TypeOK
<1>3. form \in AllShapes /\ R \in Seq(Tokens)
  BY <1>1, ItsResponse DEF FramingIInv, FramingInv, TypeOK
<1>4. CASE Fails
  BY <1>1, <1>2, <1>4, FailKeeps
<1>5. ASSUME NEW x \in BOOLEAN, buf # <<>>, Parse(buf, x) = "ok", Answered(buf, x)
      PROVE  FramingIInv'
  <2>1. buf \in Seq(ToSet(R)) /\ (PartOf(buf, req, form) \/ BlankLines(buf) = {})
    <3>1. ~LeftFirst
      BY <1>5, NoStatus DEF LeftFirst
    <3>2. PICK p \in Cuts(form) : buf = SubSeq(R, 1, p)
      BY <1>1, <3>1 DEF FramingIInv, Reading, InOrder
    <3> QED
      BY <1>3, <3>2, CutIs
  <2>2. ParsedBody(buf, x) \in Seq(ToSet(R))
    <3>1. CASE BlankLines(buf) = {}
      <4>1. ParsedBody(buf, x) = <<>>
        BY <1>5, <2>1, <3>1, NoBodyYet
      <4> QED
        BY <4>1
    <3>2. CASE BlankLines(buf) # {}
      BY <1>3, <1>5, <2>1, <3>2, ParsedTokens
    <3> QED
      BY <3>1, <3>2
  <2>3. /\ OwnBytes' /\ RightAnswer' /\ Reading'
        /\ outcome' \in [Requests -> {"none", "ok", "error"}]
        /\ body' \in [Requests -> Seq(Tokens)] /\ tooSoon' \subseteq Requests
    BY <1>1, <1>5, <2>2, AnsweredKeeps
  <2>4. /\ UNCHANGED <<req, shape, engine, fromPool, retried>> /\ pc' = "idle" /\ conn' \in {NoConn, "pooled"}
    BY <1>5 DEF Answered
  <2>5. TypeOK'
    <3>1. {fromPool', retried', spoilt', closed'} \subseteq BOOLEAN
      BY <1>1, <1>2, <2>4 DEF FramingIInv, FramingInv, TypeOK
    <3> QED
      BY <1>2, <2>3, <2>4, <3>1 DEF FramingIInv, FramingInv, TypeOK
  <2>6. NothingOwedInPool' /\ LeftInPool'
    <3>1. wire' \in Seq(LineEnds) /\ out' \in Seq(LineEnds)
      BY <1>1
    <3>2. wire' \in Seq(Leftovers) /\ out' \in Seq(Leftovers)
      BY <3>1, EndsLeft
    <3> QED
      BY <1>2, <3>1, <3>2, OwedIs DEF NothingOwedInPool, LeftInPool
  <2> QED
    BY <2>3, <2>5, <2>6 DEF FramingIInv, FramingInv
<1>6. Fails \/ \E x \in BOOLEAN : buf # <<>> /\ Parse(buf, x) = "ok" /\ Answered(buf, x)
  BY DEF EofMulti
<1> QED
  BY <1>4, <1>5, <1>6

-----------------------------------------------------------------------------
(* The theorems                                                            *)

\* Every step keeps the invariant.
LEMMA FramingStep ==
  ASSUME FramingIInv, [Next]_vars
  PROVE  FramingIInv'
<1>1. CASE PeerSends
  BY <1>1, PeerSendsKeeps
<1>2. CASE PeerCloses
  BY <1>2, PeerClosesKeeps
<1>3. CASE Request
  BY <1>3, RequestKeeps
<1>4. CASE Read
  BY <1>4, ReadKeeps
<1>5. CASE Retry
  BY <1>5, RetryKeeps
<1>6. CASE EofOnce \/ Timeout
  BY <1>6, LostKeeps
<1>7. CASE EofMulti
  BY <1>7, EofMultiKeeps
<1>8. CASE UNCHANGED vars
  <2>1. UNCHANGED <<pc, req, shape, engine, outcome, body, tooSoon, conn, fromPool, retried, buf, spoilt, out, wire, closed>>
    BY <1>8 DEF vars
  <2>2. FramingInv' /\ LeftInPool'
    BY <2>1 DEF FramingIInv, FramingInv, TypeOK, NothingOwedInPool, OwnBytes, RightAnswer, LeftInPool
  <2>3. (InOrder => InOrder') /\ (LeftFirst => LeftFirst')
    BY <2>1 DEF InOrder, LeftFirst
  <2> QED
    BY <2>1, <2>2, <2>3 DEF FramingIInv, Reading
<1> QED
  BY <1>1, <1>2, <1>3, <1>4, <1>5, <1>6, <1>7, <1>8 DEF Next

\* Responses do not run into each other: not in the pool, not in a body, and a caller of
\* SendOnce that is told that its request succeeded has the whole of its own response -
\* for any number of requests, any framings and engines, whatever the pieces, and a peer
\* that may close at any time.  The property excepts, in the first and the last, the
\* answer whose head was taken for whole at the end of a line.
THEOREM FramingCorrect == Spec => []FramingInv
<1>1. Init => FramingIInv
  BY InitFraming
<1>2. FramingIInv /\ [Next]_vars => FramingIInv'
  BY FramingStep
<1>3. FramingIInv => FramingInv
  BY DEF FramingIInv
<1> QED
  BY <1>1, <1>2, <1>3, PTL DEF Spec

\* Whom an answer is for.
Called ==
  /\ outcome \in [Requests -> {"none", "ok", "error"}]
  /\ DOMAIN body = Requests
  /\ req \in 0 .. NRequests
  /\ pc = "reading" => req \in Requests

\* Every step keeps that, in pieces or not.
LEMMA CalledStep ==
  ASSUME Called, [Next]_vars
  PROVE  Called'
<1>1. NRequests \in Nat
  BY FramingAssumption
<1>2. ASSUME Fails \/ \E s, x : Answered(s, x)
      PROVE  Called'
  <2>1. pc' = "idle" /\ req' = req
    BY <1>2 DEF Fails, Answered
  <2>2. outcome' \in [Requests -> {"none", "ok", "error"}] /\ DOMAIN body' = Requests
    BY <1>2 DEF Called, Fails, Answered
  <2> QED
    BY <2>1, <2>2 DEF Called
<1>3. CASE Request
  <2>1. req' \in Requests /\ req' \in 0 .. NRequests /\ outcome' = outcome /\ body' = body
    BY <1>1, <1>3 DEF Request, Called, Requests
  <2> QED
    BY <2>1 DEF Called
<1>4. CASE Read
  <2>1. \/ UNCHANGED callVars
        \/ Fails
        \/ Answered(buf \o wire, spoilt)
    BY <1>4 DEF Read
  <2>2. CASE UNCHANGED callVars
    BY <2>2 DEF callVars, Called
  <2> QED
    BY <1>2, <2>1, <2>2
<1>5. CASE EofOnce \/ EofMulti \/ Timeout
  BY <1>2, <1>5 DEF EofOnce, EofMulti, Timeout
<1>6. CASE PeerSends \/ PeerCloses \/ Retry
  BY <1>6 DEF PeerSends, PeerCloses, Retry, callVars, Called
<1>7. CASE UNCHANGED vars
  BY <1>7 DEF vars, Called
<1> QED
  BY <1>3, <1>4, <1>5, <1>6, <1>7 DEF Next

\* A response that only the end of the connection delimits is delivered with its whole
\* body if it is in the buffer when the end comes (corRestClientMultiPerform).
THEOREM CloseDelimits == Spec => CloseDelimited
<1>1. Init => Called
  BY FramingAssumption DEF Init, Called
<1>2. Called /\ [Next]_vars => Called'
  BY CalledStep
<1>3. Called => [(EofMulti /\ buf = Response(req, "untilClose"))
                   => outcome'[req] = "ok" /\ body'[req] = BodyOf(req, "untilClose")]_vars
  <2> SUFFICES ASSUME Called, EofMulti, buf = Response(req, "untilClose")
               PROVE  outcome'[req] = "ok" /\ body'[req] = BodyOf(req, "untilClose")
    OBVIOUS
  <2>1. buf # <<>> /\ Parse(buf, FALSE) = "ok" /\ ParsedBody(buf, FALSE) = BodyOf(req, "untilClose")
    BY UntilClose
  <2>2. Answered(buf, FALSE)
    BY <2>1 DEF EofMulti
  <2>3. req \in Requests
    BY DEF EofMulti, AtEof, Called
  <2> QED
    BY <2>1, <2>2, <2>3 DEF Answered, Called
<1> QED
  BY <1>1, <1>2, <1>3, PTL DEF Spec, CloseDelimited
=============================================================================
