------------------------------ MODULE Dispatch ------------------------------
(***************************************************************************)
(* The pipeline every request goes through: corRestProcessRequest and      *)
(* corRestProcessInProcess of corRestInit.c, with the coroutines of the    *)
(* event loop that run it (corRestBackendBuiltin.c, corRestWait.c).        *)
(*                                                                         *)
(* All code reaches its request through the pointer corRestP of the        *)
(* thread, here bound: an action reads and writes the request that bound   *)
(* names, whoever runs it.  A coroutine c runs one request at a time, and  *)
(* in its service routine further ones, in-process: frame[c] is its stack, *)
(* request[c] the states allocated for it, outermost first.  Coroutines    *)
(* yield where a hook or a routine waits; those of Inline are requests the *)
(* loop runs itself, which do not.                                         *)
(*                                                                         *)
(* Data is abstracted to what the order of checks depends on: what a hook  *)
(* or a routine answers is chosen where it is called, and so is what a     *)
(* header or a body holds where it is first looked at.                     *)
(***************************************************************************)
EXTENDS RequestTarget

CONSTANTS
    Coroutines, \* requests that may be under way on the loop at once
    Inline,     \* those of them that run on the loop itself
    None,
    Asks,       \* Asks[c]: the [verb, path, query, sent] the clients of c may send; sent: the
                \* parameters meant by the query, a sequence of [name, value]
    Forwards,   \* Forwards[c]: those a routine of c may forward to itself
    Bodied,     \* bound: Bodied[c], the verbs of c's requests that may have a body
    Early,      \* Early[c]: what may be wrong with a request before its dispatch
    Alone,      \* bound: coroutines that serve only while no other does
    MaxDepth,   \* COR_REST_SELF_FORWARD_MAX_DEPTH
    MaxForwards \* bound: in-process forwards of one request

ASSUME DispatchAssumption ==
    /\ Inline \subseteq Coroutines
    /\ None \notin Coroutines
    /\ \A c \in Coroutines : Early[c] \subseteq {"411", "413", "refused", "silent"}
    /\ MaxDepth \in Nat /\ MaxForwards \in Nat

VARIABLES
    running,    \* the coroutine that runs on the loop, None: the loop itself
    bound,      \* corRestP: <<c, level>>, or <<>> for NULL
    waiting,    \* the coroutines that have yielded
    saved,      \* corRestP as a coroutine had it when it yielded
    frame,      \* the calls of each coroutine: [pc, outer, waited]
    request     \* the states allocated for each

pipelineVars == <<running, bound, waiting, saved, frame, request>>

Writes == {"POST", "PUT", "PATCH"}

Level(c) == Len(frame[c])

At(c, pc) == running = c /\ frame[c] # <<>> /\ Last(frame[c]).pc = pc

Goto(c, pc) == frame' = [frame EXCEPT ![c][Level(c)] = [@ EXCEPT !.pc = pc, !.waited = FALSE]]

Call(outer) == [pc |-> "dispatch", outer |-> outer, waited |-> FALSE]

\* The state corRest stands for
Me == request[bound[1]][bound[2]]

Becomes(q) == request' = [request EXCEPT ![bound[1]][bound[2]] = q]

Problem(q, status) == [q EXCEPT !.status = status, !.problem = TRUE]

Service(q) == IF q.ix = 0 THEN [routine |-> "none"] ELSE Routes[q.verb][q.ix]

\* corRestStateInit.  resource, sent: what the client meant by the path and the query
NewRequest(ask, path, resource, query, depth) ==
    [ verb |-> ask.verb, resource |-> resource, lost |-> path # resource, buf |-> path,
      ix |-> 0, wildcard |-> <<>>, sent |-> ask.sent, params |-> ParamsOf(query), unknown |-> FALSE,
      early |-> "no", depth |-> depth, forwards |-> 0, admitted |-> FALSE,
      tree |-> FALSE, keyF |-> FALSE, status |-> 200, problem |-> FALSE, late |-> FALSE,
      ran |-> FALSE, answer |-> {}, allow |-> {}, body |-> "none" ]

\* corRestBodyPolicyCheck, and an upgrade that is refused: with the error of the
\* application's hook; or silently, when the hook sets none or memory runs out
NewArrival(ask, early) ==
    LET q == [NewRequest(ask, PathOf(ask.path), Resource(ask.path), Spaced(ask.query), 0) EXCEPT !.early = early]
    IN  CASE early = "411"     -> [q EXCEPT !.status = 411]
          [] early = "413"     -> Problem(q, 413)
          [] early = "refused" -> Problem(q, 403)
          [] OTHER             -> q

----------------------------------------------------------------------------
PipelineInit ==
    /\ running = None
    /\ bound = <<>>
    /\ waiting = {}
    /\ saved = [c \in Coroutines |-> <<>>]
    /\ frame = [c \in Coroutines |-> <<>>]
    /\ request = [c \in Coroutines |-> <<>>]

\* A request is complete: httpRequestCb makes its state and starts it
Arrive(c) ==
    /\ running = None
    /\ frame[c] = <<>>
    /\ \A d \in Coroutines : c \in Alone \/ d \in Alone => frame[d] = <<>>
    /\ \E ask \in Asks[c], early \in {"no"} \cup Early[c] :
          /\ early \in {"411", "413"} => ask.verb \in Writes
          /\ request' = [request EXCEPT ![c] = <<NewArrival(ask, early)>>]
    /\ frame' = [frame EXCEPT ![c] = <<Call(<<>>)>>]
    /\ running' = c
    /\ bound' = <<c, 1>>
    /\ UNCHANGED <<waiting, saved>>

\* corRestProcessRequest up to the route: the pre-dispatch hook, what is wrong
\* already, the verb, the lookup
FindRoute(c) ==
    /\ At(c, "dispatch")
    /\ IF Me.early # "no"
       THEN Goto(c, "respond") /\ UNCHANGED request
       ELSE IF Me.verb \in DOMAIN Routes
       THEN /\ \E l \in {Lookup(Routes[Me.verb], Me.buf)} :
                  Becomes([Me EXCEPT !.ix = l.ix, !.buf = l.buf, !.wildcard = l.wildcard])
            /\ Goto(c, "admit")
       ELSE IF Me.verb \in {"TRACE", "CONNECT"}
       THEN Goto(c, "admit") /\ UNCHANGED request
       ELSE Becomes(Problem(Me, 400)) /\ Goto(c, "respond")
    /\ UNCHANGED <<running, bound, waiting, saved>>

\* The admit hook, once per request that came in
Admit(c) ==
    /\ At(c, "admit")
    /\ \/ Goto(c, "media") /\ Becomes([Me EXCEPT !.admitted = (Me.depth = 0)])
       \/ /\ Me.depth = 0
          /\ Becomes(Problem(Me, 401)) /\ Goto(c, "respond")
    /\ UNCHANGED <<running, bound, waiting, saved>>

\* A body of a type that is not admitted: 415.  Else the pre-parse hook, which
\* may set a key hook for this body, whatever the verb; no body, no hook
CheckMedia(c) ==
    /\ At(c, "media")
    /\ \/ Goto(c, "find") /\ UNCHANGED request
       \/ Me.verb \in Writes /\ Becomes([Me EXCEPT !.status = 415]) /\ Goto(c, "respond")
       \/ Me.verb \in Bodied[c] /\ (\E keyF \in BOOLEAN : Becomes([Me EXCEPT !.keyF = keyF])) /\ Goto(c, "parse")
    /\ UNCHANGED <<running, bound, waiting, saved>>

\* The body parsed, or its tree walked (cor://); the key hook gone; and the
\* parse hook, unless there is no tree
ParseBody(c) ==
    /\ At(c, "parse")
    /\ LET q == [Me EXCEPT !.keyF = FALSE]
       IN  \/ Becomes(q)
           \/ Becomes([q EXCEPT !.tree = TRUE])
           \/ Becomes(Problem([q EXCEPT !.tree = TRUE], 400))
    /\ Goto(c, "find")
    /\ UNCHANGED <<running, bound, waiting, saved>>

\* Mutant: the probes of the verbs go on with the path as the last one left it
AllowedInPlace(verb, path) ==
    LET probe(s, v) ==
            IF v = verb THEN s
            ELSE LET l == Lookup(Routes[v], s.path)
                 IN  [path |-> CString(l.buf, 1), verbs |-> IF l.ix = 0 THEN s.verbs ELSE s.verbs \cup {v}]
    IN  FoldLeft(probe, [path |-> path, verbs |-> {}], Verbs).verbs

\* The verbs but the request's own that have a route for the path, the path put
\* back before each of them
Allowed(verb, path) ==
    {v \in DOMAIN Routes \ {verb} : Lookup(Routes[v], path).ix # 0}

EmptySegment(path) == StrStr(path, 1, <<"/", "/">>) # 0

\* No service: an empty segment, a path of other verbs, or nothing
NoService(c) ==
    /\ At(c, "find")
    /\ Me.ix = 0
    /\ \E path \in {CString(Me.buf, 1)} : \E allow \in {Allowed(Me.verb, path)} :
          IF EmptySegment(path) THEN Becomes(Problem(Me, 400))
          ELSE IF allow # {}    THEN Becomes([Problem(Me, 405) EXCEPT !.allow = allow])
          ELSE Becomes(Problem(Me, 404))
    /\ Goto(c, "respond")
    /\ UNCHANGED <<running, bound, waiting, saved>>

\* ?pretty taken out; the parameters against those of the service, the first it does
\* not take refused; the param hook may object to those before
CheckParams(c) ==
    LET q == [Me EXCEPT !.params = WithoutPretty(@)]
    IN  /\ At(c, "find")
        /\ Me.ix # 0
        /\ \/ Supported(Service(q), q.params) /\ Becomes(q) /\ Goto(c, "check")
           \/ ~Supported(Service(q), q.params)
              /\ Becomes([Problem(q, 400) EXCEPT !.unknown = TRUE]) /\ Goto(c, "respond")
           \/ Supported(Service(q), q.params) /\ q.params # <<>> /\ Service(q).params # AnyParam
              /\ Becomes(Problem(q, 400)) /\ Goto(c, "check")
        /\ UNCHANGED <<running, bound, waiting, saved>>

\* The pre-service hook, the presence of a body, the payload check: the first that
\* fails is answered, a problem that let the request go on is too
CheckService(c) ==
    /\ At(c, "check")
    /\ LET noBody == Me.verb \in Writes /\ ~Me.tree
       IN  \/ \E status \in {400, 403} : Becomes(Problem(Me, status)) /\ Goto(c, "respond")
           \/ noBody /\ Becomes(Problem(Me, 400)) /\ Goto(c, "respond")
           \/ Me.problem /\ Goto(c, "respond") /\ UNCHANGED request
           \/ ~Me.problem /\ Goto(c, "routine") /\ UNCHANGED request
    /\ UNCHANGED <<running, bound, waiting, saved>>

----------------------------------------------------------------------------
(* The service routine *)

\* corRestProcessInProcess: a new state, bound in place of the outer one
Forward(c) ==
    /\ At(c, "routine")
    /\ Me.depth < MaxDepth
    /\ Me.forwards < MaxForwards
    /\ \E ask \in Forwards[c] :
          request' = [request EXCEPT ![bound[1]][bound[2]].forwards = @ + 1,
                                     ![c] = Append(@, NewRequest(ask, Normalized(ask.path), Normalized(ask.path), ask.query, Me.depth + 1))]
    /\ frame' = [frame EXCEPT ![c] = Append(@, Call(bound))]
    /\ bound' = <<c, Len(request'[c])>>
    /\ UNCHANGED <<running, waiting, saved>>

\* What a routine may leave: an answer, a problem, a problem without a status
Outcomes(q) ==
    {[q EXCEPT !.answer = left] : left \in {{"tree", "header"}, {"payload"}, {"stream", "header"}}}
        \cup {Problem(q, 404), [q EXCEPT !.problem = TRUE]}

\* optionsHandler: the verbs with the pattern that was matched
OptionsAnswer(q) ==
    LET verbs == {v \in DOMAIN Routes : \E i \in DOMAIN Routes[v] : Routes[v][i].url = Service(q).url}
    IN  [q EXCEPT !.status = 204, !.allow = verbs, !.answer = {"header"}]

\* Mutant: the headers of the answer stay
LateAppliedHeaders(q) ==
    IF q.late THEN [Problem(q, 503) EXCEPT !.answer = @ \cap {"header"}] ELSE q

\* A late problem replaces whatever the routine answered
LateApplied(q) ==
    IF q.late THEN [Problem(q, 503) EXCEPT !.answer = {}, !.allow = {}] ELSE q

\* The routine, with what it or a layer below it found too late
RunRoutine(c) ==
    /\ At(c, "routine")
    /\ \E late \in BOOLEAN,
          q \in IF Service(Me).routine = "optionsHandler" THEN {OptionsAnswer(Me)} ELSE Outcomes(Me) :
             Becomes(LateApplied([q EXCEPT !.ran = TRUE, !.late = late]))
    /\ Goto(c, "render")
    /\ UNCHANGED <<running, bound, waiting, saved>>

\* The render hook, which may find the client accepts no such answer; then the
\* status of a problem that has none
Render(c) ==
    /\ At(c, "render")
    /\ \E q \in {Me, [Problem(Me, 406) EXCEPT !.answer = @ \ {"tree"}]} :
          Becomes(IF q.problem /\ q.status = 200 THEN [q EXCEPT !.status = 500] ELSE q)
    /\ Goto(c, "respond")
    /\ UNCHANGED <<running, bound, waiting, saved>>

\* The body: a problem's, unless the routine left a tree; memory may run out
Respond(c) ==
    LET body == IF Me.problem /\ "tree" \notin Me.answer THEN "problem"
                ELSE IF Me.answer \cap {"tree", "payload"} # {} THEN "answer"
                ELSE "none"
    IN  /\ At(c, "respond")
        /\ \/ Becomes([Me EXCEPT !.body = body])
           \/ body # "none" /\ Becomes([Me EXCEPT !.status = 500])
        /\ Goto(c, "answered")
        /\ UNCHANGED <<running, bound, waiting, saved>>

\* Mutant: without a body there is nothing to hand over
HandOverBody(c) ==
    /\ At(c, "answered")
    /\ Level(c) = 1
    /\ IF Me.body = "none" THEN UNCHANGED frame ELSE Goto(c, "sent")
    /\ running' = None
    /\ bound' = IF c \in Inline THEN bound ELSE <<>>
    /\ UNCHANGED <<waiting, saved, request>>

\* A request that came in: its response on its way, and the coroutine at its end
HandOver(c) ==
    /\ At(c, "answered")
    /\ Level(c) = 1
    /\ Goto(c, "sent")
    /\ running' = None
    /\ bound' = IF c \in Inline THEN bound ELSE <<>>
    /\ UNCHANGED <<waiting, saved, request>>

\* httpRequestDone: the response is written; the post-response phase, bound again
Done(c) ==
    /\ running = None
    /\ frame[c] # <<>> /\ frame[c][1].pc = "sent"
    /\ running' = c
    /\ bound' = <<c, 1>>
    /\ Goto(c, "postResponse")
    /\ UNCHANGED <<waiting, saved, request>>

\* corRestBackendFinish: the hook has run; the state goes, and the binding
Finish(c) ==
    /\ At(c, "postResponse")
    /\ request' = [request EXCEPT ![bound[1]] = SubSeq(@, 1, bound[2] - 1)]
    /\ frame' = [frame EXCEPT ![c] = <<>>]
    /\ bound' = <<>>
    /\ running' = None
    /\ UNCHANGED <<waiting, saved>>

\* The end of corRestProcessInProcess: the outer request is bound again
Return(c) ==
    /\ At(c, "answered")
    /\ Level(c) > 1
    /\ request' = [request EXCEPT ![bound[1]] = SubSeq(@, 1, bound[2] - 1)]
    /\ frame' = [frame EXCEPT ![c] = Front(@)]
    /\ bound' = Last(frame[c]).outer
    /\ UNCHANGED <<running, waiting, saved>>

----------------------------------------------------------------------------
(* Where a hook or a routine waits for a socket *)

Waits == {"dispatch", "admit", "parse", "find", "check", "routine", "render", "postResponse"}

\* coWaitBound: the loop goes on, with corRestP as it is or reset by its hook.
\* Bound: once in each phase
Yield(c) ==
    /\ running = c
    /\ c \notin Inline
    /\ \/ Last(frame[c]).pc \in Waits
       \/ Level(c) > 1 /\ At(c, "answered")     \* its post-response hook, in Return
    /\ ~Last(frame[c]).waited
    /\ frame' = [frame EXCEPT ![c][Level(c)].waited = TRUE]
    /\ saved' = [saved EXCEPT ![c] = bound]
    /\ waiting' = waiting \cup {c}
    /\ running' = None
    /\ bound' \in {bound, <<>>}
    /\ UNCHANGED request

\* Mutant: whatever is bound stays bound
ResumeUnbound(c) ==
    /\ running = None
    /\ c \in waiting
    /\ running' = c
    /\ waiting' = waiting \ {c}
    /\ saved' = [saved EXCEPT ![c] = <<>>]
    /\ UNCHANGED <<bound, frame, request>>

\* ... and the request bound again once the wait is over
Resume(c) ==
    /\ running = None
    /\ c \in waiting
    /\ running' = c
    /\ waiting' = waiting \ {c}
    /\ bound' = saved[c]
    /\ saved' = [saved EXCEPT ![c] = <<>>]
    /\ UNCHANGED <<frame, request>>

Step(c) ==
    \/ FindRoute(c) \/ Admit(c) \/ CheckMedia(c) \/ ParseBody(c)
    \/ NoService(c) \/ CheckParams(c) \/ CheckService(c)
    \/ Forward(c) \/ RunRoutine(c) \/ Render(c) \/ Respond(c)
    \/ HandOver(c) \/ Finish(c) \/ Return(c)

PipelineNext == \E c \in Coroutines : Arrive(c) \/ Step(c) \/ Done(c) \/ Yield(c) \/ Resume(c)

\* What runs comes to its end or waits, as it has no loop and a bounded number of
\* forwards: the weak fairness of the steps.  What a coroutine waits for arrives or
\* times out, a client reads its response or is given up, and the loop looks at
\* every descriptor that is ready before it looks again
Fairness ==
    /\ []<>(running = None)
    /\ \A c \in Coroutines : SF_pipelineVars(Resume(c) \/ Done(c))

PipelineSpec == PipelineInit /\ [][PipelineNext]_pipelineVars /\ Fairness
----------------------------------------------------------------------------
(* What the pipeline keeps to *)

Statuses == {200, 204, 400, 401, 403, 404, 405, 406, 411, 413, 415, 500, 503}

PipelineTypeOK ==
    /\ running \in Coroutines \cup {None}
    /\ waiting \subseteq Coroutines \ Inline
    /\ \A c \in Coroutines :
          /\ Len(frame[c]) = Len(request[c]) /\ Level(c) <= MaxDepth + 1
          /\ \A l \in DOMAIN request[c] :
                /\ request[c][l].status \in Statuses
                /\ request[c][l].depth = l - 1
                /\ request[c][l].allow \subseteq DOMAIN Routes

\* Whatever runs is bound to its own innermost request, and to one that is still
\* there, though every wait lets others bind theirs; a binding left over is to a
\* state that is still allocated.  The key hook of a body is gone once that body
\* has been parsed.
PipelineInv ==
    /\ PipelineTypeOK
    /\ running # None => bound = <<running, Level(running)>>
    /\ bound # <<>> => bound[2] \in DOMAIN request[bound[1]]
    /\ \A c \in Coroutines :
          /\ (c \in waiting) = (saved[c] # <<>>)
          /\ c \in waiting => saved[c] = <<c, Level(c)>>
          /\ \A l \in DOMAIN frame[c] : request[c][l].keyF => frame[c][l].pc = "parse"

\* The requests whose route has been looked for and not yet acted upon
Routed(c) == {l \in DOMAIN frame[c] : frame[c][l].pc = "admit" /\ request[c][l].verb \in DOMAIN Routes}

\* The service found is the first of its verb whose pattern the resource has, and the
\* wildcard values put back into it give that path; none is found only when no
\* pattern fits - but where the path lost two slashes, a wildcard took an empty
\* segment, or the code leads the search astray
RoutedRight ==
    LET right(q, routes, before) ==
            \/ q.lost \/ TakesEmpty(routes, q.resource) \/ Astray(routes, q.resource)
            \/ /\ q.ix # 0 => /\ Matches(routes[q.ix], q.resource)
                              /\ Fill(routes[q.ix].url, q.wildcard) = q.resource
               /\ \A j \in before : ~Matches(routes[j], q.resource)
    IN  \A c \in Coroutines : \A l \in Routed(c) : \A q \in {request[c][l]} :
            right(q, Routes[q.verb],
                  IF q.ix = 0 THEN DOMAIN Routes[q.verb] ELSE 1 .. q.ix - 1)

\* The other verbs that have a pattern for the resource
Fitting(q) == {v \in DOMAIN Routes \ {q.verb} :
                  \E i \in DOMAIN Routes[v] : Matches(Routes[v][i], q.resource)}

Excepted(path) == \E v \in DOMAIN Routes : TakesEmpty(Routes[v], path) \/ Astray(Routes[v], path)

\* 405 is answered to, and only to, a path some other verb has a pattern for, and
\* its Allow header lists those verbs and no other, whatever the probes before
\* each wrote into the path
AllowExact ==
    LET exact(q, other) == (q.status = 405) = (other # {}) /\ q.allow = other
    IN  \A c \in Coroutines : \A l \in DOMAIN frame[c] : \A q \in {request[c][l]} :
            frame[c][l].pc = "respond" /\ q.ix = 0 /\ ~q.ran /\ q.status \in {404, 405}
                => q.lost \/ Excepted(q.resource) \/ exact(q, Fitting(q))

SameMembers(s, t) == Len(s) = Len(t) /\ \A i \in DOMAIN s :
    Cardinality({j \in DOMAIN s : s[j] = s[i]}) = Cardinality({j \in DOMAIN t : t[j] = s[i]})

\* The parameters that reach the checks and the routine of a request, over a socket
\* or inside the process, are those its client wrote, "pretty" excepted, character for
\* character whatever had to be escaped, and the service takes each of them; one is
\* refused as unknown only if the client did write one the service does not take
ParamsRight ==
    \A c \in Coroutines : \A l \in DOMAIN frame[c] :
        LET q    == request[c][l]
            sent == SelectSeq(q.sent, LAMBDA p : p.name # Pretty)
        IN  /\ frame[c][l].pc \in {"check", "routine"}
                  => SameMembers(q.params, sent) /\ Supported(Service(q), sent)
            /\ q.unknown => ~Supported(Service(q), sent)

\* A request answered as served was admitted, its routine ran, and nothing found a
\* problem, not even too late - but for an upgrade that was refused without an error;
\* what is answered by a problem carries nothing of the
\* answer that a late one replaced; and a body the routine left is sent only when it ran
AnswerHonest ==
    \A c \in Coroutines : \A l \in DOMAIN frame[c] :
        LET q == request[c][l]
        IN  frame[c][l].pc = "answered"
                => /\ q.status < 400 => q.early = "silent" \/ (q.ran /\ ~q.problem /\ ~q.late)
                   /\ q.late => q.answer = {} /\ q.body # "answer"
                   /\ q.ran => request[c][1].admitted
                   /\ q.body = "answer" => q.ran
                   /\ q.problem /\ "tree" \notin q.answer => q.body # "answer"

\* What the code says of itself, and runs refute.
\* A path with an empty segment has no route it could have matched
\* (corRestInit.c:540): no wildcard of the route found is empty
NoEmptyWildcard ==
    \A c \in Coroutines : \A l \in Routed(c) :
        \A i \in DOMAIN request[c][l].wildcard : request[c][l].wildcard[i] # <<>>

\* The sums are there "for fast reject" (CorRestService.h:118): a route that was found
\* begins as the resource does
PrefixTaken ==
    \A c \in Coroutines : \A l \in Routed(c) : \A q \in {request[c][l]} :
        q.ix # 0 /\ ~q.lost
            => SubSeq(q.resource, 1, Len(Service(q).prefix)) = Service(q).prefix

\* A 404 or 405 reports "the resource the client actually requested, not a truncation"
\* (corRestInit.c:557): the path is whole where no route was found
PathWhole ==
    \A c \in Coroutines : \A l \in Routed(c) : \A q \in {request[c][l]} :
        q.ix = 0 /\ ~q.lost => CString(q.buf, 1) = q.resource

\* "refused an upgrade and set the error: no dispatch, just that response"
\* (CorRestState.h:84): what is answered without a dispatch is an error
RefusedWithError ==
    \A c \in Coroutines : \A l \in DOMAIN frame[c] :
        frame[c][l].pc = "answered" /\ request[c][l].early # "no" => request[c][l].status >= 400

\* Every request that came in is answered and its states are freed, however the
\* waits of the coroutines interleave
RequestsEnd == \A c \in Coroutines : request[c] # <<>> ~> request[c] = <<>>
=============================================================================
