-------------------------- MODULE RequestLifecycle --------------------------
(***************************************************************************)
(* What corRest promises about one request, whatever thread does what: it  *)
(* is accepted, the service routine runs once, the response goes out once, *)
(* and only then the post-response phase runs, after which the request's   *)
(* state is gone (CorRestState.h, corRestBackend.h).  The worker pool and  *)
(* the back-ends that hand requests to it implement this (WorkerPool).     *)
(***************************************************************************)
CONSTANT Requests

VARIABLE phase   \* phase[r]: how far request r has come

Phases == {"idle", "accepted", "processed", "answered", "finished"}

TypeOK == phase \in [Requests -> Phases]

Init == phase = [r \in Requests |-> "idle"]

Advance(r, from, to) ==
  /\ phase[r] = from
  /\ phase' = [phase EXCEPT ![r] = to]

Accept(r)  == Advance(r, "idle", "accepted")
Process(r) == Advance(r, "accepted", "processed")
Answer(r)  == Advance(r, "processed", "answered")
Finish(r)  == Advance(r, "answered", "finished")

\* corRestProcessRequest and requestRespond back to back, in one go of the
\* thread: a cor:// request queues its response where it was processed
ProcessAndAnswer(r) == Advance(r, "accepted", "answered")

Next == \E r \in Requests :
  Accept(r) \/ Process(r) \/ Answer(r) \/ Finish(r) \/ ProcessAndAnswer(r)

Spec == Init /\ [][Next]_phase
=============================================================================
