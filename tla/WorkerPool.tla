----------------------------- MODULE WorkerPool -----------------------------
(***************************************************************************)
(* The asynchronous worker pool of corRest (corRestInit.c) together with   *)
(* the event loops that hand requests to it: a request is read by a loop,  *)
(* dispatched (inline, as a coroutine of the loop, or to the queue of its  *)
(* shard), processed, resumed to its loop, answered, and finished - the    *)
(* post-response phase - on the loop, as a coroutine, or on a worker.      *)
(*                                                                         *)
(* A critical section of a queue's mutex is one step, except the worker's: *)
(* the test of its wait condition and pthread_cond_wait are two, with the  *)
(* mutex held between them, so that a lost wake-up can be seen.            *)
(***************************************************************************)
EXTENDS Integers, Sequences, FiniteSets

CONSTANTS
  Requests,      \* the requests that may arrive
  NWorkers,      \* the workers asked for (poolSize)
  BackendLoops,  \* corRestBackendLoops(): the HTTP backend's event loops
  NLoops,        \* all I/O threads: loops 0 .. NLoops-1, the backend's first
  LoopOf,        \* LoopOf[r]: the loop that reads request r
  Transport,     \* Transport[r]: "mhd", "builtin" or "cor"
  CoMax,         \* CO_MAX: the coroutines one loop may have
  NoReq          \* no request: NULL

Workers == 0 .. (NWorkers - 1)
Loops   == 0 .. (NLoops - 1)

\* corRestWorkerPoolStart: never more shards than workers
Shards == IF BackendLoops > NWorkers THEN NWorkers ELSE BackendLoops

ShardIds == 0 .. (Shards - 1)

ASSUME PoolAssumption ==
  /\ NWorkers \in Nat \ {0}
  /\ BackendLoops \in Nat \ {0}
  /\ NLoops \in Nat \ {0}
  /\ LoopOf \in [Requests -> Loops]
  /\ Transport \in [Requests -> {"mhd", "builtin", "cor"}]
  /\ CoMax \in Nat
  /\ NoReq \notin Requests

\* CorRestState.shard: the loop's index with the built-in server, else 0;
\* corRestWorkerEnqueue takes an index that is not a shard as 0
ShardOf(r) == IF Transport[r] = "builtin" /\ LoopOf[r] < Shards THEN LoopOf[r] ELSE 0

\* round-robin
WorkerShard(w) == w % Shards

Unlocked == NWorkers      \* no worker has this number

VARIABLES
  workersRun,   \* corRestWorkersRun
  queue,        \* queue[s]: head .. tail of shard s
  mtx,          \* mtx[s]: the worker inside shard s's mutex, or Unlocked
  wpc, cur,     \* per worker: where it is, and its conP
  mainPc, ix,   \* the thread of corRestInit and corRestStop
  listening,    \* the back-end was started: requests may arrive
  busy,         \* busy[l]: the request loop l is running code for
  stage,        \* stage[r]: where request r is
  suspended,    \* the connection is suspended (out of the loop's epoll)
  asyncProcessed, asyncFinishing,   \* the flags of CorRestState
  inCo,         \* the request's own coroutine is alive
  coRunning,    \* coRunning[l], thread-local in the code
  processed, responded, finished,   \* how often it happened to r
  late          \* requests queued when all workers of the shard had left

poolVars == <<workersRun, queue, mtx, wpc, cur, mainPc, ix, listening, late>>
reqVars  == <<stage, suspended, asyncProcessed, asyncFinishing, processed, responded, finished>>
loopVars == <<busy, inCo, coRunning>>
vars     == <<workersRun, queue, mtx, wpc, cur, mainPc, ix, listening, late, stage, suspended,
              asyncProcessed, asyncFinishing, processed, responded, finished, busy, inCo, coRunning>>

Stages == {"new", "read", "handoff", "suspended", "queued", "running", "processed", "resumed",
           "inline", "co", "sending", "finishChoice", "toFinishQueue", "finishQueued",
           "finishing", "finishHere", "finishCo", "freed"}

\* the stages in which the request's loop is executing code for it
LoopStages == {"read", "handoff", "suspended", "inline", "finishChoice", "toFinishQueue", "finishHere"}

PoolTypes ==
  /\ workersRun \in BOOLEAN
  /\ queue \in [ShardIds -> Seq(Requests)]
  /\ mtx \in [ShardIds -> Workers \cup {Unlocked}]
  /\ wpc \in [Workers -> {"absent", "lock", "test", "wait", "parked", "serve", "resume", "exited"}]
  /\ cur \in [Workers -> Requests \cup {NoReq}]
  /\ mainPc \in {"starting", "up", "stopping", "joining", "stopped"}
  /\ ix \in Nat
  /\ listening \in BOOLEAN
  /\ late \in SUBSET Requests

RequestTypes ==
  /\ stage \in [Requests -> Stages]
  /\ suspended \in [Requests -> BOOLEAN]
  /\ asyncProcessed \in [Requests -> BOOLEAN]
  /\ asyncFinishing \in [Requests -> BOOLEAN]
  /\ processed \in [Requests -> Nat]
  /\ responded \in [Requests -> Nat]
  /\ finished \in [Requests -> Nat]

LoopTypes ==
  /\ busy \in [Loops -> Requests \cup {NoReq}]
  /\ inCo \in [Requests -> BOOLEAN]
  /\ coRunning \in [Loops -> Int]

TypeOK == PoolTypes /\ RequestTypes /\ LoopTypes

Init ==
  /\ workersRun = TRUE                  \* published before the first pthread_create
  /\ queue = [s \in ShardIds |-> <<>>]
  /\ mtx = [s \in ShardIds |-> Unlocked]
  /\ wpc = [w \in Workers |-> "absent"]
  /\ cur = [w \in Workers |-> NoReq]
  /\ mainPc = "starting"
  /\ ix = 0
  /\ listening = FALSE
  /\ busy = [l \in Loops |-> NoReq]
  /\ stage = [r \in Requests |-> "new"]
  /\ suspended = [r \in Requests |-> FALSE]
  /\ asyncProcessed = [r \in Requests |-> FALSE]
  /\ asyncFinishing = [r \in Requests |-> FALSE]
  /\ inCo = [r \in Requests |-> FALSE]
  /\ coRunning = [l \in Loops |-> 0]
  /\ processed = [r \in Requests |-> 0]
  /\ responded = [r \in Requests |-> 0]
  /\ finished = [r \in Requests |-> 0]
  /\ late = {}

-----------------------------------------------------------------------------
(* The thread that starts and stops the pool                               *)

Parked(s) == {w \in Workers : wpc[w] = "parked" /\ WorkerShard(w) = s}

WorkersOf(s) == {w \in Workers : WorkerShard(w) = s}

Gone(s) == \A w \in WorkersOf(s) : wpc[w] \in {"absent", "exited"}

StartWorker ==
  /\ mainPc = "starting" /\ ix < NWorkers
  /\ wpc' = [wpc EXCEPT ![ix] = "lock"]
  /\ ix' = ix + 1
  /\ UNCHANGED <<workersRun, queue, mtx, cur, mainPc, listening, late, reqVars, loopVars>>

\* the last worker is up: the backend starts, requests arrive
StartDone ==
  /\ mainPc = "starting" /\ ix = NWorkers
  /\ mainPc' = "up" /\ listening' = TRUE
  /\ UNCHANGED <<workersRun, queue, mtx, wpc, cur, ix, late, reqVars, loopVars>>

\* pthread_create failed: corRestPrepare stops the pool again
StartFailed ==
  /\ mainPc = "starting" /\ ix < NWorkers
  /\ mainPc' = "stopping" /\ ix' = 0
  /\ UNCHANGED <<workersRun, queue, mtx, wpc, cur, listening, late, reqVars, loopVars>>

Stop ==
  /\ mainPc = "up"
  /\ mainPc' = "stopping" /\ ix' = 0
  /\ UNCHANGED <<workersRun, queue, mtx, wpc, cur, listening, late, reqVars, loopVars>>

\* mutant: the flag is cleared, but nobody parked is woken
StopShardSilently ==
  /\ mainPc = "stopping" /\ ix < Shards
  /\ mtx[ix] = Unlocked
  /\ workersRun' = FALSE
  /\ ix' = ix + 1
  /\ UNCHANGED <<queue, mtx, wpc, cur, mainPc, listening, late, reqVars, loopVars>>

\* one round of the loop over the shards: the flag cleared under the shard's
\* mutex, everyone parked on it woken
StopShard ==
  /\ mainPc = "stopping" /\ ix < Shards
  /\ mtx[ix] = Unlocked
  /\ workersRun' = FALSE
  /\ wpc' = [w \in Workers |-> IF w \in Parked(ix) THEN "lock" ELSE wpc[w]]
  /\ ix' = ix + 1
  /\ UNCHANGED <<queue, mtx, cur, mainPc, listening, late, reqVars, loopVars>>

StopJoin ==
  /\ mainPc = "stopping" /\ ix = Shards
  /\ mainPc' = "joining"
  /\ UNCHANGED <<workersRun, queue, mtx, wpc, cur, ix, listening, late, reqVars, loopVars>>

\* pthread_join of every worker that was created; the mutexes destroyed
Joined ==
  /\ mainPc = "joining"
  /\ \A w \in Workers : wpc[w] \in {"absent", "exited"}
  /\ mainPc' = "stopped"
  /\ UNCHANGED <<workersRun, queue, mtx, wpc, cur, ix, listening, late, reqVars, loopVars>>

Main == StartWorker \/ StartDone \/ StartFailed \/ StopShard \/ StopJoin \/ Joined

-----------------------------------------------------------------------------
(* corRestWorkerMain                                                       *)

WorkerTo(w, from, to) ==
  /\ wpc[w] = from
  /\ wpc' = [wpc EXCEPT ![w] = to]

Lock(w) ==
  /\ WorkerTo(w, "lock", "test")
  /\ mtx[WorkerShard(w)] = Unlocked
  /\ mtx' = [mtx EXCEPT ![WorkerShard(w)] = w]
  /\ UNCHANGED <<workersRun, queue, cur, mainPc, ix, listening, late, reqVars, loopVars>>

\* head == NULL && workersRun(): on to pthread_cond_wait, mutex held
TestWait(w) ==
  /\ WorkerTo(w, "test", "wait")
  /\ queue[WorkerShard(w)] = <<>> /\ workersRun
  /\ UNCHANGED <<workersRun, queue, mtx, cur, mainPc, ix, listening, late, reqVars, loopVars>>

\* mutant: the flag alone decides, whatever is still queued
TestExitAtOnce(w) ==
  /\ WorkerTo(w, "test", "exited")
  /\ ~workersRun
  /\ mtx' = [mtx EXCEPT ![WorkerShard(w)] = Unlocked]
  /\ UNCHANGED <<workersRun, queue, cur, mainPc, ix, listening, late, reqVars, loopVars>>

\* head == NULL: the shutdown drain is done
TestExit(w) ==
  /\ WorkerTo(w, "test", "exited")
  /\ queue[WorkerShard(w)] = <<>> /\ ~workersRun
  /\ mtx' = [mtx EXCEPT ![WorkerShard(w)] = Unlocked]
  /\ UNCHANGED <<workersRun, queue, cur, mainPc, ix, listening, late, reqVars, loopVars>>

TestPop(w) ==
  LET s == WorkerShard(w)
      r == Head(queue[s])
  IN /\ WorkerTo(w, "test", "serve")
     /\ queue[s] # <<>>
     /\ queue' = [queue EXCEPT ![s] = Tail(@)]
     /\ mtx' = [mtx EXCEPT ![s] = Unlocked]
     /\ cur' = [cur EXCEPT ![w] = r]
     /\ stage' = [stage EXCEPT ![r] = IF asyncFinishing[r] THEN "finishing" ELSE "running"]
     /\ UNCHANGED <<workersRun, mainPc, ix, listening, late, suspended, asyncProcessed, asyncFinishing,
                    processed, responded, finished, loopVars>>

\* pthread_cond_wait: the mutex released and the worker parked, at once
CondWait(w) ==
  /\ WorkerTo(w, "wait", "parked")
  /\ mtx' = [mtx EXCEPT ![WorkerShard(w)] = Unlocked]
  /\ UNCHANGED <<workersRun, queue, cur, mainPc, ix, listening, late, reqVars, loopVars>>

\* POSIX lets pthread_cond_wait return with no signal
SpuriousWakeup(w) ==
  /\ WorkerTo(w, "parked", "lock")
  /\ UNCHANGED <<workersRun, queue, mtx, cur, mainPc, ix, listening, late, reqVars, loopVars>>

\* mutant: the visit is taken for the second one without a look at the flag
ServeFinishAlways(w) ==
  LET r == cur[w]
  IN /\ WorkerTo(w, "serve", "lock")
     /\ finished' = [finished EXCEPT ![r] = @ + 1]
     /\ stage' = [stage EXCEPT ![r] = "freed"]
     /\ cur' = [cur EXCEPT ![w] = NoReq]
     /\ UNCHANGED <<workersRun, queue, mtx, mainPc, ix, listening, late, suspended, asyncProcessed,
                    asyncFinishing, processed, responded, loopVars>>

\* the second visit: the post-response phase, and the state is gone
ServeFinish(w) ==
  LET r == cur[w]
  IN /\ WorkerTo(w, "serve", "lock")
     /\ asyncFinishing[r]
     /\ finished' = [finished EXCEPT ![r] = @ + 1]
     /\ stage' = [stage EXCEPT ![r] = "freed"]
     /\ cur' = [cur EXCEPT ![w] = NoReq]
     /\ UNCHANGED <<workersRun, queue, mtx, mainPc, ix, listening, late, suspended, asyncProcessed,
                    asyncFinishing, processed, responded, loopVars>>

ServeProcess(w) ==
  LET r == cur[w]
  IN /\ WorkerTo(w, "serve", "resume")
     /\ ~asyncFinishing[r]
     /\ processed' = [processed EXCEPT ![r] = @ + 1]
     /\ asyncProcessed' = [asyncProcessed EXCEPT ![r] = TRUE]
     /\ stage' = [stage EXCEPT ![r] = "processed"]
     /\ UNCHANGED <<workersRun, queue, mtx, cur, mainPc, ix, listening, late, suspended, asyncFinishing,
                    responded, finished, loopVars>>

\* corRestBackendResume: from here on the request is its loop's again
Resume(w) ==
  LET r == cur[w]
  IN /\ WorkerTo(w, "resume", "lock")
     /\ suspended' = [suspended EXCEPT ![r] = FALSE]
     /\ stage' = [stage EXCEPT ![r] = "resumed"]
     /\ cur' = [cur EXCEPT ![w] = NoReq]
     /\ UNCHANGED <<workersRun, queue, mtx, mainPc, ix, listening, late, asyncProcessed, asyncFinishing,
                    processed, responded, finished, loopVars>>

Worker(w) ==
  \/ Lock(w) \/ TestWait(w) \/ TestExit(w) \/ TestPop(w) \/ CondWait(w)
  \/ ServeFinish(w) \/ ServeProcess(w) \/ Resume(w)

-----------------------------------------------------------------------------
(* The event loops                                                         *)

\* the loop takes up request r: nothing else runs on that thread meanwhile
LoopTakes(r, from, to) ==
  /\ stage[r] = from /\ busy[LoopOf[r]] = NoReq
  /\ stage' = [stage EXCEPT ![r] = to]
  /\ busy' = [busy EXCEPT ![LoopOf[r]] = r]

\* r moves on in the hands of the loop
LoopOn(r, from, to) ==
  /\ stage[r] = from
  /\ stage' = [stage EXCEPT ![r] = to]
  /\ UNCHANGED busy

\* r leaves the loop's hands
LoopDrops(r, from, to) ==
  /\ stage[r] = from
  /\ stage' = [stage EXCEPT ![r] = to]
  /\ busy' = [busy EXCEPT ![LoopOf[r]] = NoReq]

\* mutant: the coroutine ends, the count stays
CoEndsUncounted(r) ==
  /\ inCo' = [inCo EXCEPT ![r] = FALSE]
  /\ UNCHANGED coRunning

\* the request's own coroutine ends here, if there is one
CoEnds(r) ==
  /\ inCo' = [inCo EXCEPT ![r] = FALSE]
  /\ coRunning' = [coRunning EXCEPT ![LoopOf[r]] = IF inCo[r] THEN @ - 1 ELSE @]

Read(r) ==
  /\ listening
  /\ LoopTakes(r, "new", "read")
  /\ UNCHANGED <<poolVars, suspended, asyncProcessed, asyncFinishing, processed, responded,
                 finished, inCo, coRunning>>

\* corRestAsyncDispatch: false when the pool is down, or the inline hook
\* claims the request; true only while the pool is up
DispatchInline(r) ==
  /\ LoopOn(r, "read", "inline")
  /\ UNCHANGED <<poolVars, suspended, asyncProcessed, asyncFinishing, processed, responded,
                 finished, inCo, coRunning>>

DispatchHandOff(r) ==
  /\ workersRun
  /\ LoopOn(r, "read", "handoff")
  /\ UNCHANGED <<poolVars, suspended, asyncProcessed, asyncFinishing, processed, responded,
                 finished, inCo, coRunning>>

\* the connection is suspended BEFORE the request is queued
Suspend(r) ==
  /\ Transport[r] \in {"mhd", "builtin"}
  /\ LoopOn(r, "handoff", "suspended")
  /\ suspended' = [suspended EXCEPT ![r] = TRUE]
  /\ UNCHANGED <<poolVars, asyncProcessed, asyncFinishing, processed, responded, finished,
                 inCo, coRunning>>

\* no libmicrohttpd request is a coroutine; the others if the hook allows
\* and the loop has fewer than CO_MAX
StartCoroutine(r) ==
  /\ coRunning[LoopOf[r]] < CoMax
  /\ \/ Transport[r] = "builtin" /\ LoopDrops(r, "suspended", "co")
     \/ Transport[r] = "cor" /\ LoopDrops(r, "handoff", "co")
  /\ inCo' = [inCo EXCEPT ![r] = TRUE]
  /\ coRunning' = [coRunning EXCEPT ![LoopOf[r]] = @ + 1]
  /\ UNCHANGED <<poolVars, suspended, asyncProcessed, asyncFinishing, processed, responded, finished>>

\* cor:// without a coroutine (or a thread of its own): here, on the loop
CorHere(r) ==
  /\ Transport[r] = "cor"
  /\ LoopOn(r, "handoff", "inline")
  /\ UNCHANGED <<poolVars, suspended, asyncProcessed, asyncFinishing, processed, responded,
                 finished, inCo, coRunning>>

\* mutant: appended, but no pthread_cond_signal
EnqueueSilently(r) ==
  LET s == ShardOf(r)
  IN /\ mtx[s] = Unlocked
     /\ queue' = [queue EXCEPT ![s] = Append(@, r)]
     /\ late' = IF Gone(s) THEN late \cup {r} ELSE late
     /\ UNCHANGED <<wpc, workersRun, mtx, cur, mainPc, ix, listening>>

\* mutant: asyncNext is not cleared, and what it pointed to is queued as well
EnqueueUnterminated(r) ==
  LET s == ShardOf(r)
  IN /\ mtx[s] = Unlocked
     /\ queue' = [queue EXCEPT ![s] = @ \o <<r, NoReq>>]
     /\ late' = IF Gone(s) THEN late \cup {r} ELSE late
     /\ UNCHANGED <<wpc, workersRun, mtx, cur, mainPc, ix, listening>>

\* corRestWorkerEnqueue: append and pthread_cond_signal under the mutex
Enqueue(r) ==
  LET s == ShardOf(r)
  IN /\ mtx[s] = Unlocked
     /\ queue' = [queue EXCEPT ![s] = Append(@, r)]
     /\ late' = IF Gone(s) THEN late \cup {r} ELSE late
     /\ \/ Parked(s) = {} /\ UNCHANGED wpc
        \/ \E w \in Parked(s) : wpc' = [wpc EXCEPT ![w] = "lock"]
     /\ UNCHANGED <<workersRun, mtx, cur, mainPc, ix, listening>>

\* mutant: the loop goes on with the request it has queued
EnqueueRequestKept(r) ==
  /\ LoopOn(r, "suspended", "queued")
  /\ Enqueue(r)
  /\ UNCHANGED <<suspended, asyncProcessed, asyncFinishing, processed, responded, finished,
                 inCo, coRunning>>

\* mutant: queued before the connection is suspended
EnqueueRequestFirst(r) ==
  /\ LoopDrops(r, "handoff", "queued")
  /\ Enqueue(r)
  /\ UNCHANGED <<suspended, asyncProcessed, asyncFinishing, processed, responded, finished,
                 inCo, coRunning>>

EnqueueRequest(r) ==
  /\ LoopDrops(r, "suspended", "queued")
  /\ Enqueue(r)
  /\ UNCHANGED <<suspended, asyncProcessed, asyncFinishing, processed, responded, finished,
                 inCo, coRunning>>

\* corRestProcessRequest on the loop's thread; cor:// queues the response too
ProcessInline(r) ==
  /\ processed' = [processed EXCEPT ![r] = @ + 1]
  /\ \/ /\ Transport[r] = "cor"
        /\ LoopOn(r, "inline", "finishChoice")
        /\ responded' = [responded EXCEPT ![r] = @ + 1]
     \/ /\ Transport[r] # "cor"
        /\ LoopDrops(r, "inline", "sending")
        /\ UNCHANGED responded
  /\ UNCHANGED <<poolVars, suspended, asyncProcessed, asyncFinishing, finished, inCo, coRunning>>

\* requestCoroutine: corRestProcessRequest may have yielded; now the response.
\* cor:// queues it and finishes in this coroutine; the built-in server's
\* corHttpResumeHere writes it, and either all of it goes out - then the
\* request is done inside the coroutine - or the loop writes the rest
ProcessCo(r) ==
  /\ processed' = [processed EXCEPT ![r] = @ + 1]
  /\ suspended' = [suspended EXCEPT ![r] = FALSE]
  /\ \/ /\ LoopTakes(r, "co", "finishChoice")
        /\ responded' = [responded EXCEPT ![r] = @ + 1]
        /\ UNCHANGED <<inCo, coRunning>>
     \/ /\ Transport[r] = "builtin"
        /\ stage[r] = "co" /\ busy[LoopOf[r]] = NoReq
        /\ stage' = [stage EXCEPT ![r] = "sending"]
        /\ CoEnds(r)
        /\ UNCHANGED <<busy, responded>>
  /\ UNCHANGED <<poolVars, asyncProcessed, asyncFinishing, finished>>

\* libmicrohttpd calls the handler again: processed, the response is queued;
\* not processed, it is dispatched.  The built-in server just writes
Resumed(r) ==
  /\ \/ /\ Transport[r] = "mhd" /\ ~asyncProcessed[r]
        /\ LoopTakes(r, "resumed", "read")
     \/ /\ Transport[r] = "builtin" \/ asyncProcessed[r]
        /\ stage[r] = "resumed" /\ busy[LoopOf[r]] = NoReq
        /\ stage' = [stage EXCEPT ![r] = "sending"]
        /\ UNCHANGED busy
  /\ UNCHANGED <<poolVars, suspended, asyncProcessed, asyncFinishing, processed, responded,
                 finished, inCo, coRunning>>

\* the last byte is written, or the connection died: mhdRequestCompleted
\* finishes right there, httpRequestDone has to choose
ResponseDone(r) ==
  /\ LoopTakes(r, "sending", IF Transport[r] = "mhd" THEN "finishHere" ELSE "finishChoice")
  /\ responded' = [responded EXCEPT ![r] = @ + 1]
  /\ UNCHANGED <<poolVars, suspended, asyncProcessed, asyncFinishing, processed, finished,
                 inCo, coRunning>>

-----------------------------------------------------------------------------
(* The post-response phase                                                 *)

\* the finish-inline hook says here - or the built-in server finds no pool
FinishInline(r) ==
  /\ LoopOn(r, "finishChoice", "finishHere")
  /\ UNCHANGED <<poolVars, suspended, asyncProcessed, asyncFinishing, processed, responded,
                 finished, inCo, coRunning>>

\* a coroutine: cor:// stays in the request's own; else one of its own, and
\* the request's own - still counted while the cap is tested - ends after it
FinishCoroutine(r) ==
  LET l == LoopOf[r]
      own == Transport[r] = "cor" /\ inCo[r]
  IN /\ LoopDrops(r, "finishChoice", "finishCo")
     /\ own \/ coRunning[l] < CoMax
     /\ coRunning' = IF inCo[r] THEN coRunning ELSE [coRunning EXCEPT ![l] = @ + 1]
     /\ inCo' = [inCo EXCEPT ![r] = TRUE]
     /\ UNCHANGED <<poolVars, suspended, asyncProcessed, asyncFinishing, processed, responded, finished>>

\* corRestAsyncFinish looks at the flag; cor:// does not
FinishHandOff(r) ==
  /\ Transport[r] = "builtin" => workersRun
  /\ LoopOn(r, "finishChoice", "toFinishQueue")
  /\ UNCHANGED <<poolVars, suspended, asyncProcessed, asyncFinishing, processed, responded,
                 finished, inCo, coRunning>>

EnqueueFinish(r) ==
  /\ LoopDrops(r, "toFinishQueue", "finishQueued")
  /\ asyncFinishing' = [asyncFinishing EXCEPT ![r] = TRUE]
  /\ Enqueue(r)
  /\ CoEnds(r)
  /\ UNCHANGED <<suspended, asyncProcessed, processed, responded, finished>>

FinishHere(r) ==
  /\ LoopDrops(r, "finishHere", "freed")
  /\ finished' = [finished EXCEPT ![r] = @ + 1]
  /\ CoEnds(r)
  /\ UNCHANGED <<poolVars, suspended, asyncProcessed, asyncFinishing, processed, responded>>

FinishCoEnd(r) ==
  /\ stage[r] = "finishCo" /\ busy[LoopOf[r]] = NoReq
  /\ stage' = [stage EXCEPT ![r] = "freed"]
  /\ finished' = [finished EXCEPT ![r] = @ + 1]
  /\ CoEnds(r)
  /\ UNCHANGED <<poolVars, suspended, asyncProcessed, asyncFinishing, processed, responded, busy>>

\* everything a loop does once it has read the request
LoopStep(r) ==
  \/ DispatchInline(r) \/ DispatchHandOff(r) \/ Suspend(r) \/ StartCoroutine(r) \/ CorHere(r)
  \/ EnqueueRequest(r) \/ ProcessInline(r) \/ ProcessCo(r) \/ Resumed(r) \/ ResponseDone(r)
  \/ FinishInline(r) \/ FinishCoroutine(r) \/ FinishHandOff(r) \/ EnqueueFinish(r)
  \/ FinishHere(r) \/ FinishCoEnd(r)

Next ==
  \/ Main \/ Stop
  \/ \E w \in Workers : Worker(w) \/ SpuriousWakeup(w)
  \/ \E r \in Requests : Read(r) \/ LoopStep(r)

(***************************************************************************)
(* Every thread keeps running: the service routine and the hooks return,   *)
(* what a coroutine waits for comes or times out.  Strong fairness only    *)
(* because a thread also gets, in the end, a mutex that is released again  *)
(* and again: a spurious wake-up takes it for a moment, any number of      *)
(* times.                                                                  *)
(***************************************************************************)
Fairness ==
  /\ SF_vars(Main)
  /\ \A w \in Workers : SF_vars(Worker(w))
  /\ \A r \in Requests : SF_vars(LoopStep(r))

Spec == Init /\ [][Next]_vars /\ Fairness

-----------------------------------------------------------------------------
(* Where a request is, by its stage: the inductive invariant behind the     *)
(* properties below (MhdServer_proofs)                                      *)

QueueStages == {"queued", "finishQueued"}

\* the loop's hands
LoopHolds ==
  /\ \A l \in Loops : busy[l] # NoReq => LoopOf[busy[l]] = l
  /\ \A r \in Requests : busy[LoopOf[r]] = r <=> stage[r] \in LoopStages

\* a place in a queue, and only one
QueueHolds ==
  /\ \A s \in ShardIds : \A i \in 1 .. Len(queue[s]) : stage[queue[s][i]] \in QueueStages
  /\ \A s, t \in ShardIds : \A i \in 1 .. Len(queue[s]), j \in 1 .. Len(queue[t]) :
       queue[s][i] = queue[t][j] => s = t /\ i = j

\* a worker's hands, and only one's
WorkerHolds ==
  /\ mainPc = "starting" => \A w \in Workers : w >= ix => wpc[w] = "absent"
  /\ \A w \in Workers : wpc[w] \in {"serve", "resume"} <=> cur[w] # NoReq
  /\ \A w \in Workers : wpc[w] = "serve" =>
       stage[cur[w]] = IF asyncFinishing[cur[w]] THEN "finishing" ELSE "running"
  /\ \A w \in Workers : wpc[w] = "resume" => stage[cur[w]] = "processed"
  /\ \A v, w \in Workers : cur[v] # NoReq /\ cur[v] = cur[w] => v = w

\* what has happened to it, and what its flags say
Progress ==
  \A r \in Requests :
    /\ processed[r] = IF stage[r] \in {"new", "read", "handoff", "suspended", "queued", "running",
                                       "inline", "co"} THEN 0 ELSE 1
    /\ responded[r] = IF stage[r] \in {"finishChoice", "toFinishQueue", "finishQueued", "finishing",
                                       "finishHere", "finishCo", "freed"} THEN 1 ELSE 0
    /\ finished[r] = IF stage[r] = "freed" THEN 1 ELSE 0
    /\ stage[r] \in {"processed", "resumed"} => asyncProcessed[r]
    /\ asyncFinishing[r] => stage[r] \in {"finishQueued", "finishing", "freed"}
    /\ stage[r] \in {"finishQueued", "finishing"} => asyncFinishing[r]
    /\ stage[r] \in {"suspended", "queued", "running", "processed"} => suspended[r]

Placed == LoopHolds /\ QueueHolds /\ WorkerHolds /\ Progress

-----------------------------------------------------------------------------
(* Properties                                                              *)

InQueue(r) == \E s \in ShardIds : \E i \in DOMAIN queue[s] : queue[s][i] = r

\* Each of the three phases of a request - corRestProcessRequest, the response,
\* the post-response phase that frees its state - happens at most once and in
\* that order, although the request crosses threads up to four times.
EachPhaseOnce ==
  \A r \in Requests :
    /\ processed[r] <= 1
    /\ responded[r] <= processed[r]
    /\ finished[r] <= responded[r]

\* A request is in the hands of one party at a time: its loop, one place of one
\* queue, or one worker - and of nobody once its state is freed.  This is why
\* CorRestState needs no lock, and why asyncNext can be one link.
OneHolder ==
  \A r \in Requests :
    /\ \A v, w \in Workers : cur[v] = r /\ cur[w] = r => v = w
    /\ \A s, t \in ShardIds : \A i \in DOMAIN queue[s], j \in DOMAIN queue[t] :
         queue[s][i] = r /\ queue[t][j] = r => s = t /\ i = j
    /\ \A w \in Workers : cur[w] = r => ~InQueue(r) /\ busy[LoopOf[r]] # r /\ finished[r] = 0
    /\ InQueue(r) => busy[LoopOf[r]] # r /\ finished[r] = 0
    /\ busy[LoopOf[r]] = r => finished[r] = 0

\* A worker only ever resumes a connection that was suspended before: resuming
\* one that was not is an API violation in one back-end and a lost response in
\* the other (corRestBackend.h).
ResumesSuspended == \A w \in Workers : wpc[w] = "resume" => suspended[cur[w]]

\* corRestWorkerPoolStop drains: when the last worker of a shard has left,
\* nothing is in its queue but what was queued after that.
DrainComplete ==
  \A s \in ShardIds : (mainPc # "starting" /\ Gone(s)) =>
    \A i \in DOMAIN queue[s] : queue[s][i] \in late

\* The per-loop count of coroutines is exact - it never drifts from the
\* coroutines that are alive - and never above CO_MAX.
CoroutinesCounted ==
  \A l \in Loops :
    /\ coRunning[l] <= CoMax
    /\ coRunning[l] = Cardinality({r \in Requests : LoopOf[r] = l /\ inCo[r]})
    /\ \A r \in Requests : inCo[r] => stage[r] \in {"co", "finishChoice", "toFinishQueue", "finishHere", "finishCo"}

\* Every request that is read is finished, whatever the pool does meanwhile -
\* but for one queued after its shard's workers had left.
EveryRequestFinishes == \A r \in Requests : stage[r] = "read" ~> (stage[r] = "freed" \/ r \in late)

\* corRestStop's join does not hang: no worker sleeps through the shutdown.
StopEnds == mainPc = "stopping" ~> mainPc = "stopped"

\* The promise about one request, RequestLifecycle, is kept.
PhaseOf(r) ==
  CASE finished[r] > 0                                            -> "finished"
    [] finished[r] = 0 /\ responded[r] > 0                        -> "answered"
    [] finished[r] = 0 /\ responded[r] = 0 /\ processed[r] > 0    -> "processed"
    [] finished[r] = 0 /\ responded[r] = 0 /\ processed[r] = 0    -> IF stage[r] = "new" THEN "idle" ELSE "accepted"

Lifecycle == INSTANCE RequestLifecycle WITH phase <- [r \in Requests |-> PhaseOf(r)]

LifecycleSpec == Lifecycle!Spec

\* corRestInit.c, corRestWorkerPoolStop: "After this returns there are no
\* suspended connections, so stopping the backend is safe".  It is said of
\* libmicrohttpd's connections; the run on it shows a request between
\* corRestAsyncDispatch and corRestAsyncEnqueue when the pool goes down.
\* Not kept by the code (README, Divergences).
NoneSuspendedAfterStop == mainPc = "stopped" => \A r \in Requests : ~suspended[r]

\* corRestCor.c, requestRespond: the post-response phase runs "here only when
\* the application's finish-inline hook allows it, like HTTP's; else as a
\* coroutine, or on a worker" - it always runs somewhere.
\* Not kept by the code (README, Divergences).
PostResponseRuns == \A r \in Requests : responded[r] > 0 ~> finished[r] > 0
=============================================================================
