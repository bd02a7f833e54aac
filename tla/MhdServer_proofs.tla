--------------------------- MODULE MhdServer_proofs ---------------------------
(***************************************************************************)
(* Proofs about the worker pool, and about MhdServer, which runs it, for   *)
(* any number of requests, workers, loops and shards and any limits.       *)
(*                                                                         *)
(* The pool (Spec, of WorkerPool): type correctness; a request is in one   *)
(* party's hands at a time and goes through each of its phases at most     *)
(* once, in order; a stop drains every queue; a loop's count of its        *)
(* coroutines is exact.                                                    *)
(*                                                                         *)
(* The server (ServerSpec): its steps are steps of the pool, so that the   *)
(* pool's promises are kept here; a routine is given the whole body or     *)
(* none; a streamed response is never left suspended with something to     *)
(* send, is freed once, and reaches the client in order; the daemon is     *)
(* stopped when no connection of ours is suspended.                        *)
(***************************************************************************)
EXTENDS MhdServer, FiniteSetTheorems, SequenceTheorems, TLAPS

-----------------------------------------------------------------------------
(* The pool by itself                                                      *)


\* The sets of workers and shards are what the code's indices range over, and
\* a worker's and a request's shard exist.
LEMMA ShardsExist ==
  /\ NWorkers \in Nat /\ Shards \in Nat \ {0} /\ 0 \in ShardIds
  /\ Unlocked \notin Workers
  /\ \A w \in Workers : WorkerShard(w) \in ShardIds
  /\ \A r \in Requests : ShardOf(r) \in ShardIds /\ LoopOf[r] \in Loops
  /\ Loops \subseteq Nat
<1> USE PoolAssumption
<1>1. NWorkers \in Nat /\ Shards \in Nat \ {0}
  BY DEF Shards
<1>2. 0 \in ShardIds
  BY <1>1 DEF ShardIds
<1>3. Unlocked \notin Workers
  BY <1>1 DEF Unlocked, Workers
<1>4. ASSUME NEW w \in Workers PROVE WorkerShard(w) \in ShardIds
  <2>1. w \in Nat
    BY <1>1 DEF Workers
  <2>2. w % Shards \in 0 .. (Shards - 1)
    BY <1>1, <2>1
  <2> QED
    BY <2>2 DEF WorkerShard, ShardIds
<1>5. Loops \subseteq Nat
  BY DEF Loops
<1>6. ASSUME NEW r \in Requests PROVE ShardOf(r) \in ShardIds /\ LoopOf[r] \in Loops
  <2>1. LoopOf[r] \in Loops /\ LoopOf[r] \in Nat
    BY <1>5
  <2> QED
    BY <1>1, <1>2, <2>1 DEF ShardOf, ShardIds
<1> QED
  BY <1>1, <1>2, <1>3, <1>4, <1>5, <1>6

-----------------------------------------------------------------------------
(* Type correctness                                                        *)

\* What an append to a queue and the signal change, whoever queues what.
LEMMA EnqueueTypes ==
  ASSUME PoolTypes, NEW r \in Requests, Enqueue(r)
  PROVE  PoolTypes'
<1>1. ShardOf(r) \in ShardIds
  BY ShardsExist
<1>2. queue[ShardOf(r)] \in Seq(Requests)
  BY <1>1 DEF PoolTypes
<1>3. queue' \in [ShardIds -> Seq(Requests)]
  BY <1>1, <1>2 DEF PoolTypes, Enqueue
<1>4. wpc' \in [Workers -> {"absent", "lock", "test", "wait", "parked", "serve", "resume", "exited"}]
  BY DEF PoolTypes, Enqueue, Parked
<1>5. late' \in SUBSET Requests
  BY DEF PoolTypes, Enqueue
<1> QED
  BY <1>3, <1>4, <1>5 DEF PoolTypes, Enqueue

\* The counters stay numbers when they are counted up or down.
LEMMA CountersMove ==
  ASSUME TypeOK
  PROVE  /\ \A r \in Requests : processed[r] + 1 \in Nat /\ responded[r] + 1 \in Nat /\ finished[r] + 1 \in Nat
         /\ \A l \in Loops : coRunning[l] + 1 \in Int /\ coRunning[l] - 1 \in Int
BY DEF TypeOK, RequestTypes, LoopTypes

\* Every step keeps the types.
LEMMA TypeStep ==
  ASSUME TypeOK, [Next]_vars
  PROVE  TypeOK'
<1> USE DEF TypeOK
<1>1. CASE StartWorker
  <2>1. PoolTypes'
    <3>1. wpc' \in [Workers -> {"absent", "lock", "test", "wait", "parked", "serve", "resume", "exited"}]
      BY <1>1 DEF StartWorker, PoolTypes
    <3>2. ix' \in Nat
      BY <1>1 DEF StartWorker, PoolTypes
    <3> QED
      BY <1>1, <3>1, <3>2 DEF StartWorker, PoolTypes, poolVars
  <2>2. RequestTypes'
    BY <1>1 DEF StartWorker, RequestTypes, reqVars
  <2>3. LoopTypes'
    BY <1>1 DEF StartWorker, LoopTypes, loopVars
  <2> QED
    BY <2>1, <2>2, <2>3
<1>2. CASE StartDone
  <2>1. PoolTypes'
    BY <1>2 DEF StartDone, PoolTypes, poolVars
  <2>2. RequestTypes'
    BY <1>2 DEF StartDone, RequestTypes, reqVars
  <2>3. LoopTypes'
    BY <1>2 DEF StartDone, LoopTypes, loopVars
  <2> QED
    BY <2>1, <2>2, <2>3
<1>3. CASE StartFailed
  <2>1. PoolTypes'
    BY <1>3 DEF StartFailed, PoolTypes, poolVars
  <2>2. RequestTypes'
    BY <1>3 DEF StartFailed, RequestTypes, reqVars
  <2>3. LoopTypes'
    BY <1>3 DEF StartFailed, LoopTypes, loopVars
  <2> QED
    BY <2>1, <2>2, <2>3
<1>4. CASE Stop
  <2>1. PoolTypes'
    BY <1>4 DEF Stop, PoolTypes, poolVars
  <2>2. RequestTypes'
    BY <1>4 DEF Stop, RequestTypes, reqVars
  <2>3. LoopTypes'
    BY <1>4 DEF Stop, LoopTypes, loopVars
  <2> QED
    BY <2>1, <2>2, <2>3
<1>5. CASE StopShard
  <2>1. PoolTypes'
    <3>1. workersRun' \in BOOLEAN
      BY <1>5 DEF StopShard, Parked, PoolTypes
    <3>2. wpc' \in [Workers -> {"absent", "lock", "test", "wait", "parked", "serve", "resume", "exited"}]
      BY <1>5 DEF StopShard, Parked, PoolTypes
    <3>3. ix' \in Nat
      BY <1>5 DEF StopShard, Parked, PoolTypes
    <3> QED
      BY <1>5, <3>1, <3>2, <3>3 DEF StopShard, Parked, PoolTypes, poolVars
  <2>2. RequestTypes'
    BY <1>5 DEF StopShard, Parked, RequestTypes, reqVars
  <2>3. LoopTypes'
    BY <1>5 DEF StopShard, Parked, LoopTypes, loopVars
  <2> QED
    BY <2>1, <2>2, <2>3
<1>6. CASE StopJoin
  <2>1. PoolTypes'
    BY <1>6 DEF StopJoin, PoolTypes, poolVars
  <2>2. RequestTypes'
    BY <1>6 DEF StopJoin, RequestTypes, reqVars
  <2>3. LoopTypes'
    BY <1>6 DEF StopJoin, LoopTypes, loopVars
  <2> QED
    BY <2>1, <2>2, <2>3
<1>7. CASE Joined
  <2>1. PoolTypes'
    BY <1>7 DEF Joined, PoolTypes, poolVars
  <2>2. RequestTypes'
    BY <1>7 DEF Joined, RequestTypes, reqVars
  <2>3. LoopTypes'
    BY <1>7 DEF Joined, LoopTypes, loopVars
  <2> QED
    BY <2>1, <2>2, <2>3
<1>8. ASSUME NEW w \in Workers, Lock(w) PROVE TypeOK'
  <2>1. PoolTypes'
    <3>1. wpc' \in [Workers -> {"absent", "lock", "test", "wait", "parked", "serve", "resume", "exited"}]
      BY <1>8 DEF Lock, WorkerTo, PoolTypes
    <3>2. mtx' \in [ShardIds -> Workers \cup {Unlocked}]
      BY <1>8, ShardsExist DEF Lock, WorkerTo, PoolTypes
    <3> QED
      BY <1>8, <3>1, <3>2 DEF Lock, WorkerTo, PoolTypes, poolVars
  <2>2. RequestTypes'
    BY <1>8 DEF Lock, WorkerTo, RequestTypes, reqVars
  <2>3. LoopTypes'
    BY <1>8 DEF Lock, WorkerTo, LoopTypes, loopVars
  <2> QED
    BY <2>1, <2>2, <2>3
<1>9. ASSUME NEW w \in Workers, TestWait(w) PROVE TypeOK'
  <2>1. PoolTypes'
    BY <1>9 DEF TestWait, WorkerTo, PoolTypes, poolVars
  <2>2. RequestTypes'
    BY <1>9 DEF TestWait, WorkerTo, RequestTypes, reqVars
  <2>3. LoopTypes'
    BY <1>9 DEF TestWait, WorkerTo, LoopTypes, loopVars
  <2> QED
    BY <2>1, <2>2, <2>3
<1>10. ASSUME NEW w \in Workers, TestExit(w) PROVE TypeOK'
  <2>1. PoolTypes'
    <3>1. wpc' \in [Workers -> {"absent", "lock", "test", "wait", "parked", "serve", "resume", "exited"}]
      BY <1>10 DEF TestExit, WorkerTo, PoolTypes
    <3>2. mtx' \in [ShardIds -> Workers \cup {Unlocked}]
      BY <1>10, ShardsExist DEF TestExit, WorkerTo, PoolTypes
    <3> QED
      BY <1>10, <3>1, <3>2 DEF TestExit, WorkerTo, PoolTypes, poolVars
  <2>2. RequestTypes'
    BY <1>10 DEF TestExit, WorkerTo, RequestTypes, reqVars
  <2>3. LoopTypes'
    BY <1>10 DEF TestExit, WorkerTo, LoopTypes, loopVars
  <2> QED
    BY <2>1, <2>2, <2>3
<1>11. ASSUME NEW w \in Workers, TestPop(w) PROVE TypeOK'
  <2>1. PoolTypes'
    <3>1. queue' \in [ShardIds -> Seq(Requests)]
      BY <1>11, ShardsExist DEF TestPop, WorkerTo, PoolTypes
    <3>2. mtx' \in [ShardIds -> Workers \cup {Unlocked}]
      BY <1>11, ShardsExist DEF TestPop, WorkerTo, PoolTypes
    <3>3. wpc' \in [Workers -> {"absent", "lock", "test", "wait", "parked", "serve", "resume", "exited"}]
      BY <1>11, ShardsExist DEF TestPop, WorkerTo, PoolTypes
    <3>4. cur' \in [Workers -> Requests \cup {NoReq}]
      BY <1>11, ShardsExist DEF TestPop, WorkerTo, PoolTypes
    <3> QED
      BY <1>11, <3>1, <3>2, <3>3, <3>4 DEF TestPop, WorkerTo, PoolTypes, poolVars
  <2>2. RequestTypes'
    BY <1>11 DEF TestPop, WorkerTo, RequestTypes, reqVars, Stages
  <2>3. LoopTypes'
    BY <1>11 DEF TestPop, WorkerTo, LoopTypes, loopVars
  <2> QED
    BY <2>1, <2>2, <2>3
<1>12. ASSUME NEW w \in Workers, CondWait(w) PROVE TypeOK'
  <2>1. PoolTypes'
    <3>1. wpc' \in [Workers -> {"absent", "lock", "test", "wait", "parked", "serve", "resume", "exited"}]
      BY <1>12 DEF CondWait, WorkerTo, PoolTypes
    <3>2. mtx' \in [ShardIds -> Workers \cup {Unlocked}]
      BY <1>12, ShardsExist DEF CondWait, WorkerTo, PoolTypes
    <3> QED
      BY <1>12, <3>1, <3>2 DEF CondWait, WorkerTo, PoolTypes, poolVars
  <2>2. RequestTypes'
    BY <1>12 DEF CondWait, WorkerTo, RequestTypes, reqVars
  <2>3. LoopTypes'
    BY <1>12 DEF CondWait, WorkerTo, LoopTypes, loopVars
  <2> QED
    BY <2>1, <2>2, <2>3
<1>13. ASSUME NEW w \in Workers, SpuriousWakeup(w) PROVE TypeOK'
  <2>1. PoolTypes'
    BY <1>13 DEF SpuriousWakeup, WorkerTo, PoolTypes, poolVars
  <2>2. RequestTypes'
    BY <1>13 DEF SpuriousWakeup, WorkerTo, RequestTypes, reqVars
  <2>3. LoopTypes'
    BY <1>13 DEF SpuriousWakeup, WorkerTo, LoopTypes, loopVars
  <2> QED
    BY <2>1, <2>2, <2>3
<1>14. ASSUME NEW w \in Workers, ServeFinish(w) PROVE TypeOK'
  <2>1. PoolTypes'
    <3>1. wpc' \in [Workers -> {"absent", "lock", "test", "wait", "parked", "serve", "resume", "exited"}]
      BY <1>14 DEF ServeFinish, WorkerTo, PoolTypes
    <3>2. cur' \in [Workers -> Requests \cup {NoReq}]
      BY <1>14 DEF ServeFinish, WorkerTo, PoolTypes
    <3> QED
      BY <1>14, <3>1, <3>2 DEF ServeFinish, WorkerTo, PoolTypes, poolVars
  <2>2. RequestTypes'
    <3>1. stage' \in [Requests -> Stages]
      BY <1>14 DEF ServeFinish, WorkerTo, RequestTypes, Stages
    <3>2. finished' \in [Requests -> Nat]
      BY <1>14, CountersMove DEF ServeFinish, WorkerTo, RequestTypes
    <3> QED
      BY <1>14, <3>1, <3>2 DEF ServeFinish, WorkerTo, RequestTypes, reqVars
  <2>3. LoopTypes'
    BY <1>14 DEF ServeFinish, WorkerTo, LoopTypes, loopVars
  <2> QED
    BY <2>1, <2>2, <2>3
<1>15. ASSUME NEW w \in Workers, ServeProcess(w) PROVE TypeOK'
  <2>1. PoolTypes'
    BY <1>15 DEF ServeProcess, WorkerTo, PoolTypes, poolVars
  <2>2. RequestTypes'
    <3>1. stage' \in [Requests -> Stages]
      BY <1>15 DEF ServeProcess, WorkerTo, RequestTypes, Stages
    <3>2. processed' \in [Requests -> Nat]
      BY <1>15, CountersMove DEF ServeProcess, WorkerTo, RequestTypes
    <3>3. asyncProcessed' \in [Requests -> BOOLEAN]
      BY <1>15 DEF ServeProcess, WorkerTo, RequestTypes
    <3> QED
      BY <1>15, <3>1, <3>2, <3>3 DEF ServeProcess, WorkerTo, RequestTypes, reqVars
  <2>3. LoopTypes'
    BY <1>15 DEF ServeProcess, WorkerTo, LoopTypes, loopVars
  <2> QED
    BY <2>1, <2>2, <2>3
<1>16. ASSUME NEW w \in Workers, Resume(w) PROVE TypeOK'
  <2>1. PoolTypes'
    <3>1. wpc' \in [Workers -> {"absent", "lock", "test", "wait", "parked", "serve", "resume", "exited"}]
      BY <1>16 DEF Resume, WorkerTo, PoolTypes
    <3>2. cur' \in [Workers -> Requests \cup {NoReq}]
      BY <1>16 DEF Resume, WorkerTo, PoolTypes
    <3> QED
      BY <1>16, <3>1, <3>2 DEF Resume, WorkerTo, PoolTypes, poolVars
  <2>2. RequestTypes'
    <3>1. stage' \in [Requests -> Stages]
      BY <1>16 DEF Resume, WorkerTo, RequestTypes, Stages
    <3>2. suspended' \in [Requests -> BOOLEAN]
      BY <1>16 DEF Resume, WorkerTo, RequestTypes
    <3> QED
      BY <1>16, <3>1, <3>2 DEF Resume, WorkerTo, RequestTypes, reqVars
  <2>3. LoopTypes'
    BY <1>16 DEF Resume, WorkerTo, LoopTypes, loopVars
  <2> QED
    BY <2>1, <2>2, <2>3
<1>17. ASSUME NEW r \in Requests, Read(r) PROVE TypeOK'
  <2>1. PoolTypes'
    BY <1>17 DEF Read, LoopTakes, PoolTypes, poolVars
  <2>2. RequestTypes'
    BY <1>17 DEF Read, LoopTakes, RequestTypes, reqVars, Stages
  <2>3. LoopTypes'
    BY <1>17, ShardsExist DEF Read, LoopTakes, LoopTypes, loopVars
  <2> QED
    BY <2>1, <2>2, <2>3
<1>18. ASSUME NEW r \in Requests, DispatchInline(r) PROVE TypeOK'
  <2>1. PoolTypes'
    BY <1>18 DEF DispatchInline, LoopOn, PoolTypes, poolVars
  <2>2. RequestTypes'
    BY <1>18 DEF DispatchInline, LoopOn, RequestTypes, reqVars, Stages
  <2>3. LoopTypes'
    BY <1>18 DEF DispatchInline, LoopOn, LoopTypes, loopVars
  <2> QED
    BY <2>1, <2>2, <2>3
<1>19. ASSUME NEW r \in Requests, DispatchHandOff(r) PROVE TypeOK'
  <2>1. PoolTypes'
    BY <1>19 DEF DispatchHandOff, LoopOn, PoolTypes, poolVars
  <2>2. RequestTypes'
    BY <1>19 DEF DispatchHandOff, LoopOn, RequestTypes, reqVars, Stages
  <2>3. LoopTypes'
    BY <1>19 DEF DispatchHandOff, LoopOn, LoopTypes, loopVars
  <2> QED
    BY <2>1, <2>2, <2>3
<1>20. ASSUME NEW r \in Requests, Suspend(r) PROVE TypeOK'
  <2>1. PoolTypes'
    BY <1>20 DEF Suspend, LoopOn, PoolTypes, poolVars
  <2>2. RequestTypes'
    <3>1. stage' \in [Requests -> Stages]
      BY <1>20 DEF Suspend, LoopOn, RequestTypes, Stages
    <3>2. suspended' \in [Requests -> BOOLEAN]
      BY <1>20 DEF Suspend, LoopOn, RequestTypes
    <3> QED
      BY <1>20, <3>1, <3>2 DEF Suspend, LoopOn, RequestTypes, reqVars
  <2>3. LoopTypes'
    BY <1>20 DEF Suspend, LoopOn, LoopTypes, loopVars
  <2> QED
    BY <2>1, <2>2, <2>3
<1>21. ASSUME NEW r \in Requests, StartCoroutine(r) PROVE TypeOK'
  <2>1. PoolTypes'
    BY <1>21 DEF StartCoroutine, LoopDrops, PoolTypes, poolVars
  <2>2. RequestTypes'
    BY <1>21 DEF StartCoroutine, LoopDrops, RequestTypes, reqVars, Stages
  <2>3. LoopTypes'
    <3>1. busy' \in [Loops -> Requests \cup {NoReq}]
      BY <1>21, ShardsExist DEF StartCoroutine, LoopDrops, LoopTypes
    <3>2. inCo' \in [Requests -> BOOLEAN]
      BY <1>21 DEF StartCoroutine, LoopDrops, LoopTypes
    <3>3. coRunning' \in [Loops -> Int]
      BY <1>21, CountersMove, ShardsExist DEF StartCoroutine, LoopDrops, LoopTypes
    <3> QED
      BY <1>21, <3>1, <3>2, <3>3 DEF StartCoroutine, LoopDrops, LoopTypes, loopVars
  <2> QED
    BY <2>1, <2>2, <2>3
<1>22. ASSUME NEW r \in Requests, CorHere(r) PROVE TypeOK'
  <2>1. PoolTypes'
    BY <1>22 DEF CorHere, LoopOn, PoolTypes, poolVars
  <2>2. RequestTypes'
    BY <1>22 DEF CorHere, LoopOn, RequestTypes, reqVars, Stages
  <2>3. LoopTypes'
    BY <1>22 DEF CorHere, LoopOn, LoopTypes, loopVars
  <2> QED
    BY <2>1, <2>2, <2>3
<1>23. ASSUME NEW r \in Requests, EnqueueRequest(r) PROVE TypeOK'
  <2>1. PoolTypes'
    BY <1>23, EnqueueTypes DEF EnqueueRequest
  <2>2. RequestTypes'
    BY <1>23 DEF EnqueueRequest, LoopDrops, RequestTypes, reqVars, Stages
  <2>3. LoopTypes'
    BY <1>23, ShardsExist DEF EnqueueRequest, LoopDrops, LoopTypes, loopVars
  <2> QED
    BY <2>1, <2>2, <2>3
<1>24. ASSUME NEW r \in Requests, ProcessInline(r) PROVE TypeOK'
  <2>1. PoolTypes'
    BY <1>24 DEF ProcessInline, LoopOn, LoopDrops, PoolTypes, poolVars
  <2>2. RequestTypes'
    <3>1. stage' \in [Requests -> Stages]
      BY <1>24 DEF ProcessInline, LoopOn, LoopDrops, RequestTypes, Stages
    <3>2. processed' \in [Requests -> Nat]
      BY <1>24, CountersMove DEF ProcessInline, LoopOn, LoopDrops, RequestTypes
    <3>3. responded' \in [Requests -> Nat]
      BY <1>24, CountersMove DEF ProcessInline, LoopOn, LoopDrops, RequestTypes
    <3> QED
      BY <1>24, <3>1, <3>2, <3>3 DEF ProcessInline, LoopOn, LoopDrops, RequestTypes, reqVars
  <2>3. LoopTypes'
    BY <1>24, ShardsExist DEF ProcessInline, LoopOn, LoopDrops, LoopTypes, loopVars
  <2> QED
    BY <2>1, <2>2, <2>3
<1>25. ASSUME NEW r \in Requests, ProcessCo(r) PROVE TypeOK'
  <2>1. PoolTypes'
    BY <1>25 DEF ProcessCo, LoopTakes, CoEnds, PoolTypes, poolVars
  <2>2. RequestTypes'
    <3>1. stage' \in [Requests -> Stages]
      BY <1>25 DEF ProcessCo, LoopTakes, CoEnds, RequestTypes, Stages
    <3>2. processed' \in [Requests -> Nat]
      BY <1>25, CountersMove DEF ProcessCo, LoopTakes, CoEnds, RequestTypes
    <3>3. suspended' \in [Requests -> BOOLEAN]
      BY <1>25 DEF ProcessCo, LoopTakes, CoEnds, RequestTypes
    <3>4. responded' \in [Requests -> Nat]
      BY <1>25, CountersMove DEF ProcessCo, LoopTakes, CoEnds, RequestTypes
    <3> QED
      BY <1>25, <3>1, <3>2, <3>3, <3>4 DEF ProcessCo, LoopTakes, CoEnds, RequestTypes, reqVars
  <2>3. LoopTypes'
    <3>1. busy' \in [Loops -> Requests \cup {NoReq}]
      BY <1>25, ShardsExist DEF ProcessCo, LoopTakes, CoEnds, LoopTypes
    <3>2. inCo' \in [Requests -> BOOLEAN]
      BY <1>25 DEF ProcessCo, LoopTakes, CoEnds, LoopTypes
    <3>3. coRunning' \in [Loops -> Int]
      BY <1>25, CountersMove, ShardsExist DEF ProcessCo, LoopTakes, CoEnds, LoopTypes
    <3> QED
      BY <1>25, <3>1, <3>2, <3>3 DEF ProcessCo, LoopTakes, CoEnds, LoopTypes, loopVars
  <2> QED
    BY <2>1, <2>2, <2>3
<1>26. ASSUME NEW r \in Requests, Resumed(r) PROVE TypeOK'
  <2>1. PoolTypes'
    BY <1>26 DEF Resumed, LoopTakes, PoolTypes, poolVars
  <2>2. RequestTypes'
    BY <1>26 DEF Resumed, LoopTakes, RequestTypes, reqVars, Stages
  <2>3. LoopTypes'
    BY <1>26, ShardsExist DEF Resumed, LoopTakes, LoopTypes, loopVars
  <2> QED
    BY <2>1, <2>2, <2>3
<1>27. ASSUME NEW r \in Requests, ResponseDone(r) PROVE TypeOK'
  <2>1. PoolTypes'
    BY <1>27 DEF ResponseDone, LoopTakes, PoolTypes, poolVars
  <2>2. RequestTypes'
    <3>1. stage' \in [Requests -> Stages]
      BY <1>27 DEF ResponseDone, LoopTakes, RequestTypes, Stages
    <3>2. responded' \in [Requests -> Nat]
      BY <1>27, CountersMove DEF ResponseDone, LoopTakes, RequestTypes
    <3> QED
      BY <1>27, <3>1, <3>2 DEF ResponseDone, LoopTakes, RequestTypes, reqVars
  <2>3. LoopTypes'
    BY <1>27, ShardsExist DEF ResponseDone, LoopTakes, LoopTypes, loopVars
  <2> QED
    BY <2>1, <2>2, <2>3
<1>28. ASSUME NEW r \in Requests, FinishInline(r) PROVE TypeOK'
  <2>1. PoolTypes'
    BY <1>28 DEF FinishInline, LoopOn, PoolTypes, poolVars
  <2>2. RequestTypes'
    BY <1>28 DEF FinishInline, LoopOn, RequestTypes, reqVars, Stages
  <2>3. LoopTypes'
    BY <1>28 DEF FinishInline, LoopOn, LoopTypes, loopVars
  <2> QED
    BY <2>1, <2>2, <2>3
<1>29. ASSUME NEW r \in Requests, FinishCoroutine(r) PROVE TypeOK'
  <2>1. PoolTypes'
    BY <1>29 DEF FinishCoroutine, LoopDrops, PoolTypes, poolVars
  <2>2. RequestTypes'
    BY <1>29 DEF FinishCoroutine, LoopDrops, RequestTypes, reqVars, Stages
  <2>3. LoopTypes'
    <3>1. busy' \in [Loops -> Requests \cup {NoReq}]
      BY <1>29, ShardsExist DEF FinishCoroutine, LoopDrops, LoopTypes
    <3>2. inCo' \in [Requests -> BOOLEAN]
      BY <1>29 DEF FinishCoroutine, LoopDrops, LoopTypes
    <3>3. coRunning' \in [Loops -> Int]
      BY <1>29, CountersMove, ShardsExist DEF FinishCoroutine, LoopDrops, LoopTypes
    <3> QED
      BY <1>29, <3>1, <3>2, <3>3 DEF FinishCoroutine, LoopDrops, LoopTypes, loopVars
  <2> QED
    BY <2>1, <2>2, <2>3
<1>30. ASSUME NEW r \in Requests, FinishHandOff(r) PROVE TypeOK'
  <2>1. PoolTypes'
    BY <1>30 DEF FinishHandOff, LoopOn, PoolTypes, poolVars
  <2>2. RequestTypes'
    BY <1>30 DEF FinishHandOff, LoopOn, RequestTypes, reqVars, Stages
  <2>3. LoopTypes'
    BY <1>30 DEF FinishHandOff, LoopOn, LoopTypes, loopVars
  <2> QED
    BY <2>1, <2>2, <2>3
<1>31. ASSUME NEW r \in Requests, EnqueueFinish(r) PROVE TypeOK'
  <2>1. PoolTypes'
    BY <1>31, EnqueueTypes DEF EnqueueFinish
  <2>2. RequestTypes'
    <3>1. stage' \in [Requests -> Stages]
      BY <1>31 DEF EnqueueFinish, LoopDrops, CoEnds, RequestTypes, Stages
    <3>2. asyncFinishing' \in [Requests -> BOOLEAN]
      BY <1>31 DEF EnqueueFinish, LoopDrops, CoEnds, RequestTypes
    <3> QED
      BY <1>31, <3>1, <3>2 DEF EnqueueFinish, LoopDrops, CoEnds, RequestTypes, reqVars
  <2>3. LoopTypes'
    <3>1. busy' \in [Loops -> Requests \cup {NoReq}]
      BY <1>31, ShardsExist DEF EnqueueFinish, LoopDrops, CoEnds, LoopTypes
    <3>2. inCo' \in [Requests -> BOOLEAN]
      BY <1>31 DEF EnqueueFinish, LoopDrops, CoEnds, LoopTypes
    <3>3. coRunning' \in [Loops -> Int]
      BY <1>31, CountersMove, ShardsExist DEF EnqueueFinish, LoopDrops, CoEnds, LoopTypes
    <3> QED
      BY <1>31, <3>1, <3>2, <3>3 DEF EnqueueFinish, LoopDrops, CoEnds, LoopTypes, loopVars
  <2> QED
    BY <2>1, <2>2, <2>3
<1>32. ASSUME NEW r \in Requests, FinishHere(r) PROVE TypeOK'
  <2>1. PoolTypes'
    BY <1>32 DEF FinishHere, LoopDrops, CoEnds, PoolTypes, poolVars
  <2>2. RequestTypes'
    <3>1. stage' \in [Requests -> Stages]
      BY <1>32 DEF FinishHere, LoopDrops, CoEnds, RequestTypes, Stages
    <3>2. finished' \in [Requests -> Nat]
      BY <1>32, CountersMove DEF FinishHere, LoopDrops, CoEnds, RequestTypes
    <3> QED
      BY <1>32, <3>1, <3>2 DEF FinishHere, LoopDrops, CoEnds, RequestTypes, reqVars
  <2>3. LoopTypes'
    <3>1. busy' \in [Loops -> Requests \cup {NoReq}]
      BY <1>32, ShardsExist DEF FinishHere, LoopDrops, CoEnds, LoopTypes
    <3>2. inCo' \in [Requests -> BOOLEAN]
      BY <1>32 DEF FinishHere, LoopDrops, CoEnds, LoopTypes
    <3>3. coRunning' \in [Loops -> Int]
      BY <1>32, CountersMove, ShardsExist DEF FinishHere, LoopDrops, CoEnds, LoopTypes
    <3> QED
      BY <1>32, <3>1, <3>2, <3>3 DEF FinishHere, LoopDrops, CoEnds, LoopTypes, loopVars
  <2> QED
    BY <2>1, <2>2, <2>3
<1>33. ASSUME NEW r \in Requests, FinishCoEnd(r) PROVE TypeOK'
  <2>1. PoolTypes'
    BY <1>33 DEF FinishCoEnd, CoEnds, PoolTypes, poolVars
  <2>2. RequestTypes'
    <3>1. stage' \in [Requests -> Stages]
      BY <1>33 DEF FinishCoEnd, CoEnds, RequestTypes, Stages
    <3>2. finished' \in [Requests -> Nat]
      BY <1>33, CountersMove DEF FinishCoEnd, CoEnds, RequestTypes
    <3> QED
      BY <1>33, <3>1, <3>2 DEF FinishCoEnd, CoEnds, RequestTypes, reqVars
  <2>3. LoopTypes'
    <3>1. inCo' \in [Requests -> BOOLEAN]
      BY <1>33 DEF FinishCoEnd, CoEnds, LoopTypes
    <3>2. coRunning' \in [Loops -> Int]
      BY <1>33, CountersMove, ShardsExist DEF FinishCoEnd, CoEnds, LoopTypes
    <3> QED
      BY <1>33, <3>1, <3>2 DEF FinishCoEnd, CoEnds, LoopTypes, loopVars
  <2> QED
    BY <2>1, <2>2, <2>3
<1>34. CASE UNCHANGED vars
  BY <1>34 DEF vars, PoolTypes, RequestTypes, LoopTypes
<1> QED
  BY <1>1, <1>2, <1>3, <1>4, <1>5, <1>6, <1>7, <1>8, <1>9, <1>10, <1>11, <1>12, <1>13, <1>14, <1>15, <1>16, <1>17, <1>18, <1>19, <1>20, <1>21, <1>22, <1>23, <1>24, <1>25, <1>26, <1>27, <1>28, <1>29, <1>30, <1>31, <1>32, <1>33, <1>34 DEF Next, Main, Worker, LoopStep

\* The initial state is well typed.
LEMMA TypeInit == Init => TypeOK
<1> SUFFICES ASSUME Init PROVE TypeOK
  OBVIOUS
<1>1. PoolTypes
  <2>1. queue \in [ShardIds -> Seq(Requests)]
    BY DEF Init
  <2>2. mtx \in [ShardIds -> Workers \cup {Unlocked}]
    BY DEF Init
  <2>3. wpc \in [Workers -> {"absent", "lock", "test", "wait", "parked", "serve", "resume", "exited"}]
    BY DEF Init
  <2>4. cur \in [Workers -> Requests \cup {NoReq}]
    BY DEF Init
  <2> QED
    BY <2>1, <2>2, <2>3, <2>4 DEF Init, PoolTypes
<1>2. RequestTypes
  BY DEF Init, RequestTypes, Stages
<1>3. LoopTypes
  BY DEF Init, LoopTypes
<1> QED
  BY <1>1, <1>2, <1>3 DEF TypeOK

\* TypeOK holds in every state of the program, whatever the constants.
THEOREM TypeCorrect == Spec => []TypeOK
<1>1. Init => TypeOK
  BY TypeInit
<1>2. TypeOK /\ [Next]_vars => TypeOK'
  BY TypeStep
<1> QED
  BY <1>1, <1>2, PTL DEF Spec

-----------------------------------------------------------------------------
(* Where a request is                                                      *)

\* No request enters a queue: what was queued still is, and once.
LEMMA QueueFrame ==
  ASSUME TypeOK, QueueHolds, UNCHANGED queue,
         \A q \in Requests : stage[q] \in QueueStages => stage'[q] \in QueueStages
  PROVE  QueueHolds'
<1>1. ASSUME NEW s \in ShardIds, NEW i \in 1 .. Len(queue[s]) PROVE queue[s][i] \in Requests
  BY DEF TypeOK, PoolTypes
<1> QED
  BY <1>1 DEF QueueHolds

\* A request that was in no queue is appended to one.
LEMMA EnqueueHolds ==
  ASSUME TypeOK, QueueHolds, NEW r \in Requests, Enqueue(r), stage[r] \notin QueueStages,
         NEW to \in QueueStages, stage' = [stage EXCEPT ![r] = to]
  PROVE  QueueHolds'
<1> DEFINE s == ShardOf(r)
<1>1. s \in ShardIds /\ queue[s] \in Seq(Requests)
  BY ShardsExist DEF TypeOK, PoolTypes
<1>2. /\ Len(queue'[s]) = Len(queue[s]) + 1
      /\ \A i \in 1 .. Len(queue[s]) : queue'[s][i] = queue[s][i]
      /\ queue'[s][Len(queue[s]) + 1] = r
      /\ \A t \in ShardIds : t # s => queue'[t] = queue[t]
  BY <1>1 DEF Enqueue, TypeOK, PoolTypes
<1>3. ASSUME NEW t \in ShardIds, NEW i \in 1 .. Len(queue[t])
      PROVE queue[t][i] \in Requests /\ queue[t][i] # r /\ stage'[queue[t][i]] \in QueueStages
  <2>1. queue[t][i] \in Requests
    BY DEF TypeOK, PoolTypes
  <2>2. stage[queue[t][i]] \in QueueStages
    BY DEF QueueHolds
  <2> QED
    BY <2>1, <2>2 DEF TypeOK, RequestTypes
<1>4. stage'[r] = to
  BY DEF TypeOK, RequestTypes
<1>5. Len(queue[s]) \in Nat
  BY <1>1
<1>6. ASSUME NEW t \in ShardIds, NEW i \in 1 .. Len(queue'[t])
      PROVE \/ t = s /\ i = Len(queue[s]) + 1 /\ queue'[t][i] = r
            \/ i \in 1 .. Len(queue[t]) /\ queue'[t][i] = queue[t][i]
  <2>1. CASE t = s
    BY <1>2, <1>5, <2>1
  <2>2. CASE t # s
    BY <1>2, <2>2
  <2> QED
    BY <2>1, <2>2
<1>7. \A t \in ShardIds : \A i \in 1 .. Len(queue'[t]) : stage'[queue'[t][i]] \in QueueStages
  BY <1>3, <1>4, <1>6
<1>8. \A t, u \in ShardIds : \A i \in 1 .. Len(queue'[t]), j \in 1 .. Len(queue'[u]) :
        queue'[t][i] = queue'[u][j] => t = u /\ i = j
  BY <1>3, <1>6 DEF QueueHolds
<1> QED
  BY <1>7, <1>8 DEF QueueHolds

\* The four ways a step moves one request with respect to its loop.
LEMMA LoopMoves ==
  ASSUME TypeOK, LoopHolds, NEW r \in Requests, NEW from, NEW to,
         \/ LoopTakes(r, from, to) /\ to \in LoopStages
         \/ LoopOn(r, from, to) /\ from \in LoopStages /\ to \in LoopStages
         \/ LoopDrops(r, from, to) /\ from \in LoopStages /\ to \notin LoopStages
         \/ /\ stage[r] = from /\ stage' = [stage EXCEPT ![r] = to] /\ UNCHANGED busy
            /\ from \notin LoopStages /\ to \notin LoopStages
  PROVE  LoopHolds'
<1>1. LoopOf[r] \in Loops /\ \A q \in Requests : LoopOf[q] \in Loops
  BY ShardsExist
<1>2. NoReq \notin Requests
  BY PoolAssumption
<1>3. \A l \in Loops : busy[l] \in Requests \cup {NoReq}
  BY DEF TypeOK, LoopTypes
<1>4. stage'[r] = to /\ \A q \in Requests : q # r => stage'[q] = stage[q]
  BY DEF LoopTakes, LoopOn, LoopDrops, TypeOK, RequestTypes
<1>5. CASE LoopTakes(r, from, to) /\ to \in LoopStages
  <2>1. busy'[LoopOf[r]] = r /\ busy[LoopOf[r]] = NoReq /\ \A l \in Loops : l # LoopOf[r] => busy'[l] = busy[l]
    BY <1>1, <1>5 DEF LoopTakes, TypeOK, LoopTypes
  <2> QED
    BY <1>1, <1>2, <1>3, <1>4, <1>5, <2>1 DEF LoopHolds
<1>6. CASE LoopDrops(r, from, to) /\ from \in LoopStages /\ to \notin LoopStages
  <2>1. busy'[LoopOf[r]] = NoReq /\ \A l \in Loops : l # LoopOf[r] => busy'[l] = busy[l]
    BY <1>1, <1>6 DEF LoopDrops, TypeOK, LoopTypes
  <2>2. busy[LoopOf[r]] = r
    BY <1>6 DEF LoopDrops, LoopHolds
  <2> QED
    BY <1>1, <1>2, <1>3, <1>4, <1>6, <2>1, <2>2 DEF LoopHolds
<1>7. CASE UNCHANGED busy /\ stage[r] = from /\ (from \in LoopStages <=> to \in LoopStages)
  BY <1>1, <1>2, <1>3, <1>4, <1>7 DEF LoopHolds
<1> QED
  BY <1>5, <1>6, <1>7 DEF LoopOn

\* Queueing a request moves no other, and may wake a worker that holds none.
LEMMA EnqueueWorkers ==
  ASSUME TypeOK, WorkerHolds, NEW r \in Requests, Enqueue(r), NEW to,
         stage[r] \notin {"running", "finishing", "processed"},
         stage' = [stage EXCEPT ![r] = to],
         \A q \in Requests : q # r => asyncFinishing'[q] = asyncFinishing[q]
  PROVE  WorkerHolds'
<1>1. ASSUME NEW w \in Workers, cur[w] # NoReq
      PROVE  /\ cur[w] \in Requests /\ cur[w] # r
             /\ stage'[cur[w]] = stage[cur[w]] /\ asyncFinishing'[cur[w]] = asyncFinishing[cur[w]]
  <2>1. cur[w] \in Requests
    BY <1>1 DEF TypeOK, PoolTypes
  <2>2. wpc[w] \in {"serve", "resume"}
    BY <1>1 DEF WorkerHolds
  <2>3. stage[cur[w]] \in {"running", "finishing", "processed"}
    BY <2>2 DEF WorkerHolds
  <2> QED
    BY <2>1, <2>3 DEF TypeOK, RequestTypes
<1>2. \A w \in Workers : wpc'[w] = wpc[w] \/ (wpc[w] = "parked" /\ wpc'[w] = "lock")
  BY DEF Enqueue, Parked, TypeOK, PoolTypes
<1>3. UNCHANGED <<cur, mainPc, ix>>
  BY DEF Enqueue
<1>4. \A w \in Workers : (wpc'[w] \in {"serve", "resume"}) = (wpc[w] \in {"serve", "resume"})
  BY <1>2
<1>5. \A w \in Workers : wpc[w] \in {"serve", "resume"} => wpc'[w] = wpc[w]
  BY <1>2
<1>6. mainPc = "starting" => \A w \in Workers : w >= ix => wpc'[w] = "absent"
  BY <1>2 DEF WorkerHolds
<1> QED
  BY <1>1, <1>2, <1>3, <1>4, <1>5, <1>6 DEF WorkerHolds

\* The worker takes a request that was in its queue, once, and in nobody's hands.
LEMMA PopHolds ==
  ASSUME TypeOK, Placed, NEW w \in Workers, TestPop(w)
  PROVE  LoopHolds' /\ QueueHolds' /\ WorkerHolds' /\ Progress'
<1> DEFINE s == WorkerShard(w)
           r == Head(queue[s])
           to == IF asyncFinishing[r] THEN "finishing" ELSE "running"
<1>1. s \in ShardIds /\ queue[s] \in Seq(Requests) /\ queue[s] # <<>>
  BY ShardsExist DEF TestPop, TypeOK, PoolTypes
<1>2. r = queue[s][1] /\ r \in Requests /\ 1 \in 1 .. Len(queue[s])
  BY <1>1
<1>3. stage[r] \in QueueStages
  BY <1>1, <1>2 DEF Placed, QueueHolds
<1>4. asyncFinishing[r] <=> stage[r] = "finishQueued"
  BY <1>2, <1>3 DEF Placed, Progress, QueueStages
<1>5. stage' = [stage EXCEPT ![r] = to]
  BY DEF TestPop
<1>6. stage'[r] = to /\ \A q \in Requests : q # r => stage'[q] = stage[q]
  BY <1>2, <1>5 DEF TypeOK, RequestTypes
<1>7. /\ UNCHANGED <<asyncFinishing, busy, mainPc, ix, processed, responded, finished, suspended, asyncProcessed>>
      /\ wpc[w] = "test" /\ wpc' = [wpc EXCEPT ![w] = "serve"] /\ cur' = [cur EXCEPT ![w] = r]
      /\ queue' = [queue EXCEPT ![s] = Tail(@)]
  BY DEF TestPop, WorkerTo, loopVars
<1>8. LoopHolds'
  <2>1. to \notin LoopStages /\ stage[r] \notin LoopStages
    BY <1>3 DEF LoopStages, QueueStages
  <2> HIDE DEF r, to
  <2> QED
    BY <1>2, <1>5, <1>7, <2>1, LoopMoves DEF Placed
<1>9. ASSUME NEW t \in ShardIds, NEW i \in 1 .. Len(queue'[t])
      PROVE  /\ (IF t = s THEN i + 1 ELSE i) \in 1 .. Len(queue[t])
             /\ queue'[t][i] = queue[t][IF t = s THEN i + 1 ELSE i]
             /\ queue'[t][i] \in Requests /\ queue'[t][i] # r
  <2>1. CASE t = s
    <3>1. queue'[t] = Tail(queue[s])
      BY <1>1, <1>7, <2>1 DEF TypeOK, PoolTypes
    <3>2. Len(queue'[t]) = Len(queue[s]) - 1 /\ queue'[t][i] = queue[s][i + 1] /\ i + 1 \in 1 .. Len(queue[s])
      BY <1>1, <3>1
    <3>3. queue[s][i + 1] \in Requests
      BY <1>1, <3>2
    <3>4. i + 1 # 1
      OBVIOUS
    <3>5. queue[s][i + 1] # queue[s][1]
      BY <1>1, <1>2, <3>2, <3>4 DEF Placed, QueueHolds
    <3> QED
      BY <1>2, <2>1, <3>2, <3>3, <3>5
  <2>2. CASE t # s
    <3>1. queue'[t] = queue[t]
      BY <1>7, <2>2 DEF TypeOK, PoolTypes
    <3>2. queue[t][i] \in Requests
      BY <3>1 DEF TypeOK, PoolTypes
    <3>3. queue[t][i] # queue[s][1]
      BY <1>1, <1>2, <2>2, <3>1 DEF Placed, QueueHolds
    <3> QED
      BY <1>2, <2>2, <3>1, <3>2, <3>3
  <2> QED
    BY <2>1, <2>2
<1>10. QueueHolds'
  <2>1. ASSUME NEW t \in ShardIds, NEW i \in 1 .. Len(queue'[t]) PROVE stage'[queue'[t][i]] \in QueueStages
    <3>1. stage'[queue'[t][i]] = stage[queue'[t][i]]
      BY <1>6, <1>9
    <3>2. stage[queue[t][IF t = s THEN i + 1 ELSE i]] \in QueueStages
      BY <1>9 DEF Placed, QueueHolds
    <3> QED
      BY <1>9, <3>1, <3>2
  <2>2. ASSUME NEW t \in ShardIds, NEW u \in ShardIds, NEW i \in 1 .. Len(queue'[t]),
               NEW j \in 1 .. Len(queue'[u]), queue'[t][i] = queue'[u][j]
        PROVE t = u /\ i = j
    <3> DEFINE I == IF t = s THEN i + 1 ELSE i
               J == IF u = s THEN j + 1 ELSE j
    <3>1. I \in 1 .. Len(queue[t]) /\ J \in 1 .. Len(queue[u]) /\ queue[t][I] = queue[u][J]
      BY <1>9, <2>2
    <3>2. t = u /\ I = J
      <4> HIDE DEF I, J
      <4> QED
        BY <3>1 DEF Placed, QueueHolds
    <3> QED
      BY <3>2
  <2> QED
    BY <2>1, <2>2 DEF QueueHolds
<1>11. WorkerHolds'
  <2>1. cur[w] = NoReq
    BY <1>7 DEF Placed, WorkerHolds
  <2>2. ASSUME NEW v \in Workers, v # w, cur[v] # NoReq
        PROVE cur[v] \in Requests /\ cur[v] # r
    <3>1. stage[cur[v]] \in {"running", "finishing", "processed"}
      BY <2>2 DEF Placed, WorkerHolds
    <3> QED
      BY <1>3, <2>2, <3>1 DEF QueueStages, TypeOK, PoolTypes
  <2>3. \A v \in Workers : v # w => wpc'[v] = wpc[v] /\ cur'[v] = cur[v]
    BY <1>7 DEF TypeOK, PoolTypes
  <2>4. wpc'[w] = "serve" /\ cur'[w] = r
    BY <1>7 DEF TypeOK, PoolTypes
  <2>5. r # NoReq
    BY <1>2, PoolAssumption
  <2>6. mainPc' = "starting" => \A v \in Workers : v >= ix' => wpc'[v] = "absent"
    BY <1>7, <2>3 DEF Placed, WorkerHolds
  <2>7. \A v \in Workers : wpc'[v] \in {"serve", "resume"} <=> cur'[v] # NoReq
    BY <2>3, <2>4, <2>5 DEF Placed, WorkerHolds
  <2>8. \A v \in Workers : wpc'[v] = "serve" =>
          stage'[cur'[v]] = IF asyncFinishing'[cur'[v]] THEN "finishing" ELSE "running"
    <3> HIDE DEF r
    <3> QED
      BY <1>6, <1>7, <2>2, <2>3, <2>4 DEF Placed, WorkerHolds
  <2>9. \A v \in Workers : wpc'[v] = "resume" => stage'[cur'[v]] = "processed"
    BY <1>6, <2>2, <2>3, <2>4 DEF Placed, WorkerHolds
  <2>10. \A u, v \in Workers : cur'[u] # NoReq /\ cur'[u] = cur'[v] => u = v
    BY <2>2, <2>3, <2>4 DEF Placed, WorkerHolds
  <2> QED
    BY <2>6, <2>7, <2>8, <2>9, <2>10 DEF WorkerHolds
<1>12. Progress'
  <2>1. ASSUME NEW q \in Requests, q # r PROVE stage'[q] = stage[q]
    BY <1>6, <2>1
  <2> HIDE DEF r
  <2> QED
    BY <1>2, <1>3, <1>4, <1>6, <1>7 DEF Placed, Progress, QueueStages
<1> QED
  BY <1>8, <1>10, <1>11, <1>12

\* Every step leaves every request in one party's hands, at the point its
\* stage says.
LEMMA PlacedStep ==
  ASSUME TypeOK, Placed, [Next]_vars
  PROVE  Placed'
<1> USE ShardsExist, PoolAssumption DEF TypeOK, Placed
<1>1. CASE StartWorker
  <2>1. LoopHolds'
    BY <1>1 DEF StartWorker, LoopHolds, LoopStages, LoopTypes, RequestTypes, reqVars, loopVars
  <2>2. QueueHolds'
    BY <1>1 DEF StartWorker, QueueHolds, QueueStages, PoolTypes, RequestTypes, reqVars, loopVars
  <2>3. WorkerHolds'
    <3>1. ix \in Workers /\ wpc[ix] = "absent" /\ cur[ix] = NoReq
      <4>1. ix \in Workers /\ ix >= ix /\ mainPc = "starting"
        BY <1>1 DEF StartWorker, Workers, PoolTypes
      <4>2. wpc[ix] = "absent"
        BY <4>1 DEF WorkerHolds
      <4> QED
        BY <4>1, <4>2 DEF WorkerHolds
    <3>2. wpc'[ix] = "lock" /\ \A v \in Workers : v # ix => wpc'[v] = wpc[v]
      BY <1>1, <3>1 DEF StartWorker, PoolTypes
    <3>3. ix' = ix + 1 /\ \A v \in Workers : v >= ix' => v # ix /\ v >= ix
      BY <1>1, <3>1 DEF StartWorker, Workers
    <3>4. UNCHANGED <<cur, mainPc, stage, asyncFinishing>>
      BY <1>1 DEF StartWorker, reqVars
    <3> QED
      BY <3>1, <3>2, <3>3, <3>4 DEF WorkerHolds
  <2>4. Progress'
    BY <1>1 DEF StartWorker, Progress, RequestTypes, reqVars, loopVars
  <2> QED
    BY <2>1, <2>2, <2>3, <2>4
<1>2. CASE StartDone
  <2>1. LoopHolds'
    BY <1>2 DEF StartDone, LoopHolds, LoopStages, LoopTypes, RequestTypes, reqVars, loopVars
  <2>2. QueueHolds'
    BY <1>2 DEF StartDone, QueueHolds, QueueStages, PoolTypes, RequestTypes, reqVars, loopVars
  <2>3. WorkerHolds'
    BY <1>2 DEF StartDone, WorkerHolds, PoolTypes, RequestTypes, reqVars, loopVars
  <2>4. Progress'
    BY <1>2 DEF StartDone, Progress, RequestTypes, reqVars, loopVars
  <2> QED
    BY <2>1, <2>2, <2>3, <2>4
<1>3. CASE StartFailed
  <2>1. LoopHolds'
    BY <1>3 DEF StartFailed, LoopHolds, LoopStages, LoopTypes, RequestTypes, reqVars, loopVars
  <2>2. QueueHolds'
    BY <1>3 DEF StartFailed, QueueHolds, QueueStages, PoolTypes, RequestTypes, reqVars, loopVars
  <2>3. WorkerHolds'
    BY <1>3 DEF StartFailed, WorkerHolds, PoolTypes, RequestTypes, reqVars, loopVars
  <2>4. Progress'
    BY <1>3 DEF StartFailed, Progress, RequestTypes, reqVars, loopVars
  <2> QED
    BY <2>1, <2>2, <2>3, <2>4
<1>4. CASE Stop
  <2>1. LoopHolds'
    BY <1>4 DEF Stop, LoopHolds, LoopStages, LoopTypes, RequestTypes, reqVars, loopVars
  <2>2. QueueHolds'
    BY <1>4 DEF Stop, QueueHolds, QueueStages, PoolTypes, RequestTypes, reqVars, loopVars
  <2>3. WorkerHolds'
    BY <1>4 DEF Stop, WorkerHolds, PoolTypes, RequestTypes, reqVars, loopVars
  <2>4. Progress'
    BY <1>4 DEF Stop, Progress, RequestTypes, reqVars, loopVars
  <2> QED
    BY <2>1, <2>2, <2>3, <2>4
<1>5. CASE StopShard
  <2>1. LoopHolds'
    BY <1>5 DEF StopShard, Parked, LoopHolds, LoopStages, LoopTypes, RequestTypes, reqVars, loopVars
  <2>2. QueueHolds'
    BY <1>5 DEF StopShard, Parked, QueueHolds, QueueStages, PoolTypes, RequestTypes, reqVars, loopVars
  <2>3. WorkerHolds'
    BY <1>5 DEF StopShard, Parked, WorkerHolds, PoolTypes, RequestTypes, reqVars, loopVars
  <2>4. Progress'
    BY <1>5 DEF StopShard, Parked, Progress, RequestTypes, reqVars, loopVars
  <2> QED
    BY <2>1, <2>2, <2>3, <2>4
<1>6. CASE StopJoin
  <2>1. LoopHolds'
    BY <1>6 DEF StopJoin, LoopHolds, LoopStages, LoopTypes, RequestTypes, reqVars, loopVars
  <2>2. QueueHolds'
    BY <1>6 DEF StopJoin, QueueHolds, QueueStages, PoolTypes, RequestTypes, reqVars, loopVars
  <2>3. WorkerHolds'
    BY <1>6 DEF StopJoin, WorkerHolds, PoolTypes, RequestTypes, reqVars, loopVars
  <2>4. Progress'
    BY <1>6 DEF StopJoin, Progress, RequestTypes, reqVars, loopVars
  <2> QED
    BY <2>1, <2>2, <2>3, <2>4
<1>7. CASE Joined
  <2>1. LoopHolds'
    BY <1>7 DEF Joined, LoopHolds, LoopStages, LoopTypes, RequestTypes, reqVars, loopVars
  <2>2. QueueHolds'
    BY <1>7 DEF Joined, QueueHolds, QueueStages, PoolTypes, RequestTypes, reqVars, loopVars
  <2>3. WorkerHolds'
    BY <1>7 DEF Joined, WorkerHolds, PoolTypes, RequestTypes, reqVars, loopVars
  <2>4. Progress'
    BY <1>7 DEF Joined, Progress, RequestTypes, reqVars, loopVars
  <2> QED
    BY <2>1, <2>2, <2>3, <2>4
<1>8. ASSUME NEW w \in Workers, Lock(w) PROVE Placed'
  <2>1. LoopHolds'
    BY <1>8 DEF Lock, WorkerTo, LoopHolds, LoopStages, LoopTypes, RequestTypes, reqVars, loopVars
  <2>2. QueueHolds'
    BY <1>8 DEF Lock, WorkerTo, QueueHolds, QueueStages, PoolTypes, RequestTypes, reqVars, loopVars
  <2>3. WorkerHolds'
    BY <1>8 DEF Lock, WorkerTo, WorkerHolds, PoolTypes, RequestTypes, reqVars, loopVars
  <2>4. Progress'
    BY <1>8 DEF Lock, WorkerTo, Progress, RequestTypes, reqVars, loopVars
  <2> QED
    BY <2>1, <2>2, <2>3, <2>4
<1>9. ASSUME NEW w \in Workers, TestWait(w) PROVE Placed'
  <2>1. LoopHolds'
    BY <1>9 DEF TestWait, WorkerTo, LoopHolds, LoopStages, LoopTypes, RequestTypes, reqVars, loopVars
  <2>2. QueueHolds'
    BY <1>9 DEF TestWait, WorkerTo, QueueHolds, QueueStages, PoolTypes, RequestTypes, reqVars, loopVars
  <2>3. WorkerHolds'
    BY <1>9 DEF TestWait, WorkerTo, WorkerHolds, PoolTypes, RequestTypes, reqVars, loopVars
  <2>4. Progress'
    BY <1>9 DEF TestWait, WorkerTo, Progress, RequestTypes, reqVars, loopVars
  <2> QED
    BY <2>1, <2>2, <2>3, <2>4
<1>10. ASSUME NEW w \in Workers, TestExit(w) PROVE Placed'
  <2>1. LoopHolds'
    BY <1>10 DEF TestExit, WorkerTo, LoopHolds, LoopStages, LoopTypes, RequestTypes, reqVars, loopVars
  <2>2. QueueHolds'
    BY <1>10 DEF TestExit, WorkerTo, QueueHolds, QueueStages, PoolTypes, RequestTypes, reqVars, loopVars
  <2>3. WorkerHolds'
    BY <1>10 DEF TestExit, WorkerTo, WorkerHolds, PoolTypes, RequestTypes, reqVars, loopVars
  <2>4. Progress'
    BY <1>10 DEF TestExit, WorkerTo, Progress, RequestTypes, reqVars, loopVars
  <2> QED
    BY <2>1, <2>2, <2>3, <2>4
<1>11. ASSUME NEW w \in Workers, TestPop(w) PROVE Placed'
  <2>1. LoopHolds'
    BY <1>11, PopHolds
  <2>2. QueueHolds'
    BY <1>11, PopHolds
  <2>3. WorkerHolds'
    BY <1>11, PopHolds
  <2>4. Progress'
    BY <1>11, PopHolds
  <2> QED
    BY <2>1, <2>2, <2>3, <2>4
<1>12. ASSUME NEW w \in Workers, CondWait(w) PROVE Placed'
  <2>1. LoopHolds'
    BY <1>12 DEF CondWait, WorkerTo, LoopHolds, LoopStages, LoopTypes, RequestTypes, reqVars, loopVars
  <2>2. QueueHolds'
    BY <1>12 DEF CondWait, WorkerTo, QueueHolds, QueueStages, PoolTypes, RequestTypes, reqVars, loopVars
  <2>3. WorkerHolds'
    BY <1>12 DEF CondWait, WorkerTo, WorkerHolds, PoolTypes, RequestTypes, reqVars, loopVars
  <2>4. Progress'
    BY <1>12 DEF CondWait, WorkerTo, Progress, RequestTypes, reqVars, loopVars
  <2> QED
    BY <2>1, <2>2, <2>3, <2>4
<1>13. ASSUME NEW w \in Workers, SpuriousWakeup(w) PROVE Placed'
  <2>1. LoopHolds'
    BY <1>13 DEF SpuriousWakeup, WorkerTo, LoopHolds, LoopStages, LoopTypes, RequestTypes, reqVars, loopVars
  <2>2. QueueHolds'
    BY <1>13 DEF SpuriousWakeup, WorkerTo, QueueHolds, QueueStages, PoolTypes, RequestTypes, reqVars, loopVars
  <2>3. WorkerHolds'
    BY <1>13 DEF SpuriousWakeup, WorkerTo, WorkerHolds, PoolTypes, RequestTypes, reqVars, loopVars
  <2>4. Progress'
    BY <1>13 DEF SpuriousWakeup, WorkerTo, Progress, RequestTypes, reqVars, loopVars
  <2> QED
    BY <2>1, <2>2, <2>3, <2>4
<1>14. ASSUME NEW w \in Workers, ServeFinish(w) PROVE Placed'
  <2>1. LoopHolds'
    BY <1>14 DEF ServeFinish, WorkerTo, LoopHolds, LoopStages, LoopTypes, RequestTypes, loopVars, WorkerHolds, PoolTypes
  <2>2. QueueHolds'
    <3>1. \A q \in Requests : stage[q] \in QueueStages => stage'[q] \in QueueStages
      BY <1>14 DEF ServeFinish, WorkerTo, RequestTypes, QueueStages, WorkerHolds, PoolTypes
    <3> QED
      BY <1>14, <3>1, QueueFrame DEF ServeFinish, WorkerTo
  <2>3. WorkerHolds'
    BY <1>14 DEF ServeFinish, WorkerTo, WorkerHolds, PoolTypes, RequestTypes, loopVars
  <2>4. Progress'
    BY <1>14 DEF ServeFinish, WorkerTo, Progress, RequestTypes, loopVars, WorkerHolds, PoolTypes
  <2> QED
    BY <2>1, <2>2, <2>3, <2>4
<1>15. ASSUME NEW w \in Workers, ServeProcess(w) PROVE Placed'
  <2>1. LoopHolds'
    BY <1>15 DEF ServeProcess, WorkerTo, LoopHolds, LoopStages, LoopTypes, RequestTypes, loopVars, WorkerHolds, PoolTypes
  <2>2. QueueHolds'
    <3>1. \A q \in Requests : stage[q] \in QueueStages => stage'[q] \in QueueStages
      BY <1>15 DEF ServeProcess, WorkerTo, RequestTypes, QueueStages, WorkerHolds, PoolTypes
    <3> QED
      BY <1>15, <3>1, QueueFrame DEF ServeProcess, WorkerTo
  <2>3. WorkerHolds'
    BY <1>15 DEF ServeProcess, WorkerTo, WorkerHolds, PoolTypes, RequestTypes, loopVars
  <2>4. Progress'
    <3> DEFINE r == cur[w]
    <3>1. r \in Requests /\ stage[r] = "running" /\ ~asyncFinishing[r]
      BY <1>15 DEF ServeProcess, WorkerTo, WorkerHolds, PoolTypes
    <3>2. /\ processed' = [processed EXCEPT ![r] = @ + 1] /\ asyncProcessed' = [asyncProcessed EXCEPT ![r] = TRUE]
          /\ stage' = [stage EXCEPT ![r] = "processed"]
          /\ UNCHANGED <<suspended, asyncFinishing, responded, finished>>
      BY <1>15 DEF ServeProcess
    <3> HIDE DEF r
    <3> QED
      BY <3>1, <3>2 DEF Progress, RequestTypes
  <2> QED
    BY <2>1, <2>2, <2>3, <2>4
<1>16. ASSUME NEW w \in Workers, Resume(w) PROVE Placed'
  <2>1. LoopHolds'
    BY <1>16 DEF Resume, WorkerTo, LoopHolds, LoopStages, LoopTypes, RequestTypes, loopVars, WorkerHolds, PoolTypes
  <2>2. QueueHolds'
    <3>1. \A q \in Requests : stage[q] \in QueueStages => stage'[q] \in QueueStages
      BY <1>16 DEF Resume, WorkerTo, RequestTypes, QueueStages, WorkerHolds, PoolTypes
    <3> QED
      BY <1>16, <3>1, QueueFrame DEF Resume, WorkerTo
  <2>3. WorkerHolds'
    BY <1>16 DEF Resume, WorkerTo, WorkerHolds, PoolTypes, RequestTypes, loopVars
  <2>4. Progress'
    <3>1. stage[cur[w]] = "processed" /\ cur[w] \in Requests
      BY <1>16 DEF Resume, WorkerTo, WorkerHolds, PoolTypes
    <3>2. /\ stage'[cur[w]] = "resumed" /\ suspended'[cur[w]] = FALSE
          /\ \A q \in Requests : q # cur[w] => stage'[q] = stage[q] /\ suspended'[q] = suspended[q]
      BY <1>16, <3>1 DEF Resume, RequestTypes
    <3>3. UNCHANGED <<processed, responded, finished, asyncProcessed, asyncFinishing>>
      BY <1>16 DEF Resume
    <3> QED
      BY <3>1, <3>2, <3>3 DEF Progress
  <2> QED
    BY <2>1, <2>2, <2>3, <2>4
<1>17. ASSUME NEW r \in Requests, Read(r) PROVE Placed'
  <2>1. LoopHolds'
    BY <1>17 DEF Read, LoopTakes, LoopHolds, LoopStages, LoopTypes, RequestTypes, poolVars
  <2>2. QueueHolds'
    <3>1. \A q \in Requests : stage[q] \in QueueStages => stage'[q] \in QueueStages
      BY <1>17 DEF Read, LoopTakes, RequestTypes, QueueStages
    <3> QED
      BY <1>17, <3>1, QueueFrame DEF Read, LoopTakes, poolVars
  <2>3. WorkerHolds'
    BY <1>17 DEF Read, LoopTakes, WorkerHolds, PoolTypes, RequestTypes, poolVars
  <2>4. Progress'
    BY <1>17 DEF Read, LoopTakes, Progress, RequestTypes, poolVars
  <2> QED
    BY <2>1, <2>2, <2>3, <2>4
<1>18. ASSUME NEW r \in Requests, DispatchInline(r) PROVE Placed'
  <2>1. LoopHolds'
    BY <1>18 DEF DispatchInline, LoopOn, LoopHolds, LoopStages, LoopTypes, RequestTypes, poolVars, loopVars
  <2>2. QueueHolds'
    <3>1. \A q \in Requests : stage[q] \in QueueStages => stage'[q] \in QueueStages
      BY <1>18 DEF DispatchInline, LoopOn, RequestTypes, QueueStages
    <3> QED
      BY <1>18, <3>1, QueueFrame DEF DispatchInline, LoopOn, poolVars
  <2>3. WorkerHolds'
    BY <1>18 DEF DispatchInline, LoopOn, WorkerHolds, PoolTypes, RequestTypes, poolVars, loopVars
  <2>4. Progress'
    BY <1>18 DEF DispatchInline, LoopOn, Progress, RequestTypes, poolVars, loopVars
  <2> QED
    BY <2>1, <2>2, <2>3, <2>4
<1>19. ASSUME NEW r \in Requests, DispatchHandOff(r) PROVE Placed'
  <2>1. LoopHolds'
    BY <1>19 DEF DispatchHandOff, LoopOn, LoopHolds, LoopStages, LoopTypes, RequestTypes, poolVars, loopVars
  <2>2. QueueHolds'
    <3>1. \A q \in Requests : stage[q] \in QueueStages => stage'[q] \in QueueStages
      BY <1>19 DEF DispatchHandOff, LoopOn, RequestTypes, QueueStages
    <3> QED
      BY <1>19, <3>1, QueueFrame DEF DispatchHandOff, LoopOn, poolVars
  <2>3. WorkerHolds'
    BY <1>19 DEF DispatchHandOff, LoopOn, WorkerHolds, PoolTypes, RequestTypes, poolVars, loopVars
  <2>4. Progress'
    BY <1>19 DEF DispatchHandOff, LoopOn, Progress, RequestTypes, poolVars, loopVars
  <2> QED
    BY <2>1, <2>2, <2>3, <2>4
<1>20. ASSUME NEW r \in Requests, Suspend(r) PROVE Placed'
  <2>1. LoopHolds'
    BY <1>20 DEF Suspend, LoopOn, LoopHolds, LoopStages, LoopTypes, RequestTypes, poolVars, loopVars
  <2>2. QueueHolds'
    <3>1. \A q \in Requests : stage[q] \in QueueStages => stage'[q] \in QueueStages
      BY <1>20 DEF Suspend, LoopOn, RequestTypes, QueueStages
    <3> QED
      BY <1>20, <3>1, QueueFrame DEF Suspend, LoopOn, poolVars
  <2>3. WorkerHolds'
    BY <1>20 DEF Suspend, LoopOn, WorkerHolds, PoolTypes, RequestTypes, poolVars, loopVars
  <2>4. Progress'
    BY <1>20 DEF Suspend, LoopOn, Progress, RequestTypes, poolVars, loopVars
  <2> QED
    BY <2>1, <2>2, <2>3, <2>4
<1>21. ASSUME NEW r \in Requests, StartCoroutine(r) PROVE Placed'
  <2>1. LoopHolds'
    <3>1. CASE LoopDrops(r, "suspended", "co")
      BY <3>1, LoopMoves DEF LoopStages
    <3>2. CASE LoopDrops(r, "handoff", "co")
      BY <3>2, LoopMoves DEF LoopStages
    <3> QED
      BY <1>21, <3>1, <3>2 DEF StartCoroutine
  <2>2. QueueHolds'
    <3>1. \A q \in Requests : stage[q] \in QueueStages => stage'[q] \in QueueStages
      BY <1>21 DEF StartCoroutine, LoopDrops, RequestTypes, QueueStages
    <3> QED
      BY <1>21, <3>1, QueueFrame DEF StartCoroutine, LoopDrops, poolVars
  <2>3. WorkerHolds'
    BY <1>21 DEF StartCoroutine, LoopDrops, WorkerHolds, PoolTypes, RequestTypes, poolVars
  <2>4. Progress'
    BY <1>21 DEF StartCoroutine, LoopDrops, Progress, RequestTypes, poolVars
  <2> QED
    BY <2>1, <2>2, <2>3, <2>4
<1>22. ASSUME NEW r \in Requests, CorHere(r) PROVE Placed'
  <2>1. LoopHolds'
    BY <1>22 DEF CorHere, LoopOn, LoopHolds, LoopStages, LoopTypes, RequestTypes, poolVars, loopVars
  <2>2. QueueHolds'
    <3>1. \A q \in Requests : stage[q] \in QueueStages => stage'[q] \in QueueStages
      BY <1>22 DEF CorHere, LoopOn, RequestTypes, QueueStages
    <3> QED
      BY <1>22, <3>1, QueueFrame DEF CorHere, LoopOn, poolVars
  <2>3. WorkerHolds'
    BY <1>22 DEF CorHere, LoopOn, WorkerHolds, PoolTypes, RequestTypes, poolVars, loopVars
  <2>4. Progress'
    BY <1>22 DEF CorHere, LoopOn, Progress, RequestTypes, poolVars, loopVars
  <2> QED
    BY <2>1, <2>2, <2>3, <2>4
<1>23. ASSUME NEW r \in Requests, EnqueueRequest(r) PROVE Placed'
  <2>1. LoopHolds'
    BY <1>23 DEF EnqueueRequest, LoopDrops, Enqueue, LoopHolds, LoopStages, LoopTypes, RequestTypes
  <2>2. QueueHolds'
    <3>1. stage[r] \notin QueueStages /\ stage' = [stage EXCEPT ![r] = "queued"] /\ Enqueue(r)
      BY <1>23 DEF EnqueueRequest, LoopDrops, QueueStages
    <3> QED
      BY <3>1, EnqueueHolds DEF QueueStages
  <2>3. WorkerHolds'
    <3>1. /\ stage[r] \notin {"running", "finishing", "processed"}
          /\ stage' = [stage EXCEPT ![r] = "queued"]
          /\ \A q \in Requests : q # r => asyncFinishing'[q] = asyncFinishing[q]
      BY <1>23 DEF EnqueueRequest, LoopDrops, RequestTypes
    <3> QED
      BY <1>23, <3>1, EnqueueWorkers DEF EnqueueRequest
  <2>4. Progress'
    BY <1>23 DEF EnqueueRequest, LoopDrops, Enqueue, Progress, RequestTypes
  <2> QED
    BY <2>1, <2>2, <2>3, <2>4
<1>24. ASSUME NEW r \in Requests, ProcessInline(r) PROVE Placed'
  <2>1. LoopHolds'
    <3>1. CASE LoopOn(r, "inline", "finishChoice")
      BY <3>1, LoopMoves DEF LoopStages
    <3>2. CASE LoopDrops(r, "inline", "sending")
      BY <3>2, LoopMoves DEF LoopStages
    <3> QED
      BY <1>24, <3>1, <3>2 DEF ProcessInline
  <2>2. QueueHolds'
    <3>1. \A q \in Requests : stage[q] \in QueueStages => stage'[q] \in QueueStages
      BY <1>24 DEF ProcessInline, LoopOn, LoopDrops, RequestTypes, QueueStages
    <3> QED
      BY <1>24, <3>1, QueueFrame DEF ProcessInline, LoopOn, LoopDrops, poolVars
  <2>3. WorkerHolds'
    BY <1>24 DEF ProcessInline, LoopOn, LoopDrops, WorkerHolds, PoolTypes, RequestTypes, poolVars
  <2>4. Progress'
    BY <1>24 DEF ProcessInline, LoopOn, LoopDrops, Progress, RequestTypes, poolVars
  <2> QED
    BY <2>1, <2>2, <2>3, <2>4
<1>25. ASSUME NEW r \in Requests, ProcessCo(r) PROVE Placed'
  <2>1. LoopHolds'
    <3>1. CASE LoopTakes(r, "co", "finishChoice")
      BY <3>1, LoopMoves DEF LoopStages
    <3>2. CASE stage[r] = "co" /\ stage' = [stage EXCEPT ![r] = "sending"] /\ UNCHANGED busy
      BY <3>2, LoopMoves DEF LoopStages
    <3> QED
      BY <1>25, <3>1, <3>2 DEF ProcessCo
  <2>2. QueueHolds'
    <3>1. \A q \in Requests : stage[q] \in QueueStages => stage'[q] \in QueueStages
      BY <1>25 DEF ProcessCo, LoopTakes, CoEnds, RequestTypes, QueueStages
    <3> QED
      BY <1>25, <3>1, QueueFrame DEF ProcessCo, LoopTakes, CoEnds, poolVars
  <2>3. WorkerHolds'
    BY <1>25 DEF ProcessCo, LoopTakes, CoEnds, WorkerHolds, PoolTypes, RequestTypes, poolVars
  <2>4. Progress'
    BY <1>25 DEF ProcessCo, LoopTakes, CoEnds, Progress, RequestTypes, poolVars
  <2> QED
    BY <2>1, <2>2, <2>3, <2>4
<1>26. ASSUME NEW r \in Requests, Resumed(r) PROVE Placed'
  <2>1. LoopHolds'
    <3>1. CASE LoopTakes(r, "resumed", "read")
      BY <3>1, LoopMoves DEF LoopStages
    <3>2. CASE stage[r] = "resumed" /\ stage' = [stage EXCEPT ![r] = "sending"] /\ UNCHANGED busy
      BY <3>2, LoopMoves DEF LoopStages
    <3> QED
      BY <1>26, <3>1, <3>2 DEF Resumed
  <2>2. QueueHolds'
    <3>1. \A q \in Requests : stage[q] \in QueueStages => stage'[q] \in QueueStages
      BY <1>26 DEF Resumed, LoopTakes, RequestTypes, QueueStages
    <3> QED
      BY <1>26, <3>1, QueueFrame DEF Resumed, LoopTakes, poolVars
  <2>3. WorkerHolds'
    BY <1>26 DEF Resumed, LoopTakes, WorkerHolds, PoolTypes, RequestTypes, poolVars
  <2>4. Progress'
    BY <1>26 DEF Resumed, LoopTakes, Progress, RequestTypes, poolVars
  <2> QED
    BY <2>1, <2>2, <2>3, <2>4
<1>27. ASSUME NEW r \in Requests, ResponseDone(r) PROVE Placed'
  <2>1. LoopHolds'
    BY <1>27 DEF ResponseDone, LoopTakes, LoopHolds, LoopStages, LoopTypes, RequestTypes, poolVars
  <2>2. QueueHolds'
    <3>1. \A q \in Requests : stage[q] \in QueueStages => stage'[q] \in QueueStages
      BY <1>27 DEF ResponseDone, LoopTakes, RequestTypes, QueueStages
    <3> QED
      BY <1>27, <3>1, QueueFrame DEF ResponseDone, LoopTakes, poolVars
  <2>3. WorkerHolds'
    BY <1>27 DEF ResponseDone, LoopTakes, WorkerHolds, PoolTypes, RequestTypes, poolVars
  <2>4. Progress'
    BY <1>27 DEF ResponseDone, LoopTakes, Progress, RequestTypes, poolVars
  <2> QED
    BY <2>1, <2>2, <2>3, <2>4
<1>28. ASSUME NEW r \in Requests, FinishInline(r) PROVE Placed'
  <2>1. LoopHolds'
    BY <1>28 DEF FinishInline, LoopOn, LoopHolds, LoopStages, LoopTypes, RequestTypes, poolVars, loopVars
  <2>2. QueueHolds'
    <3>1. \A q \in Requests : stage[q] \in QueueStages => stage'[q] \in QueueStages
      BY <1>28 DEF FinishInline, LoopOn, RequestTypes, QueueStages
    <3> QED
      BY <1>28, <3>1, QueueFrame DEF FinishInline, LoopOn, poolVars
  <2>3. WorkerHolds'
    BY <1>28 DEF FinishInline, LoopOn, WorkerHolds, PoolTypes, RequestTypes, poolVars, loopVars
  <2>4. Progress'
    BY <1>28 DEF FinishInline, LoopOn, Progress, RequestTypes, poolVars, loopVars
  <2> QED
    BY <2>1, <2>2, <2>3, <2>4
<1>29. ASSUME NEW r \in Requests, FinishCoroutine(r) PROVE Placed'
  <2>1. LoopHolds'
    BY <1>29 DEF FinishCoroutine, LoopDrops, LoopHolds, LoopStages, LoopTypes, RequestTypes, poolVars
  <2>2. QueueHolds'
    <3>1. \A q \in Requests : stage[q] \in QueueStages => stage'[q] \in QueueStages
      BY <1>29 DEF FinishCoroutine, LoopDrops, RequestTypes, QueueStages
    <3> QED
      BY <1>29, <3>1, QueueFrame DEF FinishCoroutine, LoopDrops, poolVars
  <2>3. WorkerHolds'
    BY <1>29 DEF FinishCoroutine, LoopDrops, WorkerHolds, PoolTypes, RequestTypes, poolVars
  <2>4. Progress'
    BY <1>29 DEF FinishCoroutine, LoopDrops, Progress, RequestTypes, poolVars
  <2> QED
    BY <2>1, <2>2, <2>3, <2>4
<1>30. ASSUME NEW r \in Requests, FinishHandOff(r) PROVE Placed'
  <2>1. LoopHolds'
    BY <1>30 DEF FinishHandOff, LoopOn, LoopHolds, LoopStages, LoopTypes, RequestTypes, poolVars, loopVars
  <2>2. QueueHolds'
    <3>1. \A q \in Requests : stage[q] \in QueueStages => stage'[q] \in QueueStages
      BY <1>30 DEF FinishHandOff, LoopOn, RequestTypes, QueueStages
    <3> QED
      BY <1>30, <3>1, QueueFrame DEF FinishHandOff, LoopOn, poolVars
  <2>3. WorkerHolds'
    BY <1>30 DEF FinishHandOff, LoopOn, WorkerHolds, PoolTypes, RequestTypes, poolVars, loopVars
  <2>4. Progress'
    BY <1>30 DEF FinishHandOff, LoopOn, Progress, RequestTypes, poolVars, loopVars
  <2> QED
    BY <2>1, <2>2, <2>3, <2>4
<1>31. ASSUME NEW r \in Requests, EnqueueFinish(r) PROVE Placed'
  <2>1. LoopHolds'
    BY <1>31 DEF EnqueueFinish, LoopDrops, CoEnds, Enqueue, LoopHolds, LoopStages, LoopTypes, RequestTypes
  <2>2. QueueHolds'
    <3>1. stage[r] \notin QueueStages /\ stage' = [stage EXCEPT ![r] = "finishQueued"] /\ Enqueue(r)
      BY <1>31 DEF EnqueueFinish, LoopDrops, CoEnds, QueueStages
    <3> QED
      BY <3>1, EnqueueHolds DEF QueueStages
  <2>3. WorkerHolds'
    <3>1. /\ stage[r] \notin {"running", "finishing", "processed"}
          /\ stage' = [stage EXCEPT ![r] = "finishQueued"]
          /\ \A q \in Requests : q # r => asyncFinishing'[q] = asyncFinishing[q]
      BY <1>31 DEF EnqueueFinish, LoopDrops, RequestTypes
    <3> QED
      BY <1>31, <3>1, EnqueueWorkers DEF EnqueueFinish
  <2>4. Progress'
    BY <1>31 DEF EnqueueFinish, LoopDrops, CoEnds, Enqueue, Progress, RequestTypes
  <2> QED
    BY <2>1, <2>2, <2>3, <2>4
<1>32. ASSUME NEW r \in Requests, FinishHere(r) PROVE Placed'
  <2>1. LoopHolds'
    BY <1>32 DEF FinishHere, LoopDrops, CoEnds, LoopHolds, LoopStages, LoopTypes, RequestTypes, poolVars
  <2>2. QueueHolds'
    <3>1. \A q \in Requests : stage[q] \in QueueStages => stage'[q] \in QueueStages
      BY <1>32 DEF FinishHere, LoopDrops, CoEnds, RequestTypes, QueueStages
    <3> QED
      BY <1>32, <3>1, QueueFrame DEF FinishHere, LoopDrops, CoEnds, poolVars
  <2>3. WorkerHolds'
    BY <1>32 DEF FinishHere, LoopDrops, CoEnds, WorkerHolds, PoolTypes, RequestTypes, poolVars
  <2>4. Progress'
    BY <1>32 DEF FinishHere, LoopDrops, CoEnds, Progress, RequestTypes, poolVars
  <2> QED
    BY <2>1, <2>2, <2>3, <2>4
<1>33. ASSUME NEW r \in Requests, FinishCoEnd(r) PROVE Placed'
  <2>1. LoopHolds'
    BY <1>33 DEF FinishCoEnd, CoEnds, LoopHolds, LoopStages, LoopTypes, RequestTypes, poolVars
  <2>2. QueueHolds'
    <3>1. \A q \in Requests : stage[q] \in QueueStages => stage'[q] \in QueueStages
      BY <1>33 DEF FinishCoEnd, CoEnds, RequestTypes, QueueStages
    <3> QED
      BY <1>33, <3>1, QueueFrame DEF FinishCoEnd, CoEnds, poolVars
  <2>3. WorkerHolds'
    BY <1>33 DEF FinishCoEnd, CoEnds, WorkerHolds, PoolTypes, RequestTypes, poolVars
  <2>4. Progress'
    BY <1>33 DEF FinishCoEnd, CoEnds, Progress, RequestTypes, poolVars
  <2> QED
    BY <2>1, <2>2, <2>3, <2>4
<1>34. CASE UNCHANGED vars
  <2>1. LoopHolds'
    BY <1>34 DEF vars, LoopHolds
  <2>2. QueueHolds'
    BY <1>34 DEF vars, QueueHolds
  <2>3. WorkerHolds'
    BY <1>34 DEF vars, WorkerHolds
  <2>4. Progress'
    BY <1>34 DEF vars, Progress
  <2> QED
    BY <2>1, <2>2, <2>3, <2>4
<1> QED
  BY <1>1, <1>2, <1>3, <1>4, <1>5, <1>6, <1>7, <1>8, <1>9, <1>10, <1>11, <1>12, <1>13, <1>14, <1>15, <1>16, <1>17, <1>18, <1>19, <1>20, <1>21, <1>22, <1>23, <1>24, <1>25, <1>26, <1>27, <1>28, <1>29, <1>30, <1>31, <1>32, <1>33, <1>34 DEF Next, Main, Worker, LoopStep

-----------------------------------------------------------------------------
(* What follows                                                            *)

\* No request is anywhere before it arrives.
LEMMA PlacedInit == Init => Placed
<1> SUFFICES ASSUME Init PROVE Placed
  OBVIOUS
<1> USE ShardsExist, PoolAssumption DEF Init
<1>1. LoopHolds
  BY DEF LoopHolds, LoopStages
<1>2. QueueHolds
  BY DEF QueueHolds
<1>3. WorkerHolds
  BY DEF WorkerHolds
<1>4. Progress
  BY DEF Progress
<1> QED
  BY <1>1, <1>2, <1>3, <1>4 DEF Placed

\* Of every reachable state: where a request is - in its loop's hands, at one
\* place of one queue, in one worker's hands - is what its stage says, and so is
\* what has happened to it (corRestInit.c 1005-1133, 1271-1318).
THEOREM RequestPlaced == Spec => []Placed
<1>1. Init => Placed
  BY PlacedInit
<1>2. TypeOK /\ Placed /\ [Next]_vars => Placed'
  BY PlacedStep
<1> QED
  BY <1>1, <1>2, TypeCorrect, PTL DEF Spec

\* The service routine, the response and the post-response phase of a request
\* happen at most once and in that order, however many workers, loops and
\* requests there are: on the worker's second visit the state is freed, so twice
\* would be a double free (corRestWorkerMain).
THEOREM PhasesHappenOnce == Spec => []EachPhaseOnce
<1>1. Placed => EachPhaseOnce
  BY DEF Placed, Progress, EachPhaseOnce
<1> QED
  BY <1>1, RequestPlaced, PTL

\* A request is never held twice - by two workers, at two places of the queues,
\* by its loop and by the pool - nor by anybody once its state is freed, so
\* that CorRestState, with its one asyncNext link, needs no lock of its own.
THEOREM HeldByOne == Spec => []OneHolder
<1>1. TypeOK /\ Placed => OneHolder
  <2> SUFFICES ASSUME TypeOK, Placed, NEW r \in Requests
               PROVE  /\ \A v, w \in Workers : cur[v] = r /\ cur[w] = r => v = w
                      /\ \A s, t \in ShardIds : \A i \in DOMAIN queue[s], j \in DOMAIN queue[t] :
                           queue[s][i] = r /\ queue[t][j] = r => s = t /\ i = j
                      /\ \A w \in Workers : cur[w] = r => ~InQueue(r) /\ busy[LoopOf[r]] # r /\ finished[r] = 0
                      /\ InQueue(r) => busy[LoopOf[r]] # r /\ finished[r] = 0
                      /\ busy[LoopOf[r]] = r => finished[r] = 0
    BY DEF OneHolder
  <2>1. r # NoReq
    BY PoolAssumption
  <2>2. \A s \in ShardIds : DOMAIN queue[s] = 1 .. Len(queue[s])
    BY DEF TypeOK, PoolTypes
  <2>3. \A w \in Workers : cur[w] = r => stage[r] \in {"running", "finishing", "processed"}
    BY <2>1 DEF Placed, WorkerHolds
  <2>4. InQueue(r) => stage[r] \in QueueStages
    BY <2>2 DEF Placed, QueueHolds, InQueue
  <2>5. busy[LoopOf[r]] = r => stage[r] \in LoopStages
    BY DEF Placed, LoopHolds
  <2>6. stage[r] # "freed" => finished[r] = 0
    BY DEF Placed, Progress
  <2>7. \A v, w \in Workers : cur[v] = r /\ cur[w] = r => v = w
    BY <2>1 DEF Placed, WorkerHolds
  <2>8. \A s, t \in ShardIds : \A i \in DOMAIN queue[s], j \in DOMAIN queue[t] :
          queue[s][i] = r /\ queue[t][j] = r => s = t /\ i = j
    BY <2>2 DEF Placed, QueueHolds
  <2> QED
    BY <2>3, <2>4, <2>5, <2>6, <2>7, <2>8 DEF QueueStages, LoopStages
<1> QED
  BY <1>1, TypeCorrect, RequestPlaced, PTL

\* A worker resumes only connections that the loop has suspended: the suspension
\* comes before the enqueue, and nothing resumes a connection in between
\* (corRestBackendMhd.c 588-597, corRestBackendResume).
THEOREM ResumedWereSuspended == Spec => []ResumesSuspended
<1>1. TypeOK /\ Placed => ResumesSuspended
  <2> SUFFICES ASSUME TypeOK, Placed, NEW w \in Workers, wpc[w] = "resume"
               PROVE  suspended[cur[w]]
    BY DEF ResumesSuspended
  <2>1. stage[cur[w]] = "processed" /\ cur[w] \in Requests
    BY DEF TypeOK, PoolTypes, Placed, WorkerHolds
  <2> QED
    BY <2>1 DEF Placed, Progress
<1> QED
  BY <1>1, TypeCorrect, RequestPlaced, PTL

\* How far a request has come, by its stage.
PhaseAt(st) ==
  IF st = "new" THEN "idle"
  ELSE IF st \in {"read", "handoff", "suspended", "queued", "running", "inline", "co"} THEN "accepted"
  ELSE IF st \in {"processed", "resumed", "sending"} THEN "processed"
  ELSE IF st = "freed" THEN "finished"
  ELSE "answered"

\* The moves of a life that RequestLifecycle allows, and staying.
Onward(from, to) ==
  \/ from = to
  \/ <<from, to>> \in {<<"idle", "accepted">>, <<"accepted", "processed">>, <<"processed", "answered">>,
                      <<"answered", "finished">>, <<"accepted", "answered">>}

\* A step takes at most one request to another stage, and never back in its life.
LEMMA StageMoves ==
  ASSUME TypeOK, Placed, [Next]_vars
  PROVE  \/ UNCHANGED stage
         \/ \E r \in Requests, to \in Stages :
              /\ stage' = [stage EXCEPT ![r] = to]
              /\ Onward(PhaseAt(stage[r]), PhaseAt(to))
<1> DEFINE Moves(r, to) == /\ stage' = [stage EXCEPT ![r] = to]
                          /\ Onward(PhaseAt(stage[r]), PhaseAt(to))
<1>1. CASE Main \/ Stop \/ UNCHANGED vars
  BY <1>1 DEF Main, StartWorker, StartDone, StartFailed, Stop, StopShard, StopJoin, Joined, reqVars, vars
<1>2. ASSUME NEW w \in Workers, Lock(w) \/ TestWait(w) \/ TestExit(w) \/ CondWait(w) \/ SpuriousWakeup(w)
      PROVE UNCHANGED stage
  BY <1>2 DEF Lock, TestWait, TestExit, CondWait, SpuriousWakeup, reqVars
<1>3. ASSUME NEW w \in Workers, TestPop(w) PROVE \E r \in Requests, to \in Stages : Moves(r, to)
  <2> DEFINE q == queue[WorkerShard(w)]
  <2>1. WorkerShard(w) \in ShardIds /\ q \in Seq(Requests) /\ q # <<>>
    BY <1>3, ShardsExist DEF TestPop, TypeOK, PoolTypes
  <2>2. Head(q) = q[1] /\ Head(q) \in Requests /\ 1 \in 1 .. Len(q)
    BY <2>1
  <2>3. stage[Head(q)] \in QueueStages
    BY <2>1, <2>2 DEF Placed, QueueHolds
  <2>4. asyncFinishing[Head(q)] <=> stage[Head(q)] = "finishQueued"
    BY <2>2, <2>3 DEF Placed, Progress, QueueStages
  <2>5. Moves(Head(q), IF asyncFinishing[Head(q)] THEN "finishing" ELSE "running")
    BY <1>3, <2>3, <2>4 DEF TestPop, QueueStages, PhaseAt, Onward
  <2> QED
    BY <2>2, <2>5 DEF Stages
<1>4. ASSUME NEW w \in Workers, ServeFinish(w) \/ ServeProcess(w) \/ Resume(w)
      PROVE \E r \in Requests, to \in Stages : Moves(r, to)
  <2>1. cur[w] \in Requests
    BY <1>4 DEF ServeFinish, ServeProcess, Resume, WorkerTo, Placed, WorkerHolds, TypeOK, PoolTypes
  <2>2. CASE ServeFinish(w)
    <3>1. stage[cur[w]] = "finishing"
      BY <2>2 DEF ServeFinish, WorkerTo, Placed, WorkerHolds
    <3>2. Moves(cur[w], "freed")
      BY <2>2, <3>1 DEF ServeFinish, PhaseAt, Onward
    <3> QED
      BY <2>1, <3>2 DEF Stages
  <2>3. CASE ServeProcess(w)
    <3>1. stage[cur[w]] = "running"
      BY <2>3 DEF ServeProcess, WorkerTo, Placed, WorkerHolds
    <3>2. Moves(cur[w], "processed")
      BY <2>3, <3>1 DEF ServeProcess, PhaseAt, Onward
    <3> QED
      BY <2>1, <3>2 DEF Stages
  <2>4. CASE Resume(w)
    <3>1. stage[cur[w]] = "processed"
      BY <2>4 DEF Resume, WorkerTo, Placed, WorkerHolds
    <3>2. Moves(cur[w], "resumed")
      BY <2>4, <3>1 DEF Resume, PhaseAt, Onward
    <3> QED
      BY <2>1, <3>2 DEF Stages
  <2> QED
    BY <1>4, <2>2, <2>3, <2>4
<1>5. ASSUME NEW r \in Requests, Read(r) \/ LoopStep(r)
      PROVE \E to \in Stages : Moves(r, to)
  <2>1. CASE Read(r) \/ DispatchInline(r) \/ DispatchHandOff(r) \/ Suspend(r) \/ StartCoroutine(r) \/ CorHere(r)
    BY <2>1 DEF Read, DispatchInline, DispatchHandOff, Suspend, StartCoroutine, CorHere, LoopTakes, LoopOn,
                LoopDrops, PhaseAt, Onward, Stages
  <2>2. CASE EnqueueRequest(r) \/ ProcessInline(r) \/ ProcessCo(r) \/ Resumed(r) \/ ResponseDone(r)
    <3>1. CASE EnqueueRequest(r)
      BY <3>1 DEF EnqueueRequest, LoopDrops, PhaseAt, Onward, Stages
    <3>2. CASE ProcessInline(r)
      BY <3>2 DEF ProcessInline, LoopDrops, LoopOn, PhaseAt, Onward, Stages
    <3>3. CASE ProcessCo(r)
      BY <3>3 DEF ProcessCo, LoopTakes, PhaseAt, Onward, Stages
    <3>4. CASE Resumed(r)
      <4>1. asyncProcessed[r] \/ ~asyncProcessed[r]
        OBVIOUS
      <4>2. CASE LoopTakes(r, "resumed", "read") /\ ~asyncProcessed[r]
        BY <4>2 DEF LoopTakes, Placed, Progress
      <4>3. CASE stage[r] = "resumed" /\ stage' = [stage EXCEPT ![r] = "sending"]
        BY <4>3 DEF PhaseAt, Onward, Stages
      <4> QED
        BY <3>4, <4>2, <4>3 DEF Resumed
    <3>5. CASE ResponseDone(r)
      BY <3>5 DEF ResponseDone, LoopTakes, PhaseAt, Onward, Stages
    <3> QED
      BY <2>2, <3>1, <3>2, <3>3, <3>4, <3>5
  <2>3. CASE FinishInline(r) \/ FinishCoroutine(r) \/ FinishHandOff(r) \/ EnqueueFinish(r) \/ FinishHere(r)
             \/ FinishCoEnd(r)
    BY <2>3 DEF FinishInline, FinishCoroutine, FinishHandOff, EnqueueFinish, FinishHere, FinishCoEnd, LoopOn,
                LoopDrops, PhaseAt, Onward, Stages
  <2> QED
    BY <1>5, <2>1, <2>2, <2>3 DEF LoopStep
<1> QED
  BY <1>1, <1>2, <1>3, <1>4, <1>5 DEF Next, Worker

\* The phase of a request is told by its stage.
LEMMA PhaseByStage == TypeOK /\ Placed => \A r \in Requests : PhaseOf(r) = PhaseAt(stage[r])
<1> SUFFICES ASSUME TypeOK, Placed, NEW r \in Requests PROVE PhaseOf(r) = PhaseAt(stage[r])
  OBVIOUS
<1>1. stage[r] \in Stages
  BY DEF TypeOK, RequestTypes
<1> QED
  BY <1>1 DEF Placed, Progress, PhaseOf, PhaseAt, Stages

\* A step of the pool is a step of the life of one request, or changes nothing of it.
LEMMA LifecycleStep ==
  ASSUME TypeOK, Placed, [Next]_vars
  PROVE  [Lifecycle!Next]_([r \in Requests |-> PhaseOf(r)])
<1>1. \A r \in Requests : PhaseOf(r) = PhaseAt(stage[r])
  BY PhaseByStage
<1>2. (TypeOK /\ Placed => \A r \in Requests : PhaseOf(r) = PhaseAt(stage[r]))'
  BY PhaseByStage, PTL
<1> DEFINE now == [r \in Requests |-> PhaseOf(r)]
           next == [r \in Requests |-> PhaseOf(r)']
<1>3. /\ now = [r \in Requests |-> PhaseAt(stage[r])]
      /\ next = [r \in Requests |-> PhaseAt(stage'[r])]
  BY <1>1, <1>2, TypeStep, PlacedStep
<1>4. CASE UNCHANGED stage
  BY <1>3, <1>4
<1>5. ASSUME NEW r \in Requests, NEW to \in Stages, stage' = [stage EXCEPT ![r] = to],
             Onward(PhaseAt(stage[r]), PhaseAt(to))
      PROVE  [Lifecycle!Next]_now
  <2>1. next = [now EXCEPT ![r] = PhaseAt(to)] /\ now[r] = PhaseAt(stage[r])
    BY <1>3, <1>5 DEF TypeOK, RequestTypes
  <2>2. CASE PhaseAt(to) = PhaseAt(stage[r])
    BY <2>1, <2>2
  <2>3. CASE \/ PhaseAt(stage[r]) = "idle" /\ PhaseAt(to) = "accepted"
             \/ PhaseAt(stage[r]) = "accepted" /\ PhaseAt(to) = "processed"
             \/ PhaseAt(stage[r]) = "processed" /\ PhaseAt(to) = "answered"
             \/ PhaseAt(stage[r]) = "answered" /\ PhaseAt(to) = "finished"
             \/ PhaseAt(stage[r]) = "accepted" /\ PhaseAt(to) = "answered"
    BY <2>1, <2>3 DEF Lifecycle!Next, Lifecycle!Accept, Lifecycle!Process, Lifecycle!Answer, Lifecycle!Finish,
                      Lifecycle!ProcessAndAnswer, Lifecycle!Advance
  <2> QED
    BY <1>5, <2>2, <2>3 DEF Onward
<1> QED
  BY <1>4, <1>5, StageMoves

\* The pool implements RequestLifecycle: every step of a worker, a loop or the
\* stopping thread is a move of one request's promised life, or none.  No thread
\* skips a phase, repeats one or turns back.
THEOREM LifecycleKept == Spec => LifecycleSpec
<1>1. Init => Lifecycle!Init
  BY DEF Init, Lifecycle!Init, PhaseOf
<1>2. TypeOK /\ Placed /\ [Next]_vars => [Lifecycle!Next]_([r \in Requests |-> PhaseOf(r)])
  BY LifecycleStep
<1> QED
  BY <1>1, <1>2, TypeCorrect, RequestPlaced, PTL DEF Spec, LifecycleSpec, Lifecycle!Spec

-----------------------------------------------------------------------------
(* The drain of the queues at the stop                                     *)

\* No request is there before the back-end listens, and it does not while the
\* workers are still being created: a shard all of whose workers are absent
\* for that reason has an empty queue.
Drained ==
  /\ DrainComplete
  /\ mainPc = "starting" => ~listening
  /\ ~listening => \A r \in Requests : stage[r] = "new"

\* Before any request is there, no queue has one.
LEMMA NothingQueuedYet ==
  ASSUME TypeOK, Placed, \A r \in Requests : stage[r] = "new", NEW s \in ShardIds
  PROVE  DOMAIN queue[s] = {}
<1>1. queue[s] \in Seq(Requests) /\ DOMAIN queue[s] = 1 .. Len(queue[s])
  BY DEF TypeOK, PoolTypes
<1>2. ASSUME NEW i \in 1 .. Len(queue[s]) PROVE FALSE
  BY <1>1, <1>2 DEF Placed, QueueHolds, QueueStages
<1> QED
  BY <1>1, <1>2

\* A worker that neither leaves nor arrives keeps the drain of its shard.
LEMMA DrainFrame ==
  ASSUME DrainComplete, UNCHANGED <<queue, late>>, mainPc' # "starting" => mainPc # "starting",
         \A w \in Workers : wpc'[w] \in {"absent", "exited"} => wpc[w] \in {"absent", "exited"}
  PROVE  DrainComplete'
BY DEF DrainComplete, Gone, WorkersOf

\* An append to the queue of a shard whose workers are gone is late.
LEMMA EnqueueDrained ==
  ASSUME TypeOK, DrainComplete, NEW r \in Requests, Enqueue(r)
  PROVE  DrainComplete'
<1> DEFINE t == ShardOf(r)
<1>1. t \in ShardIds /\ queue[t] \in Seq(Requests)
  BY ShardsExist DEF TypeOK, PoolTypes
<1>2. mainPc' = mainPc /\ \A s \in ShardIds : Gone(s)' => Gone(s)
  BY DEF Enqueue, Parked, Gone, WorkersOf, TypeOK, PoolTypes
<1>3. late \subseteq late' /\ (Gone(t) => r \in late')
  BY DEF Enqueue
<1>4. /\ queue' = [queue EXCEPT ![t] = Append(@, r)]
      /\ queue'[t] = Append(queue[t], r)
      /\ \A s \in ShardIds \ {t} : queue'[s] = queue[s]
  BY <1>1 DEF Enqueue, TypeOK, PoolTypes
<1>5. ASSUME NEW s \in ShardIds, mainPc' # "starting", Gone(s)', NEW i \in DOMAIN queue'[s]
      PROVE  queue'[s][i] \in late'
  <2>1. Gone(s) /\ mainPc # "starting"
    BY <1>2, <1>5
  <2>2. CASE s = t
    <3>1. CASE i \in DOMAIN queue[t]
      BY <1>1, <1>3, <1>4, <2>1, <2>2, <3>1 DEF DrainComplete
    <3>2. CASE i \notin DOMAIN queue[t]
      <4>1. i = Len(queue[t]) + 1
        BY <1>1, <1>4, <1>5, <2>2, <3>2
      <4> QED
        BY <1>1, <1>3, <1>4, <2>1, <2>2, <4>1
    <3> QED
      BY <3>1, <3>2
  <2>3. CASE s # t
    BY <1>3, <1>4, <1>5, <2>1, <2>3 DEF DrainComplete
  <2> QED
    BY <2>2, <2>3
<1> QED
  BY <1>5 DEF DrainComplete

\* Every step keeps the counters of the drain true.
LEMMA DrainStep ==
  ASSUME TypeOK, Placed, Drained, [Next]_vars
  PROVE  Drained'
<1> USE DEF Drained
<1>1. CASE StartWorker
  <2>1. mainPc = "starting" /\ UNCHANGED <<mainPc, listening, stage>>
    BY <1>1 DEF StartWorker, reqVars
  <2> QED
    BY <1>1, <2>1 DEF DrainComplete
<1>2. CASE StartDone \/ StartFailed
  <2>1. \A s \in ShardIds : DOMAIN queue'[s] = {}
    BY <1>2, NothingQueuedYet DEF StartDone, StartFailed
  <2> QED
    BY <1>2, <2>1 DEF StartDone, StartFailed, DrainComplete, reqVars
<1>3. CASE Stop \/ StopShard \/ StopJoin \/ Joined
  BY <1>3, DrainFrame DEF Stop, StopShard, StopJoin, Joined, reqVars, TypeOK, PoolTypes, Parked
<1>4. ASSUME NEW w \in Workers, Worker(w) \/ SpuriousWakeup(w)
      PROVE  Drained'
  <2>1. UNCHANGED <<mainPc, listening, late>>
    BY <1>4 DEF Worker, Lock, TestWait, TestExit, TestPop, CondWait, ServeFinish, ServeProcess, Resume, SpuriousWakeup
  <2>2. CASE TestExit(w)
    <3>1. queue[WorkerShard(w)] = <<>> /\ UNCHANGED <<queue, stage>>
      BY <2>2 DEF TestExit, reqVars
    <3>2. \A v \in Workers : v # w => wpc'[v] = wpc[v]
      BY <2>2 DEF TestExit, WorkerTo, TypeOK, PoolTypes
    <3>3. \A s \in ShardIds : s # WorkerShard(w) /\ Gone(s)' => Gone(s)
      BY <3>2 DEF Gone, WorkersOf
    <3> QED
      BY <2>1, <3>1, <3>3 DEF DrainComplete
  <2>3. CASE TestPop(w)
    <3>1. wpc'[w] = "serve" /\ \A v \in Workers : v # w => wpc'[v] = wpc[v]
      BY <2>3 DEF TestPop, WorkerTo, TypeOK, PoolTypes
    <3>2. ~Gone(WorkerShard(w))' /\ \A s \in ShardIds : Gone(s)' => s # WorkerShard(w) /\ Gone(s)
      BY <3>1 DEF Gone, WorkersOf
    <3>3. \A s \in ShardIds : s # WorkerShard(w) => queue'[s] = queue[s]
      BY <2>3 DEF TestPop, TypeOK, PoolTypes
    <3>4. ~listening => \A r \in Requests : stage[r] = "new"
      OBVIOUS
    <3>5. listening
      BY <2>3, NothingQueuedYet, ShardsExist DEF TestPop, TypeOK, PoolTypes
    <3> QED
      BY <2>1, <3>2, <3>3, <3>5 DEF DrainComplete
  <2>4. CASE ServeFinish(w) \/ ServeProcess(w) \/ Resume(w)
    <3>1. cur[w] \in Requests /\ stage[cur[w]] # "new"
      BY <2>4 DEF ServeFinish, ServeProcess, Resume, WorkerTo, Placed, WorkerHolds, TypeOK, PoolTypes
    <3>2. listening'
      BY <2>1, <3>1
    <3> QED
      BY <2>1, <2>4, <3>2, DrainFrame DEF ServeFinish, ServeProcess, Resume, WorkerTo, TypeOK, PoolTypes
  <2>5. CASE Lock(w) \/ TestWait(w) \/ CondWait(w) \/ SpuriousWakeup(w)
    BY <2>1, <2>5, DrainFrame DEF Lock, TestWait, CondWait, SpuriousWakeup, WorkerTo, TypeOK, PoolTypes, reqVars
  <2> QED
    BY <1>4, <2>2, <2>3, <2>4, <2>5 DEF Worker
<1>5. ASSUME NEW r \in Requests, EnqueueRequest(r) \/ EnqueueFinish(r)
      PROVE  Drained'
  <2>1. Enqueue(r) /\ stage[r] # "new"
    BY <1>5 DEF EnqueueRequest, EnqueueFinish, LoopDrops
  <2>2. listening /\ listening' /\ mainPc' = mainPc
    BY <2>1 DEF Enqueue
  <2> QED
    BY <2>1, <2>2, EnqueueDrained
<1>6. ASSUME NEW r \in Requests, Read(r) \/ LoopStep(r), ~EnqueueRequest(r), ~EnqueueFinish(r)
      PROVE  Drained'
  <2>1. UNCHANGED poolVars
    BY <1>6 DEF Read, LoopStep, DispatchInline, DispatchHandOff, Suspend, StartCoroutine, CorHere, ProcessInline,
                ProcessCo, Resumed, ResponseDone, FinishInline, FinishCoroutine, FinishHandOff, FinishHere, FinishCoEnd
  <2>2. listening \/ stage[r] # "new"
    BY <1>6 DEF Read, LoopStep, DispatchInline, DispatchHandOff, Suspend, StartCoroutine, CorHere, ProcessInline,
                ProcessCo, Resumed, ResponseDone, FinishInline, FinishCoroutine, FinishHandOff, FinishHere, FinishCoEnd,
                LoopTakes, LoopOn, LoopDrops
  <2>3. listening /\ listening' /\ mainPc' = mainPc
    BY <2>1, <2>2 DEF poolVars
  <2> QED
    BY <2>1, <2>3, DrainFrame DEF poolVars
<1>7. CASE UNCHANGED vars
  BY <1>7, DrainFrame DEF vars
<1> QED
  BY <1>1, <1>2, <1>3, <1>4, <1>5, <1>6, <1>7 DEF Next, Main

\* There is nothing to drain at first.
LEMMA DrainInit == Init => Drained
BY DEF Init, Drained, DrainComplete

\* corRestWorkerPoolStop drains, as far as it does: when the last worker of a shard
\* has left, its queue holds only what was queued after that - requests that were
\* accepted too late and are never served, which OnlyLateRemain and DrainComplete except.
THEOREM StopDrains == Spec => []DrainComplete
<1>1. Init => Drained
  BY DrainInit
<1>2. TypeOK /\ Placed /\ Drained /\ [Next]_vars => Drained'
  BY DrainStep
<1>3. Drained => DrainComplete
  BY DEF Drained
<1> QED
  BY <1>1, <1>2, <1>3, TypeCorrect, RequestPlaced, PTL DEF Spec

-----------------------------------------------------------------------------
(* Nobody is lost                                                          *)

WorkerStages == {"running", "finishing", "processed"}

\* A request that says it is queued is in a queue, one that says a worker has it is
\* in a worker's hands; and what is over with the pool is over.
Kept ==
  /\ \A r \in Requests : stage[r] \in QueueStages => InQueue(r)
  /\ \A r \in Requests : stage[r] \in WorkerStages => \E w \in Workers : cur[w] = r
  /\ mainPc \in {"joining", "stopped"} \/ (mainPc = "stopping" /\ ix > 0) => ~workersRun
  /\ mainPc = "stopped" => \A w \in Workers : wpc[w] \in {"absent", "exited"}

\* No request changes hands, and no worker comes back.
LEMMA KeptFrame ==
  ASSUME Kept, UNCHANGED <<queue, cur, mainPc, ix, workersRun>>,
         \A r \in Requests : stage'[r] \in QueueStages => stage[r] \in QueueStages,
         \A r \in Requests : stage'[r] \in WorkerStages => stage[r] \in WorkerStages,
         \A w \in Workers : wpc[w] \in {"absent", "exited"} => wpc'[w] \in {"absent", "exited"}
  PROVE  Kept'
BY DEF Kept, InQueue

\* A request that is appended to a queue is there, and so is everybody else.
LEMMA KeptEnqueue ==
  ASSUME TypeOK, Kept, NEW r \in Requests, Enqueue(r), NEW to \in QueueStages,
         stage' = [stage EXCEPT ![r] = to]
  PROVE  Kept'
<1> DEFINE s == ShardOf(r)
<1>1. s \in ShardIds /\ queue[s] \in Seq(Requests)
  BY ShardsExist DEF TypeOK, PoolTypes
<1>2. /\ queue'[s] = Append(queue[s], r)
      /\ \A t \in ShardIds \ {s} : queue'[t] = queue[t]
      /\ UNCHANGED <<workersRun, cur, mainPc, ix>>
  BY <1>1 DEF Enqueue, TypeOK, PoolTypes
<1>3. /\ \A i \in DOMAIN queue[s] : i \in DOMAIN queue'[s] /\ queue'[s][i] = queue[s][i]
      /\ Len(queue[s]) + 1 \in DOMAIN queue'[s] /\ queue'[s][Len(queue[s]) + 1] = r
  BY <1>1, <1>2
<1>4. \A w \in Workers : wpc[w] \in {"absent", "exited"} => wpc'[w] \in {"absent", "exited"}
  BY DEF Enqueue, Parked, TypeOK, PoolTypes
<1>5. stage'[r] = to /\ \A q \in Requests : q # r => stage'[q] = stage[q]
  BY DEF TypeOK, RequestTypes
<1>6. ASSUME NEW q \in Requests, stage'[q] \in QueueStages PROVE InQueue(q)'
  <2>1. CASE q = r
    BY <1>1, <1>3, <2>1 DEF InQueue
  <2>2. CASE q # r
    BY <1>2, <1>3, <1>5, <1>6, <2>2 DEF InQueue, Kept
  <2> QED
    BY <2>1, <2>2
<1>7. \A q \in Requests : stage'[q] \in WorkerStages => \E w \in Workers : cur'[w] = q
  BY <1>2, <1>5 DEF Kept, QueueStages, WorkerStages
<1> QED
  BY <1>2, <1>4, <1>6, <1>7 DEF Kept

\* The request at the head is in the worker's hands now, the others where they were.
LEMMA KeptPop ==
  ASSUME TypeOK, Placed, Kept, NEW w \in Workers, TestPop(w)
  PROVE  Kept'
<1> DEFINE s == WorkerShard(w)
           q == Head(queue[s])
<1>1. s \in ShardIds /\ queue[s] \in Seq(Requests) /\ queue[s] # <<>>
  BY ShardsExist DEF TestPop, TypeOK, PoolTypes
<1>2. q = queue[s][1] /\ q \in Requests
  BY <1>1
<1>3. /\ queue'[s] = Tail(queue[s])
      /\ \A t \in ShardIds : t # s => queue'[t] = queue[t]
  BY <1>1 DEF TestPop, TypeOK, PoolTypes
<1>4. /\ cur'[w] = q /\ \A v \in Workers : v # w => cur'[v] = cur[v]
      /\ wpc[w] = "test" /\ \A v \in Workers : v # w => wpc'[v] = wpc[v]
      /\ UNCHANGED <<mainPc, ix, workersRun>>
  BY DEF TestPop, WorkerTo, TypeOK, PoolTypes
<1>5. stage'[q] \in WorkerStages /\ \A r \in Requests : r # q => stage'[r] = stage[r]
  BY <1>2 DEF TestPop, WorkerStages, TypeOK, RequestTypes
<1>6. cur[w] = NoReq
  BY <1>4 DEF Placed, WorkerHolds
<1>7. ASSUME NEW i \in DOMAIN queue[s], queue[s][i] # q
      PROVE  i - 1 \in DOMAIN queue'[s] /\ queue'[s][i - 1] = queue[s][i]
  BY <1>1, <1>2, <1>3, <1>7
<1>8. ASSUME NEW r \in Requests, stage'[r] \in QueueStages PROVE InQueue(r)'
  <2>1. r # q /\ stage[r] \in QueueStages
    BY <1>5, <1>8 DEF QueueStages, WorkerStages
  <2>2. PICK t \in ShardIds : \E i \in DOMAIN queue[t] : queue[t][i] = r
    BY <2>1 DEF Kept, InQueue
  <2>3. PICK i \in DOMAIN queue[t] : queue[t][i] = r
    BY <2>2
  <2>4. CASE t = s
    BY <1>1, <1>7, <2>1, <2>3, <2>4 DEF InQueue
  <2>5. CASE t # s
    BY <1>3, <2>3, <2>5 DEF InQueue
  <2> QED
    BY <2>4, <2>5
<1>9. ASSUME NEW r \in Requests, stage'[r] \in WorkerStages PROVE \E v \in Workers : cur'[v] = r
  <2>1. CASE r = q
    BY <1>4, <2>1
  <2>2. CASE r # q
    <3>1. PICK v \in Workers : cur[v] = r
      BY <1>5, <1>9, <2>2 DEF Kept
    <3>2. v # w
      BY <1>6, <3>1, PoolAssumption
    <3> QED
      BY <1>4, <3>1, <3>2
  <2> QED
    BY <2>1, <2>2
<1>10. mainPc # "stopped"
  BY <1>4 DEF Kept
<1> QED
  BY <1>4, <1>8, <1>9, <1>10 DEF Kept

\* Every step leaves every request where its stage says it is.
LEMMA KeptStep ==
  ASSUME TypeOK, Placed, Kept, [Next]_vars
  PROVE  Kept'
<1>1. CASE StartWorker \/ StartDone \/ StartFailed \/ Stop
  BY <1>1 DEF Kept, InQueue, StartWorker, StartDone, StartFailed, Stop, reqVars, TypeOK, PoolTypes
<1>2. CASE StopShard
  <2>1. workersRun' = FALSE /\ mainPc' = "stopping" /\ UNCHANGED <<queue, cur, stage>>
    BY <1>2 DEF StopShard, reqVars
  <2> QED
    BY <2>1 DEF Kept, InQueue
<1>3. CASE StopJoin \/ Joined
  <2>1. UNCHANGED <<queue, cur, stage, workersRun, wpc>>
    BY <1>3 DEF StopJoin, Joined, reqVars
  <2>2. mainPc = "joining" \/ (mainPc = "stopping" /\ ix > 0)
    BY <1>3, ShardsExist DEF StopJoin, Joined
  <2>3. mainPc' = "stopped" => \A w \in Workers : wpc[w] \in {"absent", "exited"}
    BY <1>3 DEF StopJoin, Joined
  <2> QED
    BY <2>1, <2>2, <2>3 DEF Kept, InQueue
<1>4. ASSUME NEW w \in Workers, Worker(w) \/ SpuriousWakeup(w)
      PROVE  Kept'
  <2>1. CASE TestPop(w)
    BY <2>1, KeptPop
  <2>2. CASE Lock(w) \/ TestWait(w) \/ TestExit(w) \/ CondWait(w) \/ SpuriousWakeup(w)
    <3>1. UNCHANGED <<queue, cur, mainPc, ix, workersRun, stage>>
      BY <2>2 DEF Lock, TestWait, TestExit, CondWait, SpuriousWakeup, reqVars
    <3>2. \A v \in Workers : wpc[v] \in {"absent", "exited"} => wpc'[v] \in {"absent", "exited"}
      BY <2>2 DEF Lock, TestWait, TestExit, CondWait, SpuriousWakeup, WorkerTo, TypeOK, PoolTypes
    <3> QED
      BY <3>1, <3>2, KeptFrame
  <2>3. CASE ServeProcess(w)
    <3>1. cur[w] \in Requests /\ stage[cur[w]] \in WorkerStages
      BY <2>3 DEF ServeProcess, WorkerTo, Placed, WorkerHolds, TypeOK, PoolTypes, WorkerStages
    <3>2. stage'[cur[w]] = "processed" /\ \A r \in Requests : r # cur[w] => stage'[r] = stage[r]
      BY <2>3, <3>1 DEF ServeProcess, TypeOK, RequestTypes
    <3>3. UNCHANGED <<queue, cur, mainPc, ix, workersRun>>
      BY <2>3 DEF ServeProcess
    <3>4. \A v \in Workers : wpc[v] \in {"absent", "exited"} => wpc'[v] \in {"absent", "exited"}
      BY <2>3 DEF ServeProcess, WorkerTo, TypeOK, PoolTypes
    <3> QED
      BY <3>1, <3>2, <3>3, <3>4, KeptFrame DEF QueueStages
  <2>4. CASE ServeFinish(w) \/ Resume(w)
    <3>1. cur[w] \in Requests /\ stage'[cur[w]] \in {"freed", "resumed"}
      BY <2>4 DEF ServeFinish, Resume, WorkerTo, Placed, WorkerHolds, TypeOK, PoolTypes, RequestTypes
    <3>2. \A r \in Requests : r # cur[w] => stage'[r] = stage[r]
      BY <2>4 DEF ServeFinish, Resume, TypeOK, RequestTypes
    <3>3. UNCHANGED <<queue, mainPc, ix, workersRun>> /\ \A v \in Workers : v # w => cur'[v] = cur[v]
      BY <2>4 DEF ServeFinish, Resume, TypeOK, PoolTypes
    <3>4. mainPc # "stopped"
      BY <2>4 DEF ServeFinish, Resume, WorkerTo, Kept
    <3>5. \A r \in Requests : stage'[r] \in WorkerStages => \E v \in Workers : cur'[v] = r
      BY <3>1, <3>2, <3>3 DEF Kept, WorkerStages
    <3> QED
      BY <3>1, <3>2, <3>3, <3>4, <3>5 DEF Kept, InQueue, QueueStages
  <2> QED
    BY <1>4, <2>1, <2>2, <2>3, <2>4 DEF Worker
<1>5. ASSUME NEW r \in Requests, EnqueueRequest(r) \/ EnqueueFinish(r)
      PROVE  Kept'
  BY <1>5, KeptEnqueue DEF EnqueueRequest, EnqueueFinish, LoopDrops, QueueStages
<1>6. ASSUME NEW r \in Requests, Read(r) \/ LoopStep(r), ~EnqueueRequest(r), ~EnqueueFinish(r)
      PROVE  Kept'
  <2>1. UNCHANGED poolVars
    BY <1>6 DEF Read, LoopStep, DispatchInline, DispatchHandOff, Suspend, StartCoroutine, CorHere, ProcessInline,
                ProcessCo, Resumed, ResponseDone, FinishInline, FinishCoroutine, FinishHandOff, FinishHere, FinishCoEnd
  <2>2. stage'[r] \notin QueueStages \cup WorkerStages /\ \A q \in Requests : q # r => stage'[q] = stage[q]
    BY <1>6 DEF Read, LoopStep, DispatchInline, DispatchHandOff, Suspend, StartCoroutine, CorHere, ProcessInline,
                ProcessCo, Resumed, ResponseDone, FinishInline, FinishCoroutine, FinishHandOff, FinishHere, FinishCoEnd,
                LoopTakes, LoopOn, LoopDrops, QueueStages, WorkerStages, TypeOK, RequestTypes
  <2> QED
    BY <2>1, <2>2, KeptFrame DEF poolVars
<1>7. CASE UNCHANGED vars
  BY <1>7, KeptFrame DEF vars
<1> QED
  BY <1>1, <1>2, <1>3, <1>4, <1>5, <1>6, <1>7 DEF Next, Main

\* Nobody is lost before anybody came.
LEMMA KeptInit == Init => Kept
BY DEF Init, Kept, QueueStages, WorkerStages

\* No request is lost on its way through the pool: what says that it is queued is in
\* a queue, what says that a worker has it is in one's hands.
THEOREM NobodyLost == Spec => []Kept
<1>1. Init => Kept
  BY KeptInit
<1>2. TypeOK /\ Placed /\ Kept /\ [Next]_vars => Kept'
  BY KeptStep
<1> QED
  BY <1>1, <1>2, TypeCorrect, RequestPlaced, PTL DEF Spec

\* What the pool still holds once corRestWorkerPoolStop has returned.
LEMMA LeftInPool ==
  ASSUME TypeOK, Placed, Drained, Kept, mainPc = "stopped", NEW r \in Requests,
         stage[r] \in QueueStages \cup WorkerStages
  PROVE  stage[r] \in QueueStages /\ r \in late
<1>1. \A w \in Workers : cur[w] = NoReq
  BY DEF Kept, Placed, WorkerHolds, TypeOK, PoolTypes
<1>2. stage[r] \in QueueStages /\ InQueue(r)
  BY <1>1, PoolAssumption DEF Kept
<1>3. \A s \in ShardIds : Gone(s)
  BY DEF Kept, Gone, WorkersOf
<1> QED
  BY <1>2, <1>3 DEF Drained, DrainComplete, InQueue

\* When corRestWorkerPoolStop returns, no worker is left and none of them has a
\* request; all that is still in a queue was queued after its workers had left.
THEOREM OnlyLateRemain ==
  Spec => [](mainPc = "stopped" => \A r \in Requests : stage[r] \in QueueStages \cup WorkerStages => r \in late)
<1>1. Init => Drained
  BY DrainInit
<1>2. TypeOK /\ Placed /\ Drained /\ [Next]_vars => Drained'
  BY DrainStep
<1>3. TypeOK /\ Placed /\ Drained /\ Kept =>
        (mainPc = "stopped" => \A r \in Requests : stage[r] \in QueueStages \cup WorkerStages => r \in late)
  BY LeftInPool
<1> QED
  BY <1>1, <1>2, <1>3, NobodyLost, TypeCorrect, RequestPlaced, PTL DEF Spec

-----------------------------------------------------------------------------
(* The coroutines of a loop                                                *)

CoroutinesOf(l) == {r \in Requests : LoopOf[r] = l /\ inCo[r]}

\* The count is of a finite set: only requests that were read have a coroutine.
Counted == CoroutinesCounted /\ \A l \in Loops : IsFiniteSet(CoroutinesOf(l))

CoStages == {"co", "finishChoice", "toFinishQueue", "finishHere", "finishCo"}

\* What the count of coroutines relies on of the types.
LEMMA CountedTypes ==
  ASSUME TypeOK, Counted, NEW r \in Requests
  PROVE  /\ LoopOf[r] \in Loops
         /\ coRunning[LoopOf[r]] \in Int
         /\ inCo[r] => stage[r] \in CoStages
         /\ \A q \in Requests : inCo[q] => stage[q] \in CoStages
BY ShardsExist DEF TypeOK, LoopTypes, Counted, CoroutinesCounted, CoStages

\* No coroutine begins or ends, and those there are stay where coroutines are.
LEMMA CountFrame ==
  ASSUME TypeOK, Counted, UNCHANGED <<inCo, coRunning>>,
         \A r \in Requests : inCo[r] => stage'[r] \in CoStages
  PROVE  Counted'
BY DEF Counted, CoroutinesCounted, CoroutinesOf, CoStages

\* A request's coroutine begins, and is counted.
LEMMA CoroutineBegins ==
  ASSUME TypeOK, Counted, NEW r \in Requests, ~inCo[r], coRunning[LoopOf[r]] < CoMax,
         inCo' = [inCo EXCEPT ![r] = TRUE],
         coRunning' = [coRunning EXCEPT ![LoopOf[r]] = @ + 1],
         NEW to \in CoStages, stage' = [stage EXCEPT ![r] = to]
  PROVE  Counted'
<1> DEFINE k == LoopOf[r]
<1>1. k \in Loops /\ coRunning[k] \in Int /\ CoMax \in Nat
  BY CountedTypes, PoolAssumption
<1>2. CoroutinesOf(k)' = CoroutinesOf(k) \cup {r} /\ r \notin CoroutinesOf(k)
  BY DEF CoroutinesOf, TypeOK, LoopTypes
<1>3. IsFiniteSet(CoroutinesOf(k)') /\ Cardinality(CoroutinesOf(k)') = Cardinality(CoroutinesOf(k)) + 1
  BY <1>1, <1>2, FS_AddElement DEF Counted
<1>4. coRunning'[k] = coRunning[k] + 1 /\ coRunning'[k] <= CoMax
  BY <1>1 DEF TypeOK, LoopTypes
<1>5. \A l \in Loops : l # k => CoroutinesOf(l)' = CoroutinesOf(l) /\ coRunning'[l] = coRunning[l]
  BY DEF CoroutinesOf, TypeOK, LoopTypes
<1>6. \A q \in Requests : inCo'[q] => stage'[q] \in CoStages
  BY CountedTypes DEF TypeOK, LoopTypes, RequestTypes
<1>7. \A l \in Loops : coRunning[l] <= CoMax /\ coRunning[l] = Cardinality(CoroutinesOf(l)) /\ IsFiniteSet(CoroutinesOf(l))
  BY DEF Counted, CoroutinesCounted, CoroutinesOf
<1>8. \A l \in Loops : /\ coRunning'[l] <= CoMax
                       /\ coRunning'[l] = Cardinality(CoroutinesOf(l)')
                       /\ IsFiniteSet(CoroutinesOf(l)')
  BY <1>1, <1>3, <1>4, <1>5, <1>7
<1> QED
  BY <1>6, <1>8 DEF Counted, CoroutinesCounted, CoroutinesOf, CoStages

\* A request's coroutine ends, if it has one.
LEMMA CoroutineEnds ==
  ASSUME TypeOK, Counted, NEW r \in Requests, CoEnds(r),
         \A q \in Requests : q # r => stage'[q] = stage[q]
  PROVE  Counted'
<1> DEFINE k == LoopOf[r]
<1>1. k \in Loops /\ coRunning[k] \in Int /\ CoMax \in Nat
  BY CountedTypes, PoolAssumption
<1>2. CASE ~inCo[r]
  <2>1. UNCHANGED <<inCo, coRunning>>
    BY <1>1, <1>2 DEF CoEnds, TypeOK, LoopTypes
  <2> QED
    BY <1>2, <2>1, CountFrame, CountedTypes
<1>3. CASE inCo[r]
  <2>1. CoroutinesOf(k)' = CoroutinesOf(k) \ {r} /\ r \in CoroutinesOf(k)
    BY <1>3 DEF CoroutinesOf, CoEnds, TypeOK, LoopTypes
  <2>2. IsFiniteSet(CoroutinesOf(k)') /\ Cardinality(CoroutinesOf(k)') = Cardinality(CoroutinesOf(k)) - 1
    BY <1>1, <2>1, FS_RemoveElement DEF Counted
  <2>3. coRunning'[k] = coRunning[k] - 1
    BY <1>1, <1>3 DEF CoEnds, TypeOK, LoopTypes
  <2>4. \A l \in Loops : l # k => CoroutinesOf(l)' = CoroutinesOf(l) /\ coRunning'[l] = coRunning[l]
    BY DEF CoroutinesOf, CoEnds, TypeOK, LoopTypes
  <2>5. \A q \in Requests : inCo'[q] => stage'[q] \in CoStages
    BY CountedTypes DEF CoEnds, TypeOK, LoopTypes, RequestTypes
  <2>6. \A l \in Loops : coRunning[l] <= CoMax /\ coRunning[l] = Cardinality(CoroutinesOf(l)) /\ IsFiniteSet(CoroutinesOf(l))
    BY DEF Counted, CoroutinesCounted, CoroutinesOf
  <2>7. \A l \in Loops : /\ coRunning'[l] <= CoMax
                         /\ coRunning'[l] = Cardinality(CoroutinesOf(l)')
                         /\ IsFiniteSet(CoroutinesOf(l)')
    BY <1>1, <2>2, <2>3, <2>4, <2>6
  <2> QED
    BY <2>5, <2>7 DEF Counted, CoroutinesCounted, CoroutinesOf, CoStages
<1> QED
  BY <1>2, <1>3

\* Every step keeps the count of running coroutines exact.
LEMMA CountStep ==
  ASSUME TypeOK, Placed, Counted, [Next]_vars
  PROVE  Counted'
<1> USE CountedTypes DEF CoStages
<1>1. CASE Main \/ Stop \/ UNCHANGED vars
  BY <1>1, CountFrame DEF Main, StartWorker, StartDone, StartFailed, Stop, StopShard, StopJoin, Joined, reqVars,
                          loopVars, vars
<1>2. ASSUME NEW w \in Workers, Lock(w) \/ TestWait(w) \/ TestExit(w) \/ CondWait(w) \/ SpuriousWakeup(w)
      PROVE  Counted'
  BY <1>2, CountFrame DEF Lock, TestWait, TestExit, CondWait, SpuriousWakeup, reqVars, loopVars
<1>3. ASSUME NEW w \in Workers, TestPop(w) PROVE Counted'
  <2> DEFINE q == queue[WorkerShard(w)]
  <2>1. WorkerShard(w) \in ShardIds /\ q \in Seq(Requests) /\ q # <<>>
    BY <1>3, ShardsExist DEF TestPop, TypeOK, PoolTypes
  <2>2. Head(q) = q[1] /\ Head(q) \in Requests /\ 1 \in 1 .. Len(q)
    BY <2>1
  <2>3. stage[Head(q)] \in QueueStages
    BY <2>1, <2>2 DEF Placed, QueueHolds
  <2>4. ~inCo[Head(q)]
    BY <2>2, <2>3 DEF QueueStages
  <2>5. \A r \in Requests : r # Head(q) => stage'[r] = stage[r]
    BY <1>3 DEF TestPop, TypeOK, RequestTypes
  <2> QED
    BY <1>3, <2>4, <2>5, CountFrame DEF TestPop, loopVars
<1>4. ASSUME NEW w \in Workers, ServeFinish(w) \/ ServeProcess(w) \/ Resume(w)
      PROVE  Counted'
  <2>1. cur[w] \in Requests /\ stage[cur[w]] \in {"running", "finishing", "processed"}
    BY <1>4 DEF ServeFinish, ServeProcess, Resume, WorkerTo, Placed, WorkerHolds, TypeOK, PoolTypes
  <2>2. ~inCo[cur[w]]
    BY <2>1
  <2>3. \A r \in Requests : r # cur[w] => stage'[r] = stage[r]
    BY <1>4 DEF ServeFinish, ServeProcess, Resume, TypeOK, RequestTypes
  <2> QED
    BY <1>4, <2>2, <2>3, CountFrame DEF ServeFinish, ServeProcess, Resume, loopVars
<1>5. ASSUME NEW r \in Requests, StartCoroutine(r) PROVE Counted'
  <2>1. stage[r] \in {"suspended", "handoff"} /\ stage' = [stage EXCEPT ![r] = "co"]
    BY <1>5 DEF StartCoroutine, LoopDrops
  <2> QED
    BY <1>5, <2>1, CoroutineBegins DEF StartCoroutine
<1>6. ASSUME NEW r \in Requests, FinishCoroutine(r) PROVE Counted'
  <2>1. stage' = [stage EXCEPT ![r] = "finishCo"]
    BY <1>6 DEF FinishCoroutine, LoopDrops
  <2>2. CASE inCo[r]
    <3>1. UNCHANGED <<inCo, coRunning>>
      BY <1>6, <2>2 DEF FinishCoroutine, TypeOK, LoopTypes
    <3>2. \A q \in Requests : inCo[q] => stage'[q] \in CoStages
      BY <2>1 DEF TypeOK, RequestTypes
    <3> QED
      BY <3>1, <3>2, CountFrame
  <2>3. CASE ~inCo[r]
    BY <1>6, <2>1, <2>3, CoroutineBegins DEF FinishCoroutine
  <2> QED
    BY <2>2, <2>3
<1>7. ASSUME NEW r \in Requests, EnqueueFinish(r) \/ FinishHere(r) \/ FinishCoEnd(r) \/ (ProcessCo(r) /\ CoEnds(r))
      PROVE  Counted'
  <2>1. CoEnds(r)
    BY <1>7 DEF EnqueueFinish, FinishHere, FinishCoEnd
  <2>2. \A q \in Requests : q # r => stage'[q] = stage[q]
    BY <1>7 DEF EnqueueFinish, FinishHere, FinishCoEnd, ProcessCo, LoopDrops, LoopTakes, TypeOK, RequestTypes
  <2> QED
    BY <2>1, <2>2, CoroutineEnds
<1>8. ASSUME NEW r \in Requests,
             \/ Read(r) \/ DispatchInline(r) \/ DispatchHandOff(r) \/ Suspend(r) \/ CorHere(r) \/ EnqueueRequest(r)
             \/ ProcessInline(r) \/ Resumed(r) \/ ResponseDone(r) \/ FinishInline(r) \/ FinishHandOff(r)
             \/ (ProcessCo(r) /\ ~CoEnds(r))
      PROVE  Counted'
  <2>1. UNCHANGED <<inCo, coRunning>>
    BY <1>8 DEF Read, DispatchInline, DispatchHandOff, Suspend, CorHere, EnqueueRequest, ProcessInline, Resumed,
                ResponseDone, FinishInline, FinishHandOff, ProcessCo
  <2>2. \A q \in Requests : q # r => stage'[q] = stage[q]
    BY <1>8 DEF Read, DispatchInline, DispatchHandOff, Suspend, CorHere, EnqueueRequest, ProcessInline, Resumed,
                ResponseDone, FinishInline, FinishHandOff, ProcessCo, LoopTakes, LoopOn, LoopDrops, TypeOK, RequestTypes
  <2>3. stage[r] \notin CoStages \/ stage'[r] \in CoStages
    BY <1>8 DEF Read, DispatchInline, DispatchHandOff, Suspend, CorHere, EnqueueRequest, ProcessInline, Resumed,
                ResponseDone, FinishInline, FinishHandOff, ProcessCo, LoopTakes, LoopOn, LoopDrops, TypeOK, RequestTypes
  <2> QED
    BY <2>1, <2>2, <2>3, CountFrame
<1> QED
  BY <1>1, <1>2, <1>3, <1>4, <1>5, <1>6, <1>7, <1>8 DEF Next, Worker, LoopStep

\* corCoRunning is the number of coroutines a loop has, whatever requests begin
\* and end in them, and never above CO_MAX (corRestInit.c, corRestCoDispatch;
\* requestCoroutine, finishCoroutine).
THEOREM CoroutinesExact == Spec => []CoroutinesCounted
<1>1. Init => Counted
  <2> SUFFICES ASSUME Init PROVE Counted
    OBVIOUS
  <2>1. \A l \in Loops : CoroutinesOf(l) = {} /\ coRunning[l] = 0
    BY DEF Init, CoroutinesOf
  <2>2. \A l \in Loops : IsFiniteSet(CoroutinesOf(l)) /\ Cardinality(CoroutinesOf(l)) = 0
    BY <2>1, FS_EmptySet
  <2>3. CoMax >= 0 /\ \A r \in Requests : ~inCo[r]
    BY PoolAssumption DEF Init
  <2>4. CoroutinesCounted
    BY <2>1, <2>2, <2>3 DEF CoroutinesCounted, CoroutinesOf
  <2> QED
    BY <2>2, <2>4 DEF Counted
<1>2. TypeOK /\ Placed /\ Counted /\ [Next]_vars => Counted'
  BY CountStep
<1>3. Counted => CoroutinesCounted
  BY DEF Counted
<1> QED
  BY <1>1, <1>2, <1>3, TypeCorrect, RequestPlaced, PTL DEF Spec


-----------------------------------------------------------------------------
(* The pool inside the server                                              *)

PoolInv == TypeOK /\ Placed /\ Drained /\ Kept

\* What the handler's thread does for the pool: of the loops' steps, those of mhd.
HandlerStep(r) ==
  \/ DispatchInline(r) \/ DispatchHandOff(r) \/ Suspend(r) \/ EnqueueRequest(r)
  \/ ProcessInline(r) \/ Resumed(r) \/ ResponseDone(r) \/ FinishHere(r)

\* A step of the pool that is no request's arrival, or nothing to the pool.
Within ==
  \/ Main \/ Stop \/ UNCHANGED vars
  \/ \E w \in Workers : Worker(w) \/ SpuriousWakeup(w)
  \/ \E r \in Requests : HandlerStep(r)

\* What the server does is, to the pool, a step of the pool or nothing; and a request
\* arrives there with its final call.
LEMMA PoolStep ==
  ASSUME [ServerNext]_allVars
  PROVE  Within \/ \E r \in Requests : FinalCall(r)
<1>1. ASSUME NEW w \in Workers, PoolWorker(w) PROVE Worker(w)
  BY <1>1 DEF PoolWorker, Serve, Worker
<1>2. ASSUME NEW r \in Requests, IoThread(r) PROVE HandlerStep(r) \/ UNCHANGED vars
  BY <1>2 DEF IoThread, Abort, Closes, ServeInline, Answer, Completed, Elsewhere, Reads, HandlerStep
<1>3. ASSUME NEW r \in Requests, FirstCall(r) \/ BodyPiece(r) \/ Upgrade(r) \/ UpgradeEnds(r)
      PROVE  UNCHANGED vars
  BY <1>3 DEF FirstCall, BodyPiece, Upgrade, UpgradeEnds, Closes
<1>4. ASSUME MainThread \/ Writes PROVE Main \/ UNCHANGED vars
  BY <1>4 DEF MainThread, Writes, WaitEnds, StopDaemon, Stopped
<1>5. CASE UNCHANGED allVars
  BY <1>5 DEF allVars, Within
<1> QED
  BY <1>1, <1>2, <1>3, <1>4, <1>5 DEF ServerNext, Within

\* So every step of the server is one of the pool, or none.
LEMMA PoolNext ==
  ASSUME [ServerNext]_allVars
  PROVE  [Next]_vars
BY PoolStep DEF Within, HandlerStep, LoopStep, FinalCall, Next

\* The pool's inductive invariant is the server's too.
LEMMA PoolKeeps == PoolInv /\ [ServerNext]_allVars => PoolInv'
BY PoolNext, TypeStep, PlacedStep, DrainStep, KeptStep DEF PoolInv

\* The server keeps what the pool promises of a request's place.
THEOREM ServerPool == ServerSpec => []PoolInv
<1>1. Init => PoolInv
  BY TypeInit, PlacedInit, DrainInit, KeptInit DEF PoolInv
<1> QED
  BY <1>1, PoolKeeps, PTL DEF ServerSpec, ServerInit

\* The server implements the pool: libmicrohttpd's requests come and go in ways that the
\* pool allows its requests, whatever their bodies, streams, upgrades and the stop do.
THEOREM ServerImplementsPool == ServerSpec => Init /\ [][Next]_vars
BY PoolNext, PTL DEF ServerSpec, ServerInit

\* So a request of libmicrohttpd's is accepted, processed, answered and finished once
\* each and in that order too, as RequestLifecycle has it.
THEOREM ServerLifecycle == ServerSpec => LifecycleSpec
<1>1. Init => Lifecycle!Init
  BY DEF Init, Lifecycle!Init, PhaseOf
<1>2. PoolInv /\ [Next]_vars => [Lifecycle!Next]_([r \in Requests |-> PhaseOf(r)])
  BY LifecycleStep DEF PoolInv
<1> QED
  BY <1>1, <1>2, ServerPool, ServerImplementsPool, PTL DEF LifecycleSpec, Lifecycle!Spec

-----------------------------------------------------------------------------
(* The streamed response                                                   *)

\* What a step of the server is to the stream.
LEMMA StreamStep ==
  ASSUME [ServerNext]_allVars
  PROVE  S!Queue \/ S!Reader \/ S!DestroyRelease \/ S!GiveUp \/ S!Writer \/ S!EndRelease \/ UNCHANGED streamVars
<1>1. ASSUME NEW w \in Workers, PoolWorker(w) \/ (SpuriousWakeup(w) /\ UNCHANGED serverVars)
      PROVE  UNCHANGED streamVars
  BY <1>1 DEF PoolWorker, Serve, serverVars
<1>2. ASSUME NEW r \in Requests, Respond(r) PROVE S!Queue \/ UNCHANGED streamVars
  BY <1>2 DEF Respond
<1>3. ASSUME NEW r \in Requests, IoThread(r)
      PROVE  Respond(r) \/ S!Reader \/ S!DestroyRelease \/ S!GiveUp \/ UNCHANGED streamVars
  BY <1>3 DEF IoThread, Abort, Closes, ServeInline, Answer, Completed, Elsewhere, Reads, serverVars
<1>4. ASSUME NEW r \in Requests, FirstCall(r) \/ BodyPiece(r) \/ FinalCall(r) \/ Upgrade(r) \/ UpgradeEnds(r)
      PROVE  UNCHANGED streamVars
  BY <1>4 DEF FirstCall, BodyPiece, FinalCall, Upgrade, UpgradeEnds, Closes
<1>5. ASSUME MainThread \/ (Stop /\ UNCHANGED serverVars) PROVE UNCHANGED streamVars
  BY <1>5 DEF MainThread, WaitEnds, StopDaemon, Stopped, serverVars
<1>6. CASE Writes
  BY <1>6 DEF Writes
<1>7. CASE UNCHANGED allVars
  BY <1>7 DEF allVars, serverVars
<1> QED
  BY <1>1, <1>2, <1>3, <1>4, <1>5, <1>6, <1>7 DEF ServerNext

\* The limits of a stream are numbers.
LEMMA StreamLimits == MaxWritten \in Nat /\ MaxLen \in Nat \ {0} /\ PendingMax \in Nat
BY ServerAssumption

\* The stream's invariant but for the types of its flags.
StreamParts ==
  S!Contents /\ S!SuspendedIdle /\ S!PendingBounded /\ S!FreedLast /\ S!ReferencesHeld
  /\ S!BufferFollows /\ S!EndIsLast

\* Nothing was written, sent or opened at first.
LEMMA StreamInit == S!Init => S!StreamInv
<1> SUFFICES ASSUME S!Init PROVE S!StreamInv
  OBVIOUS
<1>1. S!Flags
  BY DEF S!Init, S!Flags
<1>2. S!Contents
  BY StreamLimits DEF S!Init, S!Contents
<1>3. ~asleep /\ ~ended /\ ~gone /\ ~freed /\ ~complete /\ ~misused
  BY DEF S!Init
<1>4. buf = <<>> /\ sent = <<>> /\ off = 0 /\ written = 0
  BY DEF S!Init
<1>5. opened = "no" /\ mhd = "none" /\ app = "writes" /\ refs = 0 /\ streams = 0
  BY DEF S!Init
<1>6. S!SuspendedIdle /\ S!FreedLast /\ S!ReferencesHeld /\ S!EndIsLast
  BY <1>3, <1>5 DEF S!SuspendedIdle, S!FreedLast, S!ReferencesHeld, S!EndIsLast
<1>7. S!PendingBounded /\ S!BufferFollows
  BY <1>4, StreamLimits DEF S!PendingBounded, S!BufferFollows, S!Counts
<1> QED
  BY <1>1, <1>2, <1>6, <1>7 DEF S!StreamInv, S!TypeOK

\* The flags of a stream are only ever TRUE or FALSE.
LEMMA FlagsKeep ==
  ASSUME S!Flags,
         S!Queue \/ S!Reader \/ S!DestroyRelease \/ S!GiveUp \/ S!Writer \/ S!EndRelease \/ UNCHANGED streamVars
  PROVE  S!Flags'
<1>1. CASE S!Queue \/ S!ReadEnds \/ S!ReadSuspends \/ S!GiveUp \/ S!DestroyRelease \/ S!EndRelease \/ UNCHANGED streamVars
  BY <1>1 DEF S!Queue, S!ReadEnds, S!ReadSuspends, S!GiveUp, S!DestroyRelease, S!EndRelease, S!Destroy, S!Release,
              streamVars, S!Flags
<1>2. CASE S!Probe \/ S!End
  BY <1>2 DEF S!Probe, S!End, S!Resume, S!Flags
<1>3. ASSUME NEW n \in 1 .. MaxLen, S!Write(n) PROVE S!Flags'
  BY <1>3 DEF S!Write, S!Resume, S!Flags
<1>4. ASSUME NEW n \in 1 .. MaxWritten, S!ReadTakes(n) PROVE S!Flags'
  BY <1>4 DEF S!ReadTakes, S!Flags
<1> QED
  BY <1>1, <1>2, <1>3, <1>4 DEF S!Reader, S!Writer

\* The n units after x count on from x.
LEMMA UnitsCount ==
  ASSUME NEW M \in Nat, NEW n \in Nat, NEW x \in Nat, x + n <= M
  PROVE  S!Units(x, n) \in Seq(1 .. M) /\ Len(S!Units(x, n)) = n /\ S!Counts(S!Units(x, n), x)
<1> DEFINE w == S!Units(x, n)
<1>1. w \in [1 .. n -> 1 .. M] /\ \A i \in 1 .. n : w[i] = x + i
  BY DEF S!Units
<1> HIDE DEF w
<1>2. w \in Seq(1 .. M)
  BY <1>1, SeqDef
<1>3. Len(w) = n
  BY <1>1, <1>2, LenProperties
<1>4. S!Counts(w, x)
  BY <1>1, <1>3 DEF S!Counts
<1> QED
  BY <1>2, <1>3, <1>4 DEF w

\* What counts on from where the other stops continues it.
LEMMA ConcatCounts ==
  ASSUME NEW M \in Nat, NEW s \in Seq(1 .. M), NEW t \in Seq(1 .. M), NEW x \in Int,
         S!Counts(s, x), S!Counts(t, x + Len(s))
  PROVE  s \o t \in Seq(1 .. M) /\ Len(s \o t) = Len(s) + Len(t) /\ S!Counts(s \o t, x)
<1>1. Len(s) \in Nat /\ Len(t) \in Nat
  OBVIOUS
<1>2. /\ s \o t \in Seq(1 .. M) /\ Len(s \o t) = Len(s) + Len(t)
      /\ \A i \in 1 .. Len(s) + Len(t) : (s \o t)[i] = IF i <= Len(s) THEN s[i] ELSE t[i - Len(s)]
  BY ConcatProperties
<1>3. ASSUME NEW i \in 1 .. Len(s) + Len(t) PROVE (s \o t)[i] = x + i
  <2>1. CASE i <= Len(s)
    <3>1. i \in 1 .. Len(s)
      BY <1>1, <2>1
    <3> QED
      BY <1>2, <2>1, <3>1 DEF S!Counts
  <2>2. CASE ~(i <= Len(s))
    <3>1. i - Len(s) \in 1 .. Len(t)
      BY <1>1, <2>2
    <3>2. t[i - Len(s)] = x + Len(s) + (i - Len(s))
      BY <3>1 DEF S!Counts
    <3> QED
      BY <1>1, <1>2, <2>2, <3>2
  <2> QED
    BY <2>1, <2>2
<1> QED
  BY <1>2, <1>3 DEF S!Counts

\* A part of what counts on does so from where it begins.
LEMMA SubSeqCounts ==
  ASSUME NEW M \in Nat, NEW s \in Seq(1 .. M), NEW x \in Int, S!Counts(s, x),
         NEW a \in Nat, NEW b \in Nat, a <= b, b <= Len(s)
  PROVE  /\ SubSeq(s, a + 1, b) \in Seq(1 .. M)
         /\ Len(SubSeq(s, a + 1, b)) = b - a
         /\ S!Counts(SubSeq(s, a + 1, b), x + a)
<1> DEFINE t == SubSeq(s, a + 1, b)
<1>1. \A i \in a + 1 .. b : i \in 1 .. Len(s) /\ s[i] \in 1 .. M
  OBVIOUS
<1>2. /\ t \in Seq(1 .. M) /\ Len(t) = b - a
      /\ \A i \in 1 .. b - a : t[i] = s[a + i]
  BY <1>1, SubSeqProperties
<1>3. ASSUME NEW i \in 1 .. b - a PROVE t[i] = x + a + i
  <2>1. a + i \in 1 .. Len(s)
    OBVIOUS
  <2>2. s[a + i] = x + (a + i)
    BY <2>1 DEF S!Counts
  <2> QED
    BY <1>2, <2>2
<1> QED
  BY <1>2, <1>3 DEF S!Counts

\* The numbers of the stream are numbers.
LEMMA StreamNumbers ==
  ASSUME StreamParts
  PROVE  /\ MaxWritten \in Nat /\ PendingMax \in Nat
         /\ written \in Nat /\ off \in Nat /\ Len(buf) \in Nat /\ Len(sent) \in Nat
         /\ off <= Len(buf) /\ Len(sent) + Len(buf) - off = written
         /\ Len(buf) - off <= PendingMax
BY StreamLimits DEF StreamParts, S!Contents, S!BufferFollows, S!PendingBounded

\* Its sequences are sequences that count on.
LEMMA StreamSequences ==
  ASSUME StreamParts
  PROVE  /\ buf \in Seq(1 .. MaxWritten) /\ sent \in Seq(1 .. MaxWritten)
         /\ S!Counts(sent, 0) /\ S!Counts(buf, Len(sent) - off)
BY DEF StreamParts, S!Contents, S!BufferFollows

\* A write is appended behind what is there.
LEMMA WriteKeeps ==
  ASSUME StreamParts, NEW n \in 1 .. MaxLen, S!Write(n)
  PROVE  StreamParts'
<1> DEFINE w == S!Units(written, n)
<1>1. n \in Nat /\ written + n <= MaxWritten
  BY StreamLimits DEF S!Write
<1>2. S!Open /\ ~gone /\ ~ended
  BY DEF S!Write
<1>3. UNCHANGED <<opened, off, refs, streams, app, sent>>
  BY DEF S!Write
<1>4. (ended' <=> ended) /\ (gone' <=> gone) /\ (freed' <=> freed) /\ (complete' <=> complete)
  BY DEF S!Write
<1>5. mhd \in {"active", "suspended"} /\ (asleep <=> mhd = "suspended") /\ ~misused
  BY <1>2 DEF StreamParts, S!Contents, S!ReferencesHeld, S!SuspendedIdle, S!Open
<1>6. mhd' = "active" /\ ~asleep' /\ ~misused'
  BY <1>2, <1>5 DEF S!Write, S!Resume
<1>7. S!ReferencesHeld' /\ S!FreedLast' /\ S!SuspendedIdle'
  BY <1>2, <1>3, <1>4, <1>5, <1>6 DEF StreamParts, S!ReferencesHeld, S!FreedLast, S!SuspendedIdle, S!Open
<1>8. S!EndIsLast'
  BY <1>2, <1>4 DEF StreamParts, S!EndIsLast
<1>9. CASE UNCHANGED <<buf, written>>
  <2>1. S!Contents'
    BY <1>3, <1>6, <1>9 DEF StreamParts, S!Contents
  <2>2. S!PendingBounded' /\ S!BufferFollows'
    BY <1>3, <1>9 DEF StreamParts, S!PendingBounded, S!BufferFollows
  <2> QED
    BY <1>7, <1>8, <2>1, <2>2 DEF StreamParts
<1>10. CASE Len(buf) + n - off <= PendingMax /\ buf' = buf \o w /\ written' = written + n
  <2>1. w \in Seq(1 .. MaxWritten) /\ Len(w) = n /\ S!Counts(w, written)
    BY <1>1, StreamNumbers, UnitsCount
  <2>2. written = (Len(sent) - off) + Len(buf) /\ Len(sent) - off \in Int
    BY StreamNumbers
  <2> HIDE DEF w
  <2>3. buf' \in Seq(1 .. MaxWritten) /\ Len(buf') = Len(buf) + n /\ S!Counts(buf', Len(sent) - off)
    BY <1>10, <2>1, <2>2, StreamLimits, StreamSequences, ConcatCounts
  <2>4. written' \in 0 .. MaxWritten
    BY <1>1, <1>10, StreamNumbers
  <2>5. S!Contents'
    BY <1>3, <1>6, <2>3, <2>4 DEF StreamParts, S!Contents
  <2>6. Len(buf') = Len(buf) + n
    BY <2>3
  <2>7. off' <= Len(buf') /\ Len(sent') + Len(buf') - off' = written' /\ Len(buf') - off' <= PendingMax
    <3> DEFINE b == Len(buf)
               s == Len(sent)
               b1 == Len(buf')
    <3>1. /\ b \in Nat /\ s \in Nat /\ off \in Nat /\ written \in Nat /\ PendingMax \in Nat
          /\ s + b - off = written /\ off <= b
      BY StreamNumbers
    <3>2. n \in Nat /\ b + n - off <= PendingMax
      BY <1>1, <1>10
    <3>3. b1 = b + n /\ off' = off /\ written' = written + n /\ Len(sent') = s
      BY <1>3, <1>10, <2>6
    <3> HIDE DEF b, s, b1
    <3>4. off' <= b1 /\ s + b1 - off' = written' /\ b1 - off' <= PendingMax
      BY <3>1, <3>2, <3>3
    <3> QED
      BY <3>3, <3>4 DEF b1
  <2>8. S!BufferFollows' /\ S!PendingBounded'
    BY <1>3, <2>3, <2>7, StreamSequences DEF S!BufferFollows, S!PendingBounded
  <2> QED
    BY <1>7, <1>8, <2>5, <2>8 DEF StreamParts
<1> QED
  BY <1>9, <1>10 DEF S!Write

\* A read takes from the front, and the rest follows what was sent.
LEMMA ReadKeeps ==
  ASSUME StreamParts, NEW n \in 1 .. MaxWritten, S!ReadTakes(n)
  PROVE  StreamParts'
<1> DEFINE t == SubSeq(buf, off + 1, off + n)
<1>1. n \in Nat /\ off + n <= Len(buf)
  BY StreamNumbers DEF S!ReadTakes
<1>2. mhd = "active" /\ sent' = sent \o t
  BY DEF S!ReadTakes
<1>3. UNCHANGED <<opened, refs, streams, mhd, app, written>>
  BY DEF S!ReadTakes
<1>4. /\ (asleep' <=> asleep) /\ (ended' <=> ended) /\ (cut' <=> cut) /\ (gone' <=> gone) /\ (freed' <=> freed)
      /\ (complete' <=> complete) /\ (misused' <=> misused)
  BY DEF S!ReadTakes
<1>5. ~gone /\ ~asleep
  BY <1>2 DEF StreamParts, S!ReferencesHeld, S!SuspendedIdle
<1>6. S!ReferencesHeld' /\ S!FreedLast' /\ S!SuspendedIdle' /\ S!EndIsLast'
  BY <1>2, <1>3, <1>4, <1>5 DEF StreamParts, S!ReferencesHeld, S!FreedLast, S!SuspendedIdle, S!EndIsLast
<1>7. t \in Seq(1 .. MaxWritten) /\ Len(t) = n /\ S!Counts(t, 0 + Len(sent))
  <2>1. /\ off + n \in Nat /\ off <= off + n /\ Len(sent) - off \in Int /\ (off + n) - off = n
        /\ (Len(sent) - off) + off = 0 + Len(sent)
    BY <1>1, StreamNumbers
  <2>2. /\ MaxWritten \in Nat /\ off \in Nat /\ off + n <= Len(buf)
        /\ buf \in Seq(1 .. MaxWritten) /\ S!Counts(buf, Len(sent) - off)
    BY <1>1, StreamNumbers, StreamSequences
  <2>3. t \in Seq(1 .. MaxWritten) /\ Len(t) = (off + n) - off /\ S!Counts(t, (Len(sent) - off) + off)
    BY <2>1, <2>2, SubSeqCounts
  <2> QED
    BY <2>1, <2>3
<1> HIDE DEF t
<1>8. sent' \in Seq(1 .. MaxWritten) /\ Len(sent') = Len(sent) + n /\ S!Counts(sent', 0)
  <2>1. MaxWritten \in Nat /\ sent \in Seq(1 .. MaxWritten) /\ S!Counts(sent, 0) /\ 0 \in Int
    BY StreamLimits, StreamSequences
  <2> QED
    BY <1>2, <1>7, <2>1, ConcatCounts
<1>9. CASE off + n = Len(buf) /\ buf' = <<>> /\ off' = 0
  <2>1. Len(buf') = 0 /\ buf' \in Seq(1 .. MaxWritten)
    BY <1>9
  <2>2. S!Contents'
    BY <1>3, <1>8, <1>9, <2>1 DEF StreamParts, S!Contents
  <2>3. off' <= Len(buf') /\ Len(sent') + Len(buf') - off' = written'
    <3>1. Len(sent') = Len(sent) + n
      BY <1>8
    <3>2. Len(buf') = 0
      BY <2>1
    <3> QED
      BY <1>1, <1>3, <1>9, <3>1, <3>2, StreamNumbers
  <2>4. S!Counts(buf', Len(sent') - off')
    BY <2>1 DEF S!Counts
  <2>5. S!BufferFollows' /\ S!PendingBounded'
    BY <1>8, <1>9, <2>1, <2>3, <2>4, StreamLimits DEF S!BufferFollows, S!PendingBounded
  <2> QED
    BY <1>6, <2>2, <2>5 DEF StreamParts
<1>10. CASE off' = off + n /\ UNCHANGED buf
  <2>1. off' \in Nat
    BY <1>1, <1>10, StreamNumbers
  <2>2. S!Contents'
    BY <1>3, <1>8, <1>10, <2>1 DEF StreamParts, S!Contents
  <2>3. Len(sent') = Len(sent) + n
    BY <1>8
  <2>4. /\ off' <= Len(buf') /\ Len(sent') + Len(buf') - off' = written' /\ Len(buf') - off' <= PendingMax
        /\ Len(sent') - off' = Len(sent) - off
    <3> DEFINE b == Len(buf)
               s == Len(sent)
               s1 == Len(sent')
    <3>1. /\ b \in Nat /\ s \in Nat /\ off \in Nat /\ written \in Nat /\ PendingMax \in Nat
          /\ s + b - off = written /\ b - off <= PendingMax
      BY StreamNumbers
    <3>2. n \in Nat /\ off + n <= b
      BY <1>1
    <3>3. Len(buf') = b /\ off' = off + n /\ written' = written /\ s1 = s + n
      BY <1>3, <1>10, <2>3
    <3> HIDE DEF b, s, s1
    <3>4. off' <= b /\ s1 + b - off' = written' /\ b - off' <= PendingMax /\ s1 - off' = s - off
      BY <3>1, <3>2, <3>3
    <3> QED
      BY <3>3, <3>4 DEF s, s1
  <2>5. S!BufferFollows' /\ S!PendingBounded'
    BY <1>8, <1>10, <2>4, StreamSequences DEF S!BufferFollows, S!PendingBounded
  <2> QED
    BY <1>6, <2>2, <2>5 DEF StreamParts
<1> QED
  BY <1>9, <1>10 DEF S!ReadTakes

\* Only the flags, the references and the connection change.
LEMMA BufferStays ==
  ASSUME StreamParts, UNCHANGED <<buf, off, written, sent>>
  PROVE  S!PendingBounded' /\ S!BufferFollows'
BY DEF StreamParts, S!PendingBounded, S!BufferFollows

\* Every step of the stream keeps what its flags, buffer and references say.
LEMMA PartsKeep ==
  ASSUME StreamParts,
         S!Queue \/ S!Reader \/ S!DestroyRelease \/ S!GiveUp \/ S!Writer \/ S!EndRelease \/ UNCHANGED streamVars
  PROVE  StreamParts'
<1> DEFINE Held == S!SuspendedIdle /\ S!FreedLast /\ S!ReferencesHeld /\ S!EndIsLast
<1>1. CASE S!Queue
  <2>1. S!PendingBounded' /\ S!BufferFollows'
    BY <1>1, BufferStays DEF S!Queue
  <2>2. S!Contents'
    BY <1>1 DEF StreamParts, S!Contents, S!ReferencesHeld, S!Queue
  <2>3. Held'
    BY <1>1 DEF StreamParts, S!Contents, S!SuspendedIdle, S!FreedLast, S!ReferencesHeld, S!EndIsLast, S!BufferFollows,
                S!Queue
  <2> QED
    BY <2>1, <2>2, <2>3 DEF StreamParts
<1>2. CASE S!ReadEnds
  <2>1. S!PendingBounded' /\ S!BufferFollows'
    BY <1>2, BufferStays DEF S!ReadEnds, S!Destroy
  <2>2. S!Contents'
    BY <1>2 DEF StreamParts, S!Contents, S!ReferencesHeld, S!ReadEnds, S!Destroy
  <2>3. Held'
    <3>1. /\ mhd = "active" /\ mhd' = "closing" /\ gone' /\ streams' = streams - 1 /\ (complete' <=> ~cut)
          /\ (cut \/ (ended /\ Len(buf) = off))
          /\ UNCHANGED <<opened, refs, app, sent, written>>
          /\ (asleep' <=> asleep) /\ (ended' <=> ended) /\ (freed' <=> freed) /\ (misused' <=> misused)
      BY <1>2 DEF S!ReadEnds, S!Destroy
    <3>2. S!SuspendedIdle' /\ S!FreedLast' /\ S!ReferencesHeld'
      BY <3>1 DEF StreamParts, S!SuspendedIdle, S!FreedLast, S!ReferencesHeld
    <3>3. Len(buf) = off => Len(sent) = written
      BY StreamNumbers
    <3>4. S!EndIsLast'
      BY <3>1, <3>3 DEF S!EndIsLast
    <3> QED
      BY <3>2, <3>4
  <2> QED
    BY <2>1, <2>2, <2>3 DEF StreamParts
<1>3. CASE S!ReadSuspends
  <2>1. S!PendingBounded' /\ S!BufferFollows'
    BY <1>3, BufferStays DEF S!ReadSuspends
  <2>2. S!Contents'
    BY <1>3 DEF StreamParts, S!Contents, S!ReferencesHeld, S!ReadSuspends
  <2>3. Held'
    BY <1>3 DEF StreamParts, S!Contents, S!SuspendedIdle, S!FreedLast, S!ReferencesHeld, S!EndIsLast, S!BufferFollows,
                S!ReadSuspends
  <2> QED
    BY <2>1, <2>2, <2>3 DEF StreamParts
<1>4. CASE S!GiveUp
  <2>1. S!PendingBounded' /\ S!BufferFollows'
    BY <1>4, BufferStays DEF S!GiveUp, S!Destroy
  <2>2. S!Contents'
    BY <1>4 DEF StreamParts, S!Contents, S!ReferencesHeld, S!GiveUp, S!Destroy
  <2>3. Held'
    BY <1>4 DEF StreamParts, S!Contents, S!SuspendedIdle, S!FreedLast, S!ReferencesHeld, S!EndIsLast, S!BufferFollows,
                S!GiveUp, S!Destroy
  <2> QED
    BY <2>1, <2>2, <2>3 DEF StreamParts
<1>5. CASE S!DestroyRelease
  <2>1. S!PendingBounded' /\ S!BufferFollows'
    BY <1>5, BufferStays DEF S!DestroyRelease, S!Release
  <2>2. S!Contents'
    BY <1>5 DEF StreamParts, S!Contents, S!ReferencesHeld, S!DestroyRelease, S!Release
  <2>3. Held'
    <3>1. mhd = "closing" /\ mhd' = "closed" /\ UNCHANGED app
          /\ (freed' <=> refs = 1) /\ UNCHANGED <<opened, streams, buf, off, sent, written>>
          /\ (asleep' <=> asleep) /\ (ended' <=> ended) /\ (gone' <=> gone) /\ (cut' <=> cut)
          /\ (misused' <=> misused) /\ (complete' <=> complete)
      BY <1>5 DEF S!DestroyRelease, S!Release
    <3>2. opened = "stream" /\ refs' = refs - 1
      BY <1>5 DEF S!DestroyRelease, S!Release, StreamParts, S!Contents, S!ReferencesHeld
    <3>3. S!ReferencesHeld' /\ S!FreedLast'
      BY <3>1, <3>2 DEF StreamParts, S!ReferencesHeld, S!FreedLast, S!Contents
    <3>4. S!SuspendedIdle' /\ S!EndIsLast'
      BY <3>1 DEF StreamParts, S!SuspendedIdle, S!EndIsLast
    <3> QED
      BY <3>3, <3>4
  <2> QED
    BY <2>1, <2>2, <2>3 DEF StreamParts
<1>6. CASE S!EndRelease
  <2>1. S!PendingBounded' /\ S!BufferFollows'
    BY <1>6, BufferStays DEF S!EndRelease, S!Release
  <2>2. S!Contents'
    BY <1>6 DEF StreamParts, S!Contents, S!ReferencesHeld, S!EndRelease, S!Release
  <2>3. Held'
    <3>1. app = "ending" /\ app' = "done" /\ UNCHANGED mhd
          /\ (freed' <=> refs = 1) /\ UNCHANGED <<opened, streams, buf, off, sent, written>>
          /\ (asleep' <=> asleep) /\ (ended' <=> ended) /\ (gone' <=> gone) /\ (cut' <=> cut)
          /\ (misused' <=> misused) /\ (complete' <=> complete)
      BY <1>6 DEF S!EndRelease, S!Release
    <3>2. opened = "stream" /\ refs' = refs - 1
      BY <1>6 DEF S!EndRelease, S!Release, StreamParts, S!Contents, S!ReferencesHeld
    <3>3. S!ReferencesHeld' /\ S!FreedLast'
      BY <3>1, <3>2 DEF StreamParts, S!ReferencesHeld, S!FreedLast, S!Contents
    <3>4. S!SuspendedIdle' /\ S!EndIsLast'
      BY <3>1 DEF StreamParts, S!SuspendedIdle, S!EndIsLast
    <3> QED
      BY <3>3, <3>4
  <2> QED
    BY <2>1, <2>2, <2>3 DEF StreamParts
<1>7. CASE S!Probe \/ S!End
  <2>1. S!PendingBounded' /\ S!BufferFollows'
    BY <1>7, BufferStays DEF S!Probe, S!End, S!Resume, S!Open
  <2>2. S!Contents'
    BY <1>7 DEF StreamParts, S!Contents, S!ReferencesHeld, S!Probe, S!End, S!Resume, S!Open
  <2>3. Held'
    <3>1. /\ opened = "stream" /\ app = "writes" /\ UNCHANGED <<opened, refs, streams, buf, off, sent, written>>
          /\ (gone' <=> gone) /\ (freed' <=> freed) /\ (complete' <=> complete)
          /\ \/ app' = "ending" /\ ended' /\ (cut' <=> cut)
             \/ app' = app /\ (ended' <=> ended) /\ cut' /\ asleep /\ ~gone
      BY <1>7 DEF S!Probe, S!End, S!Open
    <3>2. \/ asleep /\ ~gone /\ ~asleep' /\ mhd' = "active" /\ (misused' <=> misused \/ mhd # "suspended")
          \/ ~(asleep /\ ~gone) /\ (asleep' <=> asleep) /\ mhd' = mhd /\ (misused' <=> misused)
      BY <1>7 DEF S!Probe, S!End, S!Resume
    <3>3. S!SuspendedIdle'
      BY <3>1, <3>2 DEF StreamParts, S!SuspendedIdle
    <3>4. S!ReferencesHeld' /\ S!FreedLast'
      BY <3>1, <3>2 DEF StreamParts, S!SuspendedIdle, S!ReferencesHeld, S!FreedLast
    <3>5. S!EndIsLast'
      BY <3>1 DEF StreamParts, S!EndIsLast
    <3> QED
      BY <3>3, <3>4, <3>5
  <2> QED
    BY <2>1, <2>2, <2>3 DEF StreamParts
<1>8. CASE UNCHANGED streamVars
  <2>1. S!PendingBounded' /\ S!BufferFollows'
    BY <1>8, BufferStays DEF streamVars
  <2>2. S!Contents'
    BY <1>8 DEF StreamParts, S!Contents, S!ReferencesHeld, streamVars
  <2>3. Held'
    BY <1>8 DEF StreamParts, S!Contents, S!SuspendedIdle, S!FreedLast, S!ReferencesHeld, S!EndIsLast, S!BufferFollows,
                streamVars
  <2> QED
    BY <2>1, <2>2, <2>3 DEF StreamParts
<1> QED
  BY <1>1, <1>2, <1>3, <1>4, <1>5, <1>6, <1>7, <1>8, WriteKeeps, ReadKeeps DEF S!Reader, S!Writer

\* Every step of the server keeps the stream's invariant.
LEMMA StreamKeeps == S!StreamInv /\ [ServerNext]_allVars => S!StreamInv'
BY StreamStep, FlagsKeep, PartsKeep DEF S!StreamInv, S!TypeOK, StreamParts

\* A connection with a streamed response is out of libmicrohttpd's loop only while
\* there is nothing for it to do, and the stream is freed by the last who lets go of
\* it, once, whatever the application and the connection's thread interleave
\* (corRestBackendMhd.c, streamRead, corRestStreamWrite, corRestStreamEnd, streamFree).
THEOREM StreamSound == ServerSpec => []StreamInv
<1>1. ServerInit => StreamInv
  BY StreamInit DEF ServerInit, StreamInv
<1>2. StreamInv /\ [ServerNext]_allVars => StreamInv'
  BY StreamKeeps DEF StreamInv
<1> QED
  BY <1>1, <1>2, PTL DEF ServerSpec

-----------------------------------------------------------------------------
(* The body of a request                                                   *)

BodyType == [sent : 0 .. MaxPieces, kept : Seq(1 .. MaxPieces), size : Nat, bad : BOOLEAN]

\* What BodyWhole says of one body.
Whole(b) ==
  /\ b.kept = [i \in DOMAIN b.kept |-> i]
  /\ BodyMax > 0 => b.size <= BodyMax
  /\ ~b.bad => Len(b.kept) = b.sent

\* A piece more is appended, or makes the body a bad one.
LEMMA TakenWhole ==
  ASSUME NEW b \in BodyType, Whole(b), b.sent < MaxPieces, NEW n \in 1 .. 2
  PROVE  Taken(b, n) \in BodyType /\ Whole(Taken(b, n))
<1>1. /\ b.sent \in Nat /\ b.sent + 1 \in 0 .. MaxPieces /\ b.sent + 1 \in 1 .. MaxPieces
      /\ b.size \in Nat /\ n \in Nat /\ b.size + n \in Nat
  BY ServerAssumption DEF BodyType
<1>2. b.kept \in Seq(1 .. MaxPieces)
  BY DEF BodyType
<1>3. CASE b.bad
  BY <1>3 DEF Taken
<1>4. CASE ~b.bad /\ BodyMax > 0 /\ b.size + n > BodyMax
  <2>1. Taken(b, n) = [b EXCEPT !.sent = b.sent + 1, !.bad = TRUE]
    BY <1>4 DEF Taken
  <2>2. Taken(b, n) \in BodyType
    BY <1>1, <2>1 DEF BodyType
  <2>3. Taken(b, n).kept = b.kept /\ Taken(b, n).size = b.size /\ Taken(b, n).bad
    BY <2>1 DEF BodyType
  <2> QED
    BY <2>2, <2>3 DEF Whole
<1>5. CASE ~b.bad /\ ~(BodyMax > 0 /\ b.size + n > BodyMax)
  <2> DEFINE k == Append(b.kept, b.sent + 1)
  <2>1. Taken(b, n) = [b EXCEPT !.sent = b.sent + 1, !.kept = k, !.size = b.size + n]
    BY <1>5 DEF Taken
  <2>2. /\ k \in Seq(1 .. MaxPieces) /\ Len(k) = Len(b.kept) + 1
        /\ \A i \in 1 .. Len(b.kept) : k[i] = b.kept[i]
        /\ k[Len(b.kept) + 1] = b.sent + 1
    BY <1>1, <1>2
  <2>3. Len(b.kept) = b.sent /\ DOMAIN b.kept = 1 .. Len(b.kept)
    BY <1>2, <1>5 DEF Whole
  <2>4. \A i \in 1 .. Len(b.kept) : b.kept[i] = i
    BY <2>3 DEF Whole
  <2> HIDE DEF k
  <2>5. DOMAIN k = 1 .. Len(k) /\ k = [i \in DOMAIN k |-> k[i]]
    BY <2>2
  <2>6. ASSUME NEW i \in 1 .. Len(k) PROVE k[i] = i
    <3>1. i \in 1 .. Len(b.kept) \/ i = Len(b.kept) + 1
      BY <2>2
    <3> QED
      BY <2>2, <2>3, <2>4, <3>1
  <2>7. k = [i \in DOMAIN k |-> i]
    BY <2>5, <2>6
  <2>8. Taken(b, n) \in BodyType
    BY <1>1, <2>1, <2>2 DEF BodyType
  <2>9. Taken(b, n).kept = k /\ Taken(b, n).size = b.size + n /\ Taken(b, n).sent = b.sent + 1
    BY <2>1 DEF BodyType
  <2>10. BodyMax > 0 => b.size + n <= BodyMax
    BY <1>1, <1>5, ServerAssumption
  <2>11. Len(k) = b.sent + 1
    BY <2>2, <2>3
  <2> QED
    BY <2>7, <2>8, <2>9, <2>10, <2>11 DEF Whole
<1> QED
  BY <1>3, <1>4, <1>5

\* No body, and what it becomes when the first call finds it bad.
LEMMA NewWhole ==
  ASSUME NEW bad \in BOOLEAN
  PROVE  NewBody \in BodyType /\ Whole(NewBody) /\ [NewBody EXCEPT !.bad = bad] \in BodyType
         /\ Whole([NewBody EXCEPT !.bad = bad])
<1>1. 0 \in 0 .. MaxPieces /\ BodyMax \in Nat
  BY ServerAssumption
<1>2. <<>> \in Seq(1 .. MaxPieces) /\ Len(<<>>) = 0
  OBVIOUS
<1>3. <<>> = [i \in DOMAIN <<>> |-> i]
  OBVIOUS
<1>4. NewBody \in BodyType /\ [NewBody EXCEPT !.bad = bad] \in BodyType
  BY <1>1, <1>2 DEF NewBody, BodyType
<1>5. /\ NewBody.kept = <<>> /\ NewBody.size = 0 /\ NewBody.sent = 0
      /\ [NewBody EXCEPT !.bad = bad].kept = <<>> /\ [NewBody EXCEPT !.bad = bad].size = 0
      /\ [NewBody EXCEPT !.bad = bad].sent = 0
  BY DEF NewBody
<1> HIDE DEF NewBody
<1> QED
  BY <1>1, <1>2, <1>3, <1>4, <1>5 DEF Whole

\* What the steps do to the bodies and the connections: only the handler's calls for
\* a request before its final one touch them.
LEMMA HandlerMoves ==
  ASSUME [ServerNext]_allVars
  PROVE  \/ UNCHANGED <<conn, body>>
         \/ \E r \in Requests : FirstCall(r) \/ BodyPiece(r) \/ FinalCall(r) \/ Upgrade(r) \/ UpgradeEnds(r) \/ Abort(r)
<1>1. ASSUME NEW w \in Workers, PoolWorker(w) PROVE UNCHANGED <<conn, body>>
  BY <1>1 DEF PoolWorker, Serve, serverVars, handlerVars
<1>2. ASSUME NEW r \in Requests, IoThread(r) PROVE Abort(r) \/ UNCHANGED <<conn, body>>
  BY <1>2 DEF IoThread, ServeInline, Answer, Completed, Elsewhere, Reads, serverVars, handlerVars
<1>3. CASE MainThread \/ Writes
  BY <1>3 DEF MainThread, Writes, WaitEnds, StopDaemon, Stopped, serverVars, handlerVars
<1>4. CASE UNCHANGED serverVars
  BY <1>4 DEF serverVars, handlerVars
<1> QED
  BY <1>1, <1>2, <1>3, <1>4 DEF ServerNext, allVars

\* Within the pool, no request stops being new or is new again.
LEMMA NewWithin ==
  ASSUME TypeOK, Placed, Within, NEW r \in Requests
  PROVE  stage'[r] = "new" <=> stage[r] = "new"
<1>1. CASE Main \/ Stop \/ UNCHANGED vars
  BY <1>1 DEF Main, StartWorker, StartDone, StartFailed, Stop, StopShard, StopJoin, Joined, reqVars, vars
<1>2. ASSUME NEW w \in Workers, Lock(w) \/ TestWait(w) \/ TestExit(w) \/ CondWait(w) \/ SpuriousWakeup(w)
      PROVE UNCHANGED stage
  BY <1>2 DEF Lock, TestWait, TestExit, CondWait, SpuriousWakeup, reqVars
<1>3. ASSUME NEW w \in Workers, TestPop(w) PROVE stage'[r] = "new" <=> stage[r] = "new"
  <2> DEFINE q == queue[WorkerShard(w)]
  <2>1. WorkerShard(w) \in ShardIds /\ q \in Seq(Requests) /\ q # <<>>
    BY <1>3, ShardsExist DEF TestPop, TypeOK, PoolTypes
  <2>2. Head(q) = q[1] /\ Head(q) \in Requests /\ 1 \in 1 .. Len(q)
    BY <2>1
  <2>3. stage[Head(q)] \in QueueStages
    BY <2>1, <2>2 DEF Placed, QueueHolds
  <2>4. /\ stage'[Head(q)] \in {"finishing", "running"}
        /\ \A p \in Requests : p # Head(q) => stage'[p] = stage[p]
    BY <1>3, <2>2 DEF TestPop, TypeOK, RequestTypes
  <2> HIDE DEF q
  <2> QED
    BY <2>3, <2>4 DEF QueueStages
<1>4. ASSUME NEW w \in Workers, ServeFinish(w) \/ ServeProcess(w) \/ Resume(w)
      PROVE stage'[r] = "new" <=> stage[r] = "new"
  <2>1. cur[w] \in Requests /\ stage[cur[w]] # "new"
    BY <1>4 DEF ServeFinish, ServeProcess, Resume, WorkerTo, Placed, WorkerHolds, TypeOK, PoolTypes
  <2>2. stage'[cur[w]] \in {"freed", "processed", "resumed"} /\ \A p \in Requests : p # cur[w] => stage'[p] = stage[p]
    BY <1>4, <2>1 DEF ServeFinish, ServeProcess, Resume, TypeOK, RequestTypes
  <2> QED
    BY <2>1, <2>2
<1>5. ASSUME NEW q \in Requests, HandlerStep(q)
      PROVE stage'[r] = "new" <=> stage[r] = "new"
  <2>1. stage[q] # "new" /\ stage'[q] # "new" /\ \A p \in Requests : p # q => stage'[p] = stage[p]
    BY <1>5 DEF HandlerStep, DispatchInline, DispatchHandOff, Suspend, EnqueueRequest, ProcessInline, Resumed,
                ResponseDone, FinishHere, LoopTakes, LoopOn, LoopDrops, TypeOK, RequestTypes
  <2> QED
    BY <2>1
<1> QED
  BY <1>1, <1>2, <1>3, <1>4, <1>5 DEF Within, Worker

\* What BodyWhole says, of one request at a time.
BodyFits(r) ==
  /\ Whole(body[r])
  /\ stage[r] # "new" <=> conn[r] = "handled"
  /\ conn[r] = "none" => body[r] = NewBody

ConnTypes == conn \in [Requests -> {"none", "reading", "handled", "upgraded", "closed"}] /\ body \in [Requests -> BodyType]

\* BodyWhole is that, and the types.
LEMMA BodyWholeIs == BodyWhole <=> ServerTypeOK /\ \A r \in Requests : BodyFits(r)
BY DEF BodyWhole, BodyFits, Whole

\* A call of the handler takes one request's connection and body on, and no other's.
LEMMA CallFits ==
  ASSUME TypeOK, ConnTypes, \A q \in Requests : BodyFits(q), NEW r \in Requests,
         FirstCall(r) \/ BodyPiece(r) \/ FinalCall(r) \/ Upgrade(r) \/ UpgradeEnds(r) \/ Abort(r)
  PROVE  ConnTypes' /\ \A q \in Requests : BodyFits(q)'
<1> USE DEF ConnTypes
<1>1. BodyFits(r) /\ body[r] \in BodyType
  OBVIOUS
<1>2. ASSUME NEW c \in {"none", "reading", "handled", "upgraded", "closed"}, NEW b \in BodyType,
             conn' = [conn EXCEPT ![r] = c], body' = [body EXCEPT ![r] = b],
             Whole(b), stage'[r] # "new" <=> c = "handled", c # "none",
             \A q \in Requests : q # r => stage'[q] = stage[q]
      PROVE  ConnTypes' /\ \A q \in Requests : BodyFits(q)'
  <2>1. ConnTypes'
    BY <1>2
  <2>2. conn'[r] = c /\ body'[r] = b /\ \A q \in Requests : q # r => conn'[q] = conn[q] /\ body'[q] = body[q]
    BY <1>2
  <2> QED
    BY <1>2, <2>1, <2>2 DEF BodyFits
<1>3. UNCHANGED body => body' = [body EXCEPT ![r] = body[r]]
  OBVIOUS
<1>4. UNCHANGED conn => conn' = [conn EXCEPT ![r] = conn[r]]
  OBVIOUS
<1>5. CASE FirstCall(r)
  <2>1. conn[r] = "none" /\ body[r] = NewBody /\ stage[r] = "new" /\ UNCHANGED stage
    BY <1>1, <1>5 DEF FirstCall, BodyFits, vars
  <2>2. CASE conn' = [conn EXCEPT ![r] = "closed"] /\ UNCHANGED body
    BY <1>1, <1>2, <1>3, <2>1, <2>2 DEF BodyFits
  <2>3. ASSUME NEW bad \in BOOLEAN, conn' = [conn EXCEPT ![r] = "reading"], body' = [body EXCEPT ![r].bad = bad]
        PROVE  ConnTypes' /\ \A q \in Requests : BodyFits(q)'
    <3>1. body' = [body EXCEPT ![r] = [NewBody EXCEPT !.bad = bad]]
      BY <2>1, <2>3
    <3>2. [NewBody EXCEPT !.bad = bad] \in BodyType /\ Whole([NewBody EXCEPT !.bad = bad])
      BY NewWhole
    <3> QED
      BY <1>2, <2>1, <2>3, <3>1, <3>2
  <2> QED
    BY <1>5, <2>2, <2>3 DEF FirstCall
<1>6. CASE BodyPiece(r)
  <2>1. conn[r] = "reading" /\ stage[r] = "new" /\ UNCHANGED <<stage, conn>> /\ body[r].sent < MaxPieces
    BY <1>1, <1>6 DEF BodyPiece, BodyFits, vars
  <2>2. PICK n \in 1 .. 2 : body' = [body EXCEPT ![r] = Taken(body[r], n)]
    BY <1>6 DEF BodyPiece
  <2>3. Taken(body[r], n) \in BodyType /\ Whole(Taken(body[r], n))
    BY <1>1, <2>1, TakenWhole DEF BodyFits
  <2> QED
    BY <1>2, <1>4, <2>1, <2>2, <2>3
<1>7. CASE FinalCall(r)
  <2>1. conn' = [conn EXCEPT ![r] = "handled"] /\ UNCHANGED body /\ stage' = [stage EXCEPT ![r] = "read"]
    BY <1>7 DEF FinalCall, Read, LoopTakes
  <2>2. stage'[r] = "read" /\ \A q \in Requests : q # r => stage'[q] = stage[q]
    BY <2>1 DEF TypeOK, RequestTypes
  <2> QED
    BY <1>1, <1>2, <1>3, <2>1, <2>2 DEF BodyFits
<1>8. CASE Upgrade(r)
  <2>1. conn[r] = "reading" /\ conn' = [conn EXCEPT ![r] = "upgraded"] /\ UNCHANGED <<stage, body>>
    BY <1>8 DEF Upgrade, vars
  <2> QED
    BY <1>1, <1>2, <1>3, <2>1 DEF BodyFits
<1>9. CASE UpgradeEnds(r) \/ Abort(r)
  <2>1. /\ conn[r] \in {"reading", "upgraded"} /\ conn' = [conn EXCEPT ![r] = "closed"]
        /\ body' = [body EXCEPT ![r] = NewBody] /\ UNCHANGED stage
    BY <1>9 DEF UpgradeEnds, Abort, Closes, vars
  <2>2. NewBody \in BodyType /\ Whole(NewBody)
    BY NewWhole
  <2> QED
    BY <1>1, <1>2, <2>1, <2>2 DEF BodyFits
<1> QED
  BY <1>5, <1>6, <1>7, <1>8, <1>9

\* The server's own variables have their types, but for the connections and bodies.
StopTypes ==
  /\ asked \in BOOLEAN
  /\ stopPc \in {"up", "waited", "closing", "down"}
  /\ patience \in {"none", "unopened", "through", "over"}

\* A step keeps them.
LEMMA StopTypesKeep == StopTypes /\ [ServerNext]_allVars => StopTypes'
<1> SUFFICES ASSUME StopTypes, [ServerNext]_allVars PROVE StopTypes'
  OBVIOUS
<1>1. ASSUME NEW w \in Workers, PoolWorker(w) PROVE StopTypes'
  BY <1>1 DEF PoolWorker, Serve, StreamResponse, serverVars, handlerVars, StopTypes
<1>2. ASSUME NEW r \in Requests, IoThread(r) PROVE StopTypes'
  BY <1>2 DEF IoThread, Abort, Closes, ServeInline, StreamResponse, Answer, Completed, Elsewhere, Reads, serverVars,
              handlerVars, StopTypes
<1>3. ASSUME NEW r \in Requests, FirstCall(r) \/ BodyPiece(r) \/ FinalCall(r) \/ Upgrade(r) \/ UpgradeEnds(r)
      PROVE  StopTypes'
  BY <1>3 DEF FirstCall, BodyPiece, FinalCall, Upgrade, UpgradeEnds, Closes, StopTypes
<1>4. CASE MainThread \/ Writes
  BY <1>4 DEF MainThread, Writes, WaitEnds, StopDaemon, Stopped, serverVars, handlerVars, StopTypes
<1>5. CASE UNCHANGED serverVars
  BY <1>5 DEF serverVars, handlerVars, StopTypes
<1> QED
  BY <1>1, <1>2, <1>3, <1>4, <1>5 DEF ServerNext, allVars

\* Every step of the server keeps the bodies whole.
LEMMA WholeKeeps == PoolInv /\ BodyWhole /\ [ServerNext]_allVars => BodyWhole'
<1> SUFFICES ASSUME PoolInv, BodyWhole, [ServerNext]_allVars PROVE BodyWhole'
  OBVIOUS
<1>1. TypeOK /\ Placed /\ ConnTypes /\ StopTypes /\ \A r \in Requests : BodyFits(r)
  BY BodyWholeIs DEF PoolInv, ServerTypeOK, ConnTypes, StopTypes, BodyType
<1>2. StopTypes'
  BY <1>1, StopTypesKeep
<1>3. ConnTypes' /\ \A q \in Requests : BodyFits(q)'
  <2>1. CASE \E r \in Requests : FirstCall(r) \/ BodyPiece(r) \/ FinalCall(r) \/ Upgrade(r) \/ UpgradeEnds(r) \/ Abort(r)
    BY <1>1, <2>1, CallFits
  <2>2. CASE UNCHANGED <<conn, body>> /\ ~\E r \in Requests : FinalCall(r)
    <3>1. \A q \in Requests : stage'[q] = "new" <=> stage[q] = "new"
      BY <1>1, <2>2, PoolStep, NewWithin
    <3> QED
      BY <1>1, <2>2, <3>1 DEF ConnTypes, BodyFits, Whole
  <2> QED
    BY <2>1, <2>2, HandlerMoves
<1>4. ServerTypeOK'
  BY <1>2, <1>3 DEF ServerTypeOK, ConnTypes, StopTypes, BodyType
<1> QED
  BY <1>3, <1>4 DEF BodyWhole, BodyFits, Whole

\* A service routine is given the body that was sent, whole and in order and within
\* corRestMaxRequestSize, or its request is answered by an error; and the pool has
\* the requests whose final call was made, no other (corRestBackendMhd.c,
\* mhdConnectionHandler).
THEOREM BodiesWhole == ServerSpec => []BodyWhole
<1>1. ServerInit => BodyWhole
  <2> SUFFICES ASSUME ServerInit PROVE BodyWhole
    OBVIOUS
  <2>1. NewBody \in BodyType /\ Whole(NewBody)
    BY NewWhole
  <2>2. /\ conn = [r \in Requests |-> "none"] /\ body = [r \in Requests |-> NewBody]
        /\ \A r \in Requests : stage[r] = "new"
    BY DEF ServerInit, Init
  <2>3. asked \in BOOLEAN /\ stopPc = "up" /\ patience = "none"
    BY DEF ServerInit
  <2> HIDE DEF NewBody
  <2>4. conn \in [Requests -> {"none", "reading", "handled", "upgraded", "closed"}] /\ body \in [Requests -> BodyType]
    BY <2>1, <2>2
  <2>5. \A r \in Requests : BodyFits(r)
    BY <2>1, <2>2 DEF BodyFits
  <2> QED
    BY <2>3, <2>4, <2>5, BodyWholeIs DEF ServerTypeOK, BodyType
<1>2. PoolInv /\ BodyWhole /\ [ServerNext]_allVars => BodyWhole'
  BY WholeKeeps
<1> QED
  BY <1>1, <1>2, ServerPool, PTL DEF ServerSpec

\* A worker resumes no connection but one the handler has suspended, in the server too.
THEOREM ServerResumesSuspended == ServerSpec => []ResumesSuspended
<1>1. TypeOK /\ Placed => ResumesSuspended
  BY DEF TypeOK, PoolTypes, Placed, WorkerHolds, Progress, ResumesSuspended
<1> QED
  BY <1>1, ServerPool, PTL DEF PoolInv

-----------------------------------------------------------------------------
(* The stop                                                                *)

\* What holds of the stop beside StopSafe: the daemon's comes after the pool's, and
\* when it has begun no request is at the handler on its way to the pool.
StopOrder ==
  /\ stopPc # "up" => mainPc = "stopped"
  /\ stopPc \in {"closing", "down"} => \A r \in Requests : stage[r] \notin {"read", "handoff", "suspended"}
  /\ stopPc = "down" => \A r \in Requests : stage[r] \in {"new", "freed"}
  /\ patience = "through" => opened # "no" /\ streams = 0
  /\ \A r \in Requests : suspended[r] => stage[r] \in {"suspended", "queued", "running", "processed"}

Early == {"read", "handoff", "suspended"}

SuspendedHeld == \A r \in Requests : suspended[r] => stage[r] \in {"suspended", "queued", "running", "processed"}

\* A worker's step takes no request back to its handler, and resumes what it leaves.
LEMMA WorkerLeaves ==
  ASSUME TypeOK, Placed, SuspendedHeld, NEW w \in Workers, Worker(w) \/ SpuriousWakeup(w)
  PROVE  SuspendedHeld' /\ \A r \in Requests : stage'[r] \in Early => stage[r] \in Early
<1> USE DEF SuspendedHeld, Early
<1>1. CASE Lock(w) \/ TestWait(w) \/ TestExit(w) \/ CondWait(w) \/ SpuriousWakeup(w)
  BY <1>1 DEF Lock, TestWait, TestExit, CondWait, SpuriousWakeup, reqVars
<1>2. CASE TestPop(w)
  <2> DEFINE q == queue[WorkerShard(w)]
  <2>1. WorkerShard(w) \in ShardIds /\ q \in Seq(Requests) /\ q # <<>>
    BY <1>2, ShardsExist DEF TestPop, TypeOK, PoolTypes
  <2>2. Head(q) = q[1] /\ Head(q) \in Requests /\ 1 \in 1 .. Len(q)
    BY <2>1
  <2>3. stage[Head(q)] \in QueueStages
    BY <2>1, <2>2 DEF Placed, QueueHolds
  <2>4. asyncFinishing[Head(q)] <=> stage[Head(q)] = "finishQueued"
    BY <2>2, <2>3 DEF Placed, Progress, QueueStages
  <2>5. /\ stage'[Head(q)] = IF asyncFinishing[Head(q)] THEN "finishing" ELSE "running"
        /\ \A p \in Requests : p # Head(q) => stage'[p] = stage[p]
        /\ UNCHANGED suspended
    BY <1>2, <2>2 DEF TestPop, TypeOK, RequestTypes
  <2> HIDE DEF q
  <2> QED
    BY <2>2, <2>3, <2>4, <2>5 DEF QueueStages
<1>3. CASE ServeFinish(w)
  <2>1. cur[w] \in Requests /\ stage[cur[w]] = "finishing"
    BY <1>3 DEF ServeFinish, WorkerTo, Placed, WorkerHolds, TypeOK, PoolTypes
  <2>2. /\ stage'[cur[w]] = "freed" /\ \A p \in Requests : p # cur[w] => stage'[p] = stage[p]
        /\ UNCHANGED suspended
    BY <1>3, <2>1 DEF ServeFinish, TypeOK, RequestTypes
  <2> QED
    BY <2>1, <2>2
<1>4. CASE ServeProcess(w)
  <2>1. cur[w] \in Requests
    BY <1>4 DEF ServeProcess, WorkerTo, Placed, WorkerHolds, TypeOK, PoolTypes
  <2>2. /\ stage'[cur[w]] = "processed" /\ \A p \in Requests : p # cur[w] => stage'[p] = stage[p]
        /\ UNCHANGED suspended
    BY <1>4, <2>1 DEF ServeProcess, TypeOK, RequestTypes
  <2> QED
    BY <2>1, <2>2
<1>5. CASE Resume(w)
  <2>1. cur[w] \in Requests
    BY <1>5 DEF Resume, WorkerTo, Placed, WorkerHolds, TypeOK, PoolTypes
  <2>2. /\ stage'[cur[w]] = "resumed" /\ \A p \in Requests : p # cur[w] => stage'[p] = stage[p]
        /\ ~suspended'[cur[w]] /\ \A p \in Requests : p # cur[w] => suspended'[p] = suspended[p]
    BY <1>5, <2>1 DEF Resume, TypeOK, RequestTypes
  <2> QED
    BY <2>1, <2>2
<1> QED
  BY <1>1, <1>2, <1>3, <1>4, <1>5 DEF Worker

\* Nor does a step of the handler's thread take one that had left it back.
LEMMA LoopLeaves ==
  ASSUME TypeOK, Placed, SuspendedHeld, NEW r \in Requests, HandlerStep(r)
  PROVE  SuspendedHeld' /\ \A q \in Requests : stage'[q] \in Early => stage[q] \in Early
<1> USE DEF SuspendedHeld, Early
<1>2. CASE Suspend(r)
  <2>1. /\ stage[r] = "handoff" /\ stage'[r] = "suspended" /\ \A q \in Requests : q # r => stage'[q] = stage[q]
        /\ \A q \in Requests : q # r => suspended'[q] = suspended[q]
    BY <1>2 DEF Suspend, LoopOn, TypeOK, RequestTypes
  <2> QED
    BY <2>1
<1>4. CASE EnqueueRequest(r)
  <2>1. /\ stage[r] = "suspended" /\ stage'[r] = "queued" /\ \A q \in Requests : q # r => stage'[q] = stage[q]
        /\ UNCHANGED suspended
    BY <1>4 DEF EnqueueRequest, LoopDrops, TypeOK, RequestTypes
  <2> QED
    BY <2>1
<1>5. CASE Resumed(r)
  <2>1. /\ stage[r] = "resumed" /\ \A q \in Requests : q # r => stage'[q] = stage[q]
        /\ UNCHANGED suspended /\ (~asyncProcessed[r] \/ stage'[r] = "sending")
    BY <1>5 DEF Resumed, LoopTakes, TypeOK, RequestTypes
  <2>2. asyncProcessed[r]
    BY <2>1 DEF Placed, Progress
  <2> QED
    BY <2>1, <2>2
<1>6. CASE DispatchInline(r) \/ DispatchHandOff(r) \/ ProcessInline(r) \/ ResponseDone(r) \/ FinishHere(r)
  <2>1. /\ UNCHANGED suspended /\ \A q \in Requests : q # r => stage'[q] = stage[q]
        /\ stage[r] \notin {"suspended", "queued", "running", "processed"}
        /\ stage'[r] \in Early => stage[r] \in Early
    BY <1>6 DEF DispatchInline, DispatchHandOff, ProcessInline, ResponseDone, FinishHere,
                LoopTakes, LoopOn, LoopDrops, TypeOK, RequestTypes
  <2> QED
    BY <2>1
<1> QED
  BY <1>2, <1>4, <1>5, <1>6 DEF HandlerStep

\* Together: after the stop of the daemon has begun, no request comes back to its handler.
LEMMA WithinLeaves ==
  ASSUME TypeOK, Placed, SuspendedHeld, Within
  PROVE  SuspendedHeld' /\ \A q \in Requests : stage'[q] \in Early => stage[q] \in Early
<1>1. CASE Main \/ Stop \/ UNCHANGED vars
  BY <1>1 DEF Main, StartWorker, StartDone, StartFailed, Stop, StopShard, StopJoin, Joined, reqVars, vars, SuspendedHeld
<1> QED
  BY <1>1, WorkerLeaves, LoopLeaves DEF Within

\* A freed request stays freed.
LEMMA FreedStays ==
  ASSUME TypeOK, Placed, [Next]_vars, NEW r \in Requests, stage[r] = "freed"
  PROVE  stage'[r] = "freed"
<1>1. ASSUME NEW q \in Requests, NEW to \in Stages, stage' = [stage EXCEPT ![q] = to],
             Onward(PhaseAt(stage[q]), PhaseAt(to))
      PROVE  stage'[r] = "freed"
  <2>1. CASE q = r
    <3>1. PhaseAt(to) = "finished"
      BY <1>1, <2>1 DEF PhaseAt, Onward
    <3>2. to = "freed"
      BY <3>1 DEF PhaseAt
    <3> QED
      BY <1>1, <2>1, <3>2 DEF TypeOK, RequestTypes
  <2>2. CASE q # r
    BY <1>1, <2>2 DEF TypeOK, RequestTypes
  <2> QED
    BY <2>1, <2>2
<1> QED
  BY <1>1, StageMoves

\* A stream that is over stays over, and none is opened twice.
LEMMA StreamOver ==
  ASSUME StreamParts, [ServerNext]_allVars, opened # "no", streams = 0
  PROVE  opened' # "no" /\ streams' = 0
<1>1. mhd # "active"
  BY DEF StreamParts, S!ReferencesHeld
<1>2. UNCHANGED <<opened, streams>>
  BY <1>1, StreamStep DEF S!Queue, S!Reader, S!ReadEnds, S!ReadTakes, S!ReadSuspends, S!DestroyRelease, S!GiveUp,
                          S!Writer, S!Write, S!Probe, S!End, S!EndRelease, streamVars
<1> QED
  BY <1>2

\* The stop of the daemon begins when nobody is in its handler, and ends when no request is left.
LEMMA StopMoves ==
  ASSUME PoolInv, BodyWhole, StreamInv, [ServerNext]_allVars
  PROVE  /\ \/ UNCHANGED stopPc
            \/ stopPc' = "waited" /\ stopPc = "up" /\ mainPc = "stopped" /\ UNCHANGED stage
            \/ /\ stopPc' = "closing" /\ stopPc = "waited" /\ UNCHANGED stage
               /\ \A r \in Requests : stage[r] \notin LoopStages
            \/ /\ stopPc' = "down" /\ stopPc = "closing" /\ UNCHANGED stage
               /\ \A r \in Requests : stage[r] \in {"new", "freed"}
         /\ patience' = "through" => patience = "through" \/ (opened # "no" /\ streams = 0 /\ UNCHANGED <<opened, streams>>)
<1>1. ASSUME NEW w \in Workers, PoolWorker(w) PROVE UNCHANGED <<stopPc, patience>>
  BY <1>1 DEF PoolWorker, Serve, serverVars, handlerVars
<1>2. ASSUME NEW r \in Requests, IoThread(r) PROVE UNCHANGED <<stopPc, patience>>
  BY <1>2 DEF IoThread, Abort, Closes, ServeInline, Answer, Completed, Elsewhere, Reads, serverVars, handlerVars
<1>3. ASSUME NEW r \in Requests, FirstCall(r) \/ BodyPiece(r) \/ FinalCall(r) \/ Upgrade(r) \/ UpgradeEnds(r)
      PROVE  UNCHANGED <<stopPc, patience>>
  BY <1>3 DEF FirstCall, BodyPiece, FinalCall, Upgrade, UpgradeEnds, Closes
<1>4. CASE UNCHANGED serverVars \/ Writes
  BY <1>4 DEF Writes, serverVars, handlerVars
<1>5. CASE WaitEnds
  <2>1. /\ stopPc' = "waited" /\ stopPc = "up" /\ mainPc = "stopped" /\ UNCHANGED <<stage, opened, streams>>
        /\ patience' = IF streams > 0 THEN "over" ELSE IF opened = "no" THEN "unopened" ELSE "through"
    BY <1>5 DEF WaitEnds, vars, streamVars
  <2>2. streams \in 0 .. 1
    BY DEF StreamInv, S!StreamInv, S!TypeOK, S!Contents
  <2> QED
    BY <2>1, <2>2
<1>6. CASE StopDaemon
  <2>1. \A r \in Requests : busy[LoopOf[r]] = NoReq
    BY <1>6 DEF StopDaemon, Free
  <2>2. \A r \in Requests : stage[r] \notin LoopStages
    BY <2>1, PoolAssumption DEF PoolInv, Placed, LoopHolds
  <2> QED
    BY <1>6, <2>2 DEF StopDaemon, vars
<1>7. CASE Stopped
  <2>1. \A r \in Requests : stage[r] # "new" <=> conn[r] = "handled"
    BY DEF BodyWhole
  <2>2. \A r \in Requests : conn[r] \in {"none", "closed"} \/ stage[r] = "freed"
    BY <1>7 DEF Stopped, Over
  <2> QED
    BY <1>7, <2>1, <2>2 DEF Stopped, vars
<1> QED
  BY <1>1, <1>2, <1>3, <1>4, <1>5, <1>6, <1>7 DEF ServerNext, MainThread, allVars

\* Every step keeps the order of the stop.
LEMMA OrderKeeps ==
  PoolInv /\ BodyWhole /\ StreamInv /\ StopOrder /\ [ServerNext]_allVars => StopOrder'
<1> SUFFICES ASSUME PoolInv, BodyWhole, StreamInv, StopOrder, [ServerNext]_allVars PROVE StopOrder'
  OBVIOUS
<1>1. TypeOK /\ Placed /\ SuspendedHeld /\ StreamParts /\ [Next]_vars
  BY PoolNext DEF PoolInv, StreamInv, S!StreamInv, S!TypeOK, StreamParts, StopOrder, SuspendedHeld
<1>2. mainPc = "stopped" => mainPc' = "stopped"
  BY <1>1 DEF Next, Main, StartWorker, StartDone, StartFailed, Stop, StopShard, StopJoin, Joined, vars, poolVars,
              Worker, Lock, TestWait, TestExit, TestPop, CondWait, ServeFinish, ServeProcess, Resume, SpuriousWakeup,
              Read, LoopStep, DispatchInline, DispatchHandOff, Suspend, StartCoroutine, CorHere, EnqueueRequest,
              ProcessInline, ProcessCo, Resumed, ResponseDone, FinishInline, FinishCoroutine, FinishHandOff,
              EnqueueFinish, FinishHere, FinishCoEnd, Enqueue
<1>3. (stopPc # "up" => mainPc = "stopped")' 
  BY <1>2, StopMoves DEF StopOrder
<1>4. ASSUME NEW q \in Requests, FinalCall(q)
      PROVE  /\ stopPc' \in {"up", "waited"}
             /\ SuspendedHeld'
  <2>1. stopPc \in {"up", "waited"} /\ UNCHANGED stopPc
    BY <1>4 DEF FinalCall, Open
  <2>2. stage[q] = "new" /\ UNCHANGED suspended /\ \A r \in Requests : r # q => stage'[r] = stage[r]
    BY <1>1, <1>4 DEF FinalCall, Read, LoopTakes, TypeOK, RequestTypes
  <2> QED
    BY <1>1, <2>1, <2>2 DEF SuspendedHeld
<1>5. SuspendedHeld'
  BY <1>1, <1>4, PoolStep, WithinLeaves
<1>6. (stopPc \in {"closing", "down"} => \A r \in Requests : stage[r] \notin Early)'
  <2>1. CASE Within /\ UNCHANGED stopPc
    BY <1>1, <2>1, WithinLeaves DEF StopOrder, Early
  <2>2. CASE ~UNCHANGED stopPc
    BY <2>2, StopMoves DEF StopOrder, Early, LoopStages
  <2> QED
    BY <1>4, <2>1, <2>2, PoolStep
<1>7. (stopPc = "down" => \A r \in Requests : stage[r] \in {"new", "freed"})'
  <2>1. CASE Within /\ UNCHANGED stopPc
    BY <1>1, <2>1, NewWithin, FreedStays DEF StopOrder
  <2>2. CASE ~UNCHANGED stopPc
    BY <2>2, StopMoves DEF StopOrder
  <2> QED
    BY <1>4, <2>1, <2>2, PoolStep
<1>8. (patience = "through" => opened # "no" /\ streams = 0)'
  BY <1>1, StopMoves, StreamOver DEF StopOrder
<1> QED
  BY <1>3, <1>5, <1>6, <1>7, <1>8 DEF StopOrder, SuspendedHeld, Early

\* It is what StopSafe needs of the state.
LEMMA StopSafeHolds ==
  ASSUME PoolInv, StreamInv, StopOrder
  PROVE  StopSafe
<1>1. ASSUME stopPc \in {"closing", "down"}, NEW r \in Requests, suspended[r] PROVE r \in late
  <2>1. stage[r] \in {"queued", "running", "processed"} /\ mainPc = "stopped"
    BY <1>1 DEF StopOrder
  <2> QED
    BY <2>1, LeftInPool DEF PoolInv, QueueStages, WorkerStages
<1>2. mhd = "suspended" => app = "writes"
  BY DEF StreamInv, S!StreamInv, S!SuspendedIdle, S!ReferencesHeld
<1> QED
  BY <1>1, <1>2 DEF StopSafe, StopOrder

\* corRestStop stops libmicrohttpd when no connection is suspended - neither by the
\* handler, but for a request queued too late, nor by a stream its application has
\* ended - and frees the service tables when no request uses them
\* (corRestStop.c, corRestBackendStop).
THEOREM StopIsSafe == ServerSpec => []StopSafe
<1>1. ServerInit => StopOrder
  BY DEF ServerInit, Init, StopOrder
<1>2. PoolInv /\ BodyWhole /\ StreamInv /\ StopOrder /\ [ServerNext]_allVars => StopOrder'
  BY OrderKeeps
<1>3. PoolInv /\ StreamInv /\ StopOrder => StopSafe
  BY StopSafeHolds
<1> QED
  BY <1>1, <1>2, <1>3, ServerPool, BodiesWhole, StreamSound, PTL DEF ServerSpec
=============================================================================
