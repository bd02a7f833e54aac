------------------------- MODULE CorServerConn_proofs -------------------------
(***************************************************************************)
(* Proofs about CorServerConn, for any connections and requests: a         *)
(* connection's references are exactly its holders, nobody touches one     *)
(* that was freed, the memory of its requests goes with it, and a          *)
(* dedicated one is its thread's alone to write to.                        *)
(*                                                                         *)
(* A coroutine resumed between two events of a batch (ResumeAtEvent) may   *)
(* let the connection die that a later one names.  Such an event is stale; *)
(* where coroutines are resumed only between two batches there is none.    *)
(***************************************************************************)
EXTENDS CorServerConn, FiniteSetTheorems, TLAPS

-----------------------------------------------------------------------------
(* One connection: what its record says, of how many                       *)

Bit(b) == IF b THEN 1 ELSE 0

\* c has the references and the memory that held (the loop), h (its requests)
\* and m (those with memory) account for.
Fits(c, held, h, m) ==
  /\ c \in ConnTypes
  /\ c.refs = Bit(~c.dead /\ c.thread # "ended") + held + h
  /\ c.freed = (c.refs = 0)
  /\ c.mems = m + Bit(c.spare)
  /\ c.freed => c.mems = 0
  /\ c.thread # "none" => c.dedicated /\ ~c.dead
  /\ ~c.dead => (c.watch <=> c.out > 0)

\* The rest of a connection, that its lifetime leaves alone.
Same(c, d) == d.dedicated = c.dedicated /\ d.thread = c.thread /\ d.pending = c.pending

\* What the code's helpers make of a connection, field by field.
LEMMA ConnFields ==
  ASSUME NEW c \in ConnTypes
  PROVE  /\ c.refs \in Nat /\ c.dead \in BOOLEAN /\ c.dedicated \in BOOLEAN /\ c.pending \in Nat
         /\ c.out \in Nat /\ c.watch \in BOOLEAN /\ c.spare \in BOOLEAN /\ c.mems \in Nat
         /\ c.freed \in BOOLEAN /\ c.thread \in {"none", "serves", "reads", "ended"}
BY DEF ConnTypes

\* connUnref, of a connection somebody holds.
LEMMA UnrefFields ==
  ASSUME NEW c \in ConnTypes, c.refs > 0, c.spare => c.mems > 0
  PROVE  LET d == Unref(c) IN
         /\ d \in ConnTypes /\ d.refs = c.refs - 1
         /\ d.dead = c.dead /\ d.dedicated = c.dedicated /\ d.pending = c.pending /\ d.out = c.out
         /\ d.watch = c.watch /\ d.thread = c.thread
         /\ c.refs > 1 => d.freed = c.freed /\ d.mems = c.mems /\ d.spare = c.spare
         /\ c.refs = 1 => d.freed /\ ~d.spare /\ d.mems = c.mems - Bit(c.spare)
<1> DEFINE d == Unref(c)
<1>1. CASE c.refs # 1
  <2>1. d = [c EXCEPT !.refs = c.refs - 1] /\ c.refs - 1 \in Nat
    BY <1>1 DEF Unref, ConnTypes
  <2> HIDE DEF d
  <2>2. d \in ConnTypes
    BY <2>1 DEF ConnTypes
  <2> QED
    BY <1>1, <2>1, <2>2 DEF ConnTypes, Bit, d
<1>2. CASE c.refs = 1 /\ c.spare
  <2>1. d = [c EXCEPT !.refs = 0, !.freed = TRUE, !.spare = FALSE, !.mems = c.mems - 1] /\ c.mems - 1 \in Nat
    BY <1>2 DEF Unref, ConnTypes
  <2> HIDE DEF d
  <2>2. d \in ConnTypes
    BY <2>1 DEF ConnTypes
  <2> QED
    BY <1>2, <2>1, <2>2 DEF ConnTypes, Bit, d
<1>3. CASE c.refs = 1 /\ ~c.spare
  <2>1. d = [c EXCEPT !.refs = 0, !.freed = TRUE, !.spare = FALSE, !.mems = c.mems]
    BY <1>3 DEF Unref, ConnTypes
  <2> HIDE DEF d
  <2>2. d \in ConnTypes
    BY <2>1 DEF ConnTypes
  <2> QED
    BY <1>3, <2>1, <2>2 DEF ConnTypes, Bit, d
<1> QED
  BY <1>1, <1>2, <1>3

\* reqGet.
LEMMA GotFields ==
  ASSUME NEW c \in ConnTypes
  PROVE  LET d == Got(c) IN
         /\ d \in ConnTypes /\ d.refs = c.refs + 1 /\ d.freed = c.freed
         /\ ~d.spare /\ d.mems = c.mems + 1 - Bit(c.spare)
         /\ d.dead = c.dead /\ d.watch = c.watch /\ d.out = c.out /\ Same(c, d)
<1> DEFINE d == Got(c)
<1>1. CASE c.spare
  <2>1. /\ d = [c EXCEPT !.refs = c.refs + 1, !.spare = FALSE, !.mems = c.mems]
        /\ c.refs + 1 \in Nat /\ c.mems \in Nat
    BY <1>1 DEF Got, ConnTypes
  <2> HIDE DEF d
  <2>2. d \in ConnTypes
    BY <2>1 DEF ConnTypes
  <2> QED
    BY <1>1, <2>1, <2>2 DEF ConnTypes, Bit, Same, d
<1>2. CASE ~c.spare
  <2>1. /\ d = [c EXCEPT !.refs = c.refs + 1, !.spare = FALSE, !.mems = c.mems + 1]
        /\ c.refs + 1 \in Nat /\ c.mems + 1 \in Nat
    BY <1>2 DEF Got, ConnTypes
  <2> HIDE DEF d
  <2>2. d \in ConnTypes
    BY <2>1 DEF ConnTypes
  <2> QED
    BY <1>2, <2>1, <2>2 DEF ConnTypes, Bit, Same, d
<1> QED
  BY <1>1, <1>2

\* The first half of reqRelease, of a request that has memory.
LEMMA SparedFields ==
  ASSUME NEW c \in ConnTypes, c.mems > 0
  PROVE  LET d == Spared(c) IN
         /\ d \in ConnTypes /\ d.refs = c.refs /\ d.freed = c.freed
         /\ d.spare /\ d.mems = c.mems - Bit(c.spare)
         /\ d.dead = c.dead /\ d.watch = c.watch /\ d.out = c.out /\ Same(c, d)
<1> DEFINE d == Spared(c)
<1>1. CASE c.spare
  <2>1. d = [c EXCEPT !.mems = c.mems - 1] /\ c.mems - 1 \in Nat
    BY <1>1 DEF Spared, ConnTypes
  <2> HIDE DEF d
  <2>2. d \in ConnTypes
    BY <2>1 DEF ConnTypes
  <2> QED
    BY <1>1, <2>1, <2>2 DEF ConnTypes, Bit, Same, d
<1>2. CASE ~c.spare
  <2>1. d = [c EXCEPT !.spare = TRUE]
    BY <1>2 DEF Spared, ConnTypes
  <2> HIDE DEF d
  <2>2. d \in ConnTypes
    BY <2>1 DEF ConnTypes
  <2> QED
    BY <1>2, <2>1, <2>2 DEF ConnTypes, Bit, Same, d
<1> QED
  BY <1>1, <1>2

\* A reference that is not the connection's own is dropped: a request's.
LEMMA UnrefOfRequest ==
  ASSUME NEW c, NEW held \in Nat, NEW h \in Nat, NEW m \in Nat, m <= h,
         Fits(c, held, h + 1, m)
  PROVE  /\ Fits(Unref(c), held, h, m)
         /\ Same(c, Unref(c)) /\ Unref(c).out = c.out /\ Unref(c).dead = c.dead
<1>1. c.refs > 0 /\ (c.spare => c.mems > 0)
  BY ConnFields DEF Fits, Bit
<1> QED
  BY <1>1, ConnFields, UnrefFields DEF Fits, Bit, Same

\* Or the loop's, at the end of an event.
LEMMA UnrefOfLoop ==
  ASSUME NEW c, NEW h \in Nat, NEW m \in Nat, m <= h, Fits(c, 1, h, m)
  PROVE  /\ Fits(Unref(c), 0, h, m)
         /\ Same(c, Unref(c)) /\ Unref(c).out = c.out /\ Unref(c).dead = c.dead
<1>1. c.refs > 0 /\ (c.spare => c.mems > 0)
  BY ConnFields DEF Fits, Bit
<1> QED
  BY <1>1, ConnFields, UnrefFields DEF Fits, Bit, Same

\* A connection that has just died lets go of its own reference.
LEMMA DropOwnFits ==
  ASSUME NEW x \in ConnTypes, NEW held \in Nat, NEW h \in Nat, NEW m \in Nat, m <= h,
         x.dead, x.thread = "none", x.refs = 1 + held + h, ~x.freed, x.mems = m + Bit(x.spare)
  PROVE  Fits(Unref(x), held, h, m) /\ Same(x, Unref(x)) /\ Unref(x).out = x.out
<1>1. x.refs > 0 /\ (x.spare => x.mems > 0)
  BY ConnFields DEF Bit
<1> QED
  BY <1>1, ConnFields, UnrefFields DEF Fits, Bit, Same

\* A connection that is still the loop's dies.
LEMMA DieFits ==
  ASSUME NEW c, NEW held \in Nat, NEW h \in Nat, NEW m \in Nat, m <= h,
         Fits(c, held, h, m), c.thread = "none"
  PROVE  Fits(Die(c), held, h, m) /\ Same(c, Die(c)) /\ Die(c).out = c.out
<1>1. CASE c.dead
  BY <1>1 DEF Die, Same
<1>2. CASE ~c.dead
  <2> DEFINE e == [c EXCEPT !.dead = TRUE]
  <2>1. Die(c) = Unref(e)
    BY <1>2 DEF Die
  <2>2. /\ e \in ConnTypes /\ e.dead /\ e.refs = c.refs /\ e.mems = c.mems /\ e.spare = c.spare
        /\ e.freed = c.freed /\ Same(c, e) /\ e.out = c.out
    BY DEF Fits, ConnTypes, Same
  <2> HIDE DEF e
  <2>3. e.refs = 1 + held + h /\ ~e.freed /\ e.mems = m + Bit(e.spare) /\ e.thread = "none"
    BY <1>2, <2>2, ConnFields DEF Fits, Bit, Same
  <2> QED
    BY <2>1, <2>2, <2>3, DropOwnFits DEF Same
<1> QED
  BY <1>1, <1>2

\* The thread of a dedicated connection ends, and drops its own reference.
LEMMA EndFits ==
  ASSUME NEW c, NEW held \in Nat, NEW h \in Nat, NEW m \in Nat, m <= h,
         Fits(c, held, h, m), c.thread = "reads"
  PROVE  LET d == [Unref(c) EXCEPT !.thread = "ended"]
         IN  Fits(d, held, h, m) /\ d.dedicated = c.dedicated /\ d.pending = c.pending /\ d.out = c.out
<1> DEFINE u == Unref(c)
           d == [u EXCEPT !.thread = "ended"]
<1>1. c.refs > 0 /\ (c.spare => c.mems > 0)
  BY ConnFields DEF Fits, Bit
<1>2. u \in ConnTypes /\ c \in ConnTypes
  BY <1>1, UnrefFields DEF Fits
<1> HIDE DEF u
<1>3. /\ d \in ConnTypes /\ d.thread = "ended" /\ d.refs = u.refs /\ d.mems = u.mems /\ d.spare = u.spare
      /\ d.freed = u.freed /\ d.dead = u.dead /\ d.watch = u.watch /\ d.out = u.out
      /\ d.dedicated = u.dedicated /\ d.pending = u.pending
  BY <1>2 DEF ConnTypes
<1> HIDE DEF d
<1>4. Fits(d, held, h, m) /\ d.dedicated = c.dedicated /\ d.pending = c.pending /\ d.out = c.out
  BY <1>1, <1>2, <1>3, ConnFields, UnrefFields DEF Fits, Bit, u
<1> QED
  BY <1>4 DEF d, u

\* A request takes its reference and its memory.
LEMMA GotFits ==
  ASSUME NEW c, NEW held \in Nat, NEW h \in Nat, NEW m \in Nat, Fits(c, held, h, m), ~c.freed
  PROVE  /\ Fits(Got(c), held, h + 1, m + 1)
         /\ Same(c, Got(c)) /\ Got(c).out = c.out /\ Got(c).dead = c.dead
BY ConnFields, GotFields DEF Fits, Bit, Same

\* A request's memory becomes the spare, or goes.
LEMMA SparedFits ==
  ASSUME NEW c, NEW held \in Nat, NEW h \in Nat, NEW m \in Nat, m < h, Fits(c, held, h, m + 1)
  PROVE  /\ Fits(Spared(c), held, h, m)
         /\ Same(c, Spared(c)) /\ Spared(c).out = c.out /\ Spared(c).dead = c.dead
<1>1. c.mems > 0
  BY ConnFields DEF Fits, Bit
<1> QED
  BY <1>1, ConnFields, SparedFields DEF Fits, Bit, Same

\* Nothing is queued any more, or something is, and the loop waits for EPOLLOUT.
LEMMA OutNone ==
  ASSUME NEW c, NEW held \in Nat, NEW h \in Nat, NEW m \in Nat, Fits(c, held, h, m),
         NEW d, d = [c EXCEPT !.out = 0, !.watch = FALSE]
  PROVE  Fits(d, held, h, m) /\ Same(c, d)
<1>1. /\ d \in ConnTypes /\ d.thread = c.thread /\ d.refs = c.refs /\ d.mems = c.mems /\ d.spare = c.spare
      /\ d.freed = c.freed /\ d.dead = c.dead /\ ~d.watch /\ d.out = 0
      /\ d.dedicated = c.dedicated /\ d.pending = c.pending
  BY DEF Fits, ConnTypes
<1> QED
  BY <1>1 DEF Fits, Same

\* The other case of it.
LEMMA OutSome ==
  ASSUME NEW c, NEW held \in Nat, NEW h \in Nat, NEW m \in Nat, Fits(c, held, h, m),
         NEW n \in Nat, n > 0, NEW d, d = [c EXCEPT !.out = n, !.watch = TRUE]
  PROVE  Fits(d, held, h, m) /\ Same(c, d)
<1>1. /\ d \in ConnTypes /\ d.thread = c.thread /\ d.refs = c.refs /\ d.mems = c.mems /\ d.spare = c.spare
      /\ d.freed = c.freed /\ d.dead = c.dead /\ d.watch /\ d.out = n
      /\ d.dedicated = c.dedicated /\ d.pending = c.pending
  BY DEF Fits, ConnTypes
<1> QED
  BY <1>1 DEF Fits, Same

\* A flush of what is queued, and one more response queued, on a connection
\* that is the loop's.
LEMMA FlushedFits ==
  ASSUME NEW c, NEW held \in Nat, NEW h \in Nat, NEW m \in Nat, m <= h,
         Fits(c, held, h, m), c.thread = "none", NEW d \in Flushed(c)
  PROVE  Fits(d, held, h, m) /\ Same(c, d)
<1>1. CASE d = [c EXCEPT !.out = 0, !.watch = FALSE]
  BY <1>1, OutNone
<1>2. ASSUME NEW n \in 1 .. c.out, d = [c EXCEPT !.out = n, !.watch = TRUE]
      PROVE  Fits(d, held, h, m) /\ Same(c, d)
  <2>1. n \in Nat /\ n > 0
    BY ConnFields DEF Fits
  <2> QED
    BY <1>2, <2>1, OutSome
<1>3. CASE d = Die(c)
  BY <1>3, DieFits
<1> QED
  BY <1>1, <1>2, <1>3 DEF Flushed

\* One more response: the queue is flushed right away, unless it waits for
\* EPOLLOUT already.
LEMMA QueuedFits ==
  ASSUME NEW c, NEW held \in Nat, NEW h \in Nat, NEW m \in Nat, m <= h,
         Fits(c, held, h, m), c.thread = "none", NEW d \in Queued(c)
  PROVE  Fits(d, held, h, m) /\ Same(c, d)
<1> DEFINE e == [c EXCEPT !.out = @ + 1]
           g == [c EXCEPT !.out = c.out + 1, !.watch = TRUE]
<1>0. c \in ConnTypes /\ c.out \in Nat /\ c.out + 1 \in Nat /\ c.out + 1 > 0
  BY ConnFields DEF Fits
<1>1. CASE d = c
  BY <1>1 DEF Same
<1>2. CASE ~c.dead /\ c.watch /\ d = e
  <2>1. d = g
    BY <1>0, <1>2 DEF ConnTypes
  <2> QED
    BY <1>0, <2>1, OutSome, ZenonT(30)
<1>3. CASE ~c.dead /\ ~c.watch /\ d \in Flushed(e)
  <2>1. e.out = c.out + 1 /\ e.dead = c.dead
    BY <1>0 DEF ConnTypes
  <2>2. CASE d = [e EXCEPT !.out = 0, !.watch = FALSE]
    <3>1. d = [c EXCEPT !.out = 0, !.watch = FALSE]
      BY <1>0, <2>2 DEF ConnTypes
    <3> QED
      BY <3>1, OutNone
  <2>3. ASSUME NEW n \in 1 .. e.out, d = [e EXCEPT !.out = n, !.watch = TRUE]
        PROVE  Fits(d, held, h, m) /\ Same(c, d)
    <3>1. d = [c EXCEPT !.out = n, !.watch = TRUE]
      BY <1>0, <2>3 DEF ConnTypes
    <3>2. n \in Nat /\ n > 0
      BY <1>0, <2>1
    <3> QED
      BY <3>1, <3>2, OutSome
  <2>4. CASE d = Die(e)
    <3> DEFINE x == [c EXCEPT !.out = c.out + 1, !.dead = TRUE]
    <3>1. d = Unref(x)
      <4>1. x = [e EXCEPT !.dead = TRUE]
        BY <1>0 DEF ConnTypes
      <4> QED
        BY <1>3, <2>1, <2>4, <4>1 DEF Die
    <3>2. /\ x \in ConnTypes /\ x.dead /\ x.refs = c.refs /\ x.mems = c.mems /\ x.spare = c.spare
          /\ x.freed = c.freed /\ Same(c, x)
      BY <1>0 DEF ConnTypes, Same
    <3> HIDE DEF x, e, g
    <3>3. x.refs = 1 + held + h /\ ~x.freed /\ x.mems = m + Bit(x.spare) /\ x.thread = "none"
      BY <1>0, <1>3, <3>2, ConnFields DEF Fits, Bit, Same
    <3> QED
      BY <3>1, <3>2, <3>3, DropOwnFits DEF Same
  <2> QED
    BY <1>3, <2>2, <2>3, <2>4 DEF Flushed
<1> QED
  BY <1>1, <1>2, <1>3 DEF Queued

\* The fields its lifetime does not depend on, or that move on under its thread.
LEMMA PendingFits ==
  ASSUME NEW c, NEW held \in Nat, NEW h \in Nat, NEW m \in Nat, Fits(c, held, h, m),
         NEW n \in Nat, NEW d, d = [c EXCEPT !.pending = n]
  PROVE  /\ Fits(d, held, h, m) /\ d.pending = n
         /\ d.dedicated = c.dedicated /\ d.thread = c.thread /\ d.out = c.out /\ d.dead = c.dead
<1>1. /\ d \in ConnTypes /\ d.thread = c.thread /\ d.refs = c.refs /\ d.mems = c.mems /\ d.spare = c.spare
      /\ d.freed = c.freed /\ d.dead = c.dead /\ d.watch = c.watch /\ d.out = c.out
      /\ d.dedicated = c.dedicated /\ d.pending = n
  BY DEF Fits, ConnTypes
<1> QED
  BY <1>1 DEF Fits

\* Between two requests the thread of a dedicated connection reads.
LEMMA ThreadFits ==
  ASSUME NEW c, NEW held \in Nat, NEW h \in Nat, NEW m \in Nat, Fits(c, held, h, m),
         c.dedicated, ~c.dead, c.thread # "ended", NEW t \in {"serves", "reads"},
         NEW d, d = [c EXCEPT !.thread = t]
  PROVE  /\ Fits(d, held, h, m) /\ d.thread = t
         /\ d.dedicated = c.dedicated /\ d.pending = c.pending /\ d.out = c.out /\ d.dead = c.dead
<1>1. /\ d \in ConnTypes /\ d.thread = t /\ d.refs = c.refs /\ d.mems = c.mems /\ d.spare = c.spare
      /\ d.freed = c.freed /\ d.dead = c.dead /\ d.watch = c.watch /\ d.out = c.out
      /\ d.dedicated = c.dedicated /\ d.pending = c.pending
  BY DEF Fits, ConnTypes
<1> QED
  BY <1>1 DEF Fits, Bit

-----------------------------------------------------------------------------
(* The inductive invariant, and what a step does to the counts             *)

Held(k) == Bit(loop.cur = k)

\* ReferencesCounted and NoMemoryLeft, of k; the requests counted are finitely
\* many, for only those that have come in are.
Counted(k) ==
  /\ IsFiniteSet(Holders(k))
  /\ Fits(conn[k], Held(k), Cardinality(Holders(k)), Cardinality(Memories(k)))

Inv ==
  /\ TypeOK /\ NoFreedConn /\ HandedOver /\ RequestsPlaced /\ ConnectionsPlaced
  /\ \A k \in Conns : Counted(k)

\* It says all that LifetimeInv does.
LEMMA InvImplies ==
  ASSUME Inv, stale \in {FALSE, ResumeAtEvent} PROVE LifetimeInv
<1>1. ReferencesCounted
  BY DEF Inv, Counted, Fits, Held, Bit, ReferencesCounted
<1>2. NoMemoryLeft
  BY DEF Inv, Counted, Fits, Bit, NoMemoryLeft
<1> QED
  BY <1>1, <1>2 DEF Inv, LifetimeInv

\* Memory and an answer are due to holders only; the counts are numbers.
LEMMA Counts ==
  ASSUME Inv, NEW k \in Conns
  PROVE  /\ Cardinality(Holders(k)) \in Nat /\ Cardinality(Memories(k)) \in Nat
         /\ Cardinality(Memories(k)) <= Cardinality(Holders(k))
         /\ IsFiniteSet(Memories(k)) /\ IsFiniteSet(Unanswered(k)) /\ Cardinality(Unanswered(k)) \in Nat
         /\ Held(k) \in Nat
<1>1. IsFiniteSet(Holders(k)) /\ Memories(k) \subseteq Holders(k) /\ Unanswered(k) \subseteq Holders(k)
  BY DEF Inv, Counted, Memories, Unanswered
<1> QED
  BY <1>1, FS_Subset, FS_CardinalityType DEF Held, Bit

\* An element more or less.
LEMMA CountOne ==
  ASSUME NEW S, IsFiniteSet(S), NEW e, NEW T, T = S \cup {e} \/ T = S \ {e}
  PROVE  /\ IsFiniteSet(T) /\ Cardinality(S) \in Nat
         /\ Cardinality(T) = Cardinality(S) - Bit(e \in S) + Bit(e \in T)
BY FS_AddElement, FS_RemoveElement, FS_CardinalityType DEF Bit

\* What is said of a request, to be counted with connection k.
Holds(q, k) == q.conn = k /\ q.pc # "gone"
HasMemory(q, k) == Holds(q, k) /\ q.pc # "unref"
Waits(q, k) == Holds(q, k) /\ ~q.answered /\ q.pc \notin {"release", "unref"}

\* Only the counts of r's own connection change when r moves, and only by r.
LEMMA Moves ==
  ASSUME Inv, NEW r \in Requests, NEW k \in Conns, NEW q \in ReqTypes, q.conn = k,
         req[r].conn \in {k, None}, req' = [req EXCEPT ![r] = q]
  PROVE  /\ \A l \in Conns \ {k} :
              Holders(l)' = Holders(l) /\ Memories(l)' = Memories(l) /\ Unanswered(l)' = Unanswered(l)
         /\ IsFiniteSet(Holders(k)')
         /\ Cardinality(Holders(k)') = Cardinality(Holders(k)) - Bit(Holds(req[r], k)) + Bit(Holds(q, k))
         /\ Cardinality(Memories(k)') =
              Cardinality(Memories(k)) - Bit(HasMemory(req[r], k)) + Bit(HasMemory(q, k))
         /\ Unanswered(k)' = IF Waits(q, k) THEN Unanswered(k) \cup {r} ELSE Unanswered(k) \ {r}
         /\ Cardinality(Unanswered(k)') =
              Cardinality(Unanswered(k)) - Bit(Waits(req[r], k)) + Bit(Waits(q, k))
<1>1. /\ req'[r] = q /\ \A x \in Requests \ {r} : req'[x] = req[x]
      /\ None \notin Conns
  BY ServerAssumption DEF Inv, TypeOK
<1>2. /\ IsFiniteSet(Holders(k)) /\ IsFiniteSet(Memories(k)) /\ IsFiniteSet(Unanswered(k))
  BY Counts DEF Inv, Counted
<1>3. \A l \in Conns \ {k} :
        Holders(l)' = Holders(l) /\ Memories(l)' = Memories(l) /\ Unanswered(l)' = Unanswered(l)
  BY <1>1 DEF Holders, Memories, Unanswered
<1>4. /\ Holders(k)' = IF Holds(q, k) THEN Holders(k) \cup {r} ELSE Holders(k) \ {r}
      /\ r \in Holders(k) <=> Holds(req[r], k)
      /\ r \in Holders(k)' <=> Holds(q, k)
  BY <1>1 DEF Holders, Holds
<1>5. /\ Memories(k)' = IF HasMemory(q, k) THEN Memories(k) \cup {r} ELSE Memories(k) \ {r}
      /\ r \in Memories(k) <=> HasMemory(req[r], k)
      /\ r \in Memories(k)' <=> HasMemory(q, k)
  BY <1>1 DEF Holders, Memories, Holds, HasMemory
<1>6. /\ Unanswered(k)' = IF Waits(q, k) THEN Unanswered(k) \cup {r} ELSE Unanswered(k) \ {r}
      /\ r \in Unanswered(k) <=> Waits(req[r], k)
      /\ r \in Unanswered(k)' <=> Waits(q, k)
  BY <1>1 DEF Holders, Unanswered, Holds, Waits
<1>7. /\ IsFiniteSet(Holders(k)')
      /\ Cardinality(Holders(k)') = Cardinality(Holders(k)) - Bit(Holds(req[r], k)) + Bit(Holds(q, k))
  <2> DEFINE S == Holders(k)
             T == Holders(k)'
  <2>1. T = S \cup {r} \/ T = S \ {r}
    BY <1>4
  <2>2. IsFiniteSet(T) /\ Cardinality(T) = Cardinality(S) - Bit(r \in S) + Bit(r \in T)
    <3>1. IsFiniteSet(S)
      BY <1>2
    <3> HIDE DEF S, T
    <3> QED
      BY <2>1, <3>1, CountOne
  <2>3. (r \in S) = Holds(req[r], k) /\ (r \in T) = Holds(q, k)
    BY <1>4 DEF Holds, Holds
  <2> QED
    BY <2>2, <2>3 DEF Bit
<1>8. Cardinality(Memories(k)') = Cardinality(Memories(k)) - Bit(HasMemory(req[r], k)) + Bit(HasMemory(q, k))
  <2> DEFINE S == Memories(k)
             T == Memories(k)'
  <2>1. T = S \cup {r} \/ T = S \ {r}
    BY <1>5
  <2>2. IsFiniteSet(T) /\ Cardinality(T) = Cardinality(S) - Bit(r \in S) + Bit(r \in T)
    <3>1. IsFiniteSet(S)
      BY <1>2
    <3> HIDE DEF S, T
    <3> QED
      BY <2>1, <3>1, CountOne
  <2>3. (r \in S) = HasMemory(req[r], k) /\ (r \in T) = HasMemory(q, k)
    BY <1>5 DEF HasMemory, Holds
  <2> QED
    BY <2>2, <2>3 DEF Bit
<1>9. Cardinality(Unanswered(k)') = Cardinality(Unanswered(k)) - Bit(Waits(req[r], k)) + Bit(Waits(q, k))
  <2> DEFINE S == Unanswered(k)
             T == Unanswered(k)'
  <2>1. T = S \cup {r} \/ T = S \ {r}
    BY <1>6
  <2>2. IsFiniteSet(T) /\ Cardinality(T) = Cardinality(S) - Bit(r \in S) + Bit(r \in T)
    <3>1. IsFiniteSet(S)
      BY <1>2
    <3> HIDE DEF S, T
    <3> QED
      BY <2>1, <3>1, CountOne
  <2>3. (r \in S) = Waits(req[r], k) /\ (r \in T) = Waits(q, k)
    BY <1>6 DEF Waits, Holds
  <2> QED
    BY <2>2, <2>3 DEF Bit
<1> QED
  BY <1>3, <1>6, <1>7, <1>8, <1>9

\* What the parts of the invariant say of types.
LEMMA Typed ==
  ASSUME Inv
  PROVE  /\ None \notin Conns /\ None \notin Requests
         /\ touched = FALSE
         /\ conn \in [Conns -> ConnTypes] /\ req \in [Requests -> ReqTypes] /\ loop \in LoopTypes
         /\ \A k \in Conns : /\ conn[k] \in ConnTypes
                             /\ Fits(conn[k], Held(k), Cardinality(Holders(k)), Cardinality(Memories(k)))
         /\ \A r \in Requests : req[r] \in ReqTypes
         /\ loop.cur \in Conns \cup {None} /\ loop.run \in Requests \cup {None} /\ loop.batch \subseteq Conns
         /\ loop.die \in BOOLEAN
BY ServerAssumption DEF Inv, TypeOK, Counted, NoFreedConn, LoopTypes

\* Whom a request belongs to, and that it keeps its connection from being freed.
LEMMA OfConn ==
  ASSUME Inv, NEW r \in Requests, req[r].pc \notin {"new", "gone"}
  PROVE  /\ req[r].conn \in Conns /\ r \in Holders(req[r].conn)
         /\ ~conn[req[r].conn].freed
         /\ req[r].pc # "unref" => Cardinality(Memories(req[r].conn)) > 0
<1> DEFINE k == req[r].conn
<1>1. k \in Conns /\ r \in Holders(k)
  BY Typed DEF Inv, RequestsPlaced, ReqTypes, Holders
<1>2. Cardinality(Holders(k)) # 0
  BY <1>1, FS_EmptySet DEF Inv, Counted
<1>3. ~conn[k].freed
  BY <1>1, <1>2, Typed, Counts, ConnFields DEF Fits, Bit
<1>4. ASSUME req[r].pc # "unref" PROVE Cardinality(Memories(k)) > 0
  <2>1. r \in Memories(k)
    BY <1>1, <1>4 DEF Memories
  <2> QED
    BY <1>1, <2>1, Counts, FS_EmptySet
<1> QED
  BY <1>1, <1>3, <1>4

\* A step that changes one connection, and no request.
LEMMA ConnMoves ==
  ASSUME Inv, UNCHANGED req, NEW k \in Conns, NEW c, conn' = [conn EXCEPT ![k] = c],
         Fits(c, Held(k)', Cardinality(Holders(k)), Cardinality(Memories(k))),
         \A l \in Conns \ {k} : Held(l)' = Held(l),
         c.dedicated = conn[k].dedicated, c.pending = conn[k].pending,
         c.dedicated => c.out = conn[k].out,
         c.thread = "serves" <=> conn[k].thread = "serves",
         loop' \in LoopTypes, loop'.run = loop.run, touched' = FALSE,
         \A r \in Requests : req[r].pc = "start" => req[r].conn # k /\ UNCHANGED loop
  PROVE  /\ TypeOK' /\ NoFreedConn' /\ HandedOver' /\ RequestsPlaced'
         /\ \A l \in Conns : Counted(l)'
<1>1. /\ conn'[k] = c /\ c \in ConnTypes /\ conn' \in [Conns -> ConnTypes]
      /\ \A l \in Conns \ {k} : conn'[l] = conn[l]
  BY Typed DEF Fits
<1>2. \A l \in Conns : /\ Holders(l)' = Holders(l) /\ Memories(l)' = Memories(l)
                       /\ Unanswered(l)' = Unanswered(l)
  BY DEF Holders, Memories, Unanswered
<1>3. TypeOK' /\ NoFreedConn'
  BY <1>1 DEF Inv, TypeOK, NoFreedConn
<1>4. \A l \in Conns : Counted(l)'
  BY <1>1, <1>2 DEF Inv, Counted
<1>5. HandedOver'
  BY <1>1, <1>2 DEF Inv, HandedOver
<1>6. RequestsPlaced'
  BY <1>1, Typed DEF Inv, RequestsPlaced, ReqTypes
<1> QED
  BY <1>3, <1>4, <1>5, <1>6

\* A step that moves one request of a connection, and perhaps changes that.
LEMMA RequestMoves ==
  ASSUME Inv, NEW r \in Requests, NEW k \in Conns, NEW q \in ReqTypes, q.conn = k,
         req[r].conn \in {k, None}, req' = [req EXCEPT ![r] = q],
         NEW c, conn' = [conn EXCEPT ![k] = c],
         Fits(c, Held(k), Cardinality(Holders(k)) - Bit(Holds(req[r], k)) + Bit(Holds(q, k)),
              Cardinality(Memories(k)) - Bit(HasMemory(req[r], k)) + Bit(HasMemory(q, k))),
         IF c.dedicated
           THEN /\ c.out = 0
                /\ \A x \in Unanswered(k) \ {r} : req[x].pc \in {"thread", "lost"}
                /\ Waits(q, k) => q.pc \in {"thread", "lost"}
           ELSE c.pending = Cardinality(Unanswered(k)) - Bit(Waits(req[r], k)) + Bit(Waits(q, k)),
         loop' \in LoopTypes, loop'.cur = loop.cur, touched' = FALSE
  PROVE  /\ TypeOK' /\ NoFreedConn' /\ HandedOver'
         /\ \A l \in Conns : Counted(l)'
<1>1. /\ conn'[k] = c /\ c \in ConnTypes /\ conn' \in [Conns -> ConnTypes]
      /\ \A l \in Conns \ {k} : conn'[l] = conn[l]
      /\ req' \in [Requests -> ReqTypes] /\ req'[r] = q /\ \A x \in Requests \ {r} : req'[x] = req[x]
  BY Typed DEF Fits
<1>0. /\ \A l \in Conns \ {k} :
             Holders(l)' = Holders(l) /\ Memories(l)' = Memories(l) /\ Unanswered(l)' = Unanswered(l)
      /\ IsFiniteSet(Holders(k)')
      /\ Cardinality(Holders(k)') = Cardinality(Holders(k)) - Bit(Holds(req[r], k)) + Bit(Holds(q, k))
      /\ Cardinality(Memories(k)') =
           Cardinality(Memories(k)) - Bit(HasMemory(req[r], k)) + Bit(HasMemory(q, k))
      /\ Cardinality(Unanswered(k)') =
           Cardinality(Unanswered(k)) - Bit(Waits(req[r], k)) + Bit(Waits(q, k))
  BY Moves
<1>2. \A l \in Conns : Held(l)' = Held(l)
  BY DEF Held
<1>3. TypeOK' /\ NoFreedConn'
  BY <1>1 DEF Inv, TypeOK, NoFreedConn
<1>4. ASSUME NEW l \in Conns PROVE Counted(l)'
  <2>1. CASE l = k
    BY <1>0, <1>1, <1>2, <2>1 DEF Counted
  <2>2. CASE l # k
    BY <1>0, <1>1, <1>2, <2>2 DEF Inv, Counted
  <2> QED
    BY <2>1, <2>2
<1>5. HandedOver'
  <2> SUFFICES ASSUME NEW l \in Conns
               PROVE  IF conn'[l].dedicated
                        THEN conn'[l].out = 0 /\ \A x \in Unanswered(l)' : req'[x].pc \in {"thread", "lost"}
                        ELSE conn'[l].pending = Cardinality(Unanswered(l)')
    BY DEF HandedOver
  <2>1. CASE l = k
    <3>1. CASE c.dedicated
      <4>1. ASSUME NEW x \in Unanswered(k)' PROVE req'[x].pc \in {"thread", "lost"}
        <5>1. x \in Requests
          BY DEF Unanswered, Holders
        <5>2. CASE x = r
          <6>1. Waits(q, k)
            BY <1>1, <4>1, <5>2 DEF Unanswered, Holders, Waits, Holds
          <6> QED
            BY <1>1, <3>1, <5>2, <6>1
        <5>3. CASE x # r
          <6>1. x \in Unanswered(k) \ {r}
            BY <1>1, <4>1, <5>1, <5>3 DEF Unanswered, Holders
          <6> QED
            BY <1>1, <3>1, <5>1, <5>3, <6>1
        <5> QED
          BY <5>2, <5>3
      <4> QED
        BY <1>1, <2>1, <3>1, <4>1
    <3>2. CASE ~c.dedicated
      BY <1>0, <1>1, <2>1, <3>2
    <3> QED
      BY <3>1, <3>2
  <2>2. CASE l # k
    <3>1. Unanswered(l)' = Unanswered(l) /\ conn'[l] = conn[l]
      BY <1>0, <1>1, <2>2
    <3>2. \A x \in Unanswered(l) : x \in Requests /\ x # r
      BY <2>2, Typed DEF Unanswered, Holders
    <3> QED
      BY <1>1, <3>1, <3>2 DEF Inv, HandedOver
  <2> QED
    BY <2>1, <2>2
<1> QED
  BY <1>3, <1>4, <1>5

-----------------------------------------------------------------------------
(* The steps that change a connection and no request                       *)

\* While the loop's thread has no request in its hands, none is about to start.
LEMMA NoneStarts ==
  ASSUME Inv, loop.run = None, NEW r \in Requests
  PROVE  req[r].pc \notin {"start", "run", "choose", "release"}
BY Typed DEF Inv, RequestsPlaced

\* epoll_wait names a batch of connections that are still armed: neither dead nor dedicated.
LEMMA EpollWaitKeeps ==
  ASSUME Inv, EpollWait PROVE Inv'
<1>1. PICK B \in (SUBSET Armed) \ {{}} : loop' = [loop EXCEPT !.batch = B]
  BY DEF EpollWait
<1>2. PICK k \in B : k \in Conns
  BY DEF Armed
<1>3. /\ loop' \in LoopTypes /\ loop'.batch = B /\ loop'.run = None /\ loop'.cur = None /\ loop.run = None
      /\ loop'.die = loop.die /\ loop.cur = None /\ UNCHANGED <<conn, req, touched>>
  <2>1. loop.run = None /\ loop.cur = None /\ UNCHANGED <<conn, req, touched>> /\ B \subseteq Conns
    BY <1>1 DEF EpollWait, LoopFree, Armed
  <2>2. loop' \in LoopTypes /\ loop'.batch = B /\ loop'.run = None /\ loop'.cur = None /\ loop'.die = loop.die
    BY <1>1, <2>1, Typed DEF LoopTypes
  <2> QED
    BY <2>1, <2>2
<1>4. \A l \in Conns : Held(l)' = Held(l)
  BY <1>3 DEF Held
<1>5. TypeOK' /\ NoFreedConn' /\ HandedOver' /\ RequestsPlaced' /\ \A l \in Conns : Counted(l)'
  <2>1. conn' = [conn EXCEPT ![k] = conn[k]]
    BY <1>3, Typed
  <2>2. Fits(conn[k], Held(k)', Cardinality(Holders(k)), Cardinality(Memories(k)))
    BY <1>2, <1>4, Typed
  <2>3. touched' = FALSE /\ loop'.run = loop.run /\ \A r \in Requests : req[r].pc # "start"
    BY <1>3, Typed, NoneStarts
  <2> HIDE DEF Inv
  <2> QED
    BY <1>2, <1>3, <1>4, <2>1, <2>2, <2>3, ConnMoves
<1>6. ConnectionsPlaced'
  <2>1. /\ loop'.run = None /\ ~loop'.die /\ loop'.cur = None /\ UNCHANGED conn /\ None \notin Conns
        /\ \A l \in loop'.batch : l \in Conns /\ ~conn[l].dead /\ ~conn[l].dedicated
    BY <1>1, <1>3, Typed DEF Inv, ConnectionsPlaced, Armed
  <2> QED
    BY <2>1 DEF Inv, ConnectionsPlaced
<1> QED
  BY <1>5, <1>6 DEF Inv

\* A stale event leaves the batch, and what is followed of the connections as it was.
LEMMA StaleEventKeeps ==
  ASSUME Inv, NEW k \in Conns, StaleEvent(k) PROVE Inv'
<1>1. /\ loop' = [loop EXCEPT !.batch = loop.batch \ {k}] /\ UNCHANGED <<conn, req, touched>>
      /\ loop.run = None /\ loop.cur = None
  BY DEF StaleEvent, LoopFree
<1>2. /\ loop' \in LoopTypes /\ loop'.batch = loop.batch \ {k} /\ loop'.run = loop.run /\ loop'.cur = loop.cur
      /\ loop'.die = loop.die
  BY <1>1, Typed DEF LoopTypes
<1>3. \A l \in Conns : Held(l)' = Held(l)
  BY <1>2 DEF Held
<1>4. TypeOK' /\ NoFreedConn' /\ HandedOver' /\ RequestsPlaced' /\ \A l \in Conns : Counted(l)'
  <2>1. conn' = [conn EXCEPT ![k] = conn[k]]
    BY <1>1, Typed
  <2>2. Fits(conn[k], Held(k)', Cardinality(Holders(k)), Cardinality(Memories(k)))
    BY <1>3, Typed
  <2>3. touched' = FALSE /\ loop'.run = loop.run /\ \A r \in Requests : req[r].pc # "start"
    BY <1>1, <1>2, Typed, NoneStarts
  <2> HIDE DEF Inv
  <2> QED
    BY <1>1, <1>2, <1>3, <2>1, <2>2, <2>3, ConnMoves
<1>5. ConnectionsPlaced'
  BY <1>1, <1>2, Typed DEF Inv, ConnectionsPlaced
<1> QED
  BY <1>4, <1>5 DEF Inv

\* The loop turns to the next event of its batch and holds its connection.
LEMMA NextEventKeeps ==
  ASSUME Inv, NEW k \in Conns, NextEvent(k) PROVE Inv'
<1> DEFINE c == [conn[k] EXCEPT !.refs = @ + 1]
<1>1. /\ loop' = [loop EXCEPT !.batch = loop.batch \ {k}, !.cur = k, !.at = "out"] /\ k \in loop.batch
      /\ loop' \in LoopTypes /\ loop'.batch = loop.batch \ {k} /\ loop'.run = None /\ loop'.cur = k
      /\ loop'.die = loop.die /\ loop.cur = None /\ loop.run = None
      /\ conn' = [conn EXCEPT ![k] = c] /\ UNCHANGED req
  <2>1. /\ loop' = [loop EXCEPT !.batch = loop.batch \ {k}, !.cur = k, !.at = "out"] /\ k \in loop.batch
        /\ loop.cur = None /\ loop.run = None /\ UNCHANGED req
        /\ conn' = [conn EXCEPT ![k] = c]
    BY Typed DEF NextEvent, LoopFree
  <2>2. /\ loop' \in LoopTypes /\ loop'.batch = loop.batch \ {k} /\ loop'.run = None /\ loop'.cur = k
        /\ loop'.die = loop.die
    BY <2>1, Typed DEF LoopTypes
  <2> QED
    BY <2>1, <2>2
<1>2. ~conn[k].dedicated /\ conn[k].thread = "none" /\ ~conn[k].freed
  <2>1. ~conn[k].dedicated
    BY <1>1 DEF Inv, ConnectionsPlaced
  <2> QED
    BY <2>1, Typed, ConnFields DEF Fits, NextEvent
<1>3. touched' = FALSE
  BY Typed DEF NextEvent
<1>4. Held(k) = 0 /\ Held(k)' = 1 /\ \A l \in Conns \ {k} : Held(l)' = Held(l)
  BY <1>1, Typed DEF Held, Bit
<1>5. /\ c \in ConnTypes /\ c.refs = conn[k].refs + 1 /\ c.dead = conn[k].dead /\ c.thread = conn[k].thread
      /\ c.freed = conn[k].freed /\ c.mems = conn[k].mems /\ c.spare = conn[k].spare /\ c.out = conn[k].out
      /\ c.watch = conn[k].watch /\ c.dedicated = conn[k].dedicated /\ c.pending = conn[k].pending
  BY Typed DEF ConnTypes
<1> HIDE DEF c
<1>6. Fits(c, Held(k)', Cardinality(Holders(k)), Cardinality(Memories(k)))
  BY <1>2, <1>4, <1>5, Typed, Counts, ConnFields DEF Fits, Bit
<1>7. TypeOK' /\ NoFreedConn' /\ HandedOver' /\ RequestsPlaced' /\ \A l \in Conns : Counted(l)'
  BY <1>1, <1>2, <1>3, <1>4, <1>5, <1>6, Typed, ConnMoves, NoneStarts
<1>8. ConnectionsPlaced'
  BY <1>1, <1>2, <1>5, Typed DEF Inv, ConnectionsPlaced
<1> QED
  BY <1>7, <1>8 DEF Inv

\* The loop handles an event of k, and k's lifetime goes on or ends: the rest
\* of the invariant follows for any outcome d.
LEMMA HandledKeeps ==
  ASSUME Inv, NEW k \in Conns, loop.run = None, loop.cur = k, UNCHANGED <<req, touched>>,
         NEW d, conn' = [conn EXCEPT ![k] = d],
         Fits(d, Held(k), Cardinality(Holders(k)), Cardinality(Memories(k))), Same(conn[k], d),
         d.dedicated => d.out = conn[k].out,
         loop' \in LoopTypes, loop'.cur = k, loop'.run = None, loop'.batch = loop.batch,
         loop'.die => loop.die
  PROVE  Inv'
<1>1. \A l \in Conns : Held(l)' = Held(l)
  BY DEF Held
<1>2. TypeOK' /\ NoFreedConn' /\ HandedOver' /\ RequestsPlaced' /\ \A l \in Conns : Counted(l)'
  BY <1>1, Typed, ConnMoves, NoneStarts DEF Same
<1>3. conn'[k] = d /\ \A l \in Conns \ {k} : conn'[l] = conn[l]
  BY Typed
<1>4. ConnectionsPlaced'
  BY <1>3, Typed DEF Inv, ConnectionsPlaced, Same, Fits
<1> QED
  BY <1>2, <1>4 DEF Inv

\* A connection that is not dedicated has no thread.
LEMMA NoThread ==
  ASSUME Inv, NEW k \in Conns
  PROVE  ~conn[k].dedicated => conn[k].thread = "none"
BY Typed DEF Fits

\* The loop writes what its connection has queued, and the write may fail.
LEMMA HandleOutputKeeps ==
  ASSUME Inv, NEW k \in Conns, HandleOutput(k) PROVE Inv'
<1>1. /\ loop.run = None /\ loop.cur = k /\ UNCHANGED <<req, touched>>
      /\ loop' \in LoopTypes /\ loop'.cur = k /\ loop'.run = None /\ loop'.batch = loop.batch /\ loop'.die = loop.die
  <2>1. /\ loop.run = None /\ loop.cur = k /\ UNCHANGED <<req, touched>>
        /\ loop' = [loop EXCEPT !.at = "in"]
    BY DEF HandleOutput, At
  <2> QED
    BY <2>1, Typed DEF LoopTypes
<1>2. CASE UNCHANGED conn
  <2>1. conn' = [conn EXCEPT ![k] = conn[k]] /\ Same(conn[k], conn[k])
    BY <1>2, Typed DEF Same
  <2> QED
    BY <1>1, <2>1, Typed, HandledKeeps
<1>3. ASSUME conn[k].watch, ~conn[k].dead, NEW m \in Flushed(conn[k]), conn' = [conn EXCEPT ![k] = m]
      PROVE  Inv'
  <2>1. conn[k].out > 0 /\ ~conn[k].dedicated
    <3>1. conn[k].out > 0
      BY <1>3, Typed DEF Fits
    <3> QED
      BY <3>1 DEF Inv, HandedOver
  <2>2. Fits(m, Held(k), Cardinality(Holders(k)), Cardinality(Memories(k))) /\ Same(conn[k], m)
    BY <1>3, <2>1, Typed, Counts, NoThread, FlushedFits
  <2> QED
    BY <1>1, <1>3, <2>1, <2>2, HandledKeeps DEF Same
<1> QED
  BY <1>2, <1>3 DEF HandleOutput

\* A connection the loop reads dies.
LEMMA DiesKeeps ==
  ASSUME Inv, NEW k \in Conns, loop.run = None, loop.cur = k, UNCHANGED <<req, touched>>,
         NEW c, Fits(c, Held(k), Cardinality(Holders(k)), Cardinality(Memories(k))), Same(conn[k], c),
         c.out = conn[k].out, conn[k].thread = "none", conn' = [conn EXCEPT ![k] = Die(c)],
         loop' \in LoopTypes, loop'.cur = k, loop'.run = None, loop'.batch = loop.batch,
         loop'.die => loop.die
  PROVE  Inv'
<1>1. /\ Fits(Die(c), Held(k), Cardinality(Holders(k)), Cardinality(Memories(k)))
      /\ Same(conn[k], Die(c)) /\ Die(c).out = conn[k].out
  BY Counts, DieFits DEF Same
<1> QED
  BY <1>1, HandledKeeps

\* The hello of a connection is read, and one that is refused closes it.
LEMMA HelloKeeps ==
  ASSUME Inv, NEW k \in Conns, Hello(k) PROVE Inv'
<1> DEFINE c == [conn[k] EXCEPT !.hello = TRUE]
<1>1. /\ loop.run = None /\ loop.cur = k /\ UNCHANGED <<req, touched, loop>> /\ loop \in LoopTypes
      /\ conn[k].thread = "none" /\ ~conn[k].dedicated
  BY Typed, NoThread DEF Hello, Reads, At
<1>2. /\ Fits(c, Held(k), Cardinality(Holders(k)), Cardinality(Memories(k))) /\ Same(conn[k], c)
      /\ c.out = conn[k].out
  <2>1. /\ c \in ConnTypes /\ c.refs = conn[k].refs /\ c.dead = conn[k].dead /\ c.thread = conn[k].thread
        /\ c.freed = conn[k].freed /\ c.mems = conn[k].mems /\ c.spare = conn[k].spare /\ c.out = conn[k].out
        /\ c.watch = conn[k].watch /\ c.dedicated = conn[k].dedicated /\ c.pending = conn[k].pending
    BY Typed DEF ConnTypes
  <2> HIDE DEF c
  <2> QED
    BY <2>1, Typed DEF Fits, Same
<1>3. conn' = [conn EXCEPT ![k] = c] \/ conn' = [conn EXCEPT ![k] = Die(c)]
  BY Typed DEF Hello
<1> HIDE DEF c
<1> QED
  BY <1>1, <1>2, <1>3, HandledKeeps, DiesKeeps

\* The loop finds the peer gone and closes the connection it is serving.
LEMMA PeerGoneKeeps ==
  ASSUME Inv, NEW k \in Conns, PeerGone(k) PROVE Inv'
<1>1. /\ loop.run = None /\ loop.cur = k /\ UNCHANGED <<req, touched, loop>> /\ loop \in LoopTypes
      /\ conn[k].thread = "none" /\ conn' = [conn EXCEPT ![k] = Die(conn[k])]
  BY Typed, NoThread DEF PeerGone, Reads, At
<1> QED
  BY <1>1, Typed, DiesKeeps DEF Same

\* No thread could be started for a dedicated connection, which dies with its event.
LEMMA StartFailedKeeps ==
  ASSUME Inv, NEW k \in Conns, StartFailed(k) PROVE Inv'
<1>1. /\ loop.run = None /\ loop.cur = k /\ UNCHANGED <<req, touched>> /\ loop' \in LoopTypes
      /\ conn[k].thread = "none" /\ conn' = [conn EXCEPT ![k] = Die(conn[k])]
      /\ loop'.cur = k /\ loop'.run = None /\ loop'.batch = loop.batch /\ ~loop'.die
  <2>1. /\ loop.run = None /\ loop.cur = k /\ UNCHANGED <<req, touched>>
        /\ conn[k].thread = "none" /\ conn' = [conn EXCEPT ![k] = Die(conn[k])]
        /\ loop' = [loop EXCEPT !.die = FALSE]
    BY Typed DEF StartFailed, At, Inv, ConnectionsPlaced
  <2> QED
    BY <2>1, Typed DEF LoopTypes
<1> QED
  BY <1>1, Typed, DiesKeeps DEF Same

\* The loop has done with its event, and drops the reference it took for it.
LEMMA HandleEndKeeps ==
  ASSUME Inv, NEW k \in Conns, HandleEnd(k) PROVE Inv'
<1> DEFINE c == Unref(conn[k])
<1>1. /\ loop.run = None /\ loop.cur = k /\ UNCHANGED <<req, touched>> /\ loop' \in LoopTypes /\ ~loop.die
      /\ loop'.cur = None /\ loop'.run = None /\ loop'.batch = loop.batch /\ ~loop'.die
      /\ conn' = [conn EXCEPT ![k] = c]
  <2>1. /\ loop.run = None /\ loop.cur = k /\ UNCHANGED <<req, touched>> /\ ~loop.die
        /\ loop' = [loop EXCEPT !.cur = None] /\ conn' = [conn EXCEPT ![k] = c]
    BY Typed DEF HandleEnd, At
  <2> QED
    BY <2>1, Typed DEF LoopTypes
<1>2. Held(k) = 1 /\ Held(k)' = 0 /\ \A l \in Conns \ {k} : Held(l)' = Held(l)
  BY <1>1, Typed DEF Held, Bit
<1>3. /\ Fits(c, 0, Cardinality(Holders(k)), Cardinality(Memories(k))) /\ Same(conn[k], c)
      /\ c.out = conn[k].out /\ c.dead = conn[k].dead
  BY <1>2, Typed, Counts, UnrefOfLoop
<1> HIDE DEF c
<1>4. TypeOK' /\ NoFreedConn' /\ HandedOver' /\ RequestsPlaced' /\ \A l \in Conns : Counted(l)'
  BY <1>1, <1>2, <1>3, Typed, ConnMoves, NoneStarts DEF Same
<1>5. conn'[k] = c /\ \A l \in Conns \ {k} : conn'[l] = conn[l]
  BY <1>1, Typed
<1>6. ConnectionsPlaced'
  <2>1. c.thread = conn[k].thread /\ c.dedicated = conn[k].dedicated /\ c.dead = conn[k].dead
        /\ c.out = conn[k].out /\ (~c.dead => (c.watch <=> c.out > 0))
    BY <1>3 DEF Same, Fits
  <2>2. k \notin loop.batch /\ None \notin Conns
    BY <1>1, Typed DEF Inv, ConnectionsPlaced
  <2>3. \A l \in loop'.batch : ~conn'[l].dedicated /\ (conn'[l].dead => ResumeAtEvent) /\ l # loop'.cur
    BY <1>1, <1>5, <2>2, Typed, ZenonT(30) DEF Inv, ConnectionsPlaced
  <2>4. \A l \in Conns : /\ conn'[l].thread # "none" => conn'[l].dedicated /\ ~conn'[l].dead
                         /\ ~conn'[l].dead => (conn'[l].watch <=> conn'[l].out > 0)
    BY <1>5, <2>1 DEF Inv, ConnectionsPlaced
  <2> QED
    BY <1>1, <2>3, <2>4 DEF ConnectionsPlaced
<1> QED
  BY <1>4, <1>6 DEF Inv

\* A connection's own thread ends and drops the reference it held.
LEMMA ThreadEndKeeps ==
  ASSUME Inv, NEW k \in Conns, ThreadEnd(k) PROVE Inv'
<1> DEFINE c == [Unref(conn[k]) EXCEPT !.thread = "ended"]
<1>1. /\ UNCHANGED <<req, loop>> /\ conn[k].thread = "reads" /\ conn' = [conn EXCEPT ![k] = c]
  BY Typed DEF ThreadEnd
<1>2. conn[k].dedicated /\ ~conn[k].dead /\ ~conn[k].freed
  BY <1>1, Typed, Counts, ConnFields DEF Fits, Bit
<1>3. touched' = FALSE /\ \A l \in Conns : Held(l)' = Held(l)
  BY <1>1, <1>2, Typed DEF ThreadEnd, Touch, Held
<1>4. /\ Fits(c, Held(k), Cardinality(Holders(k)), Cardinality(Memories(k)))
      /\ c.dedicated = conn[k].dedicated /\ c.pending = conn[k].pending /\ c.out = conn[k].out
  BY <1>1, Typed, Counts, EndFits
<1>5. c.thread = "ended"
  <2>1. conn[k].refs > 0 /\ (conn[k].spare => conn[k].mems > 0)
    BY <1>2, Typed, Counts, ConnFields DEF Fits, Bit
  <2>2. Unref(conn[k]) \in ConnTypes
    BY <2>1, Typed, UnrefFields
  <2> QED
    BY <2>2 DEF ConnTypes
<1> HIDE DEF c
<1>6. \A r \in Requests : req[r].pc = "start" => req[r].conn # k
  BY <1>2 DEF Inv, RequestsPlaced
<1>7. TypeOK' /\ NoFreedConn' /\ HandedOver' /\ RequestsPlaced' /\ \A l \in Conns : Counted(l)'
  BY <1>1, <1>3, <1>4, <1>5, <1>6, Typed, ConnMoves
<1>8. conn'[k] = c /\ \A l \in Conns \ {k} : conn'[l] = conn[l]
  BY <1>1, Typed
<1>9. ConnectionsPlaced'
  BY <1>1, <1>4, <1>5, <1>8, Typed DEF Inv, ConnectionsPlaced, Fits
<1> QED
  BY <1>7, <1>9 DEF Inv

-----------------------------------------------------------------------------
(* The steps that move a request                                           *)

\* The thread of k's connection is at request q.
AtThread(q, k) == q.by = "thread" /\ q.pc # "gone" /\ q.conn = k

\* What q alone must satisfy.
Sound(q) ==
  /\ q.pc # "new"
  /\ q.pc \in {"start", "run", "waits", "thread", "release", "lost"} => ~q.answered
  /\ q.pc \in {"choose", "finish", "waitsFinish"} => q.answered
  /\ q.pc = "thread" => q.by = "thread"
  /\ q.by = "thread" => q.pc \in {"thread", "finish", "unref", "gone"}

\* r becomes q and its connection c, and neither takes from another request
\* or another connection what that one relies on.
PlaceFits(r, k, q, c) ==
  /\ q.conn = k /\ Sound(q)
  /\ req[r].conn \in {k, None} /\ req' = [req EXCEPT ![r] = q]
  /\ conn'[k] = c /\ \A l \in Conns \ {k} : conn'[l] = conn[l]
  /\ c.thread # "none" => c.dedicated /\ ~c.dead
  /\ ~c.dead => (c.watch <=> c.out > 0)
  /\ loop'.cur = loop.cur /\ loop'.batch = loop.batch
  /\ loop'.run \in {loop.run, r, None}
  /\ \/ loop.run \in {None, r}
     \/ /\ loop'.run = loop.run /\ loop'.die = loop.die
        /\ c.dead = conn[k].dead /\ c.dedicated = conn[k].dedicated
  /\ loop'.run = r => IF loop.cur = None THEN loop.batch = {} \/ ResumeAtEvent ELSE loop.cur = k
  /\ loop'.die => IF loop.cur = k THEN c.thread = "none" ELSE loop.die
  /\ k \in loop.batch => ~c.dedicated /\ (c.dead => ResumeAtEvent)
  /\ conn[k].thread = "serves" => c.thread = "serves" \/ AtThread(req[r], k)
  /\ AtThread(q, k) => c.thread = "serves" /\ (conn[k].thread # "serves" \/ AtThread(req[r], k))
  /\ q.pc \in {"start", "run", "choose", "release"} => loop'.run = r
  /\ q.pc = "start" => loop.cur = k /\ ~loop'.die /\ ~c.dead /\ ~c.dedicated

\* Such a move keeps the placement of requests and of connections.
LEMMA PlacedMoves ==
  ASSUME Inv, NEW r \in Requests, NEW k \in Conns, NEW q \in ReqTypes, NEW c, PlaceFits(r, k, q, c)
  PROVE  RequestsPlaced' /\ ConnectionsPlaced'
<1>0. /\ q.conn = k /\ Sound(q) /\ req[r].conn \in {k, None}
      /\ c.thread # "none" => c.dedicated /\ ~c.dead
      /\ ~c.dead => (c.watch <=> c.out > 0)
      /\ loop'.cur = loop.cur /\ loop'.batch = loop.batch
      /\ loop'.run \in {loop.run, r, None}
      /\ \/ loop.run \in {None, r}
         \/ /\ loop'.run = loop.run /\ loop'.die = loop.die
            /\ c.dead = conn[k].dead /\ c.dedicated = conn[k].dedicated
      /\ loop'.run = r => IF loop.cur = None THEN loop.batch = {} \/ ResumeAtEvent ELSE loop.cur = k
      /\ loop'.die => IF loop.cur = k THEN c.thread = "none" ELSE loop.die
      /\ k \in loop.batch => ~c.dedicated /\ (c.dead => ResumeAtEvent)
      /\ conn[k].thread = "serves" => c.thread = "serves" \/ AtThread(req[r], k)
      /\ AtThread(q, k) => c.thread = "serves" /\ (conn[k].thread # "serves" \/ AtThread(req[r], k))
      /\ q.pc \in {"start", "run", "choose", "release"} => loop'.run = r
      /\ q.pc = "start" => loop.cur = k /\ ~loop'.die /\ ~c.dead /\ ~c.dedicated
  BY DEF PlaceFits
<1>1. /\ conn'[k] = c /\ \A l \in Conns \ {k} : conn'[l] = conn[l]
      /\ req'[r] = q /\ \A x \in Requests \ {r} : req'[x] = req[x]
  BY Typed DEF PlaceFits
<1>2. /\ \A x \in Requests : req[x].conn \in Conns \cup {None}
      /\ None \notin Conns /\ None \notin Requests
  BY Typed DEF ReqTypes
<1>3. \A x \in Requests :
        /\ req'[x].pc = "new" <=> req'[x].conn = None
        /\ req'[x].pc \in {"new", "start", "run", "waits", "thread", "release", "lost"} => ~req'[x].answered
        /\ req'[x].pc \in {"choose", "finish", "waitsFinish"} => req'[x].answered
        /\ req'[x].pc = "thread" => req'[x].by = "thread"
        /\ req'[x].by = "thread" /\ req'[x].pc # "gone" => req'[x].pc \in {"thread", "finish", "unref"}
  BY <1>0, <1>1, <1>2 DEF Inv, RequestsPlaced, Sound
<1>4. \A x \in Requests : req'[x].pc \in {"start", "run", "choose", "release"} => loop'.run = x
  BY <1>0, <1>1, <1>2 DEF Inv, RequestsPlaced
<1>5. ASSUME NEW x \in Requests, req'[x].pc = "start"
      PROVE  /\ loop'.cur = req'[x].conn /\ ~loop'.die
             /\ ~conn'[req'[x].conn].dead /\ ~conn'[req'[x].conn].dedicated
  <2>1. CASE x = r
    BY <1>0, <1>1, <1>5, <2>1
  <2>2. CASE x # r
    <3>1. req'[x] = req[x] /\ loop.run = x /\ loop.cur = req[x].conn /\ ~loop.die
          /\ ~conn[req[x].conn].dead /\ ~conn[req[x].conn].dedicated /\ req[x].conn \in Conns
      BY <1>0, <1>1, <1>2, <1>5, <2>2 DEF Inv, RequestsPlaced
    <3>2. loop'.die = loop.die /\ c.dead = conn[k].dead /\ c.dedicated = conn[k].dedicated
      BY <1>0, <1>2, <2>2, <3>1
    <3> QED
      BY <1>0, <1>1, <3>1, <3>2
  <2> QED
    BY <2>1, <2>2
<1>6. ASSUME NEW x \in Requests, AtThread(req'[x], req'[x].conn)
      PROVE  conn'[req'[x].conn].thread = "serves"
  <2>1. CASE x = r
    BY <1>0, <1>1, <1>6, <2>1
  <2>2. CASE x # r
    <3>1. req'[x] = req[x] /\ conn[req[x].conn].thread = "serves" /\ req[x].conn \in Conns
      BY <1>0, <1>1, <1>2, <1>6, <2>2 DEF Inv, RequestsPlaced, AtThread
    <3>2. CASE req[x].conn = k /\ AtThread(req[r], k)
      BY <1>6, <2>2, <3>1, <3>2 DEF Inv, RequestsPlaced, AtThread
    <3> QED
      BY <1>0, <1>1, <3>1, <3>2
  <2> QED
    BY <2>1, <2>2
<1>7. ASSUME NEW x \in Requests, NEW y \in Requests, AtThread(req'[x], req'[x].conn),
             AtThread(req'[y], req'[y].conn), req'[x].conn = req'[y].conn, x # y
      PROVE  FALSE
  <2>1. CASE x # r /\ y # r
    BY <1>0, <1>1, <1>7, <2>1 DEF Inv, RequestsPlaced, AtThread
  <2>2. ASSUME NEW z \in Requests, z # r, AtThread(req'[z], k), AtThread(q, k) PROVE FALSE
    <3>1. AtThread(req[z], k) /\ conn[k].thread = "serves"
      BY <1>0, <1>1, <2>2 DEF Inv, RequestsPlaced, AtThread
    <3> QED
      BY <1>0, <2>2, <3>1 DEF Inv, RequestsPlaced, AtThread
  <2> QED
    BY <1>0, <1>1, <1>7, <2>1, <2>2 DEF AtThread
<1>8. RequestsPlaced'
  BY <1>3, <1>4, <1>5, <1>6, <1>7 DEF RequestsPlaced, AtThread
<1>9. ConnectionsPlaced'
  <2>1. ASSUME loop'.run # None
        PROVE  IF loop'.cur = None THEN loop'.batch = {} \/ ResumeAtEvent ELSE req'[loop'.run].conn = loop'.cur
    <3>1. CASE loop'.run = r
      BY <1>0, <1>1, <3>1
    <3>2. CASE loop'.run # r
      <4>1. loop'.run = loop.run /\ loop.run \in Requests /\ req'[loop.run] = req[loop.run]
        BY <1>0, <1>1, <1>2, <2>1, <3>2, Typed
      <4> QED
        BY <1>0, <2>1, <4>1 DEF Inv, ConnectionsPlaced
    <3> QED
      BY <3>1, <3>2
  <2>2. loop'.die => loop'.cur # None /\ conn'[loop'.cur].thread = "none"
    <3>1. loop.cur \in Conns \cup {None}
      BY Typed
    <3>2. CASE loop.cur = k
      BY <1>0, <1>1, <1>2, <3>2
    <3>3. CASE loop.cur # k
      BY <1>0, <1>1, <3>1, <3>3 DEF Inv, ConnectionsPlaced
    <3> QED
      BY <3>2, <3>3
  <2>3. \A l \in loop'.batch : ~conn'[l].dedicated /\ (conn'[l].dead => ResumeAtEvent) /\ l # loop'.cur
    <3>1. \A l \in loop.batch : l \in Conns /\ ~conn[l].dedicated /\ (conn[l].dead => ResumeAtEvent) /\ l # loop.cur
      BY Typed DEF Inv, ConnectionsPlaced, LoopTypes
    <3>2. \A l \in loop.batch : IF l = k THEN conn'[l] = c ELSE conn'[l] = conn[l]
      BY <1>1, <3>1
    <3> QED
      BY <1>0, <3>1, <3>2
  <2>4. \A l \in Conns : /\ conn'[l].thread # "none" => conn'[l].dedicated /\ ~conn'[l].dead
                         /\ ~conn'[l].dead => (conn'[l].watch <=> conn'[l].out > 0)
    BY <1>0, <1>1 DEF Inv, ConnectionsPlaced
  <2> QED
    BY <2>1, <2>2, <2>3, <2>4 DEF ConnectionsPlaced
<1> QED
  BY <1>8, <1>9

\* r moves on and its connection stays as it is.
LEMMA OnlyRequest ==
  ASSUME Inv, NEW r \in Requests, NEW k \in Conns, NEW q \in ReqTypes, q.conn = k, Sound(q),
         req[r].conn = k, req' = [req EXCEPT ![r] = q],
         conn' = conn, touched' = FALSE,
         HasMemory(req[r], k), HasMemory(q, k),
         IF conn[k].dedicated THEN Waits(q, k) => q.pc \in {"thread", "lost"} ELSE Waits(q, k) = Waits(req[r], k),
         loop' \in LoopTypes, loop'.cur = loop.cur, loop'.batch = loop.batch, loop'.die = loop.die,
         loop'.run \in {loop.run, r, None}, loop.run \in {None, r} \/ loop'.run = loop.run,
         loop'.run = r => IF loop.cur = None THEN loop.batch = {} \/ ResumeAtEvent ELSE loop.cur = k,
         AtThread(q, k) => AtThread(req[r], k),
         q.pc \in {"start", "run", "choose", "release"} => loop'.run = r, q.pc # "start"
  PROVE  Inv'
<1>2. TypeOK' /\ NoFreedConn' /\ HandedOver' /\ \A l \in Conns : Counted(l)'
  <2>0. conn' = [conn EXCEPT ![k] = conn[k]]
    BY Typed
  <2>1. Fits(conn[k], Held(k), Cardinality(Holders(k)) - Bit(Holds(req[r], k)) + Bit(Holds(q, k)),
             Cardinality(Memories(k)) - Bit(HasMemory(req[r], k)) + Bit(HasMemory(q, k)))
    <3>1. /\ Cardinality(Holders(k)) - Bit(Holds(req[r], k)) + Bit(Holds(q, k)) = Cardinality(Holders(k))
          /\ Cardinality(Memories(k)) - Bit(HasMemory(req[r], k)) + Bit(HasMemory(q, k)) = Cardinality(Memories(k))
      BY Counts DEF Bit, HasMemory
    <3> QED
      BY <3>1, Typed
  <2>2. IF conn[k].dedicated
          THEN /\ conn[k].out = 0
               /\ \A x \in Unanswered(k) \ {r} : req[x].pc \in {"thread", "lost"}
               /\ Waits(q, k) => q.pc \in {"thread", "lost"}
          ELSE conn[k].pending = Cardinality(Unanswered(k)) - Bit(Waits(req[r], k)) + Bit(Waits(q, k))
    BY Counts DEF Inv, HandedOver, Bit
  <2> QED
    BY <2>1, <2>2, <2>0, RequestMoves
<1>3. RequestsPlaced' /\ ConnectionsPlaced'
  <2> DEFINE c == conn[k]
  <2>0. conn'[k] = c /\ \A l \in Conns \ {k} : conn'[l] = conn[l]
    OBVIOUS
  <2>1. AtThread(req[r], k) => c.thread = "serves"
    BY DEF Inv, RequestsPlaced, AtThread
  <2>2. /\ c.thread # "none" => c.dedicated /\ ~c.dead
        /\ ~c.dead => (c.watch <=> c.out > 0)
        /\ k \in loop.batch => ~c.dedicated /\ (c.dead => ResumeAtEvent)
        /\ loop'.die => IF loop.cur = k THEN c.thread = "none" ELSE loop.die
    BY DEF Inv, ConnectionsPlaced
  <2>3. /\ \/ loop.run \in {None, r}
           \/ loop'.run = loop.run /\ loop'.die = loop.die /\ c.dead = conn[k].dead /\ c.dedicated = conn[k].dedicated
        /\ AtThread(q, k) => c.thread = "serves" /\ (conn[k].thread # "serves" \/ AtThread(req[r], k))
        /\ conn[k].thread = "serves" => c.thread = "serves" \/ AtThread(req[r], k)
        /\ q.pc = "start" => loop.cur = k /\ ~loop'.die /\ ~c.dead /\ ~c.dedicated
        /\ req[r].conn \in {k, None}
    BY <2>1
  <2>9. PlaceFits(r, k, q, c)
    BY <2>0, <2>2, <2>3 DEF PlaceFits
  <2> QED
    BY <2>9, <2>0, <2>2, PlacedMoves
<1> QED
  BY <1>2, <1>3 DEF Inv

\* A request the loop's thread has in its hands, that it may still have to answer.
LEMMA InHand ==
  ASSUME Inv, NEW r \in Requests, loop.run = r
  PROVE  /\ loop \in LoopTypes
         /\ IF loop.cur = None THEN loop.batch = {} \/ ResumeAtEvent ELSE loop.cur = req[r].conn
BY Typed DEF Inv, ConnectionsPlaced

\* A request the loop is to answer is of a connection that is not dedicated, and counted.
LEMMA OwesAnswer ==
  ASSUME Inv, NEW r \in Requests, req[r].pc \in {"start", "run", "waits"}
  PROVE  /\ req[r].conn \in Conns /\ ~conn[req[r].conn].dedicated
         /\ Waits(req[r], req[r].conn) /\ HasMemory(req[r], req[r].conn) /\ req[r].by # "thread"
         /\ conn[req[r].conn].pending = Cardinality(Unanswered(req[r].conn))
         /\ r \in Unanswered(req[r].conn)
<1> DEFINE k == req[r].conn
<1>1. k \in Conns /\ ~req[r].answered /\ req[r].by # "thread"
  BY Typed DEF Inv, RequestsPlaced, ReqTypes
<1>2. r \in Unanswered(k)
  BY <1>1 DEF Unanswered, Holders
<1>3. ~conn[k].dedicated /\ conn[k].pending = Cardinality(Unanswered(k))
  BY <1>1, <1>2 DEF Inv, HandedOver
<1> QED
  BY <1>1, <1>2, <1>3 DEF Waits, HasMemory, Holds

\* The loop's fields, one step later.
LEMMA RunFields ==
  ASSUME loop \in LoopTypes, NEW x \in Requests \cup {None}
  PROVE  LET l == [loop EXCEPT !.run = x] IN
         l \in LoopTypes /\ l.run = x /\ l.cur = loop.cur /\ l.batch = loop.batch /\ l.die = loop.die
BY DEF LoopTypes

\* The handler starts, on the loop's stack or on a coroutine of its own.
LEMMA StartInlineKeeps ==
  ASSUME Inv, NEW r \in Requests, StartInline(r) \/ StartCoroutine(r) PROVE Inv'
<1> DEFINE k == req[r].conn
<1>1. PICK b \in {req[r].by, "co"} : req' = [req EXCEPT ![r] = [req[r] EXCEPT !.pc = "run", !.by = b]]
  BY Typed, ZenonT(30) DEF StartInline, StartCoroutine, ReqTypes
<1> DEFINE q == [req[r] EXCEPT !.pc = "run", !.by = b]
<1>2. /\ loop.run = r /\ UNCHANGED <<conn, loop, touched>>
      /\ req[r].pc = "start"
  BY DEF StartInline, StartCoroutine
<1>3. q \in ReqTypes /\ q.pc = "run" /\ q.conn = k /\ q.by # "thread" /\ q.answered = req[r].answered
  BY <1>1, <1>2, Typed, OwesAnswer DEF ReqTypes
<1> HIDE DEF q
<1>4. Waits(q, k) /\ HasMemory(q, k) /\ ~AtThread(q, k) /\ Sound(q)
  BY <1>2, <1>3, OwesAnswer DEF Waits, HasMemory, Holds, AtThread, Sound
<1>9. conn' = conn /\ touched' = FALSE
  BY <1>2, Typed
<1> QED
  BY <1>9, <1>1, <1>2, <1>3, <1>4, Typed, InHand, OwesAnswer, OnlyRequest DEF q

\* The handler waits, and leaves the loop's thread to others.
LEMMA YieldKeeps ==
  ASSUME Inv, NEW r \in Requests, Yield(r) PROVE Inv'
<1> DEFINE k == req[r].conn
<1>1. PICK p \in {"waits", "waitsFinish"} :
        /\ req' = [req EXCEPT ![r] = [req[r] EXCEPT !.pc = p]]
        /\ req[r].pc = IF p = "waits" THEN "run" ELSE "finish"
  BY Typed DEF Yield, ReqTypes
<1> DEFINE q == [req[r] EXCEPT !.pc = p]
<1>2. /\ loop.run = r /\ UNCHANGED <<conn, touched>> /\ req[r].by = "co"
      /\ loop' = [loop EXCEPT !.run = None]
  BY DEF Yield
<1>3. q \in ReqTypes /\ q.pc = p /\ q.conn = k /\ q.by = "co" /\ q.answered = req[r].answered
  BY <1>1, <1>2, Typed DEF ReqTypes
<1> HIDE DEF q
<1>4. k \in Conns /\ HasMemory(req[r], k)
  BY <1>1, OfConn DEF HasMemory, Holds
<1>5. req[r].answered <=> p = "waitsFinish"
  BY <1>1 DEF Inv, RequestsPlaced
<1>6. /\ HasMemory(q, k) /\ Sound(q) /\ ~AtThread(q, k)
      /\ IF conn[k].dedicated THEN Waits(q, k) => q.pc \in {"thread", "lost"} ELSE Waits(q, k) = Waits(req[r], k)
  BY <1>1, <1>3, <1>4, <1>5, OwesAnswer DEF Waits, HasMemory, Holds, AtThread, Sound
<1>7. loop' \in LoopTypes /\ loop'.run = None /\ loop'.cur = loop.cur /\ loop'.batch = loop.batch /\ loop'.die = loop.die
  BY <1>2, Typed, RunFields
<1>8. req' = [req EXCEPT ![r] = q] /\ q.pc \notin {"start", "run", "choose", "release"} /\ loop'.run # r
  BY <1>1, <1>3, <1>7, Typed DEF q
<1>9. conn' = conn /\ touched' = FALSE
  BY <1>2, Typed
<1> QED
  BY <1>9, <1>2, <1>3, <1>4, <1>6, <1>7, <1>8, OnlyRequest

\* What a coroutine waited for has come: the loop's thread takes it up again.
LEMMA ResumeKeeps ==
  ASSUME Inv, NEW r \in Requests, Resume(r) PROVE Inv'
<1> DEFINE k == req[r].conn
<1>1. PICK p \in {"run", "finish"} :
        /\ req' = [req EXCEPT ![r] = [req[r] EXCEPT !.pc = p]]
        /\ req[r].pc = IF p = "run" THEN "waits" ELSE "waitsFinish"
  BY Typed DEF Resume, ReqTypes
<1> DEFINE q == [req[r] EXCEPT !.pc = p]
<1>2. /\ loop.run = None /\ loop.cur = None /\ (loop.batch = {} \/ ResumeAtEvent) /\ UNCHANGED <<conn, touched>>
      /\ loop' = [loop EXCEPT !.run = r]
  BY DEF Resume, LoopFree
<1>3. q \in ReqTypes /\ q.pc = p /\ q.conn = k /\ q.by = req[r].by /\ q.answered = req[r].answered
  BY <1>1, <1>2, Typed DEF ReqTypes
<1> HIDE DEF q
<1>4. k \in Conns /\ HasMemory(req[r], k)
  BY <1>1, OfConn DEF HasMemory, Holds
<1>5. (req[r].answered <=> p = "finish") /\ req[r].by # "thread"
  BY <1>1, <1>4 DEF Inv, RequestsPlaced
<1>6. /\ HasMemory(q, k) /\ Sound(q) /\ ~AtThread(q, k)
      /\ IF conn[k].dedicated THEN Waits(q, k) => q.pc \in {"thread", "lost"} ELSE Waits(q, k) = Waits(req[r], k)
  BY <1>1, <1>3, <1>4, <1>5, OwesAnswer DEF Waits, HasMemory, Holds, AtThread, Sound
<1>7. loop' \in LoopTypes /\ loop'.run = r /\ loop'.cur = loop.cur /\ loop'.batch = loop.batch /\ loop'.die = loop.die
  BY <1>2, Typed, RunFields
<1>8. req' = [req EXCEPT ![r] = q] /\ q.pc # "start"
  BY <1>1, <1>3, Typed DEF q
<1>9. conn' = conn /\ touched' = FALSE
  BY <1>2, Typed
<1> QED
  BY <1>9, <1>2, <1>3, <1>4, <1>6, <1>7, <1>8, OnlyRequest

\* An answered request is finished on the loop, on a coroutine or on a worker.
LEMMA FinishPlaceKeeps ==
  ASSUME Inv, NEW r \in Requests, FinishOnLoop(r) \/ FinishOnWorker(r) PROVE Inv'
<1> DEFINE k == req[r].conn
<1>1. PICK b \in {req[r].by, "co", "worker"} :
        req' = [req EXCEPT ![r] = [req[r] EXCEPT !.pc = "finish", !.by = b]]
  <2>1. \E b \in {req[r].by, "co", "worker"} :
          req' = [req EXCEPT ![r].pc = "finish", ![r].by = b] \/ (b = req[r].by /\ req' = [req EXCEPT ![r].pc = "finish"])
    BY DEF FinishOnLoop, FinishOnWorker
  <2> QED
    BY <2>1, Typed DEF ReqTypes
<1> DEFINE q == [req[r] EXCEPT !.pc = "finish", !.by = b]
<1>2. /\ loop.run = r /\ UNCHANGED <<conn, touched>> /\ req[r].pc = "choose"
      /\ loop' \in {loop, [loop EXCEPT !.run = None]}
  BY DEF FinishOnLoop, FinishOnWorker
<1>3. req[r].answered /\ req[r].by # "thread"
  BY <1>2 DEF Inv, RequestsPlaced
<1>4. q \in ReqTypes /\ q.pc = "finish" /\ q.conn = k /\ q.by # "thread" /\ q.answered = req[r].answered
  BY <1>1, <1>3, Typed DEF ReqTypes
<1> HIDE DEF q
<1>5. k \in Conns /\ HasMemory(req[r], k)
  BY <1>2, OfConn DEF HasMemory, Holds
<1>6. /\ HasMemory(q, k) /\ Sound(q) /\ ~AtThread(q, k)
      /\ IF conn[k].dedicated THEN Waits(q, k) => q.pc \in {"thread", "lost"} ELSE Waits(q, k) = Waits(req[r], k)
  BY <1>3, <1>4, <1>5 DEF Waits, HasMemory, Holds, AtThread, Sound
<1>7. loop' \in LoopTypes /\ loop'.run \in {r, None} /\ loop'.cur = loop.cur /\ loop'.batch = loop.batch /\ loop'.die = loop.die
  <2>1. CASE loop' = loop
    BY <1>2, <2>1, Typed
  <2>2. CASE loop' = [loop EXCEPT !.run = None]
    BY <2>2, Typed, RunFields
  <2> QED
    BY <1>2, <2>1, <2>2
<1>8. req' = [req EXCEPT ![r] = q]
  BY <1>1, Typed DEF q
<1>9. conn' = conn /\ touched' = FALSE
  BY <1>2, Typed
<1> QED
  BY <1>9, <1>2, <1>4, <1>5, <1>6, <1>7, <1>8, InHand, OnlyRequest

\* The thread of a dedicated connection serves the request it was given.
LEMMA ThreadServeKeeps ==
  ASSUME Inv, NEW r \in Requests, ThreadServe(r), loop.run # r PROVE Inv'
<1> DEFINE k == req[r].conn
           q == [req[r] EXCEPT !.pc = "finish", !.answered = TRUE]
<1>1. /\ UNCHANGED <<conn, loop>> /\ req[r].pc = "thread" /\ req' = [req EXCEPT ![r] = q]
      /\ touched' = (touched \/ conn[k].freed)
  BY Typed DEF ThreadServe, Touch
<1>2. q \in ReqTypes /\ q.pc = "finish" /\ q.conn = k /\ q.by = req[r].by /\ q.answered
  BY Typed DEF ReqTypes
<1> HIDE DEF q
<1>3. k \in Conns /\ HasMemory(req[r], k) /\ ~conn[k].freed
  BY <1>1, OfConn DEF HasMemory, Holds
<1>4. AtThread(req[r], k) /\ conn[k].thread = "serves" /\ conn[k].dedicated
  BY <1>1, <1>3 DEF Inv, RequestsPlaced, ConnectionsPlaced, AtThread
<1>5. HasMemory(q, k) /\ Sound(q) /\ ~Waits(q, k)
  BY <1>2, <1>3 DEF Waits, HasMemory, Holds, Sound
<1>9. conn' = conn /\ touched' = FALSE
  BY <1>1, <1>3, Typed
<1> QED
  BY <1>9, <1>1, <1>2, <1>3, <1>4, <1>5, Typed, OnlyRequest

\* What a request that comes in is counted for: nothing yet.
LEMMA NotYet ==
  ASSUME Inv, NEW r \in Requests, req[r].pc = "new", NEW k \in Conns
  PROVE  /\ req[r].conn = None /\ ~req[r].answered /\ req[r].by # "thread" /\ req[r] \in ReqTypes
         /\ ~Holds(req[r], k) /\ ~HasMemory(req[r], k) /\ ~Waits(req[r], k) /\ ~AtThread(req[r], k)
BY Typed DEF Inv, RequestsPlaced, Holds, HasMemory, Waits, AtThread

\* A whole request arrives: it takes a reference and some memory of its connection.
LEMMA RequestKeeps ==
  ASSUME Inv, NEW k \in Conns, NEW r \in Requests, Request(k, r) PROVE Inv'
<1> DEFINE g == Got(conn[k])
           c == [g EXCEPT !.pending = g.pending + 1]
           q == [req[r] EXCEPT !.pc = "start", !.conn = k]
<1>a. conn' = [conn EXCEPT ![k] = c]
  BY DEF Request
<1>b. conn'[k] = c /\ \A l \in Conns \ {k} : conn'[l] = conn[l]
  BY <1>a, Typed
<1>1. /\ loop.run = None /\ loop.cur = k /\ ~loop.die /\ ~conn[k].dead /\ ~conn[k].dedicated /\ req[r].pc = "new"
      /\ req' = [req EXCEPT ![r] = q] /\ loop' = [loop EXCEPT !.run = r] /\ touched' = FALSE
  <2>1. /\ loop.run = None /\ loop.cur = k /\ ~loop.die /\ ~conn[k].dead /\ ~conn[k].dedicated /\ req[r].pc = "new"
        /\ loop' = [loop EXCEPT !.run = r] /\ touched' = FALSE
    BY Typed DEF Request, Reads, At
  <2>2. req' = [req EXCEPT ![r] = q]
    BY Typed DEF Request, ReqTypes
  <2> QED
    BY <2>1, <2>2
<1>2. /\ q \in ReqTypes /\ q.pc = "start" /\ q.conn = k /\ q.by = req[r].by /\ q.answered = req[r].answered
  BY Typed DEF ReqTypes
<1>3. ~conn[k].freed
  BY <1>1, Typed, Counts, ConnFields DEF Fits, Bit, Held
<1>4. /\ Fits(g, Held(k), Cardinality(Holders(k)) + 1, Cardinality(Memories(k)) + 1)
      /\ Same(conn[k], g) /\ g.out = conn[k].out /\ g.dead = conn[k].dead
  BY <1>3, Typed, Counts, GotFits
<1>5. /\ g.pending = conn[k].pending /\ g.pending + 1 \in Nat
      /\ Cardinality(Holders(k)) + 1 \in Nat /\ Cardinality(Memories(k)) + 1 \in Nat /\ Held(k) \in Nat
  BY <1>4, Typed, Counts, ConnFields DEF Same
<1> HIDE DEF g
<1>6. /\ Fits(c, Held(k), Cardinality(Holders(k)) + 1, Cardinality(Memories(k)) + 1)
      /\ c.pending = g.pending + 1 /\ c.dedicated = g.dedicated /\ c.thread = g.thread /\ c.out = g.out
      /\ c.dead = g.dead
  BY <1>4, <1>5, PendingFits
<1> HIDE DEF c, q
<1>7. Holds(q, k) /\ HasMemory(q, k) /\ Waits(q, k) /\ ~AtThread(q, k) /\ Sound(q)
  BY <1>1, <1>2, NotYet DEF Holds, HasMemory, Waits, AtThread, Sound
<1>8. loop' \in LoopTypes /\ loop'.run = r /\ loop'.cur = loop.cur /\ loop'.batch = loop.batch /\ loop'.die = loop.die
  BY <1>1, Typed, RunFields
<1>9. TypeOK' /\ NoFreedConn' /\ HandedOver' /\ \A l \in Conns : Counted(l)'
  <2>1. Fits(c, Held(k), Cardinality(Holders(k)) - Bit(Holds(req[r], k)) + Bit(Holds(q, k)),
             Cardinality(Memories(k)) - Bit(HasMemory(req[r], k)) + Bit(HasMemory(q, k)))
    <3>1. /\ Cardinality(Holders(k)) - Bit(Holds(req[r], k)) + Bit(Holds(q, k)) = Cardinality(Holders(k)) + 1
          /\ Cardinality(Memories(k)) - Bit(HasMemory(req[r], k)) + Bit(HasMemory(q, k)) = Cardinality(Memories(k)) + 1
      BY <1>1, <1>7, Counts, NotYet DEF Bit
    <3> QED
      BY <1>6, <3>1
  <2>2. ~c.dedicated /\ c.pending = Cardinality(Unanswered(k)) - Bit(Waits(req[r], k)) + Bit(Waits(q, k))
    BY <1>1, <1>4, <1>5, <1>6, <1>7, Counts, NotYet DEF Same, Inv, HandedOver, Bit
  <2>3. req[r].conn \in {k, None}
    BY <1>1, NotYet
  <2> QED
    BY <1>a, <1>1, <1>2, <1>8, <2>1, <2>2, <2>3, RequestMoves
<1>10. RequestsPlaced' /\ ConnectionsPlaced'
  <2>1. /\ c.thread # "none" => c.dedicated /\ ~c.dead
        /\ ~c.dead => (c.watch <=> c.out > 0)
    BY <1>6 DEF Fits
  <2>2. /\ ~c.dedicated /\ ~c.dead /\ c.thread = conn[k].thread /\ req[r].conn \in {k, None} /\ ~loop'.die
        /\ loop.cur # None
    BY <1>1, <1>4, <1>6, <1>8, NotYet, Typed DEF Same
  <2>9. PlaceFits(r, k, q, c)
    BY <1>b, <1>1, <1>2, <1>7, <1>8, <2>1, <2>2 DEF PlaceFits
  <2> QED
    BY <2>9, <1>1, <1>2, <1>7, <1>8, <2>2, PlacedMoves
<1> QED
  BY <1>9, <1>10 DEF Inv

\* A request that cannot be parsed takes the same, and is released at once.
LEMMA BadRequestKeeps ==
  ASSUME Inv, NEW k \in Conns, NEW r \in Requests, BadRequest(k, r) PROVE Inv'
<1> DEFINE c == Got(conn[k])
           q == [req[r] EXCEPT !.pc = "release", !.conn = k]
<1>a. conn' = [conn EXCEPT ![k] = c]
  BY DEF BadRequest
<1>b. conn'[k] = c /\ \A l \in Conns \ {k} : conn'[l] = conn[l]
  BY <1>a, Typed
<1>1. /\ loop.run = None /\ loop.cur = k /\ ~loop.die /\ ~conn[k].dead /\ ~conn[k].dedicated /\ req[r].pc = "new"
      /\ req' = [req EXCEPT ![r] = q] /\ loop' = [loop EXCEPT !.run = r, !.die = TRUE] /\ touched' = FALSE
  <2>1. /\ loop.run = None /\ loop.cur = k /\ ~loop.die /\ ~conn[k].dead /\ ~conn[k].dedicated /\ req[r].pc = "new"
        /\ loop' = [loop EXCEPT !.run = r, !.die = TRUE] /\ touched' = FALSE
    BY Typed DEF BadRequest, Reads, At
  <2>2. req' = [req EXCEPT ![r] = q]
    BY Typed DEF BadRequest, ReqTypes
  <2> QED
    BY <2>1, <2>2
<1>2. /\ q \in ReqTypes /\ q.pc = "release" /\ q.conn = k /\ q.by = req[r].by /\ q.answered = req[r].answered
  BY Typed DEF ReqTypes
<1>3. ~conn[k].freed /\ loop.cur # None /\ conn[k].thread = "none"
  BY <1>1, Typed, Counts, ConnFields, NoThread DEF Fits, Bit, Held
<1>4. /\ Fits(c, Held(k), Cardinality(Holders(k)) + 1, Cardinality(Memories(k)) + 1)
      /\ Same(conn[k], c) /\ c.out = conn[k].out /\ c.dead = conn[k].dead
  BY <1>3, Typed, Counts, GotFits
<1> HIDE DEF c, q
<1>7. Holds(q, k) /\ HasMemory(q, k) /\ ~Waits(q, k) /\ ~AtThread(q, k) /\ Sound(q)
  BY <1>1, <1>2, NotYet DEF Holds, HasMemory, Waits, AtThread, Sound
<1>8. loop' \in LoopTypes /\ loop'.run = r /\ loop'.cur = loop.cur /\ loop'.batch = loop.batch /\ loop'.die
  BY <1>1, Typed DEF LoopTypes
<1>9. TypeOK' /\ NoFreedConn' /\ HandedOver' /\ \A l \in Conns : Counted(l)'
  <2>1. Fits(c, Held(k), Cardinality(Holders(k)) - Bit(Holds(req[r], k)) + Bit(Holds(q, k)),
             Cardinality(Memories(k)) - Bit(HasMemory(req[r], k)) + Bit(HasMemory(q, k)))
    <3>1. /\ Cardinality(Holders(k)) - Bit(Holds(req[r], k)) + Bit(Holds(q, k)) = Cardinality(Holders(k)) + 1
          /\ Cardinality(Memories(k)) - Bit(HasMemory(req[r], k)) + Bit(HasMemory(q, k)) = Cardinality(Memories(k)) + 1
      BY <1>1, <1>7, Counts, NotYet DEF Bit
    <3> QED
      BY <1>4, <3>1
  <2>2. ~c.dedicated /\ c.pending = Cardinality(Unanswered(k)) - Bit(Waits(req[r], k)) + Bit(Waits(q, k))
    BY <1>1, <1>4, <1>7, Counts, NotYet DEF Same, Inv, HandedOver, Bit
  <2>3. req[r].conn \in {k, None}
    BY <1>1, NotYet
  <2> QED
    BY <1>a, <1>1, <1>2, <1>8, <2>1, <2>2, <2>3, RequestMoves
<1>10. RequestsPlaced' /\ ConnectionsPlaced'
  <2>1. /\ c.thread # "none" => c.dedicated /\ ~c.dead
        /\ ~c.dead => (c.watch <=> c.out > 0)
    BY <1>4 DEF Fits
  <2>2. ~c.dedicated /\ ~c.dead /\ c.thread = "none" /\ conn[k].thread = "none" /\ req[r].conn \in {k, None}
    BY <1>1, <1>3, <1>4, NotYet DEF Same
  <2>9. PlaceFits(r, k, q, c)
    BY <1>b, <1>1, <1>2, <1>3, <1>7, <1>8, <2>1, <2>2 DEF PlaceFits
  <2> QED
    BY <2>9, <1>1, <1>2, <1>3, <1>7, <1>8, <2>2, PlacedMoves
<1> QED
  BY <1>9, <1>10 DEF Inv

\* A request read by the connection's own thread takes the same.
LEMMA ThreadRequestKeeps ==
  ASSUME Inv, NEW k \in Conns, NEW r \in Requests, ThreadRequest(k, r) PROVE Inv'
<1> DEFINE g == Got(conn[k])
           c == [g EXCEPT !.thread = "serves"]
           q == [req[r] EXCEPT !.pc = "thread", !.conn = k, !.by = "thread"]
<1>a. conn' = [conn EXCEPT ![k] = c]
  BY DEF ThreadRequest
<1>b. conn'[k] = c /\ \A l \in Conns \ {k} : conn'[l] = conn[l]
  BY <1>a, Typed
<1>1. /\ conn[k].thread = "reads" /\ req[r].pc = "new" /\ req' = [req EXCEPT ![r] = q] /\ loop' = loop
      /\ touched' = (touched \/ conn[k].freed)
  <2>1. req' = [req EXCEPT ![r] = q]
    BY Typed DEF ThreadRequest, ReqTypes
  <2> QED
    BY <2>1 DEF ThreadRequest, Touch
<1>2. /\ q \in ReqTypes /\ q.pc = "thread" /\ q.conn = k /\ q.by = "thread" /\ q.answered = req[r].answered
  BY Typed DEF ReqTypes
<1>3. conn[k].dedicated /\ ~conn[k].dead /\ ~conn[k].freed
  BY <1>1, Typed, Counts, ConnFields DEF Fits, Bit
<1>4. /\ Fits(g, Held(k), Cardinality(Holders(k)) + 1, Cardinality(Memories(k)) + 1)
      /\ Same(conn[k], g) /\ g.out = conn[k].out /\ g.dead = conn[k].dead
  BY <1>3, Typed, Counts, GotFits
<1>5. Cardinality(Holders(k)) + 1 \in Nat /\ Cardinality(Memories(k)) + 1 \in Nat /\ Held(k) \in Nat
  BY Counts
<1> HIDE DEF g
<1>6. /\ Fits(c, Held(k), Cardinality(Holders(k)) + 1, Cardinality(Memories(k)) + 1)
      /\ c.dedicated /\ c.thread = "serves" /\ c.out = g.out /\ ~c.dead
  <2>1. g.dedicated /\ ~g.dead /\ g.thread = "reads" /\ c = [g EXCEPT !.thread = "serves"]
    BY <1>1, <1>3, <1>4 DEF Same
  <2> HIDE DEF c
  <2> QED
    BY <1>4, <1>5, <2>1, ThreadFits
<1> HIDE DEF c, q
<1>7. Holds(q, k) /\ HasMemory(q, k) /\ AtThread(q, k) /\ Sound(q)
  BY <1>1, <1>2, NotYet DEF Holds, HasMemory, AtThread, Sound
<1>8. touched' = FALSE /\ loop' \in LoopTypes
  BY <1>1, <1>3, Typed
<1>9. TypeOK' /\ NoFreedConn' /\ HandedOver' /\ \A l \in Conns : Counted(l)'
  <2>1. Fits(c, Held(k), Cardinality(Holders(k)) - Bit(Holds(req[r], k)) + Bit(Holds(q, k)),
             Cardinality(Memories(k)) - Bit(HasMemory(req[r], k)) + Bit(HasMemory(q, k)))
    <3>1. /\ Cardinality(Holders(k)) - Bit(Holds(req[r], k)) + Bit(Holds(q, k)) = Cardinality(Holders(k)) + 1
          /\ Cardinality(Memories(k)) - Bit(HasMemory(req[r], k)) + Bit(HasMemory(q, k)) = Cardinality(Memories(k)) + 1
      BY <1>1, <1>7, Counts, NotYet DEF Bit
    <3> QED
      BY <1>6, <3>1
  <2>2. c.dedicated /\ c.out = 0 /\ \A x \in Unanswered(k) \ {r} : req[x].pc \in {"thread", "lost"}
    BY <1>3, <1>4, <1>6 DEF Inv, HandedOver
  <2>3. req[r].conn \in {k, None}
    BY <1>1, NotYet
  <2> QED
    BY <1>a, <1>1, <1>2, <1>8, <2>1, <2>2, <2>3, RequestMoves
<1>10. RequestsPlaced' /\ ConnectionsPlaced'
  <2>1. /\ c.thread # "none" => c.dedicated /\ ~c.dead
        /\ ~c.dead => (c.watch <=> c.out > 0)
    BY <1>6 DEF Fits
  <2>2. /\ c.dead = conn[k].dead /\ c.dedicated = conn[k].dedicated /\ req[r].conn \in {k, None}
        /\ loop.run = r => IF loop.cur = None THEN loop.batch = {} \/ ResumeAtEvent ELSE loop.cur = k
        /\ k \notin loop.batch
        /\ loop.die => IF loop.cur = k THEN c.thread = "none" ELSE loop.die
    <3>1. c.dead = conn[k].dead /\ c.dedicated = conn[k].dedicated
      BY <1>3, <1>6, Typed, ConnFields DEF Fits
    <3>2. req[r].conn \in {k, None} /\ (loop.run = r => IF loop.cur = None THEN loop.batch = {} \/ ResumeAtEvent ELSE loop.cur = k)
      BY <1>1, NotYet, InHand
    <3>3. k \notin loop.batch /\ (loop.die => IF loop.cur = k THEN c.thread = "none" ELSE loop.die)
      BY <1>1, <1>3 DEF Inv, ConnectionsPlaced
    <3> QED
      BY <3>1, <3>2, <3>3
  <2>9. PlaceFits(r, k, q, c)
    BY <1>b, <1>1, <1>2, <1>6, <1>7, <2>1, <2>2 DEF PlaceFits
  <2> QED
    BY <2>9, <1>1, <1>2, <1>6, <1>7, <2>2, PlacedMoves
<1> QED
  BY <1>9, <1>10 DEF Inv

\* The connection is handed to a thread of its own, or the request is lost to it.
LEMMA DedicateKeeps ==
  ASSUME Inv, NEW r \in Requests, Dedicate(r) PROVE Inv'
<1> DEFINE k == req[r].conn
<1>1. /\ loop.run = r /\ req[r].pc = "start" /\ conn[k].pending = 1 /\ conn[k].out = 0 /\ touched' = FALSE
  BY Typed DEF Dedicate
<1>2. /\ k \in Conns /\ loop.cur = k /\ ~loop.die /\ ~conn[k].dead /\ ~conn[k].dedicated
      /\ ~req[r].answered /\ conn[k].thread = "none" /\ conn[k].pending = Cardinality(Unanswered(k))
      /\ r \in Unanswered(k) /\ HasMemory(req[r], k) /\ Holds(req[r], k) /\ loop.cur # None
  BY <1>1, OwesAnswer, NoThread, Typed DEF Inv, RequestsPlaced, Waits, HasMemory
<1>3. Unanswered(k) \ {r} = {}
  <2>1. IsFiniteSet(Unanswered(k)) /\ Cardinality(Unanswered(k)) = 1
    BY <1>1, <1>2, Counts
  <2>2. IsFiniteSet(Unanswered(k) \ {r}) /\ Cardinality(Unanswered(k) \ {r}) = 0
    BY <1>2, <2>1, FS_RemoveElement
  <2> QED
    BY <2>2, FS_EmptySet
<1>4. \E t \in {"none", "serves"} :
        LET ok == t = "serves"
        IN /\ conn' = [conn EXCEPT ![k] = [conn[k] EXCEPT !.pending = 0, !.dedicated = TRUE, !.thread = t]]
           /\ req' = [req EXCEPT ![r] = [req[r] EXCEPT !.pc = IF ok THEN "thread" ELSE "lost",
                                                       !.by = IF ok THEN "thread" ELSE req[r].by]]
           /\ loop' = [loop EXCEPT !.run = None, !.die = ~ok]
  <2>1. CASE /\ conn' = [conn EXCEPT ![k].pending = 0, ![k].dedicated = TRUE, ![k].thread = "serves"]
             /\ req' = [req EXCEPT ![r].pc = "thread", ![r].by = "thread"]
             /\ loop' = [loop EXCEPT !.run = None]
    <3>1. conn' = [conn EXCEPT ![k] = [conn[k] EXCEPT !.pending = 0, !.dedicated = TRUE, !.thread = "serves"]]
      BY <1>2, <2>1, Typed DEF ConnTypes
    <3>2. req' = [req EXCEPT ![r] = [req[r] EXCEPT !.pc = "thread", !.by = "thread"]]
      BY <2>1, Typed DEF ReqTypes
    <3>3. loop' = [loop EXCEPT !.run = None, !.die = FALSE]
      BY <1>2, <2>1, Typed DEF LoopTypes
    <3> QED
      BY <3>1, <3>2, <3>3
  <2>2. CASE /\ conn' = [conn EXCEPT ![k].pending = 0, ![k].dedicated = TRUE]
             /\ req' = [req EXCEPT ![r].pc = "lost"]
             /\ loop' = [loop EXCEPT !.run = None, !.die = TRUE]
    <3>1. conn' = [conn EXCEPT ![k] = [conn[k] EXCEPT !.pending = 0, !.dedicated = TRUE, !.thread = "none"]]
      BY <1>2, <2>2, Typed DEF ConnTypes
    <3>2. req' = [req EXCEPT ![r] = [req[r] EXCEPT !.pc = "lost", !.by = req[r].by]]
      BY <2>2, Typed DEF ReqTypes
    <3> QED
      BY <2>2, <3>1, <3>2
  <2> QED
    BY <2>1, <2>2 DEF Dedicate
<1>5. PICK t \in {"none", "serves"} :
        LET ok == t = "serves"
        IN /\ conn' = [conn EXCEPT ![k] = [conn[k] EXCEPT !.pending = 0, !.dedicated = TRUE, !.thread = t]]
           /\ req' = [req EXCEPT ![r] = [req[r] EXCEPT !.pc = IF ok THEN "thread" ELSE "lost",
                                                       !.by = IF ok THEN "thread" ELSE req[r].by]]
           /\ loop' = [loop EXCEPT !.run = None, !.die = ~ok]
  BY <1>4
<1> DEFINE ok == t = "serves"
           c == [conn[k] EXCEPT !.pending = 0, !.dedicated = TRUE, !.thread = t]
           q == [req[r] EXCEPT !.pc = IF ok THEN "thread" ELSE "lost", !.by = IF ok THEN "thread" ELSE req[r].by]
<1>a. conn' = [conn EXCEPT ![k] = c]
  BY <1>5
<1>b. conn'[k] = c /\ \A l \in Conns \ {k} : conn'[l] = conn[l]
  BY <1>2, <1>a, Typed
<1>6. req' = [req EXCEPT ![r] = q] /\ loop' = [loop EXCEPT !.run = None, !.die = ~ok]
  BY <1>5
<1>7. /\ q \in ReqTypes /\ q.pc = (IF ok THEN "thread" ELSE "lost") /\ q.conn = k
      /\ q.by = (IF ok THEN "thread" ELSE req[r].by) /\ ~q.answered
  BY <1>2, Typed DEF ReqTypes
<1>8. /\ loop' \in LoopTypes /\ loop'.run = None /\ loop'.cur = loop.cur /\ loop'.batch = loop.batch
      /\ loop'.die = ~ok
  BY <1>6, Typed DEF LoopTypes
<1>9. /\ Fits(c, Held(k), Cardinality(Holders(k)), Cardinality(Memories(k)))
      /\ c.thread = t /\ c.dedicated /\ c.out = conn[k].out /\ ~c.dead
  <2>1. c = [conn[k] EXCEPT !.pending = 0, !.dedicated = TRUE, !.thread = t]
    OBVIOUS
  <2>2. /\ Fits(conn[k], Held(k), Cardinality(Holders(k)), Cardinality(Memories(k)))
        /\ Held(k) \in Nat /\ Cardinality(Holders(k)) \in Nat /\ Cardinality(Memories(k)) \in Nat
        /\ ~conn[k].dead /\ conn[k].thread = "none"
    BY <1>2, Typed, Counts
  <2> HIDE DEF c, q, ok, k
  <2>3. /\ c \in ConnTypes /\ c.thread = t /\ c.refs = conn[k].refs /\ c.mems = conn[k].mems
        /\ c.spare = conn[k].spare /\ c.freed = conn[k].freed /\ c.dead = conn[k].dead
        /\ c.watch = conn[k].watch /\ c.out = conn[k].out /\ c.dedicated
    BY <2>1, <2>2 DEF Fits, ConnTypes
  <2> QED
    BY <2>2, <2>3 DEF Fits, Bit
<1> HIDE DEF c, q
<1>10. /\ Holds(q, k) /\ HasMemory(q, k) /\ Sound(q) /\ (AtThread(q, k) => ok)
  BY <1>1, <1>2, <1>7, OwesAnswer DEF Holds, HasMemory, AtThread, Sound
<1>11. TypeOK' /\ NoFreedConn' /\ HandedOver' /\ \A l \in Conns : Counted(l)'
  <2>1. Fits(c, Held(k), Cardinality(Holders(k)) - Bit(Holds(req[r], k)) + Bit(Holds(q, k)),
             Cardinality(Memories(k)) - Bit(HasMemory(req[r], k)) + Bit(HasMemory(q, k)))
    <3>1. /\ Cardinality(Holders(k)) - Bit(Holds(req[r], k)) + Bit(Holds(q, k)) = Cardinality(Holders(k))
          /\ Cardinality(Memories(k)) - Bit(HasMemory(req[r], k)) + Bit(HasMemory(q, k)) = Cardinality(Memories(k))
      BY <1>2, <1>10, Counts DEF Bit
    <3> QED
      BY <1>9, <3>1
  <2>2. /\ c.dedicated /\ c.out = 0 /\ \A x \in Unanswered(k) \ {r} : req[x].pc \in {"thread", "lost"}
        /\ q.pc \in {"thread", "lost"} /\ req[r].conn \in {k, None}
    BY <1>1, <1>3, <1>7, <1>9
  <2> QED
    BY <1>a, <1>1, <1>2, <1>6, <1>7, <1>8, <2>1, <2>2, RequestMoves
<1>12. RequestsPlaced' /\ ConnectionsPlaced'
  <2>1. /\ c.thread # "none" => c.dedicated /\ ~c.dead
        /\ ~c.dead => (c.watch <=> c.out > 0)
        /\ k \notin loop.batch /\ loop'.run # r /\ loop'.run \in {loop.run, r, None}
        /\ loop'.die => IF loop.cur = k THEN c.thread = "none" ELSE loop.die
        /\ AtThread(q, k) => c.thread = "serves"
        /\ q.pc \notin {"start", "run", "choose", "release"} /\ q \in ReqTypes /\ q.conn = k
    BY <1>2, <1>7, <1>8, <1>9, <1>10, Typed DEF Fits, Inv, ConnectionsPlaced
  <2>2. req' = [req EXCEPT ![r] = q] /\ loop'.cur = loop.cur /\ loop'.batch = loop.batch
    BY <1>6, <1>8
  <2>3. req[r].conn \in {k, None}
    OBVIOUS
  <2> HIDE DEF ok, k
  <2>9. PlaceFits(r, k, q, c)
    BY <1>b, <1>1, <1>2, <1>10, <2>1, <2>2, <2>3 DEF PlaceFits
  <2> QED
    BY <1>2, <2>1, <2>9, PlacedMoves
<1> QED
  BY <1>11, <1>12 DEF Inv

\* The answer is queued on the connection and no longer owed by the request.
LEMMA RespondKeeps ==
  ASSUME Inv, NEW r \in Requests, NEW k \in Conns, k = req[r].conn, Respond(r) PROVE Inv'
<1> DEFINE q == [req[r] EXCEPT !.pc = "choose", !.answered = TRUE]
<1>1. PICK m \in Queued(conn[k]) : conn' = [conn EXCEPT ![k] = [m EXCEPT !.pending = m.pending - 1]]
  BY DEF Respond
<1> DEFINE c == [m EXCEPT !.pending = m.pending - 1]
<1>a. conn' = [conn EXCEPT ![k] = c]
  BY <1>1
<1>b. conn'[k] = c /\ \A l \in Conns \ {k} : conn'[l] = conn[l]
  BY <1>a, Typed
<1>2. /\ loop.run = r /\ req[r].pc = "run" /\ loop' = loop /\ loop' \in LoopTypes /\ touched' = FALSE
      /\ req' = [req EXCEPT ![r] = q]
  <2>1. loop.run = r /\ req[r].pc = "run" /\ loop' = loop /\ touched' = FALSE
    BY Typed, OfConn DEF Respond, Touch
  <2>2. req' = [req EXCEPT ![r] = q]
    BY Typed DEF Respond, ReqTypes
  <2> QED
    BY <2>1, <2>2, Typed
<1>3. q \in ReqTypes /\ q.pc = "choose" /\ q.conn = k /\ q.by = req[r].by /\ q.answered
  BY Typed DEF ReqTypes
<1>4. /\ ~conn[k].dedicated /\ conn[k].thread = "none" /\ conn[k].pending = Cardinality(Unanswered(k))
      /\ r \in Unanswered(k) /\ Waits(req[r], k) /\ HasMemory(req[r], k) /\ Holds(req[r], k) /\ req[r].by # "thread"
  BY <1>2, OwesAnswer, NoThread DEF HasMemory
<1>5. Cardinality(Unanswered(k)) \in Nat /\ Cardinality(Unanswered(k)) > 0
  BY <1>4, Counts, FS_EmptySet
<1>6. /\ Fits(m, Held(k), Cardinality(Holders(k)), Cardinality(Memories(k))) /\ Same(conn[k], m)
  BY <1>4, Typed, Counts, QueuedFits
<1>7. /\ Fits(c, Held(k), Cardinality(Holders(k)), Cardinality(Memories(k)))
      /\ c.pending = conn[k].pending - 1 /\ ~c.dedicated /\ c.thread = "none"
  <2>1. m.pending - 1 \in Nat /\ m.pending = conn[k].pending /\ ~m.dedicated /\ m.thread = "none"
    BY <1>4, <1>5, <1>6 DEF Same
  <2>2. Held(k) \in Nat /\ Cardinality(Holders(k)) \in Nat /\ Cardinality(Memories(k)) \in Nat
    BY Counts
  <2>3. c = [m EXCEPT !.pending = m.pending - 1]
    OBVIOUS
  <2> HIDE DEF c, q
  <2> QED
    BY <1>6, <2>1, <2>2, <2>3, PendingFits
<1> HIDE DEF c, q
<1>8. Holds(q, k) /\ HasMemory(q, k) /\ ~Waits(q, k) /\ ~AtThread(q, k) /\ Sound(q)
  BY <1>3, <1>4 DEF Holds, HasMemory, Waits, AtThread, Sound
<1>9. TypeOK' /\ NoFreedConn' /\ HandedOver' /\ \A l \in Conns : Counted(l)'
  <2>1. Fits(c, Held(k), Cardinality(Holders(k)) - Bit(Holds(req[r], k)) + Bit(Holds(q, k)),
             Cardinality(Memories(k)) - Bit(HasMemory(req[r], k)) + Bit(HasMemory(q, k)))
    <3>1. /\ Cardinality(Holders(k)) - Bit(Holds(req[r], k)) + Bit(Holds(q, k)) = Cardinality(Holders(k))
          /\ Cardinality(Memories(k)) - Bit(HasMemory(req[r], k)) + Bit(HasMemory(q, k)) = Cardinality(Memories(k))
      BY <1>4, <1>8, Counts DEF Bit
    <3> QED
      BY <1>7, <3>1
  <2>2. ~c.dedicated /\ c.pending = Cardinality(Unanswered(k)) - Bit(Waits(req[r], k)) + Bit(Waits(q, k))
    BY <1>4, <1>5, <1>7, <1>8 DEF Bit
  <2> QED
    BY <1>a, <1>2, <1>3, <2>1, <2>2, RequestMoves
<1>10. RequestsPlaced' /\ ConnectionsPlaced'
  <2>1. /\ c.thread # "none" => c.dedicated /\ ~c.dead
        /\ ~c.dead => (c.watch <=> c.out > 0)
    BY <1>7 DEF Fits
  <2>2. /\ loop'.run = r => IF loop.cur = None THEN loop.batch = {} \/ ResumeAtEvent ELSE loop.cur = k
        /\ (k \in loop.batch => ResumeAtEvent) /\ req[r].conn \in {k, None}
        /\ loop'.cur = loop.cur /\ loop'.batch = loop.batch /\ loop'.run = r
        /\ loop'.die => IF loop.cur = k THEN c.thread = "none" ELSE loop.die
    BY <1>2, <1>7, InHand DEF Inv, ConnectionsPlaced
  <2>9. PlaceFits(r, k, q, c)
    BY <1>b, <1>2, <1>3, <1>4, <1>7, <1>8, <2>1, <2>2 DEF PlaceFits
  <2> QED
    BY <2>9, <1>2, <1>3, <1>4, <1>7, <1>8, <2>2, PlacedMoves
<1> QED
  BY <1>9, <1>10 DEF Inv

\* The request is done: the memory it used goes back to its connection.
LEMMA FinishKeeps ==
  ASSUME Inv, NEW r \in Requests, NEW k \in Conns, k = req[r].conn, Finish(r) PROVE Inv'
<1> DEFINE q == [req[r] EXCEPT !.pc = "unref"]
           c == Spared(conn[k])
<1>a. conn' = [conn EXCEPT ![k] = c]
  BY DEF Finish
<1>b. conn'[k] = c /\ \A l \in Conns \ {k} : conn'[l] = conn[l]
  BY <1>a, Typed
<1>1. /\ req[r].pc \in {"finish", "release"} /\ loop' \in LoopTypes /\ touched' = FALSE
      /\ loop'.cur = loop.cur /\ loop'.run = loop.run /\ loop'.batch = loop.batch /\ loop'.die = loop.die
      /\ req' = [req EXCEPT ![r] = q]
  <2>1. req[r].pc \in {"finish", "release"} /\ loop' = loop /\ touched' = FALSE
    BY Typed, OfConn DEF Finish, Touch
  <2>2. req' = [req EXCEPT ![r] = q]
    BY Typed DEF Finish, ReqTypes
  <2> QED
    BY <2>1, <2>2, Typed
<1>2. q \in ReqTypes /\ q.pc = "unref" /\ q.conn = k /\ q.by = req[r].by /\ q.answered = req[r].answered
  BY Typed DEF ReqTypes
<1>3. /\ Holds(req[r], k) /\ HasMemory(req[r], k) /\ ~Waits(req[r], k)
      /\ req[r].by = "thread" => req[r].pc = "finish" /\ AtThread(req[r], k) /\ conn[k].thread = "serves"
  BY <1>1 DEF Holds, HasMemory, Waits, AtThread, Inv, RequestsPlaced
<1>4. Cardinality(Memories(k)) \in Nat /\ Cardinality(Memories(k)) > 0
  BY <1>1, OfConn, Counts
<1>5. /\ Fits(c, Held(k), Cardinality(Holders(k)), Cardinality(Memories(k)) - 1)
      /\ Same(conn[k], c) /\ c.out = conn[k].out /\ c.dead = conn[k].dead
  <2>1. /\ Cardinality(Memories(k)) - 1 \in Nat /\ Cardinality(Memories(k)) - 1 < Cardinality(Holders(k))
        /\ (Cardinality(Memories(k)) - 1) + 1 = Cardinality(Memories(k))
        /\ Held(k) \in Nat /\ Cardinality(Holders(k)) \in Nat
    BY <1>4, Counts
  <2>2. Fits(conn[k], Held(k), Cardinality(Holders(k)), (Cardinality(Memories(k)) - 1) + 1)
    BY <2>1, Typed
  <2> QED
    BY <2>1, <2>2, SparedFits
<1> HIDE DEF c, q
<1>6. /\ Holds(q, k) /\ ~HasMemory(q, k) /\ ~Waits(q, k) /\ Sound(q)
      /\ AtThread(q, k) => AtThread(req[r], k) /\ conn[k].thread = "serves"
  BY <1>2, <1>3 DEF Holds, HasMemory, Waits, AtThread, Sound
<1>7. TypeOK' /\ NoFreedConn' /\ HandedOver' /\ \A l \in Conns : Counted(l)'
  <2>1. Fits(c, Held(k), Cardinality(Holders(k)) - Bit(Holds(req[r], k)) + Bit(Holds(q, k)),
             Cardinality(Memories(k)) - Bit(HasMemory(req[r], k)) + Bit(HasMemory(q, k)))
    <3>1. /\ Cardinality(Holders(k)) - Bit(Holds(req[r], k)) + Bit(Holds(q, k)) = Cardinality(Holders(k))
          /\ Cardinality(Memories(k)) - Bit(HasMemory(req[r], k)) + Bit(HasMemory(q, k)) = Cardinality(Memories(k)) - 1
      BY <1>3, <1>6, Counts DEF Bit
    <3> QED
      BY <1>5, <3>1
  <2>2. IF c.dedicated
          THEN /\ c.out = 0
               /\ \A x \in Unanswered(k) \ {r} : req[x].pc \in {"thread", "lost"}
               /\ Waits(q, k) => q.pc \in {"thread", "lost"}
          ELSE c.pending = Cardinality(Unanswered(k)) - Bit(Waits(req[r], k)) + Bit(Waits(q, k))
    BY <1>3, <1>5, <1>6, Counts DEF Bit, Same, Inv, HandedOver
  <2> QED
    BY <1>a, <1>1, <1>2, <2>1, <2>2, RequestMoves
<1>8. RequestsPlaced' /\ ConnectionsPlaced'
  <2>1. /\ c.thread # "none" => c.dedicated /\ ~c.dead
        /\ ~c.dead => (c.watch <=> c.out > 0)
        /\ c.thread = conn[k].thread /\ c.dedicated = conn[k].dedicated /\ c.dead = conn[k].dead
    BY <1>5 DEF Fits, Same
  <2>2. /\ loop.run = r => IF loop.cur = None THEN loop.batch = {} \/ ResumeAtEvent ELSE loop.cur = k
        /\ k \in loop.batch => ~c.dedicated /\ (c.dead => ResumeAtEvent)
        /\ req[r].conn \in {k, None}
        /\ loop'.die => IF loop.cur = k THEN c.thread = "none" ELSE loop.die
    BY <1>1, <1>5, <2>1, InHand DEF Inv, ConnectionsPlaced
  <2>3. /\ \/ loop.run \in {None, r}
           \/ loop'.run = loop.run /\ loop'.die = loop.die /\ c.dead = conn[k].dead /\ c.dedicated = conn[k].dedicated
        /\ loop'.run \in {loop.run, r, None}
        /\ loop'.run = r => IF loop.cur = None THEN loop.batch = {} \/ ResumeAtEvent ELSE loop.cur = k
        /\ AtThread(q, k) => c.thread = "serves" /\ (conn[k].thread # "serves" \/ AtThread(req[r], k))
        /\ conn[k].thread = "serves" => c.thread = "serves" \/ AtThread(req[r], k)
        /\ q.pc \notin {"start", "run", "choose", "release"}
    BY <1>1, <1>2, <1>6, <2>1, <2>2
  <2>9. PlaceFits(r, k, q, c)
    BY <1>b, <1>1, <1>2, <1>6, <2>1, <2>2, <2>3 DEF PlaceFits
  <2> QED
    BY <2>9, <1>1, <1>2, <1>6, <2>2, PlacedMoves
<1> QED
  BY <1>7, <1>8 DEF Inv

\* The request drops its reference, and the last one frees the connection.
LEMMA ReleaseKeeps ==
  ASSUME Inv, NEW r \in Requests, NEW k \in Conns, k = req[r].conn, Release(r) PROVE Inv'
<1> DEFINE q == [req[r] EXCEPT !.pc = "gone"]
           u == Unref(conn[k])
           c == IF req[r].by = "thread" THEN [u EXCEPT !.thread = "reads"] ELSE u
<1>a. conn' = [conn EXCEPT ![k] = c]
  BY DEF Release
<1>b. conn'[k] = c /\ \A l \in Conns \ {k} : conn'[l] = conn[l]
  BY <1>a, Typed
<1>1. /\ req[r].pc = "unref" /\ touched' = FALSE /\ req' = [req EXCEPT ![r] = q]
      /\ loop' = IF loop.run = r THEN [loop EXCEPT !.run = None] ELSE loop
  <2>1. /\ req[r].pc = "unref" /\ touched' = FALSE
        /\ loop' = IF loop.run = r THEN [loop EXCEPT !.run = None] ELSE loop
    BY Typed, OfConn DEF Release, Touch
  <2>2. req' = [req EXCEPT ![r] = q]
    BY Typed DEF Release, ReqTypes
  <2> QED
    BY <2>1, <2>2
<1>2. q \in ReqTypes /\ q.pc = "gone" /\ q.conn = k /\ q.by = req[r].by
  BY Typed DEF ReqTypes
<1>3. /\ Holds(req[r], k) /\ ~HasMemory(req[r], k) /\ ~Waits(req[r], k)
      /\ req[r].by = "thread" => AtThread(req[r], k) /\ conn[k].thread = "serves"
  BY <1>1 DEF Holds, HasMemory, Waits, AtThread, Inv, RequestsPlaced
<1>4. /\ Cardinality(Holders(k)) - 1 \in Nat /\ Cardinality(Memories(k)) \in Nat /\ Held(k) \in Nat
      /\ Cardinality(Memories(k)) <= Cardinality(Holders(k)) - 1
      /\ (Cardinality(Holders(k)) - 1) + 1 = Cardinality(Holders(k))
  <2>1. r \in Holders(k) /\ IsFiniteSet(Holders(k)) /\ Memories(k) \subseteq Holders(k) \ {r}
    BY <1>1, <1>3 DEF Holders, Memories, Holds, Inv, Counted
  <2>2. IsFiniteSet(Holders(k) \ {r}) /\ Cardinality(Holders(k) \ {r}) = Cardinality(Holders(k)) - 1
    BY <2>1, FS_RemoveElement
  <2>3. Cardinality(Memories(k)) <= Cardinality(Holders(k) \ {r}) /\ Cardinality(Holders(k) \ {r}) \in Nat
    BY <2>1, <2>2, FS_Subset, FS_CardinalityType
  <2> QED
    BY <2>2, <2>3, Counts
<1>5. /\ Fits(u, Held(k), Cardinality(Holders(k)) - 1, Cardinality(Memories(k)))
      /\ Same(conn[k], u) /\ u.out = conn[k].out /\ u.dead = conn[k].dead
  <2>1. Fits(conn[k], Held(k), (Cardinality(Holders(k)) - 1) + 1, Cardinality(Memories(k)))
    BY <1>4, Typed
  <2> QED
    BY <1>4, <2>1, UnrefOfRequest
<1> HIDE DEF u
<1>6. /\ Fits(c, Held(k), Cardinality(Holders(k)) - 1, Cardinality(Memories(k)))
      /\ c.thread = (IF req[r].by = "thread" THEN "reads" ELSE conn[k].thread)
      /\ c.dedicated = conn[k].dedicated /\ c.pending = conn[k].pending /\ c.out = conn[k].out
      /\ c.dead = conn[k].dead
  <2>1. CASE req[r].by # "thread"
    BY <1>5, <2>1 DEF Same
  <2>2. CASE req[r].by = "thread"
    <3>1. u.dedicated /\ ~u.dead /\ u.thread # "ended" /\ c = [u EXCEPT !.thread = "reads"]
      BY <1>3, <1>5, <2>2 DEF Fits, Same
    <3> HIDE DEF c
    <3>2. /\ Fits(c, Held(k), Cardinality(Holders(k)) - 1, Cardinality(Memories(k))) /\ c.thread = "reads"
          /\ c.dedicated = u.dedicated /\ c.pending = u.pending /\ c.out = u.out /\ c.dead = u.dead
      <4>1. /\ Fits(u, Held(k), Cardinality(Holders(k)) - 1, Cardinality(Memories(k)))
            /\ Cardinality(Holders(k)) - 1 \in Nat /\ Cardinality(Memories(k)) \in Nat /\ Held(k) \in Nat
        BY <1>4, <1>5
      <4>2. /\ c \in ConnTypes /\ c.thread = "reads" /\ c.refs = u.refs /\ c.mems = u.mems /\ c.spare = u.spare
            /\ c.freed = u.freed /\ c.dead = u.dead /\ c.watch = u.watch /\ c.out = u.out
            /\ c.dedicated = u.dedicated /\ c.pending = u.pending
        BY <3>1, <4>1 DEF Fits, ConnTypes
      <4> QED
        BY <3>1, <4>1, <4>2 DEF Fits, Bit
    <3> QED
      BY <1>5, <2>2, <3>2 DEF Same
  <2> QED
    BY <2>1, <2>2
<1> HIDE DEF c, q
<1>7. ~Holds(q, k) /\ ~HasMemory(q, k) /\ ~Waits(q, k) /\ ~AtThread(q, k) /\ Sound(q)
  BY <1>1, <1>2 DEF Holds, HasMemory, Waits, AtThread, Sound, Inv, RequestsPlaced
<1>8. /\ loop' \in LoopTypes /\ loop'.run = (IF loop.run = r THEN None ELSE loop.run)
      /\ loop'.cur = loop.cur /\ loop'.batch = loop.batch /\ loop'.die = loop.die
  BY <1>1, Typed, RunFields
<1>9. TypeOK' /\ NoFreedConn' /\ HandedOver' /\ \A l \in Conns : Counted(l)'
  <2>1. Fits(c, Held(k), Cardinality(Holders(k)) - Bit(Holds(req[r], k)) + Bit(Holds(q, k)),
             Cardinality(Memories(k)) - Bit(HasMemory(req[r], k)) + Bit(HasMemory(q, k)))
    <3>1. /\ Cardinality(Holders(k)) - Bit(Holds(req[r], k)) + Bit(Holds(q, k)) = Cardinality(Holders(k)) - 1
          /\ Cardinality(Memories(k)) - Bit(HasMemory(req[r], k)) + Bit(HasMemory(q, k)) = Cardinality(Memories(k))
      BY <1>3, <1>7, Counts DEF Bit
    <3> QED
      BY <1>6, <3>1
  <2>2. IF c.dedicated
          THEN /\ c.out = 0
               /\ \A x \in Unanswered(k) \ {r} : req[x].pc \in {"thread", "lost"}
               /\ Waits(q, k) => q.pc \in {"thread", "lost"}
          ELSE c.pending = Cardinality(Unanswered(k)) - Bit(Waits(req[r], k)) + Bit(Waits(q, k))
    BY <1>3, <1>6, <1>7, Counts DEF Bit, Inv, HandedOver
  <2> QED
    BY <1>a, <1>1, <1>2, <1>8, <2>1, <2>2, RequestMoves
<1>10. RequestsPlaced' /\ ConnectionsPlaced'
  <2>1. /\ c.thread # "none" => c.dedicated /\ ~c.dead
        /\ ~c.dead => (c.watch <=> c.out > 0)
        /\ conn[k].thread = "serves" => c.thread = "serves" \/ AtThread(req[r], k)
        /\ c.dead = conn[k].dead /\ c.dedicated = conn[k].dedicated
        /\ q.pc \notin {"start", "run", "choose", "release"} /\ q \in ReqTypes /\ q.conn = k
    BY <1>2, <1>3, <1>6 DEF Fits
  <2>2. /\ loop'.run # r /\ loop'.run \in {loop.run, r, None} /\ (loop.run = r \/ loop'.run = loop.run)
        /\ k \in loop.batch => ~c.dedicated /\ (c.dead => ResumeAtEvent)
        /\ req[r].conn \in {k, None}
        /\ loop'.die => IF loop.cur = k THEN c.thread = "none" ELSE loop.die
    <3>1. /\ loop'.run # r /\ loop'.run \in {loop.run, r, None} /\ (loop.run = r \/ loop'.run = loop.run)
          /\ req[r].conn \in {k, None}
      BY <1>8, Typed
    <3>2. k \in loop.batch => ~c.dedicated /\ (c.dead => ResumeAtEvent)
      BY <1>6 DEF Inv, ConnectionsPlaced
    <3>3. loop'.die => IF loop.cur = k THEN c.thread = "none" ELSE loop.die
      BY <1>3, <1>6, <1>8 DEF Inv, ConnectionsPlaced
    <3> QED
      BY <3>1, <3>2, <3>3
  <2>3. /\ \/ loop.run \in {None, r}
           \/ loop'.run = loop.run /\ loop'.die = loop.die /\ c.dead = conn[k].dead /\ c.dedicated = conn[k].dedicated
        /\ loop'.cur = loop.cur /\ loop'.batch = loop.batch /\ req' = [req EXCEPT ![r] = q]
    BY <1>1, <1>8, <2>1, <2>2
  <2>9. PlaceFits(r, k, q, c)
    BY <1>b, <1>7, <2>1, <2>2, <2>3 DEF PlaceFits
  <2> QED
    BY <1>2, <2>1, <2>9, PlacedMoves
<1> QED
  BY <1>9, <1>10 DEF Inv

-----------------------------------------------------------------------------
(* The theorems                                                            *)

\* No connection and no request: the invariant holds at the start.
LEMMA InitInv == Init => Inv
<1> SUFFICES ASSUME Init PROVE Inv
  OBVIOUS
<1>1. /\ conn = [k \in Conns |-> NewConn] /\ req = [r \in Requests |-> NewReq] /\ loop = IdleLoop /\ touched = FALSE
      /\ None \notin Conns /\ None \notin Requests
  BY ServerAssumption DEF Init
<1>2. TypeOK
  BY <1>1 DEF TypeOK, ConnTypes, ReqTypes, LoopTypes, NewConn, NewReq, IdleLoop
<1>3. \A k \in Conns : Holders(k) = {} /\ Memories(k) = {} /\ Unanswered(k) = {}
  BY <1>1 DEF Holders, Memories, Unanswered, NewReq
<1>4. ASSUME NEW k \in Conns PROVE Counted(k)
  <2>1. IsFiniteSet(Holders(k)) /\ Cardinality(Holders(k)) = 0 /\ Cardinality(Memories(k)) = 0
    BY <1>3, FS_EmptySet
  <2>2. Held(k) = 0
    BY <1>1 DEF Held, IdleLoop, Bit
  <2>3. conn[k] = NewConn /\ NewConn \in ConnTypes
    BY <1>1 DEF NewConn, ConnTypes
  <2> QED
    <3>1. /\ conn[k].refs = 1 /\ ~conn[k].dead /\ conn[k].thread = "none" /\ ~conn[k].freed /\ conn[k].mems = 0
          /\ ~conn[k].spare /\ ~conn[k].watch /\ conn[k].out = 0 /\ conn[k].freed = FALSE
      BY <2>3 DEF NewConn
    <3>2. Fits(conn[k], 0, 0, 0)
      <4>1. conn[k] \in ConnTypes
        BY <2>3
      <4>2. Bit(~conn[k].dead /\ conn[k].thread # "ended") = 1 /\ Bit(conn[k].spare) = 0
        BY <3>1 DEF Bit
      <4>3. conn[k].refs = Bit(~conn[k].dead /\ conn[k].thread # "ended") + 0 + 0
        BY <3>1, <4>2
      <4>4. conn[k].mems = 0 + Bit(conn[k].spare)
        BY <3>1, <4>2
      <4>6. conn[k].freed = (conn[k].refs = 0)
        BY <3>1, <4>1, ConnFields
      <4>5. ~conn[k].dead => (conn[k].watch <=> conn[k].out > 0)
        BY <3>1
      <4> QED
        BY <3>1, <4>1, <4>3, <4>4, <4>5, <4>6 DEF Fits
    <3> QED
      BY <2>1, <2>2, <3>2 DEF Counted
<1>5. HandedOver
  BY <1>1, <1>3, FS_EmptySet DEF HandedOver, NewConn
<1>6. RequestsPlaced /\ ConnectionsPlaced
  BY <1>1 DEF RequestsPlaced, ConnectionsPlaced, NewReq, NewConn, IdleLoop
<1> QED
  BY <1>1, <1>2, <1>4, <1>5, <1>6 DEF Inv, NoFreedConn

\* Every step keeps the invariant.
LEMMA InvStep ==
  ASSUME Inv, [Next]_vars PROVE Inv'
<1>1. CASE UNCHANGED vars
  <2> USE <1>1 DEF vars
  <2>1. \A k \in Conns : /\ Holders(k)' = Holders(k) /\ Memories(k)' = Memories(k)
                         /\ Unanswered(k)' = Unanswered(k) /\ Held(k)' = Held(k)
    BY DEF Holders, Memories, Unanswered, Held
  <2>2. (\A k \in Conns : Counted(k)') /\ HandedOver'
    BY <2>1 DEF Inv, Counted, HandedOver
  <2>3. TypeOK' /\ NoFreedConn' /\ RequestsPlaced' /\ ConnectionsPlaced'
    BY DEF Inv, TypeOK, NoFreedConn, RequestsPlaced, ConnectionsPlaced
  <2> QED
    BY <2>2, <2>3 DEF Inv
<1>2. CASE EpollWait
  BY <1>2, EpollWaitKeeps
<1>3. ASSUME NEW k \in Conns,
             NextEvent(k) \/ StaleEvent(k) \/ HandleOutput(k) \/ Hello(k) \/ StartFailed(k) \/ HandleEnd(k) \/ PeerGone(k) \/ ThreadEnd(k)
      PROVE  Inv'
  BY <1>3, NextEventKeeps, StaleEventKeeps, HandleOutputKeeps, HelloKeeps, StartFailedKeeps, HandleEndKeeps, PeerGoneKeeps,
     ThreadEndKeeps
<1>4. ASSUME NEW k \in Conns, NEW r \in Requests, Request(k, r) \/ BadRequest(k, r) \/ ThreadRequest(k, r)
      PROVE  Inv'
  BY <1>4, RequestKeeps, BadRequestKeeps, ThreadRequestKeeps
<1>5. ASSUME NEW r \in Requests,
             \/ StartInline(r) \/ StartCoroutine(r) \/ Dedicate(r) \/ Yield(r) \/ Resume(r)
             \/ FinishOnLoop(r) \/ FinishOnWorker(r)
             \/ loop.run # r /\ ThreadServe(r)
      PROVE  Inv'
  BY <1>5, StartInlineKeeps, DedicateKeeps, YieldKeeps, ResumeKeeps, FinishPlaceKeeps, ThreadServeKeeps
<1>6. ASSUME NEW r \in Requests, Respond(r) \/ Finish(r) \/ Release(r)
      PROVE  Inv'
  <2>1. req[r].conn \in Conns
    BY <1>6, OfConn DEF Respond, Finish, Release
  <2> QED
    BY <1>6, <2>1, RespondKeeps, FinishKeeps, ReleaseKeeps
<1> QED
  BY <1>1, <1>2, <1>3, <1>4, <1>5, <1>6 DEF Next, LoopStep, Peer, OffLoop

\* An event can be stale only where coroutines are resumed inside a batch.
LEMMA StaleStep ==
  ASSUME Inv, stale \in {FALSE, ResumeAtEvent}, [Next]_vars
  PROVE  stale' \in {FALSE, ResumeAtEvent}
<1>1. ASSUME NEW k \in Conns, StaleEvent(k) PROVE stale' \in {FALSE, ResumeAtEvent}
  <2>1. ~conn[k].dedicated /\ (conn[k].dead => ResumeAtEvent) /\ conn[k].freed
    BY <1>1 DEF StaleEvent, Inv, ConnectionsPlaced
  <2>2. conn[k].thread = "none" /\ conn[k].refs = 0
    BY <2>1, Typed DEF Fits
  <2>3. conn[k].dead
    BY <2>2, Typed, Counts, ConnFields DEF Fits, Bit
  <2> QED
    BY <1>1, <2>1, <2>3, ServerAssumption DEF StaleEvent
<1> QED
  BY <1>1 DEF Next, LoopStep, Peer, OffLoop, EpollWait, NextEvent, HandleOutput, Hello, PeerGone, StartFailed, HandleEnd,
              Request, BadRequest, StartInline, StartCoroutine, Dedicate, Yield, Resume, Respond, FinishOnLoop,
              FinishOnWorker, Finish, Release, ThreadServe, ThreadRequest, ThreadEnd, Touch, vars

\* The lifetime of a connection of the cor:// server (corRestCor.c, connRef,
\* connUnref, reqRelease): its references are its holders, it is freed with the
\* last and not touched after, its requests' memory goes with it - whichever way
\* corCoLoopEvent resumes coroutines, up to an event that is stale, which there is
\* only where it does so inside a batch of events.
THEOREM LifetimeSafe == Spec => []LifetimeInv
<1>1. Inv /\ stale \in {FALSE, ResumeAtEvent} => LifetimeInv
  BY InvImplies DEF LifetimeInv
<1>2. Inv /\ [Next]_vars => Inv'
  BY InvStep
<1>3. Init => stale \in {FALSE, ResumeAtEvent}
  BY DEF Init
<1>4. Inv /\ stale \in {FALSE, ResumeAtEvent} /\ [Next]_vars => (stale \in {FALSE, ResumeAtEvent})'
  BY StaleStep
<1> QED
  BY <1>1, <1>2, <1>3, <1>4, InitInv, PTL DEF Spec

\* The loop has nothing more to write to a connection it has handed to a thread
\* (connDedicate), and pending tells it whether it may.
THEOREM DedicatedAlone == Spec => []LoopLetsGo
<1>1. Inv => LoopLetsGo
  BY DEF Inv, LoopLetsGo
<1>2. Inv /\ [Next]_vars => Inv'
  BY InvStep
<1> QED
  BY <1>1, <1>2, InitInv, PTL DEF Spec
=============================================================================
