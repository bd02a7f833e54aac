-------------------------- MODULE ClientPool_proofs --------------------------
(***************************************************************************)
(* What the operations of the pool of idle connections do to it, for any   *)
(* number of connections and hosts, any hash, limit and timeout: HttpClient*)
(* and ClientMulti, whose steps they are, cite these lemmas.               *)
(***************************************************************************)
EXTENDS ClientPool, FiniteSetTheorems, SequenceTheorems, WellFoundedInduction, TLAPS

-----------------------------------------------------------------------------
(* A bucket                                                                *)

\* Min of the indices found is one of them.
LEMMA MinIsIn ==
  ASSUME NEW X, X \subseteq Nat, X # {}
  PROVE  Min(X) \in X
<1>1. PICK x \in X : \A y \in X : <<y, x>> \notin OpToRel(<, Nat)
  BY NatLessThanWellFounded, WFMin
<1>2. \A y \in X : ~ (y < x)
  BY <1>1 DEF OpToRel
<1>3. \A y \in X : x =< y
  BY <1>2
<1> QED
  BY <1>3 DEF Min

\* Taking one connection out of a bucket takes out that one.
LEMMA OneOut ==
  ASSUME NEW S, NEW s \in Seq(S), IsInjective(s), NEW i \in DOMAIN s
  PROVE  /\ RemoveAt(s, i) \in Seq(S)
         /\ IsInjective(RemoveAt(s, i))
         /\ Len(RemoveAt(s, i)) = Len(s) - 1
         /\ ToSet(RemoveAt(s, i)) = ToSet(s) \ {s[i]}
<1> DEFINE p == SubSeq(s, 1, i - 1)
           q == SubSeq(s, i + 1, Len(s))
           r == RemoveAt(s, i)
<1>1. Len(s) \in Nat /\ DOMAIN s = 1 .. Len(s) /\ i \in 1 .. Len(s) /\ \A k \in 1 .. Len(s) : s[k] \in S
  BY LenProperties, ElementOfSeq
<1>2. p \in Seq(S) /\ Len(p) = i - 1 /\ \A k \in 1 .. i - 1 : p[k] = s[k]
  BY <1>1, SubSeqProperties
<1>3. q \in Seq(S) /\ Len(q) = Len(s) - i /\ \A k \in 1 .. Len(s) - i : q[k] = s[i + k]
  BY <1>1, SubSeqProperties
<1>p. r = p \o q
  BY DEF RemoveAt
<1> HIDE DEF p, q, r
<1>c. /\ p \o q \in Seq(S) /\ Len(p \o q) = Len(p) + Len(q)
      /\ \A k \in 1 .. Len(p) + Len(q) : (p \o q)[k] = IF k <= Len(p) THEN p[k] ELSE q[k - Len(p)]
  BY <1>2, <1>3, ConcatProperties
<1>4. r \in Seq(S) /\ Len(r) = Len(s) - 1 /\ DOMAIN r = 1 .. Len(s) - 1
  <2>1. r \in Seq(S)
    BY <1>p, <1>c
  <2>2. Len(r) = Len(s) - 1
    BY <1>1, <1>2, <1>3, <1>p, <1>c
  <2> QED
    BY <2>1, <2>2, LenProperties
<1>5. \A k \in 1 .. Len(s) - 1 : r[k] = IF k < i THEN s[k] ELSE s[k + 1]
  <2> SUFFICES ASSUME NEW k \in 1 .. Len(s) - 1 PROVE r[k] = IF k < i THEN s[k] ELSE s[k + 1]
    OBVIOUS
  <2>1. CASE k < i
    BY <1>1, <1>2, <1>3, <1>p, <1>c, <2>1
  <2>2. CASE k >= i
    <3>1. k - (i - 1) \in 1 .. Len(s) - i /\ i + (k - (i - 1)) = k + 1
      BY <1>1, <2>2
    <3>2. r[k] = q[k - (i - 1)]
      <4>1. Len(p) = i - 1 /\ k \in 1 .. Len(p) + Len(q) /\ ~(k <= Len(p))
        BY <1>1, <1>2, <1>3, <2>2
      <4>2. r[k] = q[k - Len(p)]
        BY <1>p, <1>c, <4>1
      <4> QED
        BY <4>1, <4>2
    <3>3. q[k - (i - 1)] = s[i + (k - (i - 1))]
      BY <1>3, <3>1
    <3> QED
      BY <3>1, <3>2, <3>3, <1>1, <2>2
  <2> QED
    BY <1>1, <2>1, <2>2
<1>6. IsInjective(r)
  <2> SUFFICES ASSUME NEW a \in 1 .. Len(s) - 1, NEW b \in 1 .. Len(s) - 1, r[a] = r[b] PROVE a = b
    BY <1>4 DEF IsInjective
  <2> QED
    BY <1>1, <1>5 DEF IsInjective
<1>7. ToSet(r) \subseteq ToSet(s) \ {s[i]}
  <2> SUFFICES ASSUME NEW a \in 1 .. Len(s) - 1 PROVE r[a] \in ToSet(s) \ {s[i]}
    BY <1>4 DEF ToSet
  <2> QED
    BY <1>1, <1>5 DEF IsInjective, ToSet
<1>8. ToSet(s) \ {s[i]} \subseteq ToSet(r)
  <2> SUFFICES ASSUME NEW a \in 1 .. Len(s), a # i PROVE s[a] \in ToSet(r)
    BY <1>1 DEF ToSet
  <2>1. CASE a < i
    BY <1>1, <1>4, <1>5, <2>1 DEF ToSet
  <2>2. CASE a > i
    <3>1. a - 1 \in 1 .. Len(s) - 1 /\ r[a - 1] = s[a]
      BY <1>1, <1>5, <2>2
    <3> QED
      BY <3>1, <1>4 DEF ToSet
  <2> QED
    BY <1>1, <2>1, <2>2
<1> QED
  BY <1>4, <1>6, <1>7, <1>8 DEF r

\* Putting one that is not there first adds that one.
LEMMA OneIn ==
  ASSUME NEW S, NEW s \in Seq(S), IsInjective(s), NEW c \in S, c \notin ToSet(s)
  PROVE  /\ <<c>> \o s \in Seq(S)
         /\ IsInjective(<<c>> \o s)
         /\ Len(<<c>> \o s) = Len(s) + 1
         /\ ToSet(<<c>> \o s) = ToSet(s) \cup {c}
<1> DEFINE r == <<c>> \o s
<1>1. Len(s) \in Nat /\ DOMAIN s = 1 .. Len(s)
  BY LenProperties
<1>2. <<c>> \in Seq(S) /\ Len(<<c>>) = 1 /\ <<c>>[1] = c
  OBVIOUS
<1>3. r \in Seq(S) /\ Len(r) = Len(s) + 1 /\ \A k \in 1 .. Len(s) + 1 : r[k] = IF k = 1 THEN c ELSE s[k - 1]
  BY <1>1, <1>2, ConcatProperties
<1>4. DOMAIN r = 1 .. Len(s) + 1
  BY <1>3, LenProperties
<1> HIDE DEF r
<1>5. IsInjective(r)
  <2> SUFFICES ASSUME NEW a \in 1 .. Len(s) + 1, NEW b \in 1 .. Len(s) + 1, r[a] = r[b] PROVE a = b
    BY <1>4 DEF IsInjective
  <2>1. ASSUME NEW k \in 2 .. Len(s) + 1 PROVE r[k] = s[k - 1] /\ k - 1 \in 1 .. Len(s) /\ r[k] # c
    <3>1. k - 1 \in 1 .. Len(s) /\ k \in 1 .. Len(s) + 1 /\ k # 1
      BY <1>1
    <3>2. s[k - 1] # c
      BY <1>1, <3>1 DEF ToSet
    <3> QED
      BY <1>3, <3>1, <3>2
  <2>2. r[1] = c
    BY <1>1, <1>3
  <2>3. \A k \in 1 .. Len(s), l \in 1 .. Len(s) : s[k] = s[l] => k = l
    BY <1>1 DEF IsInjective
  <2>4. CASE a = 1 \/ b = 1
    BY <1>1, <2>1, <2>2, <2>4
  <2>5. CASE a # 1 /\ b # 1
    <3>1. a \in 2 .. Len(s) + 1 /\ b \in 2 .. Len(s) + 1
      BY <1>1, <2>5
    <3> QED
      BY <1>1, <2>1, <2>3, <3>1
  <2> QED
    BY <2>4, <2>5
<1>6. ToSet(r) \subseteq ToSet(s) \cup {c}
  BY <1>1, <1>3, <1>4 DEF ToSet
<1>7. ToSet(s) \cup {c} \subseteq ToSet(r)
  <2>1. c \in ToSet(r)
    BY <1>1, <1>3, <1>4 DEF ToSet
  <2>2. ASSUME NEW a \in 1 .. Len(s) PROVE s[a] \in ToSet(r)
    <3>1. a + 1 \in 1 .. Len(s) + 1 /\ r[a + 1] = s[a]
      BY <1>1, <1>3
    <3> QED
      BY <3>1, <1>4 DEF ToSet
  <2> QED
    BY <2>1, <2>2, <1>1 DEF ToSet
<1> QED
  BY <1>3, <1>5, <1>6, <1>7 DEF r

-----------------------------------------------------------------------------
(* The pool: how many it has, and that each is there once, in its bucket   *)

\* The pool's part of an invariant.  That the idle connections are finitely many
\* is what makes them countable.
PoolRight == PoolTypeOK /\ PoolCounted /\ PoolSound /\ IsFiniteSet(Pooled)

\* An empty pool is right.
LEMMA PoolStarts == PoolInit => PoolRight
<1> SUFFICES ASSUME PoolInit PROVE PoolRight
  OBVIOUS
<1>1. Pooled = {} /\ \A b \in Buckets : bucket[b] = <<>> /\ Idle(b) = {} /\ IsInjective(bucket[b])
  BY DEF PoolInit, Pooled, Idle, ToSet, IsInjective
<1>2. IsFiniteSet(Pooled) /\ Cardinality(Pooled) = 0
  BY <1>1, FS_EmptySet
<1>3. PoolTypeOK
  BY ClientPoolAssumption DEF PoolInit, PoolTypeOK
<1>4. PoolCounted /\ PoolSound
  BY <1>1, <1>2, ClientPoolAssumption DEF PoolInit, PoolCounted, PoolSound
<1> QED
  BY <1>2, <1>3, <1>4 DEF PoolRight

\* What is in the pool exists, and is in one bucket only.
LEMMA PoolFacts ==
  ASSUME PoolRight
  PROVE  /\ \A h \in Hosts : BucketOf[h] \in Buckets
         /\ \A b \in Buckets : bucket[b] \in Seq(Conns) /\ IsInjective(bucket[b]) /\ count[b] = Len(bucket[b])
         /\ Pooled \subseteq open /\ Pooled \subseteq Conns /\ None \notin Pooled /\ IsFiniteSet(Pooled)
         /\ \A b \in Buckets : \A c \in Idle(b) : BucketOf[hostOf[c]] = b
         /\ totalIdle = Cardinality(Pooled)
<1>1. Pooled \subseteq open
  BY DEF PoolRight, PoolSound, Pooled
<1> QED
  BY <1>1, ClientPoolAssumption DEF PoolRight, PoolTypeOK, PoolCounted, PoolSound, Buckets

\* The pool, and all it looks at, is as it was.
LEMMA PoolStays ==
  ASSUME PoolRight, UNCHANGED <<bucket, count, totalIdle>>, clock' \in 0 .. MaxTime, lastUsed' = lastUsed,
         hostOf' \in [Conns -> Hosts \cup {None}], open' \subseteq Conns, \A c \in open' : hostOf'[c] \in Hosts,
         \A c \in Pooled : c \in open' /\ hostOf'[c] = hostOf[c]
  PROVE  PoolRight' /\ Pooled' = Pooled /\ \A b \in Buckets : Idle(b)' = Idle(b)
<1>1. Pooled' = Pooled /\ \A b \in Buckets : Idle(b)' = Idle(b)
  BY DEF Pooled, Idle
<1>2. PoolTypeOK' /\ PoolCounted'
  BY <1>1 DEF PoolRight, PoolTypeOK, PoolCounted
<1>3. PoolSound'
  BY <1>1 DEF PoolRight, PoolSound, Pooled
<1> QED
  BY <1>1, <1>2, <1>3 DEF PoolRight

\* Making a connection leaves the pool alone.
LEMMA MakeKeeps ==
  ASSUME PoolRight, NEW c \in Conns, NEW h \in Hosts, Make(c, h)
  PROVE  PoolRight' /\ Pooled' = Pooled /\ \A b \in Buckets : Idle(b)' = Idle(b)
<1>1. \A d \in Pooled : d # c
  BY PoolFacts DEF Make
<1>2. Pooled \subseteq open
  BY PoolFacts
<1>3. hostOf' \in [Conns -> Hosts \cup {None}] /\ \A d \in open' : hostOf'[d] \in Hosts
  BY DEF PoolRight, PoolTypeOK, Make
<1>4. /\ UNCHANGED <<bucket, count, totalIdle>> /\ clock' \in 0 .. MaxTime /\ lastUsed' = lastUsed
      /\ open' \subseteq Conns
      /\ \A d \in Pooled : d \in open' /\ hostOf'[d] = hostOf[d]
  BY <1>1, <1>2 DEF Make, PoolRight, PoolTypeOK
<1> QED
  BY <1>3, <1>4, PoolStays

\* Closing one that is in use leaves the pool alone.
LEMMA CloseKeeps ==
  ASSUME PoolRight, NEW c, c \notin Pooled, Close(c)
  PROVE  PoolRight' /\ Pooled' = Pooled /\ \A b \in Buckets : Idle(b)' = Idle(b)
<1>1. Pooled \subseteq open
  BY PoolFacts
<1>2. /\ UNCHANGED <<bucket, count, totalIdle>> /\ clock' \in 0 .. MaxTime /\ lastUsed' = lastUsed
      /\ hostOf' \in [Conns -> Hosts \cup {None}] /\ open' \subseteq Conns
      /\ \A d \in open' : hostOf'[d] \in Hosts
      /\ \A d \in Pooled : d \in open' /\ hostOf'[d] = hostOf[d]
  BY <1>1 DEF Close, PoolRight, PoolTypeOK
<1> QED
  BY <1>2, PoolStays

\* One tick of the clock leaves it alone.
LEMMA TickKeeps ==
  ASSUME PoolRight, Tick
  PROVE  PoolRight' /\ Pooled' = Pooled /\ \A b \in Buckets : Idle(b)' = Idle(b)
<1>1. Pooled \subseteq open
  BY PoolFacts
<1>2. clock' \in 0 .. MaxTime
  <2>1. clock \in 0 .. MaxTime /\ clock < MaxTime /\ clock' = clock + 1
    BY DEF Tick, PoolRight, PoolTypeOK
  <2> QED
    BY <2>1, ClientPoolAssumption
<1>3. /\ UNCHANGED <<bucket, count, totalIdle>> /\ lastUsed' = lastUsed
      /\ hostOf' \in [Conns -> Hosts \cup {None}] /\ open' \subseteq Conns
      /\ \A d \in open' : hostOf'[d] \in Hosts
      /\ \A d \in Pooled : d \in open' /\ hostOf'[d] = hostOf[d]
  BY <1>1 DEF Tick, PoolRight, PoolTypeOK
<1> QED
  BY <1>2, <1>3, PoolStays

\* One bucket is replaced: the pool is right again if that bucket is.
LEMMA BucketChanges ==
  ASSUME PoolRight, NEW b \in Buckets, NEW s, NEW n,
         bucket' = [bucket EXCEPT ![b] = s], count' = [count EXCEPT ![b] = n],
         s \in Seq(Conns), IsInjective(s), n = Len(s), n <= MaxIdle,
         totalIdle' = Cardinality(Pooled'), IsFiniteSet(Pooled'),
         clock' = clock, lastUsed' \in [Conns -> 0 .. MaxTime], hostOf' = hostOf, open' \subseteq open,
         Pooled' \subseteq open', \A c \in ToSet(s) : BucketOf[hostOf[c]] = b
  PROVE  PoolRight'
<1>1. Len(s) \in Nat
  BY LenProperties
<1>2. \A d \in Buckets : bucket'[d] = (IF d = b THEN s ELSE bucket[d]) /\ count'[d] = (IF d = b THEN n ELSE count[d])
  BY DEF PoolRight, PoolTypeOK
<1>3. totalIdle' \in Nat
  BY FS_CardinalityType
<1>4. PoolTypeOK'
  BY <1>1, <1>2, <1>3 DEF PoolRight, PoolTypeOK
<1>5. PoolCounted'
  BY <1>2 DEF PoolRight, PoolCounted
<1>6. \A d \in Buckets : Idle(d)' = (IF d = b THEN ToSet(s) ELSE Idle(d)) /\ Idle(d)' \subseteq Pooled'
  BY <1>2 DEF Idle, Pooled
<1>7. PoolSound'
  BY <1>2, <1>6 DEF PoolRight, PoolSound
<1> QED
  BY <1>4, <1>5, <1>7 DEF PoolRight

\* ... and what it has, then.
LEMMA BucketHolds ==
  ASSUME PoolRight, NEW b \in Buckets, NEW s, bucket' = [bucket EXCEPT ![b] = s],
         NEW X, X \cap Pooled \subseteq Idle(b), ToSet(s) = Idle(b) \ X
  PROVE  Pooled' = Pooled \ X /\ \A d \in Buckets : Idle(d)' = Idle(d) \ X
<1>1. \A d \in Buckets : Idle(d)' = IF d = b THEN ToSet(s) ELSE Idle(d)
  BY DEF Idle, PoolRight, PoolTypeOK
<1>2. \A d \in Buckets : d # b => Idle(d) \cap Idle(b) = {}
  BY PoolFacts
<1>3. \A d \in Buckets : Idle(d)' = Idle(d) \ X
  BY <1>1, <1>2 DEF Pooled
<1> QED
  BY <1>3 DEF Pooled

-----------------------------------------------------------------------------
(* Getting and putting                                                     *)

\* evictExpired takes out one connection of the bucket, or none.
LEMMA EvictsOne ==
  ASSUME PoolRight, NEW b \in Buckets, NEW now
  PROVE  /\ Evicted(b, now) \subseteq Idle(b)
         /\ Evicted(b, now) = {} \/ \E i \in Expired(b, now) : Evicted(b, now) = {bucket[b][i]}
         /\ Kept(b, now) \in Seq(Conns) /\ IsInjective(Kept(b, now))
         /\ ToSet(Kept(b, now)) = Idle(b) \ Evicted(b, now)
         /\ Len(Kept(b, now)) = Len(bucket[b]) - Cardinality(Evicted(b, now))
<1> DEFINE s == bucket[b]
           X == Expired(b, now)
<1>1. s \in Seq(Conns) /\ IsInjective(s) /\ Len(s) \in Nat /\ DOMAIN s = 1 .. Len(s)
  BY PoolFacts, LenProperties
<1>2. X \subseteq DOMAIN s /\ X \subseteq Nat
  BY <1>1 DEF Expired
<1>3. CASE X = {}
  <2>1. Evicted(b, now) = {} /\ Kept(b, now) = s
    BY <1>3 DEF Evicted, Kept
  <2>2. Cardinality(Evicted(b, now)) = 0
    BY <2>1, FS_EmptySet
  <2> QED
    BY <1>1, <2>1, <2>2 DEF Idle
<1>4. CASE X # {}
  <2>1. Min(X) \in X
    BY <1>2, <1>4, MinIsIn
  <2>2. Evicted(b, now) = {s[Min(X)]} /\ Kept(b, now) = RemoveAt(s, Min(X))
    BY <1>4 DEF Evicted, Kept
  <2>3. Cardinality(Evicted(b, now)) = 1
    BY <2>2, FS_Singleton
  <2>4. s[Min(X)] \in Idle(b)
    BY <1>2, <2>1 DEF Idle, ToSet
  <2>5. Min(X) \in DOMAIN s
    BY <1>2, <2>1
  <2>6. /\ RemoveAt(s, Min(X)) \in Seq(Conns) /\ IsInjective(RemoveAt(s, Min(X)))
        /\ Len(RemoveAt(s, Min(X))) = Len(s) - 1
        /\ ToSet(RemoveAt(s, Min(X))) = ToSet(s) \ {s[Min(X)]}
    BY <1>1, <2>5, OneOut
  <2> QED
    BY <2>1, <2>2, <2>3, <2>4, <2>6 DEF Idle
<1> QED
  BY <1>3, <1>4

\* corRestClientPoolGet: the connection it finds, if any, leaves the pool, is one to
\* that host and was not evicted; nothing else is closed but what was evicted.
LEMMA GetKeeps ==
  ASSUME PoolRight, NEW h \in Hosts, NEW now, NEW c, PoolGet(h, now, c)
  PROVE  /\ PoolRight'
         /\ Pooled' = (Pooled \ Evicted(BucketOf[h], now)) \ {c}
         /\ \A b \in Buckets : Idle(b)' \subseteq Idle(b)
         /\ c # None => c \in Pooled /\ c \notin Evicted(BucketOf[h], now) /\ hostOf[c] = h
<1> DEFINE b == BucketOf[h]
           E == Evicted(b, now)
           s == Kept(b, now)
           M == Matches(s, h)
           X == E \cup {c}
           gone == Cardinality(E) + (IF c = None THEN 0 ELSE 1)
           q == bucket'[b]
<1>1. b \in Buckets /\ bucket[b] \in Seq(Conns) /\ Len(bucket[b]) \in Nat /\ count[b] = Len(bucket[b]) /\ count[b] <= MaxIdle
  BY PoolFacts, LenProperties DEF PoolRight, PoolCounted
<1>2. /\ E \subseteq Idle(b) /\ s \in Seq(Conns) /\ IsInjective(s) /\ ToSet(s) = Idle(b) \ E
      /\ Len(s) = Len(bucket[b]) - Cardinality(E)
      /\ E = {} \/ \E i \in Expired(b, now) : E = {bucket[b][i]}
  BY <1>1, EvictsOne
<1>3. (E = {} /\ Cardinality(E) = 0) \/ \E d \in Idle(b) : E = {d} /\ Cardinality(E) = 1
  BY <1>2, FS_EmptySet, FS_Singleton
<1>4. /\ \/ M = {} /\ c = None /\ bucket' = [bucket EXCEPT ![b] = s]
         \/ M # {} /\ c = s[Min(M)] /\ bucket' = [bucket EXCEPT ![b] = RemoveAt(s, Min(M))]
      /\ count' = [count EXCEPT ![b] = @ - gone] /\ totalIdle' = totalIdle - gone
      /\ open' = open \ E /\ clock' = clock /\ lastUsed' = lastUsed /\ hostOf' = hostOf
  BY DEF PoolGet
<1>a. Cardinality(E) \in 0 .. 1 /\ Cardinality(E) <= Len(bucket[b])
  <2>1. ASSUME Idle(b) # {} PROVE Len(bucket[b]) >= 1
    BY <1>1, <2>1, LenProperties DEF Idle, ToSet
  <2> QED
    BY <1>1, <1>3, <2>1
<1>b. Len(s) \in Nat /\ DOMAIN s = 1 .. Len(s) /\ M \subseteq DOMAIN s /\ M \subseteq Nat
  BY <1>2, LenProperties DEF Matches
<1>c. None \notin ToSet(s)
  BY <1>1, <1>2, PoolFacts DEF Pooled
<1>d. \A r : bucket' = [bucket EXCEPT ![b] = r] => bucket'[b] = r
  BY <1>1 DEF PoolRight, PoolTypeOK
<1>e. M # {} => Min(M) \in DOMAIN s /\ hostOf[s[Min(M)]] = h /\ s[Min(M)] \in ToSet(s)
  <2> SUFFICES ASSUME M # {} PROVE Min(M) \in DOMAIN s /\ hostOf[s[Min(M)]] = h /\ s[Min(M)] \in ToSet(s)
    OBVIOUS
  <2>1. Min(M) \in M
    BY <1>b, MinIsIn
  <2> QED
    BY <2>1, <1>b DEF Matches, ToSet
<1> HIDE DEF E, s, M, q, b, X, gone
<1>5. /\ bucket' = [bucket EXCEPT ![b] = q] /\ q \in Seq(Conns) /\ IsInjective(q)
      /\ ToSet(q) = ToSet(s) \ {c} /\ Len(q) = Len(bucket[b]) - gone
      /\ c # None => c \in ToSet(s) /\ hostOf[c] = h
  <2>1. CASE M = {}
    <3>1. c = None /\ bucket' = [bucket EXCEPT ![b] = s] /\ q = s
      BY <1>4, <1>d, <2>1 DEF q
    <3>2. gone = Cardinality(E)
      BY <1>a, <3>1 DEF gone
    <3>3. Len(q) = Len(bucket[b]) - gone
      BY <1>2, <3>1, <3>2
    <3> QED
      BY <1>2, <1>c, <3>1, <3>3
  <2>2. CASE M # {}
    <3>1. c = s[Min(M)] /\ bucket' = [bucket EXCEPT ![b] = RemoveAt(s, Min(M))] /\ q = RemoveAt(s, Min(M))
      BY <1>4, <1>d, <2>2 DEF q
    <3>2. Min(M) \in DOMAIN s /\ hostOf[c] = h /\ c \in ToSet(s) /\ c # None
      BY <1>c, <1>e, <2>2, <3>1
    <3>3. q \in Seq(Conns) /\ IsInjective(q) /\ Len(q) = Len(s) - 1 /\ ToSet(q) = ToSet(s) \ {c}
      BY <1>2, <3>1, <3>2, OneOut
    <3>4. Len(q) = Len(bucket[b]) - gone
      <4>1. gone = Cardinality(E) + 1 /\ Len(q) = Len(s) - 1 /\ Len(s) = Len(bucket[b]) - Cardinality(E)
        BY <3>2, <3>3, <1>2 DEF gone
      <4>2. Len(bucket[b]) \in Nat /\ Cardinality(E) \in 0 .. 1
        BY <1>1, <1>a
      <4> QED
        BY <4>1, <4>2
    <3> QED
      BY <3>1, <3>2, <3>3, <3>4
  <2> QED
    BY <2>1, <2>2
<1>6. Pooled' = Pooled \ X /\ \A d \in Buckets : Idle(d)' = Idle(d) \ X
  <2>1. X \cap Pooled \subseteq Idle(b)
    BY <1>2, <1>5, PoolFacts DEF X
  <2>2. ToSet(q) = Idle(b) \ X
    BY <1>2, <1>5 DEF X
  <2> QED
    BY <1>1, <1>5, <2>1, <2>2, BucketHolds
<1>7. c # None => c \in Pooled /\ c \notin E
  BY <1>1, <1>2, <1>5 DEF Pooled
<1>8. IsFiniteSet(Pooled') /\ Cardinality(Pooled') = Cardinality(Pooled) - gone
  <2>1. IsFiniteSet(Pooled) /\ Cardinality(Pooled) \in Nat /\ None \notin Pooled /\ E \subseteq Pooled
    BY <1>1, <1>2, PoolFacts, FS_CardinalityType DEF Pooled
  <2>2. IsFiniteSet(Pooled \ E) /\ Cardinality(Pooled \ E) = Cardinality(Pooled) - Cardinality(E)
    <3>1. CASE E = {} /\ Cardinality(E) = 0
      <4>1. Pooled \ E = Pooled
        BY <3>1
      <4> QED
        BY <2>1, <3>1, <4>1
    <3>2. ASSUME NEW d \in Idle(b), E = {d}, Cardinality(E) = 1
          PROVE  IsFiniteSet(Pooled \ E) /\ Cardinality(Pooled \ E) = Cardinality(Pooled) - Cardinality(E)
      <4>1. IsFiniteSet(Pooled \ {d}) /\ Cardinality(Pooled \ {d}) = Cardinality(Pooled) - 1
        BY <2>1, <3>2, FS_RemoveElement
      <4> QED
        BY <3>2, <4>1
    <3> QED
      BY <1>3, <3>1, <3>2
  <2>3. /\ IsFiniteSet((Pooled \ E) \ {c})
        /\ Cardinality((Pooled \ E) \ {c}) = IF c \in Pooled \ E THEN Cardinality(Pooled \ E) - 1 ELSE Cardinality(Pooled \ E)
    BY <2>2, FS_RemoveElement
  <2>4. Pooled' = (Pooled \ E) \ {c}
    BY <1>6 DEF X
  <2>5. CASE c = None
    BY <1>a, <2>1, <2>2, <2>3, <2>4, <2>5 DEF gone
  <2>6. CASE c # None
    BY <1>7, <1>a, <2>1, <2>2, <2>3, <2>4, <2>6 DEF gone
  <2> QED
    BY <2>5, <2>6
<1>9. PoolRight'
  <2>1. count' = [count EXCEPT ![b] = Len(q)] /\ Len(q) <= MaxIdle
    <3>1. Len(q) = Len(bucket[b]) - gone /\ count[b] = Len(bucket[b]) /\ count[b] <= MaxIdle /\ MaxIdle \in Nat
      BY <1>1, <1>5, ClientPoolAssumption
    <3>2. gone \in Nat
      <4>1. Cardinality(E) \in Nat
        BY <1>a
      <4> QED
        BY <4>1 DEF gone
    <3>4. Len(bucket[b]) \in Nat
      BY <1>1
    <3>3. Len(q) <= MaxIdle
      BY <3>1, <3>2, <3>4
    <3> QED
      BY <1>4, <3>1, <3>3
  <2>2. totalIdle' = Cardinality(Pooled') /\ IsFiniteSet(Pooled')
    BY <1>4, <1>8, PoolFacts
  <2>3. Pooled' \subseteq open' /\ open' \subseteq open
    BY <1>4, <1>6, PoolFacts DEF X
  <2>4. \A d \in ToSet(q) : BucketOf[hostOf[d]] = b
    BY <1>1, <1>2, <1>5, PoolFacts
  <2>5. lastUsed' \in [Conns -> 0 .. MaxTime]
    BY <1>4 DEF PoolRight, PoolTypeOK
  <2> QED
    BY <1>1, <1>4, <1>5, <2>1, <2>2, <2>3, <2>4, <2>5, BucketChanges
<1> QED
  BY <1>5, <1>6, <1>7, <1>9 DEF b, E, X

\* corRestClientPoolPut: the connection is in the pool, once, or closed.
LEMMA PutKeeps ==
  ASSUME PoolRight, NEW c \in open, c \notin Pooled, PoolPut(c)
  PROVE  /\ PoolRight' /\ hostOf' = hostOf
         /\ \/ Pooled' = Pooled /\ open' = open \ {c}
            \/ Pooled' = Pooled \cup {c} /\ open' = open
<1> DEFINE b == BucketOf[hostOf[c]]
           q == <<c>> \o bucket[b]
<1>1. /\ b \in Buckets /\ bucket[b] \in Seq(Conns) /\ IsInjective(bucket[b]) /\ Len(bucket[b]) \in Nat
      /\ count[b] = Len(bucket[b]) /\ c \in Conns
  BY PoolFacts, LenProperties DEF PoolRight, PoolTypeOK
<1>2. CASE /\ count[b] >= MaxIdle
           /\ open' = open \ {c}
           /\ UNCHANGED <<clock, bucket, count, totalIdle, lastUsed, hostOf>>
  <2>1. Close(c)
    BY <1>2 DEF Close
  <2> QED
    BY <1>2, <2>1, CloseKeeps
<1>3. CASE /\ count[b] < MaxIdle
           /\ bucket' = [bucket EXCEPT ![b] = q]
           /\ count' = [count EXCEPT ![b] = @ + 1]
           /\ totalIdle' = totalIdle + 1
           /\ lastUsed' = [lastUsed EXCEPT ![c] = clock]
           /\ UNCHANGED <<clock, hostOf, open>>
  <2>1. c \notin ToSet(bucket[b])
    BY <1>1 DEF Pooled, Idle
  <2>2. q \in Seq(Conns) /\ IsInjective(q) /\ Len(q) = Len(bucket[b]) + 1 /\ ToSet(q) = Idle(b) \cup {c}
    BY <1>1, <2>1, OneIn DEF Idle
  <2> HIDE DEF q, b
  <2>3. \A d \in Buckets : Idle(d)' = IF d = b THEN Idle(b) \cup {c} ELSE Idle(d)
    <3>1. bucket' = [bucket EXCEPT ![b] = q] /\ bucket \in [Buckets -> Seq(Conns)]
      BY <1>3 DEF PoolRight, PoolTypeOK
    <3> QED
      BY <2>2, <3>1 DEF Idle
  <2>4. Pooled' = Pooled \cup {c}
    BY <1>1, <2>3 DEF Pooled
  <2>5. IsFiniteSet(Pooled') /\ Cardinality(Pooled') = Cardinality(Pooled) + 1
    BY <2>4, PoolFacts, FS_AddElement
  <2>6. PoolRight'
    <3>1. /\ count' = [count EXCEPT ![b] = Len(q)] /\ bucket' = [bucket EXCEPT ![b] = q] /\ Len(q) <= MaxIdle
          /\ totalIdle' = Cardinality(Pooled') /\ clock' = clock /\ hostOf' = hostOf /\ open' \subseteq open
      <4>1. Len(q) <= MaxIdle
        BY <1>1, <1>3, <2>2, ClientPoolAssumption
      <4>2. totalIdle' = Cardinality(Pooled')
        BY <1>3, <2>5, PoolFacts
      <4> QED
        BY <1>1, <1>3, <2>2, <4>1, <4>2
    <3>2. lastUsed' \in [Conns -> 0 .. MaxTime]
      BY <1>1, <1>3 DEF PoolRight, PoolTypeOK
    <3>3. Pooled' \subseteq open'
      BY <1>3, <2>4, PoolFacts
    <3>4. \A d \in ToSet(q) : BucketOf[hostOf[d]] = b
      BY <1>1, <2>2, PoolFacts DEF b
    <3> QED
      BY <1>1, <2>2, <2>5, <3>1, <3>2, <3>3, <3>4, BucketChanges
  <2> QED
    BY <1>3, <2>4, <2>6
<1> QED
  BY <1>2, <1>3 DEF PoolPut
=============================================================================
