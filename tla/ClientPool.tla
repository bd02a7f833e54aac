----------------------------- MODULE ClientPool -----------------------------
(***************************************************************************)
(* The pool of idle keep-alive connections of the HTTP client              *)
(* (corRestClientPool.c): hash buckets of connections, a limit per bucket, *)
(* an idle timeout, one mutex.  What is done with the mutex held is one    *)
(* step.  HttpClient and ClientMulti use it.                               *)
(***************************************************************************)
EXTENDS Naturals, Sequences, FiniteSets, SequencesExt, FiniteSetsExt

CONSTANTS
  Conns,        \* the connections there may be at once
  Hosts,        \* what connMatch compares: host, port and tls
  BucketOf,     \* bucketHash
  MaxIdle,      \* maxIdlePerHost
  IdleTimeout,  \* idleTimeoutSec, in ticks
  ClockBits,    \* the width of nowMs(): uint64_t
  MaxTime,      \* bound on the clock
  None          \* NULL

Buckets == {BucketOf[h] : h \in Hosts}

ASSUME ClientPoolAssumption ==
  /\ Hosts # {} /\ DOMAIN BucketOf = Hosts
  /\ {MaxIdle, IdleTimeout, ClockBits, MaxTime} \subseteq Nat
  /\ MaxTime < 2 ^ ClockBits
  /\ None \notin Conns \cup Hosts

VARIABLES
  clock,      \* CLOCK_MONOTONIC
  bucket,     \* buckets[b].head .., the last one put first
  count, totalIdle,
  lastUsed,   \* per connection
  hostOf,     \* per connection: the host it was made for
  open        \* the connections that exist: not closed and freed

poolVars == <<clock, bucket, count, totalIdle, lastUsed, hostOf, open>>

PoolTypeOK ==
  /\ clock \in 0 .. MaxTime
  /\ bucket \in [Buckets -> Seq(Conns)]
  /\ count \in [Buckets -> Nat]
  /\ totalIdle \in Nat
  /\ lastUsed \in [Conns -> 0 .. MaxTime]
  /\ hostOf \in [Conns -> Hosts \cup {None}]
  /\ open \subseteq Conns
  /\ \A c \in open : hostOf[c] \in Hosts

PoolInit ==
  /\ clock = 0
  /\ bucket = [b \in Buckets |-> <<>>]
  /\ count = [b \in Buckets |-> 0]
  /\ totalIdle = 0
  /\ lastUsed = [c \in Conns |-> 0]
  /\ hostOf = [c \in Conns |-> None]
  /\ open = {}

Tick ==
  /\ clock < MaxTime
  /\ clock' = clock + 1
  /\ UNCHANGED <<bucket, count, totalIdle, lastUsed, hostOf, open>>

\* now - c->lastUsed, in the unsigned arithmetic of the code
Age(now, c) == (now + 2 ^ ClockBits - lastUsed[c]) % 2 ^ ClockBits

\* mutant: at the limit already
ExpiredEarly(b, now) == {i \in DOMAIN bucket[b] : Age(now, bucket[b][i]) >= IdleTimeout}

\* evictExpired: the first expired one, and no other
Expired(b, now) == {i \in DOMAIN bucket[b] : Age(now, bucket[b][i]) > IdleTimeout}

Evicted(b, now) == IF Expired(b, now) = {} THEN {} ELSE {bucket[b][Min(Expired(b, now))]}

Kept(b, now) ==
  IF Expired(b, now) = {} THEN bucket[b] ELSE RemoveAt(bucket[b], Min(Expired(b, now)))

Matches(s, h) == {i \in DOMAIN s : hostOf[s[i]] = h}

\* corRestClientPoolGet up to the unlock, with the time read before the lock:
\* c is what it found
PoolGet(h, now, c) ==
  LET b == BucketOf[h]
      s == Kept(b, now)
      gone == Cardinality(Evicted(b, now)) + (IF c = None THEN 0 ELSE 1)
  IN /\ \/ Matches(s, h) = {} /\ c = None /\ bucket' = [bucket EXCEPT ![b] = s]
        \/ /\ Matches(s, h) # {} /\ c = s[Min(Matches(s, h))]
           /\ bucket' = [bucket EXCEPT ![b] = RemoveAt(s, Min(Matches(s, h)))]
     /\ count' = [count EXCEPT ![b] = @ - gone]
     /\ totalIdle' = totalIdle - gone
     /\ open' = open \ Evicted(b, now)
     /\ UNCHANGED <<clock, lastUsed, hostOf>>

\* corRestClientPoolPut
PoolPut(c) ==
  LET b == BucketOf[hostOf[c]]
  IN \/ /\ count[b] >= MaxIdle
        /\ open' = open \ {c}
        /\ UNCHANGED <<clock, bucket, count, totalIdle, lastUsed, hostOf>>
     \/ /\ count[b] < MaxIdle
        /\ bucket' = [bucket EXCEPT ![b] = <<c>> \o @]
        /\ count' = [count EXCEPT ![b] = @ + 1]
        /\ totalIdle' = totalIdle + 1
        /\ lastUsed' = [lastUsed EXCEPT ![c] = clock]
        /\ UNCHANGED <<clock, hostOf, open>>

\* a connection is made (connCreate, startConnect) and goes (connDestroy)
Make(c, h) ==
  /\ c \notin open
  /\ open' = open \cup {c}
  /\ hostOf' = [hostOf EXCEPT ![c] = h]
  /\ UNCHANGED <<clock, bucket, count, totalIdle, lastUsed>>

Close(c) ==
  /\ open' = open \ {c}
  /\ UNCHANGED <<clock, bucket, count, totalIdle, lastUsed, hostOf>>

-----------------------------------------------------------------------------
Idle(b) == ToSet(bucket[b])
Pooled  == UNION {Idle(b) : b \in Buckets}

\* The two counters are exact - they decide when a connection is closed
\* instead of pooled - and the limit holds, whoever gets and puts at once.
PoolCounted ==
  /\ \A b \in Buckets : count[b] = Len(bucket[b]) /\ count[b] <= MaxIdle
  /\ totalIdle = Cardinality(Pooled)

\* Every connection in the pool exists, is there once, and in the bucket of
\* its host.
PoolSound ==
  \A b \in Buckets :
    /\ IsInjective(bucket[b])
    /\ \A c \in Idle(b) : c \in open /\ BucketOf[hostOf[c]] = b

=============================================================================
