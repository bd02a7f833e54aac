-------------------------- MODULE HttpClient_proofs --------------------------
(***************************************************************************)
(* Proofs about HttpClient, for any number of threads, connections, hosts, *)
(* calls and redirects, and any hash: connections have one user, lead to   *)
(* the host asked for and bring the answer to the request that was sent;   *)
(* a request is written twice at most; nothing is evicted that was used a  *)
(* moment ago.                                                             *)
(***************************************************************************)
EXTENDS HttpClient, ClientPool_proofs

-----------------------------------------------------------------------------
(* The inductive invariant                                                 *)

\* What is true of one caller, its connection and what comes over it.
CallerRight(t) ==
  /\ conn[t] # None <=> pc[t] \in {"peek", "send", "answer", "put"}
  /\ conn[t] # None => conn[t] \in open \ Pooled
  /\ conn[t] # None =>
       \/ pc[t] # "answer" /\ asked[conn[t]] = <<>> /\ came[conn[t]] = <<>>
       \/ pc[t] = "answer" /\ asked[conn[t]] = <<<<t, serial[t]>>>> /\ came[conn[t]] = <<>>
       \/ pc[t] = "answer" /\ asked[conn[t]] = <<>> /\ came[conn[t]] = <<<<t, serial[t]>>>>
  /\ pc[t] \in {"peek", "send", "answer"} => hostOf[conn[t]] = host[t]
  /\ got[t] # None => got[t] = <<t, serial[t]>>
  /\ pc[t] = "pool" => now[t] <= clock

\* How often it has written its request.
WritesRight(t) ==
  /\ pc[t] = "create" => ~fromPool[t]
  /\ pc[t] \in {"get", "pool", "peek"} => writes[t] = <<>>
  /\ pc[t] = "create" => writes[t] \in {<<>>, <<TRUE>>}
  /\ pc[t] = "send" => writes[t] = <<>> \/ (~fromPool[t] /\ writes[t] = <<TRUE>>)
  /\ pc[t] = "answer" => \/ fromPool[t] /\ writes[t] = <<TRUE>>
                         \/ ~fromPool[t] /\ writes[t] \in {<<FALSE>>, <<TRUE, FALSE>>}

\* The inductive invariant: ClientInv, over finitely many idle connections.
Sound == ClientInv /\ IsFiniteSet(Pooled)

\* The same, caller by caller.
Parts ==
  /\ TypeOK /\ PoolRight
  /\ \A t \in Threads : CallerRight(t) /\ WritesRight(t)
  /\ \A t \in Threads, u \in Threads : conn[t] # None /\ conn[u] = conn[t] => u = t
  /\ open \subseteq Pooled \cup {conn[t] : t \in Threads}
  /\ \A c \in Pooled : asked[c] = <<>> /\ came[c] = <<>>

\* The invariant, part by part.
LEMMA SoundParts == Sound <=> Parts
<1> DEFINE One == \A t \in Threads, u \in Threads : conn[t] # None /\ conn[u] = conn[t] => u = t
           All == open \subseteq Pooled \cup {conn[t] : t \in Threads}
           Silent == \A c \in Pooled : asked[c] = <<>> /\ came[c] = <<>>
<1>1. (\A t \in Threads : WritesRight(t)) <=> WritesFollow
  BY DEF WritesFollow, WritesRight
<1>2. TypeOK /\ PoolCounted /\ PoolSound /\ IsFiniteSet(Pooled) <=> TypeOK /\ PoolRight
  BY DEF PoolRight, TypeOK
<1>3. (\A t \in Threads : CallerRight(t)) /\ One /\ All /\ Silent /\ PoolSound
      <=> OneUser /\ RightPeer /\ NothingOwed /\ OwnAnswer /\ ClockRead
  BY DEF CallerRight, OneUser, RightPeer, NothingOwed, OwnAnswer, ClockRead
<1> QED
  BY <1>1, <1>2, <1>3 DEF Sound, ClientInv, PoolRight, Parts

\* The first state.
LEMMA SoundInit == Init => Sound
<1> SUFFICES ASSUME Init PROVE Sound
  OBVIOUS
<1>1. PoolRight
  BY PoolStarts DEF Init
<1>2. (CHOOSE h \in Hosts : TRUE) \in Hosts
  BY ClientPoolAssumption
<1>3. TypeOK
  BY <1>1, <1>2, ClientPoolAssumption, HttpClientAssumption DEF Init, TypeOK, PoolRight
<1>4. \A t \in Threads : CallerRight(t) /\ WritesRight(t)
  BY DEF Init, CallerRight, WritesRight
<1>5. Pooled = {} /\ open = {}
  BY DEF Init, PoolInit, Pooled, Idle, ToSet
<1>6. \A t \in Threads : conn[t] = None
  BY DEF Init
<1> QED
  BY <1>1, <1>3, <1>4, <1>5, <1>6, SoundParts DEF Parts

-----------------------------------------------------------------------------
(* Types                                                                   *)

CallTypes ==
  /\ pc \in [Threads -> {"idle", "get", "pool", "peek", "create", "send", "answer", "put"}]
  /\ calls \in [Threads -> 0 .. MaxCalls]
  /\ host \in [Threads -> Hosts]
  /\ redirects \in [Threads -> 0 .. MaxRedirects]
  /\ now \in [Threads -> 0 .. MaxTime]
  /\ conn \in [Threads -> Conns \cup {None}]
  /\ fromPool \in [Threads -> BOOLEAN]
  /\ after \in [Threads -> {"idle", "get"}]

PeerTypes ==
  /\ writes \in [Threads -> Seq(BOOLEAN)]
  /\ serial \in [Threads -> Nat]
  /\ got \in [Threads -> Ids \cup {None}]
  /\ peerOpen \subseteq Conns
  /\ asked \in [Conns -> Seq(Ids)] /\ came \in [Conns -> Seq(Ids)]

\* A bounded counter counts on.
LEMMA CountsOn ==
  ASSUME NEW m \in Nat, NEW n \in 0 .. m, n < m
  PROVE  n + 1 \in 0 .. m
OBVIOUS

\* A caller's own variables keep their types.
LEMMA CallTypesKeep ==
  ASSUME TypeOK, [Next]_vars
  PROVE  CallTypes'
<1> USE ClientPoolAssumption, HttpClientAssumption
<1>t. CallTypes /\ clock \in 0 .. MaxTime
  BY DEF TypeOK, CallTypes, PoolTypeOK
<1>1. CASE UNCHANGED vars
  BY <1>1, <1>t DEF vars, callVars, CallTypes
<1>2. ASSUME TimePasses \/ \E c \in Conns : PeerAnswers(c) \/ PeerCloses(c) PROVE CallTypes'
  BY <1>2, <1>t DEF TimePasses, PeerAnswers, PeerCloses, callVars, CallTypes
<1>3. ASSUME NEW t \in Threads, NEW h \in Hosts, Send(t, h) PROVE CallTypes'
  <2>1. calls[t] + 1 \in 0 .. MaxCalls
    BY <1>3, <1>t, CountsOn DEF Send, CallTypes
  <2> QED
    BY <1>3, <1>t, <2>1, SMTT(20) DEF Send, To, CallTypes
<1>4. ASSUME NEW t \in Threads, ReadClock(t) \/ PeekAlive(t) \/ PeekDead(t) \/ CreateFails(t) \/ Write(t) PROVE CallTypes'
  <2>1. CASE ReadClock(t)
    BY <2>1, <1>t DEF ReadClock, To, CallTypes
  <2>2. CASE PeekAlive(t) \/ CreateFails(t) \/ Write(t)
    BY <2>2, <1>t DEF PeekAlive, CreateFails, Write, To, CallTypes
  <2>3. CASE PeekDead(t)
    BY <2>3, <1>t DEF PeekDead, To, CallTypes
  <2> QED
    BY <1>4, <2>1, <2>2, <2>3
<1>5. ASSUME NEW t \in Threads, Broken(t) \/ Fails(t) \/ Answer(t) \/ RedirectFails(t) \/ PutAway(t) PROVE CallTypes'
  BY <1>5, <1>t DEF Broken, Fails, Answer, RedirectFails, PutAway, To, CallTypes
<1>6. ASSUME NEW t \in Threads, Get(t) PROVE CallTypes'
  BY <1>6, <1>t DEF Get, To, CallTypes
<1>7. ASSUME NEW t \in Threads, Create(t) PROVE CallTypes'
  BY <1>7, <1>t DEF Create, To, CallTypes
<1>8. ASSUME NEW t \in Threads, NEW h \in Hosts, Redirect(t, h) PROVE CallTypes'
  <2>1. redirects[t] + 1 \in 0 .. MaxRedirects
    BY <1>8, <1>t, CountsOn DEF Redirect, CallTypes
  <2> QED
    BY <1>8, <1>t, <2>1 DEF Redirect, To, CallTypes
<1> QED
  BY <1>1, <1>2, <1>3, <1>4, <1>5, <1>6, <1>7, <1>8 DEF Next, Step

\* What is written and answered keeps its types.
LEMMA PeerTypesKeep ==
  ASSUME TypeOK, \A t \in Threads : CallerRight(t), [Next]_vars
  PROVE  PeerTypes'
<1>t. PeerTypes /\ fromPool \in [Threads -> BOOLEAN]
  BY DEF TypeOK, PeerTypes
<1>1. CASE UNCHANGED vars
  BY <1>1, <1>t DEF vars, callVars, peerVars, PeerTypes
<1>2. CASE TimePasses
  BY <1>2, <1>t DEF TimePasses, callVars, peerVars, PeerTypes
<1>3. ASSUME NEW c \in Conns, PeerAnswers(c) \/ PeerCloses(c) PROVE PeerTypes'
  <2>1. asked[c] # <<>> => Head(asked[c]) \in Ids /\ Tail(asked[c]) \in Seq(Ids) /\ Append(came[c], Head(asked[c])) \in Seq(Ids)
    BY <1>t, HeadTailProperties, AppendProperties DEF PeerTypes
  <2> QED
    BY <1>3, <1>t, <2>1 DEF PeerAnswers, PeerCloses, callVars, PeerTypes
<1>4. ASSUME NEW t \in Threads, NEW h \in Hosts, Send(t, h) PROVE PeerTypes'
  BY <1>4, <1>t DEF Send, peerVars, PeerTypes
<1>5. ASSUME NEW t \in Threads, ReadClock(t) \/ PeekAlive(t) \/ PeekDead(t) \/ CreateFails(t) \/ Broken(t) \/ Fails(t) \/ Get(t)
      PROVE  PeerTypes'
  BY <1>5, <1>t DEF ReadClock, PeekAlive, PeekDead, CreateFails, Broken, Fails, Get, peerVars, PeerTypes
<1>6. ASSUME NEW t \in Threads, PutAway(t) PROVE PeerTypes'
  BY <1>6, <1>t DEF PutAway, peerVars, PeerTypes
<1>7. ASSUME NEW t \in Threads, Create(t) PROVE PeerTypes'
  BY <1>7, <1>t DEF Create, PeerTypes
<1>8. ASSUME NEW t \in Threads, Write(t) PROVE PeerTypes'
  <2>1. /\ Append(writes[t], fromPool[t]) \in Seq(BOOLEAN) /\ <<t, serial[t] + 1>> \in Ids /\ serial[t] + 1 \in Nat
    BY <1>t, AppendProperties DEF PeerTypes, Ids
  <2>2. conn[t] \in Conns => Append(asked[conn[t]], <<t, serial[t] + 1>>) \in Seq(Ids)
    BY <1>t, <2>1, AppendProperties DEF PeerTypes
  <2> QED
    BY <1>8, <1>t, <2>1, <2>2 DEF Write, PeerTypes
<1>9. ASSUME NEW t \in Threads, ReadAnswer(t), conn[t] \in Conns,
             UNCHANGED <<writes, serial, peerOpen, asked>>
      PROVE  PeerTypes'
  <2>1. Head(came[conn[t]]) \in Ids /\ Tail(came[conn[t]]) \in Seq(Ids)
    BY <1>9, <1>t, HeadTailProperties DEF PeerTypes, ReadAnswer
  <2> QED
    BY <1>9, <1>t, <2>1 DEF ReadAnswer, PeerTypes
<1>10. ASSUME NEW t \in Threads, pc[t] = "answer" PROVE conn[t] \in Conns
  BY <1>10 DEF CallerRight, TypeOK
<1>11. ASSUME NEW t \in Threads, Answer(t) \/ RedirectFails(t) \/ \E h \in Hosts : Redirect(t, h) PROVE PeerTypes'
  BY <1>9, <1>10, <1>11 DEF Answer, RedirectFails, Redirect, To
<1> QED
  BY <1>1, <1>2, <1>3, <1>4, <1>5, <1>6, <1>7, <1>8, <1>11 DEF Next, Step

-----------------------------------------------------------------------------
(* Steps                                                                   *)

\* What the other callers know stays the same.
OthersSame(t) ==
  \A u \in Threads \ {t} :
    /\ pc'[u] = pc[u] /\ host'[u] = host[u] /\ now'[u] = now[u] /\ conn'[u] = conn[u]
    /\ fromPool'[u] = fromPool[u] /\ writes'[u] = writes[u] /\ serial'[u] = serial[u] /\ got'[u] = got[u]

\* What a caller does keeps the invariant, if what is right of that caller stays
\* right, if no other one's connection is touched or gets into the pool, and if
\* its connection is its own, the pool's or a new one.
LEMMA CallerSteps ==
  ASSUME Sound, TypeOK', PoolRight', NEW t \in Threads, clock' = clock,
         OthersSame(t),
         \A c \in open \ Pooled : c # conn[t] =>
           c \in open' \ Pooled' /\ asked'[c] = asked[c] /\ came'[c] = came[c] /\ hostOf'[c] = hostOf[c],
         CallerRight(t)', WritesRight(t)',
         conn'[t] = None \/ conn'[t] = conn[t] \/ conn'[t] \notin open \ Pooled,
         \A c \in open' \ Pooled' : c \in open \ Pooled \/ c = conn'[t],
         conn[t] # None => conn[t] \notin open' \ Pooled' \/ conn'[t] = conn[t],
         \A c \in Pooled' : asked'[c] = <<>> /\ came'[c] = <<>>
  PROVE  Sound'
<1>1. /\ \A u \in Threads : CallerRight(u) /\ WritesRight(u)
      /\ \A u \in Threads, v \in Threads : conn[u] # None /\ conn[v] = conn[u] => v = u
      /\ open \subseteq Pooled \cup {conn[u] : u \in Threads}
  BY SoundParts DEF Parts
<1>0. \A u \in Threads : CallerRight(u) /\ WritesRight(u)
  BY <1>1
<1>s. \A u \in Threads \ {t} :
        /\ pc'[u] = pc[u] /\ host'[u] = host[u] /\ now'[u] = now[u] /\ conn'[u] = conn[u]
        /\ fromPool'[u] = fromPool[u] /\ writes'[u] = writes[u] /\ serial'[u] = serial[u] /\ got'[u] = got[u]
  BY DEF OthersSame
<1>2. ASSUME NEW u \in Threads \ {t} PROVE CallerRight(u)' /\ WritesRight(u)'
  <2>1. CASE conn[u] = None
    BY <1>0, <1>s, <2>1 DEF CallerRight, WritesRight
  <2>2. CASE conn[u] # None
    <3>1. conn[u] \in open \ Pooled /\ conn[u] # conn[t]
      BY <1>1, <1>2, <2>2 DEF CallerRight
    <3>2. /\ conn[u] \in open' \ Pooled' /\ asked'[conn[u]] = asked[conn[u]]
          /\ came'[conn[u]] = came[conn[u]] /\ hostOf'[conn[u]] = hostOf[conn[u]]
      BY <3>1
    <3>3. CallerRight(u)'
      <4>1. CallerRight(u)
        BY <1>0
      <4>2. /\ pc'[u] = pc[u] /\ host'[u] = host[u] /\ now'[u] = now[u] /\ conn'[u] = conn[u]
            /\ serial'[u] = serial[u] /\ got'[u] = got[u]
        BY <1>s
      <4> QED
        BY ONLY <4>1, <4>2, <2>2, <3>2, clock' = clock DEF CallerRight
    <3>4. WritesRight(u)'
      BY <1>0, <1>s DEF WritesRight
    <3> QED
      BY <3>3, <3>4
  <2> QED
    BY <2>1, <2>2
<1>3. ASSUME NEW u \in Threads, NEW v \in Threads, conn'[u] # None, conn'[v] = conn'[u] PROVE v = u
  <2>1. ASSUME NEW w \in Threads \ {t}, conn'[t] # None, conn'[w] = conn'[t] PROVE FALSE
    <3>1. conn[w] # None /\ conn[w] = conn'[t]
      BY <1>s, <2>1
    <3>2. conn[w] \in open \ Pooled
      BY <1>1, <3>1 DEF CallerRight
    <3>3. conn[w] = conn[t]
      BY <3>1, <3>2
    <3> QED
      BY <1>1, <3>1, <3>3
  <2>2. CASE u # t /\ v # t
    BY <1>1, <1>3, <1>s, <2>2
  <2> QED
    BY <1>3, <2>1, <2>2
<1>4. ASSUME NEW c \in open' \ Pooled' PROVE c \in {conn'[u] : u \in Threads}
  <2>1. CASE c = conn'[t]
    BY <2>1
  <2>2. CASE c \in open \ Pooled /\ c # conn'[t]
    <3>1. PICK u \in Threads : c = conn[u]
      BY <1>1, <2>2
    <3>2. u = t \/ conn'[u] = c
      BY <1>s, <3>1
    <3>3. CASE u = t
      <4>1. c # None
        BY <2>2, ClientPoolAssumption DEF Sound, ClientInv, TypeOK, PoolTypeOK
      <4> QED
        BY <1>4, <2>2, <3>1, <3>3, <4>1
    <3> QED
      BY <3>2, <3>3
  <2> QED
    BY <1>4, <2>1, <2>2
<1>5. \A u \in Threads : CallerRight(u)' /\ WritesRight(u)'
  BY <1>2
<1>6. Parts'
  BY <1>3, <1>4, <1>5 DEF Parts
<1> QED
  BY <1>6, SoundParts, PTL

\* What one caller knows.
LEMMA CallerKnows ==
  ASSUME Sound, NEW t \in Threads
  PROVE  /\ CallerRight(t) /\ WritesRight(t) /\ PoolRight /\ Pooled \subseteq open /\ open \subseteq Conns
         /\ None \notin Conns /\ \A c \in Pooled : asked[c] = <<>> /\ came[c] = <<>>
BY SoundParts, PoolFacts, ClientPoolAssumption DEF Parts, PoolRight, PoolTypeOK

\* The pool is left alone, and the caller keeps the connection it has, or has none.
LEMMA MovesKeep ==
  ASSUME Sound, CallTypes', PeerTypes', NEW t \in Threads, OthersSame(t), UNCHANGED poolVars,
         conn'[t] = conn[t],
         \A c \in Conns : c # conn[t] => asked'[c] = asked[c] /\ came'[c] = came[c],
         CallerRight(t)', WritesRight(t)'
  PROVE  Sound'
<1>1. Pooled' = Pooled /\ open' = open /\ hostOf' = hostOf /\ clock' = clock
  BY DEF poolVars, Pooled, Idle
<1>2. PoolRight'
  BY <1>1, CallerKnows DEF poolVars, PoolRight, PoolTypeOK, PoolCounted, PoolSound, Idle
<1>3. TypeOK'
  BY <1>2 DEF PoolRight, CallTypes, PeerTypes, TypeOK
<1>4. conn[t] \notin Pooled
  BY CallerKnows DEF CallerRight
<1> QED
  BY <1>1, <1>2, <1>3, <1>4, CallerKnows, CallerSteps

\* The caller closes the connection it has.
LEMMA ClosesKeep ==
  ASSUME Sound, CallTypes', PeerTypes', NEW t \in Threads, OthersSame(t),
         conn[t] # None, Close(conn[t]), conn'[t] = None,
         \A c \in Conns : c # conn[t] => asked'[c] = asked[c] /\ came'[c] = came[c],
         CallerRight(t)', WritesRight(t)'
  PROVE  Sound'
<1>1. conn[t] \in open \ Pooled
  BY CallerKnows DEF CallerRight
<1>2. PoolRight' /\ Pooled' = Pooled
  BY <1>1, CallerKnows, CloseKeeps
<1>3. open' = open \ {conn[t]} /\ hostOf' = hostOf /\ clock' = clock
  BY DEF Close
<1>4. TypeOK'
  BY <1>2 DEF PoolRight, CallTypes, PeerTypes, TypeOK
<1> QED
  BY <1>1, <1>2, <1>3, <1>4, CallerKnows, CallerSteps

\* The first call, the clock, a connection that is alive or cannot be made.
LEMMA QuietSteps ==
  ASSUME Sound, CallTypes', PeerTypes', NEW t \in Threads,
         ReadClock(t) \/ PeekAlive(t) \/ CreateFails(t) \/ \E h \in Hosts : Send(t, h)
  PROVE  Sound'
<1>t. CallTypes /\ PeerTypes /\ clock \in 0 .. MaxTime
  BY DEF Sound, ClientInv, TypeOK, CallTypes, PeerTypes, PoolTypeOK
<1>k. CallerRight(t) /\ WritesRight(t)
  BY CallerKnows
<1>1. CASE ReadClock(t)
  <2>1. OthersSame(t) /\ UNCHANGED poolVars /\ UNCHANGED <<asked, came, conn>>
    BY <1>1, <1>t DEF OthersSame, ReadClock, To, peerVars, CallTypes
  <2>2. CallerRight(t)'
    BY <1>1, <1>t, <1>k, ClientPoolAssumption DEF ReadClock, To, CallTypes, CallerRight, poolVars, Pooled, Idle
  <2>3. WritesRight(t)'
    BY <1>1, <1>t, <1>k DEF ReadClock, To, CallTypes, WritesRight
  <2> QED
    BY <2>1, <2>2, <2>3, MovesKeep
<1>2. CASE PeekAlive(t) \/ CreateFails(t)
  <2>1. OthersSame(t) /\ UNCHANGED poolVars /\ UNCHANGED <<asked, came, conn>>
    BY <1>2, <1>t DEF OthersSame, PeekAlive, CreateFails, To, peerVars, CallTypes
  <2>2. CallerRight(t)'
    BY <1>2, <1>t, <1>k DEF PeekAlive, CreateFails, To, CallTypes, CallerRight, poolVars, peerVars, Pooled, Idle
  <2>3. WritesRight(t)'
    BY <1>2, <1>t, <1>k DEF PeekAlive, CreateFails, To, CallTypes, WritesRight
  <2> QED
    BY <2>1, <2>2, <2>3, MovesKeep
<1>3. ASSUME NEW h \in Hosts, Send(t, h) PROVE Sound'
  <2>1. OthersSame(t) /\ UNCHANGED poolVars /\ UNCHANGED <<asked, came, conn>>
    BY <1>3, <1>t DEF OthersSame, Send, To, peerVars, CallTypes, PeerTypes
  <2>2. CallerRight(t)'
    BY <1>3, <1>t, <1>k DEF Send, To, CallTypes, PeerTypes, CallerRight, poolVars
  <2>3. WritesRight(t)'
    BY <1>3, <1>t, <1>k DEF Send, To, CallTypes, PeerTypes, WritesRight
  <2> QED
    BY <2>1, <2>2, <2>3, MovesKeep
<1> QED
  BY <1>1, <1>2, <1>3

\* What is written second comes second.
LEMMA Twice ==
  ASSUME NEW x, NEW y
  PROVE  Append(<<x>>, y) = <<x, y>>
<1> DEFINE s == <<x>>
           r == <<x, y>>
           S == {x, y}
<1>1. s \in Seq(S) /\ Len(s) = 1 /\ s[1] = x
  OBVIOUS
<1>2. r \in Seq(S) /\ Len(r) = 2 /\ r[1] = x /\ r[2] = y
  OBVIOUS
<1>s. y \in S /\ s \in Seq(S)
  BY <1>1
<1> HIDE DEF s, r, S
<1>3. Append(s, y) \in Seq(S) /\ Len(Append(s, y)) = 2 /\ Append(s, y)[1] = x /\ Append(s, y)[2] = y
  <2>1. /\ Append(s, y) \in Seq(S) /\ Len(Append(s, y)) = Len(s) + 1
        /\ \A i \in 1 .. Len(s) : Append(s, y)[i] = s[i]
        /\ Append(s, y)[Len(s) + 1] = y
    BY <1>s, AppendProperties
  <2>2. 1 + 1 = 2 /\ 1 \in 1 .. 1
    OBVIOUS
  <2> QED
    BY <1>1, <2>1, <2>2
<1>4. \A i \in 1 .. 2 : i = 1 \/ i = 2
  OBVIOUS
<1>5. \A i \in 1 .. 2 : Append(s, y)[i] = r[i]
  BY <1>2, <1>3, <1>4
<1>6. Append(s, y) = r
  BY <1>2, <1>3, <1>5, SeqEqual
<1> QED
  BY <1>6 DEF s, r

\* The request is written, and its answer read.
LEMMA ExchangeKeeps ==
  ASSUME Sound, CallTypes', PeerTypes', NEW t \in Threads,
         Write(t) \/ Answer(t) \/ \E h \in Hosts : Redirect(t, h)
  PROVE  Sound'
<1>t. CallTypes /\ PeerTypes
  BY DEF Sound, ClientInv, TypeOK, CallTypes, PeerTypes
<1>k. CallerRight(t) /\ WritesRight(t)
  BY CallerKnows
<1>c. pc[t] \in {"send", "answer"} => conn[t] # None /\ conn[t] \in Conns
  BY <1>k, <1>t DEF CallerRight, CallTypes
<1>1. CASE Write(t)
  <2>1. OthersSame(t) /\ UNCHANGED poolVars /\ UNCHANGED <<came, conn>> /\ \A c \in Conns : c # conn[t] => asked'[c] = asked[c]
    BY <1>1, <1>t DEF OthersSame, Write, To, CallTypes, PeerTypes
  <2>2. asked[conn[t]] = <<>> /\ came[conn[t]] = <<>> /\ pc[t] = "send" /\ hostOf[conn[t]] = host[t] /\ conn[t] \in open \ Pooled
    BY <1>1, <1>k, <1>c DEF Write, To, CallerRight
  <2>3. /\ serial'[t] = serial[t] + 1 /\ pc'[t] = "answer" /\ host' = host /\ got'[t] = None
        /\ asked'[conn[t]] = Append(asked[conn[t]], <<t, serial[t] + 1>>)
    BY <1>1, <1>t, <1>c DEF Write, To, CallTypes, PeerTypes
  <2>4. asked'[conn[t]] = <<<<t, serial'[t]>>>>
    BY <2>2, <2>3
  <2>5. conn' = conn /\ open' = open /\ Pooled' = Pooled /\ hostOf' = hostOf /\ came' = came
    BY <2>1 DEF poolVars, Pooled, Idle
  <2>6. CallerRight(t)'
    BY <1>c, <2>2, <2>3, <2>4, <2>5 DEF CallerRight
  <2>7. WritesRight(t)'
    <3>1. /\ writes'[t] = Append(writes[t], fromPool[t]) /\ fromPool'[t] = fromPool[t] /\ fromPool[t] \in BOOLEAN
          /\ pc[t] = "send" /\ pc'[t] = "answer"
      BY <1>1, <1>t DEF Write, To, CallTypes, PeerTypes
    <3>2. writes[t] = <<>> \/ (~fromPool[t] /\ writes[t] = <<TRUE>>)
      BY <1>k, <3>1 DEF WritesRight
    <3>3. \A x, y : Append(<<>>, x) = <<x>> /\ Append(<<x>>, y) = <<x, y>>
      <4>1. \A x : Append(<<>>, x) = <<x>>
        OBVIOUS
      <4> QED
        BY <4>1, Twice
    <3>4. CASE fromPool[t] = TRUE
      BY <3>1, <3>2, <3>3, <3>4 DEF WritesRight
    <3>5. CASE fromPool[t] = FALSE
      BY <3>1, <3>2, <3>3, <3>5 DEF WritesRight
    <3> QED
      BY <3>1, <3>4, <3>5
  <2> QED
    BY <2>1, <2>6, <2>7, MovesKeep
<1>2. ASSUME Answer(t) \/ \E h \in Hosts : Redirect(t, h) PROVE Sound'
  <2>1. OthersSame(t) /\ UNCHANGED poolVars /\ UNCHANGED <<asked, conn>> /\ \A c \in Conns : c # conn[t] => came'[c] = came[c]
    BY <1>2, <1>t DEF OthersSame, Answer, Redirect, ReadAnswer, To, CallTypes, PeerTypes
  <2>2. pc[t] = "answer" /\ came[conn[t]] # <<>> /\ conn[t] # None /\ conn[t] \in Conns /\ conn[t] \in open \ Pooled
    BY <1>2, <1>k, <1>c DEF Answer, Redirect, ReadAnswer, To, CallerRight
  <2>3. asked[conn[t]] = <<>> /\ came[conn[t]] = <<<<t, serial[t]>>>>
    BY <1>k, <2>2 DEF CallerRight
  <2>4. got'[t] = Head(came[conn[t]]) /\ came'[conn[t]] = Tail(came[conn[t]]) /\ pc'[t] = "put" /\ serial' = serial
    BY <1>2, <1>t, <2>2 DEF Answer, Redirect, ReadAnswer, To, CallTypes, PeerTypes
  <2>5. got'[t] = <<t, serial[t]>> /\ came'[conn[t]] = <<>>
    BY <2>3, <2>4
  <2>6. conn' = conn /\ open' = open /\ Pooled' = Pooled /\ asked' = asked
    BY <2>1 DEF poolVars, Pooled, Idle
  <2>7. CallerRight(t)'
    BY <2>2, <2>3, <2>4, <2>5, <2>6 DEF CallerRight
  <2>8. WritesRight(t)'
    BY <2>4 DEF WritesRight
  <2> QED
    BY <2>1, <2>7, <2>8, MovesKeep
<1> QED
  BY <1>1, <1>2

\* The connection is closed: it was dead, broke, was too slow or is not kept.
LEMMA ClosingKeeps ==
  ASSUME Sound, CallTypes', PeerTypes', NEW t \in Threads,
         PeekDead(t) \/ Broken(t) \/ Fails(t) \/ RedirectFails(t) \/ (PutAway(t) /\ Close(conn[t]))
  PROVE  Sound'
<1>t. CallTypes /\ PeerTypes
  BY DEF Sound, ClientInv, TypeOK, CallTypes, PeerTypes
<1>k. CallerRight(t) /\ WritesRight(t)
  BY CallerKnows
<1>1. conn[t] # None /\ conn[t] \in Conns
  BY <1>k, <1>t DEF PeekDead, Broken, Fails, RedirectFails, PutAway, To, CallerRight, CallTypes
<1>2. Close(conn[t]) /\ conn'[t] = None /\ \A c \in Conns : c # conn[t] => asked'[c] = asked[c] /\ came'[c] = came[c]
  BY <1>t, <1>1 DEF PeekDead, Broken, Fails, RedirectFails, ReadAnswer, PutAway, peerVars, CallTypes, PeerTypes
<1>3. OthersSame(t)
  <2>1. CASE PeekDead(t)
    BY <2>1, <1>t DEF OthersSame, PeekDead, To, CallTypes
  <2>2. CASE Broken(t)
    BY <2>2, <1>t DEF OthersSame, Broken, CallTypes
  <2>3. CASE Fails(t) \/ RedirectFails(t)
    BY <2>3, <1>t DEF OthersSame, Fails, RedirectFails, ReadAnswer, To, CallTypes, PeerTypes
  <2>4. CASE PutAway(t)
    BY <2>4, <1>t DEF OthersSame, PutAway, To, CallTypes, PeerTypes
  <2> QED
    BY <2>1, <2>2, <2>3, <2>4
<1>4. pc'[t] \in {"create", "idle", "get"} /\ serial' = serial
  BY <1>t DEF PeekDead, Broken, Fails, RedirectFails, PutAway, To, CallTypes
<1>5. got'[t] # None => got'[t] = <<t, serial[t]>>
  <2>1. CASE RedirectFails(t)
    <3>1. pc[t] = "answer" /\ came[conn[t]] # <<>> /\ got'[t] = Head(came[conn[t]])
      BY <2>1, <1>t DEF RedirectFails, ReadAnswer, To, PeerTypes
    <3>2. came[conn[t]] = <<<<t, serial[t]>>>>
      BY <1>1, <1>k, <3>1 DEF CallerRight
    <3> QED
      BY <3>1, <3>2
  <2>2. CASE PeekDead(t) \/ Broken(t) \/ Fails(t) \/ PutAway(t)
    BY <1>k, <2>2 DEF PeekDead, Broken, Fails, PutAway, CallerRight
  <2> QED
    BY <2>1, <2>2
<1>6. CallerRight(t)'
  BY <1>2, <1>4, <1>5 DEF CallerRight
<1>7. WritesRight(t)'
  <2>1. CASE PeekDead(t)
    BY <2>1, <1>t, <1>k DEF PeekDead, To, CallTypes, WritesRight
  <2>2. CASE Broken(t)
    BY <2>2, <1>t, <1>k DEF Broken, CallTypes, WritesRight
  <2>3. CASE Fails(t) \/ RedirectFails(t)
    BY <2>3, <1>t DEF Fails, RedirectFails, To, CallTypes, WritesRight
  <2>4. CASE PutAway(t)
    BY <2>4, <1>t DEF PutAway, To, CallTypes, PeerTypes, WritesRight
  <2> QED
    BY <2>1, <2>2, <2>3, <2>4
<1> QED
  BY <1>1, <1>2, <1>3, <1>6, <1>7, ClosesKeep

\* A connection comes out of the pool, or none does.
LEMMA GetSteps ==
  ASSUME Sound, CallTypes', PeerTypes', NEW t \in Threads, Get(t)
  PROVE  Sound'
<1>t. CallTypes /\ PeerTypes
  BY DEF Sound, ClientInv, TypeOK, CallTypes, PeerTypes
<1>k. CallerRight(t) /\ WritesRight(t) /\ PoolRight
  BY CallerKnows
<1>1. PICK c \in Conns \cup {None} :
        /\ PoolGet(host[t], now[t], c)
        /\ pc[t] = "pool" /\ pc'[t] = (IF c = None THEN "create" ELSE "peek")
        /\ conn'[t] = c /\ (c = None => ~fromPool'[t])
  BY <1>t DEF Get, To, CallTypes
<1> DEFINE E == Evicted(BucketOf[host[t]], now[t])
<1>2. /\ PoolRight' /\ Pooled' = (Pooled \ E) \ {c}
      /\ c # None => c \in Pooled /\ c \notin E /\ hostOf[c] = host[t]
  <2>1. host[t] \in Hosts
    BY <1>t DEF CallTypes
  <2> QED
    BY <2>1, <1>1, <1>k, GetKeeps
<1>3. open' = open \ E /\ hostOf' = hostOf /\ clock' = clock
  BY <1>1 DEF PoolGet
<1>4. E \subseteq Pooled /\ Pooled \subseteq open
  <2>1. BucketOf[host[t]] \in Buckets
    BY <1>t, <1>k, PoolFacts DEF CallTypes
  <2> QED
    BY <2>1, <1>k, EvictsOne, PoolFacts DEF Pooled
<1> HIDE DEF E
<1>5. OthersSame(t) /\ UNCHANGED <<asked, came>>
  BY <1>t DEF OthersSame, Get, To, peerVars, CallTypes
<1>6. host' = host /\ serial' = serial /\ got' = got /\ writes' = writes
  BY DEF Get
<1>7. conn[t] = None
  BY <1>k, <1>1 DEF CallerRight
<1>8. \A d \in Pooled : asked[d] = <<>> /\ came[d] = <<>>
  BY CallerKnows
<1>9. CallerRight(t)'
  <2>1. c # None => /\ c \in open' \ Pooled' /\ asked'[c] = <<>> /\ came'[c] = <<>> /\ hostOf'[c] = host'[t]
    BY <1>2, <1>3, <1>4, <1>5, <1>6, <1>8
  <2> QED
    BY <1>1, <1>k, <1>6, <2>1 DEF CallerRight
<1>10. WritesRight(t)'
  BY <1>1, <1>6, <1>k DEF WritesRight
<1>11. TypeOK'
  BY <1>2 DEF PoolRight, CallTypes, PeerTypes, TypeOK
<1>12. \A d \in open \ Pooled : d \in open' \ Pooled'
  BY <1>2, <1>3, <1>4
<1>13. \A d \in open' \ Pooled' : d \in open \ Pooled \/ d = conn'[t]
  BY <1>1, <1>2, <1>3
<1>14. conn'[t] = None \/ conn'[t] \notin open \ Pooled
  BY <1>1, <1>2
<1>15. \A d \in Pooled' : asked'[d] = <<>> /\ came'[d] = <<>>
  BY <1>2, <1>5, <1>8
<1> QED
  BY <1>2, <1>3, <1>5, <1>7, <1>9, <1>10, <1>11, <1>12, <1>13, <1>14, <1>15, CallerSteps

\* A connection is made.
LEMMA CreateKeeps ==
  ASSUME Sound, CallTypes', PeerTypes', NEW t \in Threads, Create(t)
  PROVE  Sound'
<1>t. CallTypes /\ PeerTypes
  BY DEF Sound, ClientInv, TypeOK, CallTypes, PeerTypes
<1>k. CallerRight(t) /\ WritesRight(t) /\ PoolRight /\ Pooled \subseteq open /\ None \notin Conns
  BY CallerKnows
<1>1. PICK c \in Conns :
        /\ Make(c, host[t]) /\ conn'[t] = c /\ pc[t] = "create" /\ pc'[t] = "send"
        /\ asked' = [asked EXCEPT ![c] = <<>>] /\ came' = [came EXCEPT ![c] = <<>>]
  BY <1>t DEF Create, To, CallTypes
<1>2. PoolRight' /\ Pooled' = Pooled
  <2>1. host[t] \in Hosts
    BY <1>t DEF CallTypes
  <2> QED
    BY <2>1, <1>1, <1>k, MakeKeeps
<1>3. /\ c \notin open /\ open' = open \cup {c} /\ clock' = clock
      /\ hostOf'[c] = host[t] /\ \A d \in open : hostOf'[d] = hostOf[d]
  BY <1>1, <1>k DEF Make, PoolRight, PoolTypeOK
<1>4. OthersSame(t)
  BY <1>t DEF OthersSame, Create, To, CallTypes
<1>5. /\ asked'[c] = <<>> /\ came'[c] = <<>> /\ open \subseteq Conns
      /\ \A d \in open : asked'[d] = asked[d] /\ came'[d] = came[d]
  BY <1>t, <1>1, <1>3, CallerKnows DEF PeerTypes
<1>6. host' = host /\ serial' = serial /\ got' = got /\ writes' = writes /\ fromPool' = fromPool
  BY DEF Create
<1>7. conn[t] = None
  BY <1>k, <1>1 DEF CallerRight
<1>8. \A d \in Pooled : asked[d] = <<>> /\ came[d] = <<>>
  BY CallerKnows
<1>9. CallerRight(t)'
  <2>1. conn'[t] # None /\ conn'[t] = c /\ c \in open' \ Pooled'
    BY <1>1, <1>2, <1>3, <1>k
  <2> QED
    BY <1>1, <1>3, <1>5, <1>6, <1>k, <2>1 DEF CallerRight
<1>10. WritesRight(t)'
  BY <1>1, <1>6, <1>k DEF WritesRight
<1>11. TypeOK'
  BY <1>2 DEF PoolRight, CallTypes, PeerTypes, TypeOK
<1>12. \A d \in open \ Pooled : d \in open' \ Pooled'
  BY <1>2, <1>3
<1>13. \A d \in open' \ Pooled' : d \in open \ Pooled \/ d = conn'[t]
  BY <1>1, <1>2, <1>3
<1>14. \A d \in Pooled' : asked'[d] = <<>> /\ came'[d] = <<>>
  BY <1>2, <1>5, <1>8, <1>k
<1> QED
  BY <1>1, <1>2, <1>3, <1>4, <1>5, <1>7, <1>9, <1>10, <1>11, <1>12, <1>13, <1>14, CallerSteps

\* A connection is given to the pool, which may close it.
LEMMA PutSteps ==
  ASSUME Sound, CallTypes', PeerTypes', NEW t \in Threads, PutAway(t), PoolPut(conn[t])
  PROVE  Sound'
<1>t. CallTypes /\ PeerTypes
  BY DEF Sound, ClientInv, TypeOK, CallTypes, PeerTypes
<1>k. CallerRight(t) /\ WritesRight(t) /\ PoolRight /\ Pooled \subseteq open /\ None \notin Conns
  BY CallerKnows
<1>1. pc[t] = "put" /\ pc'[t] \in {"idle", "get"} /\ conn'[t] = None /\ writes'[t] = <<>>
  BY <1>t DEF PutAway, To, CallTypes, PeerTypes
<1>2. conn[t] \in open /\ conn[t] \notin Pooled /\ asked[conn[t]] = <<>> /\ came[conn[t]] = <<>>
  BY <1>k, <1>1 DEF CallerRight
<1>3. /\ PoolRight' /\ hostOf' = hostOf
      /\ \/ Pooled' = Pooled /\ open' = open \ {conn[t]}
         \/ Pooled' = Pooled \cup {conn[t]} /\ open' = open
  BY <1>2, <1>k, PutKeeps
<1>4. clock' = clock
  BY DEF PoolPut
<1>5. OthersSame(t) /\ UNCHANGED <<asked, came>>
  BY <1>t DEF OthersSame, PutAway, To, peerVars, CallTypes, PeerTypes
<1>6. serial' = serial /\ got' = got
  BY DEF PutAway
<1>7. CallerRight(t)'
  BY <1>1, <1>6, <1>k DEF CallerRight
<1>8. WritesRight(t)'
  BY <1>1 DEF WritesRight
<1>9. TypeOK'
  BY <1>3 DEF PoolRight, CallTypes, PeerTypes, TypeOK
<1>10. \A d \in open \ Pooled : d # conn[t] => d \in open' \ Pooled'
  BY <1>3
<1>11. (\A d \in open' \ Pooled' : d \in open \ Pooled) /\ conn[t] \notin open' \ Pooled'
  BY <1>3
<1>12. \A d \in Pooled : asked[d] = <<>> /\ came[d] = <<>>
  BY CallerKnows
<1>13. \A d \in Pooled' : asked'[d] = <<>> /\ came'[d] = <<>>
  BY <1>2, <1>3, <1>5, <1>12
<1> QED
  BY <1>1, <1>3, <1>4, <1>5, <1>7, <1>8, <1>9, <1>10, <1>11, <1>13, CallerSteps

\* Time passes, and peers answer and close.
LEMMA OutsideKeeps ==
  ASSUME Sound, CallTypes', PeerTypes', TimePasses \/ \E c \in Conns : PeerAnswers(c) \/ PeerCloses(c)
  PROVE  Sound'
<1>1. Parts
  BY SoundParts
<1>2. UNCHANGED <<pc, host, now, conn, fromPool, writes, serial, got>>
  BY DEF TimePasses, PeerAnswers, PeerCloses, callVars
<1>3. /\ PoolRight' /\ Pooled' = Pooled /\ open' = open /\ hostOf' = hostOf
      /\ clock \in Int /\ clock' \in Int /\ clock <= clock' /\ now \in [Threads -> Int]
  <2>1. now \in [Threads -> 0 .. MaxTime] /\ clock \in 0 .. MaxTime /\ MaxTime \in Nat
    BY <1>1, ClientPoolAssumption DEF Parts, TypeOK, PoolTypeOK
  <2>2. CASE TimePasses
    <3>1. PoolRight' /\ Pooled' = Pooled
      BY <2>2, <1>1, TickKeeps DEF TimePasses, Parts
    <3> QED
      BY <2>1, <2>2, <3>1 DEF TimePasses, Tick
  <2>3. CASE UNCHANGED poolVars
    BY <2>1, <2>3, <1>1 DEF poolVars, Parts, PoolRight, PoolTypeOK, PoolCounted, PoolSound, Pooled, Idle
  <2> QED
    BY <2>2, <2>3 DEF PeerAnswers, PeerCloses
<1>4. TypeOK'
  BY <1>3 DEF PoolRight, CallTypes, PeerTypes, TypeOK
<1>5. \A c \in Conns : \/ asked'[c] = asked[c] /\ came'[c] = came[c]
                       \/ asked[c] # <<>> /\ asked'[c] = Tail(asked[c]) /\ came'[c] = Append(came[c], Head(asked[c]))
  BY <1>1 DEF TimePasses, PeerAnswers, PeerCloses, peerVars, Parts, TypeOK
<1>6. ASSUME NEW t \in Threads PROVE CallerRight(t)' /\ WritesRight(t)'
  <2>1. CallerRight(t) /\ WritesRight(t)
    BY <1>1 DEF Parts
  <2>2. WritesRight(t)'
    BY <1>2, <2>1 DEF WritesRight
  <2>3. conn[t] # None => conn[t] \in Conns
    BY <1>1 DEF Parts, TypeOK
  <2>4. \A i : Tail(<<i>>) = <<>> /\ Head(<<i>>) = i /\ Append(<<>>, i) = <<i>>
    OBVIOUS
  <2>t. pc[t] = "pool" => now[t] <= clock'
    <3>1. now[t] \in Int /\ (pc[t] = "pool" => now[t] <= clock)
      BY <1>3, <2>1 DEF CallerRight
    <3> QED
      BY <1>3, <3>1
  <2>o. /\ pc'[t] = pc[t] /\ conn'[t] = conn[t] /\ host'[t] = host[t] /\ serial'[t] = serial[t]
        /\ got'[t] = got[t] /\ now'[t] = now[t]
        /\ Pooled' = Pooled /\ open' = open /\ hostOf' = hostOf
    BY <1>2, <1>3
  <2>5. CASE conn[t] = None
    BY ONLY <2>1, <2>2, <2>5, <2>o, <2>t DEF CallerRight
  <2>6. CASE conn[t] # None
    <3> DEFINE i == <<t, serial[t]>>
    <3>1. \/ pc[t] # "answer" /\ asked[conn[t]] = <<>> /\ came[conn[t]] = <<>>
          \/ pc[t] = "answer" /\ asked[conn[t]] = <<i>> /\ came[conn[t]] = <<>>
          \/ pc[t] = "answer" /\ asked[conn[t]] = <<>> /\ came[conn[t]] = <<i>>
      BY <2>1, <2>6 DEF CallerRight
    <3>2. \/ asked'[conn[t]] = asked[conn[t]] /\ came'[conn[t]] = came[conn[t]]
          \/ /\ asked[conn[t]] # <<>> /\ asked'[conn[t]] = Tail(asked[conn[t]])
             /\ came'[conn[t]] = Append(came[conn[t]], Head(asked[conn[t]]))
      BY <1>5, <2>3, <2>6
    <3> HIDE DEF i
    <3>3. \/ pc[t] # "answer" /\ asked'[conn[t]] = <<>> /\ came'[conn[t]] = <<>>
          \/ pc[t] = "answer" /\ asked'[conn[t]] = <<i>> /\ came'[conn[t]] = <<>>
          \/ pc[t] = "answer" /\ asked'[conn[t]] = <<>> /\ came'[conn[t]] = <<i>>
      <4>1. CASE asked'[conn[t]] = asked[conn[t]] /\ came'[conn[t]] = came[conn[t]]
        BY <3>1, <4>1
      <4>2. CASE /\ asked[conn[t]] # <<>> /\ asked'[conn[t]] = Tail(asked[conn[t]])
                 /\ came'[conn[t]] = Append(came[conn[t]], Head(asked[conn[t]]))
        <5>1. pc[t] = "answer" /\ asked[conn[t]] = <<i>> /\ came[conn[t]] = <<>>
          BY <3>1, <4>2
        <5> QED
          BY <2>4, <4>2, <5>1
      <4> QED
        BY <3>2, <4>1, <4>2
    <3> QED
      BY ONLY <2>1, <2>2, <2>6, <2>o, <2>t, <3>3 DEF CallerRight, i
  <2> QED
    BY <2>2, <2>5, <2>6
<1>7. \A c \in Pooled : asked'[c] = <<>> /\ came'[c] = <<>>
  BY <1>1, <1>5, CallerKnows, PoolFacts DEF Parts
<1>8. Parts'
  BY <1>1, <1>2, <1>3, <1>4, <1>6, <1>7 DEF Parts
<1> QED
  BY <1>8, SoundParts, PTL

-----------------------------------------------------------------------------
(* The theorems                                                            *)

\* Every step keeps the invariant.
LEMMA SoundStep == Sound /\ [Next]_vars => Sound'
<1> SUFFICES ASSUME Sound, [Next]_vars PROVE Sound'
  OBVIOUS
<1>1. CallTypes' /\ PeerTypes'
  BY CallTypesKeep, PeerTypesKeep, SoundParts DEF Parts
<1>2. CASE UNCHANGED vars
  <2>1. UNCHANGED <<poolVars, callVars, peerVars>>
    BY <1>2 DEF vars
  <2>2. TypeOK' /\ PoolRight' /\ Pooled' = Pooled
    BY <1>1, <2>1, SoundParts DEF poolVars, Parts, PoolRight, PoolTypeOK, PoolCounted, PoolSound, Pooled, Idle,
       CallTypes, PeerTypes, TypeOK
  <2>3. \A t \in Threads : CallerRight(t)' /\ WritesRight(t)'
    <3> TAKE t \in Threads
    <3>1. CallerRight(t) /\ WritesRight(t)
      BY CallerKnows
    <3>2. CallerRight(t)'
      BY <2>1, <2>2, <3>1 DEF poolVars, callVars, peerVars, CallerRight
    <3>3. WritesRight(t)'
      BY <2>1, <3>1 DEF callVars, WritesRight
    <3> QED
      BY <3>2, <3>3
  <2>4. Parts'
    BY <2>1, <2>2, <2>3, SoundParts DEF Parts, poolVars, callVars, peerVars
  <2> QED
    BY <2>4, SoundParts, PTL
<1>3. ASSUME NEW t \in Threads, Step(t) \/ \E h \in Hosts : Send(t, h) PROVE Sound'
  <2>1. CASE ReadClock(t) \/ PeekAlive(t) \/ CreateFails(t) \/ \E h \in Hosts : Send(t, h)
    BY <1>1, <2>1, QuietSteps
  <2>2. CASE Write(t) \/ Answer(t) \/ \E h \in Hosts : Redirect(t, h)
    BY <1>1, <2>2, ExchangeKeeps
  <2>3. CASE PeekDead(t) \/ Broken(t) \/ Fails(t) \/ RedirectFails(t)
    BY <1>1, <2>3, ClosingKeeps
  <2>4. CASE PutAway(t)
    <3>1. PoolPut(conn[t]) \/ Close(conn[t])
      BY <2>4 DEF PutAway
    <3> QED
      BY <1>1, <2>4, <3>1, PutSteps, ClosingKeeps
  <2>5. CASE Get(t)
    BY <1>1, <2>5, GetSteps
  <2>6. CASE Create(t)
    BY <1>1, <2>6, CreateKeeps
  <2> QED
    BY <1>3, <2>1, <2>2, <2>3, <2>4, <2>5, <2>6 DEF Step
<1>4. CASE TimePasses \/ \E c \in Conns : PeerAnswers(c) \/ PeerCloses(c)
  BY <1>1, <1>4, OutsideKeeps
<1> QED
  BY <1>2, <1>3, <1>4 DEF Next

\* The pool's counters are exact, a connection has one user, leads to the host that
\* was asked for and brings the answer to the request last written; none leaks.
THEOREM ClientSound == Spec => []ClientInv
<1>1. Sound => ClientInv
  BY DEF Sound
<1> QED
  BY <1>1, SoundInit, SoundStep, PTL DEF Spec

\* A request is written twice at most, the second time on a connection made for it,
\* after the pool's connection had failed.
THEOREM NeverThreeTimes == Spec => []WrittenTwiceAtMost
<1>1. Init => WrittenTwiceAtMost
  BY DEF Init, WrittenTwiceAtMost
<1>2. ASSUME Sound, WrittenTwiceAtMost, [Next]_vars PROVE WrittenTwiceAtMost'
  <2> SUFFICES ASSUME NEW t \in Threads PROVE writes'[t] \in {<<>>, <<TRUE>>, <<FALSE>>, <<TRUE, FALSE>>}
    BY DEF WrittenTwiceAtMost
  <2>1. writes[t] \in {<<>>, <<TRUE>>, <<FALSE>>, <<TRUE, FALSE>>} /\ WritesRight(t)
    BY <1>2, CallerKnows DEF WrittenTwiceAtMost
  <2>t. CallTypes /\ PeerTypes
    BY <1>2 DEF Sound, ClientInv, TypeOK, CallTypes, PeerTypes
  <2>2. ASSUME NEW u \in Threads, Step(u) \/ \E h \in Hosts : Send(u, h)
        PROVE  \/ writes'[t] = writes[t] \/ writes'[t] = <<>>
               \/ u = t /\ Write(t)
    BY <2>2, <2>t DEF PeerTypes, Step, Send, ReadClock, Get, PeekAlive, PeekDead, Create, CreateFails, Write, Broken, Fails,
       Answer, Redirect, RedirectFails, PutAway
  <2>3. ASSUME Write(t) PROVE writes'[t] \in {<<TRUE>>, <<FALSE>>, <<TRUE, FALSE>>}
    <3>1. /\ writes'[t] = Append(writes[t], fromPool[t]) /\ fromPool[t] \in BOOLEAN /\ pc[t] = "send"
      BY <2>3, <2>t DEF Write, To, CallTypes, PeerTypes
    <3>2. writes[t] = <<>> \/ (~fromPool[t] /\ writes[t] = <<TRUE>>)
      BY <2>1, <3>1 DEF WritesRight
    <3>3. \A x, y : Append(<<>>, x) = <<x>> /\ Append(<<x>>, y) = <<x, y>>
      <4>1. \A x : Append(<<>>, x) = <<x>>
        OBVIOUS
      <4> QED
        BY <4>1, Twice
    <3>4. CASE fromPool[t] = TRUE
      BY <3>1, <3>2, <3>3, <3>4
    <3>5. CASE fromPool[t] = FALSE
      BY <3>1, <3>2, <3>3, <3>5
    <3> QED
      BY <3>1, <3>4, <3>5
  <2>4. CASE UNCHANGED vars \/ TimePasses \/ \E c \in Conns : PeerAnswers(c) \/ PeerCloses(c)
    BY <2>1, <2>4 DEF vars, callVars, TimePasses, PeerAnswers, PeerCloses
  <2> QED
    BY <1>2, <2>1, <2>2, <2>3, <2>4 DEF Next
<1> QED
  BY <1>1, <1>2, SoundInit, SoundStep, PTL DEF Spec

\* The unsigned difference of the code is the difference, for a time that is not past.
LEMMA AgeIs ==
  ASSUME NEW n \in Nat, NEW u \in Nat, u <= n, NEW p \in Nat, n < p
  PROVE  (n + p - u) % p = n - u
<1>1. p > 0 /\ n - u \in 0 .. p - 1 /\ n + p - u = (n - u) + 1 * p
  OBVIOUS
<1> QED
  BY <1>1

\* evictExpired closes what has been idle for too long, and what is newer than the
\* time its caller had read, but nothing else.
LEMMA ExpiredIsOld ==
  ASSUME Sound, NEW b \in Buckets, NEW t \in Threads, now[t] <= clock, NEW i \in Expired(b, now[t])
  PROVE  clock - lastUsed[bucket[b][i]] > IdleTimeout \/ lastUsed[bucket[b][i]] > now[t]
<1> DEFINE c == bucket[b][i]
           p == 2 ^ ClockBits
<1>1. i \in DOMAIN bucket[b] /\ Age(now[t], c) > IdleTimeout
  BY DEF Expired
<1>2. c \in Conns
  BY <1>1, CallerKnows, PoolFacts, LenProperties, ElementOfSeq
<1>3. now[t] \in 0 .. MaxTime /\ lastUsed[c] \in 0 .. MaxTime /\ clock \in 0 .. MaxTime
  BY <1>2 DEF Sound, ClientInv, TypeOK, PoolTypeOK
<1>4. MaxTime \in Nat /\ IdleTimeout \in Nat /\ p \in Nat /\ MaxTime < p
  BY ClientPoolAssumption
<1>5. Age(now[t], c) = (now[t] + p - lastUsed[c]) % p
  BY DEF Age
<1> HIDE DEF c, p
<1>6. CASE lastUsed[c] <= now[t]
  <2>1. now[t] \in Nat /\ lastUsed[c] \in Nat /\ now[t] < p
    BY <1>3, <1>4
  <2>2. (now[t] + p - lastUsed[c]) % p = now[t] - lastUsed[c]
    BY <1>4, <1>6, <2>1, AgeIs
  <2>3. now[t] - lastUsed[c] > IdleTimeout
    BY <1>1, <1>5, <2>2
  <2> QED
    BY <1>3, <1>4, <2>3 DEF c
<1> QED
  BY <1>3, <1>6 DEF c

\* No connection of the pool is closed that was used a moment ago - but for one put
\* there after its caller had read the clock.
THEOREM OnlyOldEvicted == Spec => OnlyExpiredEvicted
<1> DEFINE Fair(b, c) == \/ clock - lastUsed[c] > IdleTimeout
                         \/ \E t \in Threads : pc[t] = "pool" /\ pc'[t] # "pool" /\ lastUsed[c] > now[t]
<1>1. ASSUME Sound, [Next]_vars, NEW b \in Buckets, NEW c \in Idle(b), c \notin open'
      PROVE  Fair(b, c)
  <2>1. c \in Pooled /\ Pooled \subseteq open /\ PoolRight
    BY <1>1, SoundParts, PoolFacts DEF Pooled, Parts
  <2>2. ASSUME NEW t \in Threads, Close(conn[t]), pc[t] \in {"peek", "send", "answer", "put"} PROVE FALSE
    BY <1>1, <2>1, <2>2, CallerKnows DEF CallerRight, Close
  <2>3. ASSUME NEW t \in Threads, PoolPut(conn[t]), pc[t] = "put" PROVE FALSE
    BY <1>1, <2>1, <2>3, CallerKnows DEF CallerRight, PoolPut
  <2>4. ASSUME NEW t \in Threads, Get(t) PROVE Fair(b, c)
    <3>t. CallTypes
      BY <1>1 DEF Sound, ClientInv, TypeOK, CallTypes
    <3>1. pc[t] = "pool" /\ pc'[t] # "pool" /\ c \in Evicted(BucketOf[host[t]], now[t])
      BY <1>1, <2>1, <2>4, <3>t DEF Get, To, PoolGet, CallTypes
    <3>2. BucketOf[host[t]] \in Buckets /\ now[t] <= clock
      BY <1>1, <2>1, <3>1, <3>t, CallerKnows, PoolFacts DEF CallTypes, CallerRight
    <3>3. \E i \in Expired(BucketOf[host[t]], now[t]) : c = bucket[BucketOf[host[t]]][i]
      BY <2>1, <3>1, <3>2, EvictsOne
    <3> QED
      BY <1>1, <3>1, <3>2, <3>3, ExpiredIsOld
  <2>5. ASSUME NEW t \in Threads, Step(t), ~Get(t) PROVE FALSE
    <3>1. CASE PeekDead(t) \/ Broken(t) \/ Fails(t) \/ RedirectFails(t)
      BY <2>2, <3>1 DEF PeekDead, Broken, Fails, RedirectFails, To
    <3>2. CASE PutAway(t)
      BY <2>2, <2>3, <3>2 DEF PutAway, To
    <3>3. CASE ReadClock(t) \/ PeekAlive(t) \/ CreateFails(t) \/ Write(t) \/ Answer(t) \/ \E h \in Hosts : Redirect(t, h)
      BY <1>1, <2>1, <3>3 DEF ReadClock, PeekAlive, CreateFails, Write, Answer, Redirect, poolVars
    <3>4. CASE Create(t)
      BY <1>1, <2>1, <3>4 DEF Create, Make
    <3> QED
      BY <2>5, <3>1, <3>2, <3>3, <3>4 DEF Step
  <2>6. CASE UNCHANGED vars \/ TimePasses \/ (\E d \in Conns : PeerAnswers(d) \/ PeerCloses(d))
             \/ \E t \in Threads, h \in Hosts : Send(t, h)
    BY <1>1, <2>1, <2>6 DEF vars, poolVars, TimePasses, Tick, PeerAnswers, PeerCloses, Send
  <2> QED
    BY <1>1, <2>4, <2>5, <2>6 DEF Next
<1>2. Sound /\ [Next]_vars => [\A b \in Buckets : \A c \in Idle(b) : c \notin open' =>
        \/ clock - lastUsed[c] > IdleTimeout
        \/ \E t \in Threads : pc[t] = "pool" /\ pc'[t] # "pool" /\ lastUsed[c] > now[t]]_vars
  BY <1>1
<1> QED
  BY <1>2, SoundInit, SoundStep, PTL DEF Spec, OnlyExpiredEvicted
=============================================================================
