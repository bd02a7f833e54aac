-------------------------- MODULE ClientMulti_proofs --------------------------
(***************************************************************************)
(* Proofs about ClientMulti, for any number of entries, connections, hosts *)
(* and addresses, any hash, and any connections left in the pool: a batch  *)
(* counts the entries that are done, holds each connection and releases    *)
(* each address list once, watches each socket for what its entry waits    *)
(* for, and gives to the pool what owes nothing.                           *)
(***************************************************************************)
EXTENDS ClientMulti, ClientPool_proofs

-----------------------------------------------------------------------------
(* The inductive invariant                                                 *)

\* The first loop of Perform, in which entries are started.
First == {"begin", "get", "peek", "create"}

\* Its event loop, and the handshake an event may lead to.
Events == {"loop", "handshake"}
USE DEF Events

\* Where an entry is in the order in which Perform goes through them.
Placed(e) ==
  /\ pc \in First /\ e >= ix => state[e] = "init" /\ conn[e] = None
  /\ Starting(e) => e < ix /\ state[e] # "done" /\ (conn[e] # None <=> pc = "peek")
  /\ pc = "cleanup" => state[e] = "done" /\ (e < ix => conn[e] = None)
  /\ pc = "idle" => conn[e] = None
  /\ pc = "handshake" /\ e = cur => state[e] = "connecting"

\* What it was told.
Answered(e) ==
  got[e] # 0 =>
    /\ got[e] = wrote[e] /\ ~Starting(e)
    /\ state[e] = "done" \/ (state[e] = "reading" /\ partly[e])

\* What its connection has to come: nothing, or the answer to what it wrote last.
Owed(e) ==
  conn[e] # None =>
    /\ \/ Starting(e) \/ state[e] \in {"connecting", "writing"} \/ (state[e] = "reading" /\ partly[e])
       \/ state[e] = "done" /\ result[e] = "ok"
       => Silent(conn[e])
    /\ state[e] = "reading" /\ ~Starting(e) =>
         \/ Silent(conn[e])
         \/ asked[conn[e]] = <<wrote[e]>> /\ came[conn[e]] = <<>>
         \/ \E w \in BOOLEAN : asked[conn[e]] = <<>> /\ came[conn[e]] = <<[id |-> wrote[e], whole |-> w]>>

EntryRight(e) ==
  /\ conn[e] # None => conn[e] \in open \ Pooled
  /\ Placed(e) /\ Answered(e) /\ Owed(e)
  /\ ~Starting(e) => Watched(e)

\* The inductive invariant: MultiInv, over finitely many idle connections.
Sound == MultiInv /\ IsFiniteSet(Pooled)

\* The same, entry by entry.
Parts ==
  /\ TypeOK /\ PoolRight
  /\ pc \in Events => ix > NEntries
  /\ DoneCounted /\ AddressesReleased
  /\ \A e \in Entries : EntryRight(e)
  /\ \A e \in Entries, f \in Entries : conn[e] # None /\ conn[f] = conn[e] => e = f
  /\ open \subseteq Pooled \cup {conn[e] : e \in Entries}
  /\ \A c \in Pooled : Silent(c)

\* What the invariant says is what it says of each entry.
LEMMA SoundParts == Sound <=> Parts
<1> DEFINE One == \A e \in Entries, f \in Entries : conn[e] # None /\ conn[f] = conn[e] => e = f
           All == open \subseteq Pooled \cup {conn[e] : e \in Entries}
           Quiet == \A c \in Pooled : Silent(c)
           Late == pc \in Events => ix > NEntries
           Holds == \A e \in Entries : conn[e] # None => conn[e] \in open \ Pooled
           Shakes == \A e \in Entries : pc = "handshake" /\ e = cur => state[e] = "connecting"
           InIdle == \A e \in Entries : pc = "idle" => conn[e] = None
           Before == /\ pc \in First => \A e \in Entries : e >= ix => state[e] = "init" /\ conn[e] = None
                     /\ \A e \in Entries : Starting(e) =>
                          e < ix /\ state[e] # "done" /\ (conn[e] # None <=> pc = "peek")
                     /\ pc = "cleanup" => \A e \in Entries : state[e] = "done" /\ (e < ix => conn[e] = None)
<1>1. TypeOK /\ PoolCounted /\ PoolSound /\ IsFiniteSet(Pooled) <=> TypeOK /\ PoolRight
  BY DEF PoolRight, TypeOK
<1>2. OneUser <=> PoolSound /\ Holds /\ One /\ All /\ InIdle
  BY DEF OneUser
<1>3. TypeOK => (InOrder <=> Before /\ Late /\ Shakes)
  <2>1. TypeOK => (Shakes <=> (pc = "handshake" => state[cur] = "connecting"))
    BY DEF TypeOK
  <2> QED
    BY <2>1 DEF InOrder, First
<1>4. Before /\ InIdle /\ Shakes <=> \A e \in Entries : Placed(e)
  BY DEF Placed
<1>5. OwnAnswer <=> \A e \in Entries : Answered(e)
  BY DEF OwnAnswer, Answered
<1>6. NothingOwedInPool <=> Quiet /\ \A e \in Entries : Owed(e)
  BY DEF NothingOwedInPool, Owed
<1>7. AlwaysWatched <=> \A e \in Entries : ~Starting(e) => Watched(e)
  BY DEF AlwaysWatched
<1>8. (\A e \in Entries : EntryRight(e))
        <=> Holds /\ (\A e \in Entries : Placed(e)) /\ (\A e \in Entries : Answered(e))
            /\ (\A e \in Entries : Owed(e)) /\ \A e \in Entries : ~Starting(e) => Watched(e)
  BY DEF EntryRight
<1>9. Sound <=> /\ TypeOK /\ PoolCounted /\ OneUser /\ InOrder /\ AddressesReleased /\ DoneCounted
                /\ AlwaysWatched /\ OwnAnswer /\ NothingOwedInPool /\ IsFiniteSet(Pooled)
  BY DEF Sound, MultiInv
<1>10. Parts <=> /\ TypeOK /\ PoolRight /\ Late /\ DoneCounted /\ AddressesReleased
                 /\ (\A e \in Entries : EntryRight(e)) /\ One /\ All /\ Quiet
  BY DEF Parts
<1> HIDE DEF One, All, Quiet, Late, Holds, InIdle, Before, Shakes
<1> QED
  BY <1>1, <1>2, <1>3, <1>4, <1>5, <1>6, <1>7, <1>8, <1>9, <1>10

\* The entries that are done: finitely many, all of them at the end.
LEMMA EntriesFinite ==
  /\ IsFiniteSet(Entries) /\ Cardinality(Entries) = NEntries
  /\ \A S \in SUBSET Entries : IsFiniteSet(S) /\ Cardinality(S) \in 0 .. NEntries
<1>1. NEntries \in Nat \ {0}
  BY ClientMultiAssumption
<1>2. IsFiniteSet(Entries) /\ Cardinality(Entries) = NEntries
  BY <1>1, FS_Interval DEF Entries
<1>3. ASSUME NEW S \in SUBSET Entries PROVE IsFiniteSet(S) /\ Cardinality(S) \in 0 .. NEntries
  <2>1. IsFiniteSet(S) /\ Cardinality(S) <= NEntries
    BY <1>2, FS_Subset
  <2>2. Cardinality(S) \in Nat
    BY <2>1, FS_CardinalityType
  <2> QED
    BY <1>1, <2>1, <2>2
<1> QED
  BY <1>2, <1>3

-----------------------------------------------------------------------------
(* The first state                                                         *)

\* A sequence without a repetition has as many elements as it is long.
LEMMA LenIsCardinality ==
  ASSUME NEW S, NEW n \in Nat, NEW s \in [1 .. n -> S], IsInjective(s)
  PROVE  s \in Seq(S) /\ Len(s) = n /\ IsFiniteSet(ToSet(s)) /\ Cardinality(ToSet(s)) = n
<1>1. s \in Seq(S) /\ Len(s) = n /\ DOMAIN s = 1 .. n
  BY SeqDef, LenProperties
<1>2. s \in Bijection(1 .. n, ToSet(s))
  BY <1>1 DEF Bijection, Injection, Surjection, ToSet, IsInjective
<1>3. IsFiniteSet(1 .. n) /\ Cardinality(1 .. n) = n
  BY FS_Interval
<1> QED
  BY <1>1, <1>2, <1>3, FS_Bijection DEF ExistsBijection

\* The pool that earlier calls may have left.
LEMMA InitialPoolRight ==
  ASSUME NEW h \in Hosts, InitialPool(h)
  PROVE  PoolRight /\ Pooled = open
<1>a. PICK n \in 0 .. MaxIdle : \E s \in [1 .. n -> Conns] :
        IsInjective(s) /\ bucket = [b \in Buckets |-> IF b = BucketOf[h] THEN s ELSE <<>>]
  BY DEF InitialPool
<1>0. PICK s \in [1 .. n -> Conns] :
        IsInjective(s) /\ bucket = [b \in Buckets |-> IF b = BucketOf[h] THEN s ELSE <<>>]
  BY <1>a
<1>1. n \in Nat /\ n <= MaxIdle
  BY ClientPoolAssumption
<1>2. s \in Seq(Conns) /\ Len(s) = n /\ IsFiniteSet(ToSet(s)) /\ Cardinality(ToSet(s)) = n
  BY <1>0, <1>1, LenIsCardinality
<1>3. BucketOf[h] \in Buckets
  BY DEF Buckets
<1>4. /\ bucket[BucketOf[h]] = s /\ count = [b \in Buckets |-> Len(bucket[b])]
      /\ totalIdle = count[BucketOf[h]] /\ open = ToSet(s)
      /\ hostOf = [c \in Conns |-> IF c \in open THEN h ELSE None]
      /\ clock = 0 /\ lastUsed = [c \in Conns |-> 0]
  BY <1>0, <1>3 DEF InitialPool
<1>5. \A b \in Buckets : /\ bucket[b] \in Seq(Conns) /\ IsInjective(bucket[b])
                         /\ b # BucketOf[h] => bucket[b] = <<>> /\ Idle(b) = {}
  <2>1. <<>> \in Seq(Conns) /\ IsInjective(<<>>) /\ ToSet(<<>>) = {}
    BY DEF IsInjective, ToSet
  <2> QED
    BY <1>0, <1>2, <2>1 DEF Idle
<1>6. Idle(BucketOf[h]) = open /\ Pooled = open
  <2>1. Idle(BucketOf[h]) = open /\ \A b \in Buckets : b # BucketOf[h] => Idle(b) = {}
    BY <1>4, <1>5 DEF Idle
  <2> HIDE DEF Idle
  <2> QED
    BY <1>3, <2>1 DEF Pooled
<1>7. open \subseteq Conns
  BY <1>2, <1>4 DEF ToSet
<1>8. \A b \in Buckets : Len(bucket[b]) \in Nat /\ Len(bucket[b]) <= MaxIdle
  <2>1. Len(<<>>) = 0 /\ MaxIdle \in Nat
    BY ClientPoolAssumption
  <2> QED
    BY <1>1, <1>2, <1>4, <1>5, <2>1
<1>9. totalIdle = n /\ totalIdle = Cardinality(Pooled) /\ IsFiniteSet(Pooled)
  BY <1>2, <1>3, <1>4, <1>6
<1>10. PoolTypeOK
  <2>1. 0 \in 0 .. MaxTime
    BY ClientPoolAssumption
  <2>2. bucket \in [Buckets -> Seq(Conns)]
    BY <1>0, <1>5
  <2> QED
    BY <1>1, <1>4, <1>7, <1>8, <1>9, <2>1, <2>2 DEF PoolTypeOK
<1>11. PoolCounted
  BY <1>4, <1>8, <1>9 DEF PoolCounted
<1>12. PoolSound
  BY <1>4, <1>5, <1>6, <1>7 DEF PoolSound
<1> QED
  BY <1>6, <1>9, <1>10, <1>11, <1>12 DEF PoolRight

\* No entry has begun.
LEMMA SoundInit == Init => Sound
<1> SUFFICES ASSUME Init PROVE Sound
  OBVIOUS
<1>1. PoolRight /\ Pooled = open
  BY InitialPoolRight DEF Init
<1>2. NEntries \in Nat \ {0} /\ NAddresses \in Nat /\ MaxBatches \in Nat
  BY ClientMultiAssumption
<1>3. 1 \in Entries /\ 1 \in 1 .. NEntries + 1 /\ 0 \in 0 .. NEntries /\ 0 \in 0 .. NAddresses /\ 0 \in 0 .. MaxBatches
  BY <1>2 DEF Entries
<1>4. TypeOK
  <2>1. PoolTypeOK /\ open \subseteq Conns
    BY <1>1 DEF PoolRight, PoolTypeOK
  <2>2. <<>> \in Seq(Nat) /\ <<>> \in Seq([id : Nat, whole : BOOLEAN])
    OBVIOUS
  <2>3. /\ aiLeft \in [Conns -> 0 .. NAddresses] /\ aiList \subseteq Conns
        /\ socket \in [Conns -> {"pending", "refused", "up", "closed"}]
        /\ asked \in [Conns -> Seq(Nat)] /\ came \in [Conns -> Seq([id : Nat, whole : BOOLEAN])]
        /\ serial \in Nat /\ wrote \in [Entries -> Nat] /\ got \in [Entries -> Nat]
    BY <1>3, <2>2 DEF Init
  <2>4. /\ pc = "idle" /\ ix = 1 /\ cur = 1 /\ batches = 0 /\ expired = FALSE /\ done = 0
        /\ state \in [Entries -> {"init", "connecting", "writing", "reading", "done"}]
        /\ conn \in [Entries -> Conns \cup {None}]
        /\ fromPool \in [Entries -> BOOLEAN] /\ retried \in [Entries -> BOOLEAN]
        /\ keepAlive \in [Entries -> BOOLEAN] /\ partly \in [Entries -> BOOLEAN]
        /\ result \in [Entries -> {"ok", "url", "connect", "send", "recv", "parse", "timeout"}]
        /\ armed \in [Entries -> {"none", "out", "in"}]
    BY DEF Init
  <2> QED
    BY <1>3, <2>1, <2>3, <2>4 DEF TypeOK
<1>5. \A e \in Entries : EntryRight(e)
  BY DEF Init, EntryRight, Placed, Answered, Owed, Watched, First, Starting
<1>6. /\ pc = "idle" /\ aiList = {} /\ \A e \in Entries : conn[e] = None
  BY DEF Init
<1>7. \A c \in Pooled : Silent(c)
  BY <1>1 DEF Init, PoolRight, PoolTypeOK, Silent
<1> QED
  BY <1>1, <1>4, <1>5, <1>6, <1>7, SoundParts DEF Parts, DoneCounted, AddressesReleased


-----------------------------------------------------------------------------
(* Types                                                                   *)

LoopTypes ==
  /\ pc \in {"idle", "begin", "get", "peek", "create", "loop", "handshake", "cleanup"}
  /\ ix \in 1 .. NEntries + 1 /\ cur \in Entries
  /\ batches \in 0 .. MaxBatches
  /\ expired \in BOOLEAN

EntryTypes ==
  /\ state \in [Entries -> {"init", "connecting", "writing", "reading", "done"}]
  /\ conn \in [Entries -> Conns \cup {None}]
  /\ fromPool \in [Entries -> BOOLEAN] /\ retried \in [Entries -> BOOLEAN]
  /\ keepAlive \in [Entries -> BOOLEAN] /\ partly \in [Entries -> BOOLEAN]
  /\ result \in [Entries -> {"ok", "url", "connect", "send", "recv", "parse", "timeout"}]
  /\ armed \in [Entries -> {"none", "out", "in"}]

WireTypes ==
  /\ asked \in [Conns -> Seq(Nat)]
  /\ came \in [Conns -> Seq([id : Nat, whole : BOOLEAN])]
  /\ serial \in Nat
  /\ wrote \in [Entries -> Nat] /\ got \in [Entries -> Nat]

SocketTypes ==
  /\ aiLeft \in [Conns -> 0 .. NAddresses]
  /\ aiList \subseteq Conns
  /\ socket \in [Conns -> {"pending", "refused", "up", "closed"}]

\* The types, in groups.
LEMMA TypeOKIs == TypeOK <=> PoolTypeOK /\ LoopTypes /\ EntryTypes /\ WireTypes /\ SocketTypes /\ done \in 0 .. NEntries
BY DEF TypeOK, LoopTypes, EntryTypes, WireTypes, SocketTypes

\* The constants, as numbers.
LEMMA Numbers ==
  /\ NEntries \in Nat /\ NEntries >= 1 /\ NAddresses \in Nat /\ MaxBatches \in Nat
  /\ None \notin Conns /\ Entries = 1 .. NEntries
BY ClientMultiAssumption, ClientPoolAssumption DEF Entries

\* Where Perform is.
LEMMA LoopTypesKeep ==
  ASSUME TypeOK, [Next]_vars
  PROVE  LoopTypes'
<1>t. LoopTypes
  BY TypeOKIs
<1>1. \A i \in 1 .. NEntries + 1 : i <= NEntries => i \in Entries /\ i + 1 \in 1 .. NEntries + 1
  BY Numbers
<1>2. \A b \in 0 .. MaxBatches : b < MaxBatches => b + 1 \in 0 .. MaxBatches
  BY Numbers
<1>3. 1 \in 1 .. NEntries + 1
  BY Numbers
<1>4. CASE Get \/ PeekAlive \/ PeekDead \/ Create \/ CreateFails
  BY <1>4, <1>t DEF LoopTypes, Get, PeekAlive, PeekDead, Create, CreateFails, AfterStart
<1>5. CASE Begin \/ BeginEnds \/ Perform
  BY <1>5, <1>t, <1>1, <1>2, <1>3 DEF LoopTypes, Begin, BeginEnds, Perform
<1>6. CASE EndAll \/ AllDone \/ Cleanup \/ Returns \/ DeadlinePasses
  BY <1>6, <1>t, <1>1, <1>3 DEF LoopTypes, EndAll, AllDone, Cleanup, Returns, DeadlinePasses
<1>7. CASE Net \/ UNCHANGED vars
  BY <1>7, <1>t DEF LoopTypes, Net, ConnectEnds, PeerAnswers, PeerCutsShort, PeerCloses, netOnly, vars, callVars
<1>8. ASSUME NEW e \in Entries, Handle(e) PROVE LoopTypes'
  BY <1>8, <1>t DEF LoopTypes, Handle, FinishConnect, Handshake, Write, WriteFails, Restart, Read, ReadPart, Eof, callVars
<1>9. CASE PeerShakes \/ HandshakeCut
  BY <1>9, <1>t DEF LoopTypes, PeerShakes, HandshakeCut
<1> QED
  BY <1>4, <1>5, <1>6, <1>7, <1>8, <1>9 DEF Next, Run

\* The connect of an entry is over.
Over(e) == Connected(e) \/ NextAddress(e) \/ NoAddressLeft(e)

\* ... within an event, or within the handshake it led to.
LEMMA OverIs ==
  /\ \A e \in Entries : FinishConnect(e) => Over(e) /\ Event(e, "connecting") /\ UNCHANGED callVars
  /\ PeerShakes \/ HandshakeCut => Over(cur) /\ pc = "handshake" /\ pc' = "loop" /\ UNCHANGED <<ix, cur>>
BY DEF FinishConnect, ConnectFailed, Over, PeerShakes, HandshakeCut

\* What an entry is.
LEMMA EntryTypesKeep ==
  ASSUME TypeOK, [Next]_vars
  PROVE  EntryTypes'
<1>t. EntryTypes /\ ix \in 1 .. NEntries + 1 /\ cur \in Entries
  BY TypeOKIs DEF LoopTypes
<1>1. CASE Get
  BY <1>1, <1>t DEF EntryTypes, Get
<1>a. CASE PeekAlive \/ PeekDead
  BY <1>a, <1>t DEF EntryTypes, PeekAlive, PeekDead
<1>2. CASE CreateFails
  BY <1>2, <1>t DEF EntryTypes, CreateFails, Done
<1>b. CASE Create
  <2>1. PICK c \in Conns, s \in {"up", "pending"} :
          /\ conn' = [conn EXCEPT ![cur] = c]
          /\ state' = [state EXCEPT ![cur] = IF s = "up" THEN "writing" ELSE "connecting"]
          /\ keepAlive' = [keepAlive EXCEPT ![cur] = TRUE]
    BY <1>b DEF Create
  <2>2. armed' = [armed EXCEPT ![cur] = "out"] /\ UNCHANGED <<fromPool, retried, result, partly>>
    BY <1>b DEF Create
  <2> QED
    BY <1>t, <2>1, <2>2 DEF EntryTypes
<1>3. CASE BeginEnds \/ AllDone \/ Returns \/ DeadlinePasses
  BY <1>3, <1>t DEF EntryTypes, BeginEnds, AllDone, Returns, DeadlinePasses, entryVars
<1>c. CASE Begin
  BY <1>c, <1>t DEF EntryTypes, Begin, Done
<1>d. CASE Perform
  BY <1>d, <1>t DEF EntryTypes, Perform
<1>4. CASE EndAll
  <2>1. PICK r \in {"timeout", "recv"} : result' = [e \in Entries |-> IF state[e] = "done" THEN result[e] ELSE r]
    BY <1>4 DEF EndAll
  <2> QED
    BY <1>4, <1>t, <2>1 DEF EntryTypes, EndAll
<1>5. CASE Cleanup
  BY <1>5, <1>t DEF EntryTypes, Cleanup
<1>6. CASE Net \/ UNCHANGED vars
  BY <1>6, <1>t DEF EntryTypes, Net, ConnectEnds, PeerAnswers, PeerCutsShort, PeerCloses, netOnly, vars, entryVars
<1>8. ASSUME NEW e \in Entries, Over(e) PROVE EntryTypes'
  BY <1>8, <1>t DEF EntryTypes, Over, Connected, NextAddress, NoAddressLeft, entryVars, Done
<1>9. CASE PeerShakes \/ HandshakeCut
  BY <1>8, <1>9, <1>t, OverIs
<1>7. ASSUME NEW e \in Entries, Handle(e) PROVE EntryTypes'
  <2>0. CASE FinishConnect(e)
    BY <1>8, <2>0, OverIs
  <2>1. CASE Handshake(e) \/ Write(e)
    BY <2>1, <1>t DEF EntryTypes, Handshake, Write, entryVars
  <2>2. CASE Restart(e)
    BY <2>2, <1>t DEF EntryTypes, Restart
  <2>3. CASE WriteFails(e) \/ Eof(e)
    <3>1. ASSUME NEW r \in {"ok", "recv", "send"}, Done(e, r),
                 UNCHANGED <<conn, fromPool, retried, keepAlive, partly, armed>>
          PROVE  EntryTypes'
      BY <3>1, <1>t DEF EntryTypes, Done
    <3> QED
      BY <2>2, <2>3, <3>1 DEF WriteFails, Eof
  <2>4. CASE Read(e)
    <3>1. PICK r \in {"ok", "parse"}, k \in BOOLEAN : Done(e, r) /\ keepAlive' = [keepAlive EXCEPT ![e] = k]
      BY <2>4 DEF Read
    <3>2. UNCHANGED <<conn, fromPool, retried, partly, armed>>
      BY <2>4 DEF Read
    <3> QED
      BY <1>t, <3>1, <3>2 DEF EntryTypes, Done
  <2>5. CASE ReadPart(e)
    BY <2>5, <1>t DEF EntryTypes, ReadPart
  <2> QED
    BY <1>7, <2>0, <2>1, <2>3, <2>4, <2>5 DEF Handle
<1> QED
  BY <1>1, <1>a, <1>2, <1>b, <1>3, <1>c, <1>d, <1>4, <1>5, <1>6, <1>7, <1>9 DEF Next, Run

\* What is written and answered.
LEMMA WireTypesKeep ==
  ASSUME TypeOK, \A e \in Entries : EntryRight(e), [Next]_vars
  PROVE  WireTypes'
<1>t. WireTypes /\ conn \in [Entries -> Conns \cup {None}]
  BY TypeOKIs DEF EntryTypes
<1>p. \A e \in Entries : pc = "loop" /\ state[e] = "reading" => conn[e] # None
  BY DEF EntryRight, Watched, Starting
<1>q. <<>> \in Seq(Nat) /\ <<>> \in Seq([id : Nat, whole : BOOLEAN])
  OBVIOUS
<1>1. CASE Get \/ PeekAlive \/ PeekDead \/ CreateFails
  BY <1>1, <1>t DEF WireTypes, Get, PeekAlive, PeekDead, CreateFails, netVars
<1>2. CASE Create
  BY <1>2, <1>t, <1>q DEF WireTypes, Create
<1>3. CASE Begin \/ BeginEnds \/ Perform \/ AllDone \/ Returns \/ DeadlinePasses \/ EndAll \/ Cleanup
  BY <1>3, <1>t DEF WireTypes, Begin, BeginEnds, Perform, AllDone, Returns, DeadlinePasses, EndAll, Cleanup, entryVars,
     netVars
<1>4. CASE UNCHANGED vars
  BY <1>4, <1>t DEF WireTypes, vars, entryVars, netVars
<1>5. ASSUME NEW c \in Conns, ConnectEnds(c) \/ PeerAnswers(c) \/ PeerCutsShort(c) \/ PeerCloses(c) PROVE WireTypes'
  <2>1. asked[c] # <<>> => /\ Head(asked[c]) \in Nat /\ Tail(asked[c]) \in Seq(Nat)
                           /\ \A w \in BOOLEAN :
                                Append(came[c], [id |-> Head(asked[c]), whole |-> w]) \in Seq([id : Nat, whole : BOOLEAN])
    BY <1>t, HeadTailProperties, AppendProperties DEF WireTypes
  <2>2. UNCHANGED <<serial, wrote, got>>
    BY <1>5 DEF ConnectEnds, PeerAnswers, PeerCutsShort, PeerCloses, netOnly, entryVars
  <2>3. CASE ConnectEnds(c) \/ PeerCloses(c)
    BY <2>2, <2>3, <1>t, <1>q DEF WireTypes, ConnectEnds, PeerCloses
  <2>4. CASE PeerAnswers(c)
    BY <2>1, <2>2, <2>4, <1>t DEF WireTypes, PeerAnswers
  <2>5. CASE PeerCutsShort(c)
    BY <2>1, <2>2, <2>5, <1>t, <1>q DEF WireTypes, PeerCutsShort
  <2> QED
    BY <1>5, <2>3, <2>4, <2>5
<1>8. ASSUME NEW e \in Entries, Over(e) PROVE WireTypes'
  BY <1>8, <1>t DEF WireTypes, Over, Connected, NextAddress, NoAddressLeft, entryVars
<1>9. CASE PeerShakes \/ HandshakeCut
  BY <1>8, <1>9, OverIs, TypeOKIs DEF LoopTypes
<1>6. ASSUME NEW e \in Entries, Handle(e) PROVE WireTypes'
  <2>0. CASE FinishConnect(e)
    BY <1>8, <2>0, OverIs
  <2>1. CASE Handshake(e) \/ WriteFails(e) \/ Eof(e)
    BY <2>1, <1>t DEF WireTypes, Handshake, WriteFails, Eof, Restart, entryVars, netVars
  <2>2. CASE Write(e)
    <3>1. serial + 1 \in Nat /\ (conn[e] \in Conns => Append(asked[conn[e]], serial + 1) \in Seq(Nat))
      BY <1>t, AppendProperties DEF WireTypes
    <3> QED
      BY <2>2, <3>1, <1>t DEF WireTypes, Write
  <2>3. CASE Read(e) \/ ReadPart(e)
    <3> DEFINE c == conn[e]
               s == came[c]
    <3>1. \A R : \A q \in Seq(R) : q # <<>> => Head(q) \in R /\ Tail(q) \in Seq(R)
      BY HeadTailProperties
    <3>2. /\ came' = [came EXCEPT ![c] = Tail(s)] /\ got' = [got EXCEPT ![e] = Head(s).id] /\ s # <<>>
          /\ UNCHANGED <<serial, wrote, asked>>
      BY <2>3 DEF Read, ReadPart
    <3>3. c \in Conns
      BY <1>t, <2>3, <1>p DEF Read, ReadPart, Event
    <3>4. s \in Seq([id : Nat, whole : BOOLEAN])
      BY <3>3, <1>t DEF WireTypes
    <3>5. Head(s) \in [id : Nat, whole : BOOLEAN] /\ Tail(s) \in Seq([id : Nat, whole : BOOLEAN])
      BY <3>1, <3>2, <3>4
    <3>6. Head(s).id \in Nat
      BY <3>5
    <3> HIDE DEF s, c
    <3> QED
      BY <3>2, <3>3, <3>5, <3>6, <1>t DEF WireTypes
  <2> QED
    BY <1>6, <2>0, <2>1, <2>2, <2>3 DEF Handle
<1> QED
  BY <1>1, <1>2, <1>3, <1>4, <1>5, <1>6, <1>8, <1>9 DEF Next, Run, Net

\* The sockets and their addresses.
LEMMA SocketTypesKeep ==
  ASSUME TypeOK, [Next]_vars
  PROVE  SocketTypes'
<1>t. SocketTypes /\ conn \in [Entries -> Conns \cup {None}]
  BY TypeOKIs DEF EntryTypes
<1>1. CASE Get \/ PeekAlive \/ PeekDead \/ CreateFails
  BY <1>1, <1>t DEF SocketTypes, Get, PeekAlive, PeekDead, CreateFails, netVars
<1>2. CASE Create
  <2>1. PICK c \in Conns, left \in 0 .. NAddresses - 1, s \in {"up", "pending"} :
          /\ socket' = [socket EXCEPT ![c] = s]
          /\ aiLeft' = [aiLeft EXCEPT ![c] = IF s = "up" THEN 0 ELSE left]
          /\ aiList' = IF s = "up" THEN aiList ELSE aiList \cup {c}
    BY <1>2 DEF Create
  <2>2. left \in 0 .. NAddresses /\ 0 \in 0 .. NAddresses
    BY Numbers
  <2> QED
    BY <1>t, <2>1, <2>2 DEF SocketTypes
<1>3. CASE Begin \/ BeginEnds \/ Perform \/ AllDone \/ Returns \/ DeadlinePasses \/ EndAll \/ Cleanup
  BY <1>3, <1>t DEF SocketTypes, Begin, BeginEnds, Perform, AllDone, Returns, DeadlinePasses, EndAll, Cleanup, netVars
<1>4. CASE UNCHANGED vars
  BY <1>4, <1>t DEF SocketTypes, vars, netVars
<1>5. CASE Net
  BY <1>5, <1>t DEF SocketTypes, Net, ConnectEnds, PeerAnswers, PeerCutsShort, PeerCloses
<1>7. ASSUME NEW e \in Entries, Over(e) PROVE SocketTypes'
  <2>1. CASE Connected(e)
    BY <2>1, <1>t DEF SocketTypes, Connected
  <2>2. CASE NoAddressLeft(e)
    <3>1. 0 \in 0 .. NAddresses
      BY Numbers
    <3> QED
      BY <2>2, <3>1, <1>t DEF SocketTypes, NoAddressLeft
  <2>3. CASE NextAddress(e)
    <3>1. PICK left \in 0 .. aiLeft[conn[e]] - 1, s \in {"up", "pending"} :
            aiLeft' = [aiLeft EXCEPT ![conn[e]] = left] /\ socket' = [socket EXCEPT ![conn[e]] = s]
      BY <2>3 DEF NextAddress
    <3>2. conn[e] \in Conns => left \in 0 .. NAddresses
      BY <1>t, Numbers DEF SocketTypes
    <3> QED
      BY <2>3, <3>1, <3>2, <1>t DEF SocketTypes, NextAddress
  <2> QED
    BY <1>7, <2>1, <2>2, <2>3 DEF Over
<1>8. CASE PeerShakes \/ HandshakeCut
  BY <1>7, <1>8, OverIs, TypeOKIs DEF LoopTypes
<1>6. ASSUME NEW e \in Entries, Handle(e) PROVE SocketTypes'
  <2>0. CASE FinishConnect(e)
    BY <1>7, <2>0, OverIs
  <2>1. CASE Handshake(e) \/ Write(e) \/ WriteFails(e) \/ Read(e) \/ ReadPart(e) \/ Eof(e)
    BY <2>1, <1>t DEF SocketTypes, Handshake, Write, WriteFails, Read, ReadPart, Eof, Restart, netVars
  <2> QED
    BY <1>6, <2>0, <2>1 DEF Handle
<1> QED
  BY <1>1, <1>2, <1>3, <1>4, <1>5, <1>6, <1>8 DEF Next, Run


-----------------------------------------------------------------------------
(* Steps                                                                   *)

\* The counter is right again when no entry gets done, ...
LEMMA DoneStays ==
  ASSUME Parts, pc' # "idle" => pc # "idle", done' = done,
         \A e \in Entries : state'[e] = "done" <=> state[e] = "done"
  PROVE  DoneCounted' /\ done' \in 0 .. NEntries
BY DEF Parts, TypeOK, DoneCounted

\* ... and when one more does.
LEMMA OneMoreDone ==
  ASSUME Parts, pc # "idle", NEW e \in Entries, NEW r, state[e] # "done", Done(e, r)
  PROVE  DoneCounted' /\ done' \in 0 .. NEntries
<1> DEFINE D == {f \in Entries : state[f] = "done"}
<1>1. state \in [Entries -> {"init", "connecting", "writing", "reading", "done"}] /\ done = Cardinality(D)
  BY DEF Parts, TypeOK, DoneCounted
<1>2. {f \in Entries : state'[f] = "done"} = D \cup {e} /\ done' = done + 1
  BY <1>1 DEF Done
<1>3. IsFiniteSet(D) /\ e \notin D /\ D \cup {e} \in SUBSET Entries
  BY EntriesFinite
<1>4. Cardinality(D \cup {e}) = Cardinality(D) + 1 /\ Cardinality(D \cup {e}) \in 0 .. NEntries
  BY <1>3, FS_AddElement, EntriesFinite
<1> QED
  BY <1>1, <1>2, <1>4 DEF DoneCounted

\* The types, but for the pool's.
Typed == LoopTypes /\ EntryTypes /\ WireTypes /\ SocketTypes /\ done \in 0 .. NEntries

\* What the other entries know stays the same, and none of them is started.
OthersSame(e) ==
  \A f \in Entries \ {e} :
    /\ conn'[f] = conn[f] /\ state'[f] = state[f] /\ result'[f] = result[f] /\ armed'[f] = armed[f]
    /\ partly'[f] = partly[f] /\ wrote'[f] = wrote[f] /\ got'[f] = got[f]
    /\ ~Starting(f) /\ ~Starting(f)'
    /\ pc' \in First /\ f >= ix' => pc \in First /\ f >= ix
    /\ pc' = "cleanup" => pc = "cleanup" /\ (f < ix' => f < ix)
    /\ ~(pc' = "handshake" /\ f = cur')

\* The step of one entry keeps the invariant, if what is right of that entry stays
\* right, if no other one's connection is touched or gets into the pool, and if its
\* connection is its own, the pool's or a new one.
LEMMA EntrySteps ==
  ASSUME Parts, Typed', PoolRight', DoneCounted', AddressesReleased', NEW e \in Entries,
         pc' # "idle", pc' \in Events => ix' > NEntries,
         OthersSame(e),
         \A c \in open \ Pooled : c # conn[e] => c \in open' \ Pooled' /\ asked'[c] = asked[c] /\ came'[c] = came[c],
         EntryRight(e)',
         conn'[e] = None \/ conn'[e] = conn[e] \/ conn'[e] \notin open \ Pooled,
         \A c \in open' \ Pooled' : c \in open \ Pooled \/ c = conn'[e],
         conn[e] # None => conn[e] \notin open' \ Pooled' \/ conn'[e] = conn[e],
         \A c \in Pooled' : asked'[c] = <<>> /\ came'[c] = <<>>
  PROVE  Parts'
<1>0. \A f \in Entries : EntryRight(f)
  BY DEF Parts
<1>1. /\ \A f \in Entries, g \in Entries : conn[f] # None /\ conn[g] = conn[f] => f = g
      /\ open \subseteq Pooled \cup {conn[f] : f \in Entries} /\ open \subseteq Conns
  BY DEF Parts, TypeOK, PoolTypeOK
<1>s. \A f \in Entries \ {e} :
        /\ conn'[f] = conn[f] /\ state'[f] = state[f] /\ result'[f] = result[f] /\ armed'[f] = armed[f]
        /\ partly'[f] = partly[f] /\ wrote'[f] = wrote[f] /\ got'[f] = got[f]
        /\ ~Starting(f) /\ ~Starting(f)'
        /\ pc' \in First /\ f >= ix' => pc \in First /\ f >= ix
        /\ pc' = "cleanup" => pc = "cleanup" /\ (f < ix' => f < ix)
        /\ ~(pc' = "handshake" /\ f = cur')
  BY DEF OthersSame
<1>2. ASSUME NEW f \in Entries \ {e} PROVE EntryRight(f)'
  <2>1. EntryRight(f)
    BY <1>0
  <2>2. conn[f] # None =>
          /\ conn[f] \in open' \ Pooled' /\ asked'[conn[f]] = asked[conn[f]] /\ came'[conn[f]] = came[conn[f]]
    <3> SUFFICES ASSUME conn[f] # None PROVE /\ conn[f] \in open' \ Pooled'
                                             /\ asked'[conn[f]] = asked[conn[f]] /\ came'[conn[f]] = came[conn[f]]
      OBVIOUS
    <3>1. conn[f] \in open \ Pooled /\ conn[f] # conn[e]
      BY <1>1, <2>1 DEF EntryRight
    <3> QED
      BY <3>1
  <2>3. /\ conn'[f] = conn[f] /\ state'[f] = state[f] /\ result'[f] = result[f] /\ armed'[f] = armed[f]
        /\ partly'[f] = partly[f] /\ wrote'[f] = wrote[f] /\ got'[f] = got[f]
        /\ ~Starting(f) /\ ~Starting(f)'
        /\ pc' \in First /\ f >= ix' => pc \in First /\ f >= ix
        /\ pc' = "cleanup" => pc = "cleanup" /\ (f < ix' => f < ix)
        /\ ~(pc' = "handshake" /\ f = cur')
    BY <1>s
  <2>4. Placed(f)'
    BY ONLY <2>1, <2>3, pc' # "idle" DEF EntryRight, Placed, First
  <2>5. Answered(f)'
    BY ONLY <2>1, <2>3 DEF EntryRight, Answered
  <2>6. Owed(f)'
    BY ONLY <2>1, <2>2, <2>3 DEF EntryRight, Owed, Silent
  <2>7. ~Starting(f)' => Watched(f)'
    BY ONLY <2>1, <2>3 DEF EntryRight, Watched
  <2>8. conn'[f] # None => conn'[f] \in open' \ Pooled'
    BY <2>2, <2>3
  <2> QED
    BY <2>4, <2>5, <2>6, <2>7, <2>8 DEF EntryRight
<1>3. ASSUME NEW f \in Entries, NEW g \in Entries, conn'[f] # None, conn'[g] = conn'[f] PROVE f = g
  <2>1. ASSUME NEW w \in Entries \ {e}, conn'[e] # None, conn'[w] = conn'[e] PROVE FALSE
    <3>1. conn[w] # None /\ conn[w] = conn'[e]
      BY <1>s, <2>1
    <3>2. conn[w] \in open \ Pooled
      BY <1>0, <3>1 DEF EntryRight
    <3>3. conn[w] = conn[e]
      BY <3>1, <3>2
    <3> QED
      BY <1>1, <3>1, <3>3
  <2>2. CASE f # e /\ g # e
    BY <1>1, <1>3, <1>s, <2>2
  <2> QED
    BY <1>3, <2>1, <2>2
<1>4. ASSUME NEW c \in open' \ Pooled' PROVE c \in {conn'[f] : f \in Entries}
  <2>1. CASE c = conn'[e]
    BY <2>1
  <2>2. CASE c \in open \ Pooled /\ c # conn'[e]
    <3>1. PICK f \in Entries : c = conn[f]
      BY <1>1, <2>2
    <3>2. f = e \/ conn'[f] = c
      BY <1>s, <3>1
    <3>3. CASE f = e
      <4>1. c # None
        BY <1>1, <2>2, Numbers
      <4> QED
        BY <1>4, <2>2, <3>1, <3>3, <4>1
    <3> QED
      BY <3>2, <3>3
  <2> QED
    BY <1>4, <2>1, <2>2
<1>5. \A f \in Entries : EntryRight(f)'
  BY <1>2
<1>6. TypeOK'
  BY TypeOKIs, PTL DEF Typed, PoolRight
<1>7. \A c \in Pooled' : Silent(c)'
  BY DEF Silent
<1> QED
  BY <1>3, <1>4, <1>5, <1>6, <1>7 DEF Parts


\* What is known of one entry.
LEMMA EntryKnows ==
  ASSUME Parts, NEW e \in Entries
  PROVE  /\ EntryRight(e) /\ PoolRight /\ Pooled \subseteq open /\ open \subseteq Conns /\ aiList \subseteq open \ Pooled
         /\ LoopTypes /\ EntryTypes /\ WireTypes /\ SocketTypes /\ None \notin Conns
         /\ \A c \in Pooled : asked[c] = <<>> /\ came[c] = <<>>
BY TypeOKIs, PoolFacts, Numbers DEF Parts, PoolRight, PoolTypeOK, AddressesReleased, Silent

\* The pool is left alone, and the entry keeps the connection it has, or has none.
LEMMA MovesKeep ==
  ASSUME Parts, Typed', DoneCounted', NEW e \in Entries, OthersSame(e), UNCHANGED poolVars,
         pc' # "idle", pc' \in Events => ix' > NEntries, conn'[e] = conn[e], aiList' \subseteq aiList,
         \A c \in Conns : c # conn[e] => asked'[c] = asked[c] /\ came'[c] = came[c],
         Placed(e)', Answered(e)', Owed(e)', ~Starting(e)' => Watched(e)'
  PROVE  Parts'
<1>k. /\ EntryRight(e) /\ PoolRight /\ Pooled \subseteq open /\ open \subseteq Conns /\ aiList \subseteq open \ Pooled
      /\ \A c \in Pooled : asked[c] = <<>> /\ came[c] = <<>>
  BY EntryKnows
<1>1. Pooled' = Pooled /\ open' = open
  BY DEF poolVars, Pooled, Idle
<1>2. PoolRight'
  BY <1>1, <1>k DEF poolVars, PoolRight, PoolTypeOK, PoolCounted, PoolSound, Idle
<1>3. AddressesReleased'
  BY <1>1, <1>k DEF AddressesReleased
<1>4. conn[e] \notin Pooled /\ (conn[e] # None => conn[e] \in open \ Pooled)
  BY <1>k, Numbers DEF EntryRight
<1>5. EntryRight(e)'
  BY <1>1, <1>4 DEF EntryRight
<1>6. \A c \in Pooled' : asked'[c] = <<>> /\ came'[c] = <<>>
  BY <1>1, <1>4, <1>k
<1>7. \A c \in open \ Pooled : c # conn[e] => c \in open' \ Pooled' /\ asked'[c] = asked[c] /\ came'[c] = came[c]
  BY <1>1, <1>k
<1> QED
  BY <1>1, <1>2, <1>3, <1>5, <1>6, <1>7, EntrySteps

\* The entry's connection is closed, and its address list goes.
LEMMA ClosesKeep ==
  ASSUME Parts, Typed', DoneCounted', NEW e \in Entries, OthersSame(e),
         pc' # "idle", pc' \in Events => ix' > NEntries,
         conn[e] # None, Close(conn[e]), conn'[e] = None, aiList' = aiList \ {conn[e]}, UNCHANGED <<asked, came>>,
         Placed(e)', Answered(e)', ~Starting(e)' => Watched(e)'
  PROVE  Parts'
<1>k. /\ EntryRight(e) /\ PoolRight /\ Pooled \subseteq open /\ open \subseteq Conns /\ aiList \subseteq open \ Pooled
      /\ \A c \in Pooled : asked[c] = <<>> /\ came[c] = <<>>
  BY EntryKnows
<1>1. conn[e] \in open \ Pooled
  BY <1>k DEF EntryRight
<1>2. PoolRight' /\ Pooled' = Pooled
  BY <1>1, <1>k, CloseKeeps
<1>3. open' = open \ {conn[e]}
  BY DEF Close
<1>4. AddressesReleased'
  BY <1>2, <1>3, <1>k DEF AddressesReleased
<1>5. EntryRight(e)'
  BY DEF EntryRight, Owed
<1>6. \A c \in Pooled' : asked'[c] = <<>> /\ came'[c] = <<>>
  BY <1>2, <1>k
<1>7. \A c \in open \ Pooled : c # conn[e] => c \in open' \ Pooled' /\ asked'[c] = asked[c] /\ came'[c] = came[c]
  BY <1>2, <1>3
<1>8. (\A c \in open' \ Pooled' : c \in open \ Pooled) /\ conn[e] \notin open' \ Pooled'
  BY <1>2, <1>3
<1> QED
  BY <1>2, <1>4, <1>5, <1>6, <1>7, <1>8, EntrySteps

\* A connection comes out of the pool, or none does.
LEMMA GetSteps ==
  ASSUME Parts, Typed', NEW e \in Entries, e = cur, Get
  PROVE  Parts'
<1>c. e = cur /\ e \in Entries
  OBVIOUS
<1> DEFINE b == BucketOf[HostOfEntry[e]]
           E == Evicted(b, clock)
<1>k. /\ EntryRight(e) /\ PoolRight /\ Pooled \subseteq open /\ open \subseteq Conns /\ aiList \subseteq open \ Pooled
      /\ LoopTypes /\ EntryTypes /\ WireTypes /\ None \notin Conns
      /\ \A c \in Pooled : asked[c] = <<>> /\ came[c] = <<>>
  BY <1>c, EntryKnows
<1>1. PICK c \in Conns \cup {None} :
        PoolGet(HostOfEntry[e], clock, c) /\ conn' = [conn EXCEPT ![e] = c] /\ pc' = IF c = None THEN "create" ELSE "peek"
  BY DEF Get
<1>2. /\ pc = "get" /\ pc' \in {"create", "peek"}
      /\ UNCHANGED <<state, result, armed, partly, wrote, got, ix, cur, asked, came, aiList, done>>
  BY <1>1 DEF Get, netVars
<1>3. HostOfEntry[e] \in Hosts
  BY <1>c, ClientMultiAssumption
<1>4. PoolRight' /\ Pooled' = (Pooled \ E) \ {c} /\ (c # None => c \in Pooled /\ c \notin E)
  BY <1>1, <1>3, <1>k, GetKeeps
<1>5. E \subseteq Pooled /\ open' = open \ E
  <2>1. b \in Buckets
    BY <1>3, <1>k, PoolFacts
  <2> QED
    BY <2>1, <1>1, <1>k, EvictsOne DEF Pooled, PoolGet
<1> HIDE DEF b, E
<1>6. conn[e] = None /\ conn'[e] = c /\ \A f \in Entries \ {e} : conn'[f] = conn[f]
  BY <1>c, <1>k, <1>1, <1>2 DEF EntryRight, Placed, Starting, EntryTypes
<1>7. OthersSame(e)
  BY <1>2, <1>6 DEF OthersSame, Starting, First
<1>8. DoneCounted'
  BY <1>2, DoneStays
<1>9. open' \ Pooled' = (open \ Pooled) \cup (IF c = None THEN {} ELSE {c})
  BY <1>4, <1>5, <1>k
<1>10. EntryRight(e)'
  <2>1. Placed(e)'
    <3>1. e < ix /\ state[e] # "done" /\ e \in Nat /\ ix \in Nat
      BY <1>c, <1>2, <1>k, Numbers DEF EntryRight, Placed, Starting, LoopTypes
    <3>2. ix' = ix /\ state' = state /\ ~(e >= ix)
      BY <1>2, <3>1
    <3>3. conn'[e] # None <=> pc' = "peek"
      BY <1>1, <1>6
    <3> QED
      BY <1>2, <3>1, <3>2, <3>3 DEF Placed
  <2>2. Answered(e)'
    BY <1>c, <1>2, <1>k DEF EntryRight, Answered, Starting
  <2>3. c # None => asked'[c] = <<>> /\ came'[c] = <<>>
    BY <1>2, <1>4, <1>k
  <2>4. Starting(e)' /\ Owed(e)'
    BY <1>c, <1>2, <1>6, <2>3 DEF Owed, Silent, Starting
  <2> QED
    BY <1>6, <1>9, <2>1, <2>2, <2>4 DEF EntryRight
<1>11. AddressesReleased'
  BY <1>2, <1>9, <1>k DEF AddressesReleased
<1>12. \A d \in Pooled' : asked'[d] = <<>> /\ came'[d] = <<>>
  BY <1>2, <1>4, <1>k
<1>13. \A d \in open \ Pooled : d \in open' \ Pooled' /\ asked'[d] = asked[d] /\ came'[d] = came[d]
  BY <1>2, <1>9
<1>14. conn'[e] = None \/ conn'[e] \notin open \ Pooled
  BY <1>4, <1>6
<1>15. \A d \in open' \ Pooled' : d \in open \ Pooled \/ d = conn'[e]
  BY <1>6, <1>9
<1>16. pc' # "idle" /\ pc' \notin Events
  BY <1>2
<1> QED
  BY <1>4, <1>6, <1>7, <1>8, <1>10, <1>11, <1>12, <1>13, <1>14, <1>15, <1>16, EntrySteps

\* A connection is made.
LEMMA CreateSteps ==
  ASSUME Parts, Typed', NEW e \in Entries, e = cur, Create
  PROVE  Parts'
<1>c. e = cur /\ e \in Entries
  OBVIOUS
<1>k. /\ EntryRight(e) /\ PoolRight /\ Pooled \subseteq open /\ open \subseteq Conns /\ aiList \subseteq open \ Pooled
      /\ LoopTypes /\ EntryTypes /\ WireTypes /\ SocketTypes /\ None \notin Conns
      /\ \A c \in Pooled : asked[c] = <<>> /\ came[c] = <<>>
  BY <1>c, EntryKnows
<1>1. PICK c \in Conns, s \in {"up", "pending"} :
        /\ Make(c, HostOfEntry[e])
        /\ conn' = [conn EXCEPT ![e] = c]
        /\ aiList' = IF s = "up" THEN aiList ELSE aiList \cup {c}
        /\ asked' = [asked EXCEPT ![c] = <<>>] /\ came' = [came EXCEPT ![c] = <<>>]
        /\ state' = [state EXCEPT ![e] = IF s = "up" THEN "writing" ELSE "connecting"]
  BY DEF Create
<1>2. /\ pc = "create" /\ armed' = [armed EXCEPT ![e] = "out"] /\ pc' = AfterStart
      /\ UNCHANGED <<result, partly, wrote, got, ix, cur, done>>
  BY DEF Create
<1>3. HostOfEntry[e] \in Hosts
  BY <1>c, ClientMultiAssumption
<1>4. PoolRight' /\ Pooled' = Pooled
  BY <1>1, <1>3, <1>k, MakeKeeps
<1>5. c \notin open /\ open' = open \cup {c} /\ c \notin Pooled /\ c # None
  BY <1>1, <1>k DEF Make
<1>6. /\ conn[e] = None /\ conn'[e] = c /\ state'[e] \in {"writing", "connecting"} /\ armed'[e] = "out"
      /\ state[e] # "done" /\ got[e] = 0 /\ e < ix
      /\ \A f \in Entries \ {e} : conn'[f] = conn[f] /\ state'[f] = state[f] /\ armed'[f] = armed[f]
      /\ asked'[c] = <<>> /\ came'[c] = <<>>
      /\ \A d \in Conns : d # c => asked'[d] = asked[d] /\ came'[d] = came[d]
  BY <1>c, <1>k, <1>1, <1>2 DEF EntryRight, Placed, Starting, Answered, EntryTypes, WireTypes
<1>7. OthersSame(e)
  BY <1>2, <1>6 DEF OthersSame, Starting, First, AfterStart
<1>p. pc' = "begin" \/ (pc' = "loop" /\ ix' > NEntries)
  <2>1. ix \in Nat /\ NEntries \in Nat
    BY <1>k, Numbers DEF LoopTypes
  <2> QED
    BY <1>2, <2>1 DEF AfterStart
<1>8. DoneCounted'
  <2>1. \A f \in Entries : state'[f] = "done" <=> state[f] = "done"
    BY <1>6
  <2> QED
    BY <1>2, <2>1, DoneStays
<1>9. open' \ Pooled' = (open \ Pooled) \cup {c}
  BY <1>4, <1>5
<1>10. EntryRight(e)'
  <2>1. Placed(e)'
    <3>1. ix' = ix /\ e \in Nat /\ ix \in Nat /\ ~(e >= ix)
      BY <1>c, <1>2, <1>6, <1>k, Numbers DEF LoopTypes
    <3> QED
      BY <1>p, <3>1 DEF Placed, Starting
  <2>2. Answered(e)'
    BY <1>2, <1>6 DEF Answered
  <2>3. Owed(e)'
    BY <1>6 DEF Owed, Silent
  <2>4. Watched(e)'
    BY <1>5, <1>6 DEF Watched
  <2> QED
    BY <1>6, <1>9, <2>1, <2>2, <2>3, <2>4 DEF EntryRight
<1>11. AddressesReleased'
  BY <1>1, <1>9, <1>k DEF AddressesReleased
<1>12. \A d \in Pooled' : asked'[d] = <<>> /\ came'[d] = <<>>
  BY <1>4, <1>5, <1>6, <1>k
<1>13. \A d \in open \ Pooled : d \in open' \ Pooled' /\ asked'[d] = asked[d] /\ came'[d] = came[d]
  BY <1>5, <1>6, <1>9, <1>k
<1>14. conn'[e] \notin open \ Pooled
  BY <1>5, <1>6
<1>15. \A d \in open' \ Pooled' : d \in open \ Pooled \/ d = conn'[e]
  BY <1>6, <1>9
<1>16. pc' # "idle" /\ (pc' \in Events => ix' > NEntries)
  BY <1>p
<1> QED
  BY <1>4, <1>6, <1>7, <1>8, <1>10, <1>11, <1>12, <1>13, <1>14, <1>15, <1>16, EntrySteps


\* The pool's connection is alive, or none can be made.
LEMMA StartSteps ==
  ASSUME Parts, Typed', NEW e \in Entries, e = cur, PeekAlive \/ CreateFails
  PROVE  Parts'
<1>k. /\ EntryRight(e) /\ LoopTypes /\ EntryTypes /\ WireTypes /\ None \notin Conns
  BY EntryKnows
<1>1. pc \in {"peek", "create"} /\ pc' = AfterStart /\ UNCHANGED <<conn, wrote, got, ix, cur, asked, came, aiList>>
  BY DEF PeekAlive, CreateFails, netVars
<1>2. Starting(e) /\ e < ix /\ state[e] # "done" /\ (conn[e] # None <=> pc = "peek") /\ got[e] = 0 /\ e \in Nat /\ ix \in Nat
  BY <1>1, <1>k, Numbers DEF EntryRight, Placed, Answered, Starting, LoopTypes
<1>3. \/ pc = "peek" /\ state'[e] = "writing" /\ armed'[e] = "out" /\ asked[conn[e]] = <<>> /\ came[conn[e]] = <<>>
      \/ pc = "create" /\ state'[e] = "done"
  BY <1>2, <1>k DEF PeekAlive, CreateFails, EntryTypes, EntryRight, Owed, Silent, Done
<1>4. OthersSame(e)
  <2>1. \A f \in Entries \ {e} : /\ state'[f] = state[f] /\ result'[f] = result[f] /\ armed'[f] = armed[f]
                                 /\ partly'[f] = partly[f]
    BY <1>k DEF PeekAlive, CreateFails, EntryTypes, Done
  <2> QED
    BY <1>1, <2>1 DEF OthersSame, Starting, First, AfterStart
<1>5. UNCHANGED poolVars
  BY DEF PeekAlive, CreateFails
<1>p. pc' = "begin" \/ (pc' = "loop" /\ ix' > NEntries)
  BY <1>1, <1>2, Numbers DEF AfterStart
<1>6. DoneCounted'
  <2>1. CASE CreateFails
    <3>1. Done(e, "connect")
      BY <2>1 DEF CreateFails
    <3> QED
      BY <1>1, <1>2, <3>1, OneMoreDone
  <2>2. CASE PeekAlive
    <3>1. done' = done /\ \A f \in Entries : state'[f] = "done" <=> state[f] = "done"
      BY <2>2, <1>2, <1>k DEF PeekAlive, EntryTypes
    <3> QED
      BY <1>1, <3>1, DoneStays
  <2> QED
    BY <2>1, <2>2
<1>7. Placed(e)'
  BY <1>1, <1>2, <1>p DEF Placed, Starting
<1>8. Answered(e)'
  BY <1>1, <1>2 DEF Answered
<1>9. Owed(e)'
  BY <1>1, <1>2, <1>3 DEF Owed, Silent
<1>10. Watched(e)'
  BY <1>1, <1>2, <1>3 DEF Watched
<1> QED
  BY <1>1, <1>4, <1>5, <1>6, <1>7, <1>8, <1>9, <1>10, <1>p, MovesKeep

\* The pool's connection is dead.
LEMMA PeekDeadSteps ==
  ASSUME Parts, Typed', NEW e \in Entries, e = cur, PeekDead
  PROVE  Parts'
<1>k. /\ EntryRight(e) /\ LoopTypes /\ EntryTypes /\ None \notin Conns
  BY EntryKnows
<1>1. /\ pc = "peek" /\ pc' = "create" /\ Close(conn[e]) /\ aiList' = aiList \ {conn[e]}
      /\ conn' = [conn EXCEPT ![e] = None]
      /\ UNCHANGED <<state, result, armed, partly, wrote, got, ix, cur, asked, came, done>>
  BY DEF PeekDead
<1>2. e < ix /\ state[e] # "done" /\ conn[e] # None /\ got[e] = 0 /\ e \in Nat /\ ix \in Nat
  BY <1>1, <1>k, Numbers DEF EntryRight, Placed, Answered, Starting, LoopTypes
<1>3. conn'[e] = None /\ \A f \in Entries \ {e} : conn'[f] = conn[f]
  BY <1>1, <1>k DEF EntryTypes
<1>4. OthersSame(e)
  BY <1>1, <1>3 DEF OthersSame, Starting, First
<1>5. DoneCounted'
  BY <1>1, DoneStays
<1>6. Placed(e)'
  BY <1>1, <1>2, <1>3 DEF Placed, Starting
<1>7. Answered(e)'
  BY <1>1, <1>2 DEF Answered
<1>8. Starting(e)'
  BY <1>1 DEF Starting
<1> QED
  BY <1>1, <1>2, <1>3, <1>4, <1>5, <1>6, <1>7, <1>8, ClosesKeep

\* The next entry is begun, or its URL is no good.
LEMMA BeginSteps ==
  ASSUME Parts, Typed', NEW e \in Entries, e = ix, Begin
  PROVE  Parts'
<1>k. /\ EntryRight(e) /\ LoopTypes /\ EntryTypes /\ None \notin Conns
  BY EntryKnows
<1>1. /\ pc = "begin" /\ ix' = ix + 1 /\ cur' = e /\ e \in Nat /\ UNCHANGED poolVars
      /\ UNCHANGED <<conn, armed, partly, wrote, got, asked, came, aiList>>
      /\ \/ pc' = "get" /\ UNCHANGED <<state, result, done>>
         \/ pc' = "begin" /\ Done(e, "url")
  BY Numbers DEF Begin, netVars
<1>2. state[e] = "init" /\ conn[e] = None /\ got[e] = 0
  BY <1>1, <1>k DEF EntryRight, Placed, Answered, First
<1>3. OthersSame(e)
  <2>1. \A f \in Entries \ {e} : state'[f] = state[f] /\ result'[f] = result[f]
    BY <1>1, <1>k DEF EntryTypes, Done
  <2>2. \A f \in Entries \ {e} : f \in Nat /\ (f >= ix + 1 => f >= ix)
    BY <1>1, Numbers
  <2> QED
    BY <1>1, <2>1, <2>2 DEF OthersSame, Starting, First
<1>4. DoneCounted'
  <2>1. CASE Done(e, "url")
    BY <1>1, <1>2, <2>1, OneMoreDone
  <2>2. CASE UNCHANGED <<state, result, done>>
    BY <1>1, <2>2, DoneStays
  <2> QED
    BY <1>1, <2>1, <2>2
<1>5. Placed(e)'
  <2>1. e < ix' /\ ~(e >= ix')
    BY <1>1
  <2> QED
    BY <1>1, <1>2, <2>1 DEF Placed, Starting
<1>6. Answered(e)' /\ Owed(e)'
  BY <1>1, <1>2 DEF Answered, Owed
<1>7. ~Starting(e)' => Watched(e)'
  <2>1. ~Starting(e)' => state'[e] = "done"
    BY <1>1, <1>k DEF Starting, Done, EntryTypes
  <2> QED
    BY <2>1 DEF Watched
<1> QED
  BY <1>1, <1>3, <1>4, <1>5, <1>6, <1>7, MovesKeep

\* An entry's connection goes at the end: into the pool, or closed.
LEMMA CleanupSteps ==
  ASSUME Parts, Typed', NEW e \in Entries, e = ix, Cleanup
  PROVE  Parts'
<1>k. /\ EntryRight(e) /\ PoolRight /\ Pooled \subseteq open /\ open \subseteq Conns /\ aiList \subseteq open \ Pooled
      /\ LoopTypes /\ EntryTypes /\ None \notin Conns
      /\ \A c \in Pooled : asked[c] = <<>> /\ came[c] = <<>>
  BY EntryKnows
<1>1. /\ pc = "cleanup" /\ pc' = "cleanup" /\ ix' = ix + 1 /\ e \in Nat
      /\ conn' = [conn EXCEPT ![e] = None] /\ armed' = [armed EXCEPT ![e] = "none"]
      /\ UNCHANGED <<state, result, partly, wrote, got, cur, asked, came, done>>
  BY Numbers DEF Cleanup
<1>2. \/ conn[e] = None /\ UNCHANGED <<poolVars, aiList>>
      \/ /\ conn[e] # None /\ aiList' = aiList \ {conn[e]}
         /\ Close(conn[e]) \/ (result[e] = "ok" /\ PoolPut(conn[e]))
  BY DEF Cleanup
<1>3. conn'[e] = None /\ \A f \in Entries \ {e} : conn'[f] = conn[f] /\ armed'[f] = armed[f]
  BY <1>1, <1>k DEF EntryTypes
<1>4. OthersSame(e)
  <2>1. \A f \in Entries \ {e} : f < ix + 1 => f < ix
    BY <1>1, Numbers
  <2> QED
    BY <1>1, <1>3, <2>1 DEF OthersSame, Starting, First
<1>5. DoneCounted'
  BY <1>1, DoneStays
<1>6. state[e] = "done" /\ ~Starting(e)'
  BY <1>1, <1>k DEF EntryRight, Placed, Starting
<1>7. Placed(e)' /\ Watched(e)' /\ Owed(e)'
  BY <1>1, <1>3, <1>6 DEF Placed, Watched, Owed, First
<1>8. Answered(e)'
  BY <1>1, <1>6, <1>k DEF EntryRight, Answered
<1>9. CASE conn[e] = None /\ UNCHANGED <<poolVars, aiList>>
  BY <1>1, <1>3, <1>4, <1>5, <1>7, <1>8, <1>9, MovesKeep
<1>10. CASE conn[e] # None /\ aiList' = aiList \ {conn[e]} /\ Close(conn[e])
  BY <1>1, <1>3, <1>4, <1>5, <1>7, <1>8, <1>10, ClosesKeep
<1>11. CASE conn[e] # None /\ aiList' = aiList \ {conn[e]} /\ result[e] = "ok" /\ PoolPut(conn[e])
  <2>1. conn[e] \in open /\ conn[e] \notin Pooled /\ asked[conn[e]] = <<>> /\ came[conn[e]] = <<>>
    BY <1>6, <1>11, <1>k DEF EntryRight, Owed, Silent
  <2>2. /\ PoolRight'
        /\ \/ Pooled' = Pooled /\ open' = open \ {conn[e]}
           \/ Pooled' = Pooled \cup {conn[e]} /\ open' = open
    BY <1>11, <1>k, <2>1, PutKeeps
  <2>3. open' \ Pooled' = (open \ Pooled) \ {conn[e]}
    BY <2>1, <2>2
  <2>4. AddressesReleased'
    BY <1>11, <1>k, <2>3 DEF AddressesReleased
  <2>5. EntryRight(e)'
    BY <1>3, <1>7, <1>8 DEF EntryRight
  <2>6. \A c \in Pooled' : asked'[c] = <<>> /\ came'[c] = <<>>
    BY <1>1, <1>k, <2>1, <2>2
  <2>7. \A c \in open \ Pooled : c # conn[e] => c \in open' \ Pooled' /\ asked'[c] = asked[c] /\ came'[c] = came[c]
    BY <1>1, <2>3
  <2>8. (\A c \in open' \ Pooled' : c \in open \ Pooled) /\ conn[e] \notin open' \ Pooled'
    BY <2>3
  <2> QED
    BY <1>1, <1>3, <1>4, <1>5, <2>2, <2>4, <2>5, <2>6, <2>7, <2>8, EntrySteps
<1> QED
  BY <1>2, <1>9, <1>10, <1>11


-----------------------------------------------------------------------------
(* Events                                                                  *)

\* While the events are handled, no entry is being started, and all have been.
LEMMA InLoop ==
  ASSUME Parts, pc \in Events
  PROVE  /\ \A f \in Entries : ~Starting(f) /\ f < ix /\ f \in Nat
         /\ ix > NEntries /\ ix \in Nat
<1>1. ix > NEntries /\ ix \in 1 .. NEntries + 1 /\ NEntries \in Nat
  BY Numbers DEF Parts, TypeOK
<1> QED
  BY <1>1, Numbers DEF Starting

\* An event of an entry that leaves it the connection it has.
LEMMA EventKeeps ==
  ASSUME Parts, Typed', DoneCounted', NEW e \in Entries, pc \in Events, pc' \in Events,
         pc' = "handshake" => cur' = e /\ state'[e] = "connecting", ix' = ix, UNCHANGED poolVars,
         UNCHANGED conn,
         \A f \in Entries \ {e} :
           /\ state'[f] = state[f] /\ result'[f] = result[f] /\ armed'[f] = armed[f]
           /\ partly'[f] = partly[f] /\ wrote'[f] = wrote[f] /\ got'[f] = got[f],
         aiList' \subseteq aiList,
         \A c \in Conns : c # conn[e] => asked'[c] = asked[c] /\ came'[c] = came[c],
         Answered(e)', Owed(e)', Watched(e)'
  PROVE  Parts'
<1>1. \A f \in Entries : ~Starting(f) /\ ~Starting(f)'
  BY InLoop DEF Starting
<1>2. OthersSame(e) /\ Placed(e)' /\ ix > NEntries
  BY <1>1, InLoop DEF OthersSame, First, Placed
<1> QED
  BY <1>1, <1>2, MovesKeep

\* An https connect leads to a handshake, in which the whole batch waits.
LEMMA HandshakeSteps ==
  ASSUME Parts, Typed', NEW e \in Entries, Handshake(e)
  PROVE  Parts'
<1>k. EntryRight(e)
  BY EntryKnows
<1>1. /\ pc = "loop" /\ pc' = "handshake" /\ cur' = e /\ ix' = ix /\ state'[e] = "connecting" /\ UNCHANGED poolVars
      /\ UNCHANGED <<state, conn, result, armed, partly, wrote, got, done, aiList, asked, came>>
  BY DEF Handshake, Event, entryVars, netVars
<1>2. Answered(e)' /\ Owed(e)' /\ Watched(e)'
  BY <1>1, <1>k, InLoop DEF EntryRight, Answered, Owed, Silent, Watched, Starting
<1>3. DoneCounted'
  BY <1>1, DoneStays
<1> QED
  BY <1>1, <1>2, <1>3, EventKeeps

\* The connect ends, or goes on with the next address.
LEMMA ConnectSteps ==
  ASSUME Parts, Typed', NEW e \in Entries, Over(e), pc \in Events, pc' = "loop", ix' = ix, cur' = cur,
         state[e] = "connecting"
  PROVE  Parts'
<1>k. EntryRight(e) /\ EntryTypes
  BY EntryKnows
<1>1. /\ state[e] = "connecting" /\ ~Starting(e) /\ ~Starting(e)' /\ UNCHANGED poolVars
      /\ UNCHANGED <<conn, armed, partly, wrote, got, asked, came>> /\ aiList' \subseteq aiList
  BY InLoop DEF Over, Connected, NextAddress, NoAddressLeft, entryVars, Starting
<1>2. conn[e] # None /\ armed[e] = "out" /\ Silent(conn[e]) /\ got[e] = 0
  BY <1>1, <1>k DEF EntryRight, Watched, Owed, Answered
<1>3. /\ \/ state'[e] \in {"connecting", "writing"} /\ result' = result
         \/ state'[e] = "done" /\ result'[e] = "connect"
      /\ \A f \in Entries \ {e} : state'[f] = state[f] /\ result'[f] = result[f]
  BY <1>1, <1>k DEF Over, Connected, NextAddress, NoAddressLeft, Done, entryVars, EntryTypes
<1>4. DoneCounted'
  <2>1. CASE NoAddressLeft(e)
    BY <1>1, <2>1, OneMoreDone DEF NoAddressLeft
  <2>2. CASE Connected(e) \/ NextAddress(e)
    <3>1. done' = done /\ \A f \in Entries : state'[f] = "done" <=> state[f] = "done"
      BY <2>2, <1>1, <1>k DEF Connected, NextAddress, entryVars, EntryTypes
    <3> QED
      BY <1>1, <3>1, DoneStays
  <2> QED
    BY <2>1, <2>2 DEF Over
<1>5. Answered(e)' /\ Owed(e)' /\ Watched(e)'
  BY <1>1, <1>2, <1>3 DEF Answered, Owed, Silent, Watched
<1> QED
  BY <1>1, <1>3, <1>4, <1>5, EventKeeps

\* The request is written.
LEMMA WriteSteps ==
  ASSUME Parts, Typed', NEW e \in Entries, Write(e)
  PROVE  Parts'
<1>k. EntryRight(e) /\ EntryTypes /\ WireTypes /\ None \notin Conns
  BY EntryKnows
<1>1. /\ pc = "loop" /\ state[e] = "writing" /\ ~Starting(e)
      /\ UNCHANGED callVars /\ UNCHANGED poolVars /\ UNCHANGED <<conn, result, got, came, aiList, done>>
  BY InLoop DEF Write, Event
<1>2. conn[e] # None /\ conn[e] \in Conns /\ asked[conn[e]] = <<>> /\ came[conn[e]] = <<>> /\ got[e] = 0
  BY <1>1, <1>k DEF EntryRight, Watched, Owed, Answered, EntryTypes, Silent
<1>3. /\ state'[e] = "reading" /\ armed'[e] = "in" /\ wrote'[e] = serial + 1
      /\ partly'[e] = FALSE
      /\ \A f \in Entries \ {e} : /\ state'[f] = state[f] /\ armed'[f] = armed[f] /\ partly'[f] = partly[f]
                                  /\ wrote'[f] = wrote[f]
  BY <1>k DEF Write, EntryTypes, WireTypes
<1>4. /\ asked'[conn[e]] = asked[conn[e]] \/ asked'[conn[e]] = Append(asked[conn[e]], serial + 1)
      /\ \A c \in Conns : c # conn[e] => asked'[c] = asked[c]
  BY <1>2, <1>k DEF Write, WireTypes
<1>5. asked'[conn[e]] = <<>> \/ asked'[conn[e]] = <<serial + 1>>
  <2>1. \A x : Append(<<>>, x) = <<x>>
    OBVIOUS
  <2> QED
    BY <1>2, <1>4, <2>1
<1>6. DoneCounted'
  <2>1. \A f \in Entries : state'[f] = "done" <=> state[f] = "done"
    BY <1>1, <1>3
  <2> QED
    BY <1>1, <2>1, DoneStays
<1>7. Answered(e)' /\ Watched(e)'
  BY <1>1, <1>2, <1>3 DEF Answered, Watched
<1>8. Owed(e)'
  <2>1. conn' = conn /\ came'[conn[e]] = <<>> /\ ~Starting(e)'
    BY <1>1, <1>2 DEF Starting, callVars
  <2>2. Silent(conn[e])' \/ (asked'[conn[e]] = <<wrote'[e]>> /\ came'[conn[e]] = <<>>)
    BY <1>3, <1>5, <2>1 DEF Silent
  <2> QED
    BY ONLY <1>3, <2>1, <2>2 DEF Owed
<1> QED
  BY <1>1, <1>3, <1>4, <1>6, <1>7, <1>8, EventKeeps DEF callVars

\* The entry starts once more.
LEMMA RestartSteps ==
  ASSUME Parts, Typed', NEW e \in Entries, pc = "loop", Restart(e),
         state[e] \in {"writing", "reading"}, state[e] = "reading" => ~partly[e]
  PROVE  Parts'
<1>k. EntryRight(e) /\ EntryTypes
  BY EntryKnows
<1>1. /\ pc' = "get" /\ cur' = e /\ ix' = ix /\ Close(conn[e]) /\ aiList' = aiList \ {conn[e]}
      /\ conn' = [conn EXCEPT ![e] = None] /\ armed' = [armed EXCEPT ![e] = "none"]
      /\ UNCHANGED <<state, result, partly, wrote, got, asked, came, done>>
  BY DEF Restart
<1>2. /\ \A f \in Entries : ~Starting(f) /\ f < ix /\ ~(f >= ix)
      /\ conn[e] # None /\ got[e] = 0
  <2>1. \A f \in Entries : ~Starting(f) /\ f < ix /\ ~(f >= ix)
    <3>1. \A f \in Entries : ~Starting(f) /\ f < ix /\ f \in Nat /\ ix \in Nat
      BY InLoop
    <3>2. \A f \in Nat : f < ix /\ ix \in Nat => ~(f >= ix)
      OBVIOUS
    <3> QED
      BY <3>1, <3>2
  <2> QED
    BY <2>1, <1>k DEF EntryRight, Watched, Answered
<1>3. conn'[e] = None /\ \A f \in Entries \ {e} : conn'[f] = conn[f] /\ armed'[f] = armed[f]
  BY <1>1, <1>k DEF EntryTypes
<1>4. OthersSame(e)
  BY <1>1, <1>2, <1>3 DEF OthersSame, Starting, First
<1>5. DoneCounted'
  BY <1>1, DoneStays
<1>6. Placed(e)' /\ Answered(e)' /\ Starting(e)'
  BY <1>1, <1>2, <1>3 DEF Placed, Answered, Starting
<1> QED
  BY <1>1, <1>2, <1>3, <1>4, <1>5, <1>6, ClosesKeep

\* The peer is gone.
LEMMA BrokenSteps ==
  ASSUME Parts, Typed', NEW e \in Entries, WriteFails(e) \/ Eof(e)
  PROVE  Parts'
<1>k. EntryRight(e) /\ EntryTypes
  BY EntryKnows
<1>1. pc = "loop" /\ ~Starting(e) /\ state[e] \in {"writing", "reading"}
  BY InLoop DEF WriteFails, Eof, Event
<1>2. conn[e] # None /\ (state[e] = "writing" => Silent(conn[e]) /\ got[e] = 0)
  BY <1>1, <1>k DEF EntryRight, Watched, Owed, Answered
<1>3. CASE Restart(e) /\ (state[e] = "reading" => ~partly[e])
  BY <1>1, <1>3, RestartSteps
<1>4. ASSUME NEW r \in {"ok", "recv", "send"}, Done(e, r), r = "ok" => state[e] = "reading" /\ partly[e],
             UNCHANGED <<poolVars, netVars, conn, fromPool, retried, keepAlive, partly, armed, wrote, got, callVars, serial>>
      PROVE  Parts'
  <2>1. /\ state'[e] = "done" /\ result'[e] = r
        /\ \A f \in Entries \ {e} : state'[f] = state[f] /\ result'[f] = result[f]
    BY <1>4, <1>k DEF Done, EntryTypes
  <2>2. DoneCounted'
    <3>1. state[e] # "done" /\ pc # "idle"
      BY <1>1
    <3> QED
      BY <1>4, <3>1, OneMoreDone
  <2>3. UNCHANGED <<aiList, asked, came>> /\ UNCHANGED poolVars /\ UNCHANGED callVars
        /\ UNCHANGED <<conn, partly, armed, wrote, got>>
    BY <1>4 DEF netVars
  <2>4. Answered(e)' /\ Watched(e)'
    <3>1. got[e] # 0 => got[e] = wrote[e]
      BY <1>k DEF EntryRight, Answered
    <3>2. ~Starting(e)'
      BY <1>1, <2>3 DEF callVars, Starting
    <3> QED
      BY <2>1, <2>3, <3>1, <3>2 DEF Answered, Watched
  <2>5. Owed(e)'
    <3>1. r = "ok" => Silent(conn[e])
      BY <1>2, <1>4, <1>k DEF EntryRight, Owed
    <3>2. ~Starting(e)'
      BY <1>1, <2>3 DEF callVars, Starting
    <3> QED
      BY <2>1, <2>3, <3>1, <3>2 DEF Owed, Silent
  <2> QED
    BY <1>1, <2>1, <2>2, <2>3, <2>4, <2>5, EventKeeps DEF callVars
<1> QED
  BY <1>1, <1>3, <1>4 DEF WriteFails, Eof, Event


\* An answer comes, or a part of one.
LEMMA ReadSteps ==
  ASSUME Parts, Typed', NEW e \in Entries, Read(e) \/ ReadPart(e)
  PROVE  Parts'
<1>k. EntryRight(e) /\ EntryTypes /\ WireTypes /\ None \notin Conns
  BY EntryKnows
<1>1. /\ pc = "loop" /\ state[e] = "reading" /\ ~Starting(e) /\ came[conn[e]] # <<>>
      /\ UNCHANGED callVars /\ UNCHANGED poolVars /\ UNCHANGED <<conn, armed, wrote, asked, aiList>>
      /\ came' = [came EXCEPT ![conn[e]] = Tail(came[conn[e]])]
      /\ got' = [got EXCEPT ![e] = Head(came[conn[e]]).id]
  BY InLoop DEF Read, ReadPart, Event
<1>2. conn[e] # None /\ conn[e] \in Conns /\ armed[e] = "in"
  BY <1>1, <1>k DEF EntryRight, Watched, EntryTypes
<1>3. asked[conn[e]] = <<>> /\ \E w \in BOOLEAN : came[conn[e]] = <<[id |-> wrote[e], whole |-> w]>>
  BY <1>1, <1>2, <1>k DEF EntryRight, Owed, Silent
<1>4. PICK w \in BOOLEAN : came[conn[e]] = <<[id |-> wrote[e], whole |-> w]>>
  BY <1>3
<1>5. /\ came'[conn[e]] = <<>> /\ got'[e] = wrote[e]
      /\ \A c \in Conns : c # conn[e] => came'[c] = came[c]
      /\ \A f \in Entries \ {e} : got'[f] = got[f]
  <2>1. \A x : Head(<<x>>) = x /\ Tail(<<x>>) = <<>>
    OBVIOUS
  <2>2. Head(came[conn[e]]).id = wrote[e] /\ Tail(came[conn[e]]) = <<>>
    <3> DEFINE x == [id |-> wrote[e], whole |-> w]
    <3>1. x.id = wrote[e]
      OBVIOUS
    <3> HIDE DEF x
    <3>2. Head(<<x>>) = x /\ Tail(<<x>>) = <<>>
      BY <2>1
    <3>3. came[conn[e]] = <<x>>
      BY <1>4 DEF x
    <3> QED
      BY <3>1, <3>2, <3>3
  <2>3. came' = [came EXCEPT ![conn[e]] = <<>>] /\ got' = [got EXCEPT ![e] = wrote[e]]
    BY <1>1, <2>2
  <2> QED
    BY <1>2, <1>k, <2>3 DEF WireTypes
<1>6. /\ state'[e] = "done" \/ (state'[e] = "reading" /\ partly'[e])
      /\ \A f \in Entries \ {e} : state'[f] = state[f] /\ result'[f] = result[f] /\ partly'[f] = partly[f]
  <2>1. CASE ReadPart(e)
    BY <2>1, <1>1, <1>k DEF ReadPart, EntryTypes
  <2>2. CASE Read(e)
    <3>1. PICK r \in {"ok", "parse"} : Done(e, r)
      BY <2>2 DEF Read
    <3>2. partly' = partly
      BY <2>2 DEF Read
    <3> QED
      BY <3>1, <3>2, <1>k DEF Done, EntryTypes
  <2> QED
    BY <2>1, <2>2
<1>7. DoneCounted'
  <2>1. CASE ReadPart(e)
    BY <2>1, <1>1, DoneStays DEF ReadPart
  <2>2. CASE Read(e)
    <3>1. PICK r \in {"ok", "parse"} : Done(e, r)
      BY <2>2 DEF Read
    <3> QED
      BY <3>1, <1>1, OneMoreDone
  <2> QED
    BY <2>1, <2>2
<1>8. ~Starting(e)' /\ conn'[e] = conn[e] /\ wrote'[e] = wrote[e] /\ armed'[e] = armed[e] /\ asked'[conn[e]] = <<>>
  BY <1>1, <1>3 DEF Starting, callVars
<1>9. Answered(e)' /\ Watched(e)'
  BY ONLY <1>2, <1>5, <1>6, <1>8 DEF Answered, Watched
<1>10. Owed(e)'
  BY ONLY <1>5, <1>8 DEF Owed, Silent
<1> QED
  BY <1>1, <1>5, <1>6, <1>7, <1>9, <1>10, EventKeeps DEF callVars

\* Any event.
LEMMA EventSteps ==
  ASSUME Parts, Typed', NEW e \in Entries, Handle(e)
  PROVE  Parts'
<1>1. CASE FinishConnect(e)
  BY <1>1, OverIs, ConnectSteps DEF Event, Events, callVars
<1> QED
  BY <1>1, HandshakeSteps, WriteSteps, BrokenSteps, ReadSteps DEF Handle

\* The handshake ends, by what the peer sends or when it closes.
LEMMA ShakenSteps ==
  ASSUME Parts, Typed', PeerShakes \/ HandshakeCut
  PROVE  Parts'
<1>1. cur \in Entries /\ EntryRight(cur)
  BY DEF Parts, TypeOK
<1> QED
  BY <1>1, OverIs, ConnectSteps DEF EntryRight, Placed

-----------------------------------------------------------------------------
(* Steps of the whole batch                                                *)

\* The pool and the connections are left alone by what moves all entries on.
LEMMA BatchKeeps ==
  ASSUME Parts, Typed', DoneCounted', UNCHANGED poolVars, UNCHANGED netVars, UNCHANGED <<conn, armed>>,
         pc' \in Events => ix' > NEntries,
         \A e \in Entries : Placed(e)' /\ Answered(e)' /\ Owed(e)' /\ (~Starting(e)' => Watched(e)')
  PROVE  Parts'
<1>1. Pooled' = Pooled /\ open' = open
  BY DEF poolVars, Pooled, Idle
<1>2. PoolRight'
  BY <1>1 DEF poolVars, Parts, PoolRight, PoolTypeOK, PoolCounted, PoolSound, Idle
<1>3. TypeOK'
  BY <1>2, TypeOKIs, PTL DEF Typed, PoolRight
<1>4. AddressesReleased' /\ \A c \in Pooled' : Silent(c)'
  BY <1>1 DEF Parts, AddressesReleased, Silent, netVars
<1>5. \A e \in Entries : EntryRight(e)'
  BY <1>1 DEF Parts, EntryRight
<1>6. /\ \A e \in Entries, f \in Entries : conn'[e] # None /\ conn'[f] = conn'[e] => e = f
      /\ open' \subseteq Pooled' \cup {conn'[e] : e \in Entries}
  BY <1>1 DEF Parts
<1> QED
  BY <1>2, <1>3, <1>4, <1>5, <1>6 DEF Parts

\* The loops begin and end, the deadline passes.
LEMMA LoopSteps ==
  ASSUME Parts, Typed', BeginEnds \/ AllDone \/ Returns \/ DeadlinePasses
  PROVE  Parts'
<1>t. /\ LoopTypes /\ EntryTypes /\ done \in 0 .. NEntries
      /\ \A e \in Entries : e \in Nat /\ e <= NEntries /\ e >= 1
      /\ NEntries \in Nat /\ ix \in Nat
  BY TypeOKIs, Numbers DEF Parts, LoopTypes
<1>1. /\ UNCHANGED poolVars /\ UNCHANGED netVars /\ UNCHANGED entryVars /\ cur' = cur
      /\ \/ pc = "begin" /\ pc' = "loop" /\ ix > NEntries /\ ix' = ix
         \/ pc = "loop" /\ pc' = "cleanup" /\ ix' = 1 /\ done >= NEntries
         \/ pc = "cleanup" /\ pc' = "idle" /\ ix > NEntries /\ ix' = ix
         \/ pc' = pc /\ ix' = ix
  BY DEF BeginEnds, AllDone, Returns, DeadlinePasses
<1>2. UNCHANGED <<state, conn, result, armed, partly, wrote, got, done, asked, came>>
  BY <1>1 DEF entryVars, netVars
<1>3. DoneCounted'
  BY <1>1, <1>2, DoneStays
<1>4. ASSUME pc = "loop", done >= NEntries PROVE \A e \in Entries : state[e] = "done"
  <2> DEFINE D == {e \in Entries : state[e] = "done"}
  <2>1. done = Cardinality(D)
    BY <1>4 DEF Parts, DoneCounted
  <2>2. done = NEntries
    BY <1>4, <1>t
  <2>3. D \in SUBSET Entries
    OBVIOUS
  <2> HIDE DEF D
  <2>4. D = Entries
    BY <2>1, <2>2, <2>3, EntriesFinite, FS_Subset
  <2> QED
    BY <2>4 DEF D
<1>5. ASSUME NEW e \in Entries PROVE Placed(e)' /\ Answered(e)' /\ Owed(e)' /\ (~Starting(e)' => Watched(e)')
  <2>1. EntryRight(e)
    BY DEF Parts
  <2>2. Starting(e)' <=> Starting(e)
    BY <1>1 DEF Starting
  <2>3. Answered(e)' /\ Owed(e)' /\ (~Starting(e)' => Watched(e)')
    BY <1>2, <2>1, <2>2 DEF EntryRight, Answered, Owed, Silent, Watched
  <2>4. e \in Nat /\ e <= NEntries /\ e >= 1 /\ NEntries \in Nat /\ ix \in Nat
    BY <1>t
  <2>5. Placed(e)'
    <3>1. CASE pc' = pc /\ ix' = ix
      BY <1>1, <1>2, <2>1, <2>2, <3>1 DEF EntryRight, Placed
    <3>2. CASE pc' = "loop"
      BY <3>2 DEF Placed, First, Starting
    <3>3. CASE pc = "loop" /\ pc' = "cleanup" /\ ix' = 1 /\ done >= NEntries
      <4>1. state[e] = "done" /\ ~(e < 1)
        <5>1. state[e] = "done"
          BY <3>3, <1>4
        <5> QED
          BY <5>1, <2>4
      <4> QED
        BY <1>2, <3>3, <4>1 DEF Placed, First, Starting
    <3>4. CASE pc = "cleanup" /\ pc' = "idle" /\ ix > NEntries
      <4>1. e < ix
        BY <2>4, <3>4
      <4> QED
        BY <1>2, <2>1, <3>4, <4>1 DEF EntryRight, Placed, First, Starting
    <3> QED
      BY <1>1, <3>1, <3>2, <3>3, <3>4
  <2> QED
    BY <2>3, <2>5
<1>6. pc' \in Events => ix' > NEntries
  BY <1>1 DEF Parts
<1> QED
  BY <1>1, <1>2, <1>3, <1>5, <1>6, BatchKeeps

\* A new batch.
LEMMA PerformSteps ==
  ASSUME Parts, Typed', Perform
  PROVE  Parts'
<1>1. /\ pc = "idle" /\ pc' = "begin" /\ ix' = 1 /\ cur' = cur /\ done' = 0
      /\ UNCHANGED poolVars /\ UNCHANGED netVars /\ UNCHANGED <<conn, armed>>
      /\ \A e \in Entries : state'[e] = "init" /\ got'[e] = 0
  BY DEF Perform
<1>2. DoneCounted'
  <2>1. {e \in Entries : state'[e] = "done"} = {}
    BY <1>1
  <2> QED
    BY <1>1, <2>1, FS_EmptySet DEF DoneCounted
<1>3. ASSUME NEW e \in Entries PROVE Placed(e)' /\ Answered(e)' /\ Owed(e)' /\ (~Starting(e)' => Watched(e)')
  <2>1. conn'[e] = None
    BY <1>1 DEF Parts, EntryRight, Placed
  <2> QED
    BY <1>1, <2>1 DEF Placed, Answered, Owed, Watched, Starting
<1> QED
  BY <1>1, <1>2, <1>3, BatchKeeps

\* The deadline ends what is not done.
LEMMA EndAllSteps ==
  ASSUME Parts, Typed', EndAll
  PROVE  Parts'
<1>1. PICK r \in {"timeout", "recv"} : result' = [e \in Entries |-> IF state[e] = "done" THEN result[e] ELSE r]
  BY DEF EndAll
<1>2. /\ pc = "loop" /\ pc' = "cleanup" /\ ix' = 1
      /\ state' = [e \in Entries |-> "done"]
      /\ done' = done + Cardinality({e \in Entries : state[e] # "done"})
      /\ UNCHANGED poolVars /\ UNCHANGED netVars /\ UNCHANGED <<conn, armed, wrote, got, partly>>
  BY DEF EndAll
<1>3. done' = NEntries
  <2> DEFINE D == {e \in Entries : state[e] = "done"}
             N == {e \in Entries : state[e] # "done"}
  <2>1. IsFiniteSet(D) /\ IsFiniteSet(N) /\ Cardinality(D) \in Nat /\ Cardinality(N) \in Nat
    BY EntriesFinite, FS_CardinalityType
  <2>2. D \cup N = Entries /\ D \cap N = {} /\ Cardinality({}) = 0 /\ Cardinality(Entries) = NEntries
    BY FS_EmptySet, EntriesFinite
  <2>3. Cardinality(D \cup N) = Cardinality(D) + Cardinality(N) - Cardinality(D \cap N)
    BY <2>1, FS_Union
  <2>4. done = Cardinality(D)
    BY <1>2 DEF Parts, DoneCounted
  <2> HIDE DEF D, N
  <2>5. Cardinality(D) + Cardinality(N) = NEntries
    <3>1. Cardinality(D \cup N) = NEntries /\ Cardinality(D \cap N) = 0
      BY <2>2
    <3> QED
      BY <2>1, <2>3, <3>1
  <2> QED
    BY <1>2, <2>4, <2>5 DEF N
<1>4. DoneCounted'
  <2>1. {e \in Entries : state'[e] = "done"} = Entries
    BY <1>2
  <2> QED
    BY <1>3, <2>1, EntriesFinite DEF DoneCounted
<1>5. ASSUME NEW e \in Entries PROVE Placed(e)' /\ Answered(e)' /\ Owed(e)' /\ (~Starting(e)' => Watched(e)')
  <2>1. EntryRight(e)
    BY DEF Parts
  <2>2. /\ state'[e] = "done" /\ ~Starting(e)' /\ ~(e < 1)
        /\ result'[e] = "ok" => state[e] = "done" /\ result[e] = "ok"
    <3>1. e \in Nat /\ e >= 1
      BY Numbers
    <3> QED
      BY <1>1, <1>2, <3>1 DEF Starting
  <2>3. Placed(e)' /\ Watched(e)'
    BY <1>2, <2>2 DEF Placed, Watched, First
  <2>4. Answered(e)'
    BY <1>2, <2>1, <2>2 DEF EntryRight, Answered
  <2>5. Owed(e)'
    <3>1. conn'[e] = conn[e] /\ asked' = asked /\ came' = came
      BY <1>2 DEF netVars
    <3>2. Owed(e)
      BY <2>1 DEF EntryRight
    <3> QED
      BY ONLY <2>2, <3>1, <3>2 DEF Owed, Silent
  <2> QED
    BY <2>3, <2>4, <2>5
<1> QED
  BY <1>2, <1>4, <1>5, BatchKeeps


-----------------------------------------------------------------------------
(* The network                                                             *)

\* A connect ends, and peers answer and close.
LEMMA NetKeeps ==
  ASSUME Parts, Typed', Net
  PROVE  Parts'
<1>1. UNCHANGED poolVars /\ UNCHANGED entryVars /\ UNCHANGED callVars /\ aiList' = aiList
  BY DEF Net, ConnectEnds, PeerAnswers, PeerCutsShort, PeerCloses, netOnly
<1>2. /\ UNCHANGED <<state, conn, result, armed, partly, wrote, got, done>> /\ UNCHANGED <<pc, ix, cur>>
      /\ Pooled' = Pooled /\ open' = open
  BY <1>1 DEF entryVars, callVars, poolVars, Pooled, Idle
<1>t. WireTypes /\ open \subseteq Conns
  BY TypeOKIs DEF Parts, PoolTypeOK
<1>3. \A c \in Conns : \/ asked'[c] = asked[c] /\ came'[c] = came[c]
                       \/ asked'[c] = <<>> /\ came'[c] = came[c]
                       \/ /\ asked[c] # <<>> /\ asked'[c] \in {<<>>, Tail(asked[c])}
                          /\ \E w \in BOOLEAN : came'[c] = Append(came[c], [id |-> Head(asked[c]), whole |-> w])
  <2>1. ASSUME NEW d \in Conns, NEW c \in Conns, c # d,
               ConnectEnds(d) \/ PeerAnswers(d) \/ PeerCutsShort(d) \/ PeerCloses(d)
        PROVE  asked'[c] = asked[c] /\ came'[c] = came[c]
    BY <2>1, <1>t DEF ConnectEnds, PeerAnswers, PeerCutsShort, PeerCloses, WireTypes
  <2>2. ASSUME NEW c \in Conns, ConnectEnds(c) \/ PeerCloses(c)
        PROVE  asked'[c] \in {<<>>, asked[c]} /\ came'[c] = came[c]
    BY <2>2, <1>t DEF ConnectEnds, PeerCloses, WireTypes
  <2>3. ASSUME NEW c \in Conns, PeerAnswers(c) \/ PeerCutsShort(c)
        PROVE  /\ asked[c] # <<>> /\ asked'[c] \in {<<>>, Tail(asked[c])}
               /\ \E w \in BOOLEAN : came'[c] = Append(came[c], [id |-> Head(asked[c]), whole |-> w])
    BY <2>3, <1>t DEF PeerAnswers, PeerCutsShort, WireTypes
  <2>4. PICK d \in Conns : ConnectEnds(d) \/ PeerAnswers(d) \/ PeerCutsShort(d) \/ PeerCloses(d)
    BY DEF Net
  <2> QED
    BY <2>1, <2>2, <2>3, <2>4
<1>4. \A c \in Conns : Silent(c) => Silent(c)'
  BY <1>3 DEF Silent
<1>5. ASSUME NEW c \in Conns, NEW i,
             \/ asked[c] = <<i>> /\ came[c] = <<>>
             \/ \E w \in BOOLEAN : asked[c] = <<>> /\ came[c] = <<[id |-> i, whole |-> w]>>
      PROVE  \/ Silent(c)'
             \/ asked'[c] = <<i>> /\ came'[c] = <<>>
             \/ \E w \in BOOLEAN : asked'[c] = <<>> /\ came'[c] = <<[id |-> i, whole |-> w]>>
  <2>1. \A x : Tail(<<x>>) = <<>> /\ Head(<<x>>) = x /\ Append(<<>>, x) = <<x>>
    OBVIOUS
  <2>2. CASE asked[c] = <<i>> /\ came[c] = <<>>
    <3>1. CASE asked'[c] \in {<<>>, asked[c]} /\ came'[c] = came[c]
      BY <2>2, <3>1 DEF Silent
    <3>2. ASSUME asked'[c] \in {<<>>, Tail(asked[c])}, NEW w \in BOOLEAN,
                 came'[c] = Append(came[c], [id |-> Head(asked[c]), whole |-> w])
          PROVE  asked'[c] = <<>> /\ came'[c] = <<[id |-> i, whole |-> w]>>
      <4>1. Head(asked[c]) = i /\ Tail(asked[c]) = <<>>
        BY <2>1, <2>2
      <4>2. came'[c] = Append(<<>>, [id |-> i, whole |-> w])
        BY <2>2, <3>2, <4>1
      <4> QED
        BY <2>1, <3>2, <4>1, <4>2
    <3> QED
      BY <1>3, <3>1, <3>2
  <2>3. CASE asked[c] = <<>> /\ \E w \in BOOLEAN : came[c] = <<[id |-> i, whole |-> w]>>
    BY <1>3, <2>3
  <2> QED
    BY <1>5, <2>2, <2>3
<1>6. ASSUME NEW e \in Entries PROVE EntryRight(e)'
  <2>1. EntryRight(e)
    BY DEF Parts
  <2>2. Starting(e)' <=> Starting(e)
    BY <1>2 DEF Starting
  <2>3. Placed(e)' /\ Answered(e)' /\ (~Starting(e)' => Watched(e)')
    BY <1>2, <2>1, <2>2 DEF EntryRight, Placed, Answered, Watched
  <2>4. conn[e] # None => conn[e] \in open \ Pooled /\ conn[e] \in Conns
    BY <1>t, <2>1 DEF EntryRight
  <2>5. Owed(e)'
    <3>1. CASE conn[e] = None
      BY <1>2, <3>1 DEF Owed
    <3>2. CASE conn[e] # None
      <4>1. conn[e] \in Conns /\ Owed(e)
        BY <2>1, <2>4, <3>2 DEF EntryRight
      <4>2. Silent(conn[e]) => (asked'[conn[e]] = <<>> /\ came'[conn[e]] = <<>>)
        BY <1>4, <4>1 DEF Silent
      <4>3. \/ asked[conn[e]] = <<wrote[e]>> /\ came[conn[e]] = <<>>
            \/ \E w \in BOOLEAN : asked[conn[e]] = <<>> /\ came[conn[e]] = <<[id |-> wrote[e], whole |-> w]>>
            => \/ asked'[conn[e]] = <<>> /\ came'[conn[e]] = <<>>
               \/ asked'[conn[e]] = <<wrote[e]>> /\ came'[conn[e]] = <<>>
               \/ \E w \in BOOLEAN : asked'[conn[e]] = <<>> /\ came'[conn[e]] = <<[id |-> wrote[e], whole |-> w]>>
        BY <1>5, <4>1 DEF Silent
      <4>4. conn'[e] = conn[e] /\ state'[e] = state[e] /\ result'[e] = result[e] /\ partly'[e] = partly[e] /\ wrote'[e] = wrote[e]
        BY <1>2
      <4> QED
        BY ONLY <2>2, <3>2, <4>1, <4>2, <4>3, <4>4 DEF Owed, Silent
    <3> QED
      BY <3>1, <3>2
  <2> QED
    BY <1>2, <2>3, <2>4, <2>5 DEF EntryRight
<1>7. PoolRight'
  BY <1>1, <1>2 DEF poolVars, Parts, PoolRight, PoolTypeOK, PoolCounted, PoolSound, Idle
<1>8. TypeOK'
  BY <1>7, TypeOKIs, PTL DEF Typed, PoolRight
<1>9. DoneCounted' /\ AddressesReleased'
  BY <1>1, <1>2, DoneStays DEF Parts, AddressesReleased
<1>10. \A c \in Pooled' : Silent(c)'
  BY <1>2, <1>4, PoolFacts DEF Parts
<1> QED
  BY <1>2, <1>6, <1>7, <1>8, <1>9, <1>10 DEF Parts

-----------------------------------------------------------------------------
(* The theorems                                                            *)

\* Every step keeps the invariant.
LEMMA SoundStep == Sound /\ [Next]_vars => Sound'
<1> SUFFICES ASSUME Sound, [Next]_vars PROVE Sound'
  OBVIOUS
<1>1. Parts
  BY SoundParts
<1>2. TypeOK /\ \A e \in Entries : EntryRight(e)
  BY <1>1 DEF Parts
<1>3. LoopTypes' /\ EntryTypes' /\ WireTypes' /\ SocketTypes'
  BY <1>2, LoopTypesKeep, EntryTypesKeep, WireTypesKeep, SocketTypesKeep
<1>4. done' \in 0 .. NEntries
  <2>1. done \in 0 .. NEntries /\ 0 \in 0 .. NEntries
    BY <1>2, Numbers DEF TypeOK
  <2>2. ASSUME NEW e \in Entries, NEW r, Done(e, r), state[e] # "done", pc # "idle" PROVE done' \in 0 .. NEntries
    BY <1>1, <2>2, OneMoreDone
  <2>3. cur \in Entries /\ (pc = "begin" /\ ix <= NEntries => ix \in Entries /\ state[ix] # "done")
    <3>1. cur \in Entries /\ (ix <= NEntries => ix \in Entries /\ ix >= ix)
      BY <1>2, Numbers DEF TypeOK
    <3> QED
      BY <1>2, <3>1 DEF EntryRight, Placed, First
  <2>4. pc = "create" => state[cur] # "done"
    BY <1>2, <2>3 DEF EntryRight, Placed, Starting
  <2>5. CASE CreateFails \/ Begin
    BY <2>1, <2>2, <2>3, <2>4, <2>5 DEF CreateFails, Begin
  <2>0. ASSUME NEW e \in Entries, Over(e), state[e] = "connecting", pc # "idle" PROVE done' \in 0 .. NEntries
    BY <2>0, <2>1, <2>2 DEF Over, Connected, NextAddress, NoAddressLeft, entryVars
  <2>10. CASE PeerShakes \/ HandshakeCut
    BY <1>2, <2>0, <2>3, <2>10, OverIs DEF EntryRight, Placed
  <2>6. ASSUME NEW e \in Entries, Handle(e) PROVE done' \in 0 .. NEntries
    <3>0. CASE FinishConnect(e)
      BY <2>0, <3>0, OverIs DEF Event
    <3>1. CASE WriteFails(e)
      BY <2>1, <2>2, <3>1 DEF WriteFails, Restart, Event
    <3>2. CASE Read(e)
      BY <2>2, <3>2 DEF Read, Event
    <3>3. CASE Eof(e)
      BY <2>1, <2>2, <3>3 DEF Eof, Restart, Event
    <3>4. CASE Handshake(e) \/ Write(e) \/ ReadPart(e)
      BY <2>1, <3>4 DEF Handshake, Write, ReadPart, entryVars
    <3> QED
      BY <2>6, <3>0, <3>1, <3>2, <3>3, <3>4 DEF Handle
  <2>7. CASE EndAll
    <3> DEFINE D == {e \in Entries : state[e] = "done"}
               N == {e \in Entries : state[e] # "done"}
    <3>1. IsFiniteSet(D) /\ IsFiniteSet(N) /\ Cardinality(D) \in Nat /\ Cardinality(N) \in Nat
      BY EntriesFinite, FS_CardinalityType
    <3>2. D \cup N = Entries /\ D \cap N = {} /\ Cardinality({}) = 0 /\ Cardinality(Entries) = NEntries
      BY FS_EmptySet, EntriesFinite
    <3>3. Cardinality(D \cup N) = Cardinality(D) + Cardinality(N) - Cardinality(D \cap N)
      BY <3>1, FS_Union
    <3>4. done = Cardinality(D) /\ done' = done + Cardinality(N)
      BY <1>1, <2>7 DEF EndAll, Parts, DoneCounted
    <3> HIDE DEF D, N
    <3>5. Cardinality(D \cup N) = NEntries /\ Cardinality(D \cap N) = 0
      BY <3>2
    <3> QED
      BY <3>1, <3>3, <3>4, <3>5, Numbers
  <2>8. CASE Get \/ PeekAlive \/ PeekDead \/ Create \/ BeginEnds \/ AllDone \/ Cleanup \/ Returns \/ Perform \/ DeadlinePasses
    BY <2>1, <2>8 DEF Get, PeekAlive, PeekDead, Create, BeginEnds, AllDone, Cleanup, Returns, Perform, DeadlinePasses, entryVars
  <2>9. CASE Net \/ UNCHANGED vars
    BY <2>1, <2>9 DEF Net, ConnectEnds, PeerAnswers, PeerCutsShort, PeerCloses, netOnly, vars, entryVars
  <2> QED
    BY <2>5, <2>6, <2>7, <2>8, <2>9, <2>10 DEF Next, Run
<1>5. Typed'
  BY <1>3, <1>4 DEF Typed
<1>6. Parts'
  <2>1. CASE UNCHANGED vars
    <3>1. UNCHANGED <<poolVars, entryVars, netVars, callVars, serial>>
      BY <2>1 DEF vars
    <3>2. /\ UNCHANGED poolVars /\ UNCHANGED netVars /\ UNCHANGED <<conn, armed>> /\ pc' = pc /\ ix' = ix /\ done' = done
          /\ UNCHANGED <<cur, state, result, partly, wrote, got>> /\ UNCHANGED <<asked, came>>
      BY <3>1 DEF entryVars, netVars, callVars
    <3>3. DoneCounted'
      BY <1>1, <3>2, DoneStays
    <3>4. ASSUME NEW e \in Entries PROVE Placed(e)' /\ Answered(e)' /\ Owed(e)' /\ (~Starting(e)' => Watched(e)')
      <4>1. EntryRight(e)
        BY <1>2
      <4> QED
        BY ONLY <4>1, <3>2 DEF EntryRight, Placed, Answered, Owed, Silent, Watched, Starting
    <3>5. pc' \in Events => ix' > NEntries
      BY <1>1, <3>2 DEF Parts
    <3> QED
      BY <1>1, <1>5, <3>2, <3>3, <3>4, <3>5, BatchKeeps
  <2>2. cur \in Entries
    BY <1>2 DEF TypeOK
  <2>3. CASE Get \/ Create \/ PeekAlive \/ CreateFails \/ PeekDead
    BY <1>1, <1>5, <2>2, <2>3, GetSteps, CreateSteps, StartSteps, PeekDeadSteps
  <2>4. CASE Begin \/ Cleanup
    <3>1. ix \in Entries
      BY <1>2, <2>4, Numbers DEF TypeOK, Begin, Cleanup
    <3> QED
      BY <1>1, <1>5, <2>4, <3>1, BeginSteps, CleanupSteps
  <2>5. CASE BeginEnds \/ AllDone \/ Returns \/ DeadlinePasses
    BY <1>1, <1>5, <2>5, LoopSteps
  <2>6. CASE Perform
    BY <1>1, <1>5, <2>6, PerformSteps
  <2>7. CASE EndAll
    BY <1>1, <1>5, <2>7, EndAllSteps
  <2>8. CASE Net
    BY <1>1, <1>5, <2>8, NetKeeps
  <2>9. ASSUME NEW e \in Entries, Handle(e) PROVE Parts'
    BY <1>1, <1>5, <2>9, EventSteps
  <2>10. CASE PeerShakes \/ HandshakeCut
    BY <1>1, <1>5, <2>10, ShakenSteps
  <2> QED
    BY <2>1, <2>3, <2>4, <2>5, <2>6, <2>7, <2>8, <2>9, <2>10 DEF Next, Run
<1> QED
  BY <1>6, SoundParts, PTL

\* The pool's counters are exact; a connection is the pool's or one entry's; an address
\* list goes with the connect it was for; the counter that ends the loop counts each
\* entry once; what an entry is told answers what it wrote; what the pool has owes nothing.
THEOREM MultiSound == Spec => []MultiInv
<1>1. Sound => MultiInv
  BY DEF Sound
<1> QED
  BY <1>1, SoundInit, SoundStep, PTL DEF Spec
=============================================================================
